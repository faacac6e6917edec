----------------------------- MODULE WorkerLocks -----------------------------
(***************************************************************************)
(* The locks of package worker and the I/O done under them: worker.Mutex,  *)
(* an agent's embedded Mutex and its RWMutex connMu.  A goroutine runs one *)
(* operation, the sequence of what it locks, unlocks, dials, publishes and *)
(* writes; everything else the operation does is in modules Registration   *)
(* and Dispatch.  The sequences below are written method by method, and a  *)
(* method that calls another contains its sequence.                        *)
(*                                                                         *)
(* Ready has run and Work is running.  A connection is the number of its   *)
(* dial, and 0 is nil.  A server may stop reading, which blocks a write    *)
(* that has no deadline until somebody closes the socket.                  *)
(***************************************************************************)
EXTENDS Integers, Sequences, FiniteSets

CONSTANTS
  Users,     \* goroutines that call the worker's methods, or run a job
  MaxConn    \* bound on the number of dials

ASSUME WorkerLocksAssumption == MaxConn \in Nat \ {0} /\ "nobody" \notin Users

VARIABLES
  holder,            \* per Mutex: who holds it
  readers, writer,   \* connMu: its readers, and the one writer that holds it
                     \* or has announced itself
  closed,            \* worker.closed, and not worker.running
  conn,              \* agent.conn and agent.rw
  nconn,             \* dials that have succeeded
  socket,            \* per connection: "open", "stalled" or "dead"
  op,                \* per goroutine: its operation
  todo,              \* per goroutine: what is left of it
  snap, new          \* per goroutine: its snapshot of conn, its own dial

lockVars == <<holder, readers, writer>>
connVars == <<closed, conn, nconn, socket>>
vars == <<lockVars, connVars, op, todo, snap, new>>

Procs == {"loop"} \cup Users
Conns == 1..MaxConn
Nobody == "nobody"

-----------------------------------------------------------------------------
(* What holds a lock for the time of a body.  sync.RWMutex.Lock first      *)
(* announces itself, which keeps new readers out, and then waits for the   *)
(* present ones.                                                           *)

Locked(m, body) == <<<<"lock", m>>>> \o body \o <<<<"unlock", m>>>>
RLocked         == <<<<"rlock", "connMu">>, <<"runlock", "connMu">>>>
WLocked(body)   == <<<<"announce", "connMu">>, <<"drain", "connMu">>>> \o body
                     \o <<<<"wunlock", "connMu">>>>

(* A step that waits for nobody, and one that skips a body.                *)
Step(kind)     == <<<<kind, 0>>>>
If(test, body) == <<<<test, Len(body)>>>> \o body

(* agent.                                                                  *)
getConn == RLocked
getRW   == RLocked
setConn == WLocked(Step("publish"))
write   == getRW \o Step("write")
Write   == Locked("agent", write)
Grab    == Write

(* Mutant: Connect without its deferred Unlock.                            *)
ConnectKeepsLock ==
  <<<<"lock", "agent">>>> \o getConn \o If("ifNil", Step("dial") \o setConn)

Connect == Locked("agent", getConn \o If("ifNil", Step("dial") \o setConn))

(* Mutant: agent.Close under the embedded Mutex, as a writer takes it.     *)
CloseLocked == Locked("agent", WLocked(Step("close")))

agentClose == WLocked(Step("close"))

(* Worker.  exec uses the running it has read after it has unlocked.       *)
AddFunc      == Locked("worker", If("ifRunning", Write))
funcOutpacks == Locked("worker", << >>)
Ready        == Locked("worker", << >>) \o Connect \o Write \o Locked("worker", << >>)
Close        == Locked("worker", Step("setClosed")) \o agentClose
Reset        == Write \o Locked("worker", << >>)
exec         == Locked("worker", << >>) \o Locked("worker", << >>) \o If("either", Write)

(* Mutant: reconnect in one critical section of the embedded Mutex.        *)
reconnectLocked == Step("dial") \o Locked("agent", setConn \o funcOutpacks \o write \o write)

(* Mutant: reconnect calls grab where it should call Grab.                 *)
reconnectGrabs == Step("dial") \o setConn \o funcOutpacks \o Write \o write

reconnect == Step("dial") \o setConn \o funcOutpacks \o Write \o Grab

(* The two ways a work loop deals with a failed read: disconnect_error,    *)
(* where the error handler calls Reconnect, Close or nothing, and the      *)
(* redial.                                                                 *)
disconnect_error(handler) == getConn \o If("ifConn", handler)

redial == getConn \o Step("dial") \o setConn \o Step("closeOld")

-----------------------------------------------------------------------------
(* Who may run what.  Write stands for the methods that are no more than a *)
(* Write: Grab, PreSleep, Echo, SetId, SendData, SendWarning, UpdateStatus *)
(* and with them handleInPack.  RemoveFunc locks as AddFunc does.          *)

Operations(p) ==
  IF p = "loop"
  THEN {<<"disconnect", disconnect_error(h)>> : h \in {<< >>, reconnect, Close}}
         \cup {<<"redial", redial>>}
  ELSE {<<"Write", Write>>, <<"AddFunc", AddFunc>>, <<"Reset", Reset>>, <<"exec", exec>>,
        <<"Close", Close>>, <<"Ready", Ready>>}

Init ==
  /\ holder = [m \in {"worker", "agent"} |-> Nobody]
  /\ readers = {} /\ writer = Nobody
  /\ closed = FALSE /\ conn = 1 /\ nconn = 1 /\ socket = [n \in Conns |-> "open"]
  /\ op = [p \in Procs |-> "none"]
  /\ todo = [p \in Procs |-> << >>]
  /\ snap = [p \in Procs |-> 0] /\ new = [p \in Procs |-> 0]

(* A loop finds its connection dead, or the stream out of step.            *)
Begin(p) ==
  /\ op[p] = "none"
  /\ \E o \in Operations(p) :
       /\ o[1] = "disconnect" => socket[1] = "dead"
       /\ o[1] = "redial" => socket[1] # "dead"
       /\ op' = [op EXCEPT ![p] = o[1]]
       /\ todo' = [todo EXCEPT ![p] = o[2]]
  /\ UNCHANGED <<lockVars, connVars, snap, new>>

At(p, kind) == todo[p] # << >> /\ Head(todo[p])[1] = kind

(* Go on with rest; an operation that has nothing left has returned.       *)
Continue(p, rest) ==
  /\ todo' = [todo EXCEPT ![p] = rest]
  /\ op' = [op EXCEPT ![p] = IF rest = << >> THEN "returned" ELSE @]

Proceed(p) == Continue(p, Tail(todo[p]))

Lock(p) ==
  /\ At(p, "lock") /\ holder[Head(todo[p])[2]] = Nobody
  /\ holder' = [holder EXCEPT ![Head(todo[p])[2]] = p]
  /\ Proceed(p)
  /\ UNCHANGED <<readers, writer, connVars, snap, new>>

Unlock(p) ==
  /\ At(p, "unlock")
  /\ holder' = [holder EXCEPT ![Head(todo[p])[2]] = Nobody]
  /\ Proceed(p)
  /\ UNCHANGED <<readers, writer, connVars, snap, new>>

RLock(p) ==
  /\ At(p, "rlock") /\ writer = Nobody
  /\ readers' = readers \cup {p}
  /\ snap' = [snap EXCEPT ![p] = conn]
  /\ Proceed(p)
  /\ UNCHANGED <<holder, writer, connVars, new>>

RUnlock(p) ==
  /\ At(p, "runlock")
  /\ readers' = readers \ {p}
  /\ Proceed(p)
  /\ UNCHANGED <<holder, writer, connVars, snap, new>>

Announce(p) ==
  /\ At(p, "announce") /\ writer = Nobody
  /\ writer' = p
  /\ Proceed(p)
  /\ UNCHANGED <<holder, readers, connVars, snap, new>>

Drain(p) ==
  /\ At(p, "drain") /\ readers = {}
  /\ Proceed(p)
  /\ UNCHANGED <<lockVars, connVars, snap, new>>

WUnlock(p) ==
  /\ At(p, "wunlock")
  /\ writer' = Nobody
  /\ Proceed(p)
  /\ UNCHANGED <<holder, readers, connVars, snap, new>>

Branch(p) ==
  /\ \E test \in {"ifNil", "ifConn", "ifRunning", "either"}, taken \in BOOLEAN :
       /\ At(p, test)
       /\ test = "ifNil" => taken = (snap[p] = 0)
       /\ test = "ifConn" => taken = (snap[p] # 0)
       /\ test = "ifRunning" => taken = ~closed
       /\ Continue(p, SubSeq(todo[p], IF taken THEN 2 ELSE Head(todo[p])[2] + 2, Len(todo[p])))
  /\ snap' = [snap EXCEPT ![p] = 0]
  /\ UNCHANGED <<lockVars, connVars, new>>

(* closed and running; a second Close unlocks and returns.                 *)
SetClosed(p) ==
  /\ At(p, "setClosed")
  /\ closed' = TRUE
  /\ Continue(p, IF closed THEN <<<<"unlock", "worker">>>> ELSE Tail(todo[p]))
  /\ UNCHANGED <<lockVars, conn, nconn, socket, snap, new>>

DialSucceeds(p) ==
  /\ At(p, "dial") /\ nconn < MaxConn
  /\ nconn' = nconn + 1
  /\ new' = [new EXCEPT ![p] = nconn + 1]
  /\ Proceed(p)
  /\ UNCHANGED <<lockVars, closed, conn, socket, snap>>

(* The operation returns the error; what it has deferred is the Unlock of  *)
(* the Mutex it holds.  A redial also closes the old connection.           *)
DialFails(p) ==
  /\ At(p, "dial")
  /\ Continue(p, IF op[p] = "redial" THEN Step("closeOld")
                 ELSE IF holder["agent"] = p THEN <<<<"unlock", "agent">>>> ELSE << >>)
  /\ UNCHANGED <<lockVars, connVars, snap, new>>

Publish(p) ==
  /\ At(p, "publish")
  /\ conn' = new[p]
  /\ new' = [new EXCEPT ![p] = 0]
  /\ Proceed(p)
  /\ UNCHANGED <<lockVars, closed, nconn, socket, snap>>

(* rw.Write and rw.Flush on the snapshot: an error ends them too.          *)
WriteReturns(p) ==
  /\ At(p, "write") /\ (snap[p] # 0 => socket[snap[p]] # "stalled")
  /\ snap' = [snap EXCEPT ![p] = 0]
  /\ Proceed(p)
  /\ UNCHANGED <<lockVars, connVars, new>>

(* agent.Close leaves rw alone, so that later writes fail; and the redial, *)
(* which closes what it has replaced.                                      *)
CloseSocket(p) ==
  /\ \/ At(p, "close") /\ conn' = 0
     \/ At(p, "closeOld") /\ UNCHANGED conn
  /\ LET n == IF At(p, "close") THEN conn ELSE snap[p] IN
     socket' = IF n = 0 THEN socket ELSE [socket EXCEPT ![n] = "dead"]
  /\ snap' = [snap EXCEPT ![p] = 0]
  /\ Proceed(p)
  /\ UNCHANGED <<lockVars, closed, nconn, new>>

Run(p) ==
  \/ Lock(p) \/ Unlock(p) \/ RLock(p) \/ RUnlock(p) \/ Announce(p) \/ Drain(p) \/ WUnlock(p)
  \/ Branch(p) \/ SetClosed(p) \/ DialSucceeds(p) \/ DialFails(p) \/ Publish(p) \/ WriteReturns(p) \/ CloseSocket(p)

(* The server at the other end (external).                                 *)
Stall(n) ==
  /\ n <= nconn /\ socket[n] = "open"
  /\ socket' = [socket EXCEPT ![n] = "stalled"]
  /\ UNCHANGED <<lockVars, closed, conn, nconn, op, todo, snap, new>>

Die(n) ==
  /\ n <= nconn /\ socket[n] # "dead"
  /\ socket' = [socket EXCEPT ![n] = "dead"]
  /\ UNCHANGED <<lockVars, closed, conn, nconn, op, todo, snap, new>>

Next ==
  \/ \E p \in Procs : Begin(p) \/ Run(p)
  \/ \E n \in Conns : Stall(n) \/ Die(n)

Spec == Init /\ [][Next]_vars

(* A goroutine that can run does.  An operation is short and is not        *)
(* repeated, so that no lock can be taken past a waiter for ever.          *)
FairSpec == Spec /\ \A p \in Procs : WF_vars(Run(p))

-----------------------------------------------------------------------------
Kinds == {"lock", "unlock", "rlock", "runlock", "announce", "drain", "wunlock",
          "ifNil", "ifConn", "ifRunning", "either", "setClosed", "dial", "publish", "write", "close", "closeOld"}

(* The state has its types.                                                *)
TypeOK ==
  /\ holder \in [{"worker", "agent"} -> Procs \cup {Nobody}]
  /\ readers \subseteq Procs /\ writer \in Procs \cup {Nobody}
  /\ conn \in 0..MaxConn /\ nconn \in Conns
  /\ socket \in [Conns -> {"open", "stalled", "dead"}]
  /\ closed \in BOOLEAN
  /\ \A p \in Procs : \A i \in 1..Len(todo[p]) : todo[p][i][1] \in Kinds
  /\ snap \in [Procs -> 0..MaxConn] /\ new \in [Procs -> 0..MaxConn]

(* Those that p waits for before its next step.                            *)
WaitsFor(p) ==
  IF At(p, "lock") THEN {holder[Head(todo[p])[2]]}
  ELSE IF At(p, "rlock") \/ At(p, "announce") THEN {writer}
  ELSE IF At(p, "drain") THEN readers
  ELSE {}

(* agent.go: "a.Mutex and worker.Mutex are therefore never nested in       *)
(* either order" but AddFunc's, and "Nothing may take connMu and then try  *)
(* to take a.Mutex".  Whatever AddFunc, RemoveFunc, Ready, Reset, Close,   *)
(* jobs, the main loop, a reconnect and a redial do at the same time, no   *)
(* goroutines wait for each other in a circle, a pending writer of connMu  *)
(* included.                                                               *)
NoCircularWait ==
  \A S \in (SUBSET Procs) \ {{}} : \E p \in S : WaitsFor(p) \cap S = {}

(* write: "Callers hold a.Mutex, which serialises write against write".    *)
(* An agent has one bufio.Writer for jobs, the main loop, the user's calls *)
(* and a reconnect; no two goroutines are ever between the snapshot of it  *)
(* and the end of its Flush, where they would mix their packets.           *)
WritesSerialized ==
  \A p, q \in Procs : At(p, "write") /\ At(q, "write") => p = q

Busy(p) == todo[p] # << >>

InStalledWrite(p) == At(p, "write") /\ snap[p] # 0 /\ socket[snap[p]] = "stalled"

(* Every operation returns, unless a server that has stopped reading keeps *)
(* a write from returning: no lock is left locked on any path.  (A         *)
(* goroutine runs one operation, so that those in progress become fewer.)  *)
AllReturn ==
  []<>((\A p \in Procs : ~Busy(p)) \/ (\E q \in Procs : InStalledWrite(q)))

(* Close returns even then, and with it the write: it needs no lock that a *)
(* write is done under, with the exception of worker.Mutex, which AddFunc  *)
(* and RemoveFunc hold over theirs.                                        *)
CloseReturns ==
  []<>((\A p \in Procs : op[p] # "Close")
       \/ (holder["worker"] # Nobody /\ \E q \in Procs : InStalledWrite(q)))
=============================================================================

-------------------------------- MODULE Pool ---------------------------------
(***************************************************************************)
(* client/pool.go: goroutines adding, removing, configuring, closing and   *)
(* using the clients of one Pool.  Everything done under one hold of       *)
(* pool.mutex is one step, but for the one hold that spans a call into a   *)
(* Client (Add closing its duplicate), during which mutex names the        *)
(* holder.  A client is the number of the dial that made it.               *)
(***************************************************************************)
EXTENDS Integers, Sequences, FiniteSets, FiniteSetsExt

CONSTANTS
  Procs,       \* goroutines using the pool
  Addrs,       \* job server addresses
  Rates,       \* rates given to Add
  Handlers,    \* what SetErrorHandler is given; None is nil
  MaxClients   \* bound on the clients dialled

ASSUME PoolAssumption ==
  /\ Rates \subseteq Int /\ MaxClients \in Nat
  /\ "none" \notin Procs \cup Addrs

VARIABLES
  Clients,        \* pool.Clients: the client of each address, 0 when it has none
  Rate,           \* per client: PoolClient.Rate
  last,           \* pool.last
  mutex,          \* who holds pool.mutex across a call into a Client
  errorHandler,   \* pool.errorHandler
  made,           \* clients dialled so far
  open,           \* clients not closed
  handler,        \* per client: its own error handler
  pc,             \* per goroutine: where it is
  addr, rate, h,  \* per goroutine: arguments of the call it is in
  client,         \* per goroutine: the client it dialled or selected
  todo,           \* per goroutine: clients still to close or to configure
  swept,          \* history: clients some Close has snapshotted
  missed,         \* history: clients the last SetErrorHandler did not reach
  overlapped      \* history: two SetErrorHandler calls have overlapped

poolVars   == <<Clients, Rate, last>>
clientVars == <<made, open>>
argVars    == <<addr, rate, h>>
history    == <<swept, missed, overlapped>>

vars == <<Clients, Rate, last, mutex, errorHandler, made, open, handler, pc,
          addr, rate, h, client, todo, swept, missed, overlapped>>

None   == "none"
Pooled == {Clients[a] : a \in Addrs} \ {0}
Keys   == {a \in Addrs : Clients[a] # 0}

(* NewPool.                                                                *)
Init ==
  /\ Clients = [a \in Addrs |-> 0] /\ Rate = [c \in 1 .. MaxClients |-> 0]
  /\ last = None /\ mutex = None /\ errorHandler = None
  /\ made = 0 /\ open = {} /\ handler = [c \in 1 .. MaxClients |-> None]
  /\ pc = [p \in Procs |-> "idle"]
  /\ addr = [p \in Procs |-> None] /\ rate = [p \in Procs |-> 0] /\ h = [p \in Procs |-> None]
  /\ client = [p \in Procs |-> 0] /\ todo = [p \in Procs |-> {}]
  /\ swept = {} /\ missed = {} /\ overlapped = FALSE

Go(p, from, to) == pc[p] = from /\ pc' = [pc EXCEPT ![p] = to]

(* The call returns, and its locals go with it.                            *)
Return(p) ==
  /\ pc' = [pc EXCEPT ![p] = "idle"]
  /\ addr' = [addr EXCEPT ![p] = None] /\ rate' = [rate EXCEPT ![p] = 0]
  /\ h' = [h EXCEPT ![p] = None]
  /\ client' = [client EXCEPT ![p] = 0] /\ todo' = [todo EXCEPT ![p] = {}]

-----------------------------------------------------------------------------
(* Add(net, addr, rate).                                                   *)

(* Mutant: item.Rate += rate.                                              *)
AddLookAccumulates(p, a, r) ==
  /\ pc[p] = "idle" /\ mutex = None
  /\ \/ /\ Clients[a] # 0
        /\ Rate' = [Rate EXCEPT ![Clients[a]] = @ + r]
        /\ UNCHANGED <<pc, addr, rate>>
     \/ /\ Clients[a] = 0
        /\ Go(p, "idle", "dial")
        /\ addr' = [addr EXCEPT ![p] = a] /\ rate' = [rate EXCEPT ![p] = r]
        /\ UNCHANGED Rate
  /\ UNCHANGED <<Clients, last, mutex, errorHandler, clientVars, handler, h,
                 client, todo, history>>

(* The first hold: an address already there only gets its new rate.        *)
AddLook(p, a, r) ==
  /\ pc[p] = "idle" /\ mutex = None
  /\ \/ /\ Clients[a] # 0
        /\ Rate' = [Rate EXCEPT ![Clients[a]] = r]
        /\ UNCHANGED <<pc, addr, rate>>
     \/ /\ Clients[a] = 0
        /\ Go(p, "idle", "dial")
        /\ addr' = [addr EXCEPT ![p] = a] /\ rate' = [rate EXCEPT ![p] = r]
        /\ UNCHANGED Rate
  /\ UNCHANGED <<Clients, last, mutex, errorHandler, clientVars, handler, h,
                 client, todo, history>>

(* New, outside the lock; it fails when the server cannot be reached.      *)
AddDial(p) ==
  \/ /\ made < MaxClients
     /\ Go(p, "dial", "configure")
     /\ made' = made + 1 /\ open' = open \cup {made + 1}
     /\ client' = [client EXCEPT ![p] = made + 1]
     /\ UNCHANGED <<poolVars, mutex, errorHandler, handler, argVars, todo, history>>
  \/ /\ pc[p] = "dial"
     /\ Return(p)
     /\ UNCHANGED <<poolVars, mutex, errorHandler, clientVars, handler, history>>

(* Mutant: Add does not look at the handler.                               *)
ConfigureForgets(p) ==
  /\ Go(p, "configure", "insert")
  /\ UNCHANGED <<poolVars, mutex, errorHandler, clientVars, handler, argVars, client, todo,
                 history>>

(* The handler is loaded and installed before the lock is taken again.     *)
AddConfigure(p) ==
  /\ Go(p, "configure", "insert")
  /\ handler' = IF errorHandler = None THEN handler
                ELSE [handler EXCEPT ![client[p]] = errorHandler]
  /\ UNCHANGED <<poolVars, mutex, errorHandler, clientVars, argVars, client, todo, history>>

(* Mutant: the second hold inserts without another look.                   *)
InsertUnchecked(p) ==
  /\ pc[p] = "insert" /\ mutex = None
  /\ Rate' = [Rate EXCEPT ![client[p]] = rate[p]]
  /\ Clients' = [Clients EXCEPT ![addr[p]] = client[p]]
  /\ Return(p)
  /\ UNCHANGED <<last, mutex, errorHandler, clientVars, handler, history>>

(* The second hold: insert, or, when another Add was faster, set the rate  *)
(* and keep the lock for the closing of the duplicate.                     *)
AddInsert(p) ==
  /\ pc[p] = "insert" /\ mutex = None
  /\ LET item == Clients[addr[p]] IN
     \/ /\ item = 0
        /\ Rate' = [Rate EXCEPT ![client[p]] = rate[p]]
        /\ Clients' = [Clients EXCEPT ![addr[p]] = client[p]]
        /\ Return(p)
        /\ UNCHANGED mutex
     \/ /\ item # 0
        /\ Rate' = [Rate EXCEPT ![item] = rate[p]]
        /\ Go(p, "insert", "duplicate") /\ mutex' = p
        /\ UNCHANGED <<Clients, argVars, client, todo>>
  /\ UNCHANGED <<last, errorHandler, clientVars, handler, history>>

CloseOf(p, c) ==
  /\ pc[p] = "duplicate"
  /\ open' = open \ {c} /\ mutex' = None
  /\ Return(p)
  /\ UNCHANGED <<poolVars, errorHandler, made, handler, history>>

(* Mutant: the client in the pool is closed instead.                       *)
CloseWinner(p) == CloseOf(p, Clients[addr[p]])

AddCloseDuplicate(p) == CloseOf(p, client[p])

-----------------------------------------------------------------------------
(* Remove, Close and SetErrorHandler.                                      *)

Remove(p, a) ==
  /\ mutex = None
  /\ Clients' = [Clients EXCEPT ![a] = 0]
  /\ \/ /\ Clients[a] # 0
        /\ Go(p, "idle", "close")
        /\ todo' = [todo EXCEPT ![p] = {Clients[a]}]
     \/ /\ Clients[a] = 0 /\ pc[p] = "idle"
        /\ UNCHANGED <<pc, todo>>
  /\ UNCHANGED <<Rate, last, mutex, errorHandler, clientVars, handler, argVars,
                 client, history>>

(* Close snapshots the pool, and leaves what it closes in the map.         *)
CloseSnapshot(p) ==
  /\ mutex = None /\ Pooled # {}
  /\ Go(p, "idle", "close")
  /\ todo' = [todo EXCEPT ![p] = Pooled]
  /\ swept' = swept \cup Pooled
  /\ UNCHANGED <<poolVars, mutex, errorHandler, clientVars, handler, argVars, client,
                 missed, overlapped>>

(* Mutant: closes until the map is empty, which closing does not make it.  *)
CloseUntilEmpty(p) ==
  /\ pc[p] = "close"
  /\ \E c \in todo[p] :
       /\ open' = open \ {c}
       /\ IF Pooled = {} THEN Return(p)
          ELSE todo' = [todo EXCEPT ![p] = Pooled] /\ UNCHANGED <<pc, argVars, client>>
  /\ UNCHANGED <<poolVars, mutex, errorHandler, made, handler, history>>

(* Client.Close of the next client of Remove or Close.                     *)
CloseOne(p) ==
  /\ pc[p] = "close"
  /\ \E c \in todo[p] :
       /\ open' = open \ {c}
       /\ IF todo[p] = {c} THEN Return(p)
          ELSE todo' = [todo EXCEPT ![p] = @ \ {c}] /\ UNCHANGED <<pc, argVars, client>>
  /\ UNCHANGED <<poolVars, mutex, errorHandler, made, handler, history>>

(* SetErrorHandler stores the handler for later Adds, snapshots the pool   *)
(* and installs it client by client.  An Add that has loaded the old       *)
(* handler and not inserted yet is missed unless the snapshot has it.      *)
SetErrorHandler(p, x) ==
  /\ Go(p, "idle", "snapshot")
  /\ errorHandler' = x
  /\ h' = [h EXCEPT ![p] = x]
  /\ missed' = missed \cup {client[q] : q \in {q \in Procs : pc[q] = "insert"}}
  /\ overlapped' = (overlapped \/ \E q \in Procs : pc[q] \in {"snapshot", "install"} /\ h[q] # x)
  /\ UNCHANGED <<poolVars, mutex, clientVars, handler, addr, rate, client, todo, swept>>

HandlerSnapshot(p) ==
  /\ pc[p] = "snapshot" /\ mutex = None
  /\ missed' = missed \ Pooled
  /\ \/ /\ Pooled # {}
        /\ Go(p, "snapshot", "install")
        /\ todo' = [todo EXCEPT ![p] = Pooled]
        /\ UNCHANGED <<argVars, client>>
     \/ Pooled = {} /\ Return(p)
  /\ UNCHANGED <<poolVars, mutex, errorHandler, clientVars, handler, swept, overlapped>>

InstallOne(p) ==
  /\ pc[p] = "install"
  /\ \E c \in todo[p] :
       /\ handler' = [handler EXCEPT ![c] = h[p]]
       /\ IF todo[p] = {c} THEN Return(p)
          ELSE todo' = [todo EXCEPT ![p] = @ \ {c}] /\ UNCHANGED <<pc, argVars, client>>
  /\ UNCHANGED <<poolVars, mutex, errorHandler, clientVars, history>>

-----------------------------------------------------------------------------
(* Selection.  order is the order in which the range over the map meets    *)
(* its keys; rand.Intn(n) is any of 0 .. n - 1.                            *)

RateOf(order, i) == Rate[Clients[order[i]]]
Totals(order) ==
  LET total[i \in {0} \cup DOMAIN order] ==
        IF i = 0 THEN 0 ELSE total[i - 1] + RateOf(order, i)
  IN total
Total(order, i) == Totals(order)[i]

Drawn(order, i) == Total(order, i) > 0 /\ \E r \in 0 .. Total(order, i) - 1 : r < RateOf(order, i)
Passed(order, i) == Total(order, i) =< 0 \/ \E r \in 0 .. Total(order, i) - 1 : r >= RateOf(order, i)

(* Mutant: without its guard a draw from a total of zero panics.           *)
SelectUnguarded(order) ==
  LET drew(k) == Total(order, k) > 0 /\ Passed(order, k) IN
  {order[i] : i \in {i \in DOMAIN order : Drawn(order, i) /\ \A k \in 1 .. i - 1 : drew(k)}}
    \cup (IF \A k \in DOMAIN order : drew(k) THEN {last} ELSE {})

(* What SelectWithRate may return for one iteration order.                 *)
SelectWithRate(order) ==
  {order[i] : i \in {i \in DOMAIN order : /\ Drawn(order, i)
                                         /\ \A k \in 1 .. i - 1 : Passed(order, k)}}
    \cup (IF \A k \in DOMAIN order : Passed(order, k) THEN {last} ELSE {})

SelectRandom(order) == {order[i] : i \in DOMAIN order}

Orders == {o \in [1 .. Cardinality(Keys) -> Keys] : \A k \in Keys : \E i \in DOMAIN o : o[i] = k}

(* selectServer, for Do, DoBg and an Echo that names no server, with       *)
(* either of the package's selection handlers in pool.SelectionHandler.    *)
SelectServer(p) ==
  /\ pc[p] = "idle" /\ mutex = None /\ Keys # {}
  /\ \E order \in Orders :
       \E a \in SelectWithRate(order) \cup SelectRandom(order) :
         /\ a \in Keys
         /\ last' = a
         /\ Go(p, "idle", "call")
         /\ client' = [client EXCEPT ![p] = Clients[a]]
  /\ UNCHANGED <<Clients, Rate, mutex, errorHandler, clientVars, handler, argVars,
                 todo, history>>

(* Status, and Echo to a named server.                                     *)
Lookup(p, a) ==
  /\ mutex = None /\ Clients[a] # 0
  /\ Go(p, "idle", "call")
  /\ client' = [client EXCEPT ![p] = Clients[a]]
  /\ UNCHANGED <<poolVars, mutex, errorHandler, clientVars, handler, argVars, todo, history>>

(* The call into the client returns, with an error when it is closed.      *)
CallReturns(p) ==
  /\ pc[p] = "call"
  /\ Return(p)
  /\ UNCHANGED <<poolVars, mutex, errorHandler, clientVars, handler, history>>

-----------------------------------------------------------------------------
(* What a goroutine does once its call has begun.                          *)
Continue(p) ==
  \/ AddDial(p) \/ AddConfigure(p) \/ AddInsert(p) \/ AddCloseDuplicate(p)
  \/ CloseOne(p) \/ HandlerSnapshot(p) \/ InstallOne(p) \/ CallReturns(p)

Begin(p) ==
  \/ \E a \in Addrs : Remove(p, a) \/ Lookup(p, a) \/ \E r \in Rates : AddLook(p, a, r)
  \/ \E x \in Handlers : SetErrorHandler(p, x)
  \/ CloseSnapshot(p) \/ SelectServer(p)

Next == \E p \in Procs : Begin(p) \/ Continue(p)

Spec     == Init /\ [][Next]_vars
FairSpec == Spec /\ \A p \in Procs : WF_vars(Continue(p))

-----------------------------------------------------------------------------
(* Properties.                                                             *)

(* The state has its types.                                                *)
TypeOK ==
  /\ Clients \in [Addrs -> 0 .. MaxClients] /\ Rate \in [1 .. MaxClients -> Rates \cup {0}]
  /\ last \in Addrs \cup {None} /\ mutex \in Procs \cup {None}
  /\ errorHandler \in Handlers \cup {None}
  /\ made \in 0 .. MaxClients /\ open \subseteq 1 .. made
  /\ handler \in [1 .. MaxClients -> Handlers \cup {None}]
  /\ pc \in [Procs -> {"idle", "dial", "configure", "insert", "duplicate", "close", "snapshot",
                       "install", "call"}]
  /\ addr \in [Procs -> Addrs \cup {None}] /\ rate \in [Procs -> Rates \cup {0}]
  /\ h \in [Procs -> Handlers \cup {None}] /\ client \in [Procs -> 0 .. MaxClients]
  /\ todo \in [Procs -> SUBSET (1 .. MaxClients)]
  /\ swept \subseteq 1 .. MaxClients /\ missed \subseteq 1 .. MaxClients
  /\ overlapped \in BOOLEAN

(* No client is leaked, however Adds of one address, Removes and Closes    *)
(* interleave: a client that is still open is in the pool, or some Add has *)
(* yet to insert or close it, or some Remove or Close is about to close    *)
(* it.  Nothing else ever holds it, so nothing else could close it.        *)
NoClientLeak ==
  open \subseteq Pooled
            \cup {client[p] : p \in {p \in Procs : pc[p] \in {"configure", "insert", "duplicate"}}}
            \cup UNION {todo[p] : p \in {p \in Procs : pc[p] = "close"}}

(* A client selectServer can hand out is open, unless Pool.Close has been  *)
(* called on a pool that held it: neither the duplicate an Add closes nor  *)
(* a client a Remove closes is ever the one left in the map.               *)
PooledOpen == Pooled \subseteq open \cup swept

(* When no SetErrorHandler is under way, every pooled client has the       *)
(* handler installed last, but for a client whose Add loaded the old one   *)
(* and inserted it after the snapshot.  Overlapping SetErrorHandler calls  *)
(* may install theirs in either order and are excluded.                    *)
HandlerReaches ==
  (~overlapped /\ \A p \in Procs : pc[p] \notin {"snapshot", "install"})
    => \A c \in Pooled \ missed : handler[c] = errorHandler

(* SelectWithRate against its reference, for every pool it can meet and    *)
(* every iteration order: with no negative rate it returns the first key   *)
(* with a positive rate, and last when there is none.  The draw never      *)
(* decides: the rate only says whether a server takes part.                *)
SelectionReference ==
  \A order \in Orders :
    (\A i \in DOMAIN order : RateOf(order, i) >= 0) =>
      LET positive == {i \in DOMAIN order : RateOf(order, i) > 0}
      IN SelectWithRate(order) = IF positive = {} THEN {last} ELSE {order[Min(positive)]}

(* Every call on the pool returns once the calls it makes into clients do: *)
(* no path leaves pool.mutex locked.                                       *)
OpsReturn == \A p \in Procs : []<>(pc[p] = "idle")

(* The comment on Pool.mutex: "Never held across a call into a Client".    *)
LockFreeCalls ==
  \A p \in Procs : pc[p] \in {"duplicate", "close", "install", "call"} => mutex # p
=============================================================================

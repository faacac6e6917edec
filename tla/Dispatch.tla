------------------------------ MODULE Dispatch -------------------------------
(***************************************************************************)
(* worker/worker.go from Work on: the main loop and handleInPack, the exec *)
(* goroutines and the limit channel, each agent's work loop feeding        *)
(* worker.in, Close, and the grab / sleep conversation with the job        *)
(* servers.  Ready has run: every agent is connected and its functions     *)
(* are announced (module Registration is about how).                       *)
(*                                                                         *)
(* A write on an agent holds agent.Mutex for that packet alone and is one  *)
(* step; it is lost once the agent's socket is closed or has failed.       *)
(*                                                                         *)
(* Connections fail, and the worker's error handler answers a              *)
(* WorkerDisconnectError with Reconnect, which goes on dialling until the  *)
(* server can be reached.                                                  *)
(***************************************************************************)
EXTENDS Integers, Sequences, FiniteSets, Functions

CONSTANTS
  Agents,       \* one per job server
  Jobs,         \* jobs submitted to the servers
  TimedJobs,    \* jobs whose function was added with a timeout
  UnknownJobs,  \* jobs whose function may have been removed by then
  Limit,        \* New's limit; 0 is Unlimited
  QueueSize,    \* capacity of worker.in
  MaxOther,     \* bound on the packets that belong to no conversation
  MaxEvents     \* bound on the jobs submitted and connections lost, the latter
                \* counted twice

ASSUME DispatchAssumption ==
  /\ IsFiniteSet(Jobs)
  /\ TimedJobs \subseteq Jobs /\ UnknownJobs \subseteq Jobs
  /\ Limit \in Nat /\ QueueSize \in Nat \ {0} /\ MaxOther \in Nat /\ MaxEvents \in Nat

VARIABLES
  running,      \* worker.running
  closing,      \* progress of Close: "no", "flagged", "quit"
  toClose,      \* Close: agents it has not closed
  connected,    \* agents with a connection that works
  lost,         \* agents whose connection has failed and was not replaced
  reading,      \* agents that have a work loop
  rec,          \* per agent: where the handler's Reconnect is
  wpc, cur,     \* Work: where it is, the agent it is serving
  toGrab,       \* Work: agents it has not sent the first grab to
  draining,     \* Work: in the inner loop after quit
  in,           \* worker.in
  tokens,       \* what worker.limit holds
  ex,           \* per job: where its exec goroutine is
  from,         \* per job: inpack.a
  overrun,      \* jobs whose function runs on after its timeout
  answered,     \* history: timed jobs whose server got a result or a WORK_FAIL
  orphans,      \* history: timed jobs assigned on a connection lost since
  toServer, toAgent,   \* per agent: the packets in flight
  queued,       \* per server: jobs waiting there
  asleep,       \* per server: it has seen PRE_SLEEP and not woken the worker
  others,       \* packets sent that belong to no conversation
  losses        \* per agent: connections that have failed

connVars   == <<connected, lost, reading, rec, orphans, losses>>
closeVars  == <<closing, toClose, connVars>>
workVars   == <<wpc, cur, toGrab, draining>>
execVars   == <<ex, from, overrun, answered>>
serverVars == <<queued, asleep, others>>

vars == <<running, closing, toClose, connVars, wpc, cur, toGrab, draining, in, tokens,
          ex, from, overrun, answered, toServer, toAgent, queued, asleep, others>>

None == "none"

InPack == [type : {"no_job", "noop", "other"}, a : Agents]
            \cup [type : {"job_assign"}, a : Agents, job : Jobs]

Init ==
  /\ running = FALSE /\ closing = "no" /\ toClose = Agents
  /\ connected = Agents /\ reading = Agents /\ lost = {} /\ orphans = {}
  /\ rec = [a \in Agents |-> "no"] /\ losses = [a \in Agents |-> 0]
  /\ wpc = "start" /\ cur = None /\ toGrab = Agents /\ draining = FALSE
  /\ in = << >> /\ tokens = 0
  /\ ex = [j \in Jobs |-> None]
  /\ from = [j \in Jobs |-> None]
  /\ overrun = {} /\ answered = {}
  /\ toServer = [a \in Agents |-> << >>]
  /\ toAgent = [a \in Agents |-> << >>]
  /\ queued = [a \in Agents |-> {}]
  /\ asleep = [a \in Agents |-> FALSE]
  /\ others = 0

-----------------------------------------------------------------------------
(* agent.Grab and agent.PreSleep: one packet to the server of the agent.   *)

Write(a, packet) ==
  toServer' = IF a \in connected THEN [toServer EXCEPT ![a] = Append(@, packet)]
              ELSE toServer

Grab(a) == Write(a, "grab")

PreSleep(a) == Write(a, "pre_sleep")

-----------------------------------------------------------------------------
(* Work.                                                                   *)

WorkUnchanged == UNCHANGED <<closeVars, from, overrun, answered, toAgent, serverVars>>

(* running = true.  It does not look at closed.                            *)
StartWork ==
  /\ wpc = "start"
  /\ running' = TRUE
  /\ wpc' = "firstGrab"
  /\ UNCHANGED <<cur, toGrab, draining, in, tokens, ex, toServer>>
  /\ WorkUnchanged

FirstGrab(a) ==
  /\ wpc = "firstGrab" /\ a \in toGrab
  /\ Grab(a)
  /\ toGrab' = toGrab \ {a}
  /\ wpc' = IF toGrab = {a} THEN "select" ELSE "firstGrab"
  /\ UNCHANGED <<running, cur, draining, in, tokens, ex>>
  /\ WorkUnchanged

(* handleInPack's case dtNoJob.                                            *)
HandleNoJob ==
  /\ wpc = "select" /\ in # << >> /\ Head(in).type = "no_job"
  /\ in' = Tail(in)
  /\ PreSleep(Head(in).a)
  /\ UNCHANGED <<running, workVars, tokens, ex>>
  /\ WorkUnchanged

(* Mutant: the wake-up is read and not acted on.                           *)
HandleNoopIgnored ==
  /\ wpc = "select" /\ in # << >> /\ Head(in).type = "noop"
  /\ in' = Tail(in)
  /\ UNCHANGED <<running, workVars, tokens, ex, toServer>>
  /\ WorkUnchanged

(* case dtNoop.                                                            *)
HandleNoop ==
  /\ wpc = "select" /\ in # << >> /\ Head(in).type = "noop"
  /\ in' = Tail(in)
  /\ Grab(Head(in).a)
  /\ UNCHANGED <<running, workVars, tokens, ex>>
  /\ WorkUnchanged

(* ERROR, ECHO_RES and the rest go to the error and the job handler, which *)
(* run on this goroutine.                                                  *)
HandleOther ==
  /\ wpc = "select" /\ in # << >> /\ Head(in).type = "other"
  /\ in' = Tail(in)
  /\ UNCHANGED <<running, workVars, tokens, ex, toServer>>
  /\ WorkUnchanged

(* case dtJobAssign: start exec, wait for a place, and only then grab.     *)
HandleJobAssign ==
  /\ wpc = "select" /\ in # << >> /\ Head(in).type = "job_assign"
  /\ in' = Tail(in)
  /\ ex' = [ex EXCEPT ![Head(in).job] = "lookup"]
  /\ from' = [from EXCEPT ![Head(in).job] = Head(in).a]
  /\ cur' = Head(in).a
  /\ wpc' = IF Limit = 0 THEN "grab" ELSE "limit"
  /\ UNCHANGED <<running, toGrab, draining, tokens, toServer, closeVars,
                 overrun, answered, toAgent, serverVars>>

(* Mutant: a channel of capacity limit.                                    *)
LimitSendOneMore ==
  /\ wpc = "limit" /\ tokens < Limit
  /\ tokens' = tokens + 1
  /\ wpc' = "grab"
  /\ UNCHANGED <<running, cur, toGrab, draining, in, ex, toServer>>
  /\ WorkUnchanged

(* worker.limit <- true, into a channel of capacity limit - 1.             *)
LimitSend ==
  /\ wpc = "limit" /\ tokens < Limit - 1
  /\ tokens' = tokens + 1
  /\ wpc' = "grab"
  /\ UNCHANGED <<running, cur, toGrab, draining, in, ex, toServer>>
  /\ WorkUnchanged

(* With limit 1 the channel is unbuffered: the send meets exec's receive.  *)
LimitHandoff(j) ==
  /\ wpc = "limit" /\ Limit = 1 /\ ex[j] = "release"
  /\ ex' = [ex EXCEPT ![j] = "done"]
  /\ wpc' = "grab"
  /\ UNCHANGED <<running, cur, toGrab, draining, in, tokens, toServer>>
  /\ WorkUnchanged

GrabNext ==
  /\ wpc = "grab"
  /\ Grab(cur)
  /\ wpc' = "select"
  /\ UNCHANGED <<running, cur, toGrab, draining, in, tokens, ex>>
  /\ WorkUnchanged

(* case <-quit, and the drain's default.                                   *)
SeeQuit ==
  /\ wpc = "select" /\ closing = "quit" /\ ~draining
  /\ draining' = TRUE
  /\ UNCHANGED <<running, wpc, cur, toGrab, in, tokens, ex, toServer>>
  /\ WorkUnchanged

WorkReturns ==
  /\ wpc = "select" /\ draining /\ in = << >>
  /\ wpc' = "returned"
  /\ UNCHANGED <<running, cur, toGrab, draining, in, tokens, ex, toServer>>
  /\ WorkUnchanged

Work ==
  \/ StartWork \/ (\E a \in Agents : FirstGrab(a))
  \/ HandleNoJob \/ HandleNoop \/ HandleOther \/ HandleJobAssign
  \/ LimitSend \/ (\E j \in Jobs : LimitHandoff(j)) \/ GrabNext
  \/ SeeQuit \/ WorkReturns

-----------------------------------------------------------------------------
(* exec, one goroutine per job.                                            *)

ExecUnchanged ==
  UNCHANGED <<running, closeVars, workVars, in, from, toAgent, serverVars>>

(* Without the function exec reports to the error handler only.            *)
Lookup(j) ==
  /\ ex[j] = "lookup"
  /\ \/ ex' = [ex EXCEPT ![j] = "busy"]
     \/ j \in UnknownJobs /\ ex' = [ex EXCEPT ![j] = "release"]
  /\ UNCHANGED <<tokens, overrun, answered, toServer>>
  /\ ExecUnchanged

(* The job function returns in time, with an error or without.             *)
Finish(j) ==
  /\ ex[j] = "busy"
  /\ ex' = [ex EXCEPT ![j] = "check"]
  /\ UNCHANGED <<tokens, overrun, answered, toServer>>
  /\ ExecUnchanged

(* Mutant: a timeout is reported to the error handler only.                *)
ExecTimeoutSilent(j) ==
  /\ ex[j] = "busy" /\ j \in TimedJobs
  /\ ex' = [ex EXCEPT ![j] = "release"]
  /\ UNCHANGED <<tokens, overrun, answered, toServer>>
  /\ ExecUnchanged

(* execTimeout gives up on a function that has panicked, or on one that is *)
(* slow, which keeps running on a goroutine of its own ...                 *)
ExecTimeout(j) ==
  /\ ex[j] = "busy" /\ j \in TimedJobs
  /\ ex' = [ex EXCEPT ![j] = "check"]
  /\ overrun' \in {overrun, overrun \cup {j}}
  /\ UNCHANGED <<tokens, answered, toServer>>
  /\ ExecUnchanged

(* ... until it returns, which need not happen.  Its send on the closed    *)
(* rslt panics and is recovered.                                           *)
OverrunEnds(j) ==
  /\ j \in overrun
  /\ overrun' = overrun \ {j}
  /\ UNCHANGED <<tokens, ex, answered, toServer>>
  /\ ExecUnchanged

(* Without a timeout a panic unwinds exec itself, and nothing is reported. *)
Panic(j) ==
  /\ ex[j] = "busy" /\ j \notin TimedJobs
  /\ ex' = [ex EXCEPT ![j] = "release"]
  /\ UNCHANGED <<tokens, overrun, answered, toServer>>
  /\ ExecUnchanged

(* Mutant: the early return of a closed worker skips the receive from limit. *)
CheckRunningSkipsRelease(j) ==
  /\ ex[j] = "check"
  /\ ex' = [ex EXCEPT ![j] = IF running THEN "write" ELSE "done"]
  /\ UNCHANGED <<tokens, overrun, answered, toServer>>
  /\ ExecUnchanged

(* A worker that has been closed reports no more results.                  *)
CheckRunning(j) ==
  /\ ex[j] = "check"
  /\ ex' = [ex EXCEPT ![j] = IF running THEN "write" ELSE "release"]
  /\ UNCHANGED <<tokens, overrun, answered, toServer>>
  /\ ExecUnchanged

WriteResult(j) ==
  /\ ex[j] = "write"
  /\ answered' = IF from[j] \in connected /\ j \in TimedJobs \ orphans
                 THEN answered \cup {j} ELSE answered
  /\ ex' = [ex EXCEPT ![j] = "release"]
  /\ UNCHANGED <<tokens, overrun, toServer>>
  /\ ExecUnchanged

(* The deferred <-worker.limit.                                            *)
Release(j) ==
  /\ ex[j] = "release"
  /\ Limit = 0 \/ tokens > 0
  /\ tokens' = IF Limit = 0 THEN tokens ELSE tokens - 1
  /\ ex' = [ex EXCEPT ![j] = "done"]
  /\ UNCHANGED <<overrun, answered, toServer>>
  /\ ExecUnchanged

exec(j) ==
  \/ Lookup(j) \/ Finish(j) \/ ExecTimeout(j) \/ Panic(j)
  \/ CheckRunning(j) \/ WriteResult(j) \/ Release(j)

-----------------------------------------------------------------------------
(* Each agent's work loop: read a packet and send it to worker.in, unless  *)
(* quit is picked.  After Close's a.Close only what the bufio.Reader holds *)
(* can still be read.                                                      *)

Forward(a) ==
  /\ a \in reading /\ toAgent[a] # << >> /\ Len(in) < QueueSize
  /\ in' = Append(in, Head(toAgent[a]))
  /\ toAgent' = [toAgent EXCEPT ![a] = Tail(@)]
  /\ UNCHANGED <<running, closeVars, workVars, tokens, execVars, toServer, serverVars>>

(* The loop ends: on quit with a packet in hand, or when the read fails    *)
(* on a socket Close has closed, or on one that has failed.  Only then is  *)
(* there a connection for disconnect_error to report, and the error        *)
(* handler calls Reconnect.                                                *)
LoopEnds(a) ==
  /\ a \in reading
  /\ \/ closing = "quit" /\ toAgent[a] # << >>
     \/ a \notin connected /\ toAgent[a] = << >>
  /\ reading' = reading \ {a}
  /\ toAgent' = [toAgent EXCEPT ![a] = << >>]
  /\ rec' = IF a \in lost /\ toAgent[a] = << >> THEN [rec EXCEPT ![a] = "dial"] ELSE rec
  /\ UNCHANGED <<running, closing, toClose, connected, lost, orphans, losses, workVars, in,
                 tokens, execVars, toServer, serverVars>>

ReconnectUnchanged ==
  UNCHANGED <<running, closing, toClose, orphans, losses, workVars, in, tokens, execVars,
              toAgent, serverVars>>

(* reconnect: dial, publish and announce the functions; neither looks at   *)
(* closed ...                                                              *)
ReconnectPublish(a) ==
  /\ rec[a] = "dial"
  /\ connected' = connected \cup {a} /\ lost' = lost \ {a}
  /\ rec' = [rec EXCEPT ![a] = "grab"]
  /\ UNCHANGED <<reading, toServer>>
  /\ ReconnectUnchanged

(* Mutant: reconnect leaves the first grab to whoever grabs next.          *)
ReconnectGrabless(a) ==
  /\ rec[a] = "grab"
  /\ rec' = [rec EXCEPT ![a] = "start"]
  /\ UNCHANGED <<connected, lost, reading, toServer>>
  /\ ReconnectUnchanged

(* ... grab ...                                                            *)
ReconnectGrab(a) ==
  /\ rec[a] = "grab"
  /\ Grab(a)
  /\ rec' = [rec EXCEPT ![a] = "start"]
  /\ UNCHANGED <<connected, lost, reading>>
  /\ ReconnectUnchanged

(* ... and start the new work loop.                                        *)
ReconnectStart(a) ==
  /\ rec[a] = "start"
  /\ reading' = reading \cup {a}
  /\ rec' = [rec EXCEPT ![a] = "no"]
  /\ UNCHANGED <<connected, lost, toServer>>
  /\ ReconnectUnchanged

reconnect(a) == ReconnectPublish(a) \/ ReconnectGrab(a) \/ ReconnectStart(a)

-----------------------------------------------------------------------------
(* Close.                                                                  *)

CloseUnchanged ==
  UNCHANGED <<reading, rec, orphans, losses, workVars, in, tokens, execVars, toServer, toAgent,
              serverVars>>

SetClosed ==
  /\ closing = "no"
  /\ closing' = "flagged"
  /\ running' = FALSE
  /\ UNCHANGED <<toClose, connected, lost>>
  /\ CloseUnchanged

CloseQuit ==
  /\ closing = "flagged"
  /\ closing' = "quit"
  /\ UNCHANGED <<running, toClose, connected, lost>>
  /\ CloseUnchanged

CloseAgent(a) ==
  /\ closing = "quit" /\ a \in toClose
  /\ toClose' = toClose \ {a}
  /\ connected' = connected \ {a} /\ lost' = lost \ {a}
  /\ UNCHANGED <<running, closing>>
  /\ CloseUnchanged

Close == SetClosed \/ CloseQuit \/ \E a \in Agents : CloseAgent(a)

-----------------------------------------------------------------------------
(* The job servers (external): GRAB_JOB_UNIQ is answered with a job or     *)
(* NO_JOB; a worker that has announced PRE_SLEEP is sent one NOOP as soon  *)
(* as there is a job for it.  An ERROR or an ECHO_RES may come at any time. *)

Push(a, p) == toAgent' = [toAgent EXCEPT ![a] = Append(@, p)]

ServerUnchanged == UNCHANGED <<running, closeVars, workVars, in, tokens, execVars>>

(* The jobs of agent a among some packets.                                 *)
InFlight(a, packets) ==
  {packets[i].job : i \in {i \in 1 .. Len(packets) : /\ packets[i].type = "job_assign"
                                                    /\ packets[i].a = a}}

Submitted(j) ==
  \/ ex[j] # None
  \/ \E a \in Agents : j \in queued[a] \cup InFlight(a, toAgent[a]) \cup InFlight(a, in)

Events ==
  Cardinality({j \in Jobs : Submitted(j)}) + 2 * FoldFunctionOnSet(+, 0, losses, Agents)

Submit(a, j) ==
  /\ ~Submitted(j) /\ Events < MaxEvents /\ closing # "quit"
  /\ queued' = [queued EXCEPT ![a] = @ \cup {j}]
  /\ asleep' = [asleep EXCEPT ![a] = FALSE]
  /\ IF asleep[a] THEN Push(a, [type |-> "noop", a |-> a]) ELSE UNCHANGED toAgent
  /\ UNCHANGED <<toServer, others>>
  /\ ServerUnchanged

ServeGrab(a) ==
  /\ a \in connected /\ toServer[a] # << >> /\ Head(toServer[a]) = "grab"
  /\ toServer' = [toServer EXCEPT ![a] = Tail(@)]
  /\ \/ /\ queued[a] = {}
        /\ Push(a, [type |-> "no_job", a |-> a])
        /\ UNCHANGED queued
     \/ \E j \in queued[a] :
        /\ Push(a, [type |-> "job_assign", a |-> a, job |-> j])
        /\ queued' = [queued EXCEPT ![a] = @ \ {j}]
  /\ UNCHANGED <<asleep, others>>
  /\ ServerUnchanged

ServePreSleep(a) ==
  /\ a \in connected /\ toServer[a] # << >> /\ Head(toServer[a]) = "pre_sleep"
  /\ toServer' = [toServer EXCEPT ![a] = Tail(@)]
  /\ \/ /\ queued[a] = {}
        /\ asleep' = [asleep EXCEPT ![a] = TRUE]
        /\ UNCHANGED toAgent
     \/ /\ queued[a] # {}
        /\ Push(a, [type |-> "noop", a |-> a])
        /\ UNCHANGED asleep
  /\ UNCHANGED <<queued, others>>
  /\ ServerUnchanged

ServeOther(a) ==
  /\ a \in connected /\ others < MaxOther
  /\ others' = others + 1
  /\ Push(a, [type |-> "other", a |-> a])
  /\ UNCHANGED <<toServer, queued, asleep>>
  /\ ServerUnchanged

(* A connection fails: what was on its way to the server is lost, and so   *)
(* is what the worker's end has not received.  The server puts the jobs    *)
(* assigned on it back: those the worker has not received into its queue,  *)
(* the others another worker gets.                                         *)
Lose(a) ==
  /\ a \in connected /\ Events + 1 < MaxEvents
  /\ connected' = connected \ {a} /\ lost' = lost \cup {a}
  /\ losses' = [losses EXCEPT ![a] = @ + 1]
  /\ toServer' = [toServer EXCEPT ![a] = << >>]
  /\ asleep' = [asleep EXCEPT ![a] = FALSE]
  /\ \E k \in 0 .. Len(toAgent[a]) :
       /\ toAgent' = [toAgent EXCEPT ![a] = SubSeq(@, 1, k)]
       /\ queued' = [queued EXCEPT ![a] =
                       @ \cup InFlight(a, SubSeq(toAgent[a], k + 1, Len(toAgent[a])))]
       /\ orphans' = orphans \cup {j \in TimedJobs : from[j] = a /\ ex[j] # "done"}
                            \cup (TimedJobs \cap (InFlight(a, SubSeq(toAgent[a], 1, k))
                                           \cup InFlight(a, in)))
  /\ UNCHANGED <<running, closing, toClose, reading, rec, workVars, in, tokens, execVars, others>>

-----------------------------------------------------------------------------
Next ==
  \/ Work
  \/ \E j \in Jobs : exec(j) \/ OverrunEnds(j)
  \/ \E a \in Agents :
       \/ Forward(a) \/ LoopEnds(a) \/ reconnect(a) \/ Lose(a)
       \/ ServeGrab(a) \/ ServePreSleep(a) \/ ServeOther(a)
       \/ \E j \in Jobs : Submit(a, j)
  \/ Close

Spec == Init /\ [][Next]_vars

(* Every goroutine that can run does, job functions return or time out     *)
(* (one that has timed out need not return), and the servers read and      *)
(* answer.  Submitting a job and beginning Close are the   *)
(* environment's choice.                                                   *)
FairSpec ==
  /\ Spec
  /\ WF_vars(Work) /\ WF_vars(CloseQuit)
  /\ \A j \in Jobs : WF_vars(exec(j))
  /\ \A a \in Agents :
       /\ WF_vars(Forward(a) \/ LoopEnds(a) \/ reconnect(a))
       /\ WF_vars(ServeGrab(a) \/ ServePreSleep(a))

-----------------------------------------------------------------------------
(* The state has its types.                                                *)
TypeOK ==
  /\ running \in BOOLEAN /\ closing \in {"no", "flagged", "quit"}
  /\ toClose \subseteq Agents /\ connected \subseteq Agents /\ lost \subseteq Agents \ connected
  /\ reading \subseteq Agents /\ rec \in [Agents -> {"no", "dial", "grab", "start"}]
  /\ orphans \subseteq Jobs /\ losses \in [Agents -> Nat] /\ others \in 0..MaxOther
  /\ wpc \in {"start", "firstGrab", "select", "limit", "grab", "returned"}
  /\ cur \in Agents \cup {None} /\ toGrab \subseteq Agents /\ draining \in BOOLEAN
  /\ in \in Seq(InPack) /\ Len(in) <= QueueSize
  /\ tokens \in 0..(IF Limit = 0 THEN 0 ELSE Limit - 1)
  /\ ex \in [Jobs -> {None, "lookup", "busy", "check", "write", "release", "done"}]
  /\ from \in [Jobs -> Agents \cup {None}]
  /\ overrun \subseteq Jobs /\ answered \subseteq Jobs
  /\ toServer \in [Agents -> Seq({"grab", "pre_sleep"})]
  /\ toAgent \in [Agents -> Seq(InPack)]
  /\ queued \in [Agents -> SUBSET Jobs] /\ asleep \in [Agents -> BOOLEAN]

(* The exec goroutines, and the job functions that run.                    *)
Active == {j \in Jobs : ex[j] \notin {None, "done"}}
Executing == {j \in Jobs : ex[j] = "busy"} \cup overrun

(* New: "limit bounds dispatch, not execution".  There are never more than *)
(* limit exec goroutines, although handleInPack starts each before it has  *)
(* a place for it: a channel of limit - 1 makes up for the one ahead.  Job *)
(* functions exceed limit by no more than those past their timeout.        *)
LimitRespected ==
  Limit # 0 =>
    /\ Cardinality(Active) <= Limit
    /\ Cardinality(Executing) <= Limit + Cardinality(overrun)

(* AddFunc: "Past the timeout the job is reported failed".  A job whose    *)
(* function has a timeout is always answered, however the function ends,   *)
(* unless the worker is closed or the job's connection is lost first.      *)
TimedJobsAnswered ==
  closing = "no" => \A j \in TimedJobs \ UnknownJobs : ex[j] = "done" => j \in answered \cup orphans

(* The packets among some that agent a's conversation goes on with.        *)
Talk(a, packets) ==
  Cardinality({i \in 1 .. Len(packets) : packets[i].a = a /\ packets[i].type # "other"})

(* What keeps the conversation with a server going: a first grab still to  *)
(* send, a packet either way, a packet in worker.in, a grab that waits for *)
(* a place, a sleep the server will end, a failure the work loop will      *)
(* report, a reconnect that will grab.                                     *)
Conversation(a) ==
  (IF a \in toGrab THEN 1 ELSE 0) + Len(toServer[a])
  + Talk(a, toAgent[a]) + Talk(a, in)
  + (IF wpc \in {"limit", "grab"} /\ cur = a THEN 1 ELSE 0)
  + (IF asleep[a] THEN 1 ELSE 0)
  + (IF rec[a] \in {"dial", "grab"} \/ (a \in lost /\ (a \in reading \/ rec[a] = "start"))
     THEN 1 ELSE 0)

(* The worker never falls silent towards a server, and never has two grabs *)
(* outstanding on its account, except that each lost connection may leave  *)
(* one more: a packet of the old connection that Work answers on the new.  *)
OneConversation ==
  closing # "quit" => \A a \in Agents : Conversation(a) \in 1 .. 1 + losses[a]

(* exec gets through with every job submitted to a server, sleeping worker *)
(* or not and whatever the other jobs do, unless the worker is closed.     *)
(* (Of a job without a function it only reports the error.)                *)
JobsExecuted ==
  \A j \in Jobs : []<>(Submitted(j) => ex[j] = "done" \/ closing # "no")

(* After Close, Work returns, also from a dispatch that waits for a place  *)
(* and with jobs that panic.                                               *)
WorkEnds == []<>(closing = "quit" => wpc = "returned")
=============================================================================

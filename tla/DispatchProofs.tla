--------------------------- MODULE DispatchProofs ----------------------------
(***************************************************************************)
(* For every number of servers, jobs, places and packets: the worker never *)
(* executes more jobs than its limit, answers the jobs that have a timeout *)
(* and has one conversation with each server.  The limit rests on a job    *)
(* being in one place at a time: in the queue of one server, in one        *)
(* packet, or with exec.  The conversation rests on each step moving the   *)
(* turn on, from one term of Conversation to another, or finding the       *)
(* connection gone; then the agent's work loop or its reconnect has it.    *)
(***************************************************************************)
EXTENDS Dispatch, FiniteSetTheorems, TLAPS

(* Job j is assigned by one of the packets, and by one at most.            *)
Holds(s, j) == \E i \in 1 .. Len(s) : s[i].type = "job_assign" /\ s[i].job = j

Once(s) ==
  \A i, k \in 1 .. Len(s) :
    (s[i].type = "job_assign" /\ s[k].type = "job_assign" /\ s[i].job = s[k].job) => i = k

(* What a server sends is marked as its agent's.                           *)
PacketInv == \A a \in Agents : \A i \in 1 .. Len(toAgent[a]) : toAgent[a][i].a = a

(* A job is in one place.                                                  *)
JobInv ==
  /\ Once(in) /\ \A a \in Agents : Once(toAgent[a])
  /\ \A j \in Jobs : \A a, b \in Agents :
       /\ j \in queued[a] => /\ ex[j] = None /\ ~Holds(in, j) /\ ~Holds(toAgent[b], j)
                             /\ (j \in queued[b] => a = b)
       /\ Holds(toAgent[a], j) => /\ ex[j] = None /\ ~Holds(in, j)
                                  /\ (Holds(toAgent[b], j) => a = b)
  /\ \A j \in Jobs : Holds(in, j) => ex[j] = None

(* Each exec goroutine has a place, but for the one Work waits with.       *)
CountInv == Limit # 0 => Cardinality(Active) = tokens + (IF wpc = "limit" THEN 1 ELSE 0)

(* A job with a timeout whose connection is gone is an orphan, and one     *)
(* that exec is through with has been answered.                            *)
AnswerInv ==
  /\ wpc = "start" => \A j \in Jobs : ex[j] = None
  /\ closing = "no" =>
       /\ wpc # "start" => running
       /\ \A a \in Agents \ connected :
            TimedJobs \cap (InFlight(a, toAgent[a]) \cup InFlight(a, in)) \subseteq orphans
       /\ \A j \in TimedJobs : ex[j] \notin {None, "done"} => from[j] \in connected \/ j \in orphans
       /\ \A j \in TimedJobs \ UnknownJobs :
            ex[j] \in {"release", "done"} => j \in answered \cup orphans

-----------------------------------------------------------------------------
(* Sequences, by index.                                                    *)

(* A sequence and one more element.                                        *)
LEMMA AppendFacts ==
  ASSUME NEW S, NEW s \in Seq(S), NEW e \in S
  PROVE  /\ Append(s, e) \in Seq(S) /\ Len(Append(s, e)) = Len(s) + 1 /\ Len(s) \in Nat
         /\ \A i \in 1 .. Len(s) : Append(s, e)[i] = s[i]
         /\ Append(s, e)[Len(s) + 1] = e
OBVIOUS

(* A sequence without its first element.                                   *)
LEMMA TailFacts ==
  ASSUME NEW S, NEW s \in Seq(S), s # << >>
  PROVE  /\ Head(s) \in S /\ Head(s) = s[1] /\ Len(s) \in Nat /\ Len(s) >= 1
         /\ Tail(s) \in Seq(S) /\ Len(Tail(s)) = Len(s) - 1
         /\ \A i \in 1 .. Len(Tail(s)) : Tail(s)[i] = s[i + 1]
OBVIOUS

-----------------------------------------------------------------------------
(* The packets in a channel, as packets come and go.                       *)

LEMMA HoldsAppend ==
  ASSUME NEW s \in Seq(InPack), NEW p \in InPack
  PROVE  /\ \A j : Holds(Append(s, p), j) <=> Holds(s, j) \/ (p.type = "job_assign" /\ p.job = j)
         /\ Once(s) /\ (p.type = "job_assign" => ~Holds(s, p.job)) => Once(Append(s, p))
<1> DEFINE t == Append(s, p)
<1>1. /\ Len(t) = Len(s) + 1 /\ Len(s) \in Nat /\ t[Len(s) + 1] = p
      /\ \A i \in 1 .. Len(s) : t[i] = s[i]
  BY AppendFacts
<1>2. \A i : i \in 1 .. Len(t) <=> i \in 1 .. Len(s) \/ i = Len(s) + 1
  BY <1>1
<1> HIDE DEF t
<1>3. \A j : Holds(t, j) <=> Holds(s, j) \/ (p.type = "job_assign" /\ p.job = j)
  BY Zenon, <1>1, <1>2 DEF Holds
<1>4. ASSUME Once(s), p.type = "job_assign" => ~Holds(s, p.job)
      PROVE  Once(t)
  BY Zenon, <1>1, <1>2, <1>4 DEF Once, Holds
<1> QED
  BY Zenon, <1>3, <1>4 DEF t

LEMMA HoldsTail ==
  ASSUME NEW s \in Seq(InPack), s # << >>
  PROVE  /\ Tail(s) \in Seq(InPack) /\ Head(s) \in InPack
         /\ \A j : Holds(Tail(s), j) => Holds(s, j)
         /\ Head(s).type = "job_assign" => Holds(s, Head(s).job)
         /\ Once(s) => Once(Tail(s))
         /\ Once(s) /\ Head(s).type = "job_assign" => ~Holds(Tail(s), Head(s).job)
<1> DEFINE t == Tail(s)
<1>1. /\ t \in Seq(InPack) /\ Head(s) = s[1] /\ Len(s) \in Nat /\ Len(s) >= 1 /\ Len(t) = Len(s) - 1
      /\ \A i \in 1 .. Len(t) : t[i] = s[i + 1]
  BY Zenon, TailFacts
<1>2. \A i \in 1 .. Len(t) : i + 1 \in 1 .. Len(s) /\ i + 1 # 1
  BY <1>1
<1>3. 1 \in 1 .. Len(s) /\ s[1] \in InPack
  BY <1>1
<1> HIDE DEF t
<1>4. \A j : Holds(t, j) => Holds(s, j)
  BY Zenon, <1>1, <1>2 DEF Holds
<1>5. Head(s).type = "job_assign" => Holds(s, Head(s).job)
  BY Zenon, <1>1, <1>3 DEF Holds
<1>6. Once(s) => Once(t)
  <2> SUFFICES ASSUME Once(s), NEW i \in 1 .. Len(t), NEW k \in 1 .. Len(t),
                      t[i].type = "job_assign", t[k].type = "job_assign", t[i].job = t[k].job
               PROVE  i = k
    BY Zenon DEF Once
  <2>1. i + 1 = k + 1
    BY Zenon, <1>1, <1>2 DEF Once
  <2> QED
    BY <1>1, <2>1
<1>7. Once(s) /\ Head(s).type = "job_assign" => ~Holds(t, Head(s).job)
  BY Zenon, <1>1, <1>2, <1>3 DEF Once, Holds
<1> QED
  BY Zenon, <1>1, <1>3, <1>4, <1>5, <1>6, <1>7 DEF t

(* A channel cut in two.                                                   *)
LEMMA HoldsCut ==
  ASSUME NEW s \in Seq(InPack), NEW n \in 0 .. Len(s)
  PROVE  /\ SubSeq(s, 1, n) \in Seq(InPack) /\ SubSeq(s, n + 1, Len(s)) \in Seq(InPack)
         /\ \A j : Holds(SubSeq(s, 1, n), j) => Holds(s, j)
         /\ \A j : Holds(SubSeq(s, n + 1, Len(s)), j) => Holds(s, j)
         /\ Once(s) => Once(SubSeq(s, 1, n))
         /\ Once(s) => \A j : ~(Holds(SubSeq(s, 1, n), j) /\ Holds(SubSeq(s, n + 1, Len(s)), j))
<1> DEFINE t == SubSeq(s, 1, n)
           u == SubSeq(s, n + 1, Len(s))
<1>0. Len(s) \in Nat /\ n \in Nat /\ n =< Len(s)
  OBVIOUS
<1>1. t \in Seq(InPack) /\ Len(t) = n /\ \A i \in 1 .. n : t[i] = s[i]
  BY <1>0
<1>2. u \in Seq(InPack) /\ Len(u) = Len(s) - n /\ \A i \in 1 .. Len(u) : u[i] = s[n + i]
  <2>1. \A i \in n + 1 .. Len(s) : s[i] \in InPack
    BY <1>0
  <2>2. /\ u \in Seq(InPack) /\ Len(u) = IF n + 1 =< Len(s) THEN Len(s) - (n + 1) + 1 ELSE 0
        /\ \A i \in 1 .. Len(s) - (n + 1) + 1 : u[i] = s[n + 1 + i - 1]
    BY <1>0, <2>1
  <2> HIDE DEF u
  <2> QED
    BY <1>0, <2>2
<1>3. /\ \A i \in 1 .. Len(t) : i \in 1 .. Len(s)
      /\ \A i \in 1 .. Len(u) : n + i \in 1 .. Len(s)
      /\ \A i \in 1 .. Len(t) : \A k \in 1 .. Len(u) : i # n + k
  BY <1>0, <1>1, <1>2
<1> HIDE DEF t, u
<1>4. /\ \A j : Holds(t, j) => Holds(s, j)
      /\ \A j : Holds(u, j) => Holds(s, j)
  BY Zenon, <1>1, <1>2, <1>3 DEF Holds
<1>5. Once(s) => Once(t)
  BY Zenon, <1>1, <1>3 DEF Once
<1>6. Once(s) => \A j : ~(Holds(t, j) /\ Holds(u, j))
  <2> SUFFICES ASSUME Once(s), NEW j, Holds(t, j), Holds(u, j) PROVE FALSE
    OBVIOUS
  <2>1. PICK i \in 1 .. Len(t) : t[i].type = "job_assign" /\ t[i].job = j
    BY Zenon DEF Holds
  <2>2. PICK k \in 1 .. Len(u) : u[k].type = "job_assign" /\ u[k].job = j
    BY Zenon DEF Holds
  <2>3. s[i] = t[i] /\ s[n + k] = u[k] /\ i \in 1 .. Len(s) /\ n + k \in 1 .. Len(s) /\ i # n + k
    BY Zenon, <1>1, <1>2, <1>3
  <2> QED
    BY Zenon, <2>1, <2>2, <2>3 DEF Once
<1> QED
  BY Zenon, <1>1, <1>2, <1>4, <1>5, <1>6 DEF t, u

LEMMA HoldsEmpty == (\A j : ~Holds(<< >>, j)) /\ Once(<< >>)
BY DEF Holds, Once

(* InFlight is what the packets of an agent hold.                          *)
LEMMA InFlightHolds ==
  ASSUME NEW s \in Seq(InPack), NEW a
  PROVE  /\ InFlight(a, s) \subseteq Jobs
         /\ \A j \in InFlight(a, s) : Holds(s, j)
         /\ \A i \in 1 .. Len(s) : s[i].type = "job_assign" /\ s[i].a = a => s[i].job \in InFlight(a, s)
         /\ (\A i \in 1 .. Len(s) : s[i].a = a) => \A j : Holds(s, j) => j \in InFlight(a, s)
<1>1. \A i \in 1 .. Len(s) : s[i] \in InPack /\ (s[i].type = "job_assign" => s[i].job \in Jobs)
  BY DEF InPack
<1> QED
  BY Zenon, <1>1 DEF InFlight, Holds

-----------------------------------------------------------------------------
(* The state of Dispatch keeps its types.                                  *)

LEMMA WriteTypes ==
  ASSUME TypeOK, NEW a, NEW p \in {"grab", "pre_sleep"}, Write(a, p)
  PROVE  toServer' \in [Agents -> Seq({"grab", "pre_sleep"})]
BY DEF TypeOK, Write

LEMMA PushTypes ==
  ASSUME TypeOK, NEW a \in Agents, NEW p \in InPack, Push(a, p)
  PROVE  toAgent' \in [Agents -> Seq(InPack)]
BY DEF TypeOK, Push

LEMMA PacketTypes ==
  /\ \A a \in Agents : [type |-> "no_job", a |-> a] \in InPack
  /\ \A a \in Agents : [type |-> "noop", a |-> a] \in InPack
  /\ \A a \in Agents : [type |-> "other", a |-> a] \in InPack
  /\ \A a \in Agents : \A j \in Jobs : [type |-> "job_assign", a |-> a, job |-> j] \in InPack
  /\ \A p \in InPack : p.a \in Agents /\ (p.type = "job_assign" => p.job \in Jobs)
BY Zenon DEF InPack

LEMMA QueueTail ==
  ASSUME TypeOK, in # << >>, in' = Tail(in)
  PROVE  in' \in Seq(InPack) /\ Len(in') =< QueueSize /\ Head(in) \in InPack
<1>1. Tail(in) \in Seq(InPack) /\ Head(in) \in InPack /\ Len(Tail(in)) = Len(in) - 1 /\ Len(in) \in Nat
  BY Zenon, TailFacts DEF TypeOK
<1> QED
  BY <1>1, DispatchAssumption DEF TypeOK

(* A step keeps the types.                                                 *)
LEMMA TypeStep ==
  ASSUME TypeOK, [Next]_vars
  PROVE  TypeOK'
<1> USE DEF WorkUnchanged, ExecUnchanged, CloseUnchanged, ReconnectUnchanged, ServerUnchanged,
            closeVars, connVars, workVars, execVars, serverVars
<1>1. CASE StartWork \/ SeeQuit \/ WorkReturns
  BY Zenon, <1>1 DEF StartWork, SeeQuit, WorkReturns, TypeOK
<1>2. ASSUME NEW a \in Agents, FirstGrab(a)
      PROVE  TypeOK'
  <2>1. toServer' \in [Agents -> Seq({"grab", "pre_sleep"})]
    BY Zenon, <1>2, WriteTypes DEF FirstGrab, Grab
  <2>2. wpc' \in {"select", "firstGrab"} /\ toGrab' \subseteq Agents
    BY Zenon, <1>2 DEF FirstGrab, TypeOK
  <2> QED
    BY Zenon, <1>2, <2>1, <2>2 DEF FirstGrab, TypeOK
<1>3. CASE HandleNoJob \/ HandleNoop
  <2>1. toServer' \in [Agents -> Seq({"grab", "pre_sleep"})]
    BY Zenon, <1>3, WriteTypes DEF HandleNoJob, HandleNoop, Grab, PreSleep
  <2>2. in' \in Seq(InPack) /\ Len(in') =< QueueSize
    BY Zenon, <1>3, QueueTail DEF HandleNoJob, HandleNoop
  <2> QED
    BY Zenon, <1>3, <2>1, <2>2 DEF HandleNoJob, HandleNoop, TypeOK
<1>4. CASE HandleOther
  <2>1. in' \in Seq(InPack) /\ Len(in') =< QueueSize
    BY Zenon, <1>4, QueueTail DEF HandleOther
  <2> QED
    BY Zenon, <1>4, <2>1 DEF HandleOther, TypeOK
<1>5. CASE HandleJobAssign
  <2>1. in' \in Seq(InPack) /\ Len(in') =< QueueSize /\ Head(in).a \in Agents /\ Head(in).job \in Jobs
    BY Zenon, <1>5, QueueTail, PacketTypes DEF HandleJobAssign
  <2>2. /\ ex' \in [Jobs -> {None, "lookup", "busy", "check", "write", "release", "done"}]
        /\ from' \in [Jobs -> Agents \cup {None}]
    BY Zenon, <1>5, <2>1 DEF HandleJobAssign, TypeOK
  <2> QED
    BY Zenon, <1>5, <2>1, <2>2 DEF HandleJobAssign, TypeOK
<1>6. CASE LimitSend
  <2>1. tokens' \in 0 .. (IF Limit = 0 THEN 0 ELSE Limit - 1)
    BY <1>6, DispatchAssumption DEF LimitSend, TypeOK
  <2> QED
    BY Zenon, <1>6, <2>1 DEF LimitSend, TypeOK
<1>7. ASSUME NEW j \in Jobs, LimitHandoff(j)
      PROVE  TypeOK'
  <2>1. ex' \in [Jobs -> {None, "lookup", "busy", "check", "write", "release", "done"}]
    BY Zenon, <1>7 DEF LimitHandoff, TypeOK
  <2> QED
    BY Zenon, <1>7, <2>1 DEF LimitHandoff, TypeOK
<1>8. CASE GrabNext
  <2>1. toServer' \in [Agents -> Seq({"grab", "pre_sleep"})]
    BY Zenon, <1>8, WriteTypes DEF GrabNext, Grab
  <2> QED
    BY Zenon, <1>8, <2>1 DEF GrabNext, TypeOK
<1>9. ASSUME NEW j \in Jobs, exec(j)
      PROVE  TypeOK'
  <2>1. ex' \in [Jobs -> {None, "lookup", "busy", "check", "write", "release", "done"}]
    BY Zenon, <1>9 DEF exec, Lookup, Finish, ExecTimeout, Panic, CheckRunning, WriteResult, Release, TypeOK
  <2>2. tokens' \in 0 .. (IF Limit = 0 THEN 0 ELSE Limit - 1)
    <3>1. CASE Release(j)
      BY <3>1, DispatchAssumption DEF Release, TypeOK
    <3>2. CASE ~Release(j)
      BY Zenon, <1>9, <3>2 DEF exec, Lookup, Finish, ExecTimeout, Panic, CheckRunning, WriteResult, TypeOK
    <3> QED
      BY Zenon, <3>1, <3>2
  <2>3. answered' \subseteq Jobs /\ UNCHANGED toServer /\ ExecUnchanged
    BY Zenon, <1>9 DEF exec, Lookup, Finish, ExecTimeout, Panic, CheckRunning, WriteResult, Release, TypeOK
  <2>4. overrun' \subseteq Jobs
    BY Zenon, <1>9 DEF exec, Lookup, Finish, ExecTimeout, Panic, CheckRunning, WriteResult, Release, TypeOK
  <2> QED
    BY Zenon, <2>1, <2>2, <2>3, <2>4 DEF TypeOK
<1>0. ASSUME NEW j \in Jobs, OverrunEnds(j)
      PROVE  TypeOK'
  BY Zenon, <1>0 DEF OverrunEnds, TypeOK
<1>10. ASSUME NEW a \in Agents, Forward(a)
       PROVE  TypeOK'
  <2>1. toAgent[a] \in Seq(InPack) /\ toAgent[a] # << >> /\ in \in Seq(InPack) /\ Len(in) < QueueSize
    BY Zenon, <1>10 DEF Forward, TypeOK
  <2>2. Head(toAgent[a]) \in InPack /\ Tail(toAgent[a]) \in Seq(InPack)
    BY Zenon, <2>1, HoldsTail
  <2>3. in' \in Seq(InPack) /\ Len(in') =< QueueSize
    BY <1>10, <2>1, <2>2, DispatchAssumption DEF Forward
  <2>4. toAgent' \in [Agents -> Seq(InPack)]
    BY Zenon, <1>10, <2>2 DEF Forward, TypeOK
  <2> QED
    BY Zenon, <1>10, <2>3, <2>4 DEF Forward, TypeOK
<1>11. ASSUME NEW a \in Agents, LoopEnds(a)
       PROVE  TypeOK'
  <2>1. toAgent' \in [Agents -> Seq(InPack)]
    BY <1>11 DEF LoopEnds, TypeOK
  <2>2. rec' \in [Agents -> {"no", "dial", "grab", "start"}] /\ reading' \subseteq Agents
    BY Zenon, <1>11 DEF LoopEnds, TypeOK
  <2> QED
    BY Zenon, <1>11, <2>1, <2>2 DEF LoopEnds, TypeOK
<1>12. ASSUME NEW a \in Agents, reconnect(a)
       PROVE  TypeOK'
  <2>1. toServer' \in [Agents -> Seq({"grab", "pre_sleep"})]
    BY Zenon, <1>12, WriteTypes DEF reconnect, ReconnectPublish, ReconnectGrab, ReconnectStart, Grab, TypeOK
  <2>2. /\ rec' \in [Agents -> {"no", "dial", "grab", "start"}] /\ reading' \subseteq Agents
        /\ connected' \subseteq Agents /\ lost' \subseteq Agents \ connected'
    BY Zenon, <1>12 DEF reconnect, ReconnectPublish, ReconnectGrab, ReconnectStart, TypeOK
  <2>3. ReconnectUnchanged
    BY Zenon, <1>12 DEF reconnect, ReconnectPublish, ReconnectGrab, ReconnectStart
  <2> QED
    BY Zenon, <2>1, <2>2, <2>3 DEF TypeOK
<1>13. CASE Close
  BY ZenonT(30), <1>13 DEF Close, SetClosed, CloseQuit, CloseAgent, TypeOK
<1>14. ASSUME NEW a \in Agents, NEW j \in Jobs, Submit(a, j)
       PROVE  TypeOK'
  <2>1. toAgent' \in [Agents -> Seq(InPack)]
    BY Zenon, <1>14, PushTypes, PacketTypes DEF Submit, TypeOK
  <2>2. queued' \in [Agents -> SUBSET Jobs] /\ asleep' \in [Agents -> BOOLEAN]
    BY Zenon, <1>14 DEF Submit, TypeOK
  <2>3. UNCHANGED <<toServer, others>> /\ ServerUnchanged
    BY Zenon, <1>14 DEF Submit
  <2> QED
    BY ZenonT(30), <2>1, <2>2, <2>3 DEF TypeOK
<1>15. ASSUME NEW a \in Agents, ServeGrab(a)
       PROVE  TypeOK'
  <2>1. toServer' \in [Agents -> Seq({"grab", "pre_sleep"})]
    BY <1>15 DEF ServeGrab, TypeOK
  <2>2. toAgent' \in [Agents -> Seq(InPack)] /\ queued' \in [Agents -> SUBSET Jobs]
    <3>1. CASE Push(a, [type |-> "no_job", a |-> a]) /\ UNCHANGED queued
      BY Zenon, <3>1, PushTypes, PacketTypes DEF TypeOK
    <3>2. ASSUME NEW j \in queued[a], Push(a, [type |-> "job_assign", a |-> a, job |-> j]),
                 queued' = [queued EXCEPT ![a] = @ \ {j}]
          PROVE  toAgent' \in [Agents -> Seq(InPack)] /\ queued' \in [Agents -> SUBSET Jobs]
      BY Zenon, <3>2, PushTypes, PacketTypes DEF TypeOK
    <3> QED
      BY Zenon, <1>15, <3>1, <3>2 DEF ServeGrab
  <2>3. UNCHANGED <<asleep, others>> /\ ServerUnchanged
    BY Zenon, <1>15 DEF ServeGrab
  <2> QED
    BY Zenon, <2>1, <2>2, <2>3 DEF TypeOK
<1>16. ASSUME NEW a \in Agents, ServePreSleep(a)
       PROVE  TypeOK'
  <2>1. toServer' \in [Agents -> Seq({"grab", "pre_sleep"})]
    BY <1>16 DEF ServePreSleep, TypeOK
  <2>2. toAgent' \in [Agents -> Seq(InPack)] /\ asleep' \in [Agents -> BOOLEAN]
    BY Zenon, <1>16, PushTypes, PacketTypes DEF ServePreSleep, TypeOK
  <2>3. UNCHANGED <<queued, others>> /\ ServerUnchanged
    BY Zenon, <1>16 DEF ServePreSleep
  <2> QED
    BY Zenon, <2>1, <2>2, <2>3 DEF TypeOK
<1>17. ASSUME NEW a \in Agents, ServeOther(a)
       PROVE  TypeOK'
  <2>1. toAgent' \in [Agents -> Seq(InPack)]
    BY Zenon, <1>17, PushTypes, PacketTypes DEF ServeOther
  <2>2. others' \in 0 .. MaxOther
    BY <1>17, DispatchAssumption DEF ServeOther, TypeOK
  <2>3. UNCHANGED <<toServer, queued, asleep>> /\ ServerUnchanged
    BY Zenon, <1>17 DEF ServeOther
  <2> QED
    BY Zenon, <2>1, <2>2, <2>3 DEF TypeOK
<1>18. ASSUME NEW a \in Agents, Lose(a)
       PROVE  TypeOK'
  <2>1. PICK k \in 0 .. Len(toAgent[a]) :
          /\ toAgent' = [toAgent EXCEPT ![a] = SubSeq(@, 1, k)]
          /\ queued' = [queued EXCEPT ![a] =
                          @ \cup InFlight(a, SubSeq(toAgent[a], k + 1, Len(toAgent[a])))]
          /\ orphans' = orphans \cup {j \in TimedJobs : from[j] = a /\ ex[j] # "done"}
                               \cup (TimedJobs \cap (InFlight(a, SubSeq(toAgent[a], 1, k))
                                                     \cup InFlight(a, in)))
    BY Zenon, <1>18 DEF Lose
  <2>2. toAgent[a] \in Seq(InPack)
    BY Zenon DEF TypeOK
  <2>3. SubSeq(toAgent[a], 1, k) \in Seq(InPack) /\ SubSeq(toAgent[a], k + 1, Len(toAgent[a])) \in Seq(InPack)
    BY Zenon, <2>2, HoldsCut
  <2>4. InFlight(a, SubSeq(toAgent[a], k + 1, Len(toAgent[a]))) \subseteq Jobs
    BY Zenon, <2>3, InFlightHolds
  <2>5. toAgent' \in [Agents -> Seq(InPack)]
    BY Zenon, <2>1, <2>3 DEF TypeOK
  <2>6. queued' \in [Agents -> SUBSET Jobs]
    BY Zenon, <2>1, <2>4 DEF TypeOK
  <2>7. orphans' \subseteq Jobs
    BY Zenon, <2>1, DispatchAssumption DEF TypeOK
  <2>8. /\ connected' = connected \ {a} /\ lost' = lost \cup {a}
        /\ losses' = [losses EXCEPT ![a] = @ + 1] /\ toServer' = [toServer EXCEPT ![a] = << >>]
        /\ asleep' = [asleep EXCEPT ![a] = FALSE]
        /\ UNCHANGED <<running, closing, toClose, reading, rec, workVars, in, tokens, execVars, others>>
    BY Zenon, <1>18 DEF Lose
  <2>9. /\ losses' \in [Agents -> Nat] /\ toServer' \in [Agents -> Seq({"grab", "pre_sleep"})]
        /\ asleep' \in [Agents -> BOOLEAN]
    BY <2>8 DEF TypeOK
  <2> QED
    BY Zenon, <2>5, <2>6, <2>7, <2>8, <2>9 DEF TypeOK
<1>19. CASE UNCHANGED vars
  BY Zenon, <1>19 DEF vars, TypeOK
<1> QED
  BY Zenon, <1>0, <1>1, <1>2, <1>3, <1>4, <1>5, <1>6, <1>7, <1>8, <1>9, <1>10, <1>11, <1>12, <1>13, <1>14,
     <1>15, <1>16, <1>17, <1>18, <1>19
  DEF Next, Work

-----------------------------------------------------------------------------
(* What a server sends stays marked.                                       *)

Marked(s, a) == \A i \in 1 .. Len(s) : s[i].a = a

LEMMA MarkedChannel ==
  ASSUME NEW s \in Seq(InPack), NEW a, Marked(s, a)
  PROVE  /\ \A p : p \in InPack /\ p.a = a => Marked(Append(s, p), a)
         /\ s # << >> => Marked(Tail(s), a) /\ Head(s).a = a
         /\ \A n \in 0 .. Len(s) : Marked(SubSeq(s, 1, n), a) /\ Marked(SubSeq(s, n + 1, Len(s)), a)
         /\ Marked(<< >>, a)
<1>1. ASSUME NEW p \in InPack, p.a = a PROVE Marked(Append(s, p), a)
  <2>1. /\ Len(Append(s, p)) = Len(s) + 1 /\ Len(s) \in Nat /\ Append(s, p)[Len(s) + 1] = p
        /\ \A i \in 1 .. Len(s) : Append(s, p)[i] = s[i]
    BY AppendFacts
  <2> QED
    BY <1>1, <2>1 DEF Marked
<1>2. ASSUME s # << >> PROVE Marked(Tail(s), a) /\ Head(s).a = a
  <2>1. /\ Head(s) = s[1] /\ Len(s) \in Nat /\ Len(s) >= 1 /\ Len(Tail(s)) = Len(s) - 1
        /\ \A i \in 1 .. Len(Tail(s)) : Tail(s)[i] = s[i + 1]
    BY Zenon, <1>2, TailFacts
  <2>2. \A i \in 1 .. Len(Tail(s)) : i + 1 \in 1 .. Len(s)
    BY <2>1
  <2> QED
    BY <2>1, <2>2 DEF Marked
<1>3. ASSUME NEW n \in 0 .. Len(s)
      PROVE  Marked(SubSeq(s, 1, n), a) /\ Marked(SubSeq(s, n + 1, Len(s)), a)
  <2>1. Len(s) \in Nat /\ n \in Nat /\ n =< Len(s)
    OBVIOUS
  <2> DEFINE t == SubSeq(s, n + 1, Len(s))
  <2>2. Len(t) = Len(s) - n
    BY <2>1
  <2>3. ASSUME NEW i \in 1 .. Len(t) PROVE t[i] = s[n + i] /\ n + i \in 1 .. Len(s)
    <3>1. (n + 1) + i - 1 = n + i /\ n + i \in 1 .. Len(s) /\ i \in 1 .. (Len(s) - (n + 1) + 1)
      BY <2>1, <2>2
    <3>2. t[i] = s[(n + 1) + i - 1]
      BY <2>1, <3>1
    <3> QED
      BY Zenon, <3>1, <3>2
  <2>4. \A i \in 1 .. Len(SubSeq(s, n + 1, Len(s))) :
           SubSeq(s, n + 1, Len(s))[i] = s[n + i] /\ n + i \in 1 .. Len(s)
    BY Zenon, <2>3
  <2>5. Marked(SubSeq(s, n + 1, Len(s)), a)
    BY Zenon, <2>4 DEF Marked
  <2>6. Len(SubSeq(s, 1, n)) = n /\ \A i \in 1 .. n : SubSeq(s, 1, n)[i] = s[i] /\ i \in 1 .. Len(s)
    BY <2>1
  <2> QED
    BY Zenon, <2>5, <2>6 DEF Marked
<1>4. Marked(<< >>, a)
  BY DEF Marked
<1> QED
  BY Zenon, <1>1, <1>2, <1>3, <1>4

LEMMA PacketStep ==
  ASSUME TypeOK, PacketInv, [Next]_vars
  PROVE  PacketInv'
<1>a. \A a \in Agents : toAgent[a] \in Seq(InPack) /\ Marked(toAgent[a], a)
  BY Zenon DEF TypeOK, PacketInv, Marked
<1>b. (\A a \in Agents : Marked(toAgent'[a], a)) => PacketInv'
  BY Zenon DEF PacketInv, Marked
<1>1. ASSUME NEW a \in Agents, NEW s, Marked(s, a), toAgent' = [toAgent EXCEPT ![a] = s]
      PROVE  PacketInv'
  BY Zenon, <1>a, <1>b, <1>1 DEF TypeOK
<1>2. ASSUME NEW a \in Agents, NEW p \in InPack, p.a = a, Push(a, p)
      PROVE  PacketInv'
  <2>1. Marked(Append(toAgent[a], p), a)
    BY Zenon, <1>a, <1>2, MarkedChannel
  <2>2. toAgent' = [toAgent EXCEPT ![a] = Append(toAgent[a], p)]
    BY Zenon, <1>2 DEF Push
  <2> QED
    BY ZenonT(30), <1>1, <2>1, <2>2
<1>3. CASE UNCHANGED toAgent
  BY Zenon, <1>3 DEF PacketInv
<1>4. CASE \/ Work \/ Close \/ UNCHANGED vars
           \/ (\E j \in Jobs : exec(j) \/ OverrunEnds(j)) \/ (\E a \in Agents : reconnect(a))
  <2>1. UNCHANGED toAgent
    BY Zenon, <1>4 DEF Work, StartWork, FirstGrab, HandleNoJob, HandleNoop, HandleOther, HandleJobAssign,
         LimitSend, LimitHandoff, GrabNext, SeeQuit, WorkReturns, WorkUnchanged, Close, SetClosed,
         CloseQuit, CloseAgent, CloseUnchanged, exec, Lookup, Finish, ExecTimeout, Panic,
         CheckRunning, WriteResult, Release, OverrunEnds, ExecUnchanged, reconnect, ReconnectPublish,
         ReconnectGrab, ReconnectStart, ReconnectUnchanged, vars
  <2> QED
    BY Zenon, <1>3, <2>1
<1>5. ASSUME NEW a \in Agents, Forward(a)
      PROVE  PacketInv'
  <2>1. toAgent[a] # << >> /\ toAgent' = [toAgent EXCEPT ![a] = Tail(toAgent[a])]
    BY Zenon, <1>5 DEF Forward
  <2> QED
    BY Zenon, <1>a, <1>1, <2>1, MarkedChannel
<1>6. ASSUME NEW a \in Agents, LoopEnds(a)
      PROVE  PacketInv'
  <2>1. toAgent' = [toAgent EXCEPT ![a] = << >>]
    BY Zenon, <1>6 DEF LoopEnds
  <2> QED
    BY Zenon, <1>a, <1>1, <2>1, MarkedChannel
<1>7. ASSUME NEW a \in Agents, Lose(a)
      PROVE  PacketInv'
  <2>1. PICK k \in 0 .. Len(toAgent[a]) : toAgent' = [toAgent EXCEPT ![a] = SubSeq(toAgent[a], 1, k)]
    BY Zenon, <1>7 DEF Lose
  <2>2. Marked(SubSeq(toAgent[a], 1, k), a)
    BY Zenon, <1>a, MarkedChannel
  <2> QED
    BY Zenon, <1>1, <2>1, <2>2
<1>8. ASSUME NEW a \in Agents, ServeGrab(a)
      PROVE  PacketInv'
  <2>1. CASE Push(a, [type |-> "no_job", a |-> a])
    BY Zenon, <1>2, <2>1, PacketTypes
  <2>2. ASSUME NEW j \in queued[a], Push(a, [type |-> "job_assign", a |-> a, job |-> j])
        PROVE  PacketInv'
    <3>1. [type |-> "job_assign", a |-> a, job |-> j] \in InPack
      BY Zenon, PacketTypes DEF TypeOK
    <3> QED
      BY Zenon, <1>2, <2>2, <3>1
  <2> QED
    BY Zenon, <1>8, <2>1, <2>2 DEF ServeGrab
<1>9. ASSUME NEW a \in Agents,
             ServePreSleep(a) \/ ServeOther(a) \/ \E j \in Jobs : Submit(a, j)
      PROVE  PacketInv'
  <2>1. \/ UNCHANGED toAgent \/ Push(a, [type |-> "noop", a |-> a])
        \/ Push(a, [type |-> "other", a |-> a])
    BY Zenon, <1>9 DEF ServePreSleep, ServeOther, Submit
  <2> QED
    BY Zenon, <1>2, <1>3, <2>1, PacketTypes
<1> QED
  BY Zenon, <1>4, <1>5, <1>6, <1>7, <1>8, <1>9 DEF Next

-----------------------------------------------------------------------------
(* A job stays in one place.                                               *)

(* Nothing new is queued, sent or received.                                *)
LEMMA JobLess ==
  ASSUME JobInv, Once(in'), \A a \in Agents : Once(toAgent'[a]),
         \A j \in Jobs : Holds(in', j) => Holds(in, j) /\ ex'[j] = ex[j],
         \A j \in Jobs : \A a \in Agents : Holds(toAgent'[a], j) => Holds(toAgent[a], j) /\ ex'[j] = ex[j],
         \A j \in Jobs : \A a \in Agents : j \in queued'[a] => j \in queued[a] /\ ex'[j] = ex[j]
  PROVE  JobInv'
BY Zenon DEF JobInv

(* exec moves on.                                                          *)
LEMMA JobExec ==
  ASSUME JobInv, UNCHANGED <<in, toAgent, queued>>,
         \A j \in Jobs : ex[j] = None => ex'[j] = None
  PROVE  JobInv'
BY Zenon DEF JobInv

(* A packet that assigns nothing is sent.                                  *)
LEMMA JobPush ==
  ASSUME TypeOK, JobInv, UNCHANGED <<in, ex>>, \A b \in Agents : queued'[b] \subseteq queued[b],
         NEW a \in Agents, NEW p \in InPack, p.type # "job_assign", Push(a, p)
  PROVE  JobInv'
<1>1. toAgent[a] \in Seq(InPack) /\ Once(toAgent[a])
  BY Zenon DEF TypeOK, JobInv
<1>2. /\ \A j : Holds(Append(toAgent[a], p), j) => Holds(toAgent[a], j)
      /\ Once(Append(toAgent[a], p))
  BY Zenon, <1>1, HoldsAppend
<1>3. toAgent'[a] = Append(toAgent[a], p) /\ \A b \in Agents : b # a => toAgent'[b] = toAgent[b]
  BY Zenon DEF Push, TypeOK
<1>4. \A b \in Agents : Once(toAgent'[b]) /\ \A j : Holds(toAgent'[b], j) => Holds(toAgent[b], j)
  <2> SUFFICES ASSUME NEW b \in Agents
               PROVE  Once(toAgent'[b]) /\ \A j : Holds(toAgent'[b], j) => Holds(toAgent[b], j)
    OBVIOUS
  <2>1. CASE b = a
    BY Zenon, <1>2, <1>3, <2>1
  <2>2. CASE b # a
    BY Zenon, <1>3, <2>2 DEF JobInv
  <2> QED
    BY Zenon, <2>1, <2>2
<1>5. Once(in')
  BY Zenon DEF JobInv
<1> QED
  BY Zenon, <1>4, <1>5, JobLess

LEMMA NowhereYet ==
  ASSUME TypeOK, PacketInv, NEW j \in Jobs, ~Submitted(j)
  PROVE  /\ ex[j] = None /\ ~Holds(in, j)
         /\ \A a \in Agents : j \notin queued[a] /\ ~Holds(toAgent[a], j)
<1>1. ex[j] = None /\ \A a \in Agents : j \notin queued[a]
  BY Zenon DEF Submitted
<1>2. ASSUME NEW a \in Agents, Holds(toAgent[a], j) PROVE FALSE
  <2>1. toAgent[a] \in Seq(InPack) /\ \A i \in 1 .. Len(toAgent[a]) : toAgent[a][i].a = a
    BY Zenon DEF TypeOK, PacketInv
  <2>2. j \in InFlight(a, toAgent[a])
    BY Zenon, <1>2, <2>1, InFlightHolds
  <2> QED
    BY Zenon, <2>2 DEF Submitted
<1>3. ASSUME Holds(in, j) PROVE FALSE
  <2>1. PICK i \in 1 .. Len(in) : in[i].type = "job_assign" /\ in[i].job = j
    BY Zenon, <1>3 DEF Holds
  <2>2. in \in Seq(InPack) /\ in[i] \in InPack
    BY <2>1 DEF TypeOK
  <2>3. in[i].a \in Agents
    BY Zenon, <2>2, PacketTypes
  <2>4. j \in InFlight(in[i].a, in)
    BY Zenon, <2>1, <2>2, InFlightHolds
  <2> QED
    BY Zenon, <2>3, <2>4 DEF Submitted
<1> QED
  BY Zenon, <1>1, <1>2, <1>3

LEMMA JobStep ==
  ASSUME TypeOK, PacketInv, JobInv, [Next]_vars
  PROVE  JobInv'
<1>a. in \in Seq(InPack) /\ \A a \in Agents : toAgent[a] \in Seq(InPack)
  BY Zenon DEF TypeOK
<1>b. Once(in) /\ \A a \in Agents : Once(toAgent[a])
  BY Zenon DEF JobInv
<1>1. CASE \/ StartWork \/ SeeQuit \/ WorkReturns \/ LimitSend \/ GrabNext \/ Close \/ UNCHANGED vars
           \/ (\E j \in Jobs : OverrunEnds(j)) \/ \E a \in Agents : FirstGrab(a) \/ reconnect(a)
  <2>1. UNCHANGED <<in, toAgent, queued, ex>>
    BY Zenon, <1>1 DEF StartWork, SeeQuit, WorkReturns, LimitSend, GrabNext, Close, SetClosed, CloseQuit,
         CloseAgent, FirstGrab, reconnect, ReconnectPublish, ReconnectGrab, ReconnectStart,
         WorkUnchanged, CloseUnchanged, ReconnectUnchanged, OverrunEnds, ExecUnchanged, serverVars, execVars,
         vars
  <2> QED
    BY Zenon, <2>1, JobExec
<1>2. ASSUME NEW j \in Jobs, exec(j) \/ LimitHandoff(j)
      PROVE  JobInv'
  <2>1. UNCHANGED <<in, toAgent, queued>>
    BY Zenon, <1>2 DEF exec, Lookup, Finish, ExecTimeout, Panic, CheckRunning, WriteResult, Release,
         LimitHandoff, ExecUnchanged, WorkUnchanged, serverVars
  <2>2. ex[j] # None /\ \E l : ex' = [ex EXCEPT ![j] = l]
    BY Zenon, <1>2 DEF exec, Lookup, Finish, ExecTimeout, Panic, CheckRunning, WriteResult, Release,
         LimitHandoff, None
  <2>3. \A k \in Jobs : ex[k] = None => ex'[k] = None
    BY Zenon, <2>2 DEF TypeOK
  <2> QED
    BY Zenon, <2>1, <2>3, JobExec
<1>3. CASE HandleNoJob \/ HandleNoop \/ HandleOther
  <2>1. in # << >> /\ in' = Tail(in) /\ UNCHANGED <<toAgent, queued, ex>>
    BY Zenon, <1>3 DEF HandleNoJob, HandleNoop, HandleOther, WorkUnchanged, serverVars
  <2>2. Once(in') /\ \A j : Holds(in', j) => Holds(in, j)
    BY Zenon, <1>a, <1>b, <2>1, HoldsTail
  <2> QED
    BY Zenon, <1>b, <2>1, <2>2, JobLess
<1>4. CASE HandleJobAssign
  <2>1. /\ in # << >> /\ Head(in).type = "job_assign" /\ in' = Tail(in) /\ UNCHANGED <<toAgent, queued>>
        /\ ex' = [ex EXCEPT ![Head(in).job] = "lookup"]
    BY Zenon, <1>4 DEF HandleJobAssign, serverVars
  <2>2. /\ Once(in') /\ \A j : Holds(in', j) => Holds(in, j)
        /\ Holds(in, Head(in).job) /\ ~Holds(in', Head(in).job) /\ Head(in) \in InPack
    BY Zenon, <1>a, <1>b, <2>1, HoldsTail
  <2>3. Head(in).job \in Jobs
    BY Zenon, <2>1, <2>2, PacketTypes
  <2>4. \A k \in Jobs : k # Head(in).job => ex'[k] = ex[k]
    BY Zenon, <2>1 DEF TypeOK
  <2>5. \A a \in Agents : Head(in).job \notin queued[a] /\ ~Holds(toAgent[a], Head(in).job)
    BY Zenon, <2>2, <2>3 DEF JobInv
  <2> QED
    BY Zenon, <1>b, <2>1, <2>2, <2>4, <2>5, JobLess
<1>5. ASSUME NEW a \in Agents, Forward(a)
      PROVE  JobInv'
  <2>1. /\ toAgent[a] # << >> /\ in' = Append(in, Head(toAgent[a]))
        /\ toAgent' = [toAgent EXCEPT ![a] = Tail(toAgent[a])] /\ UNCHANGED <<queued, ex>>
    BY Zenon, <1>5 DEF Forward, execVars, serverVars
  <2> DEFINE p == Head(toAgent[a])
  <2>2. /\ p \in InPack /\ Once(Tail(toAgent[a])) /\ \A j : Holds(Tail(toAgent[a]), j) => Holds(toAgent[a], j)
        /\ p.type = "job_assign" => Holds(toAgent[a], p.job) /\ ~Holds(Tail(toAgent[a]), p.job)
    BY ZenonT(30), <1>a, <1>b, <2>1, HoldsTail
  <2>3. toAgent'[a] = Tail(toAgent[a]) /\ \A b \in Agents : b # a => toAgent'[b] = toAgent[b]
    BY Zenon, <2>1 DEF TypeOK
  <2>4. p.type = "job_assign" => p.job \in Jobs
    BY Zenon, <2>2, PacketTypes
  <2>5. p.type = "job_assign" => /\ ~Holds(in, p.job) /\ ex[p.job] = None
                                 /\ \A b \in Agents : p.job \notin queued[b] /\ ~Holds(toAgent'[b], p.job)
    BY <2>2, <2>3, <2>4 DEF JobInv
  <2>6. /\ \A j : Holds(in', j) <=> Holds(in, j) \/ (p.type = "job_assign" /\ p.job = j)
        /\ Once(in')
    BY Zenon, <1>a, <1>b, <2>1, <2>2, <2>5, HoldsAppend
  <2>7. \A b \in Agents : Once(toAgent'[b]) /\ \A j : Holds(toAgent'[b], j) => Holds(toAgent[b], j)
    BY Zenon, <1>b, <2>2, <2>3
  <2> HIDE DEF p
  <2>8. ASSUME NEW k \in Jobs, NEW b \in Agents, NEW c \in Agents
        PROVE  /\ k \in queued'[b] => /\ ex'[k] = None /\ ~Holds(in', k) /\ ~Holds(toAgent'[c], k)
                                      /\ (k \in queued'[c] => b = c)
               /\ Holds(toAgent'[b], k) => /\ ex'[k] = None /\ ~Holds(in', k)
                                           /\ (Holds(toAgent'[c], k) => b = c)
               /\ Holds(in', k) => ex'[k] = None
    <3>1. CASE p.type = "job_assign" /\ p.job = k
      BY Zenon, <2>1, <2>5, <3>1
    <3>2. CASE ~(p.type = "job_assign" /\ p.job = k)
      <4>1. Holds(in', k) <=> Holds(in, k)
        BY Zenon, <2>6, <3>2
      <4> QED
        BY Zenon, <2>1, <2>7, <4>1 DEF JobInv
    <3> QED
      BY Zenon, <3>1, <3>2
  <2> QED
    BY <2>6, <2>7, <2>8 DEF JobInv
<1>6. ASSUME NEW a \in Agents, LoopEnds(a)
      PROVE  JobInv'
  <2>1. toAgent' = [toAgent EXCEPT ![a] = << >>] /\ UNCHANGED <<in, queued, ex>>
    BY Zenon, <1>6 DEF LoopEnds, execVars, serverVars
  <2>2. toAgent'[a] = << >> /\ \A b \in Agents : b # a => toAgent'[b] = toAgent[b]
    BY Zenon, <2>1 DEF TypeOK
  <2>3. \A b \in Agents : Once(toAgent'[b]) /\ \A j : Holds(toAgent'[b], j) => Holds(toAgent[b], j)
    BY Zenon, <1>b, <2>2, HoldsEmpty
  <2> QED
    BY Zenon, <1>b, <2>1, <2>3, JobLess
<1>7. ASSUME NEW a \in Agents, NEW j \in Jobs, Submit(a, j)
      PROVE  JobInv'
  <2>1. /\ ~Submitted(j) /\ queued' = [queued EXCEPT ![a] = @ \cup {j}] /\ UNCHANGED <<in, ex>>
        /\ Push(a, [type |-> "noop", a |-> a]) \/ UNCHANGED toAgent
    BY Zenon, <1>7 DEF Submit, ServerUnchanged, execVars
  <2>2. /\ ex[j] = None /\ ~Holds(in, j)
        /\ \A b \in Agents : j \notin queued[b] /\ ~Holds(toAgent[b], j)
    BY Zenon, <2>1, NowhereYet
  <2>3. \A b \in Agents : Once(toAgent'[b]) /\ \A k : Holds(toAgent'[b], k) => Holds(toAgent[b], k)
    <3>1. CASE UNCHANGED toAgent
      BY Zenon, <1>b, <3>1
    <3>2. CASE Push(a, [type |-> "noop", a |-> a])
      <4>1. /\ toAgent'[a] = Append(toAgent[a], [type |-> "noop", a |-> a])
            /\ \A b \in Agents : b # a => toAgent'[b] = toAgent[b]
        BY Zenon, <3>2 DEF Push, TypeOK
      <4>2. [type |-> "noop", a |-> a] \in InPack /\ [type |-> "noop", a |-> a].type # "job_assign"
        BY Zenon, PacketTypes
      <4>3. /\ \A k : Holds(Append(toAgent[a], [type |-> "noop", a |-> a]), k) => Holds(toAgent[a], k)
            /\ Once(Append(toAgent[a], [type |-> "noop", a |-> a]))
        BY Zenon, <1>a, <1>b, <4>2, HoldsAppend
      <4> QED
        BY Zenon, <1>b, <4>1, <4>3
    <3> QED
      BY Zenon, <2>1, <3>1, <3>2
  <2>4. /\ \A k \in Jobs : k # j => \A b \in Agents : k \in queued'[b] <=> k \in queued[b]
        /\ \A b \in Agents : j \in queued'[b] => b = a
    BY Zenon, <2>1, <2>2 DEF TypeOK
  <2>5. ASSUME NEW k \in Jobs, NEW b \in Agents, NEW c \in Agents
        PROVE  /\ k \in queued'[b] => /\ ex'[k] = None /\ ~Holds(in', k) /\ ~Holds(toAgent'[c], k)
                                      /\ (k \in queued'[c] => b = c)
               /\ Holds(toAgent'[b], k) => /\ ex'[k] = None /\ ~Holds(in', k)
                                           /\ (Holds(toAgent'[c], k) => b = c)
    <3>1. CASE k = j
      BY Zenon, <2>1, <2>2, <2>3, <2>4, <3>1
    <3>2. CASE k # j
      BY <2>1, <2>3, <2>4, <3>2 DEF JobInv
    <3> QED
      BY Zenon, <3>1, <3>2
  <2> QED
    BY Zenon, <2>1, <2>3, <2>5 DEF JobInv
<1>8. ASSUME NEW a \in Agents, ServeGrab(a)
      PROVE  JobInv'
  <2>0. UNCHANGED <<in, ex>>
    BY Zenon, <1>8 DEF ServeGrab, ServerUnchanged, execVars
  <2>1. CASE Push(a, [type |-> "no_job", a |-> a]) /\ UNCHANGED queued
    BY Zenon, <2>0, <2>1, JobPush, PacketTypes
  <2>2. ASSUME NEW j \in queued[a], Push(a, [type |-> "job_assign", a |-> a, job |-> j]),
               queued' = [queued EXCEPT ![a] = @ \ {j}]
        PROVE  JobInv'
    <3> DEFINE p == [type |-> "job_assign", a |-> a, job |-> j]
    <3>1. j \in Jobs /\ p \in InPack /\ p.type = "job_assign" /\ p.job = j
      BY Zenon, PacketTypes DEF TypeOK
    <3>2. /\ ex[j] = None /\ ~Holds(in, j)
          /\ \A b \in Agents : ~Holds(toAgent[b], j) /\ (j \in queued[b] => b = a)
      BY Zenon, <3>1 DEF JobInv
    <3>3. /\ toAgent'[a] = Append(toAgent[a], p)
          /\ \A b \in Agents : b # a => toAgent'[b] = toAgent[b]
      BY Zenon, <2>2 DEF Push, TypeOK
    <3> HIDE DEF p
    <3>4. /\ Once(toAgent'[a])
          /\ \A k : Holds(toAgent'[a], k) <=> Holds(toAgent[a], k) \/ k = j
      BY <1>a, <1>b, <3>1, <3>2, <3>3, HoldsAppend
    <3>5. /\ \A b \in Agents : j \notin queued'[b]
          /\ \A k \in Jobs : k # j => \A b \in Agents : k \in queued'[b] <=> k \in queued[b]
      BY Zenon, <2>2, <3>2 DEF TypeOK
    <3>6. ASSUME NEW k \in Jobs, NEW b \in Agents, NEW c \in Agents
          PROVE  /\ k \in queued'[b] => /\ ex'[k] = None /\ ~Holds(in', k) /\ ~Holds(toAgent'[c], k)
                                        /\ (k \in queued'[c] => b = c)
                 /\ Holds(toAgent'[b], k) => /\ ex'[k] = None /\ ~Holds(in', k)
                                             /\ (Holds(toAgent'[c], k) => b = c)
      <4>1. CASE k = j
        BY Zenon, <2>0, <3>2, <3>3, <3>5, <4>1
      <4>2. CASE k # j
        <5>1. \A d \in Agents : Holds(toAgent'[d], k) => Holds(toAgent[d], k)
          BY Zenon, <3>3, <3>4, <4>2
        <5>2. \A d \in Agents : k \in queued'[d] => k \in queued[d]
          BY Zenon, <3>5, <4>2
        <5> QED
          BY Zenon, <2>0, <5>1, <5>2 DEF JobInv
      <4> QED
        BY Zenon, <4>1, <4>2
    <3>7. \A b \in Agents : Once(toAgent'[b])
      BY Zenon, <1>b, <3>3, <3>4
    <3> QED
      BY ZenonT(30), <2>0, <3>6, <3>7 DEF JobInv
  <2> QED
    BY ZenonT(30), <1>8, <2>1, <2>2 DEF ServeGrab
<1>9. ASSUME NEW a \in Agents, ServePreSleep(a) \/ ServeOther(a)
      PROVE  JobInv'
  <2>1. UNCHANGED <<in, ex, queued>>
    BY Zenon, <1>9 DEF ServePreSleep, ServeOther, ServerUnchanged, execVars
  <2>2. CASE UNCHANGED toAgent
    BY Zenon, <2>1, <2>2, JobExec
  <2>3. CASE Push(a, [type |-> "noop", a |-> a]) \/ Push(a, [type |-> "other", a |-> a])
    BY Zenon, <2>1, <2>3, JobPush, PacketTypes
  <2> QED
    BY Zenon, <1>9, <2>2, <2>3 DEF ServePreSleep, ServeOther
<1>10. ASSUME NEW a \in Agents, Lose(a)
       PROVE  JobInv'
  <2>1. PICK n \in 0 .. Len(toAgent[a]) :
          /\ toAgent' = [toAgent EXCEPT ![a] = SubSeq(toAgent[a], 1, n)]
          /\ queued' = [queued EXCEPT ![a] =
                          @ \cup InFlight(a, SubSeq(toAgent[a], n + 1, Len(toAgent[a])))]
    BY Zenon, <1>10 DEF Lose
  <2>2. UNCHANGED <<in, ex>>
    BY Zenon, <1>10 DEF Lose, execVars
  <2> DEFINE t == SubSeq(toAgent[a], 1, n)
             u == SubSeq(toAgent[a], n + 1, Len(toAgent[a]))
  <2>3. /\ u \in Seq(InPack) /\ Once(t)
        /\ \A j : Holds(t, j) => Holds(toAgent[a], j)
        /\ \A j : Holds(u, j) => Holds(toAgent[a], j)
        /\ \A j : ~(Holds(t, j) /\ Holds(u, j))
    BY Zenon, <1>a, <1>b, HoldsCut
  <2>4. \A j \in InFlight(a, u) : Holds(u, j)
    BY ZenonT(30), <2>3, InFlightHolds
  <2>5. /\ toAgent'[a] = t /\ \A b \in Agents : b # a => toAgent'[b] = toAgent[b]
        /\ queued'[a] = queued[a] \cup InFlight(a, u)
        /\ \A b \in Agents : b # a => queued'[b] = queued[b]
    BY Zenon, <2>1 DEF TypeOK
  <2> HIDE DEF t, u
  <2>6. \A b \in Agents : Once(toAgent'[b]) /\ \A j : Holds(toAgent'[b], j) => Holds(toAgent[b], j)
    BY Zenon, <1>b, <2>3, <2>5
  <2>7. ASSUME NEW k \in Jobs, NEW b \in Agents, NEW c \in Agents
        PROVE  /\ k \in queued'[b] => /\ ex'[k] = None /\ ~Holds(in', k) /\ ~Holds(toAgent'[c], k)
                                      /\ (k \in queued'[c] => b = c)
               /\ Holds(toAgent'[b], k) => /\ ex'[k] = None /\ ~Holds(in', k)
                                           /\ (Holds(toAgent'[c], k) => b = c)
    <3>1. CASE k \in InFlight(a, u)
      <4>1. Holds(u, k) /\ Holds(toAgent[a], k) /\ ~Holds(t, k)
        BY Zenon, <2>3, <2>4, <3>1
      <4>2. /\ ex[k] = None /\ ~Holds(in, k)
            /\ \A d \in Agents : k \notin queued[d] /\ (Holds(toAgent[d], k) => d = a)
        BY Zenon, <4>1 DEF JobInv
      <4>3. \A d \in Agents : ~Holds(toAgent'[d], k) /\ (k \in queued'[d] => d = a)
        BY ZenonT(30), <2>5, <4>1, <4>2
      <4> QED
        BY Zenon, <2>2, <4>2, <4>3
    <3>2. CASE k \notin InFlight(a, u)
      <4>1. \A d \in Agents : k \in queued'[d] => k \in queued[d]
        BY Zenon, <2>5, <3>2
      <4> QED
        BY Zenon, <2>2, <2>6, <4>1 DEF JobInv
    <3> QED
      BY ZenonT(30), <3>1, <3>2
  <2> QED
    BY ZenonT(30), <2>2, <2>6, <2>7 DEF JobInv
<1> QED
  BY Zenon, <1>1, <1>2, <1>3, <1>4, <1>5, <1>6, <1>7, <1>8, <1>9, <1>10 DEF Next, Work

-----------------------------------------------------------------------------
(* The places in worker.limit and the exec goroutines.                     *)

LEMMA CountStep ==
  ASSUME TypeOK, JobInv, CountInv, [Next]_vars
  PROVE  CountInv'
<1> SUFFICES ASSUME Limit # 0
             PROVE  Cardinality(Active') = tokens' + (IF wpc' = "limit" THEN 1 ELSE 0)
  BY Zenon DEF CountInv
<1>a. Cardinality(Active) = tokens + (IF wpc = "limit" THEN 1 ELSE 0) /\ tokens \in Nat
  BY DispatchAssumption DEF CountInv, TypeOK
<1>b. IsFiniteSet(Active) /\ Cardinality(Active) \in Nat
  <2>1. Active \in SUBSET Jobs
    BY Zenon DEF Active
  <2> QED
    BY Zenon, <2>1, DispatchAssumption, FS_Subset, FS_CardinalityType
<1>1. CASE UNCHANGED <<ex, tokens>> /\ (wpc' = "limit" <=> wpc = "limit")
  BY Zenon, <1>a, <1>1 DEF Active
<1>2. CASE \/ StartWork \/ SeeQuit \/ WorkReturns \/ HandleNoJob \/ HandleNoop \/ HandleOther
           \/ GrabNext \/ Close \/ UNCHANGED vars \/ (\E j \in Jobs : OverrunEnds(j))
           \/ \E a \in Agents : FirstGrab(a) \/ reconnect(a) \/ Forward(a) \/ LoopEnds(a) \/ Lose(a)
                \/ ServeGrab(a) \/ ServePreSleep(a) \/ ServeOther(a) \/ \E j \in Jobs : Submit(a, j)
  <2>1. UNCHANGED <<ex, tokens>>
    BY ZenonT(30), <1>2 DEF StartWork, SeeQuit, WorkReturns, HandleNoJob, HandleNoop, HandleOther, GrabNext, Close,
         SetClosed, CloseQuit, CloseAgent, FirstGrab, reconnect, ReconnectPublish, ReconnectGrab,
         ReconnectStart, Forward, LoopEnds, Lose, ServeGrab, ServePreSleep, ServeOther, Submit,
         WorkUnchanged, CloseUnchanged, ReconnectUnchanged, ServerUnchanged, OverrunEnds, execVars, vars
  <2>2. wpc' = "limit" <=> wpc = "limit"
    BY ZenonT(30), <1>2 DEF StartWork, SeeQuit, WorkReturns, HandleNoJob, HandleNoop, HandleOther, GrabNext, Close,
         SetClosed, CloseQuit, CloseAgent, FirstGrab, reconnect, ReconnectPublish, ReconnectGrab,
         ReconnectStart, Forward, LoopEnds, Lose, ServeGrab, ServePreSleep, ServeOther, Submit,
         WorkUnchanged, CloseUnchanged, ReconnectUnchanged, ServerUnchanged, OverrunEnds, ExecUnchanged,
         workVars, vars
  <2> QED
    BY Zenon, <1>1, <2>1, <2>2
<1>3. CASE HandleJobAssign
  <2> DEFINE j == Head(in).job
  <2>1. /\ in # << >> /\ Head(in).type = "job_assign" /\ wpc = "select" /\ wpc' = "limit"
        /\ ex' = [ex EXCEPT ![j] = "lookup"] /\ tokens' = tokens
    BY Zenon, <1>3 DEF HandleJobAssign
  <2>2. Head(in) \in InPack /\ Holds(in, j)
    BY Zenon, <2>1, HoldsTail DEF TypeOK
  <2>3. j \in Jobs /\ ex[j] = None
    BY Zenon, <2>1, <2>2, PacketTypes DEF JobInv
  <2> HIDE DEF j
  <2>4. Active' = Active \cup {j} /\ j \notin Active
    BY Zenon, <2>1, <2>3 DEF TypeOK, Active, None
  <2>5. Cardinality(Active') = Cardinality(Active) + 1
    BY Zenon, <1>b, <2>4, FS_AddElement
  <2> QED
    BY <1>a, <2>1, <2>5
<1>4. CASE LimitSend
  <2>1. wpc = "limit" /\ wpc' = "grab" /\ tokens' = tokens + 1 /\ Active' = Active
    BY Zenon, <1>4 DEF LimitSend, Active
  <2> QED
    BY <1>a, <2>1
<1>5. ASSUME NEW j \in Jobs, ex[j] \notin {None, "done"}, ex' = [ex EXCEPT ![j] = "done"]
      PROVE  Cardinality(Active') = Cardinality(Active) - 1
  <2>1. Active' = Active \ {j} /\ j \in Active
    BY Zenon, <1>5 DEF TypeOK, Active
  <2> QED
    BY Zenon, <1>b, <2>1, FS_RemoveElement
<1>6. ASSUME NEW j \in Jobs, LimitHandoff(j)
      PROVE  Cardinality(Active') = tokens' + (IF wpc' = "limit" THEN 1 ELSE 0)
  <2>1. /\ ex[j] \notin {None, "done"} /\ ex' = [ex EXCEPT ![j] = "done"]
        /\ wpc = "limit" /\ wpc' = "grab" /\ tokens' = tokens
    BY Zenon, <1>6 DEF LimitHandoff, None
  <2>2. Cardinality(Active') = Cardinality(Active) - 1
    BY Zenon, <1>5, <2>1
  <2> QED
    BY <1>a, <2>1, <2>2
<1>7. ASSUME NEW j \in Jobs, Release(j)
      PROVE  Cardinality(Active') = tokens' + (IF wpc' = "limit" THEN 1 ELSE 0)
  <2>1. /\ ex[j] \notin {None, "done"} /\ ex' = [ex EXCEPT ![j] = "done"]
        /\ wpc' = wpc /\ tokens' = tokens - 1
    BY Zenon, <1>7 DEF Release, ExecUnchanged, workVars, None
  <2>2. Cardinality(Active') = Cardinality(Active) - 1
    BY ZenonT(30), <1>5, <2>1
  <2> QED
    BY <1>a, <2>1, <2>2
<1>8. ASSUME NEW j \in Jobs,
             Lookup(j) \/ Finish(j) \/ ExecTimeout(j) \/ Panic(j) \/ CheckRunning(j) \/ WriteResult(j)
      PROVE  Cardinality(Active') = tokens' + (IF wpc' = "limit" THEN 1 ELSE 0)
  <2>1. UNCHANGED <<wpc, tokens>>
    BY Zenon, <1>8 DEF Lookup, Finish, ExecTimeout, Panic, CheckRunning, WriteResult, ExecUnchanged, workVars
  <2>2. ex[j] \notin {None, "done"}
    BY Zenon, <1>8 DEF Lookup, Finish, ExecTimeout, Panic, CheckRunning, WriteResult, None
  <2>3. \E l \in {"busy", "check", "write", "release"} : ex' = [ex EXCEPT ![j] = l]
    BY Zenon, <1>8 DEF Lookup, Finish, ExecTimeout, Panic, CheckRunning, WriteResult
  <2>4. Active' = Active
    BY Zenon, <2>2, <2>3 DEF TypeOK, Active, None
  <2> QED
    BY Zenon, <1>a, <2>1, <2>4
<1> QED
  BY Zenon, <1>2, <1>3, <1>4, <1>6, <1>7, <1>8 DEF Next, Work, exec

-----------------------------------------------------------------------------
(* Jobs in flight, and the answers to them.                                *)

LEMMA InFlightChannel ==
  ASSUME NEW s \in Seq(InPack), NEW a
  PROVE  /\ \A p \in InPack : p.type # "job_assign" => InFlight(a, Append(s, p)) = InFlight(a, s)
         /\ \A p \in InPack : /\ InFlight(a, Append(s, p)) \subseteq InFlight(a, s) \cup {p.job}
                              /\ p.a # a => InFlight(a, Append(s, p)) = InFlight(a, s)
         /\ s # << >> => /\ InFlight(a, Tail(s)) \subseteq InFlight(a, s)
                         /\ Head(s).type = "job_assign" /\ Head(s).a = a => Head(s).job \in InFlight(a, s)
         /\ InFlight(a, << >>) = {}
<1>1. ASSUME NEW p \in InPack
      PROVE  /\ p.type # "job_assign" => InFlight(a, Append(s, p)) = InFlight(a, s)
             /\ InFlight(a, Append(s, p)) \subseteq InFlight(a, s) \cup {p.job}
             /\ p.a # a => InFlight(a, Append(s, p)) = InFlight(a, s)
  <2> DEFINE t == Append(s, p)
  <2>1. /\ Len(t) = Len(s) + 1 /\ Len(s) \in Nat /\ t[Len(s) + 1] = p
        /\ \A i \in 1 .. Len(s) : t[i] = s[i]
    BY AppendFacts
  <2>2. \A i : i \in 1 .. Len(t) <=> i \in 1 .. Len(s) \/ i = Len(s) + 1
    BY <2>1
  <2> HIDE DEF t
  <2>3. \A j : j \in InFlight(a, t)
          <=> j \in InFlight(a, s) \/ (p.type = "job_assign" /\ p.a = a /\ p.job = j)
    BY Zenon, <2>1, <2>2 DEF InFlight
  <2> QED
    BY Zenon, <2>3 DEF t
<1>2. ASSUME s # << >>
      PROVE  /\ InFlight(a, Tail(s)) \subseteq InFlight(a, s)
             /\ Head(s).type = "job_assign" /\ Head(s).a = a => Head(s).job \in InFlight(a, s)
  <2> DEFINE t == Tail(s)
  <2>1. /\ Head(s) = s[1] /\ Len(s) \in Nat /\ Len(s) >= 1 /\ Len(t) = Len(s) - 1
        /\ \A i \in 1 .. Len(t) : t[i] = s[i + 1]
    BY Zenon, <1>2, TailFacts
  <2>2. 1 \in 1 .. Len(s) /\ \A i \in 1 .. Len(t) : i + 1 \in 1 .. Len(s)
    BY <2>1
  <2> HIDE DEF t
  <2>3. InFlight(a, t) \subseteq InFlight(a, s)
    BY <2>1, <2>2 DEF InFlight
  <2> QED
    BY <2>1, <2>2, <2>3 DEF InFlight, t
<1>3. InFlight(a, << >>) = {}
  BY DEF InFlight
<1> QED
  BY Zenon, <1>1, <1>2, <1>3

(* No job starts or ends, and none more is in flight.                      *)
LEMMA AnswerLess ==
  ASSUME AnswerInv, UNCHANGED <<ex, from>>,
         connected \subseteq connected', orphans \subseteq orphans', answered \subseteq answered',
         closing' = "no" => closing = "no", wpc' = "start" => wpc = "start",
         wpc' # "start" /\ closing' = "no" => running',
         \A a \in Agents : /\ InFlight(a, toAgent'[a]) \cup InFlight(a, in')
                                \subseteq InFlight(a, toAgent[a]) \cup InFlight(a, in)
  PROVE  AnswerInv'
BY Zenon DEF AnswerInv

LEMMA AnswerStep ==
  ASSUME TypeOK, PacketInv, AnswerInv, [Next]_vars
  PROVE  AnswerInv'
<1>a. in \in Seq(InPack) /\ \A a \in Agents : toAgent[a] \in Seq(InPack)
  BY Zenon DEF TypeOK
<1>1. CASE closing' # "no" /\ UNCHANGED <<ex, wpc>>
  BY Zenon, <1>1 DEF AnswerInv
<1>2. CASE Close
  <2>1. closing' # "no" /\ UNCHANGED <<ex, wpc>>
    BY Zenon, <1>2 DEF Close, SetClosed, CloseQuit, CloseAgent, CloseUnchanged, workVars, execVars
  <2> QED
    BY Zenon, <1>1, <2>1
<1>3. CASE \/ StartWork \/ SeeQuit \/ WorkReturns \/ LimitSend \/ GrabNext \/ UNCHANGED vars
           \/ (\E j \in Jobs : OverrunEnds(j)) \/ \E a \in Agents : FirstGrab(a) \/ reconnect(a)
  <2>1. UNCHANGED <<ex, from, answered, orphans, closing, in, toAgent>> /\ connected \subseteq connected'
    BY ZenonT(30), <1>3 DEF StartWork, SeeQuit, WorkReturns, LimitSend, GrabNext, FirstGrab, reconnect,
         ReconnectPublish, ReconnectGrab, ReconnectStart, WorkUnchanged, ReconnectUnchanged, OverrunEnds,
         ExecUnchanged, closeVars, connVars, execVars, vars
  <2>2. (wpc' = "start" => wpc = "start") /\ (wpc' # "start" => (wpc # "start" /\ running' = running) \/ running')
    BY ZenonT(30), <1>3 DEF StartWork, SeeQuit, WorkReturns, LimitSend, GrabNext, FirstGrab, reconnect,
         ReconnectPublish, ReconnectGrab, ReconnectStart, WorkUnchanged, ReconnectUnchanged, OverrunEnds,
         ExecUnchanged, workVars, vars
  <2>3. wpc' # "start" /\ closing' = "no" => running'
    BY <2>1, <2>2 DEF AnswerInv
  <2> QED
    BY Zenon, <2>1, <2>2, <2>3, AnswerLess
<1>4. CASE HandleNoJob \/ HandleNoop \/ HandleOther
  <2>1. /\ in # << >> /\ in' = Tail(in) /\ UNCHANGED <<ex, from, answered, orphans, closing, toAgent>>
        /\ UNCHANGED <<connected, wpc, running>>
    BY Zenon, <1>4 DEF HandleNoJob, HandleNoop, HandleOther, WorkUnchanged, closeVars, connVars, workVars
  <2>2. \A a : InFlight(a, in') \subseteq InFlight(a, in)
    BY ZenonT(30), <1>a, <2>1, InFlightChannel
  <2>3. wpc' # "start" /\ closing' = "no" => running'
    BY ZenonT(30), <2>1 DEF AnswerInv
  <2> QED
    BY Zenon, <2>1, <2>2, <2>3, AnswerLess
<1>5. CASE HandleJobAssign
  <2> DEFINE j == Head(in).job
             a == Head(in).a
  <2>1. /\ in # << >> /\ Head(in).type = "job_assign" /\ in' = Tail(in) /\ wpc = "select"
        /\ ex' = [ex EXCEPT ![j] = "lookup"] /\ from' = [from EXCEPT ![j] = a] /\ wpc' # "start"
        /\ UNCHANGED <<answered, orphans, closing, toAgent, connected, running>>
    BY Zenon, <1>5 DEF HandleJobAssign, closeVars, connVars
  <2>2. \A b : InFlight(b, in') \subseteq InFlight(b, in)
    BY Zenon, <1>a, <2>1, InFlightChannel
  <2>3. Head(in) \in InPack /\ j \in InFlight(a, in)
    BY Zenon, <1>a, <2>1, HoldsTail, InFlightChannel
  <2>4. j \in Jobs /\ a \in Agents
    BY Zenon, <2>1, <2>3, PacketTypes
  <2> HIDE DEF j, a
  <2> SUFFICES ASSUME closing = "no" PROVE AnswerInv'
    BY Zenon, <2>1 DEF AnswerInv
  <2>5. j \in TimedJobs => a \in connected \/ j \in orphans
    BY Zenon, <2>3, <2>4 DEF AnswerInv
  <2>6. \A k \in TimedJobs : ex'[k] \notin {None, "done"} => from'[k] \in connected \/ k \in orphans
    <3> SUFFICES ASSUME NEW k \in TimedJobs, ex'[k] \notin {None, "done"}
                 PROVE  from'[k] \in connected \/ k \in orphans
      OBVIOUS
    <3>1. k \in Jobs
      BY Zenon, DispatchAssumption
    <3>2. CASE k = j
      BY Zenon, <2>1, <2>4, <2>5, <3>2 DEF TypeOK
    <3>3. CASE k # j
      BY Zenon, <2>1, <3>1, <3>3 DEF TypeOK, AnswerInv
    <3> QED
      BY Zenon, <3>2, <3>3
  <2>7. \A k \in TimedJobs \ UnknownJobs : ex'[k] \in {"release", "done"} => ex[k] = ex'[k]
    BY Zenon, <2>1, DispatchAssumption DEF TypeOK
  <2> QED
    BY Zenon, <2>1, <2>2, <2>6, <2>7 DEF AnswerInv
<1>6. ASSUME NEW j \in Jobs, ex[j] # None, NEW l, ex' = [ex EXCEPT ![j] = l],
             UNCHANGED <<from, orphans, closing, toAgent, connected, running, in>>, answered \subseteq answered',
             wpc' = "start" <=> wpc = "start",
             closing = "no" /\ j \in TimedJobs =>
               /\ l # "done" => ex[j] # "done"
               /\ j \notin UnknownJobs /\ l \in {"release", "done"} => ex[j] = "release" \/ j \in answered' \cup orphans
      PROVE  AnswerInv'
  <2>1. wpc # "start"
    BY Zenon, <1>6 DEF AnswerInv
  <2> SUFFICES ASSUME closing = "no" PROVE AnswerInv'
    BY Zenon, <1>6, <2>1 DEF AnswerInv
  <2>2. ex'[j] = l /\ \A k \in Jobs : k # j => ex'[k] = ex[k]
    BY Zenon, <1>6 DEF TypeOK
  <2>3. \A k \in TimedJobs : ex'[k] \notin {None, "done"} => from'[k] \in connected \/ k \in orphans
    BY Zenon, <1>6, <2>2, DispatchAssumption DEF AnswerInv
  <2>4. \A k \in TimedJobs \ UnknownJobs : ex'[k] \in {"release", "done"} => k \in answered' \cup orphans
    <3> SUFFICES ASSUME NEW k \in TimedJobs \ UnknownJobs, ex'[k] \in {"release", "done"}
                 PROVE  k \in answered' \cup orphans
      OBVIOUS
    <3>1. CASE k = j
      BY Zenon, <1>6, <2>2, <3>1 DEF AnswerInv
    <3>2. CASE k # j
      BY Zenon, <1>6, <2>2, <3>2, DispatchAssumption DEF AnswerInv
    <3> QED
      BY Zenon, <3>1, <3>2
  <2> QED
    BY Zenon, <1>6, <2>1, <2>3, <2>4 DEF AnswerInv
<1>7. ASSUME NEW j \in Jobs, exec(j) \/ LimitHandoff(j)
      PROVE  AnswerInv'
  <2>1. /\ UNCHANGED <<from, orphans, closing, toAgent, connected, running, in>>
        /\ wpc' = "start" <=> wpc = "start"
    BY Zenon, <1>7 DEF exec, Lookup, Finish, ExecTimeout, Panic, CheckRunning, WriteResult, Release, LimitHandoff,
         ExecUnchanged, WorkUnchanged, workVars, closeVars, connVars
  <2>2. CASE Lookup(j)
    <3>1. /\ ex[j] = "lookup" /\ answered' = answered
          /\ \E l \in {"busy", "release"} : ex' = [ex EXCEPT ![j] = l] /\ (l = "release" => j \in UnknownJobs)
      BY Zenon, <2>2 DEF Lookup
    <3> QED
      BY Zenon, <1>6, <2>1, <3>1 DEF None
  <2>3. CASE Finish(j) \/ ExecTimeout(j)
    <3>1. /\ ex[j] = "busy" /\ answered' = answered /\ ex' = [ex EXCEPT ![j] = "check"]
      BY Zenon, <2>3 DEF Finish, ExecTimeout
    <3> QED
      BY Zenon, <1>6, <2>1, <3>1 DEF None
  <2>4. CASE Panic(j)
    <3>1. ex[j] = "busy" /\ answered' = answered /\ ex' = [ex EXCEPT ![j] = "release"] /\ j \notin TimedJobs
      BY Zenon, <2>4 DEF Panic
    <3> QED
      BY Zenon, <1>6, <2>1, <3>1 DEF None
  <2>5. CASE CheckRunning(j)
    <3>1. /\ ex[j] = "check" /\ answered' = answered
          /\ ex' = [ex EXCEPT ![j] = IF running THEN "write" ELSE "release"]
      BY Zenon, <2>5 DEF CheckRunning
    <3>2. closing = "no" => running
      BY Zenon, <3>1 DEF AnswerInv, None
    <3> QED
      BY ZenonT(30), <1>6, <2>1, <3>1, <3>2 DEF None
  <2>6. CASE WriteResult(j)
    <3>1. /\ ex[j] = "write" /\ ex' = [ex EXCEPT ![j] = "release"]
          /\ answered' = IF from[j] \in connected /\ j \in TimedJobs \ orphans
                         THEN answered \cup {j} ELSE answered
      BY Zenon, <2>6 DEF WriteResult
    <3>2. closing = "no" /\ j \in TimedJobs => j \in answered' \cup orphans
      BY Zenon, <3>1 DEF AnswerInv, None
    <3> QED
      BY Zenon, <1>6, <2>1, <3>1, <3>2 DEF None
  <2>7. CASE Release(j) \/ LimitHandoff(j)
    <3>1. ex[j] = "release" /\ answered' = answered /\ ex' = [ex EXCEPT ![j] = "done"]
      BY Zenon, <2>7 DEF Release, LimitHandoff, WorkUnchanged
    <3> QED
      BY Zenon, <1>6, <2>1, <3>1 DEF None
  <2> QED
    BY Zenon, <1>7, <2>2, <2>3, <2>4, <2>5, <2>6, <2>7 DEF exec
<1>8. ASSUME NEW a \in Agents, Forward(a)
      PROVE  AnswerInv'
  <2> DEFINE p == Head(toAgent[a])
  <2>1. /\ toAgent[a] # << >> /\ in' = Append(in, p) /\ toAgent' = [toAgent EXCEPT ![a] = Tail(toAgent[a])]
        /\ UNCHANGED <<ex, from, answered, orphans, closing, connected, wpc, running>>
    BY Zenon, <1>8 DEF Forward, execVars, closeVars, connVars, workVars
  <2>2. /\ p \in InPack /\ p.a = a
    BY <1>a, <2>1, MarkedChannel, HoldsTail DEF PacketInv, Marked
  <2>3. /\ InFlight(a, Tail(toAgent[a])) \subseteq InFlight(a, toAgent[a])
        /\ p.type = "job_assign" => p.job \in InFlight(a, toAgent[a])
    BY Zenon, <1>a, <2>1, <2>2, InFlightChannel
  <2>4. /\ \A b : b # a => InFlight(b, Append(in, p)) = InFlight(b, in)
        /\ p.type # "job_assign" => InFlight(a, Append(in, p)) = InFlight(a, in)
        /\ InFlight(a, Append(in, p)) \subseteq InFlight(a, in) \cup {p.job}
    BY <1>a, <2>2, InFlightChannel
  <2> HIDE DEF p
  <2>5. \A b \in Agents : InFlight(b, toAgent'[b]) \cup InFlight(b, in')
                                \subseteq InFlight(b, toAgent[b]) \cup InFlight(b, in)
    <3> SUFFICES ASSUME NEW b \in Agents
                 PROVE  InFlight(b, toAgent'[b]) \cup InFlight(b, in')
                           \subseteq InFlight(b, toAgent[b]) \cup InFlight(b, in)
      OBVIOUS
    <3>1. CASE b = a
      <4>1. toAgent'[a] = Tail(toAgent[a])
        BY Zenon, <2>1 DEF TypeOK
      <4> QED
        BY Zenon, <2>1, <2>3, <2>4, <3>1, <4>1
    <3>2. CASE b # a
      <4>1. toAgent'[b] = toAgent[b]
        BY Zenon, <2>1, <3>2 DEF TypeOK
      <4> QED
        BY Zenon, <2>1, <2>4, <3>2, <4>1
    <3> QED
      BY Zenon, <3>1, <3>2
  <2>6. wpc' # "start" /\ closing' = "no" => running'
    BY ZenonT(30), <2>1 DEF AnswerInv
  <2> QED
    BY Zenon, <2>1, <2>5, <2>6, AnswerLess
<1>9. ASSUME NEW a \in Agents, NEW s, toAgent' = [toAgent EXCEPT ![a] = s],
             UNCHANGED <<ex, from, answered, orphans, closing, connected, wpc, running, in>>,
             a \in connected \/ InFlight(a, s) \subseteq InFlight(a, toAgent[a])
      PROVE  AnswerInv'
  <2>1. toAgent'[a] = s /\ \A b \in Agents : b # a => toAgent'[b] = toAgent[b]
    BY Zenon, <1>9 DEF TypeOK
  <2>2. \A b \in Agents \ connected : InFlight(b, toAgent'[b]) \subseteq InFlight(b, toAgent[b])
    BY ZenonT(30), <1>9, <2>1
  <2> QED
    BY Zenon, <1>9, <2>2 DEF AnswerInv
<1>10. ASSUME NEW a \in Agents, LoopEnds(a)
       PROVE  AnswerInv'
  <2>1. /\ toAgent' = [toAgent EXCEPT ![a] = << >>]
        /\ UNCHANGED <<ex, from, answered, orphans, closing, connected, wpc, running, in>>
    BY Zenon, <1>10 DEF LoopEnds, execVars, workVars
  <2> QED
    BY ZenonT(30), <1>a, <1>9, <2>1, InFlightChannel
<1>11. ASSUME NEW a \in Agents, ServeGrab(a) \/ ServePreSleep(a) \/ ServeOther(a) \/ \E j \in Jobs : Submit(a, j)
       PROVE  AnswerInv'
  <2>1. UNCHANGED <<ex, from, answered, orphans, closing, connected, wpc, running, in>>
    BY ZenonT(30), <1>11 DEF ServeGrab, ServePreSleep, ServeOther, Submit, ServerUnchanged, execVars, closeVars, connVars,
         workVars
  <2>2. \/ UNCHANGED toAgent
        \/ a \in connected /\ \E p : Push(a, p)
        \/ Push(a, [type |-> "noop", a |-> a])
    BY ZenonT(30), <1>11 DEF ServeGrab, ServePreSleep, ServeOther, Submit
  <2>3. CASE UNCHANGED toAgent
    BY Zenon, <2>1, <2>3 DEF AnswerInv
  <2>4. CASE a \in connected /\ \E p : Push(a, p)
    BY Zenon, <1>9, <2>1, <2>4 DEF Push
  <2>5. CASE Push(a, [type |-> "noop", a |-> a])
    <3> DEFINE p == [type |-> "noop", a |-> a]
    <3>1. p \in InPack /\ p.type # "job_assign"
      BY Zenon, PacketTypes
    <3>2. InFlight(a, Append(toAgent[a], p)) = InFlight(a, toAgent[a])
      BY <1>a, <3>1, InFlightChannel
    <3>3. toAgent' = [toAgent EXCEPT ![a] = Append(toAgent[a], p)]
      BY Zenon, <2>5 DEF Push
    <3> HIDE DEF p
    <3> QED
      BY ZenonT(30), <1>9, <2>1, <3>2, <3>3
  <2> QED
    BY Zenon, <2>2, <2>3, <2>4, <2>5
<1>12. ASSUME NEW a \in Agents, Lose(a)
       PROVE  AnswerInv'
  <2>1. PICK k \in 0 .. Len(toAgent[a]) :
          /\ toAgent' = [toAgent EXCEPT ![a] = SubSeq(toAgent[a], 1, k)]
          /\ orphans' = orphans \cup {j \in TimedJobs : from[j] = a /\ ex[j] # "done"}
                            \cup (TimedJobs \cap (InFlight(a, SubSeq(toAgent[a], 1, k))
                                           \cup InFlight(a, in)))
    BY ZenonT(30), <1>12 DEF Lose
  <2>2. connected' = connected \ {a} /\ UNCHANGED <<ex, from, answered, closing, wpc, running, in>>
    BY Zenon, <1>12 DEF Lose, execVars, workVars
  <2>3. toAgent'[a] = SubSeq(toAgent[a], 1, k) /\ \A b \in Agents : b # a => toAgent'[b] = toAgent[b]
    BY Zenon, <2>1 DEF TypeOK
  <2> SUFFICES ASSUME closing = "no" PROVE AnswerInv'
    BY Zenon, <2>2 DEF AnswerInv
  <2>4. \A b \in Agents \ connected' :
          TimedJobs \cap (InFlight(b, toAgent'[b]) \cup InFlight(b, in')) \subseteq orphans'
    <3> SUFFICES ASSUME NEW b \in Agents \ connected'
                 PROVE  TimedJobs \cap (InFlight(b, toAgent'[b]) \cup InFlight(b, in')) \subseteq orphans'
      OBVIOUS
    <3>1. CASE b = a
      BY ZenonT(30), <2>1, <2>2, <2>3, <3>1
    <3>2. CASE b # a
      BY Zenon, <2>1, <2>2, <2>3, <3>2 DEF AnswerInv
    <3> QED
      BY Zenon, <3>1, <3>2
  <2>5. \A j \in TimedJobs : ex'[j] \notin {None, "done"} => from'[j] \in connected' \/ j \in orphans'
    BY Zenon, <2>1, <2>2 DEF AnswerInv
  <2> QED
    BY ZenonT(30), <2>1, <2>2, <2>4, <2>5 DEF AnswerInv
<1> QED
  BY Zenon, <1>2, <1>3, <1>4, <1>5, <1>7, <1>8, <1>10, <1>11, <1>12 DEF Next, Work

-----------------------------------------------------------------------------
(* The theorems.                                                           *)

LEMMA DispatchInit == Init => TypeOK /\ PacketInv /\ JobInv /\ CountInv /\ AnswerInv
<1> SUFFICES ASSUME Init PROVE TypeOK /\ PacketInv /\ JobInv /\ CountInv /\ AnswerInv
  OBVIOUS
<1> USE DispatchAssumption
<1>1. /\ << >> \in Seq(InPack) /\ Len(<< >>) = 0 /\ << >> \in Seq({"grab", "pre_sleep"})
      /\ 0 \in 0 .. MaxOther /\ 0 \in 0 .. (IF Limit = 0 THEN 0 ELSE Limit - 1) /\ 0 =< QueueSize
  OBVIOUS
<1>2. /\ rec \in [Agents -> {"no", "dial", "grab", "start"}] /\ losses \in [Agents -> Nat]
      /\ ex \in [Jobs -> {None, "lookup", "busy", "check", "write", "release", "done"}]
      /\ from \in [Jobs -> Agents \cup {None}] /\ toServer \in [Agents -> Seq({"grab", "pre_sleep"})]
      /\ toAgent \in [Agents -> Seq(InPack)] /\ queued \in [Agents -> SUBSET Jobs]
      /\ asleep \in [Agents -> BOOLEAN]
  BY Zenon, <1>1 DEF Init
<1>3. TypeOK
  BY ZenonT(30), <1>1, <1>2 DEF Init, TypeOK
<1>4. in = << >> /\ \A a \in Agents : toAgent[a] = << >> /\ queued[a] = {}
  BY Zenon DEF Init
<1>5. PacketInv
  BY <1>4 DEF PacketInv
<1>6. JobInv
  BY Zenon, <1>4, HoldsEmpty DEF JobInv
<1>7. CountInv
  <2>1. Active = {}
    BY Zenon DEF Init, Active, None
  <2> QED
    BY <2>1, FS_EmptySet DEF CountInv, Init
<1>8. AnswerInv
  <2>1. \A a : InFlight(a, << >>) = {}
    BY DEF InFlight
  <2> QED
    BY Zenon, <1>4, <2>1 DEF AnswerInv, Init, None
<1> QED
  BY Zenon, <1>3, <1>5, <1>6, <1>7, <1>8

(* The inductive invariant: types, a job in one place, as many places      *)
(* taken as exec goroutines, timed jobs answered or orphaned.            *)
THEOREM DispatchInvariant ==
  Spec => [](TypeOK /\ PacketInv /\ JobInv /\ CountInv /\ AnswerInv)
<1> DEFINE Inv == TypeOK /\ PacketInv /\ JobInv /\ CountInv /\ AnswerInv
<1>1. Init => Inv
  BY Zenon, DispatchInit
<1>2. Inv /\ [Next]_vars => Inv'
  <2> SUFFICES ASSUME Inv, [Next]_vars PROVE Inv'
    OBVIOUS
  <2>1. TypeOK'
    BY Zenon, TypeStep
  <2>2. PacketInv' /\ JobInv'
    BY Zenon, PacketStep, JobStep
  <2>3. CountInv' /\ AnswerInv'
    BY Zenon, CountStep, AnswerStep
  <2> QED
    BY Zenon, <2>1, <2>2, <2>3
<1> QED
  BY <1>1, <1>2, PTL DEF Spec

(* The state of Work, exec, Close and the servers keeps its types: neither *)
(* worker.in nor worker.limit holds more than its capacity.                *)
THEOREM DispatchTypes == Spec => []TypeOK
BY DispatchInvariant, PTL

(* New's limit bounds dispatch for any limit and number of jobs: between   *)
(* them handleInPack and exec never have more than limit exec goroutines,  *)
(* and the job functions in execution exceed limit by no more than those   *)
(* execTimeout has given up on.                                            *)
THEOREM LimitHolds == Spec => []LimitRespected
<1>1. TypeOK /\ CountInv => LimitRespected
  <2> SUFFICES ASSUME TypeOK, CountInv, Limit # 0
               PROVE  Cardinality(Active) <= Limit /\ Cardinality(Executing) <= Limit + Cardinality(overrun)
    BY Zenon DEF LimitRespected
  <2>1. Cardinality(Active) = tokens + (IF wpc = "limit" THEN 1 ELSE 0) /\ tokens \in 0 .. Limit - 1
    BY Zenon DEF CountInv, TypeOK
  <2>2. Cardinality(Active) <= Limit
    BY <2>1, DispatchAssumption
  <2> DEFINE busy == {j \in Jobs : ex[j] = "busy"}
  <2>3. IsFiniteSet(Active) /\ IsFiniteSet(overrun) /\ busy \in SUBSET Active
    <3>1. Active \in SUBSET Jobs /\ overrun \in SUBSET Jobs /\ busy \in SUBSET Active
      BY Zenon DEF Active, TypeOK, None
    <3> QED
      BY Zenon, <3>1, DispatchAssumption, FS_Subset
  <2>4. IsFiniteSet(busy) /\ Cardinality(busy) <= Cardinality(Active)
    BY Zenon, <2>3, FS_Subset
  <2>5. Cardinality(busy \cup overrun)
          = Cardinality(busy) + Cardinality(overrun) - Cardinality(busy \cap overrun)
    BY Zenon, <2>3, <2>4, FS_Union
  <2>6. /\ Cardinality(Active) \in Nat /\ Cardinality(overrun) \in Nat /\ Cardinality(busy) \in Nat
        /\ Cardinality(busy \cap overrun) \in Nat
    BY Zenon, <2>3, <2>4, FS_CardinalityType, FS_Intersection
  <2>7. Executing = busy \cup overrun
    BY Zenon DEF Executing
  <2> HIDE DEF busy
  <2> QED
    BY <2>2, <2>4, <2>5, <2>6, <2>7, DispatchAssumption
<1> QED
  BY <1>1, DispatchInvariant, PTL

(* A job with a timeout that exec is through with was answered, unless the *)
(* worker is closing or the connection it came on was lost.                *)
THEOREM TimeoutsAnswered == Spec => []TimedJobsAnswered
<1>1. AnswerInv => TimedJobsAnswered
  BY Zenon DEF AnswerInv, TimedJobsAnswered
<1> QED
  BY <1>1, DispatchInvariant, PTL

-----------------------------------------------------------------------------
(* One conversation with each server.                                      *)

(* Until Close has quit, an agent without a connection is one whose loop   *)
(* or whose reconnect will deal with it.                                   *)
LostInv ==
  closing # "quit" =>
    /\ Agents \ connected \subseteq lost
    /\ \A a \in Agents : a \in reading \/ rec[a] # "no"

-----------------------------------------------------------------------------
(* Connections lost.                                                       *)

LEMMA LostStep ==
  ASSUME TypeOK, LostInv, [Next]_vars
  PROVE  LostInv'
<1>1. CASE Close
  <2>1. closing' = "quit" \/ (UNCHANGED <<connected, lost, reading, rec>> /\ closing = "no")
    BY Zenon, <1>1 DEF Close, SetClosed, CloseQuit, CloseAgent, CloseUnchanged
  <2> QED
    BY Zenon, <2>1 DEF LostInv
<1>2. CASE \/ Work \/ UNCHANGED vars \/ (\E j \in Jobs : exec(j) \/ OverrunEnds(j))
           \/ \E a \in Agents : \/ Forward(a) \/ ServeGrab(a) \/ ServePreSleep(a) \/ ServeOther(a)
                                \/ \E j \in Jobs : Submit(a, j)
  <2>1. UNCHANGED <<closing, connected, lost, reading, rec>>
    BY Zenon, <1>2 DEF Work, StartWork, FirstGrab, HandleNoJob, HandleNoop, HandleOther, HandleJobAssign,
         LimitSend, LimitHandoff, GrabNext, SeeQuit, WorkReturns, WorkUnchanged, exec, Lookup, Finish,
         ExecTimeout, Panic, CheckRunning, WriteResult, Release, OverrunEnds, ExecUnchanged, Forward, ServeGrab,
         ServePreSleep, ServeOther, Submit, ServerUnchanged, closeVars, connVars, vars
  <2> QED
    BY Zenon, <2>1 DEF LostInv
<1>3. ASSUME NEW a \in Agents, LoopEnds(a)
      PROVE  LostInv'
  <2>1. /\ reading' = reading \ {a} /\ UNCHANGED <<closing, connected, lost>>
        /\ closing = "quit" \/ (a \notin connected /\ toAgent[a] = << >>)
        /\ rec' = IF a \in lost /\ toAgent[a] = << >> THEN [rec EXCEPT ![a] = "dial"] ELSE rec
    BY Zenon, <1>3 DEF LoopEnds
  <2> SUFFICES ASSUME closing # "quit" PROVE LostInv'
    BY Zenon, <2>1 DEF LostInv
  <2>2. rec' = [rec EXCEPT ![a] = "dial"]
    BY Zenon, <2>1 DEF LostInv
  <2>3. \A b \in Agents : b \in reading' \/ rec'[b] # "no"
    <3>1. rec'[a] # "no" /\ \A b \in Agents : b # a => rec'[b] = rec[b]
      BY Zenon, <2>2 DEF TypeOK
    <3> QED
      BY Zenon, <2>1, <3>1 DEF LostInv
  <2> QED
    BY Zenon, <2>1, <2>3 DEF LostInv
<1>4. ASSUME NEW a \in Agents, reconnect(a)
      PROVE  LostInv'
  <2>1. /\ closing' = closing /\ connected \subseteq connected'
        /\ lost \ {a} \subseteq lost' /\ (a \in lost => a \in lost' \/ a \in connected')
        /\ reading' = reading \/ (reading' = reading \cup {a})
        /\ rec' = [rec EXCEPT ![a] = "grab"] \/ rec' = [rec EXCEPT ![a] = "start"]
             \/ (rec' = [rec EXCEPT ![a] = "no"] /\ reading' = reading \cup {a})
    BY Zenon, <1>4 DEF reconnect, ReconnectPublish, ReconnectGrab, ReconnectStart, ReconnectUnchanged
  <2>2. \A b \in Agents : b \in reading \/ rec[b] # "no" => b \in reading' \/ rec'[b] # "no"
    BY Zenon, <2>1 DEF TypeOK
  <2> QED
    BY Zenon, <2>1, <2>2 DEF LostInv
<1>5. ASSUME NEW a \in Agents, Lose(a)
      PROVE  LostInv'
  <2>1. connected' = connected \ {a} /\ lost' = lost \cup {a} /\ UNCHANGED <<closing, reading, rec>>
    BY Zenon, <1>5 DEF Lose
  <2> QED
    BY Zenon, <2>1 DEF LostInv
<1> QED
  BY Zenon, <1>1, <1>2, <1>3, <1>4, <1>5 DEF Next

(* The places of the packets that Talk counts.                             *)
Says(a, s) == {i \in 1 .. Len(s) : s[i].a = a /\ s[i].type # "other"}

LEMMA TalkCounts ==
  ASSUME NEW s \in Seq(InPack), NEW a
  PROVE  IsFiniteSet(Says(a, s)) /\ Talk(a, s) = Cardinality(Says(a, s)) /\ Talk(a, s) \in Nat
<1>1. IsFiniteSet(1 .. Len(s)) /\ Says(a, s) \in SUBSET (1 .. Len(s))
  BY FS_Interval DEF Says
<1>2. IsFiniteSet(Says(a, s)) /\ Cardinality(Says(a, s)) \in Nat
  BY Zenon, <1>1, FS_Subset, FS_CardinalityType
<1> QED
  BY Zenon, <1>2 DEF Talk, Says

LEMMA TalkAppend ==
  ASSUME NEW s \in Seq(InPack), NEW a, NEW p \in InPack
  PROVE  Talk(a, Append(s, p)) = Talk(a, s) + (IF p.a = a /\ p.type # "other" THEN 1 ELSE 0)
<1> DEFINE t == Append(s, p)
<1>1. /\ t \in Seq(InPack) /\ Len(t) = Len(s) + 1 /\ Len(s) \in Nat /\ t[Len(s) + 1] = p
      /\ \A i \in 1 .. Len(s) : t[i] = s[i]
  BY AppendFacts
<1>2. /\ \A i : i \in 1 .. Len(t) <=> i \in 1 .. Len(s) \/ i = Len(s) + 1
      /\ Len(s) + 1 \notin 1 .. Len(s)
  BY <1>1
<1> HIDE DEF t
<1>3. /\ IsFiniteSet(Says(a, s)) /\ Talk(a, s) = Cardinality(Says(a, s)) /\ Talk(a, s) \in Nat
      /\ Talk(a, t) = Cardinality(Says(a, t))
  BY Zenon, <1>1, TalkCounts
<1>4. CASE p.a = a /\ p.type # "other"
  <2>1. Says(a, t) = Says(a, s) \cup {Len(s) + 1} /\ Len(s) + 1 \notin Says(a, s)
    BY Zenon, <1>1, <1>2, <1>4 DEF Says
  <2>2. Cardinality(Says(a, t)) = Cardinality(Says(a, s)) + 1
    BY Zenon, <1>3, <2>1, FS_AddElement
  <2> QED
    BY Zenon, <1>3, <1>4, <2>2 DEF t
<1>5. CASE ~(p.a = a /\ p.type # "other")
  <2>1. Says(a, t) = Says(a, s)
    BY Zenon, <1>1, <1>2, <1>5 DEF Says
  <2> QED
    BY <1>3, <1>5, <2>1 DEF t
<1> QED
  BY Zenon, <1>4, <1>5

LEMMA TalkTail ==
  ASSUME NEW s \in Seq(InPack), NEW a, s # << >>
  PROVE  Talk(a, s) = Talk(a, Tail(s)) + (IF Head(s).a = a /\ Head(s).type # "other" THEN 1 ELSE 0)
<1> DEFINE t == Tail(s)
<1>1. /\ t \in Seq(InPack) /\ Head(s) = s[1] /\ Len(s) \in Nat /\ Len(s) >= 1 /\ Len(t) = Len(s) - 1
      /\ \A i \in 1 .. Len(t) : t[i] = s[i + 1]
  BY Zenon, TailFacts
<1>2. /\ \A i \in 1 .. Len(t) : i + 1 \in 1 .. Len(s) /\ i + 1 # 1
      /\ \A i \in 1 .. Len(s) : i # 1 => i - 1 \in 1 .. Len(t) /\ i = (i - 1) + 1
      /\ 1 \in 1 .. Len(s)
  BY <1>1
<1> HIDE DEF t
<1>3. /\ IsFiniteSet(Says(a, s)) /\ Talk(a, s) = Cardinality(Says(a, s)) /\ Talk(a, s) \in Nat
      /\ IsFiniteSet(Says(a, t)) /\ Talk(a, t) = Cardinality(Says(a, t)) /\ Talk(a, t) \in Nat
  BY Zenon, <1>1, TalkCounts
<1> DEFINE r == Says(a, s) \ {1}
           f == [i \in Says(a, t) |-> i + 1]
<1>4. f \in [Says(a, t) -> r]
  BY Zenon, <1>1, <1>2 DEF Says
<1>5. \A i, k \in Says(a, t) : f[i] = f[k] => i = k
  BY DEF Says
<1>6. \A k \in r : k - 1 \in Says(a, t) /\ f[k - 1] = k
  BY Zenon, <1>1, <1>2 DEF Says
<1>7. f \in Bijection(Says(a, t), r)
  <2> HIDE DEF f, r
  <2>1. f \in Injection(Says(a, t), r)
    BY Zenon, <1>4, <1>5 DEF Injection, IsInjective
  <2>2. f \in Surjection(Says(a, t), r)
    BY Zenon, <1>4, <1>6 DEF Surjection
  <2> QED
    BY Zenon, <2>1, <2>2 DEF Bijection
<1>8. Cardinality(r) = Cardinality(Says(a, t))
  <2> HIDE DEF f, r
  <2>1. ExistsBijection(Says(a, t), r)
    BY Zenon, <1>7 DEF ExistsBijection
  <2> QED
    BY Zenon, <1>3, <2>1, FS_Bijection
<1>9. Cardinality(r) = IF 1 \in Says(a, s) THEN Cardinality(Says(a, s)) - 1 ELSE Cardinality(Says(a, s))
  BY Zenon, <1>3, FS_RemoveElement
<1>10. 1 \in Says(a, s) <=> Head(s).a = a /\ Head(s).type # "other"
  BY Zenon, <1>1, <1>2 DEF Says
<1> HIDE DEF r, f
<1> QED
  BY <1>3, <1>8, <1>9, <1>10 DEF t

LEMMA TalkCut ==
  ASSUME NEW s \in Seq(InPack), NEW a, NEW n \in 0 .. Len(s)
  PROVE  Talk(a, SubSeq(s, 1, n)) \in 0 .. Talk(a, s)
<1> DEFINE t == SubSeq(s, 1, n)
<1>1. t \in Seq(InPack) /\ Len(t) = n /\ \A i \in 1 .. n : t[i] = s[i] /\ i \in 1 .. Len(s)
  OBVIOUS
<1> HIDE DEF t
<1>2. Says(a, t) \in SUBSET Says(a, s)
  BY Zenon, <1>1 DEF Says
<1>3. /\ IsFiniteSet(Says(a, s)) /\ Talk(a, s) = Cardinality(Says(a, s)) /\ Talk(a, s) \in Nat
      /\ Talk(a, t) = Cardinality(Says(a, t)) /\ Talk(a, t) \in Nat
  BY Zenon, <1>1, TalkCounts
<1>4. Cardinality(Says(a, t)) =< Cardinality(Says(a, s))
  BY Zenon, <1>2, <1>3, FS_Subset
<1> QED
  BY <1>3, <1>4 DEF t

LEMMA TalkEmpty == \A a : Talk(a, << >>) = 0
<1>1. \A a : {i \in 1 .. Len(<< >>) : << >>[i].a = a /\ << >>[i].type # "other"} = {}
  OBVIOUS
<1> QED
  BY Zenon, <1>1, FS_EmptySet DEF Talk

(* The terms of a conversation but for the packets.                        *)
First(a)  == IF a \in toGrab THEN 1 ELSE 0
Wait(a)   == IF wpc \in {"limit", "grab"} /\ cur = a THEN 1 ELSE 0
Sleep(a)  == IF asleep[a] THEN 1 ELSE 0
Mend(a)   == IF rec[a] \in {"dial", "grab"} \/ (a \in lost /\ (a \in reading \/ rec[a] = "start"))
             THEN 1 ELSE 0

Sent(a)  == Len(toServer[a])
Coming(a) == Talk(a, toAgent[a])
Come(a)  == Talk(a, in)

Terms ==
  \A a \in Agents :
    /\ Conversation(a) = First(a) + Sent(a) + Coming(a) + Come(a) + Wait(a) + Sleep(a) + Mend(a)
    /\ First(a) \in 0 .. 1 /\ Wait(a) \in 0 .. 1 /\ Sleep(a) \in 0 .. 1 /\ Mend(a) \in 0 .. 1
    /\ Sent(a) \in Nat /\ Coming(a) \in Nat /\ Come(a) \in Nat /\ losses[a] \in Nat

LEMMA ConversationTerms == TypeOK => Terms
<1> SUFFICES ASSUME TypeOK, NEW a \in Agents
             PROVE  /\ Conversation(a) = First(a) + Sent(a) + Coming(a) + Come(a) + Wait(a) + Sleep(a) + Mend(a)
                    /\ First(a) \in 0 .. 1 /\ Wait(a) \in 0 .. 1 /\ Sleep(a) \in 0 .. 1 /\ Mend(a) \in 0 .. 1
                    /\ Sent(a) \in Nat /\ Coming(a) \in Nat /\ Come(a) \in Nat /\ losses[a] \in Nat
  BY Zenon DEF Terms
<1>1. toServer[a] \in Seq({"grab", "pre_sleep"}) /\ toAgent[a] \in Seq(InPack) /\ in \in Seq(InPack)
      /\ losses[a] \in Nat
  BY Zenon DEF TypeOK
<1>2. Sent(a) \in Nat /\ Coming(a) \in Nat /\ Come(a) \in Nat
  BY <1>1, TalkCounts DEF Sent, Coming, Come
<1>3. First(a) \in 0 .. 1 /\ Wait(a) \in 0 .. 1 /\ Sleep(a) \in 0 .. 1 /\ Mend(a) \in 0 .. 1
  BY DEF First, Wait, Sleep, Mend
<1> QED
  BY Zenon, <1>1, <1>2, <1>3 DEF Conversation, First, Wait, Sleep, Mend, Sent, Coming, Come

LEMMA ConversationTermsNext == TypeOK' => Terms'
BY ConversationTerms, PTL

(* A grab or a pre-sleep for agent b reaches the server, or its connection *)
(* is to be mended.                                                        *)
LEMMA ConversationWrite ==
  ASSUME TypeOK, LostInv, closing # "quit", NEW b \in Agents, NEW packet, Write(b, packet)
  PROVE  /\ \A a \in Agents : a # b => Sent(a)' = Sent(a)
         /\ b \in connected => Sent(b)' = Sent(b) + 1
         /\ b \notin connected => Sent(b)' = Sent(b) /\ Mend(b) = 1
<1>1. CASE b \in connected
  <2>1. toServer' = [toServer EXCEPT ![b] = Append(toServer[b], packet)]
    BY Zenon, <1>1 DEF Write
  <2>2. toServer'[b] = Append(toServer[b], packet) /\ \A a \in Agents : a # b => toServer'[a] = toServer[a]
    BY Zenon, <2>1 DEF TypeOK
  <2>3. Len(Append(toServer[b], packet)) = Len(toServer[b]) + 1
    BY DEF TypeOK
  <2> QED
    BY Zenon, <1>1, <2>2, <2>3 DEF Sent
<1>2. CASE b \notin connected
  <2>1. toServer' = toServer
    BY Zenon, <1>2 DEF Write
  <2>2. Mend(b) = 1
    BY Zenon, <1>2 DEF LostInv, Mend, TypeOK
  <2> QED
    BY Zenon, <1>2, <2>1, <2>2 DEF Sent
<1> QED
  BY Zenon, <1>1, <1>2

LEMMA ConversationPush ==
  ASSUME TypeOK, NEW b \in Agents, NEW p \in InPack, p.a = b, Push(b, p)
  PROVE  /\ \A a \in Agents : a # b => Coming(a)' = Coming(a)
         /\ Coming(b)' = Coming(b) + (IF p.type # "other" THEN 1 ELSE 0)
<1>1. toAgent'[b] = Append(toAgent[b], p) /\ \A a \in Agents : a # b => toAgent'[a] = toAgent[a]
  BY Zenon DEF Push, TypeOK
<1>2. Talk(b, Append(toAgent[b], p)) = Talk(b, toAgent[b]) + (IF p.type # "other" THEN 1 ELSE 0)
  BY Zenon, TalkAppend DEF TypeOK
<1> QED
  BY Zenon, <1>1, <1>2 DEF Coming

LEMMA ConversationServe ==
  ASSUME TypeOK, NEW b \in Agents, toServer[b] # << >>, toServer' = [toServer EXCEPT ![b] = Tail(toServer[b])]
  PROVE  (\A a \in Agents : a # b => Sent(a)' = Sent(a)) /\ Sent(b)' = Sent(b) - 1
<1>1. toServer'[b] = Tail(toServer[b]) /\ \A a \in Agents : a # b => toServer'[a] = toServer[a]
  BY Zenon DEF TypeOK
<1>2. Len(Tail(toServer[b])) = Len(toServer[b]) - 1
  BY TailFacts DEF TypeOK
<1> QED
  BY Zenon, <1>1, <1>2 DEF Sent

(* The terms as a connection fails.                                        *)
LEMMA LoseSum ==
  ASSUME NEW f \in 0 .. 1, NEW s \in Nat, NEW c \in Nat, NEW d \in Nat, d =< c, NEW i \in Nat,
         NEW w \in 0 .. 1, NEW z \in 0 .. 1, NEW m \in 0 .. 1
  PROVE  f + 0 + d + i + w + 0 + 1 \in 1 .. (f + s + c + i + w + z + m) + 1
OBVIOUS

LEMMA ConversationStep ==
  ASSUME TypeOK, TypeOK', PacketInv, LostInv, OneConversation, [Next]_vars
  PROVE  OneConversation'
<1> SUFFICES ASSUME closing' # "quit", NEW a \in Agents
             PROVE  Conversation(a)' \in 1 .. 1 + losses'[a]
  BY Zenon DEF OneConversation
<1>a. /\ Conversation(a) = First(a) + Sent(a) + Coming(a) + Come(a) + Wait(a) + Sleep(a) + Mend(a)
      /\ First(a) \in 0 .. 1 /\ Wait(a) \in 0 .. 1 /\ Sleep(a) \in 0 .. 1 /\ Mend(a) \in 0 .. 1
      /\ Sent(a) \in Nat /\ Coming(a) \in Nat /\ Come(a) \in Nat /\ losses[a] \in Nat
  BY Zenon, ConversationTerms DEF Terms
<1>b. /\ Conversation(a)' = First(a)' + Sent(a)' + Coming(a)' + Come(a)' + Wait(a)' + Sleep(a)' + Mend(a)'
      /\ First(a)' \in 0 .. 1 /\ Wait(a)' \in 0 .. 1 /\ Sleep(a)' \in 0 .. 1 /\ Mend(a)' \in 0 .. 1
      /\ Sent(a)' \in Nat /\ Coming(a)' \in Nat /\ Come(a)' \in Nat /\ losses'[a] \in Nat
  BY Zenon, ConversationTermsNext DEF Terms
<1>c. closing # "quit"
  BY ZenonT(30) DEF Next, Work, StartWork, FirstGrab, HandleNoJob, HandleNoop, HandleOther, HandleJobAssign,
       LimitSend, LimitHandoff, GrabNext, SeeQuit, WorkReturns, WorkUnchanged, exec, Lookup, Finish,
       ExecTimeout, Panic, CheckRunning, WriteResult, Release, OverrunEnds, ExecUnchanged, Forward, LoopEnds,
       reconnect, ReconnectPublish, ReconnectGrab, ReconnectStart, ReconnectUnchanged, Lose, ServeGrab,
       ServePreSleep, ServeOther, Submit, ServerUnchanged, Close, SetClosed, CloseQuit, CloseAgent,
       closeVars, vars
<1>d. Conversation(a) \in 1 .. 1 + losses[a]
  BY Zenon, <1>c DEF OneConversation
<1>e. ASSUME First(a)' + Sent(a)' + Coming(a)' + Come(a)' + Wait(a)' + Sleep(a)' + Mend(a)'
               = First(a) + Sent(a) + Coming(a) + Come(a) + Wait(a) + Sleep(a) + Mend(a),
             losses' = losses
      PROVE  Conversation(a)' \in 1 .. 1 + losses'[a]
  BY Zenon, <1>a, <1>b, <1>d, <1>e
<1>1. CASE \/ StartWork \/ SeeQuit \/ WorkReturns \/ LimitSend \/ Close \/ UNCHANGED vars
           \/ \E j \in Jobs : exec(j) \/ OverrunEnds(j) \/ LimitHandoff(j)
  <2>1. UNCHANGED <<toServer, toAgent, in, asleep, losses, cur, toGrab>>
    BY ZenonT(30), <1>1 DEF StartWork, SeeQuit, WorkReturns, LimitSend, Close, SetClosed, CloseQuit, CloseAgent,
         exec, Lookup, Finish, ExecTimeout, Panic, CheckRunning, WriteResult, Release, OverrunEnds, LimitHandoff,
         ExecUnchanged, WorkUnchanged, CloseUnchanged, closeVars, connVars, workVars, serverVars, vars
  <2>2. UNCHANGED <<rec, lost, reading>>
    BY ZenonT(30), <1>1, <1>c DEF StartWork, SeeQuit, WorkReturns, LimitSend, Close, SetClosed, CloseQuit, CloseAgent,
         exec, Lookup, Finish, ExecTimeout, Panic, CheckRunning, WriteResult, Release, OverrunEnds, LimitHandoff,
         ExecUnchanged, WorkUnchanged, CloseUnchanged, closeVars, connVars, vars
  <2>3. wpc' \in {"limit", "grab"} <=> wpc \in {"limit", "grab"}
    BY Zenon, <1>1 DEF StartWork, SeeQuit, WorkReturns, LimitSend, Close, SetClosed, CloseQuit, CloseAgent,
         exec, Lookup, Finish, ExecTimeout, Panic, CheckRunning, WriteResult, Release, OverrunEnds, LimitHandoff,
         ExecUnchanged, WorkUnchanged, CloseUnchanged, workVars, vars
  <2>4. /\ First(a)' = First(a) /\ Sent(a)' = Sent(a) /\ Coming(a)' = Coming(a) /\ Come(a)' = Come(a)
        /\ Wait(a)' = Wait(a) /\ Sleep(a)' = Sleep(a) /\ Mend(a)' = Mend(a)
    BY Zenon, <2>1, <2>2, <2>3 DEF First, Sent, Coming, Come, Wait, Sleep, Mend
  <2> QED
    BY Zenon, <1>e, <2>1, <2>4
<1>2. ASSUME NEW b \in Agents, FirstGrab(b)
      PROVE  Conversation(a)' \in 1 .. 1 + losses'[a]
  <2>1. /\ wpc = "firstGrab" /\ b \in toGrab /\ toGrab' = toGrab \ {b} /\ wpc' \notin {"limit", "grab"}
        /\ Write(b, "grab")
        /\ UNCHANGED <<in, toAgent, asleep, losses, rec, lost, reading>>
    BY Zenon, <1>2 DEF FirstGrab, Grab, WorkUnchanged, closeVars, connVars, serverVars
  <2>2. /\ Coming(a)' = Coming(a) /\ Come(a)' = Come(a) /\ Wait(a)' = 0 /\ Wait(a) = 0
        /\ Sleep(a)' = Sleep(a) /\ Mend(a)' = Mend(a)
    BY Zenon, <2>1 DEF Coming, Come, Wait, Sleep, Mend
  <2>3. a # b => First(a)' = First(a)
    BY Zenon, <2>1 DEF First
  <2>4. a = b => First(a)' = 0 /\ First(a) = 1
    BY Zenon, <2>1 DEF First
  <2>5. /\ a # b => Sent(a)' = Sent(a)
        /\ a = b /\ b \in connected => Sent(a)' = Sent(a) + 1
        /\ a = b /\ b \notin connected => Sent(a)' = Sent(a) /\ Mend(a) = 1
    BY Zenon, <1>c, <2>1, ConversationWrite
  <2>0. losses' = losses
    BY Zenon, <2>1
  <2>6. CASE a # b \/ b \in connected
    <3>1. First(a)' + Sent(a)' + Coming(a)' + Come(a)' + Wait(a)' + Sleep(a)' + Mend(a)'
            = First(a) + Sent(a) + Coming(a) + Come(a) + Wait(a) + Sleep(a) + Mend(a)
      BY <1>a, <2>2, <2>3, <2>4, <2>5, <2>6
    <3> QED
      BY Zenon, <1>e, <2>0, <3>1
  <2>7. CASE a = b /\ b \notin connected
    BY <1>a, <1>b, <1>d, <2>0, <2>2, <2>4, <2>5, <2>7
  <2> QED
    BY Zenon, <2>6, <2>7
<1>3. CASE HandleNoJob \/ HandleNoop
  <2> DEFINE b == Head(in).a
  <2>1. /\ in # << >> /\ in' = Tail(in) /\ Head(in).type # "other" /\ \E p : Write(b, p)
        /\ UNCHANGED <<wpc, cur, toGrab, toAgent, asleep, losses, rec, lost, reading>>
    BY Zenon, <1>3 DEF HandleNoJob, HandleNoop, Grab, PreSleep, WorkUnchanged, closeVars, connVars, workVars, serverVars
  <2>0. losses' = losses
    BY Zenon, <2>1
  <2>2. b \in Agents
    BY Zenon, <2>1, HoldsTail, PacketTypes DEF TypeOK
  <2>3. Come(a) = Come(a)' + (IF b = a THEN 1 ELSE 0)
    BY Zenon, <2>1, TalkTail DEF Come, TypeOK
  <2> HIDE DEF b
  <2>4. /\ Coming(a)' = Coming(a) /\ Wait(a)' = Wait(a) /\ First(a)' = First(a)
        /\ Sleep(a)' = Sleep(a) /\ Mend(a)' = Mend(a)
    BY Zenon, <2>1 DEF Coming, First, Wait, Sleep, Mend
  <2>5. /\ a # b => Sent(a)' = Sent(a)
        /\ a = b /\ b \in connected => Sent(a)' = Sent(a) + 1
        /\ a = b /\ b \notin connected => Sent(a)' = Sent(a) /\ Mend(a) = 1
    BY Zenon, <1>c, <2>1, <2>2, ConversationWrite
  <2>6. CASE a # b \/ b \in connected
    BY <1>a, <1>b, <1>e, <2>0, <2>3, <2>4, <2>5, <2>6
  <2>7. CASE a = b /\ b \notin connected
    BY <1>a, <1>b, <1>d, <2>0, <2>3, <2>4, <2>5, <2>7
  <2> QED
    BY Zenon, <2>6, <2>7
<1>4. CASE HandleOther
  <2>1. /\ in # << >> /\ in' = Tail(in) /\ Head(in).type = "other"
        /\ UNCHANGED <<wpc, cur, toGrab, toServer, toAgent, asleep, losses, rec, lost, reading>>
    BY Zenon, <1>4 DEF HandleOther, WorkUnchanged, closeVars, connVars, workVars, serverVars
  <2>2. Come(a) = Come(a)' + 0
    BY Zenon, <2>1, TalkTail DEF Come, TypeOK
  <2>3. /\ Coming(a)' = Coming(a) /\ Wait(a)' = Wait(a) /\ First(a)' = First(a) /\ Sent(a)' = Sent(a)
        /\ Sleep(a)' = Sleep(a) /\ Mend(a)' = Mend(a)
    BY Zenon, <2>1 DEF Coming, First, Wait, Sleep, Mend, Sent
  <2> QED
    BY <1>a, <1>b, <1>e, <2>1, <2>2, <2>3
<1>5. CASE HandleJobAssign
  <2> DEFINE b == Head(in).a
  <2>1. /\ in # << >> /\ in' = Tail(in) /\ Head(in).type # "other" /\ cur' = b
        /\ wpc = "select" /\ wpc' \in {"limit", "grab"}
        /\ UNCHANGED <<toGrab, toServer, toAgent, asleep, losses, rec, lost, reading>>
    BY Zenon, <1>5 DEF HandleJobAssign, closeVars, connVars, serverVars
  <2>3. Come(a) = Come(a)' + (IF b = a THEN 1 ELSE 0)
    BY Zenon, <2>1, TalkTail DEF Come, TypeOK
  <2> HIDE DEF b
  <2>4. /\ Coming(a)' = Coming(a) /\ First(a)' = First(a) /\ Sent(a)' = Sent(a)
        /\ Wait(a) = 0 /\ Wait(a)' = (IF b = a THEN 1 ELSE 0)
        /\ Sleep(a)' = Sleep(a) /\ Mend(a)' = Mend(a)
    BY Zenon, <2>1 DEF Coming, First, Wait, Sleep, Mend, Sent
  <2>5. losses' = losses
    BY Zenon, <2>1
  <2>6. Come(a)' + Wait(a)' = Come(a) + Wait(a)
    <3>1. CASE b = a
      BY <1>b, <2>3, <2>4, <3>1
    <3>2. CASE b # a
      BY <1>b, <2>3, <2>4, <3>2
    <3> QED
      BY Zenon, <3>1, <3>2
  <2> QED
    BY <1>a, <1>b, <1>e, <2>4, <2>5, <2>6
<1>6. CASE GrabNext
  <2>1. /\ wpc = "grab" /\ wpc' = "select" /\ Write(cur, "grab")
        /\ UNCHANGED <<cur, in, toGrab, toAgent, asleep, losses, rec, lost, reading>>
    BY Zenon, <1>6 DEF GrabNext, Grab, WorkUnchanged, closeVars, connVars, serverVars
  <2>2. /\ Coming(a)' = Coming(a) /\ First(a)' = First(a) /\ Come(a)' = Come(a)
        /\ Wait(a) = (IF cur = a THEN 1 ELSE 0) /\ Wait(a)' = 0
        /\ Sleep(a)' = Sleep(a) /\ Mend(a)' = Mend(a)
    BY Zenon, <2>1 DEF Coming, Come, First, Wait, Sleep, Mend
  <2>3. /\ cur # a => Sent(a)' = Sent(a)
        /\ cur = a /\ a \in connected => Sent(a)' = Sent(a) + 1
        /\ cur = a /\ a \notin connected => Sent(a)' = Sent(a) /\ Mend(a) = 1
    <3>1. CASE cur \in Agents
      BY Zenon, <1>c, <2>1, <3>1, ConversationWrite
    <3>2. CASE cur \notin Agents
      <4>1. toServer' = toServer
        BY Zenon, <2>1, <3>2 DEF Write, TypeOK
      <4> QED
        BY Zenon, <3>2, <4>1 DEF Sent
    <3> QED
      BY Zenon, <3>1, <3>2
  <2>0. losses' = losses
    BY Zenon, <2>1
  <2>4. CASE cur # a \/ a \in connected
    <3>1. First(a)' + Sent(a)' + Coming(a)' + Come(a)' + Wait(a)' + Sleep(a)' + Mend(a)'
            = First(a) + Sent(a) + Coming(a) + Come(a) + Wait(a) + Sleep(a) + Mend(a)
      BY <1>a, <2>2, <2>3, <2>4
    <3> QED
      BY Zenon, <1>e, <2>0, <3>1
  <2>5. CASE cur = a /\ a \notin connected
    <3>1. Wait(a) = 1 /\ Sent(a)' = Sent(a) /\ Mend(a)' = 1
      BY Zenon, <2>2, <2>3, <2>5
    <3> QED
      BY <1>a, <1>b, <1>d, <2>0, <2>2, <3>1
  <2> QED
    BY Zenon, <2>4, <2>5
<1>7. ASSUME NEW b \in Agents, Forward(b)
      PROVE  Conversation(a)' \in 1 .. 1 + losses'[a]
  <2> DEFINE p == Head(toAgent[b])
             x == IF b = a /\ p.type # "other" THEN 1 ELSE 0
  <2>1. /\ toAgent[b] # << >> /\ in' = Append(in, p) /\ toAgent' = [toAgent EXCEPT ![b] = Tail(toAgent[b])]
        /\ UNCHANGED <<wpc, cur, toGrab, toServer, asleep, losses, rec, lost, reading>>
    BY Zenon, <1>7 DEF Forward, closeVars, connVars, workVars, serverVars
  <2>2. p \in InPack /\ p.a = b
    <3>1. toAgent[b] \in Seq(InPack)
      BY Zenon DEF TypeOK
    <3>2. p \in InPack /\ p = toAgent[b][1] /\ Len(toAgent[b]) \in Nat /\ Len(toAgent[b]) >= 1
      BY Zenon, <2>1, <3>1, TailFacts
    <3>3. 1 \in 1 .. Len(toAgent[b])
      BY <3>2
    <3> QED
      BY Zenon, <3>2, <3>3 DEF PacketInv
  <2>3. Come(a)' = Come(a) + x
    <3>1. in \in Seq(InPack)
      BY Zenon DEF TypeOK
    <3>2. Talk(a, Append(in, p)) = Talk(a, in) + (IF p.a = a /\ p.type # "other" THEN 1 ELSE 0)
      BY Zenon, <2>2, <3>1, TalkAppend
    <3> QED
      BY Zenon, <2>1, <2>2, <3>2 DEF Come
  <2>4. Coming(a) = Coming(a)' + x
    <3>1. CASE b = a
      <4>1. toAgent'[a] = Tail(toAgent[a])
        BY Zenon, <2>1, <3>1 DEF TypeOK
      <4>2. Talk(a, toAgent[a]) = Talk(a, Tail(toAgent[a])) + x
        BY Zenon, <2>1, <2>2, <3>1, TalkTail DEF TypeOK
      <4> QED
        BY Zenon, <4>1, <4>2 DEF Coming
    <3>2. CASE b # a
      <4>1. toAgent'[a] = toAgent[a]
        BY Zenon, <2>1, <3>2 DEF TypeOK
      <4> QED
        BY <1>a, <3>2, <4>1 DEF Coming
    <3> QED
      BY Zenon, <3>1, <3>2
  <2>5. /\ First(a)' = First(a) /\ Sent(a)' = Sent(a)
        /\ Wait(a)' = Wait(a) /\ Sleep(a)' = Sleep(a) /\ Mend(a)' = Mend(a)
    BY Zenon, <2>1 DEF First, Sent, Wait, Sleep, Mend
  <2>6. x \in Nat
    OBVIOUS
  <2> HIDE DEF p, x
  <2> QED
    BY <1>a, <1>b, <1>e, <2>1, <2>3, <2>4, <2>5, <2>6
<1>8. ASSUME NEW b \in Agents, LoopEnds(b)
      PROVE  Conversation(a)' \in 1 .. 1 + losses'[a]
  <2>1. /\ b \notin connected /\ toAgent[b] = << >> /\ reading' = reading \ {b}
        /\ toAgent' = [toAgent EXCEPT ![b] = << >>]
        /\ rec' = IF b \in lost /\ toAgent[b] = << >> THEN [rec EXCEPT ![b] = "dial"] ELSE rec
        /\ b \in reading
        /\ UNCHANGED <<wpc, cur, toGrab, toServer, in, asleep, losses, lost>>
    BY Zenon, <1>8, <1>c DEF LoopEnds, workVars, serverVars
  <2>2. b \in lost /\ rec' = [rec EXCEPT ![b] = "dial"]
    BY Zenon, <1>c, <2>1 DEF LostInv
  <2>3. toAgent' = toAgent
    BY Zenon, <2>1 DEF TypeOK
  <2>4. Mend(a)' = Mend(a)
    <3>1. CASE a = b
      BY Zenon, <2>1, <2>2, <3>1 DEF Mend, TypeOK
    <3>2. CASE a # b
      BY Zenon, <2>1, <2>2, <3>2 DEF Mend, TypeOK
    <3> QED
      BY Zenon, <3>1, <3>2
  <2>5. /\ First(a)' = First(a) /\ Sent(a)' = Sent(a) /\ Coming(a)' = Coming(a) /\ Come(a)' = Come(a)
        /\ Wait(a)' = Wait(a) /\ Sleep(a)' = Sleep(a)
    BY Zenon, <2>1, <2>3 DEF First, Sent, Coming, Come, Wait, Sleep
  <2> QED
    BY Zenon, <1>e, <2>1, <2>4, <2>5
<1>9. ASSUME NEW b \in Agents, reconnect(b)
      PROVE  Conversation(a)' \in 1 .. 1 + losses'[a]
  <2>1. UNCHANGED <<wpc, cur, toGrab, toAgent, in, asleep, losses>>
    BY Zenon, <1>9 DEF reconnect, ReconnectPublish, ReconnectGrab, ReconnectStart, ReconnectUnchanged, workVars,
         serverVars
  <2>2. /\ First(a)' = First(a) /\ Coming(a)' = Coming(a) /\ Come(a)' = Come(a)
        /\ Wait(a)' = Wait(a) /\ Sleep(a)' = Sleep(a)
    BY Zenon, <2>1 DEF First, Coming, Come, Wait, Sleep
  <2>3. CASE ReconnectPublish(b) \/ ReconnectStart(b)
    <3>1. /\ toServer' = toServer
          /\ \/ rec[b] = "dial" /\ rec' = [rec EXCEPT ![b] = "grab"] /\ lost' = lost \ {b} /\ reading' = reading
             \/ rec[b] = "start" /\ rec' = [rec EXCEPT ![b] = "no"] /\ lost' = lost /\ reading' = reading \cup {b}
      BY Zenon, <2>3 DEF ReconnectPublish, ReconnectStart
    <3>2. a # b => rec'[a] = rec[a] /\ (a \in lost' <=> a \in lost) /\ (a \in reading' <=> a \in reading)
      <4>1. a # b => rec'[a] = rec[a]
        BY <3>1 DEF TypeOK
      <4> QED
        BY Zenon, <3>1, <4>1
    <3>3. a # b => Mend(a)' = Mend(a)
      BY Zenon, <3>2 DEF Mend
    <3>4. a = b => Mend(a)' = Mend(a)
      BY Zenon, <3>1 DEF Mend, TypeOK
    <3>5. Sent(a)' = Sent(a)
      BY Zenon, <3>1 DEF Sent
    <3> QED
      BY Zenon, <1>e, <2>1, <2>2, <3>3, <3>4, <3>5
  <2>4. CASE ReconnectGrab(b)
    <3>1. /\ rec[b] = "grab" /\ Write(b, "grab") /\ rec' = [rec EXCEPT ![b] = "start"]
          /\ UNCHANGED <<lost, reading>>
      BY Zenon, <2>4 DEF ReconnectGrab, Grab
    <3>2. /\ a # b => Sent(a)' = Sent(a)
          /\ a = b /\ b \in connected => Sent(a)' = Sent(a) + 1
          /\ a = b /\ b \notin connected => Sent(a)' = Sent(a) /\ Mend(a) = 1
      BY Zenon, <1>c, <3>1, ConversationWrite
    <3>3. a # b => Mend(a)' = Mend(a)
      BY Zenon, <3>1 DEF Mend, TypeOK
    <3>4. a = b => Mend(a) = 1 /\ Mend(a)' = IF a \in connected THEN 0 ELSE 1
      BY <1>c, <3>1 DEF Mend, TypeOK, LostInv
    <3> QED
      BY <1>a, <1>b, <1>e, <2>1, <2>2, <3>2, <3>3, <3>4
  <2> QED
    BY Zenon, <1>9, <2>3, <2>4 DEF reconnect
<1>10. ASSUME NEW b \in Agents, Lose(b)
       PROVE  Conversation(a)' \in 1 .. 1 + losses'[a]
  <2>1. PICK k \in 0 .. Len(toAgent[b]) : toAgent' = [toAgent EXCEPT ![b] = SubSeq(toAgent[b], 1, k)]
    BY ZenonT(30), <1>10 DEF Lose
  <2>2. /\ lost' = lost \cup {b} /\ losses' = [losses EXCEPT ![b] = losses[b] + 1]
        /\ toServer' = [toServer EXCEPT ![b] = << >>] /\ asleep' = [asleep EXCEPT ![b] = FALSE]
        /\ UNCHANGED <<wpc, cur, toGrab, in, rec, reading>>
    BY Zenon, <1>10 DEF Lose, workVars
  <2>3. First(a)' = First(a) /\ Come(a)' = Come(a) /\ Wait(a)' = Wait(a)
    BY Zenon, <2>2 DEF First, Come, Wait
  <2>4. CASE a # b
    <3>1. toAgent'[a] = toAgent[a] /\ toServer'[a] = toServer[a] /\ asleep'[a] = asleep[a] /\ losses'[a] = losses[a]
      BY Zenon, <2>1, <2>2, <2>4 DEF TypeOK
    <3>2. Coming(a)' = Coming(a) /\ Sent(a)' = Sent(a) /\ Sleep(a)' = Sleep(a) /\ Mend(a)' = Mend(a)
      BY Zenon, <2>2, <2>4, <3>1 DEF Coming, Sent, Sleep, Mend
    <3> QED
      BY Zenon, <1>a, <1>b, <1>d, <2>3, <3>1, <3>2
  <2>5. CASE a = b
    <3>1. /\ toAgent'[a] = SubSeq(toAgent[a], 1, k) /\ toServer'[a] = << >> /\ asleep'[a] = FALSE
          /\ losses'[a] = losses[a] + 1
      BY Zenon, <2>1, <2>2, <2>5 DEF TypeOK
    <3>2. Coming(a)' \in 0 .. Coming(a)
      BY Zenon, <2>5, <3>1, TalkCut DEF Coming, TypeOK
    <3>3. Sent(a)' = 0 /\ Sleep(a)' = 0
      BY Zenon, <3>1 DEF Sent, Sleep
    <3>4. Mend(a)' = 1
      BY Zenon, <1>c, <2>2, <2>5 DEF Mend, LostInv, TypeOK
    <3>5. losses'[a] = losses[a] + 1
      BY Zenon, <3>1
    <3>6. Coming(a)' =< Coming(a)
      BY <1>a, <3>2
    <3>7. /\ Conversation(a)' = First(a) + 0 + Coming(a)' + Come(a) + Wait(a) + 0 + 1
          /\ Coming(a)' \in Nat
      BY Zenon, <1>b, <2>3, <3>3, <3>4
    <3>8. Conversation(a)' \in 1 .. Conversation(a) + 1
      <4>1. First(a) + 0 + Coming(a)' + Come(a) + Wait(a) + 0 + 1
              \in 1 .. (First(a) + Sent(a) + Coming(a) + Come(a) + Wait(a) + Sleep(a) + Mend(a)) + 1
        <5>1. /\ First(a) \in 0 .. 1 /\ Wait(a) \in 0 .. 1 /\ Sleep(a) \in 0 .. 1 /\ Mend(a) \in 0 .. 1
              /\ Sent(a) \in Nat /\ Coming(a) \in Nat /\ Come(a) \in Nat
          BY Zenon, <1>a
        <5>2. Coming(a)' \in Nat
          BY Zenon, <3>7
        <5> QED
          BY <3>6, <5>1, <5>2, LoseSum, Zenon
      <4> QED
        BY Zenon, <1>a, <3>7, <4>1
    <3>9. Conversation(a) \in 1 .. 1 + losses[a] /\ losses[a] \in Nat
      BY Zenon, <1>a, <1>d
    <3> QED
      BY <3>5, <3>8, <3>9
  <2> QED
    BY Zenon, <2>4, <2>5
<1>11. ASSUME NEW b \in Agents, ServeGrab(b) \/ ServePreSleep(b) \/ ServeOther(b) \/ \E j \in Jobs : Submit(b, j)
       PROVE  Conversation(a)' \in 1 .. 1 + losses'[a]
  <2>1. UNCHANGED <<wpc, cur, toGrab, in, losses, lost, rec, reading>>
    BY Zenon, <1>11 DEF ServeGrab, ServePreSleep, ServeOther, Submit, ServerUnchanged, closeVars, connVars, workVars
  <2>2. First(a)' = First(a) /\ Come(a)' = Come(a) /\ Wait(a)' = Wait(a) /\ Mend(a)' = Mend(a)
    BY Zenon, <2>1 DEF First, Come, Wait, Mend
  <2>3. ASSUME NEW p \in InPack, p.a = b, Push(b, p)
        PROVE  Coming(a)' = Coming(a) + (IF a = b /\ p.type # "other" THEN 1 ELSE 0)
    BY <1>a, <2>3, ConversationPush
  <2>4. CASE ServeGrab(b)
    <3>1. /\ toServer[b] # << >> /\ toServer' = [toServer EXCEPT ![b] = Tail(toServer[b])] /\ asleep' = asleep
          /\ \/ Push(b, [type |-> "no_job", a |-> b])
             \/ \E j \in queued[b] : Push(b, [type |-> "job_assign", a |-> b, job |-> j])
      BY ZenonT(30), <2>4 DEF ServeGrab
    <3>2. \E p \in InPack : p.a = b /\ p.type # "other" /\ Push(b, p)
      BY Zenon, <3>1, PacketTypes DEF TypeOK
    <3>3. Coming(a)' = Coming(a) + (IF a = b THEN 1 ELSE 0)
      BY Zenon, <2>3, <3>2
    <3>4. Sent(a)' = Sent(a) - (IF a = b THEN 1 ELSE 0)
      <4>1. (a # b => Sent(a)' = Sent(a)) /\ (a = b => Sent(a)' = Sent(a) - 1)
        BY Zenon, <3>1, ConversationServe
      <4> QED
        BY <1>a, <4>1
    <3>5. Sleep(a)' = Sleep(a)
      BY Zenon, <3>1 DEF Sleep
    <3> QED
      BY <1>a, <1>b, <1>e, <2>1, <2>2, <3>3, <3>4, <3>5
  <2>5. CASE ServePreSleep(b)
    <3>1. /\ toServer[b] # << >> /\ toServer' = [toServer EXCEPT ![b] = Tail(toServer[b])]
          /\ \/ asleep' = [asleep EXCEPT ![b] = TRUE] /\ UNCHANGED toAgent
             \/ Push(b, [type |-> "noop", a |-> b]) /\ UNCHANGED asleep
      BY Zenon, <2>5 DEF ServePreSleep
    <3>2. Sent(a)' = Sent(a) - (IF a = b THEN 1 ELSE 0)
      <4>1. (a # b => Sent(a)' = Sent(a)) /\ (a = b => Sent(a)' = Sent(a) - 1)
        BY Zenon, <3>1, ConversationServe
      <4> QED
        BY <1>a, <4>1
    <3>3. CASE asleep' = [asleep EXCEPT ![b] = TRUE] /\ UNCHANGED toAgent
      <4>1. Coming(a)' = Coming(a)
        BY Zenon, <3>3 DEF Coming
      <4>2. (a = b => Sleep(a)' = 1) /\ (a # b => Sleep(a)' = Sleep(a))
        BY Zenon, <3>3 DEF Sleep, TypeOK
      <4> QED
        BY <1>a, <1>b, <1>d, <2>1, <2>2, <3>2, <4>1, <4>2
    <3>4. CASE Push(b, [type |-> "noop", a |-> b]) /\ UNCHANGED asleep
      <4>1. Coming(a)' = Coming(a) + (IF a = b THEN 1 ELSE 0)
        BY Zenon, <2>3, <3>4, PacketTypes
      <4>2. Sleep(a)' = Sleep(a)
        BY Zenon, <3>4 DEF Sleep
      <4> QED
        BY <1>a, <1>b, <1>e, <2>1, <2>2, <3>2, <4>1, <4>2
    <3> QED
      BY Zenon, <3>1, <3>3, <3>4
  <2>6. CASE ServeOther(b)
    <3>1. Push(b, [type |-> "other", a |-> b]) /\ UNCHANGED <<toServer, asleep>>
      BY Zenon, <2>6 DEF ServeOther
    <3>2. Coming(a)' = Coming(a) + 0
      BY Zenon, <2>3, <3>1, PacketTypes
    <3>3. Sent(a)' = Sent(a) /\ Sleep(a)' = Sleep(a)
      BY Zenon, <3>1 DEF Sent, Sleep
    <3> QED
      BY <1>a, <1>b, <1>e, <2>1, <2>2, <3>2, <3>3
  <2>7. CASE \E j \in Jobs : Submit(b, j)
    <3>1. /\ toServer' = toServer /\ asleep' = [asleep EXCEPT ![b] = FALSE]
          /\ IF asleep[b] THEN Push(b, [type |-> "noop", a |-> b]) ELSE UNCHANGED toAgent
      BY Zenon, <2>7 DEF Submit
    <3>2. Sent(a)' = Sent(a)
      BY Zenon, <3>1 DEF Sent
    <3>3. CASE asleep[b]
      <4>1. Coming(a)' = Coming(a) + (IF a = b THEN 1 ELSE 0)
        BY ZenonT(30), <2>3, <3>1, <3>3, PacketTypes
      <4>2. (a = b => Sleep(a)' = 0 /\ Sleep(a) = 1) /\ (a # b => Sleep(a)' = Sleep(a))
        BY Zenon, <3>1, <3>3 DEF Sleep, TypeOK
      <4> QED
        BY <1>a, <1>b, <1>e, <2>1, <2>2, <3>2, <4>1, <4>2
    <3>4. CASE ~asleep[b]
      <4>1. Coming(a)' = Coming(a)
        BY ZenonT(30), <3>1, <3>4 DEF Coming
      <4>2. Sleep(a)' = Sleep(a)
        BY Zenon, <3>1, <3>4 DEF Sleep, TypeOK
      <4> QED
        BY Zenon, <1>a, <1>b, <1>e, <2>1, <2>2, <3>2, <4>1, <4>2
    <3> QED
      BY Zenon, <3>3, <3>4
  <2> QED
    BY Zenon, <1>11, <2>4, <2>5, <2>6, <2>7
<1> QED
  BY Zenon, <1>1, <1>2, <1>3, <1>4, <1>5, <1>6, <1>7, <1>8, <1>9, <1>10, <1>11 DEF Next, Work

-----------------------------------------------------------------------------
(* Between Work, exec, reconnect and the servers, exactly one of them has  *)
(* the next move in each conversation, but for one more per connection     *)
(* lost.                                                                   *)
THEOREM ConversationKept == Spec => []OneConversation
<1>1. Init => LostInv
  BY Zenon DEF LostInv, Init
<1>2. Init => OneConversation
  <2> SUFFICES ASSUME Init, NEW a \in Agents PROVE Conversation(a) \in 1 .. 1 + losses[a]
    BY Zenon DEF OneConversation
  <2>1. First(a) = 1 /\ Wait(a) = 0 /\ Sleep(a) = 0 /\ Mend(a) = 0 /\ losses[a] = 0
    BY Zenon DEF Init, First, Wait, Sleep, Mend
  <2>2. Sent(a) = 0
    BY Zenon DEF Init, Sent
  <2>3. Coming(a) = 0 /\ Come(a) = 0
    BY Zenon, TalkEmpty DEF Init, Coming, Come
  <2>4. Conversation(a) = First(a) + Sent(a) + Coming(a) + Come(a) + Wait(a) + Sleep(a) + Mend(a)
    BY Zenon, DispatchInit, ConversationTerms DEF Terms
  <2> QED
    BY <2>1, <2>2, <2>3, <2>4
<1>3. /\ TypeOK /\ TypeOK' /\ PacketInv /\ LostInv /\ OneConversation /\ [Next]_vars
      => LostInv' /\ OneConversation'
  BY Zenon, LostStep, ConversationStep
<1> QED
  BY <1>1, <1>2, <1>3, DispatchInvariant, PTL DEF Spec
=============================================================================

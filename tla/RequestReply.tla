---------------------------- MODULE RequestReply -----------------------------
(***************************************************************************)
(* What the queues, maps and locks of client.Client amount to for those    *)
(* who call it: one request at a time.  A call waits for its turn, may be  *)
(* answered once while it has its turn, and leaves nothing behind when it  *)
(* returns, so that nothing can be answered on its behalf later.  Whether  *)
(* an answer comes, and whether the connection survives the wait, is not   *)
(* promised.                                                               *)
(***************************************************************************)
EXTENDS Naturals

CONSTANTS Callers, NoCaller, MaxCalls

VARIABLES
  call,      \* per caller: the number of its call, or 0
  ncalls,    \* calls issued
  turn,      \* the caller whose turn it is, or NoCaller
  asked,     \* the call that has its turn has asked
  waiting,   \* calls an answer would reach
  answered   \* calls that hold an answer

vars == <<call, ncalls, turn, asked, waiting, answered>>

Init ==
  /\ call = [c \in Callers |-> 0] /\ ncalls = 0
  /\ turn = NoCaller /\ asked = FALSE
  /\ waiting = {} /\ answered = {}

Issue(c) ==
  /\ call[c] = 0 /\ ncalls < MaxCalls
  /\ ncalls' = ncalls + 1
  /\ call' = [call EXCEPT ![c] = ncalls + 1]
  /\ UNCHANGED <<turn, asked, waiting, answered>>

Enter(c) ==
  /\ call[c] # 0 /\ turn = NoCaller
  /\ turn' = c
  /\ UNCHANGED <<call, ncalls, asked, waiting, answered>>

Ask(c) ==
  /\ turn = c /\ ~asked
  /\ asked' = TRUE
  /\ waiting' = {call[c]}
  /\ UNCHANGED <<call, ncalls, turn, answered>>

(* An answer is taken only by the call that waits, and ends its wait.      *)
Answer(c) ==
  /\ turn = c /\ waiting = {call[c]}
  /\ waiting' = {}
  /\ answered' = {call[c]}
  /\ UNCHANGED <<call, ncalls, turn, asked>>

(* The wait is over without an answer: a timeout or a lost connection.     *)
GiveUp(c) ==
  /\ turn = c /\ waiting = {call[c]}
  /\ waiting' = {}
  /\ UNCHANGED <<call, ncalls, turn, asked, answered>>

Leave(c) ==
  /\ turn = c /\ asked
  /\ call' = [call EXCEPT ![c] = 0]
  /\ turn' = NoCaller /\ asked' = FALSE
  /\ waiting' = {} /\ answered' = {}
  /\ UNCHANGED ncalls

Next ==
  \E c \in Callers :
    Issue(c) \/ Enter(c) \/ Ask(c) \/ Answer(c) \/ GiveUp(c) \/ Leave(c)

Spec == Init /\ [][Next]_vars
=============================================================================

---------------------------- MODULE Registration -----------------------------
(***************************************************************************)
(* worker/agent.go and the part of worker/worker.go that decides what a    *)
(* job server knows of this worker: Ready and Work's start, AddFunc,       *)
(* RemoveFunc, Reset, an agent's Connect, its work loops, reconnect and    *)
(* Close.  One agent: what is sent to one server does not depend on what   *)
(* is sent to another.                                                     *)
(*                                                                         *)
(* AddFunc and RemoveFunc hold worker.Mutex over their one write and are   *)
(* one step.  A write goes to the rw published when it takes its snapshot; *)
(* able is what the server at the other end of that rw has been told,      *)
(* whether or not it is still listening.  A connection is the number of    *)
(* its dial, and 0 is nil.  A work loop is named after the connection it   *)
(* was started for.                                                        *)
(***************************************************************************)
EXTENDS Integers, FiniteSets

CONSTANTS
  Funcs,      \* function names
  MaxConn     \* bound on the number of dials

ASSUME RegistrationAssumption == MaxConn \in Nat \ {0}

VARIABLES
  funcs,          \* worker.funcs
  running,        \* worker.running
  closing,        \* progress of Close: "no", "flagged", "done"
  conn, rw, epoch,   \* agent.conn, agent.rw, agent.epoch
  nconn,          \* dials that have succeeded
  broken,         \* connections that have failed or been closed
  able,           \* what the server behind rw has been told we can do
  spc, sfuncs,    \* Ready and Work: where it is, its snapshot left to send
  sconn,          \* Connect's dialled connection
  resetting,      \* Reset has sent RESET_ABILITIES and not yet cleared funcs
  lpc, lepoch, lrw,  \* per work loop: where it is, its epoch, its rw
  lnew, lold,     \* per work loop: connection dialled, connection replaced
  lout,           \* per work loop: reconnect's packets left to send
  errs,           \* loops whose WorkerDisconnectError the handler was given
  late,           \* history: removed while a registration was in flight
  missed,         \* history: added after Ready's snapshot, before running
  bare            \* history: rw was published by work's own redial

workerVars == <<funcs, running, closing, resetting, late, missed>>
connVars   == <<conn, rw, epoch, able, bare>>
startVars  == <<spc, sfuncs, sconn>>
loopVars   == <<lpc, lepoch, lrw, lnew, lold, lout, errs>>

vars == <<funcs, running, closing, conn, rw, epoch, nconn, broken, able, spc, sfuncs,
          sconn, resetting, lpc, lepoch, lrw, lnew, lold, lout, errs, late,
          missed, bare>>

Conns == 1..MaxConn

Init ==
  /\ funcs = {} /\ running = FALSE /\ closing = "no" /\ resetting = FALSE
  /\ conn = 0 /\ rw = 0 /\ epoch = 0 /\ nconn = 0 /\ broken = {}
  /\ able = {} /\ late = {} /\ missed = {} /\ bare = FALSE
  /\ spc = "idle" /\ sfuncs = {} /\ sconn = 0
  /\ lpc = [n \in Conns |-> "none"]
  /\ lepoch = [n \in Conns |-> 0]
  /\ lrw = [n \in Conns |-> 0]
  /\ lnew = [n \in Conns |-> 0]
  /\ lold = [n \in Conns |-> 0]
  /\ lout = [n \in Conns |-> {}]
  /\ errs = {}

-----------------------------------------------------------------------------
(* agent.setConn: publish and bump the epoch.  It does not look at closed. *)
setConn(n, byRedial) ==
  /\ conn' = n /\ rw' = n
  /\ epoch' = epoch + 1
  /\ able' = {}
  /\ bare' = byRedial

(* What a snapshot taken by Ready or by reconnect still has to announce.   *)
Unsent == sfuncs \cup UNION {lout[n] : n \in Conns}

(* agent.Mutex is free to write under: Connect holds it while it dials.    *)
Unlocked == spc # "publish"

-----------------------------------------------------------------------------
(* The abilities.                                                          *)

AbilityUnchanged ==
  UNCHANGED <<running, closing, conn, rw, epoch, bare, nconn, broken, startVars, loopVars>>

AddFunc(f) ==
  /\ f \notin funcs
  /\ funcs' = funcs \cup {f}
  /\ able' = IF running THEN able \cup {f} ELSE able
  /\ missed' = IF ~running /\ spc # "idle" THEN missed \cup {f} ELSE missed
  /\ late' = late \ {f}
  /\ UNCHANGED resetting
  /\ AbilityUnchanged

(* Mutant: the servers are not told.                                       *)
RemoveFuncSilent(f) ==
  /\ f \in funcs
  /\ funcs' = funcs \ {f}
  /\ late' = IF f \in Unsent \/ (~running /\ f \in able) THEN late \cup {f} ELSE late
  /\ missed' = missed \ {f}
  /\ UNCHANGED <<able, resetting>>
  /\ AbilityUnchanged

RemoveFunc(f) ==
  /\ f \in funcs
  /\ funcs' = funcs \ {f}
  /\ able' = IF running THEN able \ {f} ELSE able
  /\ late' = IF f \in Unsent \/ (~running /\ f \in able) THEN late \cup {f} ELSE late
  /\ missed' = missed \ {f}
  /\ UNCHANGED resetting
  /\ AbilityUnchanged

(* Reset broadcasts first; before Connect there is no rw to write to.      *)
ResetSend ==
  /\ rw # 0 /\ ~resetting /\ Unlocked
  /\ able' = {}
  /\ resetting' = TRUE
  /\ late' = late \cap Unsent
  /\ UNCHANGED <<funcs, missed>>
  /\ AbilityUnchanged

ResetClear ==
  /\ resetting
  /\ funcs' = {}
  /\ missed' = {}
  /\ late' = late \cup (funcs \cap (able \cup Unsent))
  /\ resetting' = FALSE
  /\ UNCHANGED able
  /\ AbilityUnchanged

-----------------------------------------------------------------------------
(* Ready, Connect, and the start of Work.                                  *)

StartUnchanged == UNCHANGED <<funcs, closing, resetting, late>>

(* The snapshot under worker.Mutex; ErrNoneFuncs without functions.        *)
ReadySnapshot ==
  /\ spc = "idle" /\ funcs # {}
  /\ sfuncs' = funcs
  /\ missed' = {}
  /\ spc' = "connect"
  /\ UNCHANGED <<running, connVars, nconn, broken, sconn, loopVars>>
  /\ StartUnchanged

(* Connect: nothing to do when connected, else dial.                       *)
ConnectDial ==
  /\ spc = "connect"
  /\ \/ /\ conn # 0
        /\ spc' = "connected"
        /\ UNCHANGED <<nconn, sconn>>
     \/ /\ conn = 0 /\ nconn < MaxConn
        /\ nconn' = nconn + 1 /\ sconn' = nconn + 1
        /\ spc' = "publish"
  /\ UNCHANGED <<running, missed, connVars, broken, sfuncs, loopVars>>
  /\ StartUnchanged

(* This agent's dial fails, or another agent's before or after it: Ready   *)
(* returns the error and may be retried, by the caller or by Work, with    *)
(* this agent connected or not.                                            *)
ConnectFails ==
  /\ spc \in {"connect", "connected"}
  /\ spc' = "idle" /\ sfuncs' = {}
  /\ UNCHANGED <<running, missed, connVars, nconn, broken, sconn, loopVars>>
  /\ StartUnchanged

ConnectPublish ==
  /\ spc = "publish"
  /\ setConn(sconn, FALSE)
  /\ lpc' = [lpc EXCEPT ![sconn] = "read"]
  /\ lepoch' = [lepoch EXCEPT ![sconn] = epoch + 1]
  /\ lrw' = [lrw EXCEPT ![sconn] = sconn]
  /\ sconn' = 0
  /\ spc' = "connected"
  /\ missed' = funcs \ sfuncs
  /\ UNCHANGED <<running, nconn, broken, sfuncs, lnew, lold, lout, errs>>
  /\ StartUnchanged

(* Every agent is connected: addFunc for one function of the snapshot,     *)
(* without worker.Mutex.                                                   *)
Announce(f) ==
  /\ spc \in {"connected", "announce"} /\ f \in sfuncs
  /\ able' = able \cup {f}
  /\ sfuncs' = sfuncs \ {f}
  /\ spc' = "announce"
  /\ UNCHANGED <<running, missed, conn, rw, epoch, bare, nconn, broken, sconn, loopVars>>
  /\ StartUnchanged

(* ready = true, and Work's running = true.                                *)
StartWork ==
  /\ spc = "announce" /\ sfuncs = {}
  /\ running' = TRUE
  /\ spc' = "working"
  /\ UNCHANGED <<missed, connVars, nconn, broken, sfuncs, sconn, loopVars>>
  /\ StartUnchanged

Start ==
  \/ ReadySnapshot \/ ConnectDial \/ ConnectFails \/ ConnectPublish
  \/ (\E f \in Funcs : Announce(f)) \/ StartWork

-----------------------------------------------------------------------------
(* work.  The packets it reads change nothing here; a read that fails is   *)
(* either the end of the connection or a stream that makes no sense.       *)

LoopUnchanged == UNCHANGED <<workerVars, startVars, errs>>

Goto(n, l) == lpc' = [lpc EXCEPT ![n] = l]

(* The read fails, and the epoch check right after it ends a loop that has *)
(* been superseded.  A non-temporary OpError or EOF takes disconnect_error,*)
(* anything else (a bad magic, an oversized length) the redial.            *)
ReadFails(n) ==
  /\ lpc[n] = "read"
  /\ \/ /\ lrw[n] \in broken
        /\ Goto(n, IF epoch # lepoch[n] THEN "ended" ELSE "disconnect")
     \/ /\ lrw[n] \notin broken
        /\ Goto(n, IF epoch # lepoch[n] THEN "ended" ELSE "redial")
  /\ UNCHANGED <<connVars, nconn, broken, lepoch, lrw, lnew, lold, lout>>
  /\ LoopUnchanged

(* Mutant: every read fetches the current rw, and the epoch is not checked. *)
ReadEndsGetRW(n) ==
  /\ lpc[n] = "read"
  /\ lrw' = [lrw EXCEPT ![n] = rw]
  /\ UNCHANGED <<connVars, nconn, broken, lpc, lepoch, lnew, lold, lout>>
  /\ LoopUnchanged

(* The read succeeds: a loop that has been superseded ends there too, and  *)
(* so does one that picks quit over sending the packet on.                 *)
ReadEnds(n) ==
  /\ lpc[n] = "read"
  /\ epoch # lepoch[n] \/ closing # "no"
  /\ Goto(n, "ended")
  /\ UNCHANGED <<connVars, nconn, broken, lepoch, lrw, lnew, lold, lout>>
  /\ LoopUnchanged

(* disconnect_error: without a connection it is Close's doing; otherwise   *)
(* the error handler is given the means to reconnect.  Then the loop ends. *)
DisconnectError(n) ==
  /\ lpc[n] = "disconnect"
  /\ errs' = IF conn # 0 THEN errs \cup {n} ELSE errs
  /\ Goto(n, "ended")
  /\ UNCHANGED <<connVars, nconn, broken, lepoch, lrw, lnew, lold, lout, workerVars, startVars>>

(* WorkerDisconnectError.Reconnect, from the handler or from a goroutine   *)
(* that was passed the error, at any later time and maybe once more.       *)
Reconnect(n) ==
  /\ n \in errs /\ lpc[n] = "ended"
  /\ Goto(n, "reconnect")
  /\ UNCHANGED <<connVars, nconn, broken, lepoch, lrw, lnew, lold, lout>>
  /\ LoopUnchanged

(* reconnect: dial ...                                                     *)
ReconnectDial(n) ==
  /\ lpc[n] = "reconnect"
  /\ \/ /\ nconn < MaxConn
        /\ nconn' = nconn + 1
        /\ lnew' = [lnew EXCEPT ![n] = nconn + 1]
        /\ Goto(n, "publish")
     \/ /\ Goto(n, "ended")
        /\ UNCHANGED <<nconn, lnew>>
  /\ UNCHANGED <<connVars, broken, lepoch, lrw, lold, lout>>
  /\ LoopUnchanged

(* Mutant: a reconnected agent does not announce its functions again.      *)
ReconnectPublishBare(n) ==
  /\ lpc[n] = "publish"
  /\ setConn(lnew[n], FALSE)
  /\ lepoch' = [lepoch EXCEPT ![lnew[n]] = epoch + 1]
  /\ Goto(n, "register")
  /\ UNCHANGED <<nconn, broken, lrw, lnew, lold, lout>>
  /\ LoopUnchanged

(* ... publish ...                                                         *)
ReconnectPublish(n) ==
  /\ lpc[n] = "publish"
  /\ setConn(lnew[n], FALSE)
  /\ lepoch' = [lepoch EXCEPT ![lnew[n]] = epoch + 1]
  /\ Goto(n, "snapshot")
  /\ UNCHANGED <<nconn, broken, lrw, lnew, lold, lout>>
  /\ LoopUnchanged

(* ... funcOutpacks, under worker.Mutex ...                                *)
ReconnectSnapshot(n) ==
  /\ lpc[n] = "snapshot"
  /\ lout' = [lout EXCEPT ![n] = funcs]
  /\ missed' = {}
  /\ Goto(n, "register")
  /\ UNCHANGED <<funcs, running, closing, resetting, late, connVars, nconn, broken, startVars,
                 lepoch, lrw, lnew, lold, errs>>

(* ... write each packet on its own ...                                    *)
ReconnectWrite(n, f) ==
  /\ lpc[n] = "register" /\ f \in lout[n] /\ Unlocked
  /\ able' = able \cup {f}
  /\ lout' = [lout EXCEPT ![n] = @ \ {f}]
  /\ UNCHANGED <<conn, rw, epoch, bare, nconn, broken, lpc, lepoch, lrw, lnew, lold>>
  /\ LoopUnchanged

(* ... and grab, start the new loop and let the old one end.               *)
ReconnectStart(n) ==
  /\ lpc[n] = "register" /\ lout[n] = {} /\ Unlocked
  /\ lpc' = [lpc EXCEPT ![n] = "ended", ![lnew[n]] = "read"]
  /\ lrw' = [lrw EXCEPT ![lnew[n]] = lnew[n]]
  /\ lnew' = [lnew EXCEPT ![n] = 0]
  /\ UNCHANGED <<connVars, nconn, broken, lepoch, lold, lout>>
  /\ LoopUnchanged

(* Mutant: the old connection is closed first, by a bare a.Close().        *)
RedialDialClosesFirst(n) ==
  /\ lpc[n] = "redial" /\ nconn < MaxConn
  /\ nconn' = nconn + 1
  /\ lnew' = [lnew EXCEPT ![n] = nconn + 1]
  /\ broken' = broken \cup ({conn} \ {0})
  /\ conn' = 0
  /\ Goto(n, "republish")
  /\ UNCHANGED <<rw, epoch, able, bare, lepoch, lrw, lold, lout>>
  /\ LoopUnchanged

(* The redial: remember the old connection and dial around it; if that     *)
(* fails close the old one and give up.                                    *)
RedialDial(n) ==
  /\ lpc[n] = "redial"
  /\ \/ /\ nconn < MaxConn
        /\ nconn' = nconn + 1
        /\ lnew' = [lnew EXCEPT ![n] = nconn + 1]
        /\ lold' = [lold EXCEPT ![n] = conn]
        /\ Goto(n, "republish")
        /\ UNCHANGED broken
     \/ /\ broken' = broken \cup ({conn} \ {0})
        /\ Goto(n, "ended")
        /\ UNCHANGED <<nconn, lnew, lold>>
  /\ UNCHANGED <<connVars, lepoch, lrw, lout>>
  /\ LoopUnchanged

RedialPublish(n) ==
  /\ lpc[n] = "republish"
  /\ setConn(lnew[n], TRUE)
  /\ lepoch' = [lepoch EXCEPT ![n] = epoch + 1]
  /\ lrw' = [lrw EXCEPT ![n] = lnew[n]]
  /\ lnew' = [lnew EXCEPT ![n] = 0]
  /\ Goto(n, "closeOld")
  /\ UNCHANGED <<nconn, broken, lold, lout>>
  /\ LoopUnchanged

RedialCloseOld(n) ==
  /\ lpc[n] = "closeOld"
  /\ broken' = broken \cup ({lold[n]} \ {0})
  /\ lold' = [lold EXCEPT ![n] = 0]
  /\ Goto(n, "read")
  /\ UNCHANGED <<connVars, nconn, lepoch, lrw, lnew, lout>>
  /\ LoopUnchanged

work(n) ==
  \/ ReadFails(n) \/ ReadEnds(n) \/ DisconnectError(n) \/ Reconnect(n)
  \/ ReconnectDial(n) \/ ReconnectPublish(n) \/ ReconnectSnapshot(n)
  \/ (\E f \in Funcs : ReconnectWrite(n, f)) \/ ReconnectStart(n)
  \/ RedialDial(n) \/ RedialPublish(n) \/ RedialCloseOld(n)

-----------------------------------------------------------------------------
(* A connection fails, and Close: the flag, then agent.Close, which leaves *)
(* rw alone.                                                               *)

Break(n) ==
  /\ n \in 1..nconn \ broken
  /\ broken' = broken \cup {n}
  /\ UNCHANGED <<workerVars, connVars, nconn, startVars, loopVars>>

SetClosed ==
  /\ closing = "no"
  /\ closing' = "flagged"
  /\ running' = FALSE
  /\ UNCHANGED <<funcs, resetting, late, missed, connVars, nconn, broken, startVars, loopVars>>

(* Mutant: agent.Close without its nil check.                              *)
FinishCloseNil ==
  /\ closing = "flagged"
  /\ closing' = "done"
  /\ broken' = broken \cup {conn}
  /\ conn' = 0
  /\ UNCHANGED <<funcs, running, resetting, late, missed, rw, epoch, able, bare, nconn,
                 startVars, loopVars>>

FinishClose ==
  /\ closing = "flagged"
  /\ closing' = "done"
  /\ broken' = broken \cup ({conn} \ {0})
  /\ conn' = 0
  /\ UNCHANGED <<funcs, running, resetting, late, missed, rw, epoch, able, bare, nconn,
                 startVars, loopVars>>

-----------------------------------------------------------------------------
Next ==
  \/ \E f \in Funcs : AddFunc(f) \/ RemoveFunc(f)
  \/ ResetSend \/ ResetClear
  \/ Start
  \/ \E n \in Conns : work(n) \/ Break(n)
  \/ SetClosed \/ FinishClose

Spec == Init /\ [][Next]_vars

-----------------------------------------------------------------------------
LoopLabels == {"none", "read", "disconnect", "ended", "reconnect", "publish", "snapshot",
               "register", "redial", "republish", "closeOld"}

(* The state has its types.                                                *)
TypeOK ==
  /\ funcs \subseteq Funcs /\ running \in BOOLEAN /\ resetting \in BOOLEAN /\ late \subseteq Funcs
  /\ closing \in {"no", "flagged", "done"}
  /\ conn \in 0..MaxConn /\ rw \in 0..MaxConn /\ epoch \in 0..MaxConn
  /\ nconn \in 0..MaxConn /\ broken \subseteq 1..nconn
  /\ able \subseteq Funcs /\ sfuncs \subseteq Funcs /\ missed \subseteq Funcs
  /\ spc \in {"idle", "connect", "publish", "connected", "announce", "working"}
  /\ sconn \in 0..MaxConn /\ bare \in BOOLEAN /\ errs \subseteq Conns
  /\ lpc \in [Conns -> LoopLabels] /\ lepoch \in [Conns -> 0..MaxConn]
  /\ lrw \in [Conns -> 0..MaxConn] /\ lnew \in [Conns -> 0..MaxConn]
  /\ lold \in [Conns -> 0..MaxConn] /\ lout \in [Conns -> SUBSET Funcs]

(* No registration is under way.                                           *)
Settled ==
  /\ spc = "working" /\ running /\ ~resetting
  /\ \A n \in Conns : lpc[n] \notin {"snapshot", "register"}

(* reconnect: a function added anywhere in the sequence "lands either in   *)
(* funcOutpacks' snapshot or as its own write -- never neither".  What the *)
(* worker can do the server has been told, on a connection published by    *)
(* Connect or reconnect, but for what was added between Ready's snapshot   *)
(* and the start of Work.                                                  *)
NeverNeither == Settled /\ ~bare => funcs \ missed \subseteq able

(* RemoveFunc and Reset: what the server believes this worker can do, it   *)
(* can do, but for what was removed while a snapshot that holds it was     *)
(* being announced, before Work was running, or between Reset's broadcast  *)
(* and its clearing of funcs.  No sequence of connections, removals and    *)
(* additions outside these windows leaves a stale ability behind.          *)
NoStaleAbility == Settled => able \subseteq funcs \cup late

(* work: a loop only ever reads the connection it was started for, or its  *)
(* own redial's, so that there are never two readers on one bufio.Reader.  *)
OneReader ==
  \A m, n \in Conns :
    m # n /\ lpc[m] = "read" /\ lpc[n] = "read" => lrw[m] # lrw[n]

(* Connect: a retried Ready "must not tear down an agent that already      *)
(* connected".  Until Close, Connect dials only for an agent that never had *)
(* a connection: neither a retry nor a loop that is redialling or          *)
(* reconnecting at the time leaves the window in which it would dial a     *)
(* second one beside the first.                                            *)
ConnectsOnce == spc = "publish" /\ closing # "done" => rw = 0

-----------------------------------------------------------------------------
(* Stated by the repository, and not so; see the README.                   *)

(* Ready: "tell every server what can this worker do".                     *)
ReadyTellsAll == Settled /\ ~bare => funcs \subseteq able

(* Close: "Close connection and exit main loop".  After it the agent has   *)
(* no connection; in particular work's redial has not published one.       *)
NotResurrected == closing = "done" /\ bare => conn = 0
=============================================================================

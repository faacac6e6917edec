------------------------- MODULE RegistrationProofs --------------------------
(***************************************************************************)
(* For every set of functions and every number of dials: an agent's work   *)
(* loops never share a connection, a retried Ready never dials a second    *)
(* one, no function falls between reconnect's snapshot and AddFunc's own   *)
(* write, and no ability outlives its removal outside the windows          *)
(* NoStaleAbility names.                                                   *)
(***************************************************************************)
EXTENDS Registration, FiniteSetTheorems, TLAPS

(* Loop n has dialled a connection that no loop reads yet.                 *)
Dialled(n) == lpc[n] \in {"publish", "snapshot", "register", "republish"}

(* A connection that has been dialled and that no loop has ever read.      *)
Fresh(c) == c \in 1 .. nconn /\ lpc[c] = "none" /\ \A m \in Conns : lrw[m] # c

(* Who a connection belongs to: the Connect or the loop that dialled it,   *)
(* until one loop reads it.                                                *)
ConnInv ==
  /\ conn \in 0 .. nconn /\ rw \in 0 .. nconn
  /\ \A n \in Conns : lrw[n] \in 0 .. nconn /\ lold[n] \in 0 .. nconn
  /\ \A n \in Conns : lpc[n] # "none" => n =< nconn
  /\ \A n \in Conns : lpc[n] = "none" => lrw[n] = 0
  /\ \A n \in Conns : lpc[n] \in {"read", "closeOld"} => lrw[n] # 0
  /\ \A n \in Conns : Dialled(n) => Fresh(lnew[n])
  /\ \A m, n \in Conns : Dialled(m) /\ Dialled(n) /\ lnew[m] = lnew[n] => m = n
  /\ \A m, n \in Conns : lrw[m] = lrw[n] /\ lrw[m] # 0 => m = n
  /\ spc = "publish" => Fresh(sconn) /\ \A n \in Conns : Dialled(n) => lnew[n] # sconn

(* Each epoch is the publication of another connection.                    *)
Published ==
  {c \in 1 .. nconn : /\ ~(spc = "publish" /\ c = sconn)
                      /\ \A n \in Conns : lpc[n] \in {"publish", "republish"} => lnew[n] # c}

EpochInv == epoch = Cardinality(Published)

(* What is on its way to the server: the rest of Ready's snapshot, and of  *)
(* every reconnect's.                                                      *)
OnTheWay == {f \in Funcs : \/ spc # "working" /\ f \in sfuncs
                           \/ \E n \in Conns : lpc[n] = "register" /\ f \in lout[n]}

(* From Ready's snapshot on every function is known, on its way, or was    *)
(* added in between; once reconnect has published, only after its own.     *)
ToldInv ==
  /\ running => spc = "working"
  /\ spc # "idle" /\ ~bare /\ ~resetting /\ (\A n \in Conns : lpc[n] # "snapshot")
       => funcs \ missed \subseteq able \cup OnTheWay

(* Until Close an agent that has published stays connected, and before its *)
(* first publication it has no loop that could publish.                    *)
OnceInv ==
  /\ rw = 0 => \A n \in Conns : lpc[n] = "none"
  /\ rw # 0 /\ closing # "done" => conn # 0
  /\ ConnectsOnce

(* What the server knows or will be told can be done, or was removed late. *)
StaleInv == able \cup Unsent \subseteq funcs \cup late

-----------------------------------------------------------------------------
(* A connection still to be published leaves room for its epoch.           *)
LEMMA RoomToPublish ==
  ASSUME TypeOK, EpochInv, NEW c \in 1 .. nconn, c \notin Published
  PROVE  /\ epoch + 1 \in 0 .. MaxConn
         /\ Cardinality(Published \cup {c}) = epoch + 1
<1>1. nconn \in Nat /\ nconn =< MaxConn /\ MaxConn \in Nat
  BY RegistrationAssumption DEF TypeOK
<1>2. IsFiniteSet(1 .. nconn) /\ Cardinality(1 .. nconn) = nconn
  BY <1>1, FS_Interval
<1>3. Published \cup {c} \subseteq 1 .. nconn /\ Published \subseteq 1 .. nconn
  BY Zenon DEF Published
<1>4. IsFiniteSet(Published) /\ IsFiniteSet(Published \cup {c})
  BY Zenon, <1>2, <1>3, FS_Subset
<1>5. Cardinality(Published \cup {c}) = Cardinality(Published) + 1
  BY Zenon, <1>4, FS_AddElement
<1>6. Cardinality(Published \cup {c}) =< nconn
  BY Zenon, <1>2, <1>3, FS_Subset
<1>7. Cardinality(Published) \in Nat
  BY Zenon, <1>4, FS_CardinalityType
<1> QED
  BY <1>1, <1>5, <1>6, <1>7 DEF EpochInv

LEMMA TypeStep ==
  ASSUME TypeOK, ConnInv, EpochInv, [Next]_vars
  PROVE  TypeOK'
<1>a. /\ 0 \in 0 .. MaxConn /\ (nconn < MaxConn => nconn + 1 \in 0 .. MaxConn)
      /\ 1 .. nconn \subseteq 1 .. (nconn + 1)
  BY RegistrationAssumption DEF TypeOK
<1>b. \A c \in 0 .. nconn : {c} \ {0} \subseteq 1 .. nconn
  BY RegistrationAssumption DEF TypeOK
<1>1. ASSUME NEW f \in Funcs, AddFunc(f)
      PROVE  TypeOK'
  BY Zenon, <1>1 DEF AddFunc, AbilityUnchanged, startVars, loopVars, TypeOK
<1>2. ASSUME NEW f \in Funcs, RemoveFunc(f)
      PROVE  TypeOK'
  BY Zenon, <1>2 DEF RemoveFunc, AbilityUnchanged, startVars, loopVars, TypeOK
<1>3. CASE ResetSend
  BY Zenon, <1>3 DEF ResetSend, AbilityUnchanged, startVars, loopVars, TypeOK
<1>4. CASE ResetClear
  BY Zenon, <1>4 DEF ResetClear, AbilityUnchanged, startVars, loopVars, TypeOK
<1>5. CASE ReadySnapshot
  BY Zenon, <1>5 DEF ReadySnapshot, StartUnchanged, connVars, loopVars, TypeOK
<1>6. CASE ConnectDial
  <2>1. CASE UNCHANGED <<nconn, sconn>> /\ spc' = "connected"
    BY Zenon, <1>6, <2>1 DEF ConnectDial, StartUnchanged, connVars, loopVars, TypeOK
  <2>2. CASE nconn < MaxConn /\ nconn' = nconn + 1 /\ sconn' = nconn + 1 /\ spc' = "publish"
    <3>1. broken' \subseteq 1 .. nconn'
      BY Zenon, <1>a, <1>6, <2>2 DEF ConnectDial, TypeOK
    <3> QED
      BY Zenon, <1>a, <1>6, <2>2, <3>1 DEF ConnectDial, StartUnchanged, connVars, loopVars, TypeOK
  <2> QED
    BY Zenon, <1>6, <2>1, <2>2 DEF ConnectDial
<1>7. CASE ConnectFails
  BY Zenon, <1>7 DEF ConnectFails, StartUnchanged, connVars, loopVars, TypeOK
<1>8. CASE ConnectPublish
  <2>1. epoch + 1 \in 0 .. MaxConn
    BY Zenon, <1>8, RoomToPublish DEF ConnectPublish, ConnInv, Fresh, Published
  <2>2. lpc' \in [Conns -> LoopLabels] /\ lepoch' \in [Conns -> 0 .. MaxConn]
        /\ lrw' \in [Conns -> 0 .. MaxConn]
    BY Zenon, <1>8, <2>1 DEF ConnectPublish, LoopLabels, TypeOK
  <2> QED
    BY Zenon, <1>a, <1>8, <2>1, <2>2 DEF ConnectPublish, StartUnchanged, setConn, TypeOK
<1>9. ASSUME NEW f \in Funcs, Announce(f)
      PROVE  TypeOK'
  BY Zenon, <1>9 DEF Announce, StartUnchanged, loopVars, TypeOK
<1>10. CASE StartWork
  BY Zenon, <1>10 DEF StartWork, StartUnchanged, connVars, loopVars, TypeOK
<1>11. ASSUME NEW n \in Conns, ReadFails(n) \/ ReadEnds(n) \/ Reconnect(n)
       PROVE  TypeOK'
  <2>1. lpc' \in [Conns -> LoopLabels]
    BY Zenon, <1>11 DEF ReadFails, ReadEnds, Reconnect, Goto, LoopLabels, TypeOK
  <2>2. UNCHANGED <<connVars, nconn, broken, lepoch, lrw, lnew, lold, lout, workerVars, startVars, errs>>
    BY Zenon, <1>11 DEF ReadFails, ReadEnds, Reconnect, LoopUnchanged
  <2> QED
    BY Zenon, <2>1, <2>2 DEF connVars, workerVars, startVars, TypeOK
<1>12. ASSUME NEW n \in Conns, DisconnectError(n)
       PROVE  TypeOK'
  <2>1. lpc' \in [Conns -> LoopLabels]
    BY Zenon, <1>12 DEF DisconnectError, Goto, LoopLabels, TypeOK
  <2> QED
    BY Zenon, <1>12, <2>1 DEF DisconnectError, connVars, workerVars, startVars, TypeOK
<1>13. ASSUME NEW n \in Conns, ReconnectDial(n)
       PROVE  TypeOK'
  <2>1. lpc' \in [Conns -> LoopLabels]
    BY Zenon, <1>13 DEF ReconnectDial, Goto, LoopLabels, TypeOK
  <2>2. nconn' \in 0 .. MaxConn /\ lnew' \in [Conns -> 0 .. MaxConn] /\ broken' \subseteq 1 .. nconn'
    <3>1. CASE nconn < MaxConn /\ nconn' = nconn + 1 /\ lnew' = [lnew EXCEPT ![n] = nconn + 1]
      BY Zenon, <1>a, <1>13, <3>1 DEF ReconnectDial, TypeOK
    <3>2. CASE UNCHANGED <<nconn, lnew>>
      BY Zenon, <1>13, <3>2 DEF ReconnectDial, TypeOK
    <3> QED
      BY Zenon, <1>13, <3>1, <3>2 DEF ReconnectDial
  <2> QED
    BY Zenon, <1>13, <2>1, <2>2 DEF ReconnectDial, LoopUnchanged, connVars, workerVars, startVars, TypeOK
<1>14. ASSUME NEW n \in Conns, ReconnectPublish(n)
       PROVE  TypeOK'
  <2>1. epoch + 1 \in 0 .. MaxConn
    <3>1. lnew[n] \in 1 .. nconn /\ lnew[n] \notin Published
      BY Zenon, <1>14 DEF ReconnectPublish, ConnInv, Fresh, Dialled, Published
    <3> QED
      BY Zenon, <3>1, RoomToPublish
  <2>2. lpc' \in [Conns -> LoopLabels]
    BY Zenon, <1>14 DEF ReconnectPublish, Goto, LoopLabels, TypeOK
  <2>3. lepoch' \in [Conns -> 0 .. MaxConn] /\ lnew[n] \in 0 .. MaxConn
    BY Zenon, <1>14, <2>1 DEF ReconnectPublish, TypeOK
  <2> QED
    BY Zenon, <1>14, <2>1, <2>2, <2>3 DEF ReconnectPublish, LoopUnchanged, setConn, workerVars, startVars, TypeOK
<1>15. ASSUME NEW n \in Conns, ReconnectSnapshot(n)
       PROVE  TypeOK'
  <2>1. lpc' \in [Conns -> LoopLabels] /\ lout' \in [Conns -> SUBSET Funcs]
    BY Zenon, <1>15 DEF ReconnectSnapshot, Goto, LoopLabels, TypeOK
  <2> QED
    BY Zenon, <1>15, <2>1 DEF ReconnectSnapshot, connVars, startVars, TypeOK
<1>16. ASSUME NEW n \in Conns, NEW f \in Funcs, ReconnectWrite(n, f)
       PROVE  TypeOK'
  <2>1. lout' \in [Conns -> SUBSET Funcs]
    BY Zenon, <1>16 DEF ReconnectWrite, TypeOK
  <2> QED
    BY Zenon, <1>16, <2>1 DEF ReconnectWrite, LoopUnchanged, workerVars, startVars, TypeOK
<1>17. ASSUME NEW n \in Conns, ReconnectStart(n)
       PROVE  TypeOK'
  <2>1. lpc' \in [Conns -> LoopLabels]
    BY Zenon, <1>17 DEF ReconnectStart, LoopLabels, TypeOK
  <2>2. lrw' \in [Conns -> 0 .. MaxConn] /\ lnew' \in [Conns -> 0 .. MaxConn]
    BY Zenon, <1>a, <1>17 DEF ReconnectStart, TypeOK
  <2> QED
    BY Zenon, <1>17, <2>1, <2>2 DEF ReconnectStart, LoopUnchanged, connVars, workerVars, startVars, TypeOK
<1>18. ASSUME NEW n \in Conns, RedialDial(n)
       PROVE  TypeOK'
  <2>1. lpc' \in [Conns -> LoopLabels]
    BY Zenon, <1>18 DEF RedialDial, Goto, LoopLabels, TypeOK
  <2>2. /\ nconn' \in 0 .. MaxConn /\ lnew' \in [Conns -> 0 .. MaxConn]
        /\ lold' \in [Conns -> 0 .. MaxConn] /\ broken' \subseteq 1 .. nconn'
    <3>1. CASE /\ nconn < MaxConn /\ nconn' = nconn + 1 /\ lnew' = [lnew EXCEPT ![n] = nconn + 1]
               /\ lold' = [lold EXCEPT ![n] = conn] /\ UNCHANGED broken
      BY Zenon, <1>a, <3>1 DEF TypeOK
    <3>2. CASE broken' = broken \cup ({conn} \ {0}) /\ UNCHANGED <<nconn, lnew, lold>>
      <4>1. broken' \subseteq 1 .. nconn
        BY Zenon, <1>b, <3>2 DEF TypeOK, ConnInv
      <4> QED
        BY Zenon, <3>2, <4>1 DEF TypeOK
    <3> QED
      BY Zenon, <1>18, <3>1, <3>2 DEF RedialDial
  <2> QED
    BY Zenon, <1>18, <2>1, <2>2 DEF RedialDial, LoopUnchanged, connVars, workerVars, startVars, TypeOK
<1>19. ASSUME NEW n \in Conns, RedialPublish(n)
       PROVE  TypeOK'
  <2>1. epoch + 1 \in 0 .. MaxConn
    <3>1. lnew[n] \in 1 .. nconn /\ lnew[n] \notin Published
      BY Zenon, <1>19 DEF RedialPublish, ConnInv, Fresh, Dialled, Published
    <3> QED
      BY Zenon, <3>1, RoomToPublish
  <2>2. lpc' \in [Conns -> LoopLabels]
    BY Zenon, <1>19 DEF RedialPublish, Goto, LoopLabels, TypeOK
  <2>3. lepoch' \in [Conns -> 0 .. MaxConn] /\ lnew[n] \in 0 .. MaxConn
        /\ lrw' \in [Conns -> 0 .. MaxConn] /\ lnew' \in [Conns -> 0 .. MaxConn]
    BY Zenon, <1>a, <1>19, <2>1 DEF RedialPublish, TypeOK
  <2> QED
    BY Zenon, <1>19, <2>1, <2>2, <2>3 DEF RedialPublish, LoopUnchanged, setConn, workerVars, startVars, TypeOK
<1>20. ASSUME NEW n \in Conns, RedialCloseOld(n)
       PROVE  TypeOK'
  <2>1. lpc' \in [Conns -> LoopLabels]
    BY Zenon, <1>20 DEF RedialCloseOld, Goto, LoopLabels, TypeOK
  <2>2. lold' \in [Conns -> 0 .. MaxConn] /\ broken' \subseteq 1 .. nconn
    <3>1. broken' \subseteq 1 .. nconn
      BY Zenon, <1>b, <1>20 DEF RedialCloseOld, ConnInv, TypeOK
    <3> QED
      BY Zenon, <1>a, <1>20, <3>1 DEF RedialCloseOld, TypeOK
  <2> QED
    BY Zenon, <1>20, <2>1, <2>2 DEF RedialCloseOld, LoopUnchanged, connVars, workerVars, startVars, TypeOK
<1>21. ASSUME NEW n \in Conns, Break(n)
       PROVE  TypeOK'
  BY Zenon, <1>21 DEF Break, workerVars, connVars, startVars, loopVars, TypeOK
<1>22. CASE SetClosed
  BY Zenon, <1>22 DEF SetClosed, connVars, startVars, loopVars, TypeOK
<1>23. CASE FinishClose
  <2>1. broken' \subseteq 1 .. nconn
    BY Zenon, <1>b, <1>23 DEF FinishClose, ConnInv, TypeOK
  <2> QED
    BY Zenon, <1>a, <1>23, <2>1 DEF FinishClose, startVars, loopVars, TypeOK
<1>24. CASE UNCHANGED vars
  BY Zenon, <1>24 DEF vars, TypeOK
<1> QED
  BY Zenon, <1>1, <1>2, <1>3, <1>4, <1>5, <1>6, <1>7, <1>8, <1>9, <1>10, <1>11, <1>12, <1>13, <1>14,
     <1>15, <1>16, <1>17, <1>18, <1>19, <1>20, <1>21, <1>22, <1>23, <1>24
  DEF Next, Start, work

-----------------------------------------------------------------------------
(* No two loops share a connection.                                        *)

(* What does not touch the loops, the dials or rw.                         *)
LEMMA ConnFrame ==
  ASSUME ConnInv, UNCHANGED <<rw, nconn, lrw, lnew, lold, lpc>>, conn' \in {0, conn},
         spc' = "publish" => spc = "publish" /\ UNCHANGED sconn,
         nconn \in Nat
  PROVE  ConnInv'
<1>1. conn' \in 0 .. nconn'
  BY DEF ConnInv
<1>2. \A n \in Conns : Dialled(n)' = Dialled(n)
  BY Zenon DEF Dialled
<1>3. \A c : Fresh(c) => Fresh(c)'
  BY Zenon DEF Fresh
<1> QED
  BY Zenon, <1>1, <1>2, <1>3 DEF ConnInv

(* A running loop moves on with the connections it has.                    *)
LEMMA LoopMoves ==
  ASSUME TypeOK, ConnInv, NEW n \in Conns, NEW l, lpc[n] # "none", l # "none",
         lpc' = [lpc EXCEPT ![n] = l],
         l \in {"publish", "snapshot", "register", "republish"} => Dialled(n),
         l \in {"read", "closeOld"} => lrw[n] # 0,
         UNCHANGED <<nconn, spc, sconn, lrw, lnew>>,
         conn' \in 0 .. nconn, rw' \in 0 .. nconn, \A m \in Conns : lold'[m] \in 0 .. nconn
  PROVE  ConnInv'
<1>1. lpc'[n] = l /\ \A m \in Conns : m # n => lpc'[m] = lpc[m]
  BY Zenon DEF TypeOK
<1>2. \A m \in Conns : Dialled(m)' => Dialled(m)
  BY Zenon, <1>1 DEF Dialled
<1>3. \A m \in Conns : lpc'[m] = "none" <=> lpc[m] = "none"
  BY Zenon, <1>1
<1>4. \A m \in Conns : lpc'[m] \in {"read", "closeOld"} => lrw[m] # 0
  BY Zenon, <1>1 DEF ConnInv
<1>5. ASSUME NEW c, Fresh(c) PROVE Fresh(c)'
  <2>1. c # n
    BY Zenon, <1>5 DEF Fresh
  <2>2. lpc'[c] = lpc[c]
    BY <2>1 DEF TypeOK
  <2> QED
    BY Zenon, <1>5, <2>2 DEF Fresh
<1> QED
  BY Zenon, <1>2, <1>3, <1>4, <1>5 DEF ConnInv

(* A running loop dials.                                                   *)
LEMMA LoopDials ==
  ASSUME TypeOK, ConnInv, NEW n \in Conns, NEW l \in {"publish", "republish"}, lpc[n] # "none",
         lpc' = [lpc EXCEPT ![n] = l], nconn < MaxConn, nconn' = nconn + 1,
         lnew' = [lnew EXCEPT ![n] = nconn + 1],
         UNCHANGED <<spc, sconn, lrw, conn, rw>>, \A m \in Conns : lold'[m] \in 0 .. nconn
  PROVE  ConnInv'
<1>0. nconn \in Nat /\ MaxConn \in Nat /\ nconn + 1 \in Conns
  BY RegistrationAssumption DEF TypeOK, Conns
<1>1. lpc'[n] = l /\ lnew'[n] = nconn + 1
      /\ \A m \in Conns : m # n => lpc'[m] = lpc[m] /\ lnew'[m] = lnew[m]
  BY Zenon DEF TypeOK
<1>2. \A m \in Conns : Dialled(m)' => m = n \/ Dialled(m)
  BY Zenon, <1>1 DEF Dialled
<1>3. \A c : c \in 0 .. nconn => c \in 0 .. nconn' /\ c # nconn + 1
  BY <1>0
<1>4. PICK d \in Conns : d = nconn + 1
  BY Zenon, <1>0
<1>5. Fresh(d)'
  <2>1. lpc[d] = "none"
    BY <1>0, <1>4 DEF ConnInv
  <2>2. \A m \in Conns : lrw[m] # d
    BY Zenon, <1>3, <1>4 DEF ConnInv
  <2>3. lpc'[d] = "none"
    BY Zenon, <1>1, <2>1
  <2>4. d \in 1 .. nconn'
    BY <1>0, <1>4
  <2> QED
    BY Zenon, <2>2, <2>3, <2>4 DEF Fresh
<1>6. ASSUME NEW c, Fresh(c) PROVE Fresh(c)' /\ c # d
  <2>1. c # n
    BY Zenon, <1>6 DEF Fresh
  <2>2. lpc'[c] = lpc[c]
    BY <2>1 DEF TypeOK
  <2>3. c \in 1 .. nconn' /\ c # d
    BY <1>0, <1>4, <1>6 DEF Fresh
  <2> QED
    BY Zenon, <1>6, <2>2, <2>3 DEF Fresh
<1>7. \A m \in Conns : m # n /\ Dialled(m)' => Dialled(m) /\ lnew'[m] = lnew[m] /\ lnew[m] # d
  BY Zenon, <1>1, <1>2, <1>6 DEF ConnInv
<1>8. ASSUME NEW m \in Conns, Dialled(m)' PROVE Fresh(lnew[m])'
  <2>1. CASE m = n
    <3>1. lnew'[m] = d
      BY Zenon, <1>1, <1>4, <2>1
    <3> QED
      BY Zenon, <1>5, <3>1
  <2>2. CASE m # n
    <3>1. Fresh(lnew[m]) /\ lnew'[m] = lnew[m]
      BY Zenon, <1>7, <1>8, <2>2 DEF ConnInv
    <3> QED
      BY Zenon, <1>6, <3>1
  <2> QED
    BY Zenon, <2>1, <2>2
<1>9. \A m, k \in Conns : Dialled(m)' /\ Dialled(k)' /\ lnew'[m] = lnew'[k] => m = k
  BY Zenon, <1>1, <1>4, <1>7 DEF ConnInv
<1>10. spc' = "publish" => Fresh(sconn)' /\ \A m \in Conns : Dialled(m)' => lnew'[m] # sconn'
  BY Zenon, <1>1, <1>4, <1>6, <1>7 DEF ConnInv
<1>11. /\ conn' \in 0 .. nconn' /\ rw' \in 0 .. nconn'
       /\ \A m \in Conns : lrw'[m] \in 0 .. nconn' /\ lold'[m] \in 0 .. nconn'
  BY Zenon, <1>3 DEF ConnInv
<1>12. /\ \A m \in Conns : lpc'[m] # "none" => m =< nconn'
       /\ \A m \in Conns : lpc'[m] = "none" => lrw'[m] = 0
       /\ \A m \in Conns : lpc'[m] \in {"read", "closeOld"} => lrw'[m] # 0
  BY <1>0, <1>1 DEF ConnInv, Conns
<1> QED
  BY Zenon, <1>8, <1>9, <1>10, <1>11, <1>12 DEF ConnInv

LEMMA ConnStep ==
  ASSUME TypeOK, ConnInv, [Next]_vars
  PROVE  ConnInv'
<1>a. nconn \in Nat /\ MaxConn \in Nat /\ 0 \in 0 .. nconn
  BY RegistrationAssumption DEF TypeOK
<1>1. ASSUME NEW f \in Funcs, AddFunc(f) \/ RemoveFunc(f)
      PROVE  ConnInv'
  <2>1. UNCHANGED <<rw, nconn, lrw, lnew, lold, lpc, conn, spc, sconn>>
    BY Zenon, <1>1 DEF AddFunc, RemoveFunc, AbilityUnchanged, startVars, loopVars
  <2> QED
    BY Zenon, <1>a, <2>1, ConnFrame
<1>2. CASE ResetSend \/ ResetClear
  <2>1. UNCHANGED <<rw, nconn, lrw, lnew, lold, lpc, conn, spc, sconn>>
    BY Zenon, <1>2 DEF ResetSend, ResetClear, AbilityUnchanged, startVars, loopVars
  <2> QED
    BY Zenon, <1>a, <2>1, ConnFrame
<1>3. CASE ReadySnapshot \/ ConnectFails \/ StartWork \/ \E f \in Funcs : Announce(f)
  <2>1. UNCHANGED <<rw, nconn, lrw, lnew, lold, lpc, conn>> /\ spc' # "publish"
    BY Zenon, <1>3 DEF ReadySnapshot, ConnectFails, StartWork, Announce, connVars, loopVars
  <2> QED
    BY Zenon, <1>a, <2>1, ConnFrame
<1>4. CASE ConnectDial
  <2>0. UNCHANGED <<rw, lrw, lnew, lold, lpc, conn>>
    BY Zenon, <1>4 DEF ConnectDial, connVars, loopVars
  <2>1. CASE spc' = "connected" /\ UNCHANGED nconn
    BY Zenon, <1>a, <2>0, <2>1, ConnFrame
  <2>2. CASE /\ nconn < MaxConn /\ nconn' = nconn + 1 /\ sconn' = nconn + 1 /\ spc' = "publish"
    <3>1. PICK d \in Conns : d = nconn + 1
      BY <1>a, <2>2 DEF Conns
    <3>2. \A c : c \in 0 .. nconn => c \in 0 .. nconn' /\ c # d
      BY <1>a, <2>2, <3>1
    <3>3. \A c : c \in 1 .. nconn => c \in 1 .. nconn' /\ c # d
      BY <1>a, <2>2, <3>1
    <3>4. \A c : Fresh(c) => Fresh(c)' /\ c # d
      BY Zenon, <2>0, <3>3 DEF Fresh
    <3>5. Fresh(d)'
      <4>1. lpc[d] = "none" /\ d \in 1 .. nconn'
        BY <1>a, <2>2, <3>1 DEF ConnInv
      <4>2. \A m \in Conns : lrw[m] # d
        BY Zenon, <3>2 DEF ConnInv
      <4> QED
        BY Zenon, <2>0, <4>1, <4>2 DEF Fresh
    <3>6. \A n \in Conns : Dialled(n)' = Dialled(n)
      BY Zenon, <2>0 DEF Dialled
    <3>7. /\ conn' \in 0 .. nconn' /\ rw' \in 0 .. nconn'
          /\ \A m \in Conns : lrw'[m] \in 0 .. nconn' /\ lold'[m] \in 0 .. nconn'
      BY Zenon, <2>0, <3>2 DEF ConnInv
    <3>8. \A n \in Conns : lpc'[n] # "none" => n =< nconn'
      BY <1>a, <2>0, <2>2 DEF ConnInv, Conns
    <3>9. \A n \in Conns : Dialled(n)' => Fresh(lnew[n])' /\ lnew'[n] # d
      BY Zenon, <2>0, <3>4, <3>6 DEF ConnInv
    <3>10. Fresh(sconn)' /\ sconn' = d
      BY Zenon, <2>2, <3>1, <3>5
    <3> QED
      BY Zenon, <2>0, <3>6, <3>7, <3>8, <3>9, <3>10 DEF ConnInv
  <2> QED
    BY Zenon, <1>4, <2>1, <2>2 DEF ConnectDial
<1>5. CASE ConnectPublish
  <2>1. /\ spc = "publish" /\ Fresh(sconn) /\ conn' = sconn /\ rw' = sconn /\ spc' = "connected"
        /\ UNCHANGED <<nconn, lnew, lold>>
        /\ lpc' = [lpc EXCEPT ![sconn] = "read"] /\ lrw' = [lrw EXCEPT ![sconn] = sconn]
    BY Zenon, <1>5 DEF ConnectPublish, setConn, ConnInv
  <2>2. PICK d \in Conns : d = sconn /\ d # 0 /\ d \in 0 .. nconn /\ d =< nconn
    BY <1>a, <2>1 DEF TypeOK, Conns, Fresh
  <2>3. /\ lpc'[d] = "read" /\ lrw'[d] = d
        /\ \A n \in Conns : n # d => lpc'[n] = lpc[n] /\ lrw'[n] = lrw[n]
    BY Zenon, <2>1, <2>2 DEF TypeOK
  <2>4. lpc[d] = "none" /\ \A m \in Conns : lrw[m] # d
    BY Zenon, <2>1, <2>2 DEF Fresh
  <2>5. \A n \in Conns : Dialled(n)' => Dialled(n) /\ n # d
    BY Zenon, <2>3 DEF Dialled
  <2>6. \A n \in Conns : Dialled(n) => lnew[n] # d
    BY Zenon, <2>1, <2>2 DEF ConnInv
  <2>7. ASSUME NEW c, Fresh(c), c # d PROVE Fresh(c)'
    <3>1. c \in Conns
      BY <1>a, <2>7 DEF Fresh, TypeOK, Conns
    <3> QED
      BY Zenon, <2>1, <2>3, <2>7, <3>1 DEF Fresh
  <2>8. \A n \in Conns : Dialled(n)' => Fresh(lnew[n])'
    BY Zenon, <2>1, <2>5, <2>6, <2>7 DEF ConnInv
  <2>9. \A m, n \in Conns : lrw'[m] = lrw'[n] /\ lrw'[m] # 0 => m = n
    <3>1. \A m, n \in Conns : lrw[m] = lrw[n] /\ lrw[m] # 0 => m = n
      BY Zenon DEF ConnInv
    <3> QED
      BY Zenon, <2>3, <2>4, <3>1
  <2>10. \A n \in Conns : /\ lrw'[n] \in 0 .. nconn /\ lold'[n] \in 0 .. nconn
                          /\ (lpc'[n] # "none" => n =< nconn)
                          /\ (lpc'[n] = "none" => lrw'[n] = 0)
                          /\ (lpc'[n] \in {"read", "closeOld"} => lrw'[n] # 0)
    BY Zenon, <2>1, <2>2, <2>3 DEF ConnInv
  <2>11. \A m, n \in Conns : Dialled(m)' /\ Dialled(n)' /\ lnew'[m] = lnew'[n] => m = n
    BY Zenon, <2>1, <2>5 DEF ConnInv
  <2> QED
    BY Zenon, <2>1, <2>2, <2>8, <2>9, <2>10, <2>11 DEF ConnInv
<1>6. ASSUME NEW n \in Conns, ReadFails(n) \/ ReadEnds(n) \/ Reconnect(n) \/ DisconnectError(n)
      PROVE  ConnInv'
  <2>1. \E l \in {"ended", "disconnect", "redial", "reconnect"} : lpc' = [lpc EXCEPT ![n] = l]
    BY Zenon, <1>6 DEF ReadFails, ReadEnds, Reconnect, DisconnectError, Goto
  <2>2. /\ UNCHANGED <<conn, rw, nconn, lrw, lnew, lold, spc, sconn>> /\ lpc[n] # "none"
    BY Zenon, <1>6 DEF ReadFails, ReadEnds, Reconnect, DisconnectError, LoopUnchanged, connVars, startVars
  <2>3. conn' \in 0 .. nconn /\ rw' \in 0 .. nconn /\ \A m \in Conns : lold'[m] \in 0 .. nconn
    BY Zenon, <2>2 DEF ConnInv
  <2> QED
    BY Zenon, <2>1, <2>2, <2>3, LoopMoves
<1>7. ASSUME NEW n \in Conns, ReconnectDial(n)
      PROVE  ConnInv'
  <2>1. UNCHANGED <<conn, rw, lrw, lold, spc, sconn>> /\ lpc[n] # "none"
    BY Zenon, <1>7 DEF ReconnectDial, LoopUnchanged, connVars, startVars
  <2>2. conn' \in 0 .. nconn /\ rw' \in 0 .. nconn /\ \A m \in Conns : lold'[m] \in 0 .. nconn
    BY Zenon, <2>1 DEF ConnInv
  <2>3. CASE /\ nconn < MaxConn /\ nconn' = nconn + 1 /\ lnew' = [lnew EXCEPT ![n] = nconn + 1]
             /\ lpc' = [lpc EXCEPT ![n] = "publish"]
    BY Zenon, <2>1, <2>2, <2>3, LoopDials
  <2>4. CASE lpc' = [lpc EXCEPT ![n] = "ended"] /\ UNCHANGED <<nconn, lnew>>
    BY Zenon, <2>1, <2>2, <2>4, LoopMoves
  <2> QED
    BY Zenon, <1>7, <2>3, <2>4 DEF ReconnectDial, Goto
<1>8. ASSUME NEW n \in Conns, ReconnectPublish(n)
      PROVE  ConnInv'
  <2>1. /\ UNCHANGED <<nconn, lrw, lnew, lold, spc, sconn>> /\ lpc[n] = "publish"
        /\ lpc' = [lpc EXCEPT ![n] = "snapshot"] /\ conn' = lnew[n] /\ rw' = lnew[n]
    BY Zenon, <1>8 DEF ReconnectPublish, setConn, Goto, LoopUnchanged, startVars
  <2>2. Dialled(n) /\ lnew[n] \in 0 .. nconn
    BY <1>a, <2>1 DEF Dialled, Fresh, ConnInv
  <2>3. \A m \in Conns : lold'[m] \in 0 .. nconn
    BY Zenon, <2>1 DEF ConnInv
  <2> QED
    BY Zenon, <2>1, <2>2, <2>3, LoopMoves
<1>9. ASSUME NEW n \in Conns, ReconnectSnapshot(n)
      PROVE  ConnInv'
  <2>1. /\ UNCHANGED <<conn, rw, nconn, lrw, lnew, lold, spc, sconn>> /\ Dialled(n) /\ lpc[n] # "none"
        /\ lpc' = [lpc EXCEPT ![n] = "register"]
    BY Zenon, <1>9 DEF ReconnectSnapshot, Goto, Dialled, connVars, startVars
  <2>2. conn' \in 0 .. nconn /\ rw' \in 0 .. nconn /\ \A m \in Conns : lold'[m] \in 0 .. nconn
    BY Zenon, <2>1 DEF ConnInv
  <2> QED
    BY Zenon, <2>1, <2>2, LoopMoves
<1>10. ASSUME NEW n \in Conns, NEW f \in Funcs, ReconnectWrite(n, f)
       PROVE  ConnInv'
  <2>1. UNCHANGED <<rw, nconn, lrw, lnew, lold, lpc, conn, spc, sconn>>
    BY Zenon, <1>10 DEF ReconnectWrite, LoopUnchanged, workerVars, startVars
  <2> QED
    BY Zenon, <1>a, <2>1, ConnFrame
<1>11. ASSUME NEW n \in Conns, ReconnectStart(n)
       PROVE  ConnInv'
  <2>1. /\ lpc[n] = "register" /\ lpc' = [lpc EXCEPT ![n] = "ended", ![lnew[n]] = "read"]
        /\ lrw' = [lrw EXCEPT ![lnew[n]] = lnew[n]] /\ lnew' = [lnew EXCEPT ![n] = 0]
        /\ UNCHANGED <<conn, rw, nconn, lold, spc, sconn>>
    BY Zenon, <1>11 DEF ReconnectStart, LoopUnchanged, connVars, startVars
  <2>2. PICK c \in Conns : c = lnew[n] /\ Fresh(c)
    <3>1. Fresh(lnew[n])
      BY Zenon, <2>1 DEF ConnInv, Dialled
    <3>2. lnew[n] \in Conns
      BY <1>a, <3>1 DEF TypeOK, Conns, Fresh
    <3> QED
      BY Zenon, <3>1, <3>2
  <2>3. /\ c # n /\ lpc[c] = "none" /\ lrw[c] = 0 /\ c \in 0 .. nconn /\ c # 0 /\ c =< nconn
        /\ \A m \in Conns : lrw[m] # c
    BY <1>a, <2>1, <2>2 DEF ConnInv, Fresh, Conns
  <2>4. /\ lpc'[n] = "ended" /\ lpc'[c] = "read" /\ lrw'[c] = c
        /\ \A m \in Conns : m # n /\ m # c => lpc'[m] = lpc[m]
        /\ \A m \in Conns : m # c => lrw'[m] = lrw[m]
        /\ \A m \in Conns : m # n => lnew'[m] = lnew[m]
    BY Zenon, <2>1, <2>2, <2>3 DEF TypeOK
  <2>5. ASSUME NEW d, Fresh(d), d # c PROVE Fresh(d)'
    <3>1. d \in Conns
      BY <1>a, <2>5 DEF Fresh, TypeOK, Conns
    <3>2. d # n
      BY Zenon, <2>1, <2>5 DEF Fresh
    <3> QED
      BY Zenon, <2>1, <2>4, <2>5, <3>1, <3>2 DEF Fresh
  <2>6. \A m \in Conns : Dialled(m)' => Dialled(m) /\ m # n /\ m # c
    BY Zenon, <2>4 DEF Dialled
  <2>7. \A m \in Conns : Dialled(m)' => lnew'[m] = lnew[m] /\ lnew[m] # c
    <3>1. Dialled(n)
      BY Zenon, <2>1 DEF Dialled
    <3> QED
      BY Zenon, <2>2, <2>4, <2>6, <3>1 DEF ConnInv
  <2>8. \A m \in Conns : Dialled(m)' => Fresh(lnew[m])'
    BY Zenon, <2>5, <2>6, <2>7 DEF ConnInv
  <2>12. spc' = "publish" => Fresh(sconn)' /\ \A m \in Conns : Dialled(m)' => lnew'[m] # sconn'
    <3>1. Dialled(n)
      BY Zenon, <2>1 DEF Dialled
    <3>2. spc = "publish" => Fresh(sconn) /\ sconn # c
      BY Zenon, <2>2, <3>1 DEF ConnInv
    <3> QED
      BY Zenon, <2>1, <2>5, <2>6, <2>7, <3>2 DEF ConnInv
  <2>9. \A m, k \in Conns : Dialled(m)' /\ Dialled(k)' /\ lnew'[m] = lnew'[k] => m = k
    BY Zenon, <2>6, <2>7 DEF ConnInv
  <2>10. \A m, k \in Conns : lrw'[m] = lrw'[k] /\ lrw'[m] # 0 => m = k
    <3>1. \A m, k \in Conns : lrw[m] = lrw[k] /\ lrw[m] # 0 => m = k
      BY Zenon DEF ConnInv
    <3>2. lrw'[c] = c /\ \A m \in Conns : m # c => lrw'[m] = lrw[m] /\ lrw[m] # c
      BY Zenon, <2>3, <2>4
    <3> QED
      BY Zenon, <3>1, <3>2
  <2>11. \A m \in Conns : /\ lrw'[m] \in 0 .. nconn /\ lold'[m] \in 0 .. nconn
                          /\ (lpc'[m] # "none" => m =< nconn)
                          /\ (lpc'[m] = "none" => lrw'[m] = 0)
                          /\ (lpc'[m] \in {"read", "closeOld"} => lrw'[m] # 0)
    <3> SUFFICES ASSUME NEW m \in Conns
                 PROVE  /\ lrw'[m] \in 0 .. nconn /\ lold'[m] \in 0 .. nconn
                        /\ (lpc'[m] # "none" => m =< nconn)
                        /\ (lpc'[m] = "none" => lrw'[m] = 0)
                        /\ (lpc'[m] \in {"read", "closeOld"} => lrw'[m] # 0)
      OBVIOUS
    <3>1. CASE m = c
      BY <2>1, <2>3, <2>4, <3>1 DEF ConnInv
    <3>2. CASE m = n
      BY Zenon, <2>1, <2>3, <2>4, <3>2 DEF ConnInv
    <3>3. CASE m # c /\ m # n
      BY ZenonT(30), <2>1, <2>4, <3>3 DEF ConnInv
    <3> QED
      BY Zenon, <3>1, <3>2, <3>3
  <2> QED
    BY Zenon, <2>1, <2>8, <2>9, <2>10, <2>11, <2>12 DEF ConnInv
<1>12. ASSUME NEW n \in Conns, RedialDial(n)
       PROVE  ConnInv'
  <2>1. UNCHANGED <<conn, rw, lrw, spc, sconn>> /\ lpc[n] # "none"
    BY Zenon, <1>12 DEF RedialDial, LoopUnchanged, connVars, startVars
  <2>2. conn' \in 0 .. nconn /\ rw' \in 0 .. nconn
    BY Zenon, <2>1 DEF ConnInv
  <2>3. CASE /\ nconn < MaxConn /\ nconn' = nconn + 1 /\ lnew' = [lnew EXCEPT ![n] = nconn + 1]
             /\ lold' = [lold EXCEPT ![n] = conn] /\ lpc' = [lpc EXCEPT ![n] = "republish"]
    <3>1. \A m \in Conns : lold'[m] \in 0 .. nconn
      BY Zenon, <2>3 DEF ConnInv, TypeOK
    <3> QED
      BY Zenon, <2>1, <2>3, <3>1, LoopDials
  <2>4. CASE lpc' = [lpc EXCEPT ![n] = "ended"] /\ UNCHANGED <<nconn, lnew, lold>>
    <3>1. \A m \in Conns : lold'[m] \in 0 .. nconn
      BY Zenon, <2>4 DEF ConnInv
    <3> QED
      BY Zenon, <2>1, <2>2, <2>4, <3>1, LoopMoves
  <2> QED
    BY Zenon, <1>12, <2>3, <2>4 DEF RedialDial, Goto
<1>13. ASSUME NEW n \in Conns, RedialPublish(n)
       PROVE  ConnInv'
  <2>1. /\ lpc[n] = "republish" /\ lpc' = [lpc EXCEPT ![n] = "closeOld"]
        /\ lrw' = [lrw EXCEPT ![n] = lnew[n]] /\ lnew' = [lnew EXCEPT ![n] = 0]
        /\ conn' = lnew[n] /\ rw' = lnew[n] /\ UNCHANGED <<nconn, lold, spc, sconn>>
    BY Zenon, <1>13 DEF RedialPublish, setConn, Goto, LoopUnchanged, startVars
  <2>2. Dialled(n) /\ Fresh(lnew[n]) /\ lnew[n] \in 0 .. nconn /\ lnew[n] # 0
        /\ \A m \in Conns : lrw[m] # lnew[n]
    BY <1>a, <2>1 DEF Dialled, Fresh, ConnInv
  <2>3. /\ lpc'[n] = "closeOld" /\ lrw'[n] = lnew[n]
        /\ \A m \in Conns : m # n => lpc'[m] = lpc[m] /\ lrw'[m] = lrw[m] /\ lnew'[m] = lnew[m]
    BY Zenon, <2>1 DEF TypeOK
  <2>4. ASSUME NEW d, Fresh(d), d # lnew[n] PROVE Fresh(d)'
    <3>1. d \in Conns
      BY <1>a, <2>4 DEF Fresh, TypeOK, Conns
    <3>2. d # n
      BY Zenon, <2>1, <2>4 DEF Fresh
    <3> QED
      BY Zenon, <2>1, <2>3, <2>4, <3>1, <3>2 DEF Fresh
  <2>5. \A m \in Conns : Dialled(m)' => Dialled(m) /\ m # n /\ lnew'[m] = lnew[m] /\ lnew[m] # lnew[n]
    <3>1. \A m \in Conns : Dialled(m)' => Dialled(m) /\ m # n
      BY Zenon, <2>3 DEF Dialled
    <3> QED
      BY Zenon, <2>2, <2>3, <3>1 DEF ConnInv
  <2>6. \A m \in Conns : Dialled(m)' => Fresh(lnew[m])'
    BY Zenon, <2>4, <2>5 DEF ConnInv
  <2>10. spc' = "publish" => Fresh(sconn)' /\ \A m \in Conns : Dialled(m)' => lnew'[m] # sconn'
    <3>1. spc = "publish" => Fresh(sconn) /\ sconn # lnew[n]
      BY Zenon, <2>2 DEF ConnInv
    <3> QED
      BY Zenon, <2>1, <2>4, <2>5, <3>1 DEF ConnInv
  <2>7. \A m, k \in Conns : Dialled(m)' /\ Dialled(k)' /\ lnew'[m] = lnew'[k] => m = k
    BY Zenon, <2>5 DEF ConnInv
  <2>8. \A m, k \in Conns : lrw'[m] = lrw'[k] /\ lrw'[m] # 0 => m = k
    BY <2>2, <2>3 DEF ConnInv
  <2>9. \A m \in Conns : /\ lrw'[m] \in 0 .. nconn /\ lold'[m] \in 0 .. nconn
                         /\ (lpc'[m] # "none" => m =< nconn)
                         /\ (lpc'[m] = "none" => lrw'[m] = 0)
                         /\ (lpc'[m] \in {"read", "closeOld"} => lrw'[m] # 0)
    BY <2>1, <2>2, <2>3 DEF ConnInv
  <2> QED
    BY Zenon, <2>1, <2>2, <2>6, <2>7, <2>8, <2>9, <2>10 DEF ConnInv
<1>14. ASSUME NEW n \in Conns, RedialCloseOld(n)
       PROVE  ConnInv'
  <2>1. /\ UNCHANGED <<conn, rw, nconn, lrw, lnew, spc, sconn>> /\ lpc[n] = "closeOld"
        /\ lold' = [lold EXCEPT ![n] = 0] /\ lpc' = [lpc EXCEPT ![n] = "read"]
    BY Zenon, <1>14 DEF RedialCloseOld, Goto, LoopUnchanged, connVars, startVars
  <2>2. \A m \in Conns : lold'[m] \in 0 .. nconn
    BY Zenon, <1>a, <2>1 DEF ConnInv, TypeOK
  <2>3. conn' \in 0 .. nconn /\ rw' \in 0 .. nconn /\ lrw[n] # 0
    BY Zenon, <2>1 DEF ConnInv
  <2> QED
    BY Zenon, <2>1, <2>2, <2>3, LoopMoves
<1>15. ASSUME NEW n \in Conns, Break(n)
       PROVE  ConnInv'
  <2>1. UNCHANGED <<rw, nconn, lrw, lnew, lold, lpc, conn, spc, sconn>>
    BY Zenon, <1>15 DEF Break, workerVars, connVars, startVars, loopVars
  <2> QED
    BY Zenon, <1>a, <2>1, ConnFrame
<1>16. CASE SetClosed \/ FinishClose
  <2>1. /\ UNCHANGED <<rw, nconn, lrw, lnew, lold, lpc, spc, sconn>>
        /\ conn' \in {0, conn}
    BY Zenon, <1>16 DEF SetClosed, FinishClose, connVars, startVars, loopVars
  <2> QED
    BY Zenon, <1>a, <2>1, ConnFrame
<1>17. CASE UNCHANGED vars
  BY Zenon, <1>a, <1>17, ConnFrame DEF vars
<1> QED
  BY Zenon, <1>1, <1>2, <1>3, <1>4, <1>5, <1>6, <1>7, <1>8, <1>9, <1>10, <1>11, <1>12, <1>13, <1>14,
     <1>15, <1>16, <1>17
  DEF Next, Start, work

-----------------------------------------------------------------------------
(* Each epoch publishes another connection.                                *)

Unpublished(n) == lpc[n] \in {"publish", "republish"}

LEMMA EpochFrame ==
  ASSUME EpochInv, UNCHANGED <<epoch, nconn>>, spc' = "publish" <=> spc = "publish",
         spc = "publish" => UNCHANGED sconn,
         \A n \in Conns : Unpublished(n)' <=> Unpublished(n),
         \A n \in Conns : Unpublished(n) => lnew'[n] = lnew[n]
  PROVE  EpochInv'
<1>1. Published' = Published
  BY Zenon DEF Published, Unpublished
<1> QED
  BY Zenon, <1>1 DEF EpochInv

(* A dial adds a connection that is not published.                         *)
LEMMA EpochDial ==
  ASSUME EpochInv, nconn \in Nat, UNCHANGED epoch, nconn' = nconn + 1,
         \/ spc' = "publish" /\ sconn' = nconn + 1
         \/ \E n \in Conns : Unpublished(n)' /\ lnew'[n] = nconn + 1,
         spc = "publish" => spc' = "publish" /\ UNCHANGED sconn,
         \A n \in Conns : Unpublished(n) => Unpublished(n)' /\ lnew'[n] = lnew[n],
         spc' = "publish" => spc = "publish" \/ sconn' = nconn + 1,
         \A n \in Conns : Unpublished(n)' => Unpublished(n) \/ lnew'[n] = nconn + 1
  PROVE  EpochInv'
<1>1. \A c : c \in 1 .. nconn' <=> c \in 1 .. nconn \/ c = nconn + 1
  OBVIOUS
<1>2. nconn + 1 \notin 1 .. nconn
  OBVIOUS
<1>3. \A c \in 1 .. nconn : c \in Published' <=> c \in Published
  BY <1>1, <1>2 DEF Published, Unpublished
<1>4. nconn + 1 \notin Published'
  BY Zenon DEF Published, Unpublished
<1>5. Published' = Published
  BY <1>1, <1>2, <1>3, <1>4 DEF Published
<1> QED
  BY Zenon, <1>5 DEF EpochInv

LEMMA EpochStep ==
  ASSUME TypeOK, ConnInv, EpochInv, [Next]_vars
  PROVE  EpochInv'
<1>a. nconn \in Nat
  BY RegistrationAssumption DEF TypeOK
<1>1. CASE \/ ResetSend \/ ResetClear \/ SetClosed \/ FinishClose
           \/ \E f \in Funcs : AddFunc(f) \/ RemoveFunc(f)
           \/ \E n \in Conns : Break(n) \/ \E f \in Funcs : ReconnectWrite(n, f)
           \/ UNCHANGED vars
  <2>1. UNCHANGED <<epoch, nconn, spc, sconn, lpc, lnew>>
    BY Zenon, <1>1 DEF ResetSend, ResetClear, SetClosed, FinishClose, AddFunc, RemoveFunc, Break,
                ReconnectWrite, LoopUnchanged, AbilityUnchanged, connVars, startVars, loopVars, vars
  <2> QED
    BY Zenon, <2>1, EpochFrame DEF Unpublished
<1>2. CASE ReadySnapshot \/ ConnectFails \/ StartWork \/ \E f \in Funcs : Announce(f)
  <2>1. UNCHANGED <<epoch, nconn, sconn, lpc, lnew>> /\ spc # "publish" /\ spc' # "publish"
    BY Zenon, <1>2 DEF ReadySnapshot, ConnectFails, StartWork, Announce, connVars, loopVars
  <2> QED
    BY Zenon, <2>1, EpochFrame DEF Unpublished
<1>3. CASE ConnectDial
  <2>1. UNCHANGED <<epoch, lpc, lnew>> /\ spc = "connect"
    BY Zenon, <1>3 DEF ConnectDial, connVars, loopVars
  <2>2. CASE spc' = "connected" /\ UNCHANGED <<nconn, sconn>>
    BY Zenon, <2>1, <2>2, EpochFrame DEF Unpublished
  <2>3. CASE nconn' = nconn + 1 /\ sconn' = nconn + 1 /\ spc' = "publish"
    BY Zenon, <1>a, <2>1, <2>3, EpochDial DEF Unpublished
  <2> QED
    BY Zenon, <1>3, <2>2, <2>3 DEF ConnectDial
<1>4. CASE ConnectPublish
  <2>1. /\ spc = "publish" /\ spc' = "connected" /\ sconn \in 1 .. nconn /\ lpc[sconn] = "none"
        /\ epoch' = epoch + 1 /\ UNCHANGED <<nconn, lnew>>
        /\ lpc' = [lpc EXCEPT ![sconn] = "read"]
    BY Zenon, <1>4 DEF ConnectPublish, setConn, ConnInv, Fresh
  <2>2. \A n \in Conns : Unpublished(n)' <=> Unpublished(n)
    BY Zenon, <2>1 DEF Unpublished, TypeOK
  <2>3. \A n \in Conns : Unpublished(n) => lnew[n] # sconn
    BY Zenon, <2>1 DEF ConnInv, Dialled, Unpublished
  <2>4. Published' = Published \cup {sconn} /\ sconn \notin Published
    BY Zenon, <2>1, <2>2, <2>3 DEF Published, Unpublished
  <2> QED
    BY Zenon, <2>1, <2>4, RoomToPublish DEF EpochInv
<1>5. ASSUME NEW n \in Conns, ReadFails(n) \/ ReadEnds(n) \/ Reconnect(n) \/ DisconnectError(n)
      PROVE  EpochInv'
  <2>1. \E l \in {"ended", "disconnect", "redial", "reconnect"} : lpc' = [lpc EXCEPT ![n] = l]
    BY Zenon, <1>5 DEF ReadFails, ReadEnds, Reconnect, DisconnectError, Goto
  <2>2. UNCHANGED <<epoch, nconn, spc, sconn, lnew>> /\ lpc[n] \in {"read", "ended", "disconnect"}
    BY Zenon, <1>5 DEF ReadFails, ReadEnds, Reconnect, DisconnectError, LoopUnchanged, connVars, startVars
  <2>3. \A m \in Conns : Unpublished(m)' <=> Unpublished(m)
    BY Zenon, <2>1, <2>2 DEF Unpublished, TypeOK
  <2> QED
    BY Zenon, <2>2, <2>3, EpochFrame
<1>6. ASSUME NEW n \in Conns, ReconnectDial(n) \/ RedialDial(n)
      PROVE  EpochInv'
  <2>1. UNCHANGED <<epoch, spc, sconn>> /\ lpc[n] \in {"reconnect", "redial"}
    BY Zenon, <1>6 DEF ReconnectDial, RedialDial, LoopUnchanged, connVars, startVars
  <2>2. CASE lpc' = [lpc EXCEPT ![n] = "ended"] /\ UNCHANGED <<nconn, lnew>>
    <3>1. \A m \in Conns : Unpublished(m)' <=> Unpublished(m)
      BY Zenon, <2>1, <2>2 DEF Unpublished, TypeOK
    <3> QED
      BY Zenon, <2>1, <2>2, <3>1, EpochFrame
  <2>3. CASE /\ nconn' = nconn + 1 /\ lnew' = [lnew EXCEPT ![n] = nconn + 1]
             /\ \E l \in {"publish", "republish"} : lpc' = [lpc EXCEPT ![n] = l]
    <3>1. /\ Unpublished(n)' /\ ~Unpublished(n) /\ lnew'[n] = nconn + 1
          /\ \A m \in Conns : m # n => (Unpublished(m)' <=> Unpublished(m)) /\ lnew'[m] = lnew[m]
      BY Zenon, <2>1, <2>3 DEF Unpublished, TypeOK
    <3> QED
      BY Zenon, <1>a, <2>1, <2>3, <3>1, EpochDial
  <2> QED
    BY Zenon, <1>6, <2>2, <2>3 DEF ReconnectDial, RedialDial, Goto
<1>7. ASSUME NEW n \in Conns, ReconnectPublish(n) \/ RedialPublish(n)
      PROVE  EpochInv'
  <2>1. /\ lpc[n] \in {"publish", "republish"} /\ epoch' = epoch + 1 /\ UNCHANGED <<nconn, spc, sconn>>
        /\ \E l \in {"snapshot", "closeOld"} : lpc' = [lpc EXCEPT ![n] = l]
        /\ UNCHANGED lnew \/ lnew' = [lnew EXCEPT ![n] = 0]
    BY Zenon, <1>7 DEF ReconnectPublish, RedialPublish, setConn, Goto, LoopUnchanged, startVars
  <2>2. Unpublished(n) /\ Dialled(n) /\ (spc = "publish" => sconn # lnew[n])
    BY Zenon, <2>1 DEF Unpublished, Dialled, ConnInv
  <2>3. /\ ~Unpublished(n)'
        /\ \A m \in Conns : m # n => (Unpublished(m)' <=> Unpublished(m)) /\ lnew'[m] = lnew[m]
    BY Zenon, <2>1 DEF Unpublished, TypeOK
  <2>4. \A m \in Conns : m # n /\ Unpublished(m) => lnew[m] # lnew[n]
    BY Zenon, <2>2 DEF ConnInv, Dialled, Unpublished
  <2>5. PICK c \in 1 .. nconn : c = lnew[n]
    BY Zenon, <2>2 DEF ConnInv, Fresh
  <2>6. Published' = Published \cup {c} /\ c \notin Published
    <3>1. \A d \in 1 .. nconn : d \in Published <=> /\ ~(spc = "publish" /\ d = sconn)
                                                  /\ \A m \in Conns : Unpublished(m) => lnew[m] # d
      BY Zenon, <2>2 DEF Published, Unpublished
    <3>2. \A d \in 1 .. nconn : d \in Published' <=> /\ ~(spc = "publish" /\ d = sconn)
                                                   /\ \A m \in Conns : Unpublished(m)' => lnew'[m] # d
      BY Zenon, <2>1, <2>2 DEF Published, Unpublished
    <3>3. \A d \in 1 .. nconn : d # c => (d \in Published' <=> d \in Published)
      BY <2>3, <2>5, <3>1, <3>2
    <3>4. c \in Published' /\ c \notin Published
      BY <2>2, <2>3, <2>4, <2>5, <3>1, <3>2
    <3>5. Published \subseteq 1 .. nconn /\ Published' \subseteq 1 .. nconn
      BY Zenon, <2>1 DEF Published
    <3> QED
      BY Zenon, <3>3, <3>4, <3>5
  <2> QED
    BY Zenon, <2>1, <2>5, <2>6, RoomToPublish DEF EpochInv
<1>8. ASSUME NEW n \in Conns, ReconnectSnapshot(n) \/ RedialCloseOld(n)
      PROVE  EpochInv'
  <2>1. /\ UNCHANGED <<epoch, nconn, spc, sconn, lnew>> /\ lpc[n] \in {"snapshot", "closeOld"}
        /\ \E l \in {"register", "read"} : lpc' = [lpc EXCEPT ![n] = l]
    BY Zenon, <1>8 DEF ReconnectSnapshot, RedialCloseOld, Goto, LoopUnchanged, connVars, startVars
  <2>2. \A m \in Conns : Unpublished(m)' <=> Unpublished(m)
    BY Zenon, <2>1 DEF Unpublished, TypeOK
  <2> QED
    BY Zenon, <2>1, <2>2, EpochFrame
<1>9. ASSUME NEW n \in Conns, ReconnectStart(n)
      PROVE  EpochInv'
  <2>1. /\ UNCHANGED <<epoch, nconn, spc, sconn>> /\ lpc[n] = "register"
        /\ lpc' = [lpc EXCEPT ![n] = "ended", ![lnew[n]] = "read"]
        /\ lnew' = [lnew EXCEPT ![n] = 0]
    BY Zenon, <1>9 DEF ReconnectStart, LoopUnchanged, connVars, startVars
  <2>2. lpc[lnew[n]] = "none"
    BY Zenon, <2>1 DEF ConnInv, Fresh, Dialled
  <2>3. \A m \in Conns : Unpublished(m)' <=> Unpublished(m)
    BY Zenon, <2>1, <2>2 DEF Unpublished, TypeOK
  <2>4. \A m \in Conns : Unpublished(m) => lnew'[m] = lnew[m]
    BY Zenon, <2>1 DEF Unpublished, TypeOK
  <2> QED
    BY Zenon, <2>1, <2>3, <2>4, EpochFrame
<1> QED
  BY Zenon, <1>1, <1>2, <1>3, <1>4, <1>5, <1>6, <1>7, <1>8, <1>9 DEF Next, Start, work

-----------------------------------------------------------------------------
(* Every function is known to the server or on its way to it.              *)

LEMMA ToldFrame ==
  ASSUME ToldInv, UNCHANGED <<funcs, missed, able, resetting, bare, sfuncs, spc, lout>>,
         running' => running,
         \A n \in Conns : /\ lpc[n] = "snapshot" => lpc'[n] = "snapshot"
                          /\ lpc[n] = "register" /\ lout[n] # {} => lpc'[n] = "register"
  PROVE  ToldInv'
<1>1. OnTheWay \subseteq OnTheWay'
  BY Zenon DEF OnTheWay
<1>2. (\A n \in Conns : lpc'[n] # "snapshot") => \A n \in Conns : lpc[n] # "snapshot"
  OBVIOUS
<1> QED
  BY ZenonT(30), <1>1, <1>2 DEF ToldInv

LEMMA ToldStep ==
  ASSUME TypeOK, ConnInv, ToldInv, [Next]_vars
  PROVE  ToldInv'
<1>1. ASSUME NEW f \in Funcs, AddFunc(f)
      PROVE  ToldInv'
  <2>1. /\ funcs' = funcs \cup {f} /\ UNCHANGED <<running, resetting, bare, spc, sfuncs, lpc, lout>>
        /\ able' = IF running THEN able \cup {f} ELSE able
        /\ missed' = IF ~running /\ spc # "idle" THEN missed \cup {f} ELSE missed
    BY Zenon, <1>1 DEF AddFunc, AbilityUnchanged, startVars, loopVars
  <2>2. OnTheWay' = OnTheWay
    BY Zenon, <2>1 DEF OnTheWay
  <2>3. CASE running
    <3>1. spc = "working" /\ able' = able \cup {f} /\ missed' = missed
      BY Zenon, <2>1, <2>3 DEF ToldInv
    <3> QED
      BY Zenon, <2>1, <2>2, <3>1 DEF ToldInv
  <2>4. CASE ~running /\ spc # "idle"
    <3>1. able' = able /\ funcs' \ missed' \subseteq funcs \ missed
      BY Zenon, <2>1, <2>4
    <3> QED
      BY Zenon, <2>1, <2>2, <2>4, <3>1 DEF ToldInv
  <2>5. CASE spc = "idle"
    BY Zenon, <2>1, <2>2, <2>5 DEF ToldInv
  <2> QED
    BY Zenon, <2>3, <2>4, <2>5
<1>2. ASSUME NEW f \in Funcs, RemoveFunc(f)
      PROVE  ToldInv'
  <2>1. /\ funcs' \ missed' \subseteq (funcs \ missed) \ {f} /\ able \ {f} \subseteq able'
        /\ UNCHANGED <<running, resetting, bare, spc, sfuncs, lpc, lout>>
    BY Zenon, <1>2 DEF RemoveFunc, AbilityUnchanged, startVars, loopVars
  <2>2. OnTheWay' = OnTheWay
    BY Zenon, <2>1 DEF OnTheWay
  <2> QED
    BY Zenon, <2>1, <2>2 DEF ToldInv
<1>3. CASE ResetSend
  <2>1. resetting' /\ UNCHANGED <<running, spc>>
    BY Zenon, <1>3 DEF ResetSend, AbilityUnchanged, startVars
  <2> QED
    BY Zenon, <2>1 DEF ToldInv
<1>4. CASE ResetClear
  BY Zenon, <1>4 DEF ResetClear, AbilityUnchanged, startVars, ToldInv
<1>5. CASE ReadySnapshot
  <2>1. spc' = "connect" /\ sfuncs' = funcs' /\ UNCHANGED running /\ spc = "idle"
    BY Zenon, <1>5 DEF ReadySnapshot, StartUnchanged
  <2>2. sfuncs' \subseteq OnTheWay'
    BY Zenon, <1>5, <2>1 DEF ReadySnapshot, OnTheWay, TypeOK
  <2> QED
    BY Zenon, <2>1, <2>2 DEF ToldInv
<1>6. CASE ConnectDial
  <2>1. /\ spc = "connect" /\ spc' \in {"connected", "publish"}
        /\ UNCHANGED <<running, funcs, missed, able, resetting, bare, sfuncs, lpc, lout>>
    BY Zenon, <1>6 DEF ConnectDial, StartUnchanged, connVars, loopVars
  <2>2. OnTheWay \subseteq OnTheWay'
    BY Zenon, <2>1 DEF OnTheWay
  <2> QED
    BY Zenon, <2>1, <2>2 DEF ToldInv
<1>7. CASE ConnectFails
  <2>1. spc # "working" /\ spc' = "idle" /\ UNCHANGED running
    BY Zenon, <1>7 DEF ConnectFails
  <2> QED
    BY Zenon, <2>1 DEF ToldInv
<1>8. CASE ConnectPublish
  <2>1. /\ spc = "publish" /\ spc' = "connected" /\ missed' = funcs' \ sfuncs'
        /\ UNCHANGED <<running, sfuncs>>
    BY Zenon, <1>8 DEF ConnectPublish, StartUnchanged
  <2>2. sfuncs' \subseteq OnTheWay'
    BY Zenon, <2>1 DEF OnTheWay, TypeOK
  <2> QED
    BY Zenon, <2>1, <2>2 DEF ToldInv
<1>9. ASSUME NEW f \in Funcs, Announce(f)
      PROVE  ToldInv'
  <2>1. /\ spc \in {"connected", "announce"} /\ spc' = "announce"
        /\ able' = able \cup {f} /\ sfuncs' = sfuncs \ {f}
        /\ UNCHANGED <<funcs, missed, running, resetting, bare, lpc, lout>>
    BY Zenon, <1>9 DEF Announce, StartUnchanged, loopVars
  <2>2. OnTheWay \subseteq OnTheWay' \cup {f}
    BY Zenon, <2>1 DEF OnTheWay
  <2> QED
    BY Zenon, <2>1, <2>2 DEF ToldInv
<1>10. CASE StartWork
  <2>1. /\ spc = "announce" /\ sfuncs = {} /\ spc' = "working"
        /\ UNCHANGED <<funcs, missed, able, resetting, bare, sfuncs, lpc, lout>>
    BY Zenon, <1>10 DEF StartWork, StartUnchanged, connVars, loopVars
  <2>2. OnTheWay \subseteq OnTheWay'
    BY Zenon, <2>1 DEF OnTheWay
  <2> QED
    BY Zenon, <2>1, <2>2 DEF ToldInv
<1>11. ASSUME NEW n \in Conns,
              ReadFails(n) \/ ReadEnds(n) \/ Reconnect(n) \/ DisconnectError(n) \/ ReconnectDial(n)
                \/ RedialDial(n) \/ RedialCloseOld(n)
       PROVE  ToldInv'
  <2>1. \E l : lpc' = [lpc EXCEPT ![n] = l]
    BY ZenonT(30), <1>11 DEF ReadFails, ReadEnds, Reconnect, DisconnectError, ReconnectDial, RedialDial,
                 RedialCloseOld, Goto
  <2>2. /\ lpc[n] \notin {"snapshot", "register"}
        /\ UNCHANGED <<funcs, missed, able, resetting, bare, sfuncs, spc, lout, running>>
    BY Zenon, <1>11 DEF ReadFails, ReadEnds, Reconnect, DisconnectError, ReconnectDial, RedialDial,
                 RedialCloseOld, LoopUnchanged, workerVars, connVars, startVars
  <2>3. \A m \in Conns : lpc[m] \in {"snapshot", "register"} => lpc'[m] = lpc[m]
    BY Zenon, <2>1, <2>2 DEF TypeOK
  <2> QED
    BY Zenon, <2>2, <2>3, ToldFrame
<1>12. ASSUME NEW n \in Conns, ReconnectPublish(n)
       PROVE  ToldInv'
  <2>1. lpc'[n] = "snapshot" /\ UNCHANGED <<running, spc, funcs, missed, sfuncs>>
    BY Zenon, <1>12 DEF ReconnectPublish, Goto, LoopUnchanged, workerVars, startVars, TypeOK
  <2> QED
    BY Zenon, <2>1 DEF ToldInv
<1>13. ASSUME NEW n \in Conns, ReconnectSnapshot(n)
       PROVE  ToldInv'
  <2>1. /\ lpc[n] = "snapshot" /\ lpc'[n] = "register" /\ lout'[n] = funcs
        /\ UNCHANGED <<running, spc, funcs>>
    BY Zenon, <1>13 DEF ReconnectSnapshot, Goto, startVars, TypeOK
  <2>2. funcs' \subseteq OnTheWay'
    BY Zenon, <2>1 DEF OnTheWay, TypeOK
  <2> QED
    BY Zenon, <2>1, <2>2 DEF ToldInv
<1>14. ASSUME NEW n \in Conns, NEW f \in Funcs, ReconnectWrite(n, f)
       PROVE  ToldInv'
  <2>1. /\ able' = able \cup {f} /\ lout' = [lout EXCEPT ![n] = @ \ {f}]
        /\ UNCHANGED <<funcs, missed, running, resetting, bare, spc, sfuncs, lpc>>
    BY Zenon, <1>14 DEF ReconnectWrite, LoopUnchanged, workerVars, startVars
  <2>2. \A m \in Conns : lout[m] \subseteq lout'[m] \cup {f}
    BY Zenon, <2>1 DEF TypeOK
  <2>3. OnTheWay \subseteq OnTheWay' \cup {f}
    BY Zenon, <2>1, <2>2 DEF OnTheWay
  <2> QED
    BY Zenon, <2>1, <2>3 DEF ToldInv
<1>15. ASSUME NEW n \in Conns, ReconnectStart(n)
       PROVE  ToldInv'
  <2>1. /\ lpc[n] = "register" /\ lout[n] = {}
        /\ lpc' = [lpc EXCEPT ![n] = "ended", ![lnew[n]] = "read"]
        /\ UNCHANGED <<funcs, missed, able, resetting, bare, sfuncs, spc, lout, running>>
    BY Zenon, <1>15 DEF ReconnectStart, LoopUnchanged, workerVars, connVars, startVars
  <2>2. lpc[lnew[n]] = "none"
    BY Zenon, <2>1 DEF ConnInv, Fresh, Dialled
  <2>3. \A m \in Conns : m # n /\ lpc[m] \in {"snapshot", "register"} => lpc'[m] = lpc[m]
    BY Zenon, <2>1, <2>2 DEF TypeOK
  <2> QED
    BY Zenon, <2>1, <2>3, ToldFrame
<1>16. ASSUME NEW n \in Conns, RedialPublish(n)
       PROVE  ToldInv'
  <2>1. bare' /\ UNCHANGED <<running, spc, funcs, missed, sfuncs>>
    BY Zenon, <1>16 DEF RedialPublish, setConn, LoopUnchanged, workerVars, startVars
  <2> QED
    BY Zenon, <2>1 DEF ToldInv
<1>17. CASE SetClosed \/ FinishClose \/ (\E n \in Conns : Break(n)) \/ UNCHANGED vars
  <2>1. /\ UNCHANGED <<funcs, missed, able, resetting, bare, sfuncs, spc, lout, lpc>>
        /\ running' => running
    BY <1>17 DEF SetClosed, FinishClose, Break, vars, workerVars, connVars, startVars, loopVars
  <2> QED
    BY Zenon, <2>1, ToldFrame
<1> QED
  BY Zenon, <1>1, <1>2, <1>3, <1>4, <1>5, <1>6, <1>7, <1>8, <1>9, <1>10, <1>11, <1>12, <1>13, <1>14,
     <1>15, <1>16, <1>17
  DEF Next, Start, work

-----------------------------------------------------------------------------
(* What the server knows, or will be told, is no more than it should.      *)

LEMMA StaleFrame ==
  ASSUME StaleInv, UNCHANGED <<funcs, late>>, able' \subseteq able \cup Unsent \cup funcs,
         Unsent' \subseteq Unsent \cup funcs
  PROVE  StaleInv'
BY Zenon DEF StaleInv

LEMMA StaleStep ==
  ASSUME TypeOK, StaleInv, [Next]_vars
  PROVE  StaleInv'
<1>1. CASE \/ ResetSend \/ ResetClear \/ \E f \in Funcs : AddFunc(f) \/ RemoveFunc(f)
  <2>1. Unsent' = Unsent
    BY Zenon, <1>1 DEF ResetSend, ResetClear, AddFunc, RemoveFunc, AbilityUnchanged, startVars, loopVars,
                Unsent
  <2>2. CASE ResetSend
    BY Zenon, <2>1, <2>2 DEF ResetSend, StaleInv
  <2>3. CASE ResetClear
    BY Zenon, <2>1, <2>3 DEF ResetClear, StaleInv
  <2>4. ASSUME NEW f \in Funcs, AddFunc(f) PROVE StaleInv'
    <3>1. funcs' = funcs \cup {f} /\ able' \subseteq able \cup {f} /\ late' = late \ {f}
      BY Zenon, <2>4 DEF AddFunc
    <3> QED
      BY Zenon, <2>1, <3>1 DEF StaleInv
  <2>5. ASSUME NEW f \in Funcs, RemoveFunc(f) PROVE StaleInv'
    <3>1. /\ funcs' = funcs \ {f} /\ able' \subseteq able /\ late \subseteq late'
          /\ f \in able' \cup Unsent => f \in late'
      BY Zenon, <2>5 DEF RemoveFunc
    <3> QED
      BY Zenon, <2>1, <3>1 DEF StaleInv
  <2> QED
    BY Zenon, <1>1, <2>2, <2>3, <2>4, <2>5
<1>2. CASE Start
  <2>1. UNCHANGED <<funcs, late, lout>>
    BY Zenon, <1>2 DEF Start, ReadySnapshot, ConnectDial, ConnectFails, ConnectPublish, Announce, StartWork,
                StartUnchanged, loopVars
  <2>2. able' \subseteq able \cup sfuncs /\ sfuncs' \subseteq sfuncs \cup funcs
    BY Zenon, <1>2 DEF Start, ReadySnapshot, ConnectDial, ConnectFails, ConnectPublish, Announce, StartWork,
                setConn, connVars
  <2> QED
    BY Zenon, <2>1, <2>2, StaleFrame DEF Unsent
<1>3. ASSUME NEW n \in Conns, ReconnectSnapshot(n)
      PROVE  StaleInv'
  <2>1. /\ UNCHANGED <<funcs, late, able, sfuncs>> /\ lout' = [lout EXCEPT ![n] = funcs]
    BY Zenon, <1>3 DEF ReconnectSnapshot, connVars, startVars
  <2>2. \A m \in Conns : lout'[m] \subseteq lout[m] \cup funcs
    BY Zenon, <2>1 DEF TypeOK
  <2>3. Unsent' \subseteq Unsent \cup funcs
    BY Zenon, <2>1, <2>2 DEF Unsent
  <2> QED
    BY Zenon, <2>1, <2>3, StaleFrame
<1>4. ASSUME NEW n \in Conns, NEW f \in Funcs, ReconnectWrite(n, f)
      PROVE  StaleInv'
  <2>1. /\ UNCHANGED <<funcs, late, sfuncs>> /\ lout' = [lout EXCEPT ![n] = @ \ {f}]
        /\ able' = able \cup {f} /\ f \in lout[n]
    BY Zenon, <1>4 DEF ReconnectWrite, LoopUnchanged, workerVars, startVars
  <2>2. \A m \in Conns : lout'[m] \subseteq lout[m]
    BY Zenon, <2>1 DEF TypeOK
  <2>3. Unsent' \subseteq Unsent /\ f \in Unsent
    BY Zenon, <2>1, <2>2 DEF Unsent
  <2> QED
    BY Zenon, <2>1, <2>3, StaleFrame
<1>5. ASSUME NEW n \in Conns,
             \/ ReadFails(n) \/ ReadEnds(n) \/ DisconnectError(n) \/ Reconnect(n) \/ ReconnectDial(n)
             \/ ReconnectPublish(n) \/ ReconnectStart(n) \/ RedialDial(n) \/ RedialPublish(n)
             \/ RedialCloseOld(n) \/ Break(n)
      PROVE  StaleInv'
  <2>1. UNCHANGED <<funcs, late, sfuncs, lout>> /\ able' \subseteq able
    BY ZenonT(30), <1>5 DEF ReadFails, ReadEnds, DisconnectError, Reconnect, ReconnectDial, ReconnectPublish,
                ReconnectStart, RedialDial, RedialPublish, RedialCloseOld, Break, setConn,
                LoopUnchanged, workerVars, connVars, startVars, loopVars
  <2> QED
    BY Zenon, <2>1, StaleFrame DEF Unsent
<1>6. CASE SetClosed \/ FinishClose \/ UNCHANGED vars
  <2>1. UNCHANGED <<funcs, late, able, sfuncs, lout>>
    BY Zenon, <1>6 DEF SetClosed, FinishClose, vars, connVars, startVars, loopVars
  <2> QED
    BY Zenon, <2>1, StaleFrame DEF Unsent
<1> QED
  BY Zenon, <1>1, <1>2, <1>3, <1>4, <1>5, <1>6 DEF Next, work

-----------------------------------------------------------------------------
(* Connect dials for an agent that never had a connection.                 *)

LEMMA OnceFrame ==
  ASSUME OnceInv, UNCHANGED <<rw, conn>>, closing' # "done" => closing # "done",
         spc' = "publish" => spc = "publish", UNCHANGED lpc \/ rw # 0
  PROVE  OnceInv'
BY Zenon DEF OnceInv, ConnectsOnce

(* A loop publishes: it exists, so rw is not nil and Connect not dialling. *)
LEMMA OncePublish ==
  ASSUME OnceInv, NEW n \in Conns, lpc[n] # "none", conn' # 0, rw' # 0, UNCHANGED <<spc, closing>>
  PROVE  OnceInv'
BY Zenon DEF OnceInv, ConnectsOnce

LEMMA OnceStep ==
  ASSUME TypeOK, ConnInv, OnceInv, [Next]_vars
  PROVE  OnceInv'
<1>a. \A c : Fresh(c) => c # 0
  BY RegistrationAssumption DEF TypeOK, Fresh
<1>1. CASE \/ ResetSend \/ ResetClear \/ SetClosed \/ ReadySnapshot \/ ConnectFails \/ StartWork
           \/ \E f \in Funcs : AddFunc(f) \/ RemoveFunc(f) \/ Announce(f)
           \/ \E n \in Conns : Break(n)
           \/ UNCHANGED vars
  <2>1. UNCHANGED <<rw, conn, lpc>>
    BY Zenon, <1>1 DEF ResetSend, ResetClear, SetClosed, ReadySnapshot, ConnectFails, StartWork, AddFunc,
                RemoveFunc, Announce, Break, AbilityUnchanged, connVars, loopVars, vars
  <2>2. (closing' # "done" => closing # "done") /\ (spc' = "publish" => spc = "publish")
    BY Zenon, <1>1 DEF ResetSend, ResetClear, SetClosed, ReadySnapshot, ConnectFails, StartWork, AddFunc,
                RemoveFunc, Announce, Break, AbilityUnchanged, StartUnchanged, workerVars, startVars, vars
  <2> QED
    BY Zenon, <2>1, <2>2, OnceFrame
<1>2. CASE ConnectDial
  <2>1. UNCHANGED <<rw, conn, lpc, closing>> /\ (spc' = "publish" => conn = 0)
    BY Zenon, <1>2 DEF ConnectDial, StartUnchanged, connVars, loopVars
  <2> QED
    BY Zenon, <2>1 DEF OnceInv, ConnectsOnce
<1>3. CASE ConnectPublish
  <2>1. conn' # 0 /\ rw' # 0 /\ spc' = "connected"
    BY Zenon, <1>a, <1>3 DEF ConnectPublish, setConn, ConnInv
  <2> QED
    BY Zenon, <2>1 DEF OnceInv, ConnectsOnce
<1>4. ASSUME NEW n \in Conns,
             \/ ReadFails(n) \/ ReadEnds(n) \/ DisconnectError(n) \/ Reconnect(n) \/ ReconnectDial(n)
             \/ ReconnectSnapshot(n) \/ ReconnectStart(n) \/ RedialDial(n) \/ RedialCloseOld(n)
             \/ \E f \in Funcs : ReconnectWrite(n, f)
      PROVE  OnceInv'
  <2>1. UNCHANGED <<rw, conn, spc, closing>>
    BY ZenonT(30), <1>4 DEF ReadFails, ReadEnds, DisconnectError, Reconnect, ReconnectDial, ReconnectSnapshot,
                ReconnectStart, RedialDial, RedialCloseOld, ReconnectWrite, LoopUnchanged, workerVars,
                connVars, startVars
  <2>2. lpc[n] # "none"
    BY Zenon, <1>4 DEF ReadFails, ReadEnds, DisconnectError, Reconnect, ReconnectDial, ReconnectSnapshot,
                ReconnectStart, RedialDial, RedialCloseOld, ReconnectWrite
  <2>3. rw # 0
    BY Zenon, <2>2 DEF OnceInv
  <2> QED
    BY Zenon, <2>1, <2>3, OnceFrame
<1>5. ASSUME NEW n \in Conns, ReconnectPublish(n) \/ RedialPublish(n)
      PROVE  OnceInv'
  <2>1. /\ lpc[n] \in {"publish", "republish"} /\ conn' = lnew[n] /\ rw' = lnew[n]
        /\ UNCHANGED <<spc, closing>>
    BY Zenon, <1>5 DEF ReconnectPublish, RedialPublish, setConn, LoopUnchanged, workerVars, startVars
  <2>2. lnew[n] # 0
    BY Zenon, <1>a, <2>1 DEF ConnInv, Dialled
  <2> QED
    BY Zenon, <2>1, <2>2, OncePublish
<1>6. CASE FinishClose
  BY Zenon, <1>6 DEF FinishClose, loopVars, OnceInv, ConnectsOnce
<1> QED
  BY Zenon, <1>1, <1>2, <1>3, <1>4, <1>5, <1>6 DEF Next, Start, work

-----------------------------------------------------------------------------
LEMMA Start0 == Init => TypeOK /\ ConnInv /\ EpochInv /\ ToldInv /\ StaleInv /\ OnceInv
<1> SUFFICES ASSUME Init PROVE TypeOK /\ ConnInv /\ EpochInv /\ ToldInv /\ StaleInv /\ OnceInv
  OBVIOUS
<1>1. TypeOK
  <2>1. 0 \in 0 .. MaxConn
    BY RegistrationAssumption
  <2>2. lpc \in [Conns -> LoopLabels]
    BY Zenon DEF Init, LoopLabels
  <2>3. /\ lepoch \in [Conns -> 0 .. MaxConn] /\ lrw \in [Conns -> 0 .. MaxConn]
        /\ lnew \in [Conns -> 0 .. MaxConn] /\ lold \in [Conns -> 0 .. MaxConn]
        /\ lout \in [Conns -> SUBSET Funcs]
    BY Zenon, <2>1 DEF Init
  <2> QED
    BY Zenon, <2>1, <2>2, <2>3 DEF Init, TypeOK
<1>2. ConnInv
  BY DEF Init, ConnInv, Dialled
<1>3. Published = {}
  BY DEF Init, Published
<1>4. EpochInv
  BY Zenon, <1>3, FS_EmptySet DEF Init, EpochInv
<1>5. Unsent = {}
  BY Zenon DEF Init, Unsent
<1> QED
  BY Zenon, <1>1, <1>2, <1>4, <1>5 DEF Init, ToldInv, StaleInv, OnceInv, ConnectsOnce

(* Who a connection of the agent belongs to, and that each of its epochs   *)
(* publishes another dial, whatever Connect, reconnect, the redials, Close *)
(* and failing connections do to each other.                               *)
THEOREM ConnectionsOwned == Spec => [](TypeOK /\ ConnInv /\ EpochInv)
<1>1. Init => TypeOK /\ ConnInv /\ EpochInv
  BY Zenon, Start0
<1>2. TypeOK /\ ConnInv /\ EpochInv /\ [Next]_vars => TypeOK' /\ ConnInv' /\ EpochInv'
  BY Zenon, TypeStep, ConnStep, EpochStep
<1> QED
  BY <1>1, <1>2, PTL DEF Spec

(* The agent's state has its types; in particular the epoch never passes   *)
(* the number of dials.                                                    *)
THEOREM RegistrationTypes == Spec => []TypeOK
BY ConnectionsOwned, PTL

(* Two work loops never read one connection.                               *)
THEOREM LoopsReadTheirOwn == Spec => []OneReader
<1>1. ConnInv => OneReader
  BY Zenon DEF ConnInv, OneReader
<1> QED
  BY <1>1, ConnectionsOwned, PTL

(* Until Close, no retry of Ready, reconnect or redial brings Connect to   *)
(* dial a second connection for an agent that has one.                     *)
THEOREM RetriesKeepTheConnection == Spec => []ConnectsOnce
<1>1. Init => OnceInv
  BY Zenon, Start0
<1>2. TypeOK /\ ConnInv /\ OnceInv /\ [Next]_vars => OnceInv'
  BY Zenon, OnceStep
<1>3. OnceInv => ConnectsOnce
  BY Zenon DEF OnceInv
<1> QED
  BY <1>1, <1>2, <1>3, ConnectionsOwned, PTL DEF Spec

(* A function that AddFunc added lands in a snapshot or as its own write,  *)
(* never neither, but for the window between Ready's snapshot and Work.    *)
THEOREM AddedIsAnnounced == Spec => []NeverNeither
<1>1. Init => ToldInv
  BY Zenon, Start0
<1>2. TypeOK /\ ConnInv /\ ToldInv /\ [Next]_vars => ToldInv'
  BY Zenon, ToldStep
<1>3. ToldInv => NeverNeither
  <2> SUFFICES ASSUME ToldInv, Settled, ~bare PROVE funcs \ missed \subseteq able
    BY Zenon DEF NeverNeither
  <2>1. OnTheWay = {} /\ spc = "working"
    BY Zenon DEF Settled, OnTheWay
  <2> QED
    BY Zenon, <2>1 DEF ToldInv, Settled
<1> QED
  BY <1>1, <1>2, <1>3, ConnectionsOwned, PTL DEF Spec

(* The server believes of this worker only what it can do, but for what    *)
(* was removed in the windows that late records.                           *)
THEOREM RemovedIsForgotten == Spec => []NoStaleAbility
<1>1. Init => StaleInv
  BY Zenon, Start0
<1>2. TypeOK /\ StaleInv /\ [Next]_vars => StaleInv'
  BY Zenon, StaleStep
<1>3. StaleInv => NoStaleAbility
  BY Zenon DEF StaleInv, NoStaleAbility
<1> QED
  BY <1>1, <1>2, <1>3, RegistrationTypes, PTL DEF Spec
=============================================================================

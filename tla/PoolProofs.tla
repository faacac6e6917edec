----------------------------- MODULE PoolProofs ------------------------------
(***************************************************************************)
(* For every number of goroutines, addresses, rates and handlers: a Pool   *)
(* leaks no client, hands out none that it has closed but for those a Close *)
(* has swept, and gives every client the error handler.  None of the three *)
(* is inductive; the definitions below say what they rest on.  And what    *)
(* SelectWithRate returns is decided by the order of the map.              *)
(***************************************************************************)
EXTENDS Pool, FiniteSetTheorems, WellFoundedInduction, TLAPS

(* p has dialled a client that is not in the pool.                         *)
Held(p) == pc[p] \in {"configure", "insert", "duplicate"}

(* Each client has one owner: an Add, or one address of the pool.  What a  *)
(* Remove, a Close or a SetErrorHandler has snapshotted is nobody's fresh   *)
(* client, and is still pooled when it is closed only if a Close swept it. *)
OwnerInv ==
  /\ \A p \in Procs : pc[p] = "dial" \/ Held(p) => addr[p] \in Addrs
  /\ \A p \in Procs : Held(p) => client[p] \in open \ Pooled
  /\ \A p, q \in Procs : Held(p) /\ Held(q) /\ client[p] = client[q] => p = q
  /\ \A a, b \in Addrs : Clients[a] = Clients[b] /\ Clients[a] # 0 => a = b
  /\ Pooled \subseteq 1 .. made
  /\ \A p \in Procs : todo[p] \subseteq 1 .. made
  /\ \A p, q \in Procs : Held(p) => client[p] \notin todo[q]
  /\ \A p \in Procs : pc[p] = "close" => todo[p] \cap Pooled \subseteq swept

(* Where the handler is on its way to every client.                        *)
ReachInv ==
  /\ \A c \in 1 .. MaxClients : c > made => handler[c] = None
  /\ \A p \in Procs : pc[p] = "configure" => handler[client[p]] = None
  /\ ~overlapped =>
       /\ \A p \in Procs : pc[p] \in {"snapshot", "install"} => h[p] = errorHandler
       /\ \A p \in Procs : pc[p] = "insert" =>
            client[p] \in missed \/ handler[client[p]] = errorHandler
       /\ \A c \in Pooled \ missed :
            \/ handler[c] = errorHandler
            \/ \E p \in Procs : pc[p] = "snapshot" \/ (pc[p] = "install" /\ c \in todo[p])

-----------------------------------------------------------------------------
(* The state of Pool keeps its types.                                      *)

LEMMA ReturnTypes ==
  ASSUME TypeOK, NEW p \in Procs, Return(p)
  PROVE  /\ pc' \in [Procs -> {"idle", "dial", "configure", "insert", "duplicate", "close",
                               "snapshot", "install", "call"}]
         /\ addr' \in [Procs -> Addrs \cup {None}] /\ rate' \in [Procs -> Rates \cup {0}]
         /\ h' \in [Procs -> Handlers \cup {None}] /\ client' \in [Procs -> 0 .. MaxClients]
         /\ todo' \in [Procs -> SUBSET (1 .. MaxClients)]
BY PoolAssumption DEF TypeOK, Return

LEMMA PooledType == TypeOK => Pooled \subseteq 1 .. MaxClients
BY PoolAssumption DEF TypeOK, Pooled

LEMMA TypeStep ==
  ASSUME TypeOK, OwnerInv, [Next]_vars
  PROVE  TypeOK'
<1>1. ASSUME NEW p \in Procs, NEW a \in Addrs, NEW r \in Rates, AddLook(p, a, r)
      PROVE  TypeOK'
  <2>1. CASE Clients[a] # 0
    BY ZenonT(30), <1>1, <2>1 DEF TypeOK, AddLook, clientVars, history
  <2>2. CASE Clients[a] = 0
    <3>1. /\ pc' = [pc EXCEPT ![p] = "dial"] /\ addr' = [addr EXCEPT ![p] = a]
          /\ rate' = [rate EXCEPT ![p] = r] /\ UNCHANGED Rate
      BY Zenon, <1>1, <2>2 DEF AddLook, Go
    <3> QED
      BY Zenon, <1>1, <3>1 DEF TypeOK, AddLook, clientVars, history
  <2> QED
    BY Zenon, <2>1, <2>2
<1>2. ASSUME NEW p \in Procs, AddDial(p)
      PROVE  TypeOK'
  <2>1. CASE Return(p) /\ UNCHANGED <<poolVars, mutex, errorHandler, clientVars, handler, history>>
    BY Zenon, <2>1, ReturnTypes DEF TypeOK, poolVars, clientVars, history
  <2>2. CASE /\ made < MaxClients /\ Go(p, "dial", "configure")
             /\ made' = made + 1 /\ open' = open \cup {made + 1}
             /\ client' = [client EXCEPT ![p] = made + 1]
             /\ UNCHANGED <<poolVars, mutex, errorHandler, handler, argVars, todo, history>>
    BY <2>2, PoolAssumption DEF TypeOK, Go, poolVars, argVars, history
  <2> QED
    BY Zenon, <1>2, <2>1, <2>2 DEF AddDial
<1>3. ASSUME NEW p \in Procs, AddConfigure(p)
      PROVE  TypeOK'
  BY Zenon, <1>3 DEF TypeOK, AddConfigure, Go, poolVars, clientVars, argVars, history
<1>4. ASSUME NEW p \in Procs, AddInsert(p)
      PROVE  TypeOK'
  <2>1. CASE Return(p)
    BY ZenonT(30), <1>4, <2>1, ReturnTypes, PoolAssumption DEF TypeOK, AddInsert, Go, clientVars, argVars, history
  <2>2. CASE ~Return(p)
    BY Zenon, <1>4, <2>2 DEF TypeOK, AddInsert, Go, clientVars, argVars, history
  <2> QED
    BY Zenon, <2>1, <2>2
<1>5. ASSUME NEW p \in Procs, AddCloseDuplicate(p)
      PROVE  TypeOK'
  BY Zenon, <1>5, ReturnTypes DEF TypeOK, AddCloseDuplicate, CloseOf, poolVars, history
<1>6. ASSUME NEW p \in Procs, NEW a \in Addrs, Remove(p, a)
      PROVE  TypeOK'
  <2>1. Clients' \in [Addrs -> 0 .. MaxClients]
    BY <1>6, PoolAssumption DEF TypeOK, Remove
  <2>2. CASE Clients[a] # 0
    <3>1. pc' = [pc EXCEPT ![p] = "close"] /\ todo' = [todo EXCEPT ![p] = {Clients[a]}]
      BY Zenon, <1>6, <2>2 DEF Remove, Go
    <3>2. Clients[a] \in 1 .. MaxClients
      BY <2>2, PoolAssumption DEF TypeOK
    <3> QED
      BY Zenon, <1>6, <2>1, <3>1, <3>2 DEF TypeOK, Remove, clientVars, argVars, history
  <2>3. CASE Clients[a] = 0
    BY Zenon, <1>6, <2>1, <2>3 DEF TypeOK, Remove, Go, clientVars, argVars, history
  <2> QED
    BY Zenon, <2>2, <2>3
<1>7. ASSUME NEW p \in Procs, CloseSnapshot(p)
      PROVE  TypeOK'
  BY Zenon, <1>7, PooledType DEF TypeOK, CloseSnapshot, Go, poolVars, clientVars, argVars
<1>8. ASSUME NEW p \in Procs, CloseOne(p)
      PROVE  TypeOK'
  <2>1. CASE Return(p)
    BY Zenon, <1>8, <2>1, ReturnTypes DEF TypeOK, CloseOne, poolVars, history
  <2>2. CASE ~Return(p)
    <3>1. PICK c \in todo[p] : todo' = [todo EXCEPT ![p] = @ \ {c}] /\ UNCHANGED <<pc, argVars, client>>
                              /\ open' = open \ {c}
      BY Zenon, <1>8, <2>2 DEF CloseOne
    <3> QED
      BY Zenon, <1>8, <3>1 DEF TypeOK, CloseOne, poolVars, argVars, history
  <2> QED
    BY Zenon, <2>1, <2>2
<1>9. ASSUME NEW p \in Procs, NEW x \in Handlers, SetErrorHandler(p, x)
      PROVE  TypeOK'
  <2>1. {client[q] : q \in {q \in Procs : pc[q] = "insert"}} \subseteq 1 .. MaxClients
    BY PoolAssumption DEF TypeOK, OwnerInv, Held
  <2> QED
    BY Zenon, <1>9, <2>1 DEF TypeOK, SetErrorHandler, Go, poolVars, clientVars
<1>10. ASSUME NEW p \in Procs, HandlerSnapshot(p)
       PROVE  TypeOK'
  <2>1. CASE Return(p)
    BY Zenon, <1>10, <2>1, ReturnTypes DEF TypeOK, HandlerSnapshot, Go, poolVars, clientVars, argVars
  <2>2. CASE ~Return(p)
    BY Zenon, <1>10, <2>2, PooledType DEF TypeOK, HandlerSnapshot, Go, poolVars, clientVars, argVars
  <2> QED
    BY Zenon, <2>1, <2>2
<1>11. ASSUME NEW p \in Procs, InstallOne(p)
       PROVE  TypeOK'
  <2>1. CASE Return(p)
    BY Zenon, <1>11, <2>1, ReturnTypes DEF TypeOK, InstallOne, poolVars, clientVars, history
  <2>2. CASE ~Return(p)
    <3>1. PICK c \in todo[p] : todo' = [todo EXCEPT ![p] = @ \ {c}] /\ UNCHANGED <<pc, argVars, client>>
                              /\ handler' = [handler EXCEPT ![c] = h[p]]
      BY Zenon, <1>11, <2>2 DEF InstallOne
    <3> QED
      BY Zenon, <1>11, <3>1 DEF TypeOK, InstallOne, poolVars, clientVars, argVars, history
  <2> QED
    BY Zenon, <2>1, <2>2
<1>12. ASSUME NEW p \in Procs, SelectServer(p)
       PROVE  TypeOK'
  BY <1>12 DEF TypeOK, SelectServer, Keys, Go, clientVars, argVars, history
<1>13. ASSUME NEW p \in Procs, NEW a \in Addrs, Lookup(p, a)
       PROVE  TypeOK'
  BY Zenon, <1>13 DEF TypeOK, Lookup, Go, poolVars, clientVars, argVars, history
<1>14. ASSUME NEW p \in Procs, CallReturns(p)
       PROVE  TypeOK'
  BY Zenon, <1>14, ReturnTypes DEF TypeOK, CallReturns, poolVars, clientVars, history
<1>15. CASE UNCHANGED vars
  BY Zenon, <1>15 DEF TypeOK, vars
<1> QED
  BY Zenon, <1>1, <1>2, <1>3, <1>4, <1>5, <1>6, <1>7, <1>8, <1>9, <1>10, <1>11, <1>12, <1>13, <1>14,
     <1>15 DEF Next, Begin, Continue

-----------------------------------------------------------------------------
(* Every client keeps its one owner.                                       *)

(* A call returns, and no fresh client of another one is closed by that.   *)
LEMMA ReturnOwner ==
  ASSUME TypeOK, OwnerInv, NEW p \in Procs, Return(p), UNCHANGED <<Clients, made, swept>>,
         \A q \in Procs : q # p /\ Held(q) => client[q] \in open'
  PROVE  OwnerInv'
<1>1. /\ ~Held(p)' /\ pc'[p] = "idle" /\ todo'[p] = {}
      /\ \A q \in Procs : q # p => /\ pc'[q] = pc[q] /\ Held(q)' = Held(q)
                                   /\ client'[q] = client[q] /\ todo'[q] = todo[q]
                                   /\ addr'[q] = addr[q]
  BY Zenon DEF TypeOK, Return, Held
<1>2. Pooled' = Pooled
  BY Zenon DEF Pooled
<1> QED
  BY <1>1, <1>2 DEF OwnerInv

(* The owners stay who they are, and a goroutine that owns nothing moves   *)
(* between states in which it owns nothing; what it has snapshotted it may *)
(* close, unless it is pooled and unswept.                                 *)
LEMMA MoveOwner ==
  ASSUME TypeOK, OwnerInv, NEW p \in Procs, UNCHANGED <<Clients, made, addr>>,
         NEW l, pc' = [pc EXCEPT ![p] = l], ~Held(p), l \notin {"dial", "configure", "insert", "duplicate"},
         \A q \in Procs : q # p => client'[q] = client[q] /\ todo'[q] = todo[q],
         todo'[p] \subseteq todo[p] \cup Pooled,
         l = "close" => todo'[p] \cap Pooled \subseteq swept',
         swept \subseteq swept',
         \A q \in Procs : Held(q) => client[q] \in open'
  PROVE  OwnerInv'
<1>1. /\ ~Held(p)' /\ pc'[p] = l
      /\ \A q \in Procs : q # p => pc'[q] = pc[q] /\ Held(q)' = Held(q)
  BY Zenon DEF TypeOK, Held
<1>2. Pooled' = Pooled
  BY Zenon DEF Pooled
<1>3. \A q \in Procs : Held(q) => client[q] \notin todo'[p]
  BY Zenon DEF OwnerInv
<1>4. todo'[p] \subseteq 1 .. made
  BY Zenon DEF OwnerInv
<1> QED
  BY <1>1, <1>2, <1>3, <1>4 DEF OwnerInv

LEMMA OwnerStep ==
  ASSUME TypeOK, OwnerInv, [Next]_vars
  PROVE  OwnerInv'
<1>1. ASSUME NEW p \in Procs, NEW a \in Addrs, NEW r \in Rates, AddLook(p, a, r)
      PROVE  OwnerInv'
  <2>1. Pooled' = Pooled /\ \A q \in Procs : Held(q)' = Held(q)
    BY <1>1 DEF AddLook, Go, Pooled, Held, TypeOK
  <2>2. \A q \in Procs : pc'[q] = "dial" => addr'[q] \in Addrs
    BY ZenonT(30), <1>1 DEF AddLook, Go, OwnerInv, TypeOK
  <2>3. \A q \in Procs : Held(q) => addr'[q] = addr[q]
    BY Zenon, <1>1 DEF AddLook, Held, TypeOK
  <2>4. \A q \in Procs : pc'[q] = "close" => pc[q] = "close"
    BY Zenon, <1>1 DEF AddLook, Go, TypeOK
  <2> QED
    BY Zenon, <1>1, <2>1, <2>2, <2>3, <2>4 DEF OwnerInv, AddLook, clientVars, history
<1>2. ASSUME NEW p \in Procs, AddDial(p)
      PROVE  OwnerInv'
  <2>1. CASE Return(p) /\ UNCHANGED <<poolVars, mutex, errorHandler, clientVars, handler, history>>
    BY Zenon, <2>1, ReturnOwner DEF poolVars, clientVars, history, OwnerInv
  <2>2. CASE /\ made < MaxClients /\ Go(p, "dial", "configure")
             /\ made' = made + 1 /\ open' = open \cup {made + 1}
             /\ client' = [client EXCEPT ![p] = made + 1]
             /\ UNCHANGED <<poolVars, mutex, errorHandler, handler, argVars, todo, history>>
    <3>1. Pooled' = Pooled /\ made \in Nat /\ made' \in Nat /\ made + 1 \notin 1 .. made
      BY <2>2, PoolAssumption DEF poolVars, Pooled, TypeOK
    <3>2. /\ Held(p)' /\ client'[p] = made + 1 /\ pc[p] = "dial" /\ pc'[p] = "configure"
          /\ \A q \in Procs : q # p => /\ pc'[q] = pc[q] /\ client'[q] = client[q]
                                       /\ Held(q)' = Held(q)
      BY Zenon, <2>2 DEF Go, Held, TypeOK
    <3>3. \A q \in Procs : q # p /\ Held(q) => client[q] # made + 1
      BY Zenon, <3>1 DEF OwnerInv, TypeOK
    <3> QED
      BY <2>2, <3>1, <3>2, <3>3 DEF OwnerInv, TypeOK, poolVars, argVars, history
  <2> QED
    BY Zenon, <1>2, <2>1, <2>2 DEF AddDial
<1>3. ASSUME NEW p \in Procs, AddConfigure(p)
      PROVE  OwnerInv'
  <2>1. Pooled' = Pooled /\ (\A q \in Procs : Held(q)' = Held(q))
    BY <1>3 DEF AddConfigure, Go, poolVars, Pooled, Held, TypeOK
  <2>2. \A q \in Procs : pc'[q] \in {"dial", "close"} => pc'[q] = pc[q]
    BY Zenon, <1>3 DEF AddConfigure, Go, TypeOK
  <2> QED
    BY Zenon, <1>3, <2>1, <2>2 DEF OwnerInv, AddConfigure, poolVars, clientVars, argVars, history
<1>4. ASSUME NEW p \in Procs, AddInsert(p)
      PROVE  OwnerInv'
  <2>1. CASE Clients[addr[p]] # 0
    <3>1. /\ pc' = [pc EXCEPT ![p] = "duplicate"] /\ pc[p] = "insert"
          /\ UNCHANGED <<Clients, argVars, client, todo, clientVars, history>>
      BY Zenon, <1>4, <2>1 DEF AddInsert, Go
    <3>2. Pooled' = Pooled /\ (\A q \in Procs : Held(q)' = Held(q))
      BY <3>1 DEF Pooled, Held, TypeOK
    <3>3. \A q \in Procs : pc'[q] \in {"dial", "close"} => pc'[q] = pc[q]
      BY Zenon, <3>1 DEF TypeOK
    <3> QED
      BY Zenon, <3>1, <3>2, <3>3 DEF OwnerInv, clientVars, argVars, history
  <2>2. CASE Clients[addr[p]] = 0
    <3>1. /\ Clients' = [Clients EXCEPT ![addr[p]] = client[p]] /\ Return(p) /\ pc[p] = "insert"
          /\ UNCHANGED <<clientVars, history>>
      BY Zenon, <1>4, <2>2 DEF AddInsert, Go
    <3>2. Held(p) /\ addr[p] \in Addrs /\ client[p] \in open /\ client[p] \in 1 .. made
      BY Zenon, <3>1 DEF OwnerInv, Held, TypeOK
    <3>3. /\ ~Held(p)' /\ pc'[p] = "idle" /\ todo'[p] = {}
          /\ \A q \in Procs : q # p => /\ pc'[q] = pc[q] /\ Held(q)' = Held(q)
                                       /\ client'[q] = client[q] /\ todo'[q] = todo[q]
                                       /\ addr'[q] = addr[q]
      BY Zenon, <3>1 DEF TypeOK, Return, Held
    <3>4. Pooled' = Pooled \cup {client[p]}
      BY <2>2, <3>1, <3>2, PoolAssumption DEF Pooled, TypeOK
    <3>5. \A b, c \in Addrs : Clients'[b] = Clients'[c] /\ Clients'[b] # 0 => b = c
      BY <3>1, <3>2 DEF OwnerInv, Pooled, TypeOK
    <3>6. \A q \in Procs : Held(q)' => q # p /\ Held(q) /\ client'[q] = client[q] /\ client[q] # client[p]
      BY Zenon, <3>2, <3>3 DEF OwnerInv
    <3>7. \A q \in Procs : /\ todo'[q] \subseteq todo[q] /\ client[p] \notin todo'[q]
                           /\ (pc'[q] = "close" => pc[q] = "close")
                           /\ (pc'[q] = "dial" \/ Held(q)' => q # p /\ (pc[q] = "dial" \/ Held(q)))
      BY Zenon, <3>2, <3>3 DEF OwnerInv
    <3>8. \A q, r \in Procs : Held(q)' => client'[q] \notin todo'[r]
      BY <3>6, <3>7 DEF OwnerInv
    <3>9. UNCHANGED <<made, open, swept>>
      BY Zenon, <3>1 DEF clientVars, history
    <3>10. \A q \in Procs : Held(q)' => client'[q] \in open' \ Pooled'
      BY Zenon, <3>4, <3>6, <3>9 DEF OwnerInv
    <3>11. \A q \in Procs : pc'[q] = "close" => todo'[q] \cap Pooled' \subseteq swept'
      BY Zenon, <3>4, <3>7, <3>9 DEF OwnerInv
    <3>12. \A q \in Procs : pc'[q] = "dial" \/ Held(q)' => addr'[q] \in Addrs
      BY Zenon, <3>3 DEF OwnerInv
    <3>13. \A q, r \in Procs : Held(q)' /\ Held(r)' /\ client'[q] = client'[r] => q = r
      BY Zenon, <3>6 DEF OwnerInv
    <3>14. Pooled' \subseteq 1 .. made' /\ \A q \in Procs : todo'[q] \subseteq 1 .. made'
      BY Zenon, <3>2, <3>4, <3>7, <3>9 DEF OwnerInv
    <3> QED
      BY Zenon, <3>5, <3>8, <3>10, <3>11, <3>12, <3>13, <3>14 DEF OwnerInv
  <2> QED
    BY Zenon, <2>1, <2>2
<1>5. ASSUME NEW p \in Procs, AddCloseDuplicate(p)
      PROVE  OwnerInv'
  <2>1. \A q \in Procs : q # p /\ Held(q) => client[q] \in open'
    BY Zenon, <1>5 DEF AddCloseDuplicate, CloseOf, OwnerInv, Held
  <2> QED
    BY Zenon, <1>5, <2>1, ReturnOwner DEF AddCloseDuplicate, CloseOf, poolVars, history
<1>6. ASSUME NEW p \in Procs, NEW a \in Addrs, Remove(p, a)
      PROVE  OwnerInv'
  <2>1. CASE Clients[a] # 0
    <3>1. /\ pc[p] = "idle" /\ pc' = [pc EXCEPT ![p] = "close"]
          /\ todo' = [todo EXCEPT ![p] = {Clients[a]}] /\ Clients' = [Clients EXCEPT ![a] = 0]
          /\ UNCHANGED <<made, open, addr, client, swept>>
      BY Zenon, <1>6, <2>1 DEF Remove, Go, clientVars, argVars, history
    <3>2. Pooled' = Pooled \ {Clients[a]} /\ Clients[a] \in Pooled
      BY <2>1, <3>1 DEF Pooled, OwnerInv, TypeOK
    <3>3. \A b, c \in Addrs : Clients'[b] = Clients'[c] /\ Clients'[b] # 0 => b = c
      BY <3>1 DEF OwnerInv, TypeOK
    <3>4. /\ \A q \in Procs : Held(q)' = Held(q) /\ (Held(q) => q # p)
          /\ pc'[p] = "close" /\ todo'[p] = {Clients[a]}
          /\ \A q \in Procs : q # p => pc'[q] = pc[q] /\ todo'[q] = todo[q]
      BY <3>1 DEF Held, TypeOK
    <3>5. \A q \in Procs : todo'[q] \subseteq todo[q] \cup Pooled
      BY Zenon, <3>2, <3>4
    <3>6. \A q, r \in Procs : Held(q)' => client'[q] \notin todo'[r] /\ client'[q] \in open' \ Pooled'
      BY <3>1, <3>2, <3>4, <3>5 DEF OwnerInv
    <3>7. \A q \in Procs : pc'[q] = "close" => todo'[q] \cap Pooled' \subseteq swept'
      BY Zenon, <3>1, <3>2, <3>4 DEF OwnerInv
    <3>8. \A q \in Procs : pc'[q] = "dial" \/ Held(q)' => addr'[q] \in Addrs
      BY Zenon, <3>1, <3>4 DEF OwnerInv
    <3>9. \A q, r \in Procs : Held(q)' /\ Held(r)' /\ client'[q] = client'[r] => q = r
      BY Zenon, <3>1, <3>4 DEF OwnerInv
    <3>10. Pooled' \subseteq 1 .. made' /\ \A q \in Procs : todo'[q] \subseteq 1 .. made'
      BY Zenon, <3>1, <3>2, <3>5 DEF OwnerInv
    <3> QED
      BY Zenon, <3>3, <3>6, <3>7, <3>8, <3>9, <3>10 DEF OwnerInv
  <2>2. CASE Clients[a] = 0
    <3>1. UNCHANGED <<Clients, pc, todo, made, open, addr, client, swept>>
      BY Zenon, <1>6, <2>2 DEF Remove, TypeOK, clientVars, argVars, history
    <3> QED
      BY <3>1 DEF OwnerInv, Held, Pooled
  <2> QED
    BY Zenon, <2>1, <2>2
<1>7. ASSUME NEW p \in Procs, CloseSnapshot(p)
      PROVE  OwnerInv'
  <2>1. /\ pc' = [pc EXCEPT ![p] = "close"] /\ ~Held(p) /\ todo'[p] = Pooled /\ swept' = swept \cup Pooled
        /\ \A q \in Procs : q # p => todo'[q] = todo[q]
        /\ UNCHANGED <<Clients, made, addr, client, open>>
    BY Zenon, <1>7 DEF CloseSnapshot, Go, Held, TypeOK, poolVars, clientVars, argVars
  <2> QED
    BY Zenon, <2>1, MoveOwner DEF OwnerInv
<1>8. ASSUME NEW p \in Procs, CloseOne(p)
      PROVE  OwnerInv'
  <2>1. PICK c \in todo[p] :
          /\ open' = open \ {c}
          /\ IF todo[p] = {c} THEN Return(p)
             ELSE todo' = [todo EXCEPT ![p] = @ \ {c}] /\ UNCHANGED <<pc, argVars, client>>
    BY Zenon, <1>8 DEF CloseOne
  <2>2. \A q \in Procs : Held(q) => client[q] \in open'
    BY <2>1 DEF OwnerInv
  <2>3. UNCHANGED <<Clients, made, swept>> /\ pc[p] = "close"
    BY Zenon, <1>8 DEF CloseOne, poolVars, history
  <2>4. CASE Return(p)
    BY Zenon, <2>2, <2>3, <2>4, ReturnOwner
  <2>5. CASE todo' = [todo EXCEPT ![p] = @ \ {c}] /\ UNCHANGED <<pc, argVars, client>>
    <3>1. \A q \in Procs : todo'[q] \subseteq todo[q]
      BY Zenon, <2>5 DEF TypeOK
    <3>2. Pooled' = Pooled
      BY Zenon, <2>3 DEF Pooled
    <3> QED
      BY Zenon, <2>2, <2>3, <2>5, <3>1, <3>2 DEF OwnerInv, Held, argVars
  <2> QED
    BY Zenon, <2>1, <2>4, <2>5
<1>9. ASSUME NEW p \in Procs, NEW x \in Handlers, SetErrorHandler(p, x)
      PROVE  OwnerInv'
  <2>1. /\ pc' = [pc EXCEPT ![p] = "snapshot"] /\ ~Held(p)
        /\ UNCHANGED <<Clients, made, addr, client, todo, open, swept>>
    BY Zenon, <1>9 DEF SetErrorHandler, Go, Held, poolVars, clientVars
  <2> QED
    BY Zenon, <2>1, MoveOwner DEF OwnerInv
<1>10. ASSUME NEW p \in Procs, HandlerSnapshot(p)
       PROVE  OwnerInv'
  <2>1. UNCHANGED <<Clients, made, open, swept>> /\ pc[p] = "snapshot"
    BY Zenon, <1>10 DEF HandlerSnapshot, poolVars, clientVars
  <2>2. CASE Return(p)
    BY Zenon, <2>1, <2>2, ReturnOwner DEF OwnerInv
  <2>3. CASE ~Return(p)
    <3>1. /\ pc' = [pc EXCEPT ![p] = "install"] /\ ~Held(p) /\ todo'[p] = Pooled
          /\ \A q \in Procs : q # p => todo'[q] = todo[q]
          /\ UNCHANGED <<addr, client>>
      BY <1>10, <2>3 DEF HandlerSnapshot, Go, Held, TypeOK, argVars
    <3> QED
      BY ZenonT(30), <2>1, <3>1, MoveOwner DEF OwnerInv
  <2> QED
    BY Zenon, <2>2, <2>3
<1>11. ASSUME NEW p \in Procs, InstallOne(p)
       PROVE  OwnerInv'
  <2>1. UNCHANGED <<Clients, made, open, swept>> /\ pc[p] = "install"
    BY Zenon, <1>11 DEF InstallOne, poolVars, clientVars, history
  <2>2. CASE Return(p)
    BY Zenon, <2>1, <2>2, ReturnOwner DEF OwnerInv
  <2>3. CASE ~Return(p)
    <3>1. PICK c \in todo[p] :
            todo' = [todo EXCEPT ![p] = @ \ {c}] /\ UNCHANGED <<pc, argVars, client>>
      BY Zenon, <1>11, <2>3 DEF InstallOne
    <3>2. \A q \in Procs : todo'[q] \subseteq todo[q]
      BY Zenon, <3>1 DEF TypeOK
    <3>3. Pooled' = Pooled
      BY Zenon, <2>1 DEF Pooled
    <3> QED
      BY Zenon, <2>1, <3>1, <3>2, <3>3 DEF OwnerInv, Held, argVars
  <2> QED
    BY Zenon, <2>2, <2>3
<1>12. ASSUME NEW p \in Procs, SelectServer(p) \/ \E a \in Addrs : Lookup(p, a)
       PROVE  OwnerInv'
  <2>1. /\ pc' = [pc EXCEPT ![p] = "call"] /\ ~Held(p)
        /\ \A q \in Procs : q # p => client'[q] = client[q]
        /\ UNCHANGED <<Clients, made, addr, todo, open, swept>>
    BY <1>12 DEF SelectServer, Lookup, Go, Held, TypeOK, poolVars, clientVars, argVars, history
  <2> QED
    BY Zenon, <2>1, MoveOwner DEF OwnerInv
<1>13. ASSUME NEW p \in Procs, CallReturns(p)
       PROVE  OwnerInv'
  BY Zenon, <1>13, ReturnOwner DEF CallReturns, OwnerInv, poolVars, clientVars, history
<1>14. CASE UNCHANGED vars
  BY <1>14 DEF OwnerInv, Held, Pooled, vars
<1> QED
  BY Zenon, <1>1, <1>2, <1>3, <1>4, <1>5, <1>6, <1>7, <1>8, <1>9, <1>10, <1>11, <1>12, <1>13, <1>14
  DEF Next, Begin, Continue

-----------------------------------------------------------------------------
(* No client is leaked.                                                    *)

Owned(c) ==
  \/ c \in Pooled
  \/ \E p \in Procs : Held(p) /\ client[p] = c
  \/ \E p \in Procs : pc[p] = "close" /\ c \in todo[p]

LEMMA LeakAsOwned == NoClientLeak <=> \A c \in open : Owned(c)
BY Zenon DEF NoClientLeak, Owned, Held

(* A goroutine that owns nothing, before and after, takes nothing away.    *)
LEMMA OwnedFrame ==
  ASSUME TypeOK, NoClientLeak, NEW p \in Procs, UNCHANGED Clients, open' \subseteq open,
         pc[p] \notin {"configure", "insert", "duplicate", "close"},
         \A q \in Procs : q # p => /\ pc'[q] = pc[q] /\ client'[q] = client[q]
                                   /\ todo'[q] = todo[q]
  PROVE  NoClientLeak'
<1>1. Pooled' = Pooled
  BY Zenon DEF Pooled
<1>2. \A q \in Procs : Held(q) => Held(q)' /\ client'[q] = client[q]
  BY Zenon DEF Held
<1>3. \A q \in Procs : pc[q] = "close" => pc'[q] = "close" /\ todo'[q] = todo[q]
  OBVIOUS
<1>4. \A c \in open : Owned(c) => Owned(c)'
  BY Zenon, <1>1, <1>2, <1>3 DEF Owned
<1> QED
  BY <1>4, LeakAsOwned DEF NoClientLeak, Owned, Held

LEMMA LeakStep ==
  ASSUME TypeOK, OwnerInv, NoClientLeak, [Next]_vars
  PROVE  NoClientLeak'
<1>l. (\A c \in open' : Owned(c)') => NoClientLeak'
  BY Zenon DEF NoClientLeak, Owned, Held
<1>1. ASSUME NEW p \in Procs, NEW a \in Addrs, NEW r \in Rates, AddLook(p, a, r)
      PROVE  NoClientLeak'
  <2>1. \A q \in Procs : q # p => pc'[q] = pc[q]
    BY Zenon, <1>1 DEF AddLook, Go, TypeOK
  <2> QED
    BY Zenon, <1>1, <2>1, OwnedFrame DEF AddLook, clientVars
<1>2. ASSUME NEW p \in Procs, AddDial(p)
      PROVE  NoClientLeak'
  <2>1. CASE Return(p) /\ UNCHANGED <<poolVars, mutex, errorHandler, clientVars, handler, history>>
    <3>1. \A q \in Procs : q # p => pc'[q] = pc[q] /\ client'[q] = client[q] /\ todo'[q] = todo[q]
      BY Zenon, <2>1 DEF Return, TypeOK
    <3>2. pc[p] = "dial"
      BY Zenon, <1>2 DEF AddDial, Go
    <3> QED
      BY Zenon, <2>1, <3>1, <3>2, OwnedFrame DEF poolVars, clientVars
  <2>2. CASE /\ made < MaxClients /\ Go(p, "dial", "configure")
             /\ made' = made + 1 /\ open' = open \cup {made + 1}
             /\ client' = [client EXCEPT ![p] = made + 1]
             /\ UNCHANGED <<poolVars, mutex, errorHandler, handler, argVars, todo, history>>
    <3>1. /\ Pooled' = Pooled /\ todo' = todo /\ pc[p] = "dial" /\ Held(p)' /\ client'[p] = made + 1
          /\ \A q \in Procs : q # p => pc'[q] = pc[q] /\ client'[q] = client[q] /\ Held(q)' = Held(q)
      BY <2>2 DEF poolVars, Pooled, Go, Held, TypeOK
    <3>2. \A c \in open : Owned(c)'
      BY <3>1, LeakAsOwned DEF Owned, Held
    <3>3. \A c : c = client'[p] => Owned(c)'
      BY Zenon, <3>1 DEF Owned
    <3>4. \A c \in open' : c = client'[p] \/ c \in open
      BY Zenon, <2>2, <3>1
    <3> QED
      BY Zenon, <3>2, <3>3, <3>4, <1>l
  <2> QED
    BY Zenon, <1>2, <2>1, <2>2 DEF AddDial
<1>3. ASSUME NEW p \in Procs, AddConfigure(p)
      PROVE  NoClientLeak'
  <2>1. /\ Pooled' = Pooled /\ (\A q \in Procs : Held(q)' = Held(q))
        /\ UNCHANGED <<client, todo, open>>
        /\ \A q \in Procs : pc[q] = "close" => pc'[q] = "close"
    BY <1>3 DEF AddConfigure, Go, poolVars, clientVars, Pooled, Held, TypeOK
  <2> QED
    BY Zenon, <2>1, <1>l, LeakAsOwned DEF Owned
<1>4. ASSUME NEW p \in Procs, AddInsert(p)
      PROVE  NoClientLeak'
  <2>1. CASE Clients[addr[p]] # 0
    <3>1. /\ pc' = [pc EXCEPT ![p] = "duplicate"] /\ pc[p] = "insert"
          /\ UNCHANGED <<Clients, client, todo, open>>
      BY Zenon, <1>4, <2>1 DEF AddInsert, Go, clientVars
    <3>2. /\ Pooled' = Pooled /\ (\A q \in Procs : Held(q)' = Held(q))
          /\ \A q \in Procs : pc[q] = "close" => pc'[q] = "close"
      BY <3>1 DEF Pooled, Held, TypeOK
    <3> QED
      BY Zenon, <3>1, <3>2, <1>l, LeakAsOwned DEF Owned
  <2>2. CASE Clients[addr[p]] = 0
    <3>1. /\ Clients' = [Clients EXCEPT ![addr[p]] = client[p]] /\ Return(p) /\ pc[p] = "insert"
          /\ UNCHANGED open
      BY Zenon, <1>4, <2>2 DEF AddInsert, Go, clientVars
    <3>2. Held(p) /\ addr[p] \in Addrs /\ client[p] \in open /\ client[p] \in 1 .. made
      BY Zenon, <3>1 DEF OwnerInv, Held, TypeOK
    <3>3. \A q \in Procs : q # p => /\ pc'[q] = pc[q] /\ Held(q)' = Held(q)
                                    /\ client'[q] = client[q] /\ todo'[q] = todo[q]
      BY Zenon, <3>1 DEF TypeOK, Return, Held
    <3>4. Pooled' = Pooled \cup {client[p]}
      BY <2>2, <3>1, <3>2, PoolAssumption DEF Pooled, TypeOK
    <3>5. \A c \in open : Owned(c)'
      BY <3>1, <3>3, <3>4, LeakAsOwned DEF Owned
    <3> QED
      BY Zenon, <3>1, <3>5, <1>l
  <2> QED
    BY Zenon, <2>1, <2>2
<1>5. ASSUME NEW p \in Procs, AddCloseDuplicate(p)
      PROVE  NoClientLeak'
  <2>1. /\ open' = open \ {client[p]} /\ Pooled' = Pooled /\ pc[p] = "duplicate"
        /\ \A q \in Procs : q # p => /\ pc'[q] = pc[q] /\ Held(q)' = Held(q)
                                     /\ client'[q] = client[q] /\ todo'[q] = todo[q]
    BY <1>5 DEF AddCloseDuplicate, CloseOf, Return, poolVars, Pooled, Held, TypeOK
  <2>2. \A c \in open' : Owned(c)'
    BY <2>1, LeakAsOwned DEF Owned
  <2> QED
    BY Zenon, <2>2, <1>l
<1>6. ASSUME NEW p \in Procs, NEW a \in Addrs, Remove(p, a)
      PROVE  NoClientLeak'
  <2>1. CASE Clients[a] # 0
    <3>1. /\ pc[p] = "idle" /\ pc' = [pc EXCEPT ![p] = "close"]
          /\ todo' = [todo EXCEPT ![p] = {Clients[a]}] /\ Clients' = [Clients EXCEPT ![a] = 0]
          /\ UNCHANGED <<open, client>>
      BY Zenon, <1>6, <2>1 DEF Remove, Go, clientVars
    <3>2. Pooled \subseteq Pooled' \cup {Clients[a]}
      BY Zenon, <3>1 DEF Pooled, TypeOK
    <3>3. /\ \A q \in Procs : Held(q)' = Held(q)
          /\ pc'[p] = "close" /\ Clients[a] \in todo'[p]
          /\ \A q \in Procs : q # p => pc'[q] = pc[q] /\ todo'[q] = todo[q]
      BY <3>1 DEF Held, TypeOK
    <3>4. \A c \in open : Owned(c)'
      BY <3>1, <3>2, <3>3, LeakAsOwned DEF Owned
    <3> QED
      BY Zenon, <3>1, <3>4, <1>l
  <2>2. CASE Clients[a] = 0
    <3>1. UNCHANGED <<Clients, pc, todo, open, client>>
      BY Zenon, <1>6, <2>2 DEF Remove, TypeOK, clientVars
    <3> QED
      BY <3>1 DEF NoClientLeak, Pooled
  <2> QED
    BY Zenon, <2>1, <2>2
<1>7. ASSUME NEW p \in Procs, CloseSnapshot(p)
      PROVE  NoClientLeak'
  <2>1. /\ pc[p] = "idle" /\ UNCHANGED <<Clients, open, client>>
        /\ \A q \in Procs : q # p => pc'[q] = pc[q] /\ todo'[q] = todo[q]
    BY Zenon, <1>7 DEF CloseSnapshot, Go, TypeOK, poolVars, clientVars
  <2> QED
    BY Zenon, <2>1, OwnedFrame
<1>8. ASSUME NEW p \in Procs, CloseOne(p)
      PROVE  NoClientLeak'
  <2>1. PICK c \in todo[p] :
          /\ open' = open \ {c}
          /\ IF todo[p] = {c} THEN Return(p)
             ELSE todo' = [todo EXCEPT ![p] = @ \ {c}] /\ UNCHANGED <<pc, argVars, client>>
    BY Zenon, <1>8 DEF CloseOne
  <2>2. Pooled' = Pooled /\ pc[p] = "close"
    BY Zenon, <1>8 DEF CloseOne, poolVars, Pooled
  <2>3. /\ \A q \in Procs : q # p => /\ pc'[q] = pc[q] /\ Held(q)' = Held(q)
                                     /\ client'[q] = client[q] /\ todo'[q] = todo[q]
        /\ todo[p] # {c} => pc'[p] = "close" /\ todo'[p] = todo[p] \ {c}
    BY <2>1, <2>2 DEF Return, Held, TypeOK
  <2>4. ASSUME NEW d \in open' PROVE Owned(d)'
    <3>1. d \in open /\ d # c /\ Owned(d)
      BY Zenon, <2>1, <2>4, LeakAsOwned
    <3>2. CASE d \in todo[p]
      BY ZenonT(30), <2>3, <3>1, <3>2 DEF Owned
    <3>3. CASE d \notin todo[p]
      BY Zenon, <2>2, <2>3, <3>1, <3>3 DEF Owned, Held
    <3> QED
      BY Zenon, <3>2, <3>3
  <2> QED
    BY Zenon, <2>4, <1>l
<1>9. ASSUME NEW p \in Procs, NEW x \in Handlers, SetErrorHandler(p, x)
      PROVE  NoClientLeak'
  <2>1. /\ pc[p] = "idle" /\ UNCHANGED <<Clients, open, client, todo>>
        /\ \A q \in Procs : q # p => pc'[q] = pc[q]
    BY Zenon, <1>9 DEF SetErrorHandler, Go, TypeOK, poolVars, clientVars
  <2> QED
    BY Zenon, <2>1, OwnedFrame
<1>10. ASSUME NEW p \in Procs, HandlerSnapshot(p)
       PROVE  NoClientLeak'
  <2>1. /\ pc[p] = "snapshot" /\ UNCHANGED <<Clients, open>>
        /\ \A q \in Procs : q # p => pc'[q] = pc[q] /\ todo'[q] = todo[q] /\ client'[q] = client[q]
    BY <1>10 DEF HandlerSnapshot, Return, Go, TypeOK, poolVars, clientVars
  <2> QED
    BY Zenon, <2>1, OwnedFrame
<1>11. ASSUME NEW p \in Procs, InstallOne(p)
       PROVE  NoClientLeak'
  <2>1. PICK c \in todo[p] :
          IF todo[p] = {c} THEN Return(p)
          ELSE todo' = [todo EXCEPT ![p] = @ \ {c}] /\ UNCHANGED <<pc, argVars, client>>
    BY Zenon, <1>11 DEF InstallOne
  <2>2. \A q \in Procs : q # p => pc'[q] = pc[q] /\ todo'[q] = todo[q] /\ client'[q] = client[q]
    BY <2>1 DEF Return, TypeOK
  <2> QED
    BY Zenon, <1>11, <2>2, OwnedFrame DEF InstallOne, poolVars, clientVars
<1>12. ASSUME NEW p \in Procs, SelectServer(p) \/ \E a \in Addrs : Lookup(p, a)
       PROVE  NoClientLeak'
  <2>1. /\ pc[p] = "idle" /\ UNCHANGED <<Clients, open, todo>>
        /\ \A q \in Procs : q # p => pc'[q] = pc[q] /\ client'[q] = client[q]
    BY <1>12 DEF SelectServer, Lookup, Go, TypeOK, poolVars, clientVars
  <2> QED
    BY Zenon, <2>1, OwnedFrame
<1>13. ASSUME NEW p \in Procs, CallReturns(p)
       PROVE  NoClientLeak'
  <2>1. /\ pc[p] = "call" /\ UNCHANGED <<Clients, open>>
        /\ \A q \in Procs : q # p => pc'[q] = pc[q] /\ todo'[q] = todo[q] /\ client'[q] = client[q]
    BY Zenon, <1>13 DEF CallReturns, Return, TypeOK, poolVars, clientVars
  <2> QED
    BY Zenon, <2>1, OwnedFrame
<1>14. CASE UNCHANGED vars
  BY Zenon, <1>14 DEF NoClientLeak, Pooled, vars
<1> QED
  BY <1>1, <1>2, <1>3, <1>4, <1>5, <1>6, <1>7, <1>8, <1>9, <1>10, <1>11, <1>12, <1>13, <1>14
  DEF Next, Begin, Continue

-----------------------------------------------------------------------------
(* What is pooled is open, or swept.                                       *)

LEMMA PooledStep ==
  ASSUME TypeOK, OwnerInv, PooledOpen, [Next]_vars
  PROVE  PooledOpen'
<1>1. ASSUME NEW p \in Procs, NEW a \in Addrs, NEW r \in Rates, AddLook(p, a, r)
      PROVE  PooledOpen'
  BY <1>1 DEF AddLook, PooledOpen, Pooled, clientVars, history
<1>2. ASSUME NEW p \in Procs,
             AddDial(p) \/ AddConfigure(p) \/ CallReturns(p) \/ InstallOne(p) \/ HandlerSnapshot(p)
      PROVE  PooledOpen'
  <2>1. UNCHANGED <<Clients, swept>> /\ open \subseteq open'
    BY Zenon, <1>2 DEF AddDial, AddConfigure, CallReturns, InstallOne, HandlerSnapshot, poolVars,
                clientVars, history
  <2> QED
    BY Zenon, <2>1 DEF PooledOpen, Pooled
<1>3. ASSUME NEW p \in Procs, AddInsert(p)
      PROVE  PooledOpen'
  <2>1. UNCHANGED <<open, swept>> /\ pc[p] = "insert"
    BY ZenonT(30), <1>3 DEF AddInsert, clientVars, history
  <2>2. Clients' = Clients \/ Clients' = [Clients EXCEPT ![addr[p]] = client[p]]
    BY ZenonT(30), <1>3 DEF AddInsert
  <2>3. client[p] \in open
    BY Zenon, <2>1 DEF OwnerInv, Held
  <2>4. Pooled' \subseteq Pooled \cup {client[p]}
    BY <2>2 DEF Pooled, TypeOK
  <2> QED
    BY Zenon, <2>1, <2>3, <2>4 DEF PooledOpen
<1>4. ASSUME NEW p \in Procs, AddCloseDuplicate(p)
      PROVE  PooledOpen'
  <2>1. open' = open \ {client[p]} /\ UNCHANGED <<Clients, swept>> /\ Held(p)
    BY Zenon, <1>4 DEF AddCloseDuplicate, CloseOf, poolVars, history, Held
  <2> QED
    BY <2>1 DEF PooledOpen, Pooled, OwnerInv
<1>5. ASSUME NEW p \in Procs, NEW a \in Addrs, Remove(p, a)
      PROVE  PooledOpen'
  <2>1. Clients' = [Clients EXCEPT ![a] = 0] /\ UNCHANGED <<open, swept>>
    BY Zenon, <1>5 DEF Remove, clientVars, history
  <2>2. Pooled' \subseteq Pooled
    BY <2>1 DEF Pooled, TypeOK
  <2> QED
    BY Zenon, <2>1, <2>2 DEF PooledOpen
<1>6. ASSUME NEW p \in Procs, CloseSnapshot(p)
      PROVE  PooledOpen'
  BY Zenon, <1>6 DEF CloseSnapshot, PooledOpen, Pooled, poolVars, clientVars
<1>7. ASSUME NEW p \in Procs, CloseOne(p)
      PROVE  PooledOpen'
  <2>1. PICK c \in todo[p] : open' = open \ {c}
    BY Zenon, <1>7 DEF CloseOne
  <2>2. UNCHANGED <<Clients, swept>> /\ pc[p] = "close"
    BY Zenon, <1>7 DEF CloseOne, poolVars, history
  <2>3. Pooled' = Pooled
    BY Zenon, <2>2 DEF Pooled
  <2>4. c \in Pooled => c \in swept
    BY Zenon, <2>1, <2>2 DEF OwnerInv
  <2> QED
    BY Zenon, <2>1, <2>2, <2>3, <2>4 DEF PooledOpen
<1>8. ASSUME NEW p \in Procs,
             (\E x \in Handlers : SetErrorHandler(p, x)) \/ SelectServer(p)
               \/ \E a \in Addrs : Lookup(p, a)
      PROVE  PooledOpen'
  <2>1. UNCHANGED <<Clients, open, swept>>
    BY Zenon, <1>8 DEF SetErrorHandler, SelectServer, Lookup, poolVars, clientVars, history
  <2> QED
    BY Zenon, <2>1 DEF PooledOpen, Pooled
<1>9. CASE UNCHANGED vars
  BY Zenon, <1>9 DEF PooledOpen, Pooled, vars
<1> QED
  BY Zenon, <1>1, <1>2, <1>3, <1>4, <1>5, <1>6, <1>7, <1>8, <1>9 DEF Next, Begin, Continue

-----------------------------------------------------------------------------
(* The handler is on its way to every client, or there.                    *)

(* A step that sets no handler, and neither starts nor ends anything that  *)
(* the invariant is about.                                                 *)
LEMMA ReachFrame ==
  ASSUME TypeOK, ReachInv, UNCHANGED <<made, handler, errorHandler, missed, overlapped>>,
         Pooled' \subseteq Pooled,
         \A q \in Procs :
           \/ pc'[q] \notin {"configure", "insert", "snapshot", "install"}
                /\ pc[q] \notin {"snapshot", "install"}
           \/ pc'[q] = pc[q] /\ client'[q] = client[q] /\ h'[q] = h[q] /\ todo'[q] = todo[q]
  PROVE  ReachInv'
<1>1. \A q \in Procs : pc'[q] \in {"configure", "insert", "snapshot", "install"}
                         => pc'[q] = pc[q] /\ client'[q] = client[q] /\ h'[q] = h[q]
  OBVIOUS
<1>2. \A q \in Procs : pc[q] \in {"snapshot", "install"} => pc'[q] = pc[q] /\ todo'[q] = todo[q]
  BY Zenon
<1>3. ~overlapped => \A c \in Pooled' \ missed :
            \/ handler[c] = errorHandler
            \/ \E p \in Procs : pc'[p] = "snapshot" \/ (pc'[p] = "install" /\ c \in todo'[p])
  BY <1>2 DEF ReachInv
<1> QED
  BY <1>1, <1>3 DEF ReachInv

LEMMA ReachStep ==
  ASSUME TypeOK, OwnerInv, ReachInv, [Next]_vars
  PROVE  ReachInv'
<1>1. ASSUME NEW p \in Procs, NEW a \in Addrs, NEW r \in Rates, AddLook(p, a, r)
      PROVE  ReachInv'
  <2>1. UNCHANGED <<made, handler, errorHandler, missed, overlapped, client, h, todo>> /\ Pooled' = Pooled
    BY <1>1 DEF AddLook, clientVars, history, Pooled
  <2>2. \A q \in Procs : pc'[q] = pc[q] \/ (pc'[q] = "dial" /\ pc[q] = "idle")
    BY Zenon, <1>1 DEF AddLook, Go, TypeOK
  <2> QED
    BY Zenon, <2>1, <2>2, ReachFrame
<1>2. ASSUME NEW p \in Procs, AddDial(p)
      PROVE  ReachInv'
  <2>1. CASE Return(p) /\ UNCHANGED <<poolVars, mutex, errorHandler, clientVars, handler, history>>
    <3>1. pc[p] = "dial"
      BY Zenon, <1>2 DEF AddDial, Go
    <3>2. /\ pc'[p] = "idle"
          /\ \A q \in Procs : q # p => /\ pc'[q] = pc[q] /\ client'[q] = client[q]
                                       /\ h'[q] = h[q] /\ todo'[q] = todo[q]
      BY <2>1 DEF Return, TypeOK
    <3>3. UNCHANGED <<made, handler, errorHandler, missed, overlapped>> /\ Pooled' = Pooled
      BY Zenon, <2>1 DEF poolVars, clientVars, history, Pooled
    <3>4. \A q \in Procs :
           \/ pc'[q] \notin {"configure", "insert", "snapshot", "install"}
                /\ pc[q] \notin {"snapshot", "install"}
           \/ pc'[q] = pc[q] /\ client'[q] = client[q] /\ h'[q] = h[q] /\ todo'[q] = todo[q]
      BY ZenonT(30), <3>1, <3>2
    <3> QED
      BY Zenon, <3>3, <3>4, ReachFrame
  <2>2. CASE /\ made < MaxClients /\ Go(p, "dial", "configure")
             /\ made' = made + 1 /\ open' = open \cup {made + 1}
             /\ client' = [client EXCEPT ![p] = made + 1]
             /\ UNCHANGED <<poolVars, mutex, errorHandler, handler, argVars, todo, history>>
    <3>1. /\ UNCHANGED <<handler, errorHandler, missed, overlapped, h, todo>> /\ Pooled' = Pooled
          /\ made \in 0 .. MaxClients /\ made' = made + 1 /\ made < MaxClients
      BY <2>2 DEF poolVars, history, argVars, Pooled, TypeOK
    <3>2. /\ pc[p] = "dial" /\ pc'[p] = "configure" /\ client'[p] = made + 1
          /\ \A q \in Procs : q # p => pc'[q] = pc[q] /\ client'[q] = client[q]
      BY <2>2 DEF Go, TypeOK
    <3>3. handler'[client'[p]] = None
      BY <3>1, <3>2, PoolAssumption DEF ReachInv
    <3>4. \A c \in 1 .. MaxClients : c > made' => handler'[c] = None
      BY <3>1 DEF ReachInv
    <3>5. ~overlapped => \A c \in Pooled' \ missed' :
            \/ handler'[c] = errorHandler'
            \/ \E q \in Procs : pc'[q] = "snapshot" \/ (pc'[q] = "install" /\ c \in todo'[q])
      BY <3>1, <3>2 DEF ReachInv
    <3> QED
      BY <3>1, <3>2, <3>3, <3>4, <3>5 DEF ReachInv
  <2> QED
    BY Zenon, <1>2, <2>1, <2>2 DEF AddDial
<1>3. ASSUME NEW p \in Procs, AddConfigure(p)
      PROVE  ReachInv'
  <2>1. /\ UNCHANGED <<made, errorHandler, missed, overlapped, h, todo, client>> /\ Pooled' = Pooled
        /\ pc[p] = "configure" /\ pc'[p] = "insert"
        /\ \A q \in Procs : q # p => pc'[q] = pc[q]
    BY <1>3 DEF AddConfigure, Go, poolVars, clientVars, argVars, history, Pooled, TypeOK
  <2>2. client[p] \in 1 .. made /\ client[p] \in 1 .. MaxClients /\ client[p] \notin Pooled /\ Held(p)
    BY <2>1, PoolAssumption DEF OwnerInv, Held, TypeOK
  <2>3. /\ handler'[client[p]] = errorHandler
        /\ \A c : c # client[p] => handler'[c] = handler[c]
    <3>1. CASE errorHandler = None
      BY Zenon, <1>3, <2>1, <3>1 DEF AddConfigure, ReachInv
    <3>2. CASE errorHandler # None
      <4>1. handler' = [handler EXCEPT ![client[p]] = errorHandler]
        BY Zenon, <1>3, <3>2 DEF AddConfigure
      <4> QED
        BY <2>2, <4>1 DEF TypeOK
    <3> QED
      BY Zenon, <3>1, <3>2
  <2>4. \A q \in Procs : q # p /\ pc[q] \in {"configure", "insert"} => client[q] # client[p]
    BY Zenon, <2>2 DEF OwnerInv, Held
  <2>5. \A c \in 1 .. MaxClients : c > made => handler'[c] = None
    <3>1. \A c \in 1 .. MaxClients : c > made => c # client[p]
      BY <2>2, PoolAssumption DEF TypeOK
    <3> QED
      BY Zenon, <2>3, <3>1 DEF ReachInv
  <2>6. ~overlapped => \A c \in Pooled' \ missed' :
            \/ handler'[c] = errorHandler'
            \/ \E q \in Procs : pc'[q] = "snapshot" \/ (pc'[q] = "install" /\ c \in todo'[q])
    BY <2>1, <2>2, <2>3 DEF ReachInv
  <2>7. \A q \in Procs : pc'[q] = "configure" => handler'[client'[q]] = None
    BY <2>1, <2>3, <2>4 DEF ReachInv
  <2>8. ~overlapped => \A q \in Procs : pc'[q] = "insert" =>
                          client'[q] \in missed' \/ handler'[client'[q]] = errorHandler'
    BY <2>1, <2>3, <2>4 DEF ReachInv
  <2> QED
    BY Zenon, <2>1, <2>5, <2>6, <2>7, <2>8 DEF ReachInv
<1>4. ASSUME NEW p \in Procs, AddInsert(p)
      PROVE  ReachInv'
  <2>1. UNCHANGED <<made, handler, errorHandler, missed, overlapped>> /\ pc[p] = "insert"
    BY ZenonT(30), <1>4 DEF AddInsert, clientVars, history
  <2>2. CASE Clients[addr[p]] # 0
    <3>1. pc' = [pc EXCEPT ![p] = "duplicate"] /\ UNCHANGED <<client, todo, h, Clients>>
      BY Zenon, <1>4, <2>2 DEF AddInsert, Go, argVars
    <3>2. pc'[p] = "duplicate" /\ \A q \in Procs : q # p => pc'[q] = pc[q]
      BY Zenon, <3>1 DEF TypeOK
    <3> QED
      BY <2>1, <3>1, <3>2, ReachFrame DEF Pooled
  <2>3. CASE Clients[addr[p]] = 0
    <3>1. Clients' = [Clients EXCEPT ![addr[p]] = client[p]] /\ Return(p)
      BY Zenon, <1>4, <2>3 DEF AddInsert, Go
    <3>2. /\ pc'[p] = "idle"
          /\ \A q \in Procs : q # p => /\ pc'[q] = pc[q] /\ client'[q] = client[q]
                                       /\ h'[q] = h[q] /\ todo'[q] = todo[q]
      BY Zenon, <3>1 DEF Return, TypeOK
    <3>3. Pooled' \subseteq Pooled \cup {client[p]}
      BY <3>1 DEF Pooled, TypeOK
    <3>4. ~overlapped => client[p] \in missed \/ handler[client[p]] = errorHandler
      BY Zenon, <2>1 DEF ReachInv
    <3>5. ~overlapped => \A c \in Pooled \ missed :
            \/ handler[c] = errorHandler
            \/ \E q \in Procs : pc'[q] = "snapshot" \/ (pc'[q] = "install" /\ c \in todo'[q])
      BY <2>1, <3>2 DEF ReachInv
    <3>6. ~overlapped' => \A c \in Pooled' \ missed' :
            \/ handler'[c] = errorHandler'
            \/ \E q \in Procs : pc'[q] = "snapshot" \/ (pc'[q] = "install" /\ c \in todo'[q])
      BY Zenon, <2>1, <3>3, <3>4, <3>5
    <3> QED
      BY ZenonT(30), <2>1, <3>2, <3>6 DEF ReachInv
  <2> QED
    BY Zenon, <2>2, <2>3
<1>5. ASSUME NEW p \in Procs, AddCloseDuplicate(p) \/ CallReturns(p)
      PROVE  ReachInv'
  <2>1. /\ pc'[p] = "idle" /\ pc[p] \in {"duplicate", "call"}
        /\ \A q \in Procs : q # p => /\ pc'[q] = pc[q] /\ client'[q] = client[q]
                                     /\ h'[q] = h[q] /\ todo'[q] = todo[q]
    BY <1>5 DEF AddCloseDuplicate, CloseOf, CallReturns, Return, TypeOK
  <2>2. UNCHANGED <<made, handler, errorHandler, missed, overlapped>> /\ Pooled' = Pooled
    BY ZenonT(30), <1>5 DEF AddCloseDuplicate, CloseOf, CallReturns, poolVars, clientVars, history, Pooled
  <2>3. \A q \in Procs :
           \/ pc'[q] \notin {"configure", "insert", "snapshot", "install"}
                /\ pc[q] \notin {"snapshot", "install"}
           \/ pc'[q] = pc[q] /\ client'[q] = client[q] /\ h'[q] = h[q] /\ todo'[q] = todo[q]
    BY Zenon, <2>1
  <2> QED
    BY Zenon, <2>2, <2>3, ReachFrame
<1>6. ASSUME NEW p \in Procs, (\E a \in Addrs : Remove(p, a)) \/ CloseSnapshot(p)
      PROVE  ReachInv'
  <2>1. /\ pc[p] = "idle" /\ pc'[p] \in {"idle", "close"}
        /\ \A q \in Procs : q # p => /\ pc'[q] = pc[q] /\ client'[q] = client[q]
                                     /\ h'[q] = h[q] /\ todo'[q] = todo[q]
    BY <1>6 DEF Remove, CloseSnapshot, Go, argVars, TypeOK
  <2>2. UNCHANGED <<made, handler, errorHandler, missed, overlapped>>
    BY Zenon, <1>6 DEF Remove, CloseSnapshot, clientVars, history
  <2>3. Pooled' \subseteq Pooled
    BY <1>6 DEF Remove, CloseSnapshot, poolVars, Pooled, TypeOK
  <2>4. \A q \in Procs :
           \/ pc'[q] \notin {"configure", "insert", "snapshot", "install"}
                /\ pc[q] \notin {"snapshot", "install"}
           \/ pc'[q] = pc[q] /\ client'[q] = client[q] /\ h'[q] = h[q] /\ todo'[q] = todo[q]
    BY <2>1
  <2> QED
    BY <2>2, <2>3, <2>4, ReachFrame
<1>7. ASSUME NEW p \in Procs, CloseOne(p)
      PROVE  ReachInv'
  <2>1. PICK c \in todo[p] :
          IF todo[p] = {c} THEN Return(p)
          ELSE todo' = [todo EXCEPT ![p] = @ \ {c}] /\ UNCHANGED <<pc, argVars, client>>
    BY Zenon, <1>7 DEF CloseOne
  <2>2. /\ pc[p] = "close" /\ pc'[p] \in {"idle", "close"}
        /\ \A q \in Procs : q # p => /\ pc'[q] = pc[q] /\ client'[q] = client[q]
                                     /\ h'[q] = h[q] /\ todo'[q] = todo[q]
    BY <1>7, <2>1 DEF CloseOne, Return, argVars, TypeOK
  <2>3. UNCHANGED <<made, handler, errorHandler, missed, overlapped>> /\ Pooled' = Pooled
    BY Zenon, <1>7 DEF CloseOne, poolVars, history, Pooled
  <2>4. \A q \in Procs :
           \/ pc'[q] \notin {"configure", "insert", "snapshot", "install"}
                /\ pc[q] \notin {"snapshot", "install"}
           \/ pc'[q] = pc[q] /\ client'[q] = client[q] /\ h'[q] = h[q] /\ todo'[q] = todo[q]
    BY Zenon, <2>2
  <2> QED
    BY Zenon, <2>3, <2>4, ReachFrame
<1>8. ASSUME NEW p \in Procs, NEW x \in Handlers, SetErrorHandler(p, x)
      PROVE  ReachInv'
  <2>1. /\ pc'[p] = "snapshot" /\ h'[p] = x /\ errorHandler' = x
        /\ \A q \in Procs : q # p => pc'[q] = pc[q] /\ h'[q] = h[q]
        /\ UNCHANGED <<made, handler, client>>
    BY Zenon, <1>8 DEF SetErrorHandler, Go, TypeOK, clientVars
  <2>2. \A q \in Procs : pc'[q] = "insert" => client'[q] \in missed'
    BY Zenon, <1>8, <2>1 DEF SetErrorHandler
  <2>3. ~overlapped' => \A q \in Procs : pc'[q] \in {"snapshot", "install"} => h'[q] = errorHandler'
    BY Zenon, <1>8, <2>1 DEF SetErrorHandler
  <2> QED
    BY <2>1, <2>2, <2>3 DEF ReachInv
<1>9. ASSUME NEW p \in Procs, HandlerSnapshot(p)
      PROVE  ReachInv'
  <2>1. /\ UNCHANGED <<made, handler, errorHandler, overlapped>> /\ Pooled' = Pooled
        /\ missed' = missed \ Pooled /\ pc[p] = "snapshot"
    BY Zenon, <1>9 DEF HandlerSnapshot, poolVars, clientVars, Pooled
  <2>2. /\ \A q \in Procs : q # p => /\ pc'[q] = pc[q] /\ client'[q] = client[q]
                                     /\ h'[q] = h[q] /\ todo'[q] = todo[q]
        /\ pc'[p] = "install" => h'[p] = h[p]
        /\ pc'[p] \in {"install", "idle"}
    BY <1>9 DEF HandlerSnapshot, Return, Go, argVars, TypeOK
  <2>3. \A c \in Pooled : pc'[p] = "install" /\ c \in todo'[p]
    BY <1>9 DEF HandlerSnapshot, Return, Go, TypeOK
  <2>4. \A q \in Procs : pc[q] = "insert" => client[q] \notin Pooled
    BY Zenon DEF OwnerInv, Held
  <2> QED
    BY <2>1, <2>2, <2>3, <2>4 DEF ReachInv
<1>10. ASSUME NEW p \in Procs, InstallOne(p)
       PROVE  ReachInv'
  <2>1. PICK c \in todo[p] :
          /\ handler' = [handler EXCEPT ![c] = h[p]]
          /\ IF todo[p] = {c} THEN Return(p)
             ELSE todo' = [todo EXCEPT ![p] = @ \ {c}] /\ UNCHANGED <<pc, argVars, client>>
    BY Zenon, <1>10 DEF InstallOne
  <2>2. UNCHANGED <<made, errorHandler, missed, overlapped>> /\ Pooled' = Pooled /\ pc[p] = "install"
    BY <1>10 DEF InstallOne, poolVars, clientVars, history, Pooled
  <2>3. /\ \A q \in Procs : q # p => /\ pc'[q] = pc[q] /\ client'[q] = client[q]
                                     /\ h'[q] = h[q] /\ todo'[q] = todo[q]
        /\ pc'[p] = "idle" \/ (pc'[p] = "install" /\ h'[p] = h[p])
        /\ todo[p] # {c} => pc'[p] = "install" /\ todo'[p] = todo[p] \ {c}
    BY <2>1, <2>2 DEF Return, argVars, TypeOK
  <2>4. c \in 1 .. made /\ c \in 1 .. MaxClients
    BY <2>1 DEF OwnerInv, TypeOK
  <2>5. handler'[c] = h[p] /\ \A d : d # c => handler'[d] = handler[d]
    BY <2>1, <2>4 DEF TypeOK
  <2>6. \A q \in Procs : pc[q] \in {"configure", "insert"} => client[q] # c
    BY <2>1 DEF OwnerInv, Held
  <2>7. ASSUME ~overlapped, NEW d \in Pooled \ missed
        PROVE  \/ handler'[d] = errorHandler
               \/ \E q \in Procs : pc'[q] = "snapshot" \/ (pc'[q] = "install" /\ d \in todo'[q])
    <3>1. CASE d = c
      BY <2>2, <2>5, <2>7, <3>1 DEF ReachInv
    <3>2. CASE d # c
      <4>1. CASE handler[d] = errorHandler
        BY Zenon, <2>5, <3>2, <4>1
      <4>2. CASE \E q \in Procs : pc[q] = "snapshot" \/ (pc[q] = "install" /\ d \in todo[q])
        BY <2>2, <2>3, <3>2, <4>2
      <4> QED
        BY Zenon, <2>7, <4>1, <4>2 DEF ReachInv
    <3> QED
      BY Zenon, <3>1, <3>2
  <2>8. \A d \in 1 .. MaxClients : d > made => handler'[d] = None
    <3>1. \A d \in 1 .. MaxClients : d > made => d # c
      BY <2>4, PoolAssumption DEF TypeOK
    <3> QED
      BY Zenon, <2>5, <3>1 DEF ReachInv
  <2>9. \A q \in Procs : pc'[q] = "configure" => handler'[client'[q]] = None
    BY <2>3, <2>5, <2>6 DEF ReachInv
  <2>10. ~overlapped => \A q \in Procs : pc'[q] = "insert" =>
                          client'[q] \in missed \/ handler'[client'[q]] = errorHandler
    BY <2>3, <2>5, <2>6 DEF ReachInv
  <2>11. ~overlapped => \A q \in Procs : pc'[q] \in {"snapshot", "install"} => h'[q] = errorHandler
    BY <2>2, <2>3 DEF ReachInv
  <2> QED
    BY Zenon, <2>2, <2>7, <2>8, <2>9, <2>10, <2>11 DEF ReachInv
<1>11. ASSUME NEW p \in Procs, SelectServer(p) \/ \E a \in Addrs : Lookup(p, a)
       PROVE  ReachInv'
  <2>1. /\ pc[p] = "idle" /\ pc'[p] = "call"
        /\ UNCHANGED <<made, handler, errorHandler, missed, overlapped, h, todo>> /\ Pooled' = Pooled
        /\ \A q \in Procs : q # p => pc'[q] = pc[q] /\ client'[q] = client[q]
    BY <1>11 DEF SelectServer, Lookup, Go, TypeOK, poolVars, clientVars, argVars, history, Pooled
  <2> QED
    BY Zenon, <2>1, ReachFrame
<1>12. CASE UNCHANGED vars
  BY ZenonT(30), <1>12 DEF ReachInv, Pooled, vars
<1> QED
  BY Zenon, <1>1, <1>2, <1>3, <1>4, <1>5, <1>6, <1>7, <1>8, <1>9, <1>10, <1>11, <1>12
  DEF Next, Begin, Continue

-----------------------------------------------------------------------------
(* Selection.                                                              *)

(* A nonempty set of naturals has a least element.                         *)
LEMMA Least ==
  ASSUME NEW T \in SUBSET Nat, T # {}
  PROVE  \E m \in T : \A k \in T : m =< k
<1> DEFINE R == OpToRel(<, Nat)
<1>1. \A x, y \in Nat : x < y => <<x, y>> \in R
  BY DEF OpToRel
<1>2. IsWellFoundedOn(R, Nat)
  BY NatLessThanWellFounded, Zenon
<1> HIDE DEF R
<1>3. PICK m \in T : \A k \in T : ~(<<k, m>> \in R)
  BY <1>2, WFMin, Zenon
<1>4. \A k \in T : ~(k < m) /\ k \in Nat /\ m \in Nat
  BY <1>1, <1>3, Zenon
<1> QED
  BY <1>4

(* The totals of rates exist.                                              *)
Sums(f, r, n) == \A k \in 0 .. n : f[k] = IF k = 0 THEN 0 ELSE f[k - 1] + r[k]

LEMMA SumsExist ==
  ASSUME NEW n \in Nat, NEW r \in [1 .. n -> Int]
  PROVE  \E f \in [0 .. n -> Int] : Sums(f, r, n)
<1> DEFINE Good(j) == {f \in [0 .. j -> Int] : Sums(f, r, j)}
           T == {j \in 0 .. n : Good(j) = {}}
<1> SUFFICES ASSUME T # {} PROVE FALSE
  <2>1. n \in 0 .. n
    OBVIOUS
  <2> QED
    BY <2>1, Zenon
<1>1. T \in SUBSET Nat
  OBVIOUS
<1>2. PICK m \in T : \A k \in T : m =< k
  <2> HIDE DEF T
  <2> QED
    BY <1>1, Least, Zenon
<1>3. m \in 0 .. n /\ Good(m) = {}
  BY <1>2, Zenon
<1>4. m # 0
  <2>1. SUFFICES ASSUME m = 0 PROVE FALSE
    OBVIOUS
  <2> DEFINE z == [k \in 0 .. 0 |-> 0]
  <2>2. z \in [0 .. 0 -> Int] /\ Sums(z, r, 0)
    BY DEF Sums
  <2> QED
    BY <1>3, <2>1, <2>2, Zenon
<1>5. m - 1 \in 0 .. n /\ m \in 1 .. n /\ ~(m =< m - 1) /\ m \in Nat
  BY <1>3, <1>4
<1>6. PICK g \in [0 .. m - 1 -> Int] : Sums(g, r, m - 1)
  BY <1>2, <1>5, Zenon
<1> DEFINE f == [k \in 0 .. m |-> IF k = m THEN g[m - 1] + r[m] ELSE g[k]]
<1>7. f \in [0 .. m -> Int]
  <2>1. g[m - 1] + r[m] \in Int
    BY <1>5, <1>6
  <2>2. \A k \in 0 .. m : k # m => k \in 0 .. m - 1
    BY <1>5
  <2> QED
    BY <1>6, <2>1, <2>2
<1>8. ASSUME NEW k \in 0 .. m PROVE f[k] = IF k = 0 THEN 0 ELSE f[k - 1] + r[k]
  <2>1. CASE k = m
    <3>1. f[k] = g[m - 1] + r[m] /\ m - 1 \in 0 .. m /\ m - 1 # m
      BY <1>5, <2>1
    <3>2. f[m - 1] = g[m - 1]
      BY <3>1
    <3> QED
      BY <1>4, <2>1, <3>1, <3>2, Zenon
  <2>2. CASE k # m
    <3>1. k \in 0 .. m - 1 /\ f[k] = g[k]
      BY <1>5, <2>2
    <3>2. g[k] = IF k = 0 THEN 0 ELSE g[k - 1] + r[k]
      BY <1>6, <3>1, Zenon DEF Sums
    <3>3. k # 0 => k - 1 \in 0 .. m /\ k - 1 # m
      BY <1>5, <3>1
    <3>4. k # 0 => f[k - 1] = g[k - 1]
      BY <3>3
    <3> QED
      BY <3>1, <3>2, <3>4, Zenon
  <2> QED
    BY <2>1, <2>2
<1>9. Sums(f, r, m)
  BY <1>8, Zenon DEF Sums
<1> QED
  BY <1>3, <1>7, <1>9, Zenon

(* The keys of the map are as many as the clients in it, hence finite.     *)
LEMMA KeysFinite ==
  ASSUME TypeOK, OwnerInv
  PROVE  Cardinality(Keys) \in Nat
<1> DEFINE f == [a \in Keys |-> Clients[a]]
<1>1. MaxClients \in Nat /\ IsFiniteSet(1 .. MaxClients)
  BY FS_Interval, PoolAssumption
<1>2. \A a \in Keys : a \in Addrs /\ Clients[a] \in 1 .. MaxClients
  BY <1>1 DEF Keys, TypeOK
<1>3. f \in Injection(Keys, 1 .. MaxClients)
  BY <1>2 DEF OwnerInv, Keys, Injection, IsInjective
<1>4. IsFiniteSet(Keys)
  <2> HIDE DEF f
  <2> QED
    BY <1>1, <1>3, FS_Injection, Zenon
<1> QED
  BY <1>4, FS_CardinalityType, Zenon

(* What SelectWithRate adds up.                                            *)
LEMMA TotalStep ==
  ASSUME TypeOK, OwnerInv, NEW order \in Orders
  PROVE  \E n \in Nat : /\ DOMAIN order = 1 .. n /\ Total(order, 0) = 0
                        /\ \A k \in 1 .. n : /\ Total(order, k) = Total(order, k - 1) + RateOf(order, k)
                                             /\ RateOf(order, k) \in Int
<1> DEFINE n == Cardinality(Keys)
           r == [k \in 1 .. n |-> RateOf(order, k)]
           D == {0} \cup DOMAIN order
<1>1. n \in Nat
  BY KeysFinite, Zenon
<1>2. DOMAIN order = 1 .. n /\ \A k \in 1 .. n : order[k] \in Keys
  BY DEF Orders
<1>3. ASSUME NEW k \in 1 .. n PROVE RateOf(order, k) \in Int
  <2>1. order[k] \in Addrs /\ Clients[order[k]] \in 1 .. MaxClients
    BY <1>2, PoolAssumption DEF Keys, TypeOK
  <2>2. Rate[Clients[order[k]]] \in Rates \cup {0}
    BY <2>1, Zenon DEF TypeOK
  <2>3. Rates \cup {0} \subseteq Int
    BY PoolAssumption
  <2> QED
    BY <2>2, <2>3, Zenon DEF RateOf
<1>4. r \in [1 .. n -> Int]
  BY <1>3, Zenon
<1>5. D = 0 .. n /\ \A k \in 1 .. n : r[k] = RateOf(order, k)
  BY <1>1, <1>2
<1> HIDE DEF n, r
<1>6. PICK f \in [0 .. n -> Int] : Sums(f, r, n)
  BY <1>1, <1>4, SumsExist, Zenon
<1>7. f = [i \in D |-> IF i = 0 THEN 0 ELSE f[i - 1] + RateOf(order, i)]
  <2> SUFFICES ASSUME NEW i \in 0 .. n
               PROVE  f[i] = IF i = 0 THEN 0 ELSE f[i - 1] + RateOf(order, i)
    BY <1>5, <1>6, Zenon
  <2>1. f[i] = IF i = 0 THEN 0 ELSE f[i - 1] + r[i]
    BY <1>6, Zenon DEF Sums
  <2>2. i # 0 => i \in 1 .. n
    BY <1>1
  <2> QED
    BY <1>5, <2>1, <2>2, Zenon
<1>8. Totals(order) = [i \in D |-> IF i = 0 THEN 0 ELSE Totals(order)[i - 1] + RateOf(order, i)]
  BY <1>7, Zenon DEF Totals
<1>9. \A i \in 0 .. n : Total(order, i) = IF i = 0 THEN 0 ELSE Total(order, i - 1) + RateOf(order, i)
  <2> HIDE DEF D
  <2> QED
    BY <1>5, <1>8, Zenon DEF Total
<1>10. 0 \in 0 .. n /\ \A k \in 1 .. n : k \in 0 .. n /\ k # 0
  BY <1>1
<1>11. Total(order, 0) = 0 /\ \A k \in 1 .. n : Total(order, k) = Total(order, k - 1) + RateOf(order, k)
  BY <1>9, <1>10, Zenon
<1> QED
  BY <1>1, <1>2, <1>3, <1>11, Zenon

(* The least of a set that has one.                                        *)
LEMMA MinOf ==
  ASSUME NEW S \in SUBSET Nat, S # {}
  PROVE  Min(S) \in S /\ \A k \in S : Min(S) =< k
<1>1. PICK m \in S : \A k \in S : m =< k
  BY Least, Zenon
<1> QED
  BY <1>1, Zenon DEF Min

(* SelectWithRate is its reference.                                        *)
LEMMA Selection ==
  ASSUME TypeOK, OwnerInv
  PROVE  SelectionReference
<1> SUFFICES ASSUME NEW order \in Orders, \A i \in DOMAIN order : RateOf(order, i) >= 0
             PROVE  LET positive == {i \in DOMAIN order : RateOf(order, i) > 0}
                    IN SelectWithRate(order) = IF positive = {} THEN {last} ELSE {order[Min(positive)]}
  BY Zenon DEF SelectionReference
<1> DEFINE positive == {i \in DOMAIN order : RateOf(order, i) > 0}
<1>1. PICK n \in Nat : /\ DOMAIN order = 1 .. n /\ Total(order, 0) = 0
                       /\ \A k \in 1 .. n : /\ Total(order, k) = Total(order, k - 1) + RateOf(order, k)
                                            /\ RateOf(order, k) \in Int
  BY TotalStep, Zenon
<1>2. ASSUME NEW j \in 0 .. n, \A k \in 1 .. j : k \notin positive
      PROVE  Total(order, j) = 0
  <2> DEFINE T == {k \in 0 .. j : Total(order, k) # 0}
  <2> SUFFICES ASSUME T # {} PROVE FALSE
    <3>1. j \in 0 .. j
      OBVIOUS
    <3> QED
      BY <3>1, Zenon
  <2>1. T \in SUBSET Nat
    OBVIOUS
  <2>2. PICK m \in T : \A k \in T : m =< k
    <3> HIDE DEF T
    <3> QED
      BY <2>1, Least, Zenon
  <2>3. m \in 0 .. j /\ Total(order, m) # 0
    BY <2>2, Zenon
  <2>4. m # 0
    BY <1>1, <2>3, Zenon
  <2>5. m \in 1 .. n /\ m \in 1 .. j /\ m - 1 \in 0 .. j /\ ~(m =< m - 1)
    BY <2>3, <2>4
  <2>6. Total(order, m - 1) = 0
    BY <2>2, <2>5, Zenon
  <2>7. RateOf(order, m) \in Int /\ RateOf(order, m) >= 0 /\ ~(RateOf(order, m) > 0)
    BY <1>1, <1>2, <2>5, Zenon
  <2>8. \A x \in Int : x >= 0 /\ ~(x > 0) => x = 0 /\ 0 + x = 0
    OBVIOUS
  <2>9. Total(order, m) = 0 + RateOf(order, m)
    BY <1>1, <2>5, <2>6, Zenon
  <2> QED
    BY <2>3, <2>7, <2>8, <2>9, Zenon
<1>3. \A i \in DOMAIN order : Drawn(order, i) => i \in positive
  <2> SUFFICES ASSUME NEW i \in 1 .. n, Drawn(order, i) PROVE RateOf(order, i) > 0
    BY <1>1, Zenon
  <2>1. PICK x \in 0 .. Total(order, i) - 1 : x < RateOf(order, i)
    BY Zenon DEF Drawn
  <2>2. RateOf(order, i) \in Int
    BY <1>1, Zenon
  <2>3. \A y \in Int : x < y => y > 0
    BY <2>1
  <2> QED
    BY <2>1, <2>2, <2>3, Zenon
<1>4. CASE positive = {}
  <2>1. \A k \in DOMAIN order : Passed(order, k)
    <3> SUFFICES ASSUME NEW k \in 1 .. n PROVE Total(order, k) =< 0
      BY <1>1, Zenon DEF Passed
    <3>1. k \in 0 .. n /\ 0 =< 0
      BY <1>1
    <3>2. Total(order, k) = 0
      <4> HIDE DEF positive
      <4> QED
        BY <1>2, <1>4, <3>1, Zenon
    <3> QED
      BY <3>1, <3>2, Zenon
  <2>2. \A i \in DOMAIN order : ~Drawn(order, i)
    BY <1>3, <1>4, Zenon
  <2>3. SelectWithRate(order) = {last}
    BY <2>1, <2>2, Zenon DEF SelectWithRate
  <2> QED
    BY <1>4, <2>3, Zenon
<1>5. CASE positive # {}
  <2> DEFINE m == Min(positive)
  <2>1. positive \in SUBSET Nat
    BY <1>1
  <2>2. m \in positive /\ \A k \in positive : m =< k
    <3> HIDE DEF positive
    <3> QED
      BY <1>5, <2>1, MinOf, Zenon
  <2> HIDE DEF m
  <2>3. m \in 1 .. n /\ RateOf(order, m) > 0 /\ m \in DOMAIN order
    BY <1>1, <2>2, Zenon
  <2>4. m - 1 \in 0 .. n /\ \A k \in 1 .. m - 1 : k \in 0 .. n /\ k \in Nat /\ k < m /\ ~(m =< k)
    BY <2>3
  <2>5. \A k \in 1 .. m - 1 : k \notin positive
    BY <2>2, <2>4, Zenon
  <2>6. Total(order, m - 1) = 0
    <3> HIDE DEF positive
    <3> QED
      BY <1>2, <2>4, <2>5, Zenon
  <2>7. Total(order, m) = RateOf(order, m) /\ RateOf(order, m) \in Int
    <3>1. \A y \in Int : 0 + y = y
      OBVIOUS
    <3> QED
      BY <1>1, <2>3, <2>6, <3>1, Zenon
  <2>8. Drawn(order, m) /\ ~Passed(order, m)
    <3>1. \A y \in Int : y > 0 => 0 \in 0 .. y - 1 /\ 0 < y /\ ~(y =< 0) /\ \A x \in 0 .. y - 1 : ~(x >= y)
      OBVIOUS
    <3> QED
      BY <2>3, <2>7, <3>1, Zenon DEF Drawn, Passed
  <2>9. \A k \in 1 .. m - 1 : Passed(order, k)
    <3> TAKE k \in 1 .. m - 1
    <3>1. \A i \in 1 .. k : i \in 1 .. m - 1
      BY <2>3
    <3>2. Total(order, k) = 0
      <4> HIDE DEF positive
      <4> QED
        BY <1>2, <2>4, <2>5, <3>1, Zenon
    <3>3. 0 =< 0
      OBVIOUS
    <3> QED
      BY <3>2, <3>3, Zenon DEF Passed
  <2>10. ASSUME NEW i \in DOMAIN order, Drawn(order, i), \A k \in 1 .. i - 1 : Passed(order, k)
         PROVE  i = m
    <3>1. m =< i
      BY <1>3, <2>2, <2>10, Zenon
    <3>2. m \notin 1 .. i - 1
      BY <2>8, <2>10, Zenon
    <3>3. i \in 1 .. n
      BY <1>1, Zenon
    <3> QED
      BY <2>3, <3>1, <3>2, <3>3
  <2>11. {i \in DOMAIN order : Drawn(order, i) /\ \A k \in 1 .. i - 1 : Passed(order, k)} = {m}
    BY <2>3, <2>8, <2>9, <2>10, Zenon
  <2>12. ~(\A k \in DOMAIN order : Passed(order, k))
    BY <2>3, <2>8, Zenon
  <2>13. SelectWithRate(order) = {order[m]}
    <3>1. SelectWithRate(order)
            = {order[i] : i \in {i \in DOMAIN order : Drawn(order, i) /\ \A k \in 1 .. i - 1 : Passed(order, k)}}
                \cup {}
      BY <2>12, Zenon DEF SelectWithRate
    <3> QED
      BY <2>11, <3>1, Zenon
  <2> QED
    BY <1>5, <2>13, Zenon DEF m
<1> QED
  BY <1>4, <1>5, Zenon

-----------------------------------------------------------------------------
LEMMA Start == Init => TypeOK /\ OwnerInv /\ ReachInv /\ NoClientLeak /\ PooledOpen
<1> SUFFICES ASSUME Init PROVE TypeOK /\ OwnerInv /\ ReachInv /\ NoClientLeak /\ PooledOpen
  OBVIOUS
<1>1. Pooled = {}
  BY Zenon DEF Init, Pooled
<1>2. TypeOK
  <2>1. /\ 0 \in 0 .. MaxClients
        /\ Clients \in [Addrs -> 0 .. MaxClients] /\ made \in 0 .. MaxClients
        /\ client \in [Procs -> 0 .. MaxClients]
    BY PoolAssumption DEF Init
  <2>2. /\ Rate \in [1 .. MaxClients -> Rates \cup {0}]
        /\ handler \in [1 .. MaxClients -> Handlers \cup {None}]
        /\ todo \in [Procs -> SUBSET (1 .. MaxClients)] /\ rate \in [Procs -> Rates \cup {0}]
    BY Zenon DEF Init
  <2>3. /\ pc \in [Procs -> {"idle", "dial", "configure", "insert", "duplicate", "close",
                            "snapshot", "install", "call"}]
        /\ addr \in [Procs -> Addrs \cup {None}] /\ h \in [Procs -> Handlers \cup {None}]
    BY Zenon DEF Init
  <2> QED
    BY Zenon, <2>1, <2>2, <2>3 DEF Init, TypeOK
<1>3. \A p \in Procs : pc[p] = "idle" /\ todo[p] = {}
  BY Zenon DEF Init
<1>4. OwnerInv
  BY Zenon, <1>1, <1>3 DEF Init, OwnerInv, Held
<1>5. ReachInv
  BY Zenon, <1>1, <1>3 DEF Init, ReachInv
<1> QED
  BY Zenon, <1>1, <1>2, <1>4, <1>5 DEF Init, NoClientLeak, PooledOpen

(* The state of a Pool has its types, and every client one owner: in each  *)
(* interleaving of Add, Remove, Close, SetErrorHandler and the selecting    *)
(* calls, a client is in the map under one address, or belongs to the one  *)
(* Add that dialled it, and no Close or Remove holds an Add's.             *)
THEOREM PoolOwners == Spec => [](TypeOK /\ OwnerInv)
<1>1. Init => TypeOK /\ OwnerInv
  BY Zenon, Start
<1>2. TypeOK /\ OwnerInv /\ [Next]_vars => TypeOK' /\ OwnerInv'
  BY Zenon, TypeStep, OwnerStep
<1> QED
  BY <1>1, <1>2, PTL DEF Spec

(* TypeOK of every reachable state of the Pool.                            *)
THEOREM PoolTypes == Spec => []TypeOK
BY PoolOwners, PTL

(* The Pool leaks no client: one that is open is pooled, or an Add has yet *)
(* to insert or close it, or a Remove or Close is about to close it.       *)
THEOREM PoolKeepsClients == Spec => []NoClientLeak
<1>1. Init => NoClientLeak
  BY Zenon, Start
<1>2. TypeOK /\ OwnerInv /\ NoClientLeak /\ [Next]_vars => NoClientLeak'
  BY Zenon, LeakStep
<1> QED
  BY <1>1, <1>2, PoolOwners, PTL DEF Spec

(* A pooled client is open unless a Close has swept it: neither closing a  *)
(* duplicate nor Remove ever closes the client left in the map.            *)
THEOREM PoolHandsOutOpen == Spec => []PooledOpen
<1>1. Init => PooledOpen
  BY Zenon, Start
<1>2. TypeOK /\ OwnerInv /\ PooledOpen /\ [Next]_vars => PooledOpen'
  BY Zenon, PooledStep
<1> QED
  BY <1>1, <1>2, PoolOwners, PTL DEF Spec

(* SetErrorHandler reaches every pooled client that was not being added    *)
(* around it, as long as no two calls of it overlap.                       *)
THEOREM PoolHandlerReaches == Spec => []HandlerReaches
<1>1. Init => ReachInv
  BY Zenon, Start
<1>2. TypeOK /\ OwnerInv /\ ReachInv /\ [Next]_vars => ReachInv'
  BY Zenon, ReachStep
<1>3. ReachInv => HandlerReaches
  BY Zenon DEF ReachInv, HandlerReaches
<1> QED
  BY <1>1, <1>2, <1>3, PoolOwners, PTL DEF Spec

(* For every pool, rates that are not negative and every order of the map: *)
(* SelectWithRate returns the first key with a positive rate, or last when *)
(* there is none; its random draw never decides.                           *)
THEOREM SelectionIsReference == Spec => []SelectionReference
<1>1. TypeOK /\ OwnerInv => SelectionReference
  BY Zenon, Selection
<1> QED
  BY <1>1, PoolOwners, PTL
=============================================================================

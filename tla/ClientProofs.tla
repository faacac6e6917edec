---------------------------- MODULE ClientProofs ----------------------------
(***************************************************************************)
(* For every set of callers and every value of the bounds: the variables   *)
(* of Client keep their types, a Client keeps no socket it has lost sight  *)
(* of, and none once Close has returned, and a call leaves no handler      *)
(* behind.  OnlyHolderQueued is not inductive; HandlerInv, of which it is  *)
(* a part, is.                                                             *)
(***************************************************************************)
EXTENDS Client, SequenceTheorems, TLAPS

-----------------------------------------------------------------------------
(* The operations of a handlerSlot keep it a queue of entries.             *)

LEMMA SlotSetType ==
  ASSUME NEW q \in Seq(Entry), NEW id \in 0..MaxCalls, NEW ext \in BOOLEAN
  PROVE  SlotSet(q, id, ext) \in Seq(Entry)
<1>1. LiveEntry(id, ext) \in Entry
  BY Zenon DEF LiveEntry, Entry
<1>2. Len(q) >= HandlerSlotCap /\ ~q[1].internal => Tail(q) \in Seq(Entry)
  BY HandlerSlotCapAssumption
<1> QED
  BY <1>1, <1>2 DEF SlotSet

LEMMA SlotTakeFront ==
  ASSUME NEW q, NEW now, FirstUnexpired(q, now) # {}
  PROVE  \E i \in 1..Len(q) :
           SlotTaken(q, now) = q[i] /\ SlotTake(q, now) = SubSeq(q, i + 1, Len(q))
<1> DEFINE i == CHOOSE k \in FirstUnexpired(q, now) : TRUE
<1>1. i \in FirstUnexpired(q, now)
  OBVIOUS
<1>2. i \in 1..Len(q)
  BY Zenon, <1>1 DEF FirstUnexpired
<1>3. SlotTaken(q, now) = q[i] /\ SlotTake(q, now) = SubSeq(q, i + 1, Len(q))
  BY Zenon DEF SlotTaken, SlotTake
<1> QED
  BY Zenon, <1>2, <1>3

LEMMA SlotTakeType ==
  ASSUME NEW q \in Seq(Entry), NEW now
  PROVE  SlotTaken(q, now) \in Entry /\ SlotTake(q, now) \in Seq(Entry)
<1>1. CASE FirstUnexpired(q, now) = {}
  <2>1. NoEntry \in Entry
    BY ClientAssumption DEF NoEntry, Entry
  <2> QED
    BY <1>1, <2>1 DEF SlotTaken, SlotTake
<1>2. CASE FirstUnexpired(q, now) # {}
  <2>1. PICK i \in 1..Len(q) :
          SlotTaken(q, now) = q[i] /\ SlotTake(q, now) = SubSeq(q, i + 1, Len(q))
    BY Zenon, <1>2, SlotTakeFront
  <2>2. \A k \in (i + 1)..Len(q) : q[k] \in Entry
    OBVIOUS
  <2>3. SubSeq(q, i + 1, Len(q)) \in Seq(Entry)
    BY <2>2, SubSeqProperties
  <2> QED
    BY <2>1, <2>3
<1> QED
  BY Zenon, <1>1, <1>2

LEMMA SlotCancelType ==
  ASSUME NEW q \in Seq(Entry), NEW id
  PROVE  SlotCancel(q, id) \in Seq(Entry)
<1>1. CASE ~Queued(q, id)
  BY Zenon, <1>1 DEF SlotCancel
<1>2. CASE Queued(q, id)
  <2>1. IndexOf(q, id) \in 1..Len(q)
    BY Zenon, <1>2 DEF Queued, IndexOf
  <2> QED
    BY <1>2, <2>1 DEF SlotCancel
<1> QED
  BY Zenon, <1>1, <1>2

LEMMA SlotAbandonType ==
  ASSUME NEW q \in Seq(Entry), NEW id \in 0..MaxCalls
  PROVE  SlotAbandon(q, id, 1) \in Seq(Entry) /\ Len(SlotAbandon(q, id, 1)) = Len(q)
<1>1. CASE ~Queued(q, id)
  BY Zenon, <1>1 DEF SlotAbandon
<1>2. CASE Queued(q, id)
  <2>1. IndexOf(q, id) \in 1..Len(q)
    BY Zenon, <1>2 DEF Queued, IndexOf
  <2>2. [NoEntry EXCEPT !.id = id, !.expires = 1] \in Entry
    BY Zenon DEF NoEntry, Entry
  <2> QED
    BY <1>2, <2>1, <2>2 DEF SlotAbandon
<1> QED
  BY Zenon, <1>1, <1>2

(* On the queues a Client has, of at most one entry, they do the obvious.  *)
LEMMA SlotShort ==
  ASSUME NEW q \in Seq(Entry), Len(q) <= 1, NEW now \in {0, 1}, NEW id \in 0..MaxCalls
  PROVE  /\ SlotTake(q, now) = << >>
         /\ SlotTaken(q, now).internal => q # << >> /\ SlotTaken(q, now) = q[1]
         /\ q # << >> /\ q[1].id = id => SlotCancel(q, id) = << >>
         /\ q # << >> /\ q[1].id = id => SlotAbandon(q, id, 1)[1].id = id
         /\ q = << >> => SlotCancel(q, id) = << >> /\ SlotAbandon(q, id, 1) = << >>
<1>1. /\ SlotTake(q, now) = << >>
      /\ SlotTaken(q, now).internal => q # << >> /\ SlotTaken(q, now) = q[1]
  <2>1. CASE FirstUnexpired(q, now) = {}
    BY Zenon, <2>1 DEF SlotTaken, SlotTake, NoEntry
  <2>2. CASE FirstUnexpired(q, now) # {}
    <3>1. PICK i \in 1..Len(q) :
            SlotTaken(q, now) = q[i] /\ SlotTake(q, now) = SubSeq(q, i + 1, Len(q))
      BY Zenon, <2>2, SlotTakeFront
    <3>2. i = 1 /\ Len(q) = 1 /\ q # << >>
      OBVIOUS
    <3>3. SubSeq(q, i + 1, Len(q)) = << >>
      BY <3>2, SubSeqEmpty
    <3> QED
      BY Zenon, <3>1, <3>2, <3>3
  <2> QED
    BY Zenon, <2>1, <2>2
<1>2. q # << >> => Len(q) = 1
  OBVIOUS
<1>3. q # << >> /\ q[1].id = id => Queued(q, id) /\ IndexOf(q, id) = 1
  BY <1>2 DEF Queued, IndexOf
<1>4. q # << >> /\ q[1].id = id => SlotCancel(q, id) = << >>
  BY <1>2, <1>3 DEF SlotCancel
<1>5. q # << >> /\ q[1].id = id => SlotAbandon(q, id, 1)[1].id = id
  BY <1>2, <1>3 DEF SlotAbandon, NoEntry
<1>6. q = << >> => ~Queued(q, id)
  BY DEF Queued
<1> QED
  BY Zenon, <1>1, <1>4, <1>5, <1>6 DEF SlotCancel, SlotAbandon

-----------------------------------------------------------------------------
(* Packets and requests are what they should be.                           *)

LEMMA PacketTypes ==
  /\ NoPacket \in Packet
  /\ \A n \in 0..MaxConn : Marker(n) \in Packet
  /\ \A p \in Packet :
       /\ p.conn \in 0..MaxConn /\ p.req \in 0..MaxCalls
       /\ p.type = "status_res" => p.arg \in StatusHandles /\ p.req \in Calls
       /\ p.type \in {"job_created", "echo_res", "work_data", "work_done"} => p.req \in Calls
<1>1. NoPacket \in Packet
  BY ClientAssumption DEF Packet, NoPacket, Args
<1>2. \A n \in 0..MaxConn : Marker(n) \in Packet
  BY ClientAssumption DEF Packet, Marker, Args
<1>3. ASSUME NEW p \in Packet
      PROVE  /\ p.conn \in 0..MaxConn /\ p.req \in 0..MaxCalls
             /\ p.type = "status_res" => p.arg \in StatusHandles /\ p.req \in Calls
             /\ p.type \in {"job_created", "echo_res", "work_data", "work_done"} => p.req \in Calls
  BY ClientAssumption DEF Packet, Calls
<1> QED
  BY Zenon, <1>1, <1>2, <1>3

LEMMA RequestTypes ==
  /\ OptionReq \in Request
  /\ \A k \in Kinds, i \in Calls :
       \A h \in (IF k = "status" THEN StatusHandles ELSE {NoHandle}) :
         [kind |-> k, id |-> i, arg |-> h] \in Request
BY Zenon, ClientAssumption DEF OptionReq, Request

LEMMA AnswerTypes ==
  ASSUME NEW q \in Request, nconn \in 1..MaxConn,
         NEW t \in {Reply(q.kind), "error", "malformed"}
  PROVE  /\ FromServer(t, q.id, q.arg) \in Packet
         /\ t = "job_created" => q.id \in Calls
<1>1. q.kind = "option" => t \in {"option_res", "error", "malformed"}
  BY Zenon DEF Reply
<1>2. q.kind = "status" => t \in {"status_res", "error", "malformed"}
  BY Zenon DEF Reply
<1>3. q.kind \in Kinds \ {"status"} => t \in {"job_created", "echo_res", "error", "malformed"}
  BY Zenon, ClientAssumption DEF Reply
<1>4. CASE q \in [kind : {"option"}, id : {0}, arg : {NoHandle}]
  BY <1>4, <1>1, ClientAssumption DEF FromServer, Packet, Args
<1>5. CASE q \in [kind : Kinds \ {"status"}, id : Calls, arg : {NoHandle}]
  BY <1>5, <1>3, ClientAssumption DEF FromServer, Packet, Args, Calls
<1>6. CASE q \in [kind : Kinds \cap {"status"}, id : Calls, arg : StatusHandles]
  BY <1>6, <1>2, ClientAssumption DEF FromServer, Packet, Args, Calls
<1> QED
  BY Zenon, <1>4, <1>5, <1>6 DEF Request

LEMMA ReportTypes ==
  ASSUME nconn \in 1..MaxConn, NEW j \in Calls, NEW t \in {"work_data", "work_done"}
  PROVE  FromServer(t, j, NoHandle) \in Packet
BY Zenon, ClientAssumption DEF FromServer, Packet

-----------------------------------------------------------------------------
(* Type correctness, one step per action.  An action keeps the type of the *)
(* variables it does not touch; these lemmas say so once.                  *)

LEMMA TypeInit == Init => TypeOK
<1> SUFFICES ASSUME Init PROVE TypeOK
  OBVIOUS
<1>1. NoEntry \in Entry
  BY ClientAssumption DEF NoEntry, Entry
<1>2. Marker(1) \in Packet /\ NoPacket \in Packet /\ OptionReq \in Request
  BY PacketTypes, RequestTypes, ClientAssumption
<1>3. ConnTypes /\ SlotTypes
  BY ClientAssumption DEF Init, ConnTypes, SlotTypes
<1>4. CallerTypes /\ CallTypes
  BY ClientAssumption DEF Init, CallerTypes, CallTypes, Args
<1>5. ReaderTypes
  <2>1. /\ rpc = "loop" /\ rrw = 0 /\ rresp = NoPacket
        /\ in = <<Marker(1)>> \/ in = << >>
    BY Zenon DEF Init
  <2>2. <<Marker(1)>> \in Seq(Packet) /\ Len(<<Marker(1)>>) = 1
    BY <1>2
  <2>3. in \in Seq(Packet) /\ Len(in) <= QueueSize
    <3>1. CASE in = <<Marker(1)>>
      BY <3>1, <2>2, ClientAssumption
    <3>2. CASE in = << >>
      BY <3>2, ClientAssumption
    <3> QED
      BY Zenon, <2>1, <3>1, <3>2
  <2> QED
    BY <1>2, <2>1, <2>3, ClientAssumption DEF ReaderTypes
<1>6. ProcTypes
  <2>1. ppc = "recv" /\ presp = NoPacket /\ ph = NoEntry
    BY Zenon DEF Init
  <2>2. optionPending \in BOOLEAN /\ crossed \in BOOLEAN
    BY Zenon DEF Init
  <2>3. rhandlers \in [Calls -> 0..MaxCalls] /\ lastMarker \in 0..MaxConn
    BY ClientAssumption DEF Init
  <2> QED
    BY Zenon, <1>1, <1>2, <2>1, <2>2, <2>3 DEF ProcTypes
<1>7. ServerTypes
  <2>1. dropped \in BOOLEAN /\ acked \in BOOLEAN
    BY Zenon DEF Init
  <2>2. reqs \in Seq(Request) /\ wire \in Seq(Packet) /\ jobs \subseteq Calls
    BY <1>2 DEF Init
  <2> QED
    BY Zenon, <2>1, <2>2 DEF ServerTypes
<1> QED
  BY Zenon, <1>3, <1>4, <1>5, <1>6, <1>7 DEF TypeOK

LEMMA TypeFrame ==
  ASSUME TypeOK
  PROVE  /\ UNCHANGED <<connVars, excState>> => ConnTypes'
         /\ UNCHANGED slotVars => SlotTypes'
         /\ UNCHANGED callerVars => CallerTypes' /\ CallTypes'
         /\ UNCHANGED <<readerVars, in>> => ReaderTypes'
         /\ UNCHANGED procVars => ProcTypes'
         /\ UNCHANGED serverVars => ServerTypes'
<1>1. UNCHANGED <<connVars, excState>> => ConnTypes'
  BY Zenon DEF TypeOK, ConnTypes, connVars
<1>2. UNCHANGED slotVars => SlotTypes'
  BY Zenon DEF TypeOK, SlotTypes, slotVars
<1>3. UNCHANGED callerVars => CallerTypes' /\ CallTypes'
  BY Zenon DEF TypeOK, CallerTypes, CallTypes, callerVars
<1>4. UNCHANGED <<readerVars, in>> => ReaderTypes'
  BY Zenon DEF TypeOK, ReaderTypes, readerVars
<1>5. UNCHANGED procVars => ProcTypes'
  BY Zenon DEF TypeOK, ProcTypes, procVars
<1>6. UNCHANGED serverVars => ServerTypes'
  BY Zenon DEF TypeOK, ServerTypes, serverVars
<1> QED
  BY Zenon, <1>1, <1>2, <1>3, <1>4, <1>5, <1>6

(* What the actions of a caller have in common.                            *)
LEMMA CancelType ==
  ASSUME TypeOK, NEW c \in Callers, pc[c] # "idle", cancel(c)
  PROVE  SlotTypes'
<1>1. created' \in Seq(Entry) /\ echo' \in Seq(Entry)
  BY Zenon, SlotCancelType DEF TypeOK, SlotTypes, cancel
<1>2. status' \in [StatusHandles -> 0..MaxCalls]
  <2>1. status' = status \/ status' = [status EXCEPT ![carg[c]] = 0]
    BY Zenon DEF cancel
  <2>2. status \in [StatusHandles -> 0..MaxCalls]
    BY Zenon DEF TypeOK, SlotTypes
  <2>3. 0 \in 0..MaxCalls
    BY ClientAssumption
  <2> QED
    BY Zenon, <2>1, <2>2, <2>3
<1> QED
  BY Zenon, <1>1, <1>2 DEF SlotTypes

LEMMA ReturnType ==
  ASSUME TypeOK, NEW c \in Callers, Return(c)
  PROVE  CallerTypes' /\ CallTypes'
<1>1. CallerTypes'
  BY ClientAssumption DEF TypeOK, CallerTypes, Return, Args
<1>2. CallTypes'
  BY Zenon DEF TypeOK, CallerTypes, CallTypes, Return
<1> QED
  BY Zenon, <1>1, <1>2

LEMMA closeConnType ==
  ASSUME TypeOK, closeConn
  PROVE  /\ conn' \in 0..MaxConn /\ open' \subseteq 1..MaxConn
         /\ created' \in Seq(Entry) /\ echo' \in Seq(Entry)
<1>1. CASE UNCHANGED <<conn, open, created, echo>>
  BY Zenon, <1>1 DEF TypeOK, ConnTypes, SlotTypes
<1>2. CASE conn' = 0 /\ open' = open \ {conn} /\ created' = << >> /\ echo' = << >>
  BY <1>2, ClientAssumption DEF TypeOK, ConnTypes
<1> QED
  BY Zenon, <1>1, <1>2 DEF closeConn, SlotReset

LEMMA CallerType ==
  ASSUME TypeOK, NEW c \in Callers, Caller(c)
  PROVE  TypeOK'
<1>1. ASSUME NEW k \in Kinds, NEW h \in Args, Call(c, k, h)
      PROVE  TypeOK'
  <2>1. CallerTypes'
    BY <1>1, ClientAssumption DEF Call, TypeOK, CallerTypes
  <2>2. CallTypes'
    BY <1>1, ClientAssumption DEF Call, TypeOK, CallerTypes, CallTypes, Calls
  <2> QED
    BY Zenon, <1>1, <2>1, <2>2, TypeFrame DEF Call, TypeOK
<1>2. CASE Lock(c)
  <2>1. CallerTypes' /\ CallTypes'
    BY Zenon, <1>2 DEF Lock, TypeOK, CallerTypes, CallTypes
  <2> QED
    BY Zenon, <1>2, <2>1, TypeFrame DEF Lock, TypeOK
<1>3. CASE SetHandler(c)
  <2>1. cid[c] \in 0..MaxCalls /\ (ckind[c] = "do") \in BOOLEAN
    BY Zenon DEF TypeOK, CallerTypes
  <2>2. created' \in Seq(Entry) /\ echo' \in Seq(Entry)
    BY Zenon, <1>3, <2>1, SlotSetType DEF SetHandler, TypeOK, SlotTypes
  <2>3. status' \in [StatusHandles -> 0..MaxCalls]
    <3>1. status' = status \/ status' = [status EXCEPT ![carg[c]] = cid[c]]
      BY Zenon, <1>3 DEF SetHandler
    <3> QED
      BY Zenon, <2>1, <3>1 DEF TypeOK, SlotTypes
  <2>4. CallerTypes' /\ CallTypes'
    BY Zenon, <1>3 DEF SetHandler, TypeOK, CallerTypes, CallTypes
  <2>5. SlotTypes'
    BY Zenon, <2>2, <2>3 DEF SlotTypes
  <2> QED
    BY Zenon, <1>3, <2>4, <2>5, TypeFrame DEF SetHandler, TypeOK
<1>4. CASE Write(c)
  <2>1. SlotTypes' /\ CallerTypes' /\ CallTypes'
    <3>1. CASE conn # 0
      <4>1. UNCHANGED slotVars
        BY Zenon, <1>4, <3>1 DEF Write
      <4>2. CallerTypes' /\ CallTypes'
        BY <1>4, <3>1 DEF Write, ReturnLocals, TypeOK, ConnTypes, CallerTypes, CallTypes
      <4> QED
        BY Zenon, <4>1, <4>2, TypeFrame
    <3>2. CASE conn = 0
      BY Zenon, <1>4, <3>2, CancelType, ReturnType DEF Write
    <3> QED
      BY Zenon, <3>1, <3>2
  <2> QED
    BY Zenon, <1>4, <2>1, TypeFrame DEF Write, TypeOK
<1>5. CASE WriteTo(c)
  <2>1. CASE cancel(c) /\ Return(c) /\ UNCHANGED reqs
    BY Zenon, <1>5, <2>1, CancelType, ReturnType, TypeFrame DEF WriteTo, TypeOK, serverVars
  <2>2. CASE pc' = [pc EXCEPT ![c] = "wait"] /\ UNCHANGED <<slotVars, ReturnLocals, crw>>
             /\ reqs' = Append(reqs, [kind |-> ckind[c], id |-> cid[c], arg |-> carg[c]])
    <3>1. pc[c] # "idle"
      BY Zenon, <1>5 DEF WriteTo
    <3>2. [kind |-> ckind[c], id |-> cid[c], arg |-> carg[c]] \in Request
      BY Zenon, <3>1, RequestTypes DEF TypeOK, CallTypes
    <3>3. ServerTypes'
      <4>1. ServerTypes
        BY Zenon DEF TypeOK
      <4>2. reqs' \in Seq(Request)
        BY <2>2, <3>2, <4>1 DEF ServerTypes
      <4>3. UNCHANGED <<wire, jobs, dropped, acked>>
        BY Zenon, <1>5 DEF WriteTo
      <4> QED
        BY Zenon, <4>1, <4>2, <4>3 DEF ServerTypes
    <3>4. CallerTypes'
      <4>1. CallerTypes
        BY Zenon DEF TypeOK
      <4>2. pc' \in [Callers -> {"idle", "lock", "set", "write", "writeTo", "wait", "close"}]
        BY Zenon, <2>2, <4>1 DEF CallerTypes
      <4>3. UNCHANGED <<mutex, ncalls, cid, ckind, carg, crw, cres>>
        BY Zenon, <2>2 DEF ReturnLocals
      <4> QED
        BY Zenon, <4>1, <4>2, <4>3 DEF CallerTypes
    <3>5. CallTypes'
      BY Zenon, <2>2, <3>1 DEF ReturnLocals, TypeOK, CallerTypes, CallTypes
    <3> QED
      BY Zenon, <1>5, <2>2, <3>3, <3>4, <3>5, TypeFrame DEF WriteTo, TypeOK
  <2> QED
    BY Zenon, <1>5, <2>1, <2>2 DEF WriteTo
<1>6. CASE Receive(c)
  BY Zenon, <1>6, ReturnType, TypeFrame DEF Receive, TypeOK
<1>7. CASE Timeout(c)
  <2>1. SlotTypes' /\ CallerTypes' /\ CallTypes'
    <3>1. CASE ckind[c] = "status"
      BY Zenon, <1>7, <3>1, CancelType, ReturnType DEF Timeout
    <3>2. CASE ckind[c] # "status"
      <4>1. cid[c] \in 0..MaxCalls
        BY Zenon DEF TypeOK, CallerTypes
      <4>2. SlotTypes'
        BY Zenon, <1>7, <3>2, <4>1, SlotAbandonType DEF Timeout, TypeOK, SlotTypes
      <4>3. CallerTypes' /\ CallTypes'
        BY Zenon, <1>7, <3>2 DEF Timeout, ReturnLocals, TypeOK, CallerTypes, CallTypes
      <4> QED
        BY Zenon, <4>2, <4>3
    <3> QED
      BY Zenon, <3>1, <3>2
  <2> QED
    BY Zenon, <1>7, <2>1, TypeFrame DEF Timeout, TypeOK
<1>8. CASE CloseConn(c)
  <2>1. ConnTypes' /\ SlotTypes'
    BY Zenon, <1>8, closeConnType DEF CloseConn, TypeOK, ConnTypes, SlotTypes
  <2>2. CallerTypes' /\ CallTypes'
    BY Zenon, <1>8, ReturnType DEF CloseConn
  <2> QED
    BY Zenon, <1>8, <2>1, <2>2, TypeFrame DEF CloseConn, TypeOK
<1> QED
  BY Zenon, <1>1, <1>2, <1>3, <1>4, <1>5, <1>6, <1>7, <1>8 DEF Caller

LEMMA CloseType ==
  ASSUME TypeOK, SetClosed \/ FinishClose
  PROVE  TypeOK'
<1>1. CASE SetClosed
  <2>1. ConnTypes'
    BY Zenon, <1>1 DEF SetClosed, TypeOK, ConnTypes
  <2> QED
    BY Zenon, <1>1, <2>1, TypeFrame DEF SetClosed, TypeOK
<1>2. CASE FinishClose
  <2>1. ConnTypes' /\ SlotTypes'
    BY Zenon, <1>2, closeConnType DEF FinishClose, TypeOK, ConnTypes, SlotTypes
  <2> QED
    BY Zenon, <1>2, <2>1, TypeFrame DEF FinishClose, TypeOK
<1> QED
  BY Zenon, <1>1, <1>2

LEMMA readLoopType ==
  ASSUME TypeOK, readLoop
  PROVE  TypeOK'
<1> USE DEF ReaderUnchanged
<1>1. CASE LoopTest
  <2>1. ReaderTypes'
    BY Zenon, <1>1 DEF LoopTest, TypeOK, ReaderTypes
  <2> QED
    BY Zenon, <1>1, <2>1, TypeFrame DEF LoopTest, connVars, slotVars, TypeOK
<1>2. CASE GetRW
  <2>1. ReaderTypes'
    BY Zenon, <1>2 DEF GetRW, TypeOK, ConnTypes, ReaderTypes
  <2> QED
    BY Zenon, <1>2, <2>1, TypeFrame DEF GetRW, connVars, slotVars, TypeOK
<1>3. CASE ReadPacket
  <2>1. Head(wire) \in Packet /\ Tail(wire) \in Seq(Packet)
    BY <1>3 DEF ReadPacket, TypeOK, ServerTypes
  <2>2. ServerTypes'
    BY Zenon, <1>3, <2>1 DEF ReadPacket, TypeOK, ServerTypes
  <2>3. ReaderTypes'
    BY <1>3, <2>1, ClientAssumption DEF ReadPacket, TypeOK, ReaderTypes
  <2> QED
    BY Zenon, <1>3, <2>2, <2>3, TypeFrame DEF ReadPacket, connVars, slotVars, TypeOK
<1>4. CASE ReadError
  <2>1. ConnTypes' /\ SlotTypes'
    BY Zenon, <1>4, closeConnType DEF ReadError, TypeOK, ConnTypes, SlotTypes
  <2>2. ReaderTypes'
    BY <1>4, ClientAssumption DEF ReadError, TypeOK, ReaderTypes
  <2> QED
    BY Zenon, <1>4, <2>1, <2>2, TypeFrame DEF ReadError, TypeOK
<1>5. CASE Send
  <2>1. Append(in, rresp) \in Seq(Packet) /\ Len(Append(in, rresp)) = Len(in) + 1
    BY DEF TypeOK, ReaderTypes
  <2>2. ReaderTypes'
    BY <1>5, <2>1, PacketTypes, ClientAssumption DEF Send, TypeOK, ReaderTypes
  <2> QED
    BY Zenon, <1>5, <2>2, TypeFrame DEF Send, connVars, slotVars, TypeOK
<1>6. CASE RedialTest
  <2>1. ReaderTypes'
    BY Zenon, <1>6 DEF RedialTest, TypeOK, ReaderTypes
  <2> QED
    BY Zenon, <1>6, <2>1, TypeFrame DEF RedialTest, connVars, slotVars, TypeOK
<1>7. CASE Dial
  <2>1. ConnTypes'
    BY <1>7, ClientAssumption DEF Dial, TypeOK, ConnTypes
  <2>2. ReaderTypes'
    BY Zenon, <1>7 DEF Dial, TypeOK, ReaderTypes
  <2>3. ServerTypes'
    <3>1. dropped' \in BOOLEAN /\ acked' \in BOOLEAN
      BY <1>7, Zenon DEF Dial
    <3>2. reqs' \in Seq(Request) /\ wire' \in Seq(Packet) /\ jobs' \subseteq Calls
      BY <1>7, RequestTypes DEF Dial
    <3> QED
      BY Zenon, <3>1, <3>2 DEF ServerTypes
  <2> QED
    BY Zenon, <1>7, <2>1, <2>2, <2>3, TypeFrame DEF Dial, slotVars, TypeOK
<1>8. CASE DialFails
  <2>1. ReaderTypes'
    BY Zenon, <1>8 DEF DialFails, TypeOK, ReaderTypes
  <2> QED
    BY Zenon, <1>8, <2>1, TypeFrame DEF DialFails, connVars, slotVars, TypeOK
<1>9. CASE SetConn
  <2>1. ConnTypes'
    <3>1. conn' = conn \/ conn' = nconn
      BY Zenon, <1>9 DEF SetConn
    <3>2. conn' \in 0..MaxConn
      BY <3>1, ClientAssumption DEF TypeOK, ConnTypes
    <3>3. open' \subseteq open
      BY Zenon, <1>9 DEF SetConn
    <3> QED
      BY Zenon, <1>9, <3>2, <3>3 DEF SetConn, ReaderUnchanged, TypeOK, ConnTypes
  <2>2. ReaderTypes'
    BY Zenon, <1>9 DEF SetConn, TypeOK, ReaderTypes
  <2> QED
    BY Zenon, <1>9, <2>1, <2>2, TypeFrame DEF SetConn, slotVars, TypeOK
<1>10. CASE SendMarker
  <2>1. nconn \in 0..MaxConn
    BY DEF TypeOK, ConnTypes
  <2>2. Append(in, Marker(nconn)) \in Seq(Packet) /\ Len(Append(in, Marker(nconn))) = Len(in) + 1
    BY <2>1, PacketTypes DEF TypeOK, ReaderTypes
  <2>3. ReaderTypes'
    BY <1>10, <2>2, ClientAssumption DEF SendMarker, TypeOK, ReaderTypes
  <2> QED
    BY Zenon, <1>10, <2>3, TypeFrame DEF SendMarker, connVars, slotVars, TypeOK
<1> QED
  BY Zenon, <1>1, <1>2, <1>3, <1>4, <1>5, <1>6, <1>7, <1>8, <1>9, <1>10 DEF readLoop

LEMMA SettleOptionType ==
  ASSUME TypeOK, NEW r, SettleOption(r), UNCHANGED connVars
  PROVE  ConnTypes' /\ optionPending' \in BOOLEAN
<1>1. optionPending' \in BOOLEAN
  BY Zenon DEF SettleOption
<1>2. excState' \in {"pending", "on", "refused"}
  BY Zenon DEF SettleOption, TypeOK, ConnTypes
<1> QED
  BY Zenon, <1>1, <1>2 DEF TypeOK, ConnTypes, connVars

LEMMA TakeHandlerType ==
  ASSUME TypeOK, NEW r \in Packet, NEW now, TakeHandler(r, now)
  PROVE  SlotTypes' /\ ph' \in Entry
<1>1. CASE r.type = "job_created"
  <2>1. SlotTaken(created, now) \in Entry /\ SlotTake(created, now) \in Seq(Entry)
    BY Zenon, SlotTakeType DEF TypeOK, SlotTypes
  <2> QED
    BY Zenon, <1>1, <2>1 DEF TakeHandler, TypeOK, SlotTypes
<1>2. CASE r.type = "echo_res"
  <2>1. SlotTaken(echo, now) \in Entry /\ SlotTake(echo, now) \in Seq(Entry)
    BY Zenon, SlotTakeType DEF TypeOK, SlotTypes
  <2> QED
    BY Zenon, <1>2, <2>1 DEF TakeHandler, TypeOK, SlotTypes
<1>3. CASE r.type = "status_res"
  <2>1. r.arg \in StatusHandles
    BY Zenon, <1>3, PacketTypes
  <2>2. NoEntry \in Entry /\ LiveEntry(status[r.arg], FALSE) \in Entry
    BY <2>1, ClientAssumption DEF NoEntry, LiveEntry, Entry, TypeOK, SlotTypes
  <2>3. ph' \in Entry
    BY Zenon, <1>3, <2>2 DEF TakeHandler
  <2>4. SlotTypes'
    BY <1>3, ClientAssumption DEF TakeHandler, TypeOK, SlotTypes
  <2> QED
    BY Zenon, <2>3, <2>4
<1> QED
  BY Zenon, <1>1, <1>2, <1>3 DEF TakeHandler

(* Receiving a response takes the first one out of client.in.              *)
LEMMA ReceiveType ==
  ASSUME TypeOK, in # << >>, in' = Tail(in), UNCHANGED readerVars
  PROVE  ReaderTypes' /\ Head(in) \in Packet
<1>1. Head(in) \in Packet /\ Tail(in) \in Seq(Packet) /\ Len(Tail(in)) = Len(in) - 1
  BY DEF TypeOK, ReaderTypes
<1>2. Len(in) \in Nat
  BY DEF TypeOK, ReaderTypes
<1> QED
  BY <1>1, <1>2, ClientAssumption DEF TypeOK, ReaderTypes, readerVars

LEMMA processLoopType ==
  ASSUME TypeOK, processLoop
  PROVE  TypeOK'
<1> USE DEF ProcessUnchanged
<1>1. CASE ProcessMarker
  <2>1. ReaderTypes' /\ Head(in) \in Packet
    BY Zenon, <1>1, ReceiveType DEF ProcessMarker
  <2>2. optionPending' \in BOOLEAN
    BY <1>1, Zenon DEF ProcessMarker
  <2>3. ProcTypes'
    BY Zenon, <1>1, <2>1, <2>2, PacketTypes DEF ProcessMarker, TypeOK, ProcTypes
  <2> QED
    BY Zenon, <1>1, <2>1, <2>3, TypeFrame DEF ProcessMarker, TypeOK
<1>2. CASE ProcessOther
  <2>1. ReaderTypes'
    BY Zenon, <1>2, ReceiveType DEF ProcessOther
  <2>2. ConnTypes' /\ optionPending' \in BOOLEAN
    BY Zenon, <1>2, SettleOptionType DEF ProcessOther
  <2>3. ProcTypes'
    BY Zenon, <1>2, <2>2 DEF ProcessOther, TypeOK, ProcTypes
  <2> QED
    BY Zenon, <1>2, <2>1, <2>2, <2>3, TypeFrame DEF ProcessOther, TypeOK
<1>3. CASE ProcessReply
  <2>1. ReaderTypes' /\ Head(in) \in Packet
    BY Zenon, <1>3, ReceiveType DEF ProcessReply
  <2>2. ConnTypes' /\ optionPending' \in BOOLEAN
    BY Zenon, <1>3, SettleOptionType DEF ProcessReply
  <2>3. SlotTypes' /\ ph' \in Entry
    BY Zenon, <1>3, <2>1, TakeHandlerType DEF ProcessReply
  <2>4. crossed' \in BOOLEAN
    BY <1>3, Zenon DEF ProcessReply
  <2>5. ProcTypes'
    BY Zenon, <1>3, <2>1, <2>2, <2>3, <2>4 DEF ProcessReply, TypeOK, ProcTypes
  <2> QED
    BY Zenon, <1>3, <2>1, <2>2, <2>3, <2>5, TypeFrame DEF ProcessReply, TypeOK
<1>4. CASE Deliver
  <2>1. ph.id \in 0..MaxCalls /\ presp.req \in 0..MaxCalls
    BY Zenon, PacketTypes DEF TypeOK, ProcTypes, Entry
  <2>2. rhandlers' \in [Calls -> 0..MaxCalls]
    <3>1. rhandlers' = rhandlers \/ rhandlers' = [rhandlers EXCEPT ![presp.req] = ph.id]
      BY Zenon, <1>4 DEF Deliver
    <3> QED
      BY Zenon, <2>1, <3>1 DEF TypeOK, ProcTypes
  <2>3. NoEntry \in Entry /\ NoPacket \in Packet
    BY PacketTypes, ClientAssumption DEF NoEntry, Entry
  <2>4. ProcTypes'
    BY Zenon, <1>4, <2>2, <2>3 DEF Deliver, TypeOK, ProcTypes
  <2>5. CallerTypes' /\ CallTypes'
    BY Zenon, <1>4, <2>1 DEF Deliver, TypeOK, CallerTypes, CallTypes
  <2> QED
    BY Zenon, <1>4, <2>4, <2>5, TypeFrame DEF Deliver, TypeOK
<1>5. CASE ProcessWork
  <2>1. ReaderTypes' /\ Head(in) \in Packet
    BY Zenon, <1>5, ReceiveType DEF ProcessWork
  <2>2. ConnTypes' /\ optionPending' \in BOOLEAN
    BY Zenon, <1>5, SettleOptionType DEF ProcessWork
  <2>3. rhandlers[Head(in).req] \in 0..MaxCalls
    BY Zenon, <1>5, <2>1, PacketTypes DEF ProcessWork, TypeOK, ProcTypes
  <2>4. LiveEntry(rhandlers[Head(in).req], TRUE) \in Entry
    BY Zenon, <2>3 DEF LiveEntry, Entry
  <2>5. ProcTypes'
    BY Zenon, <1>5, <2>1, <2>2, <2>4 DEF ProcessWork, TypeOK, ProcTypes
  <2> QED
    BY Zenon, <1>5, <2>1, <2>2, <2>5, TypeFrame DEF ProcessWork, TypeOK
<1>6. CASE CallbackReturns
  <2>1. rhandlers' \in [Calls -> 0..MaxCalls]
    <3>1. rhandlers' = rhandlers \/ rhandlers' = [rhandlers EXCEPT ![presp.req] = 0]
      BY Zenon, <1>6 DEF CallbackReturns
    <3> QED
      BY <3>1, ClientAssumption DEF TypeOK, ProcTypes
  <2>2. NoEntry \in Entry /\ NoPacket \in Packet
    BY PacketTypes, ClientAssumption DEF NoEntry, Entry
  <2>3. ProcTypes'
    BY Zenon, <1>6, <2>1, <2>2 DEF CallbackReturns, TypeOK, ProcTypes
  <2> QED
    BY Zenon, <1>6, <2>3, TypeFrame DEF CallbackReturns, TypeOK
<1>7. CASE ProcessExit
  <2>1. ProcTypes'
    BY Zenon, <1>7 DEF ProcessExit, TypeOK, ProcTypes
  <2> QED
    BY Zenon, <1>7, <2>1, TypeFrame DEF ProcessExit, TypeOK
<1> QED
  BY Zenon, <1>1, <1>2, <1>3, <1>4, <1>5, <1>6, <1>7 DEF processLoop

LEMMA ServerType ==
  ASSUME TypeOK, Server
  PROVE  TypeOK'
<1>1. SUFFICES ServerTypes' /\ ServerUnchanged
  BY Zenon, <1>1, TypeFrame DEF ServerUnchanged, TypeOK
<1>2. CASE Answer
  <2>1. Head(reqs) \in Request /\ Tail(reqs) \in Seq(Request)
    BY <1>2 DEF Answer, TypeOK, ServerTypes
  <2>2. PICK t \in {Reply(Head(reqs).kind), "error", "malformed"} :
          /\ wire' = Append(wire, FromServer(t, Head(reqs).id, Head(reqs).arg))
          /\ jobs' = IF t = "job_created" /\ Head(reqs).kind = "do"
                     THEN jobs \cup {Head(reqs).id} ELSE jobs
          /\ acked' = (acked \/ t = "option_res")
    BY Zenon, <1>2 DEF Answer
  <2>3. /\ FromServer(t, Head(reqs).id, Head(reqs).arg) \in Packet
        /\ t = "job_created" => Head(reqs).id \in Calls
    BY Zenon, <2>1, AnswerTypes DEF TypeOK, ConnTypes
  <2>4. wire' \in Seq(Packet) /\ jobs' \subseteq Calls
    BY <2>2, <2>3 DEF TypeOK, ServerTypes
  <2>5. acked' \in BOOLEAN
    BY <2>2, Zenon
  <2> QED
    BY Zenon, <1>2, <2>1, <2>4, <2>5 DEF Answer, TypeOK, ServerTypes
<1>3. CASE Ignore
  BY <1>3 DEF Ignore, TypeOK, ServerTypes
<1>4. CASE Drop
  <2>1. dropped' \in BOOLEAN
    BY <1>4, Zenon DEF Drop
  <2> QED
    BY Zenon, <1>4, <2>1 DEF Drop, TypeOK, ServerTypes
<1>5. ASSUME NEW j \in Calls, NEW t \in {"work_data", "work_done"}, Report(j, t)
      PROVE  ServerTypes' /\ ServerUnchanged
  <2>1. FromServer(t, j, NoHandle) \in Packet
    BY Zenon, ReportTypes DEF TypeOK, ConnTypes
  <2> QED
    BY <1>5, <2>1 DEF Report, TypeOK, ServerTypes
<1> QED
  BY Zenon, <1>2, <1>3, <1>4, <1>5 DEF Server

(* Every reachable state of a Client is well typed: in particular client.in *)
(* never holds more than its capacity, a WORK_* or a STATUS_RES always      *)
(* names a job or handle, and a call that has been issued has a number.     *)
THEOREM TypeCorrect == Spec => []TypeOK
<1>1. TypeOK /\ [Next]_vars => TypeOK'
  <2>1. ASSUME TypeOK, Next
        PROVE  TypeOK'
    BY Zenon, <2>1, CallerType, CloseType, readLoopType, processLoopType, ServerType DEF Next
  <2>2. ASSUME TypeOK, UNCHANGED vars
        PROVE  TypeOK'
    BY Zenon, <2>2, TypeFrame DEF vars, connVars, slotVars, callerVars, readerVars, procVars,
       serverVars, TypeOK
  <2> QED
    BY Zenon, <2>1, <2>2
<1> QED
  BY TypeInit, <1>1, PTL DEF Spec

-----------------------------------------------------------------------------
(* The steps that leave the connection alone, readLoop's position included. *)
LEMMA ConnFrame ==
  ASSUME [Next]_vars
  PROVE  \/ UNCHANGED <<conn, open, closing, nconn, rpc>>
         \/ \E c \in Callers : CloseConn(c)
         \/ SetClosed \/ FinishClose \/ readLoop
<1>1. ASSUME NEW c \in Callers, Caller(c), ~CloseConn(c)
      PROVE  UNCHANGED <<conn, open, closing, nconn, rpc>>
  BY ZenonT(30), <1>1 DEF Caller, Call, Lock, SetHandler, Write, WriteTo, Receive, Timeout, connVars,
              readerVars
<1>2. processLoop => UNCHANGED <<conn, open, closing, nconn, rpc>>
  BY Zenon DEF processLoop, ProcessMarker, ProcessOther, ProcessReply, Deliver, ProcessWork,
         CallbackReturns, ProcessExit, ProcessUnchanged, connVars, readerVars
<1>3. Server => UNCHANGED <<conn, open, closing, nconn, rpc>>
  BY Zenon DEF Server, Answer, Ignore, Drop, Report, ServerUnchanged, connVars, readerVars
<1>4. UNCHANGED vars => UNCHANGED <<conn, open, closing, nconn, rpc>>
  BY Zenon DEF vars
<1> QED
  BY Zenon, <1>1, <1>2, <1>3, <1>4 DEF Next

(* Close is final: SetConn looks at closed in the critical section that    *)
(* publishes the connection, so a dial that was under way when Close came  *)
(* cannot bring the client back.                                           *)
THEOREM CloseFinal == Spec => []ClosedIsFinal
<1>1. Init => ClosedIsFinal
  BY Zenon DEF Init, ClosedIsFinal
<1>2. ASSUME ClosedIsFinal, [Next]_vars
      PROVE  ClosedIsFinal'
  <2>1. CASE UNCHANGED <<conn, open, closing, nconn, rpc>>
    BY Zenon, <1>2, <2>1 DEF ClosedIsFinal
  <2>2. CASE SetClosed
    BY Zenon, <2>2 DEF SetClosed, ClosedIsFinal
  <2>3. CASE FinishClose
    BY Zenon, <2>3 DEF FinishClose, closeConn, ClosedIsFinal
  <2>4. ASSUME NEW c \in Callers, CloseConn(c)
        PROVE  ClosedIsFinal'
    BY Zenon, <1>2, <2>4 DEF CloseConn, closeConn, ClosedIsFinal
  <2>5. CASE readLoop
    BY Zenon, <1>2, <2>5 DEF readLoop, LoopTest, GetRW, ReadPacket, ReadError, Send, RedialTest, Dial,
       DialFails, SetConn, SendMarker, ReaderUnchanged, closeConn, closed, ClosedIsFinal
  <2> QED
    BY Zenon, <1>2, <2>1, <2>2, <2>3, <2>4, <2>5, ConnFrame
<1> QED
  BY <1>1, <1>2, PTL DEF Spec

(* No socket is forgotten.  NoSocketLeak alone is not kept by SetConn,     *)
(* which overwrites conn: there has to be nothing to overwrite, because    *)
(* readLoop redials only after closeConn and nobody else publishes.        *)
Redialling == rpc \in {"redial", "dial", "setConn"} => conn = 0

LEMMA Sockets == Spec => [](NoSocketLeak /\ Redialling)
<1> DEFINE Inv == NoSocketLeak /\ Redialling
<1>1. Init => Inv
  BY Zenon DEF Init, NoSocketLeak, Redialling
<1>2. ASSUME TypeOK, Inv, [Next]_vars
      PROVE  Inv'
  <2>1. CASE UNCHANGED <<conn, open, closing, nconn, rpc>>
    BY Zenon, <1>2, <2>1 DEF NoSocketLeak, Redialling
  <2>2. CASE SetClosed
    BY Zenon, <1>2, <2>2 DEF SetClosed, readerVars, NoSocketLeak, Redialling
  <2>3. CASE FinishClose
    BY Zenon, <1>2, <2>3 DEF FinishClose, closeConn, readerVars, NoSocketLeak, Redialling
  <2>4. ASSUME NEW c \in Callers, CloseConn(c)
        PROVE  Inv'
    BY Zenon, <1>2, <2>4 DEF CloseConn, closeConn, readerVars, NoSocketLeak, Redialling
  <2>5. CASE readLoop
    <3>1. CASE LoopTest \/ GetRW \/ ReadPacket \/ Send \/ RedialTest \/ DialFails \/ SendMarker
      BY Zenon, <1>2, <3>1 DEF LoopTest, GetRW, ReadPacket, Send, RedialTest, DialFails, SendMarker,
         NoSocketLeak, Redialling
    <3>2. CASE ReadError
      BY Zenon, <1>2, <3>2 DEF ReadError, closeConn, NoSocketLeak, Redialling
    <3>3. CASE Dial
      <4>1. open \subseteq {conn} /\ conn = 0 /\ conn' = 0
        BY Zenon, <1>2, <3>3 DEF Dial, NoSocketLeak, Redialling
      <4>2. open' = open \cup {nconn'} /\ rpc' = "setConn"
        BY Zenon, <3>3 DEF Dial
      <4> QED
        BY Zenon, <4>1, <4>2 DEF NoSocketLeak, Redialling
    <3>4. CASE SetConn
      <4>1. conn = 0 /\ open \subseteq {0, nconn}
        BY Zenon, <1>2, <3>4 DEF SetConn, NoSocketLeak, Redialling
      <4>2. open \subseteq {nconn}
        BY <1>2, <4>1, ClientAssumption DEF TypeOK, ConnTypes
      <4>3. open' \subseteq {conn'} /\ rpc' \in {"exited", "marker", "loop"}
        BY Zenon, <3>4, <4>2 DEF SetConn
      <4> QED
        BY Zenon, <4>3 DEF NoSocketLeak, Redialling
    <3> QED
      BY Zenon, <2>5, <3>1, <3>2, <3>3, <3>4 DEF readLoop
  <2> QED
    BY Zenon, <1>2, <2>1, <2>2, <2>3, <2>4, <2>5, ConnFrame
<1>3. TypeOK /\ Inv /\ [Next]_vars => Inv'
  BY Zenon, <1>2
<1>4. Inv => NoSocketLeak
  OBVIOUS
<1> QED
  BY <1>1, <1>3, TypeCorrect, PTL DEF Spec

(* Every socket that is open is the current one, or the one connect is     *)
(* about to publish: no timeout, no redial and no Close forgets one.       *)
THEOREM EverySocketKnown == Spec => []NoSocketLeak
BY Sockets, PTL

-----------------------------------------------------------------------------

(* The two shapes of HandlerInv's conjuncts that the proofs below use.     *)
LEMMA HolderFacts ==
  ASSUME TypeOK, HandlerInv, NEW c \in Callers
  PROVE  /\ mutex = c <=> pc[c] \notin {"idle", "lock"}
         /\ cid[c] \in 0..ncalls /\ (cid[c] = 0 <=> pc[c] = "idle")
         /\ \A d \in Callers : cid[c] = cid[d] /\ cid[c] # 0 => c = d
         /\ mutex = c => mutex # NoCaller
BY ClientAssumption DEF TypeOK, CallerTypes, HandlerInv, HolderInv

LEMMA QueueFacts ==
  ASSUME TypeOK, HandlerInv
  PROVE  /\ Len(created) <= 1 /\ Len(echo) <= 1
         /\ created # << >> => /\ mutex \in Callers /\ created[1].id = cid[mutex]
                               /\ pc[mutex] # "set" /\ ckind[mutex] \in {"do", "bg"}
         /\ echo # << >> => /\ mutex \in Callers /\ echo[1].id = cid[mutex]
                            /\ pc[mutex] # "set" /\ ckind[mutex] = "echo"
         /\ \A h \in StatusHandles : status[h] # 0 =>
              /\ mutex \in Callers /\ status[h] = cid[mutex] /\ pc[mutex] # "set"
              /\ ckind[mutex] = "status" /\ carg[mutex] = h
BY Zenon DEF TypeOK, CallerTypes, HandlerInv, QueueInv

(* What the slot operations make of either queue.                          *)
LEMMA ShortQueues ==
  ASSUME TypeOK, HandlerInv, NEW q \in {created, echo}, NEW now \in {0, 1},
         NEW id \in 0..MaxCalls
  PROVE  /\ SlotTake(q, now) = << >>
         /\ SlotTaken(q, now).internal => q # << >> /\ SlotTaken(q, now) = q[1]
         /\ q # << >> /\ q[1].id = id => SlotAbandon(q, id, 1)[1].id = id
         /\ q = << >> => SlotAbandon(q, id, 1) = << >>
         /\ Len(SlotAbandon(q, id, 1)) <= 1
<1>1. q \in Seq(Entry) /\ Len(q) <= 1
  BY Zenon, QueueFacts DEF TypeOK, SlotTypes
<1>2. Len(SlotAbandon(q, id, 1)) <= 1
  BY Zenon, <1>1, SlotAbandonType
<1> QED
  BY Zenon, <1>1, <1>2, SlotShort

(* Nobody is queued while the holder has not got that far, or is absent.   *)
LEMMA NothingBefore ==
  ASSUME TypeOK, HandlerInv, mutex = NoCaller \/ pc[mutex] = "set"
  PROVE  NothingQueued
BY Zenon, QueueFacts, ClientAssumption DEF NothingQueued

-----------------------------------------------------------------------------
(* Steps that touch neither the callers nor the queues.                    *)
LEMMA HandlerFrame ==
  ASSUME TypeOK, HandlerInv, UNCHANGED <<slotVars, mutex, ncalls, pc, cid, ckind, carg, cres>>,
         conn' = conn \/ conn' # 0,
         ppc' # "deliver" \/ UNCHANGED <<ppc, ph>>
  PROVE  HandlerInv'
<1>1. HolderInv'
  BY Zenon DEF HandlerInv, HolderInv
<1>2. QueueInv'
  BY Zenon DEF HandlerInv, QueueInv, slotVars
<1>3. SpentInv'
  BY Zenon DEF HandlerInv, SpentInv, NothingQueued, slotVars
<1> QED
  BY Zenon, <1>1, <1>2, <1>3 DEF HandlerInv

(* closeConn outside a call.                                               *)
LEMMA closeConnKeeps ==
  ASSUME TypeOK, HandlerInv, closeConn, UNCHANGED <<status, callerVars, ppc, ph>>
  PROVE  HandlerInv'
<1>1. CASE UNCHANGED <<conn, open, created, echo>>
  BY Zenon, <1>1, HandlerFrame DEF slotVars, callerVars
<1>2. CASE conn' = 0 /\ created' = << >> /\ echo' = << >>
  <2>1. HolderInv'
    BY Zenon DEF HandlerInv, HolderInv, callerVars
  <2>2. QueueInv'
    BY Zenon, <1>2, QueueFacts, ClientAssumption DEF QueueInv, callerVars
  <2>3. SpentInv'
    BY ZenonT(30), <1>2 DEF HandlerInv, SpentInv, NothingQueued, callerVars
  <2> QED
    BY Zenon, <2>1, <2>2, <2>3 DEF HandlerInv
<1> QED
  BY Zenon, <1>1, <1>2 DEF closeConn, SlotReset

LEMMA EmptyQueues ==
  /\ Len(<< >>) <= 1 /\ 1 <= 1
  /\ NothingQueued' => QueueInv'
BY DEF NothingQueued, QueueInv

(* A call that returns with the queues empty.                              *)
LEMMA ReturnKeeps ==
  ASSUME TypeOK, HandlerInv, NEW c \in Callers, mutex = c, Return(c), NothingQueued',
         UNCHANGED <<ppc, ph>>
  PROVE  HandlerInv'
<1>1. HolderInv'
  <2>1. \A d \in Callers : mutex' = d <=> pc'[d] \notin {"idle", "lock"}
    BY Zenon, HolderFacts, ClientAssumption DEF Return, TypeOK, CallerTypes
  <2>2. \A d \in Callers : cid'[d] <= ncalls' /\ (cid'[d] = 0 <=> pc'[d] = "idle")
    BY HolderFacts DEF Return, TypeOK, CallerTypes
  <2>3. \A d, e \in Callers : cid'[d] = cid'[e] /\ cid'[d] # 0 => d = e
    BY Zenon, HolderFacts DEF Return, TypeOK, CallerTypes
  <2> QED
    BY Zenon, <2>1, <2>2, <2>3 DEF HolderInv
<1>2. QueueInv'
  BY EmptyQueues, Zenon
<1>3. SpentInv'
  <2>1. \A d \in Callers : pc'[d] \in {"writeTo", "wait", "close"} => FALSE
    BY Zenon, HolderFacts DEF Return, TypeOK, CallerTypes
  <2>2. \A d \in Callers : cres'[d] # 0 => pc'[d] \notin {"idle", "lock", "set"}
    BY Zenon DEF HandlerInv, SpentInv, Return, TypeOK, CallerTypes
  <2>3. ppc' = "deliver" =>
          /\ ph'.id \in 1..ncalls'
          /\ \A d \in Callers : cid'[d] = ph'.id => pc'[d] \notin {"lock", "set"}
    BY Zenon, HolderFacts DEF HandlerInv, SpentInv, Return, TypeOK, CallerTypes
  <2> QED
    BY Zenon, <2>1, <2>2, <2>3 DEF SpentInv, NothingQueued
<1> QED
  BY Zenon, <1>1, <1>2, <1>3 DEF HandlerInv

(* cancel leaves nothing queued: the entry of the holder was all there was. *)
LEMMA CancelEmpties ==
  ASSUME TypeOK, HandlerInv, NEW c \in Callers, mutex = c, cancel(c)
  PROVE  NothingQueued'
<1>1. cid[c] \in 0..MaxCalls
  BY Zenon DEF TypeOK, CallerTypes
<1>2. created' = << >>
  <2>1. created # << >> => SlotCancel(created, cid[c]) = << >>
    BY Zenon, <1>1, QueueFacts, SlotShort DEF TypeOK, SlotTypes
  <2>2. created = << >> => SlotCancel(created, cid[c]) = << >>
    BY Zenon, <1>1, QueueFacts, SlotShort DEF TypeOK, SlotTypes
  <2> QED
    BY Zenon, <2>1, <2>2, QueueFacts DEF cancel, UsesCreated
<1>3. echo' = << >>
  <2>1. echo # << >> => SlotCancel(echo, cid[c]) = << >>
    BY Zenon, <1>1, QueueFacts, SlotShort DEF TypeOK, SlotTypes
  <2>2. echo = << >> => SlotCancel(echo, cid[c]) = << >>
    BY Zenon, <1>1, QueueFacts, SlotShort DEF TypeOK, SlotTypes
  <2> QED
    BY ZenonT(30), <2>1, <2>2, QueueFacts DEF cancel
<1>4. \A h \in StatusHandles : status'[h] = 0
  BY Zenon, QueueFacts DEF cancel, TypeOK, SlotTypes
<1> QED
  BY Zenon, <1>2, <1>3, <1>4 DEF NothingQueued

-----------------------------------------------------------------------------
(* One step per action of a caller.                                        *)

LEMMA CallKeeps ==
  ASSUME TypeOK, HandlerInv, NEW c \in Callers, NEW k \in Kinds, NEW h \in Args, Call(c, k, h)
  PROVE  HandlerInv'
<1>1. mutex # c /\ cres[c] = 0
  BY ZenonT(30), HolderFacts DEF Call, HandlerInv, SpentInv
<1>2. HolderInv'
  <2>1. \A d \in Callers : mutex' = d <=> pc'[d] \notin {"idle", "lock"}
    BY Zenon, <1>1, HolderFacts DEF Call, TypeOK, CallerTypes
  <2>2. \A d \in Callers : cid'[d] <= ncalls' /\ (cid'[d] = 0 <=> pc'[d] = "idle")
    BY HolderFacts DEF Call, TypeOK, CallerTypes
  <2>3. \A d, e \in Callers : cid'[d] = cid'[e] /\ cid'[d] # 0 => d = e
    BY HolderFacts DEF Call, TypeOK, CallerTypes
  <2> QED
    BY ZenonT(30), <2>1, <2>2, <2>3 DEF HolderInv
<1>3. QueueInv'
  <2>1. mutex \in Callers => /\ cid'[mutex] = cid[mutex] /\ ckind'[mutex] = ckind[mutex]
                             /\ carg'[mutex] = carg[mutex] /\ pc'[mutex] = pc[mutex]
    BY Zenon, <1>1 DEF Call, TypeOK, CallerTypes
  <2>2. UNCHANGED <<created, echo, status, mutex>>
    BY Zenon DEF Call, slotVars
  <2> QED
    BY Zenon, <2>1, <2>2, QueueFacts, ClientAssumption DEF QueueInv
<1>4. SpentInv'
  <2>1. UNCHANGED <<created, echo, status, conn, ppc, ph, cres>>
    BY Zenon DEF Call, slotVars, connVars, procVars
  <2>2. ppc = "deliver" => ph.id # ncalls + 1
    BY DEF HandlerInv, SpentInv, TypeOK, CallerTypes
  <2>3. \A d \in Callers : pc'[d] # "lock" =>
          pc'[d] = pc[d] /\ ckind'[d] = ckind[d]
    BY Zenon DEF Call, TypeOK, CallerTypes
  <2>4. ppc' = "deliver" =>
          /\ ph'.id \in 1..ncalls'
          /\ \A d \in Callers : cid'[d] = ph'.id =>
               pc'[d] \notin {"lock", "set"} /\ NothingQueued'
    BY <2>1, <2>2 DEF Call, HandlerInv, SpentInv, NothingQueued, TypeOK, CallerTypes
  <2>5. \A d \in Callers : cres'[d] # 0 => pc'[d] \notin {"idle", "lock", "set"} /\ NothingQueued'
    BY Zenon, <1>1, <2>1 DEF Call, HandlerInv, SpentInv, NothingQueued, TypeOK, CallerTypes
  <2> QED
    BY Zenon, <2>1, <2>3, <2>4, <2>5 DEF HandlerInv, SpentInv
<1> QED
  BY Zenon, <1>2, <1>3, <1>4 DEF HandlerInv

LEMMA LockKeeps ==
  ASSUME TypeOK, HandlerInv, NEW c \in Callers, Lock(c)
  PROVE  HandlerInv'
<1>1. NothingQueued /\ NothingQueued'
  BY Zenon, NothingBefore DEF Lock, slotVars, NothingQueued
<1>2. HolderInv'
  BY HolderFacts, ClientAssumption DEF Lock, HolderInv, TypeOK, CallerTypes
<1>3. QueueInv'
  BY <1>1, EmptyQueues, Zenon
<1>4. SpentInv'
  <2>1. \A d \in Callers : pc'[d] \in {"writeTo", "wait", "close"} => FALSE
    BY Zenon, HolderFacts, ClientAssumption DEF Lock, TypeOK, CallerTypes
  <2>2. \A d \in Callers : cres'[d] # 0 => pc'[d] \notin {"idle", "lock", "set"}
    BY Zenon DEF Lock, HandlerInv, SpentInv, TypeOK, CallerTypes
  <2>3. ppc' = "deliver" =>
          /\ ph'.id \in 1..ncalls'
          /\ \A d \in Callers : cid'[d] = ph'.id => pc'[d] \notin {"lock", "set"}
    BY Zenon DEF Lock, procVars, HandlerInv, SpentInv, TypeOK, CallerTypes
  <2> QED
    BY Zenon, <1>1, <2>1, <2>2, <2>3 DEF SpentInv
<1> QED
  BY Zenon, <1>2, <1>3, <1>4 DEF HandlerInv

(* A slot that set finds empty holds just the new entry afterwards.        *)
LEMMA SlotSetEmpty ==
  ASSUME NEW id, NEW ext
  PROVE  /\ SlotSet(<< >>, id, ext) = <<LiveEntry(id, ext)>>
         /\ Len(SlotSet(<< >>, id, ext)) = 1 /\ SlotSet(<< >>, id, ext)[1].id = id
<1>1. ~(Len(<< >>) >= HandlerSlotCap)
  BY HandlerSlotCapAssumption
<1> QED
  BY <1>1 DEF SlotSet, LiveEntry

LEMMA SetHandlerKeeps ==
  ASSUME TypeOK, HandlerInv, NEW c \in Callers, SetHandler(c)
  PROVE  HandlerInv'
<1>1. mutex = c /\ mutex' = c /\ NothingQueued
  <2>1. pc[c] = "set" /\ mutex' = mutex
    BY Zenon DEF SetHandler
  <2>2. pc[c] \notin {"idle", "lock"}
    BY Zenon, <2>1
  <2>3. mutex = c
    BY <2>2, HolderFacts, Zenon
  <2> QED
    BY <2>1, <2>3, NothingBefore, Zenon
<1>2. HolderInv'
  BY HolderFacts DEF SetHandler, HolderInv, TypeOK, CallerTypes
<1>3. QueueInv'
  <2>1. \/ created' = << >>
        \/ Len(created') = 1 /\ created'[1].id = cid[c] /\ ckind[c] \in {"do", "bg"}
    BY ZenonT(30), <1>1, SlotSetEmpty DEF SetHandler, NothingQueued, UsesCreated
  <2>2. \/ echo' = << >>
        \/ Len(echo') = 1 /\ echo'[1].id = cid[c] /\ ckind[c] = "echo"
    BY Zenon, <1>1, SlotSetEmpty DEF SetHandler, NothingQueued
  <2>3. \A h \in StatusHandles : status'[h] # 0 =>
          status'[h] = cid[c] /\ ckind[c] = "status" /\ carg[c] = h
    BY Zenon, <1>1 DEF SetHandler, NothingQueued, TypeOK, SlotTypes
  <2>4. pc'[c] = "write" /\ UNCHANGED <<cid, ckind, carg>>
    BY Zenon DEF SetHandler, TypeOK, CallerTypes
  <2>5. c # NoCaller
    BY Zenon, ClientAssumption
  <2>6. \A q \in {created', echo'} :
          /\ Len(q) <= 1
          /\ q # << >> => mutex' # NoCaller /\ q[1].id = cid'[mutex'] /\ pc'[mutex'] # "set"
    BY <1>1, <2>1, <2>2, <2>4, <2>5, EmptyQueues, Zenon
  <2>7. /\ created' # << >> => ckind'[mutex'] \in {"do", "bg"}
        /\ echo' # << >> => ckind'[mutex'] = "echo"
    BY Zenon, <1>1, <2>1, <2>2, <2>4
  <2> QED
    BY Zenon, <1>1, <2>3, <2>4, <2>5, <2>6, <2>7 DEF QueueInv
<1>4. SpentInv'
  <2>1. \A d \in Callers : pc'[d] \notin {"writeTo", "wait", "close"}
    BY Zenon, <1>1, HolderFacts DEF SetHandler, TypeOK, CallerTypes
  <2>2. \A d \in Callers : cres'[d] = 0
    BY ZenonT(30), <1>1, HolderFacts DEF SetHandler, HandlerInv, SpentInv
  <2>3. ppc' = "deliver" => ph'.id \in 1..ncalls' /\ \A d \in Callers : cid'[d] # ph'.id
    <3>1. UNCHANGED <<ppc, ph, ncalls, cid>> /\ pc[c] = "set"
      BY Zenon DEF SetHandler, procVars
    <3>2. ppc = "deliver" =>
            /\ ph.id \in 1..ncalls
            /\ \A d \in Callers : cid[d] = ph.id => pc[d] \notin {"lock", "set"}
      BY Zenon DEF HandlerInv, SpentInv
    <3>3. \A d \in Callers : pc[d] \in {"lock", "set"} \/ cid[d] = 0
      BY Zenon, <1>1, <3>1, HolderFacts
    <3> QED
      BY <3>1, <3>2, <3>3
  <2> QED
    BY Zenon, <2>1, <2>2, <2>3 DEF SpentInv
<1> QED
  BY Zenon, <1>2, <1>3, <1>4 DEF HandlerInv

(* The holder moves on with the queues and its call as they are.           *)
LEMMA MoveKeeps ==
  ASSUME TypeOK, HandlerInv, NEW c \in Callers, NEW l \in {"writeTo", "wait"},
         pc[c] \in {"write", "writeTo"}, pc' = [pc EXCEPT ![c] = l],
         UNCHANGED <<slotVars, ReturnLocals, conn, ppc, ph>>,
         pc[c] = "write" => conn # 0
  PROVE  HandlerInv'
<1>1. HolderInv'
  BY HolderFacts DEF HolderInv, ReturnLocals, TypeOK, CallerTypes
<1>2. QueueInv'
  BY ZenonT(30) DEF HandlerInv, QueueInv, slotVars, ReturnLocals, TypeOK, CallerTypes
<1>3. SpentInv'
  BY Zenon DEF HandlerInv, SpentInv, NothingQueued, slotVars, ReturnLocals, TypeOK, CallerTypes
<1> QED
  BY Zenon, <1>1, <1>2, <1>3 DEF HandlerInv

LEMMA WriteKeeps ==
  ASSUME TypeOK, HandlerInv, NEW c \in Callers, Write(c) \/ WriteTo(c)
  PROVE  HandlerInv'
<1>1. mutex = c /\ UNCHANGED <<conn, ppc, ph>>
  BY Zenon, HolderFacts DEF Write, WriteTo, connVars, procVars
<1>2. CASE cancel(c) /\ Return(c)
  BY Zenon, <1>1, <1>2, CancelEmpties, ReturnKeeps
<1>3. CASE Write(c) /\ ~(cancel(c) /\ Return(c))
  BY Zenon, <1>1, <1>3, MoveKeeps DEF Write
<1>4. CASE WriteTo(c) /\ ~(cancel(c) /\ Return(c))
  BY Zenon, <1>1, <1>4, MoveKeeps DEF WriteTo
<1> QED
  BY Zenon, <1>2, <1>3, <1>4

LEMMA ReceiveKeeps ==
  ASSUME TypeOK, HandlerInv, NEW c \in Callers, Receive(c)
  PROVE  HandlerInv'
<1>1. mutex = c /\ UNCHANGED <<ppc, ph>> /\ Return(c)
  BY ZenonT(30), HolderFacts DEF Receive, procVars
<1>2. NothingQueued'
  BY Zenon DEF Receive, HandlerInv, SpentInv, NothingQueued, slotVars
<1> QED
  BY Zenon, <1>1, <1>2, ReturnKeeps

LEMMA TimeoutKeeps ==
  ASSUME TypeOK, HandlerInv, NEW c \in Callers, Timeout(c)
  PROVE  HandlerInv'
<1>1. mutex = c /\ UNCHANGED <<conn, ppc, ph>> /\ pc[c] = "wait"
  BY ZenonT(30), HolderFacts DEF Timeout, connVars, procVars
<1>2. CASE ckind[c] = "status"
  BY ZenonT(30), <1>1, <1>2, CancelEmpties, ReturnKeeps DEF Timeout
<1>3. CASE ckind[c] # "status"
  <2>1. pc' = [pc EXCEPT ![c] = "close"] /\ UNCHANGED <<status, ReturnLocals>>
    BY Zenon, <1>3 DEF Timeout
  <2>2. cid[c] \in 0..MaxCalls
    BY Zenon DEF TypeOK, CallerTypes
  <2>3. /\ created = << >> => created' = << >>
        /\ created # << >> => Len(created') <= 1 /\ created'[1].id = cid[c]
    <3>1. created' = created \/ created' = SlotAbandon(created, cid[c], 1)
      BY ZenonT(30), <1>3 DEF Timeout
    <3>2. created # << >> => created[1].id = cid[c] /\ Len(created) <= 1
      BY Zenon, <1>1, QueueFacts
    <3> QED
      BY Zenon, <2>2, <3>1, <3>2, ShortQueues
  <2>4. /\ echo = << >> => echo' = << >>
        /\ echo # << >> => Len(echo') <= 1 /\ echo'[1].id = cid[c]
    <3>1. echo' = echo \/ echo' = SlotAbandon(echo, cid[c], 1)
      BY Zenon, <1>3 DEF Timeout
    <3>2. echo # << >> => echo[1].id = cid[c] /\ Len(echo) <= 1
      BY Zenon, <1>1, QueueFacts
    <3> QED
      BY Zenon, <2>2, <3>1, <3>2, ShortQueues
  <2>5. NothingQueued => NothingQueued'
    BY Zenon, <2>1, <2>3, <2>4 DEF NothingQueued
  <2>6. HolderInv'
    BY <1>1, <2>1, HolderFacts DEF HolderInv, ReturnLocals, TypeOK, CallerTypes
  <2>7. QueueInv'
    BY ZenonT(30), <1>1, <2>1, <2>3, <2>4, QueueFacts, HolderFacts, ClientAssumption
       DEF QueueInv, ReturnLocals, TypeOK, CallerTypes
  <2>8. SpentInv'
    BY Zenon, <1>1, <1>3, <2>1, <2>3, <2>4, <2>5
       DEF HandlerInv, SpentInv, ReturnLocals, TypeOK, CallerTypes
  <2> QED
    BY Zenon, <2>6, <2>7, <2>8 DEF HandlerInv
<1> QED
  BY Zenon, <1>2, <1>3

LEMMA CloseConnKeeps ==
  ASSUME TypeOK, HandlerInv, NEW c \in Callers, CloseConn(c)
  PROVE  HandlerInv'
<1>1. mutex = c /\ UNCHANGED <<ppc, ph, status>> /\ Return(c) /\ pc[c] = "close"
  BY Zenon, HolderFacts DEF CloseConn, procVars
<1>2. created' = << >> /\ echo' = << >>
  BY Zenon, <1>1 DEF CloseConn, closeConn, SlotReset, HandlerInv, SpentInv
<1>3. \A h \in StatusHandles : status'[h] = 0
  BY Zenon, <1>1, QueueFacts DEF HandlerInv, SpentInv
<1> QED
  BY Zenon, <1>1, <1>2, <1>3, ReturnKeeps DEF NothingQueued

-----------------------------------------------------------------------------
(* The goroutines of the client.                                           *)

LEMMA readLoopKeeps ==
  ASSUME TypeOK, HandlerInv, readLoop
  PROVE  HandlerInv'
<1>1. UNCHANGED <<status, callerVars, ppc, ph>>
  BY Zenon DEF readLoop, LoopTest, GetRW, ReadPacket, ReadError, Send, RedialTest, Dial, DialFails,
         SetConn, SendMarker, ReaderUnchanged, procVars
<1>2. CASE ReadError
  BY Zenon, <1>1, <1>2, closeConnKeeps DEF ReadError
<1>3. CASE ~ReadError
  <2>1. UNCHANGED <<created, echo>> /\ (conn' = conn \/ conn' = nconn)
    BY Zenon, <1>3 DEF readLoop, LoopTest, GetRW, ReadPacket, Send, RedialTest, Dial, DialFails,
                SetConn, SendMarker
  <2> QED
    BY <1>1, <2>1, HandlerFrame DEF slotVars, callerVars, TypeOK, ConnTypes
<1> QED
  BY Zenon, <1>2, <1>3

(* Taking a handler empties the queue it is taken from.  A live one is the *)
(* holder's, and was all there was.                                        *)
LEMMA TakeHandlerKeeps ==
  ASSUME TypeOK, HandlerInv, NEW r \in Packet, NEW now \in {0, 1}, TakeHandler(r, now)
  PROVE  /\ created' \in {created, << >>} /\ echo' \in {echo, << >>}
         /\ \A h \in StatusHandles : status'[h] \in {status[h], 0}
         /\ ph'.internal => /\ mutex \in Callers /\ ph'.id = cid[mutex] /\ pc[mutex] # "set"
                            /\ NothingQueued' /\ ~NothingQueued
<1>1. CASE r.type = "job_created"
  <2>1. created' = << >> /\ UNCHANGED <<echo, status>> /\ ph' = SlotTaken(created, now)
    <3>1. created' = SlotTake(created, now) /\ UNCHANGED <<echo, status>> /\ ph' = SlotTaken(created, now)
      BY Zenon, <1>1 DEF TakeHandler
    <3> QED
      BY <3>1, ShortQueues, ClientAssumption
  <2>2. ph'.internal => created # << >> /\ ph' = created[1]
    BY <2>1, ShortQueues, ClientAssumption
  <2> QED
    BY Zenon, <2>1, <2>2, QueueFacts DEF NothingQueued
<1>2. CASE r.type = "echo_res"
  <2>1. echo' = << >> /\ UNCHANGED <<created, status>> /\ ph' = SlotTaken(echo, now)
    <3>1. echo' = SlotTake(echo, now) /\ UNCHANGED <<created, status>> /\ ph' = SlotTaken(echo, now)
      BY Zenon, <1>2 DEF TakeHandler
    <3> QED
      BY <3>1, ShortQueues, ClientAssumption
  <2>2. ph'.internal => echo # << >> /\ ph' = echo[1]
    BY <2>1, ShortQueues, ClientAssumption
  <2> QED
    BY Zenon, <2>1, <2>2, QueueFacts DEF NothingQueued
<1>3. CASE r.type = "status_res"
  <2>1. r.arg \in StatusHandles
    BY Zenon, <1>3, PacketTypes
  <2>2. /\ ph' = IF status[r.arg] = 0 THEN NoEntry ELSE LiveEntry(status[r.arg], FALSE)
        /\ status' = [status EXCEPT ![r.arg] = 0] /\ UNCHANGED <<created, echo>>
    BY ZenonT(30), <1>3 DEF TakeHandler
  <2>3. ph'.internal => status[r.arg] # 0 /\ ph'.id = status[r.arg]
    BY Zenon, <2>2 DEF NoEntry, LiveEntry
  <2> QED
    BY Zenon, <2>1, <2>2, <2>3, QueueFacts DEF NothingQueued, TypeOK, SlotTypes
<1> QED
  BY Zenon, <1>1, <1>2, <1>3 DEF TakeHandler

LEMMA ProcessReplyKeeps ==
  ASSUME TypeOK, HandlerInv, ProcessReply
  PROVE  HandlerInv'
<1>1. UNCHANGED <<conn, mutex, ncalls, pc, cid, ckind, carg, cres>>
  BY Zenon DEF ProcessReply, ProcessUnchanged, connVars, callerVars
<1>2. /\ created' \in {created, << >>} /\ echo' \in {echo, << >>}
      /\ \A h \in StatusHandles : status'[h] \in {status[h], 0}
      /\ ph'.internal => /\ mutex \in Callers /\ ph'.id = cid[mutex] /\ pc[mutex] # "set"
                         /\ NothingQueued' /\ ~NothingQueued
  <2>1. Head(in) \in Packet
    BY DEF ProcessReply, TypeOK, ReaderTypes
  <2> QED
    BY Zenon, <2>1, TakeHandlerKeeps DEF ProcessReply
<1>3. HolderInv'
  BY Zenon, <1>1 DEF HandlerInv, HolderInv
<1>4. QueueInv'
  BY Zenon, <1>1, <1>2, QueueFacts, ClientAssumption DEF QueueInv
<1>5. SpentInv'
  <2>1. NothingQueued => NothingQueued'
    BY Zenon, <1>2 DEF NothingQueued
  <2>2. ppc' = "deliver" =>
          /\ ph'.id \in 1..ncalls'
          /\ \A c \in Callers : cid'[c] = ph'.id =>
               pc'[c] \notin {"lock", "set"} /\ NothingQueued'
    <3>1. SUFFICES ASSUME ph'.internal
                   PROVE  /\ ph'.id \in 1..ncalls'
                          /\ \A c \in Callers : cid'[c] = ph'.id =>
                               pc'[c] \notin {"lock", "set"} /\ NothingQueued'
      BY Zenon DEF ProcessReply
    <3>2. mutex \in Callers /\ pc[mutex] \notin {"idle", "lock", "set"} /\ cid[mutex] \in 1..ncalls
      <4>1. mutex \in Callers /\ pc[mutex] # "set"
        BY Zenon, <1>2, <3>1
      <4>2. pc[mutex] \notin {"idle", "lock"} /\ cid[mutex] \in 0..ncalls /\ cid[mutex] # 0
        BY Zenon, <4>1, HolderFacts
      <4>3. ncalls \in Nat
        BY DEF TypeOK, CallerTypes
      <4> QED
        BY <4>1, <4>2, <4>3
    <3>3. \A c \in Callers : cid[c] = cid[mutex] => c = mutex
      BY Zenon, <3>2, HolderFacts
    <3> QED
      BY Zenon, <1>1, <1>2, <3>1, <3>2, <3>3
  <2> QED
    BY ZenonT(30), <1>1, <1>2, <2>1, <2>2 DEF HandlerInv, SpentInv
<1> QED
  BY Zenon, <1>3, <1>4, <1>5 DEF HandlerInv

LEMMA DeliverKeeps ==
  ASSUME TypeOK, HandlerInv, Deliver
  PROVE  HandlerInv'
<1>1. UNCHANGED <<conn, slotVars, mutex, ncalls, pc, cid, ckind, carg>> /\ ppc' = "recv"
  BY Zenon DEF Deliver, connVars
<1>2. HolderInv'
  BY Zenon, <1>1 DEF HandlerInv, HolderInv
<1>3. QueueInv'
  BY Zenon, <1>1 DEF HandlerInv, QueueInv, slotVars
<1>4. \A c \in Callers : cres'[c] # 0 => pc'[c] \notin {"idle", "lock", "set"} /\ NothingQueued'
  BY Zenon, <1>1 DEF Deliver, HandlerInv, SpentInv, NothingQueued, slotVars, TypeOK, CallerTypes
<1>5. SpentInv'
  BY Zenon, <1>1, <1>4 DEF HandlerInv, SpentInv, slotVars
<1> QED
  BY Zenon, <1>2, <1>3, <1>5 DEF HandlerInv

LEMMA processLoopKeeps ==
  ASSUME TypeOK, HandlerInv, processLoop
  PROVE  HandlerInv'
<1>1. CASE ProcessMarker \/ ProcessOther \/ ProcessWork \/ CallbackReturns \/ ProcessExit
  <2>1. UNCHANGED <<conn, slotVars, mutex, ncalls, pc, cid, ckind, carg, cres>>
    BY ZenonT(30), <1>1 DEF ProcessMarker, ProcessOther, ProcessWork, CallbackReturns, ProcessExit,
                ProcessUnchanged, connVars, callerVars
  <2>2. ppc' # "deliver"
    BY Zenon, <1>1 DEF ProcessMarker, ProcessOther, ProcessWork, CallbackReturns, ProcessExit
  <2> QED
    BY Zenon, <2>1, <2>2, HandlerFrame
<1> QED
  BY Zenon, <1>1, ProcessReplyKeeps, DeliverKeeps DEF processLoop

-----------------------------------------------------------------------------
LEMMA HandlerStep ==
  ASSUME TypeOK, HandlerInv, [Next]_vars
  PROVE  HandlerInv'
<1>1. ASSUME NEW c \in Callers, Caller(c)
      PROVE  HandlerInv'
  BY Zenon, <1>1, CallKeeps, LockKeeps, SetHandlerKeeps, WriteKeeps, ReceiveKeeps, TimeoutKeeps,
     CloseConnKeeps DEF Caller
<1>2. CASE SetClosed
  BY Zenon, <1>2, HandlerFrame DEF SetClosed, slotVars, callerVars, procVars
<1>3. CASE FinishClose
  BY Zenon, <1>3, closeConnKeeps DEF FinishClose, procVars
<1>4. CASE Server
  BY ZenonT(30), <1>4, HandlerFrame DEF Server, Answer, Ignore, Drop, Report, ServerUnchanged, connVars,
     callerVars, procVars
<1>5. CASE UNCHANGED vars
  BY Zenon, <1>5, HandlerFrame DEF vars, slotVars
<1> QED
  BY Zenon, <1>1, <1>2, <1>3, <1>4, <1>5, readLoopKeeps, processLoopKeeps DEF Next

LEMMA HandlerInit == Init => HandlerInv
<1> SUFFICES ASSUME Init PROVE HandlerInv
  OBVIOUS
<1>1. HolderInv
  BY ClientAssumption DEF Init, HolderInv
<1>2. QueueInv
  BY DEF Init, QueueInv
<1>3. SpentInv
  BY Zenon DEF Init, SpentInv
<1> QED
  BY Zenon, <1>1, <1>2, <1>3 DEF HandlerInv

(* The inductive invariant: client.Mutex is held from set to return, only  *)
(* its holder has a handler queued, and that handler is gone once its      *)
(* reply has been taken or the connection it was written on is lost.       *)
THEOREM HandlerCorrect == Spec => []HandlerInv
<1>1. TypeOK /\ HandlerInv /\ [Next]_vars => HandlerInv'
  BY Zenon, HandlerStep
<1> QED
  BY HandlerInit, <1>1, TypeCorrect, PTL DEF Spec

(* At any moment at most one handler is queued in created, echo and status *)
(* together, and it belongs to the call that holds client.Mutex: no path   *)
(* through do, Status, Echo, closeConn, readLoop or processLoop leaves one *)
(* behind for a later call's reply to meet.                                *)
THEOREM NoHandlerLeftBehind == Spec => []OnlyHolderQueued
<1>1. ASSUME TypeOK, HandlerInv
      PROVE  OnlyHolderQueued
  <2>1. \A q \in {created, echo} :
          /\ Len(q) <= 1
          /\ Len(q) = 1 => mutex # NoCaller /\ q[1].id = cid[mutex]
    <3>1. /\ Len(created) = 1 => created # << >>
          /\ Len(echo) = 1 => echo # << >>
      OBVIOUS
    <3> QED
      BY Zenon, <1>1, <3>1 DEF HandlerInv, QueueInv
  <2>2. created = << >> \/ echo = << >>
    BY Zenon, <1>1 DEF HandlerInv, QueueInv
  <2>3. \A h \in StatusHandles : status[h] # 0 => mutex # NoCaller /\ status[h] = cid[mutex]
    BY Zenon, <1>1 DEF HandlerInv, QueueInv
  <2> QED
    BY Zenon, <2>1, <2>2, <2>3 DEF OnlyHolderQueued
<1> QED
  BY <1>1, TypeCorrect, HandlerCorrect, PTL

(* processLoop never blocks on a result channel: when it has taken a       *)
(* handler nobody has answered that call yet, so the one-place channel is  *)
(* empty, and nobody but processLoop fills it.                             *)
THEOREM ResultChannelHasRoom == Spec => []DeliverNeverBlocks
<1>1. Init => DeliverNeverBlocks
  BY Zenon DEF Init, DeliverNeverBlocks
<1>2. ASSUME TypeOK, HandlerInv, DeliverNeverBlocks, [Next]_vars
      PROVE  DeliverNeverBlocks'
  <2>1. CASE ProcessReply
    <3>1. UNCHANGED <<mutex, cid, cres>>
      BY Zenon, <2>1 DEF ProcessReply, ProcessUnchanged, callerVars
    <3>2. ppc' = "deliver" => mutex \in Callers /\ ph'.id = cid[mutex] /\ ~NothingQueued
      <4>1. Head(in) \in Packet
        BY <2>1, <1>2 DEF ProcessReply, TypeOK, ReaderTypes
      <4> QED
        BY Zenon, <2>1, <1>2, <4>1, TakeHandlerKeeps DEF ProcessReply
    <3>3. ASSUME NEW c \in Callers, ~NothingQueued
          PROVE  cres[c] = 0
      BY Zenon, <1>2, <3>3 DEF HandlerInv, SpentInv
    <3> QED
      BY Zenon, <3>1, <3>2, <3>3 DEF DeliverNeverBlocks
  <2>2. CASE ppc' # "deliver"
    BY Zenon, <2>2 DEF DeliverNeverBlocks
  <2>3. ASSUME NEW c \in Callers, Caller(c)
        PROVE  DeliverNeverBlocks'
    <3>1. UNCHANGED <<ppc, ph>>
      BY ZenonT(30), <2>3 DEF Caller, Call, Lock, SetHandler, Write, WriteTo, Receive, Timeout, CloseConn,
                  procVars
    <3>2. \/ UNCHANGED <<cid, cres>>
          \/ Return(c)
          \/ \E k \in Kinds, h \in Args : Call(c, k, h)
      BY Zenon, <2>3 DEF Caller, Lock, SetHandler, Write, WriteTo, Receive, Timeout, CloseConn,
                  ReturnLocals
    <3>3. ppc = "deliver" => ph.id \in 1..ncalls
      BY Zenon, <1>2 DEF HandlerInv, SpentInv
    <3>4. cid \in [Callers -> 0..MaxCalls] /\ cres \in [Callers -> 0..MaxCalls]
      BY Zenon, <1>2 DEF TypeOK, CallerTypes
    <3>5. CASE UNCHANGED <<cid, cres>>
      BY Zenon, <1>2, <3>1, <3>5 DEF DeliverNeverBlocks
    <3>6. CASE Return(c)
      BY Zenon, <1>2, <3>1, <3>4, <3>6 DEF DeliverNeverBlocks, Return
    <3>7. CASE \E k \in Kinds, h \in Args : Call(c, k, h)
      <4>1. cid' = [cid EXCEPT ![c] = ncalls + 1] /\ UNCHANGED cres /\ ncalls \in Nat
        BY <1>2, <3>7 DEF Call, TypeOK, CallerTypes
      <4> QED
        BY <1>2, <3>1, <3>3, <3>4, <4>1 DEF DeliverNeverBlocks
    <3> QED
      BY Zenon, <3>2, <3>5, <3>6, <3>7
  <2>4. CASE UNCHANGED <<ppc, ph, cid, cres>>
    BY Zenon, <1>2, <2>4 DEF DeliverNeverBlocks
  <2>5. processLoop => ProcessReply \/ ppc' # "deliver"
    BY ZenonT(30) DEF processLoop, ProcessMarker, ProcessOther, Deliver, ProcessWork, CallbackReturns,
           ProcessExit
  <2>6. SetClosed \/ FinishClose \/ readLoop \/ Server => UNCHANGED <<ppc, ph, cid, cres>>
    BY Zenon DEF SetClosed, FinishClose, readLoop, LoopTest, GetRW, ReadPacket, ReadError, Send,
           RedialTest, Dial, DialFails, SetConn, SendMarker, ReaderUnchanged, Server, Answer,
           Ignore, Drop, Report, ServerUnchanged, callerVars, procVars
  <2>7. UNCHANGED vars => UNCHANGED <<ppc, ph, cid, cres>>
    BY Zenon DEF vars
  <2> QED
    BY Zenon, <1>2, <2>1, <2>2, <2>3, <2>4, <2>5, <2>6, <2>7 DEF Next
<1>3. TypeOK /\ HandlerInv /\ DeliverNeverBlocks /\ [Next]_vars => DeliverNeverBlocks'
  BY Zenon, <1>2
<1> QED
  BY <1>1, <1>3, TypeCorrect, HandlerCorrect, PTL DEF Spec

=============================================================================

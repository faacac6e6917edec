----------------------- MODULE ClientInterfaceProofs ------------------------
(***************************************************************************)
(* For every set of callers and every value of the bounds, what a user of  *)
(* a Client sees: ExceptionsEnabled tells what the server answered on the  *)
(* latest connection, and calls are served as RequestReply promises.       *)
(***************************************************************************)
EXTENDS ClientProofs

-----------------------------------------------------------------------------
(* Why ExceptionsEnabled is right once it is settled.  connect puts a      *)
(* marker into client.in before readLoop reads from the new connection, so *)
(* in client.in the packets of the latest connection are those after its   *)
(* marker, and the answer to its OPTION_REQ is the first of them.          *)

(* A packet the server sent on the latest connection.                      *)
Fresh(p) == p.type # "option_sent" /\ p.conn = nconn

(* Where the latest marker is: not in client.in yet, at place b of it, or  *)
(* received by processLoop.                                                *)
Unmarked == lastMarker < nconn /\ \A i \in 1..Len(in) : in[i].conn < nconn

MarkerAt(b) ==
  /\ lastMarker < nconn /\ in[b] = Marker(nconn)
  /\ \A i \in 1..Len(in) : (i < b => in[i].conn < nconn) /\ (i > b => Fresh(in[i]))

MarkerPassed == lastMarker = nconn /\ \A i \in 1..Len(in) : Fresh(in[i])

MarkerInv ==
  /\ \A i \in 1..Len(wire) : Fresh(wire[i])
  /\ rpc = "send" => Fresh(rresp)
  /\ Unmarked \/ MarkerPassed \/ \E b \in 1..Len(in) : MarkerAt(b)
  /\ rpc \in {"loop", "getRW", "read", "send"} => ~Unmarked
  /\ rpc \in {"setConn", "marker"} => Unmarked

Settled == lastMarker = nconn /\ ~optionPending
NoneIn  == \A i \in 1..Len(in) : ~Fresh(in[i])

(* The OPTION_RES is on its way, with nothing Fresh before it.             *)
AnswerAhead ==
  \/ \E i \in 1..Len(in) : /\ Fresh(in[i]) /\ in[i].type = "option_res"
                           /\ \A k \in 1..(i - 1) : ~Fresh(in[k])
  \/ NoneIn /\ rpc = "send" /\ rresp.type = "option_res"
  \/ NoneIn /\ rpc # "send" /\ wire # << >> /\ wire[1].type = "option_res"

(* The OPTION_REQ is the first request of a connection and its answer the  *)
(* first packet, whatever else is under way.                               *)
OptionWaits ==
  \A i \in 1..Len(reqs) : reqs[i].kind = "option" =>
    i = 1 /\ ~acked /\ wire = << >> /\ jobs = {} /\ rpc # "send" /\ NoneIn /\ ~Settled

Unacknowledged ==
  ~acked =>
    /\ \A i \in 1..Len(wire) : wire[i].type # "option_res"
    /\ rpc = "send" => rresp.type # "option_res"
    /\ \A i \in 1..Len(in) : Fresh(in[i]) => in[i].type # "option_res"
    /\ Settled => excState # "on"

Acknowledged == acked => IF Settled THEN excState = "on" ELSE AnswerAhead

OptionInv == OptionWaits /\ Unacknowledged /\ Acknowledged

ExcInv == WantExceptions => MarkerInv /\ OptionInv

LEMMA AppendAt ==
  ASSUME NEW S, NEW s \in Seq(S), NEW p \in S
  PROVE  /\ Append(s, p) \in Seq(S) /\ Len(s) \in Nat /\ Len(Append(s, p)) = Len(s) + 1
         /\ \A i \in 1..Len(s) : Append(s, p)[i] = s[i]
         /\ Append(s, p)[Len(s) + 1] = p
BY AppendProperties, LenProperties

LEMMA OneMore ==
  ASSUME NEW m \in Nat, NEW n, n = m + 1
  PROVE  /\ \A i \in 1..n : i \in 1..m \/ i = m + 1
         /\ m + 1 \in 1..n
         /\ \A i \in 1..n : i < m + 1 => i \in 1..m
         /\ \A i \in 1..n : ~ (i > m + 1)
OBVIOUS

LEMMA TailAt ==
  ASSUME NEW S, NEW s \in Seq(S), s # << >>
  PROVE  /\ Len(s) \in Nat /\ 1 \in 1..Len(s) /\ Head(s) = s[1] /\ s[1] \in S
         /\ \A i \in 1..Len(Tail(s)) : i + 1 \in 1..Len(s) /\ Tail(s)[i] = s[i + 1]
         /\ \A i \in 1..Len(s) : i # 1 => i - 1 \in 1..Len(Tail(s)) /\ Tail(s)[i - 1] = s[i]
<1>1. /\ Tail(s) \in Seq(S) /\ Len(Tail(s)) = Len(s) - 1 /\ Head(s) \in S
      /\ \A i \in 1..Len(Tail(s)) : Tail(s)[i] = s[i + 1]
  BY Zenon, HeadTailProperties
<1>2. Len(s) \in Nat \ {0} /\ Head(s) = s[1]
  BY EmptySeq, HeadTailProperties
<1> DEFINE l == Len(s)  t == Tail(s)
<1>3. /\ l \in Nat \ {0} /\ Len(t) = l - 1 /\ \A i \in 1..Len(t) : t[i] = s[i + 1]
  BY Zenon, <1>1, <1>2
<1> HIDE DEF l, t
<1>4. \A i \in 1..(l - 1) : i + 1 \in 1..l /\ t[i] = s[i + 1]
  BY <1>3
<1>5. \A i \in 1..l : i # 1 => i - 1 \in 1..(l - 1) /\ i - 1 + 1 = i
  BY <1>3
<1> QED
  BY <1>1, <1>2, <1>3, <1>4, <1>5 DEF l, t

(* readLoop's positions with and without the marker sent.                  *)
Reading == {"loop", "getRW", "read", "send"}
Marking == {"setConn", "marker"}

LEMMA ExcTypes ==
  ASSUME TypeOK
  PROVE  /\ in \in Seq(Packet) /\ wire \in Seq(Packet) /\ reqs \in Seq(Request)
         /\ rresp \in Packet /\ acked \in BOOLEAN /\ optionPending \in BOOLEAN
         /\ nconn \in Nat /\ nconn \in 1..MaxConn /\ lastMarker \in Nat
<1>1. nconn \in 1..MaxConn /\ lastMarker \in 0..MaxConn /\ MaxConn \in Nat
  BY Zenon, ClientAssumption DEF TypeOK, ConnTypes, ProcTypes
<1>2. nconn \in Nat /\ lastMarker \in Nat
  BY <1>1
<1> QED
  BY Zenon, <1>1, <1>2 DEF TypeOK, ReaderTypes, ServerTypes, ProcTypes

(* Steps that touch neither the packets, the requests nor the option.      *)
LEMMA ExcFrame ==
  ASSUME MarkerInv, OptionInv,
         UNCHANGED <<in, wire, reqs, jobs, acked, nconn, lastMarker, optionPending, excState>>,
         rpc = "send" \/ rpc' = "send" => UNCHANGED <<rpc, rresp>>,
         rpc' \in Reading => rpc \in Reading, rpc' \in Marking => rpc \in Marking
  PROVE  MarkerInv' /\ OptionInv'
<1>1. /\ (Unmarked' <=> Unmarked) /\ (MarkerPassed' <=> MarkerPassed)
      /\ (\A b : MarkerAt(b)' <=> MarkerAt(b)) /\ (Settled' <=> Settled) /\ (NoneIn' <=> NoneIn)
  BY Zenon DEF Unmarked, MarkerPassed, MarkerAt, Settled, NoneIn, Fresh, Marker
<1>2. MarkerInv'
  BY Zenon, <1>1 DEF MarkerInv, Reading, Marking, Fresh
<1>3. OptionWaits'
  BY Zenon, <1>1 DEF OptionInv, OptionWaits
<1>4. Unacknowledged'
  BY Zenon, <1>1 DEF OptionInv, Unacknowledged, Fresh
<1>5. AnswerAhead => AnswerAhead'
  BY Zenon, <1>1 DEF AnswerAhead, Fresh
<1>6. Acknowledged'
  BY Zenon, <1>1, <1>5 DEF OptionInv, Acknowledged
<1> QED
  BY Zenon, <1>2, <1>3, <1>4, <1>6 DEF OptionInv

(* What the server sends besides the answer to the OPTION_REQ.             *)
LEMMA ExcOther ==
  ASSUME TypeOK, MarkerInv, OptionInv, NEW p \in Packet, Fresh(p), p.type # "option_res",
         wire' = Append(wire, p), \A i \in 1..Len(reqs') : reqs'[i].kind # "option",
         UNCHANGED <<in, acked, nconn, rpc, rresp, lastMarker, optionPending, excState>>
  PROVE  MarkerInv' /\ OptionInv'
<1>1. /\ Len(wire) \in Nat /\ Len(wire') = Len(wire) + 1 /\ wire'[Len(wire) + 1] = p
      /\ \A i \in 1..Len(wire) : wire'[i] = wire[i]
  <2>1. wire \in Seq(Packet)
    BY ExcTypes, Zenon
  <2>2. /\ Len(wire) \in Nat /\ Len(Append(wire, p)) = Len(wire) + 1
        /\ \A i \in 1..Len(wire) : Append(wire, p)[i] = wire[i]
        /\ Append(wire, p)[Len(wire) + 1] = p
    BY <2>1, AppendAt
  <2> QED
    BY <2>2, Zenon
<1>2. \A i \in 1..Len(wire') : i \in 1..Len(wire) \/ i = Len(wire) + 1
  BY <1>1
<1>3. /\ (Unmarked' <=> Unmarked) /\ (MarkerPassed' <=> MarkerPassed)
      /\ (\A b : MarkerAt(b)' <=> MarkerAt(b)) /\ (Settled' <=> Settled) /\ (NoneIn' <=> NoneIn)
  BY ZenonT(30) DEF Unmarked, MarkerPassed, MarkerAt, Settled, NoneIn, Fresh, Marker
<1>4. \A i \in 1..Len(wire') : Fresh(wire'[i])
  BY ZenonT(30), <1>1, <1>2 DEF MarkerInv
<1>5. MarkerInv'
  BY ZenonT(30), <1>3, <1>4 DEF MarkerInv, Fresh
<1>6. OptionWaits'
  BY Zenon DEF OptionWaits
<1>7. Unacknowledged'
  <2>1. ASSUME ~acked, NEW i \in 1..Len(wire')
        PROVE  wire'[i].type # "option_res"
    BY Zenon, <1>1, <1>2, <2>1 DEF OptionInv, Unacknowledged
  <2> QED
    BY Zenon, <1>3, <2>1 DEF OptionInv, Unacknowledged, Fresh
<1>8. AnswerAhead => AnswerAhead'
  <2>1. wire # << >> => wire' # << >> /\ wire'[1] = wire[1]
    <3>1. wire # << >> => 1 \in 1..Len(wire)
      BY Zenon, ExcTypes, TailAt
    <3>2. wire' # << >>
      BY <1>1
    <3> QED
      BY Zenon, <1>1, <3>1, <3>2
  <2> QED
    BY Zenon, <1>3, <2>1 DEF AnswerAhead, Fresh
<1>9. Acknowledged'
  BY Zenon, <1>3, <1>8 DEF OptionInv, Acknowledged
<1> QED
  BY Zenon, <1>5, <1>6, <1>7, <1>9 DEF OptionInv

(* A call's request goes behind the OPTION_REQ.                            *)
LEMMA ExcWrite ==
  ASSUME TypeOK, MarkerInv, OptionInv, NEW q \in Request, q.kind # "option",
         reqs' = Append(reqs, q),
         UNCHANGED <<in, wire, jobs, acked, nconn, rpc, rresp, lastMarker, optionPending, excState>>
  PROVE  MarkerInv' /\ OptionInv'
<1>1. /\ Len(reqs) \in Nat /\ Len(reqs') = Len(reqs) + 1 /\ reqs'[Len(reqs) + 1] = q
      /\ \A i \in 1..Len(reqs) : reqs'[i] = reqs[i]
  BY ExcTypes, AppendAt
<1>2. \A i \in 1..Len(reqs') : i \in 1..Len(reqs) \/ i = Len(reqs) + 1
  BY <1>1
<1>3. /\ (Unmarked' <=> Unmarked) /\ (MarkerPassed' <=> MarkerPassed)
      /\ (\A b : MarkerAt(b)' <=> MarkerAt(b)) /\ (Settled' <=> Settled) /\ (NoneIn' <=> NoneIn)
  BY Zenon DEF Unmarked, MarkerPassed, MarkerAt, Settled, NoneIn, Fresh, Marker
<1>4. MarkerInv'
  BY Zenon, <1>3 DEF MarkerInv, Fresh
<1>5. OptionWaits'
  <2> SUFFICES ASSUME NEW i \in 1..Len(reqs'), reqs'[i].kind = "option"
               PROVE  i = 1 /\ ~acked /\ wire = << >> /\ jobs = {} /\ rpc # "send" /\ NoneIn
                      /\ ~Settled
    BY Zenon, <1>3 DEF OptionWaits
  <2>1. i \in 1..Len(reqs) /\ reqs'[i] = reqs[i]
    BY Zenon, <1>1, <1>2
  <2> QED
    BY Zenon, <2>1 DEF OptionInv, OptionWaits
<1>6. Unacknowledged'
  BY Zenon, <1>3 DEF OptionInv, Unacknowledged, Fresh
<1>7. AnswerAhead => AnswerAhead'
  BY Zenon, <1>3 DEF AnswerAhead, Fresh
<1>8. Acknowledged'
  BY <1>3, <1>7 DEF OptionInv, Acknowledged
<1> QED
  BY Zenon, <1>4, <1>5, <1>6, <1>8 DEF OptionInv

LEMMA ExcServer ==
  ASSUME TypeOK, MarkerInv, OptionInv, Server
  PROVE  MarkerInv' /\ OptionInv'
<1>1. UNCHANGED <<in, nconn, rpc, rresp, lastMarker, optionPending, excState>>
  BY Zenon DEF Server, Answer, Ignore, Drop, Report, ServerUnchanged, connVars, readerVars, procVars
<1>2. CASE Drop
  BY Zenon, <1>1, <1>2, ExcFrame DEF Drop
<1>3. ASSUME reqs # << >>, reqs' = Tail(reqs)
      PROVE  \A i \in 1..Len(reqs') : reqs'[i].kind # "option"
  <2> SUFFICES ASSUME NEW i \in 1..Len(reqs') PROVE reqs'[i].kind # "option"
    OBVIOUS
  <2>1. i + 1 \in 1..Len(reqs) /\ reqs'[i] = reqs[i + 1]
    BY <1>3, ExcTypes, TailAt
  <2>2. i + 1 # 1
    OBVIOUS
  <2> QED
    BY Zenon, <2>1, <2>2 DEF OptionInv, OptionWaits
<1>4. /\ (Unmarked' <=> Unmarked) /\ (MarkerPassed' <=> MarkerPassed)
      /\ (\A b : MarkerAt(b)' <=> MarkerAt(b)) /\ (Settled' <=> Settled) /\ (NoneIn' <=> NoneIn)
  BY Zenon, <1>1 DEF Unmarked, MarkerPassed, MarkerAt, Settled, NoneIn, Fresh, Marker
<1>5. CASE Ignore
  <2>1. reqs # << >> /\ reqs' = Tail(reqs) /\ UNCHANGED <<wire, jobs, acked>>
    BY Zenon, <1>5 DEF Ignore
  <2>2. OptionWaits'
    BY Zenon, <1>3, <2>1 DEF OptionWaits
  <2>3. MarkerInv'
    BY Zenon, <1>1, <1>4, <2>1 DEF MarkerInv, Fresh
  <2>4. Unacknowledged'
    BY Zenon, <1>1, <1>4, <2>1 DEF OptionInv, Unacknowledged, Fresh
  <2>5. AnswerAhead => AnswerAhead'
    BY Zenon, <1>1, <1>4, <2>1 DEF AnswerAhead, Fresh
  <2>6. Acknowledged'
    BY Zenon, <1>1, <1>4, <2>1, <2>5 DEF OptionInv, Acknowledged
  <2> QED
    BY Zenon, <2>2, <2>3, <2>4, <2>6 DEF OptionInv
<1>6. ASSUME NEW j \in Calls, NEW t \in {"work_data", "work_done"}, Report(j, t)
      PROVE  MarkerInv' /\ OptionInv'
  <2> DEFINE p == FromServer(t, j, NoHandle)
  <2>1. UNCHANGED <<reqs, acked>> /\ wire' = Append(wire, p) /\ jobs # {}
    BY Zenon, <1>6 DEF Report
  <2>2. p \in Packet /\ Fresh(p) /\ p.type # "option_res"
    BY ZenonT(30), <1>6, ExcTypes, ReportTypes DEF FromServer, Fresh
  <2>3. \A i \in 1..Len(reqs') : reqs'[i].kind # "option"
    BY Zenon, <2>1 DEF OptionInv, OptionWaits
  <2> HIDE DEF p
  <2> QED
    BY Zenon, <1>1, <2>1, <2>2, <2>3, ExcOther
<1>7. CASE Answer
  <2> DEFINE q == Head(reqs)
  <2>1. PICK t \in {Reply(q.kind), "error", "malformed"} :
          wire' = Append(wire, FromServer(t, q.id, q.arg)) /\ acked' = (acked \/ t = "option_res")
    BY Zenon, <1>7 DEF Answer
  <2>2. reqs # << >> /\ reqs' = Tail(reqs)
    BY Zenon, <1>7 DEF Answer
  <2> DEFINE p == FromServer(t, q.id, q.arg)
  <2>3. q = reqs[1] /\ 1 \in 1..Len(reqs) /\ q \in Request
    BY Zenon, <2>2, ExcTypes, TailAt
  <2>4. p \in Packet
    BY Zenon, <2>3, ExcTypes, AnswerTypes
  <2>5. p.type = t /\ Fresh(p)
    <3>1. t # "option_sent"
      BY Zenon DEF Reply
    <3> QED
      BY Zenon, <3>1 DEF FromServer, Fresh
  <2>6. t = "option_res" => q.kind = "option"
    BY Zenon DEF Reply
  <2>7. \A i \in 1..Len(reqs') : reqs'[i].kind # "option"
    BY Zenon, <1>3, <2>2
  <2>8. wire' = Append(wire, p)
    BY Zenon, <2>1
  <2> HIDE DEF p, q
  <2>9. CASE t # "option_res"
    <3>1. acked' = acked
      BY Zenon, <2>1, <2>9, ExcTypes
    <3> QED
      BY <1>1, <2>4, <2>5, <2>7, <2>8, <2>9, <3>1, ExcOther
  <2>10. CASE t = "option_res"
    <3>1. wire = << >> /\ rpc # "send" /\ NoneIn /\ ~Settled
      BY Zenon, <2>3, <2>6, <2>10 DEF OptionInv, OptionWaits
    <3>2. Len(wire') = 1 /\ wire'[1] = p /\ acked' = TRUE
      <4>1. acked' = TRUE
        BY Zenon, <2>1, <2>10
      <4>2. wire' = <<p>>
        BY <2>8, <3>1
      <4> QED
        BY Zenon, <4>1, <4>2
    <3>3. wire' # << >>
      BY <3>2
    <3>4. \A i \in 1..Len(wire') : i = 1
      BY <3>2
    <3>5. MarkerInv'
      BY Zenon, <1>1, <1>4, <2>5, <3>2, <3>4 DEF MarkerInv, Fresh
    <3>6. OptionWaits'
      BY Zenon, <2>7 DEF OptionWaits
    <3>7. Unacknowledged'
      BY Zenon, <3>2 DEF Unacknowledged
    <3>8. Acknowledged'
      BY Zenon, <1>1, <1>4, <2>5, <2>10, <3>1, <3>2, <3>3 DEF Acknowledged, AnswerAhead
    <3> QED
      BY <3>5, <3>6, <3>7, <3>8 DEF OptionInv
  <2> QED
    BY Zenon, <2>9, <2>10
<1> QED
  BY <1>2, <1>5, <1>6, <1>7 DEF Server

(* processLoop receives a packet: the marker, or one that settles the      *)
(* option if it is the first after it.                                     *)
LEMMA ExcReceive ==
  ASSUME TypeOK, MarkerInv, OptionInv, in # << >>, in' = Tail(in),
         UNCHANGED <<reqs, wire, jobs, acked, nconn, rpc, rresp>>,
         \/ /\ Head(in).type = "option_sent" /\ optionPending' = TRUE
            /\ lastMarker' = Head(in).conn /\ excState' = excState
         \/ /\ Head(in).type # "option_sent" /\ SettleOption(Head(in)) /\ lastMarker' = lastMarker
  PROVE  MarkerInv' /\ OptionInv'
<1> DEFINE p == Head(in)
<1>1. /\ Len(in) \in Nat /\ 1 \in 1..Len(in) /\ p = in[1]
      /\ \A i \in 1..Len(in') : i + 1 \in 1..Len(in) /\ in'[i] = in[i + 1]
      /\ \A i \in 1..Len(in) : i # 1 => i - 1 \in 1..Len(in') /\ in'[i - 1] = in[i]
  BY Zenon, ExcTypes, TailAt
<1>2. /\ nconn \in Nat /\ lastMarker \in Nat /\ optionPending \in BOOLEAN
  BY Zenon, ExcTypes
<1>3. \/ /\ p.type = "option_sent" /\ optionPending' = TRUE
         /\ lastMarker' = p.conn /\ excState' = excState
      \/ /\ p.type # "option_sent" /\ SettleOption(p) /\ lastMarker' = lastMarker
  OBVIOUS
<1> HIDE DEF p
<1>4. \A x : Fresh(x)' <=> Fresh(x)
  BY Zenon DEF Fresh
<1> DEFINE Phase == /\ Unmarked => Unmarked'
                    /\ ~Unmarked => ~Unmarked' /\ (MarkerPassed' \/ \E b \in 1..Len(in') : MarkerAt(b)')
           Effect == IF Fresh(p) THEN /\ Settled'
                                      /\ Settled => excState' = excState
                                      /\ ~Settled => (excState' = "on" <=> p.type = "option_res")
                     ELSE ~Settled /\ ~Settled'
<1>5. ASSUME Unmarked
      PROVE  Phase /\ Effect
  <2>1. p.conn < nconn /\ lastMarker < nconn
    BY Zenon, <1>1, <1>5 DEF Unmarked
  <2>2. lastMarker' < nconn
    BY Zenon, <1>3, <2>1
  <2>3. p.conn # nconn /\ lastMarker # nconn /\ lastMarker' # nconn
    <3>1. \A x : x < nconn => x # nconn
      BY <1>2
    <3> QED
      BY Zenon, <2>1, <2>2, <3>1
  <2>4. \A i \in 1..Len(in') : in'[i].conn < nconn
    BY Zenon, <1>1, <1>5 DEF Unmarked
  <2>5. Unmarked'
    BY Zenon, <2>2, <2>4 DEF Unmarked
  <2>6. ~Fresh(p) /\ ~Settled /\ ~Settled'
    BY Zenon, <2>3 DEF Fresh, Settled
  <2> QED
    BY Zenon, <1>5, <2>5, <2>6
<1>6. ASSUME NEW b \in 1..Len(in), MarkerAt(b)
      PROVE  Phase /\ Effect
  <2>1. lastMarker < nconn /\ lastMarker # nconn
    BY <1>2, <1>6 DEF MarkerAt
  <2>2. ~Unmarked
    BY <1>2, <1>6 DEF Unmarked, MarkerAt, Marker
  <2>3. CASE b = 1
    <3>1. p = Marker(nconn) /\ p.type = "option_sent" /\ p.conn = nconn
      BY <1>1, <1>6, <2>3 DEF MarkerAt, Marker
    <3>2. lastMarker' = nconn /\ optionPending'
      BY Zenon, <1>3, <3>1
    <3>3. \A i \in 1..Len(in') : Fresh(in'[i])
      <4> SUFFICES ASSUME NEW i \in 1..Len(in') PROVE Fresh(in'[i])
        OBVIOUS
      <4>1. i + 1 \in 1..Len(in) /\ in'[i] = in[i + 1] /\ i + 1 > b
        BY <1>1, <2>3
      <4> QED
        BY Zenon, <1>6, <4>1 DEF MarkerAt
    <3>4. MarkerPassed'
      BY Zenon, <1>4, <3>2, <3>3 DEF MarkerPassed
    <3>5. ~Unmarked'
      BY <1>2, <3>2 DEF Unmarked
    <3>6. ~Fresh(p) /\ ~Settled /\ ~Settled'
      BY Zenon, <2>1, <3>1, <3>2 DEF Fresh, Settled
    <3> QED
      BY Zenon, <2>2, <3>4, <3>5, <3>6
  <2>4. CASE b # 1
    <3>1. p.conn < nconn
      <4>1. 1 < b
        BY <2>4
      <4> QED
        BY Zenon, <1>1, <1>6, <4>1 DEF MarkerAt
    <3>2. lastMarker' < nconn
      BY Zenon, <1>3, <2>1, <3>1
    <3>3. p.conn # nconn /\ lastMarker' # nconn
      <4>1. \A x : x < nconn => x # nconn
        BY <1>2
      <4> QED
        BY Zenon, <3>1, <3>2, <4>1
    <3>4. b - 1 \in 1..Len(in') /\ in'[b - 1] = Marker(nconn)
      BY Zenon, <1>1, <1>6, <2>4 DEF MarkerAt
    <3>5. ASSUME NEW i \in 1..Len(in')
          PROVE  (i < b - 1 => in'[i].conn < nconn) /\ (i > b - 1 => Fresh(in'[i]))
      <4>1. /\ i + 1 \in 1..Len(in) /\ in'[i] = in[i + 1]
            /\ (i < b - 1 => i + 1 < b) /\ (i > b - 1 => i + 1 > b)
        BY <1>1
      <4> QED
        BY Zenon, <1>6, <4>1 DEF MarkerAt
    <3>6. MarkerAt(b - 1)'
      BY ZenonT(30), <1>4, <3>2, <3>4, <3>5 DEF MarkerAt
    <3>7. ~Unmarked'
      <4>1. in'[b - 1].conn = nconn' /\ ~ (nconn' < nconn')
        BY <1>2, <3>4 DEF Marker
      <4> QED
        BY Zenon, <3>4, <4>1 DEF Unmarked
    <3>8. ~Fresh(p) /\ ~Settled /\ ~Settled'
      BY Zenon, <2>1, <3>3 DEF Fresh, Settled
    <3> QED
      BY Zenon, <2>2, <3>4, <3>6, <3>7, <3>8
  <2> QED
    BY Zenon, <2>3, <2>4
<1>7. ASSUME MarkerPassed
      PROVE  Phase /\ Effect
  <2>1. Fresh(p) /\ lastMarker = nconn /\ p.type # "option_sent"
    BY Zenon, <1>1, <1>7 DEF MarkerPassed, Fresh
  <2>2. lastMarker' = nconn /\ SettleOption(p)
    BY Zenon, <1>3, <2>1
  <2>3. \A i \in 1..Len(in') : Fresh(in'[i])
    BY Zenon, <1>1, <1>7 DEF MarkerPassed
  <2>4. MarkerPassed'
    BY Zenon, <1>4, <2>2, <2>3 DEF MarkerPassed
  <2>5. ~Unmarked /\ ~Unmarked'
    BY <1>2, <2>1, <2>2 DEF Unmarked
  <2>6. Effect
    BY Zenon, <1>2, <2>1, <2>2 DEF Settled, SettleOption
  <2> QED
    BY Zenon, <2>4, <2>5, <2>6
<1>8. Phase /\ Effect
  BY ZenonT(30), <1>5, <1>6, <1>7 DEF MarkerInv
<1> HIDE DEF Phase, Effect
<1>9. MarkerInv'
  BY Zenon, <1>4, <1>8 DEF Phase, MarkerInv
<1>10. NoneIn => NoneIn' /\ ~Fresh(p)
  BY Zenon, <1>1, <1>4 DEF NoneIn
<1>11. OptionWaits'
  BY Zenon, <1>8, <1>10 DEF Effect, OptionInv, OptionWaits
<1>12. Unacknowledged'
  <2>1. ASSUME ~acked, NEW i \in 1..Len(in'), Fresh(in'[i])
        PROVE  in'[i].type # "option_res"
    BY <1>1, <2>1 DEF OptionInv, Unacknowledged
  <2>2. ASSUME ~acked, Settled'
        PROVE  excState' # "on"
    <3>1. Fresh(p) => p.type # "option_res"
      BY Zenon, <1>1, <2>2 DEF OptionInv, Unacknowledged
    <3> QED
      BY Zenon, <1>8, <2>2, <3>1 DEF Effect, OptionInv, Unacknowledged
  <2> QED
    BY Zenon, <1>4, <2>1, <2>2 DEF OptionInv, Unacknowledged
<1>13. Acknowledged'
  <2> SUFFICES ASSUME acked
               PROVE  IF Settled' THEN excState' = "on" ELSE AnswerAhead'
    BY Zenon DEF Acknowledged
  <2>1. CASE Settled
    BY Zenon, <1>8, <2>1 DEF Effect, OptionInv, Acknowledged
  <2>2. CASE ~Settled /\ NoneIn
    <3>1. ~Settled' /\ NoneIn' /\ AnswerAhead
      BY Zenon, <1>8, <1>10, <2>2 DEF Effect, OptionInv, Acknowledged
    <3> QED
      BY Zenon, <2>2, <3>1 DEF AnswerAhead, NoneIn
  <2>3. CASE ~Settled /\ ~NoneIn
    <3>1. PICK i \in 1..Len(in) : /\ Fresh(in[i]) /\ in[i].type = "option_res"
                                  /\ \A k \in 1..(i - 1) : ~Fresh(in[k])
      BY Zenon, <2>3 DEF OptionInv, Acknowledged, AnswerAhead
    <3>2. CASE i = 1
      BY Zenon, <1>1, <1>8, <2>3, <3>1, <3>2 DEF Effect
    <3>3. CASE i # 1
      <4>1. 1 \in 1..(i - 1) /\ i - 1 \in 1..Len(in') /\ in'[i - 1] = in[i]
        BY <1>1, <3>3
      <4>2. ~Fresh(p)
        BY Zenon, <1>1, <3>1, <4>1
      <4>3. ASSUME NEW k \in 1..(i - 1 - 1)
            PROVE  ~Fresh(in'[k])
        <5>1. k + 1 \in 1..(i - 1) /\ k \in 1..Len(in')
          BY <4>1
        <5>2. in'[k] = in[k + 1]
          BY Zenon, <1>1, <5>1
        <5> QED
          BY Zenon, <3>1, <5>1, <5>2
      <4>4. AnswerAhead'
        BY Zenon, <1>4, <3>1, <4>1, <4>3 DEF AnswerAhead
      <4> QED
        BY Zenon, <1>8, <4>2, <4>4 DEF Effect
    <3> QED
      BY Zenon, <3>2, <3>3
  <2> QED
    BY Zenon, <2>1, <2>2, <2>3
<1> QED
  BY Zenon, <1>9, <1>11, <1>12, <1>13 DEF OptionInv

(* The three steps of readLoop that move a packet, and the dial.           *)
LEMMA ExcSend ==
  ASSUME TypeOK, MarkerInv, OptionInv, Send
  PROVE  MarkerInv' /\ OptionInv'
<1>1. /\ rpc = "send" /\ rpc' = "loop" /\ in' = Append(in, rresp)
      /\ UNCHANGED <<reqs, wire, jobs, acked, nconn, lastMarker, optionPending, excState>>
  BY Zenon DEF Send, ReaderUnchanged, serverVars, procVars
<1>2. /\ Len(in) \in Nat /\ Len(in') = Len(in) + 1 /\ in'[Len(in) + 1] = rresp
      /\ \A i \in 1..Len(in) : in'[i] = in[i]
  BY <1>1, ExcTypes, AppendAt
<1>3. /\ \A i \in 1..Len(in') : i \in 1..Len(in) \/ i = Len(in) + 1
      /\ \A i \in 1..Len(in) : i \in 1..Len(in')
      /\ Len(in) + 1 \in 1..Len(in') /\ \A k \in 1..(Len(in) + 1 - 1) : k \in 1..Len(in)
  BY <1>2
<1>4. (\A x : Fresh(x)' <=> Fresh(x)) /\ Fresh(rresp)
  BY Zenon, <1>1 DEF MarkerInv, Fresh
<1>5. ~Unmarked'
  <2>1. in'[Len(in) + 1].conn = nconn' /\ ~ (nconn' < nconn')
    BY <1>1, <1>2, <1>4, ExcTypes DEF Fresh
  <2> QED
    BY Zenon, <1>3, <2>1 DEF Unmarked
<1>6. MarkerPassed' \/ \E b \in 1..Len(in') : MarkerAt(b)'
  <2>1. MarkerPassed => MarkerPassed'
    BY Zenon, <1>1, <1>2, <1>3, <1>4 DEF MarkerPassed
  <2>2. ASSUME NEW b \in 1..Len(in), MarkerAt(b)
        PROVE  b \in 1..Len(in') /\ MarkerAt(b)'
    <3>1. ~ (Len(in) + 1 < b) /\ b \in 1..Len(in') /\ in'[b] = in[b]
      BY <1>2, <1>3
    <3>2. ASSUME NEW i \in 1..Len(in')
          PROVE  (i < b => in'[i].conn < nconn) /\ (i > b => Fresh(in'[i]))
      BY Zenon, <1>2, <1>3, <1>4, <2>2, <3>1 DEF MarkerAt
    <3> QED
      BY Zenon, <1>1, <1>4, <2>2, <3>1, <3>2 DEF MarkerAt
  <2> QED
    BY Zenon, <1>1, <2>1, <2>2 DEF MarkerInv
<1>7. MarkerInv'
  BY Zenon, <1>1, <1>4, <1>5, <1>6 DEF MarkerInv
<1>8. OptionWaits'
  BY Zenon, <1>1 DEF OptionInv, OptionWaits
<1>9. Settled' <=> Settled
  BY Zenon, <1>1 DEF Settled
<1>10. Unacknowledged'
  <2>1. ASSUME ~acked, NEW i \in 1..Len(in'), Fresh(in'[i])
        PROVE  in'[i].type # "option_res"
    BY ZenonT(30), <1>1, <1>2, <1>3, <2>1 DEF OptionInv, Unacknowledged
  <2> QED
    BY ZenonT(30), <1>1, <1>4, <1>9, <2>1 DEF OptionInv, Unacknowledged
<1>11. AnswerAhead => AnswerAhead'
  <2>1. ASSUME NEW i \in 1..Len(in), Fresh(in[i]), in[i].type = "option_res",
               \A k \in 1..(i - 1) : ~Fresh(in[k])
        PROVE  AnswerAhead'
    <3>1. i \in 1..Len(in') /\ in'[i] = in[i] /\ \A k \in 1..(i - 1) : in'[k] = in[k]
      BY <1>2, <1>3
    <3> QED
      BY Zenon, <1>4, <2>1, <3>1 DEF AnswerAhead
  <2>2. ASSUME NoneIn, rresp.type = "option_res"
        PROVE  AnswerAhead'
    <3>1. \A k \in 1..(Len(in) + 1 - 1) : ~Fresh(in'[k])
      BY Zenon, <1>2, <1>3, <2>2 DEF NoneIn
    <3> QED
      BY <1>2, <1>3, <1>4, <2>2, <3>1 DEF AnswerAhead
  <2> QED
    BY Zenon, <1>1, <2>1, <2>2 DEF AnswerAhead
<1>12. Acknowledged'
  BY Zenon, <1>1, <1>9, <1>11 DEF OptionInv, Acknowledged
<1> QED
  BY Zenon, <1>7, <1>8, <1>10, <1>12 DEF OptionInv

LEMMA ExcMarker ==
  ASSUME TypeOK, MarkerInv, OptionInv, SendMarker
  PROVE  MarkerInv' /\ OptionInv'
<1>1. /\ rpc = "marker" /\ rpc' = "loop" /\ in' = Append(in, Marker(nconn))
      /\ UNCHANGED <<reqs, wire, jobs, acked, nconn, rresp, lastMarker, optionPending, excState>>
  BY Zenon DEF SendMarker, ReaderUnchanged, serverVars, procVars
<1>2. Marker(nconn) \in Packet /\ ~Fresh(Marker(nconn)) /\ Marker(nconn).conn = nconn
  <2>1. nconn \in 0..MaxConn
    BY ExcTypes, ClientAssumption
  <2> QED
    BY Zenon, <2>1, PacketTypes DEF Marker, Fresh
<1>3. /\ Len(in) \in Nat /\ Len(in') = Len(in) + 1 /\ in'[Len(in) + 1] = Marker(nconn)
      /\ \A i \in 1..Len(in) : in'[i] = in[i]
  <2>1. in \in Seq(Packet)
    BY ExcTypes, Zenon
  <2>2. /\ Len(in) \in Nat /\ Len(Append(in, Marker(nconn))) = Len(in) + 1
        /\ \A i \in 1..Len(in) : Append(in, Marker(nconn))[i] = in[i]
        /\ Append(in, Marker(nconn))[Len(in) + 1] = Marker(nconn)
    BY <1>2, <2>1, AppendAt
  <2> QED
    BY <1>1, <2>2, Zenon
<1>4. /\ \A i \in 1..Len(in') : i \in 1..Len(in) \/ i = Len(in) + 1
      /\ Len(in) + 1 \in 1..Len(in')
      /\ \A i \in 1..Len(in') : i < Len(in) + 1 => i \in 1..Len(in)
      /\ \A i \in 1..Len(in') : ~ (i > Len(in) + 1)
  BY <1>3, OneMore, Zenon
<1>5. Unmarked /\ \A x : x < nconn => x # nconn
  BY <1>1, ExcTypes DEF MarkerInv
<1>6. \A x : Fresh(x)' <=> Fresh(x)
  BY Zenon, <1>1 DEF Fresh
<1>7. PICK e \in 1..Len(in') : e = Len(in) + 1
  BY Zenon, <1>4
<1>8. MarkerAt(e)' /\ ~Unmarked'
  <2>1. lastMarker' < nconn' /\ in'[e] = Marker(nconn')
    BY Zenon, <1>1, <1>3, <1>5, <1>7 DEF Unmarked
  <2>2. ASSUME NEW i \in 1..Len(in')
        PROVE  (i < e => in'[i].conn < nconn') /\ ~ (i > e)
    BY Zenon, <1>1, <1>3, <1>4, <1>5, <1>7 DEF Unmarked
  <2>3. in'[e].conn = nconn' /\ ~ (nconn' < nconn')
    BY Zenon, <1>1, <1>2, <1>5, <2>1
  <2> QED
    BY Zenon, <2>1, <2>2, <2>3 DEF MarkerAt, Unmarked
<1>9. MarkerInv'
  BY Zenon, <1>1, <1>6, <1>8 DEF MarkerInv
<1>10. NoneIn /\ NoneIn'
  <2>1. NoneIn
    BY Zenon, <1>5 DEF Unmarked, NoneIn, Fresh
  <2> QED
    BY ZenonT(30), <1>2, <1>3, <1>4, <1>6, <2>1 DEF NoneIn
<1>11. ~Settled /\ ~Settled'
  BY Zenon, <1>1, <1>5 DEF Settled, Unmarked
<1>12. OptionWaits'
  BY Zenon, <1>1, <1>10, <1>11 DEF OptionInv, OptionWaits
<1>13. Unacknowledged'
  BY Zenon, <1>1, <1>10, <1>11 DEF OptionInv, Unacknowledged, NoneIn
<1>14. AnswerAhead => AnswerAhead'
  BY Zenon, <1>1, <1>10 DEF AnswerAhead, NoneIn
<1>15. Acknowledged'
  BY Zenon, <1>1, <1>11, <1>14 DEF OptionInv, Acknowledged
<1> QED
  BY Zenon, <1>9, <1>12, <1>13, <1>15 DEF OptionInv

LEMMA ExcDial ==
  ASSUME TypeOK, WantExceptions, MarkerInv, OptionInv, Dial
  PROVE  MarkerInv' /\ OptionInv'
<1>1. /\ rpc' = "setConn" /\ nconn' = nconn + 1 /\ reqs' = <<OptionReq>> /\ wire' = << >>
      /\ jobs' = {} /\ acked' = FALSE /\ UNCHANGED <<in, lastMarker>>
  BY Zenon DEF Dial, ReaderUnchanged, procVars
<1>2. \A x \in Int : x < nconn \/ x = nconn => x < nconn + 1 /\ x # nconn + 1
  BY ExcTypes
<1>3. in \in Seq(Packet) /\ \A i \in 1..Len(in) : in[i].conn \in Int
  <2>1. \A p \in Packet : p.conn \in Int
    BY ClientAssumption DEF Packet
  <2> QED
    BY <2>1, ExcTypes
<1>4. /\ lastMarker < nconn \/ lastMarker = nconn
      /\ \A i \in 1..Len(in) : in[i].conn < nconn \/ in[i].conn = nconn
  <2>1. CASE Unmarked \/ MarkerPassed
    BY Zenon, <2>1 DEF Unmarked, MarkerPassed, Fresh
  <2>2. ASSUME NEW b \in 1..Len(in), MarkerAt(b)
        PROVE  /\ lastMarker < nconn
               /\ \A i \in 1..Len(in) : in[i].conn < nconn \/ in[i].conn = nconn
    <3>1. \A i \in 1..Len(in) : i < b \/ i = b \/ i > b
      BY ExcTypes
    <3> QED
      BY <2>2, <3>1 DEF MarkerAt, Marker, Fresh
  <2> QED
    BY Zenon, <2>1, <2>2 DEF MarkerInv
<1>5. Unmarked' /\ lastMarker' # nconn' /\ \A i \in 1..Len(in') : in'[i].conn # nconn'
  <2>1. lastMarker' < nconn' /\ lastMarker' # nconn'
    BY <1>1, <1>2, <1>4, ExcTypes
  <2>2. \A i \in 1..Len(in) : in[i].conn < nconn + 1 /\ in[i].conn # nconn + 1
    BY Zenon, <1>2, <1>3, <1>4
  <2> QED
    BY Zenon, <1>1, <2>1, <2>2 DEF Unmarked
<1>6. NoneIn' /\ ~Settled'
  BY Zenon, <1>5 DEF NoneIn, Fresh, Settled
<1>7. MarkerInv'
  BY <1>1, <1>5 DEF MarkerInv
<1>8. OptionWaits'
  BY <1>1, <1>6 DEF OptionWaits
<1>9. Unacknowledged'
  BY <1>1, <1>6 DEF Unacknowledged, NoneIn
<1>10. Acknowledged'
  BY Zenon, <1>1 DEF Acknowledged
<1> QED
  BY Zenon, <1>7, <1>8, <1>9, <1>10 DEF OptionInv

LEMMA ExcRead ==
  ASSUME TypeOK, MarkerInv, OptionInv, ReadPacket
  PROVE  MarkerInv' /\ OptionInv'
<1>1. /\ rpc = "read" /\ wire # << >> /\ wire' = Tail(wire)
      /\ \/ Head(wire).type = "malformed" /\ rpc' = "loop"
         \/ rresp' = Head(wire) /\ rpc' = "send"
      /\ UNCHANGED <<in, reqs, jobs, acked, nconn, lastMarker, optionPending, excState>>
  BY Zenon DEF ReadPacket, ReaderUnchanged, procVars
<1>2. /\ 1 \in 1..Len(wire) /\ Head(wire) = wire[1]
      /\ \A i \in 1..Len(wire') : i + 1 \in 1..Len(wire) /\ wire'[i] = wire[i + 1]
  BY Zenon, <1>1, ExcTypes, TailAt
<1>3. /\ (Unmarked' <=> Unmarked) /\ (MarkerPassed' <=> MarkerPassed)
      /\ (\A b : MarkerAt(b)' <=> MarkerAt(b)) /\ (Settled' <=> Settled) /\ (NoneIn' <=> NoneIn)
      /\ \A x : Fresh(x)' <=> Fresh(x)
  BY Zenon, <1>1 DEF Unmarked, MarkerPassed, MarkerAt, Settled, NoneIn, Fresh, Marker
<1>4. MarkerInv'
  BY Zenon, <1>1, <1>2, <1>3 DEF MarkerInv
<1>5. OptionWaits'
  BY Zenon, <1>1 DEF OptionInv, OptionWaits
<1>6. Unacknowledged'
  BY Zenon, <1>1, <1>2, <1>3 DEF OptionInv, Unacknowledged
<1>7. AnswerAhead => AnswerAhead'
  BY Zenon, <1>1, <1>2, <1>3 DEF AnswerAhead
<1>8. Acknowledged'
  BY Zenon, <1>1, <1>3, <1>7 DEF OptionInv, Acknowledged
<1> QED
  BY Zenon, <1>4, <1>5, <1>6, <1>8 DEF OptionInv

(* The goroutines, one lemma each.                                         *)
LEMMA ExcReadLoop ==
  ASSUME TypeOK, WantExceptions, MarkerInv, OptionInv, readLoop
  PROVE  MarkerInv' /\ OptionInv'
<1>1. CASE LoopTest \/ GetRW \/ ReadError \/ RedialTest \/ DialFails \/ SetConn
  <2>1. /\ UNCHANGED <<in, wire, reqs, jobs, acked, nconn, lastMarker, optionPending, excState>>
        /\ rpc # "send" /\ rpc' # "send"
    BY ZenonT(30), <1>1 DEF LoopTest, GetRW, ReadError, RedialTest, DialFails, SetConn, ReaderUnchanged,
       serverVars, procVars
  <2>2. (rpc' \in Reading => rpc \in Reading) /\ (rpc' \in Marking => rpc \in Marking)
    BY Zenon, <1>1 DEF LoopTest, GetRW, ReadError, RedialTest, DialFails, SetConn, Reading, Marking
  <2> QED
    BY Zenon, <2>1, <2>2, ExcFrame
<1> QED
  BY Zenon, <1>1, ExcRead, ExcSend, ExcDial, ExcMarker DEF readLoop

LEMMA ExcProcess ==
  ASSUME TypeOK, MarkerInv, OptionInv, processLoop
  PROVE  MarkerInv' /\ OptionInv'
<1>1. UNCHANGED <<wire, reqs, jobs, acked, nconn, rpc, rresp>>
  BY Zenon DEF processLoop, ProcessMarker, ProcessOther, ProcessReply, Deliver, ProcessWork,
     CallbackReturns, ProcessExit, ProcessUnchanged, connVars, readerVars, serverVars
<1>2. CASE Deliver \/ CallbackReturns \/ ProcessExit
  <2>1. UNCHANGED <<in, lastMarker, optionPending, excState>>
    BY ZenonT(30), <1>2 DEF Deliver, CallbackReturns, ProcessExit
  <2> QED
    BY Zenon, <1>1, <2>1, ExcFrame
<1>3. CASE ProcessMarker
  <2>1. /\ in # << >> /\ in' = Tail(in) /\ Head(in).type = "option_sent" /\ optionPending' = TRUE
        /\ lastMarker' = Head(in).conn /\ excState' = excState
    BY Zenon, <1>3 DEF ProcessMarker
  <2> QED
    BY ZenonT(30), <1>1, <2>1, ExcReceive
<1>4. CASE ProcessOther \/ ProcessReply \/ ProcessWork
  <2>1. /\ in # << >> /\ in' = Tail(in) /\ Head(in).type # "option_sent" /\ SettleOption(Head(in))
        /\ lastMarker' = lastMarker
    BY Zenon, <1>4 DEF ProcessOther, ProcessReply, ProcessWork
  <2> QED
    BY Zenon, <1>1, <2>1, ExcReceive
<1> QED
  BY Zenon, <1>2, <1>3, <1>4 DEF processLoop

LEMMA ExcCaller ==
  ASSUME TypeOK, MarkerInv, OptionInv, NEW c \in Callers, Caller(c)
  PROVE  MarkerInv' /\ OptionInv'
<1>1. UNCHANGED <<in, wire, jobs, acked, nconn, rpc, rresp, lastMarker, optionPending, excState>>
  BY Zenon DEF Caller, Call, Lock, SetHandler, Write, WriteTo, Receive, Timeout, CloseConn, connVars,
     readerVars, serverVars, procVars
<1>2. CASE reqs' = reqs
  BY Zenon, <1>1, <1>2, ExcFrame
<1>3. CASE reqs' # reqs
  <2> DEFINE q == [kind |-> ckind[c], id |-> cid[c], arg |-> carg[c]]
  <2>1. WriteTo(c)
    BY ZenonT(30), <1>3 DEF Caller, Call, Lock, SetHandler, Write, Receive, Timeout, CloseConn, serverVars
  <2>2. reqs' = Append(reqs, q) /\ pc[c] = "writeTo"
    BY Zenon, <1>3, <2>1 DEF WriteTo
  <2>3. ckind[c] \in Kinds /\ cid[c] \in Calls
        /\ carg[c] \in (IF ckind[c] = "status" THEN StatusHandles ELSE {NoHandle})
    BY ZenonT(30), <2>2 DEF TypeOK, CallTypes
  <2>4. q \in Request /\ q.kind # "option"
    BY Zenon, <2>3, RequestTypes, ClientAssumption
  <2> HIDE DEF q
  <2> QED
    BY Zenon, <1>1, <2>2, <2>4, ExcWrite
<1> QED
  BY Zenon, <1>2, <1>3

LEMMA ExcInit == Init => ExcInv
<1> SUFFICES ASSUME Init, WantExceptions
             PROVE  MarkerInv /\ OptionInv
  BY Zenon DEF ExcInv
<1>1. /\ nconn = 1 /\ lastMarker = 0 /\ in = <<Marker(1)>> /\ wire = << >> /\ rpc = "loop"
      /\ reqs = <<OptionReq>> /\ jobs = {} /\ ~acked
  BY Zenon DEF Init
<1>2. Len(in) = 1 /\ in[1] = Marker(nconn) /\ Marker(nconn).conn = nconn /\ ~Fresh(Marker(nconn))
  BY Zenon, <1>1 DEF Marker, Fresh
<1>3. MarkerAt(1) /\ ~Unmarked /\ NoneIn /\ ~Settled
  BY <1>1, <1>2 DEF MarkerAt, Unmarked, NoneIn, Settled
<1>4. MarkerInv
  BY <1>1, <1>2, <1>3 DEF MarkerInv
<1>5. OptionInv
  BY <1>1, <1>3 DEF OptionInv, OptionWaits, Unacknowledged, Acknowledged, NoneIn
<1> QED
  BY Zenon, <1>4, <1>5

(* Once the first packet after the marker of the latest connection has     *)
(* been processed, ExceptionsEnabled tells whether the server acknowledged *)
(* the option on that connection, however many packets of earlier          *)
(* connections client.in still held when connect put the marker in.        *)
THEOREM ExceptionsAreSettled == Spec => []ExceptionsSettled
<1>1. TypeOK /\ ExcInv /\ [Next]_vars => ExcInv'
  <2> SUFFICES ASSUME TypeOK, WantExceptions, MarkerInv, OptionInv, [Next]_vars
               PROVE  MarkerInv' /\ OptionInv'
    BY Zenon DEF ExcInv
  <2>1. CASE SetClosed \/ FinishClose \/ UNCHANGED vars
    <3>1. UNCHANGED <<in, wire, reqs, jobs, acked, nconn, lastMarker, optionPending, excState, rpc,
                      rresp>>
      BY Zenon, <2>1 DEF SetClosed, FinishClose, vars, connVars, readerVars, serverVars, procVars,
         callerVars, slotVars
    <3> QED
      BY Zenon, <3>1, ExcFrame
  <2> QED
    BY Zenon, <2>1, ExcCaller, ExcReadLoop, ExcProcess, ExcServer DEF Next
<1>2. ExcInv => ExceptionsSettled
  BY Zenon DEF ExcInv, OptionInv, Unacknowledged, Acknowledged, Settled, ExceptionsSettled
<1> QED
  BY <1>1, <1>2, ExcInit, TypeCorrect, PTL DEF Spec
-----------------------------------------------------------------------------
(* The refinement.  What RequestReply sees of a Client, and the steps of   *)
(* RequestReply in those terms.                                            *)

AskedNow == \E c \in Callers : pc[c] \notin {"idle", "lock", "set"}
Answered == {cid[c] : c \in {c \in Callers : cres[c] # 0}}

LEMMA Issues ==
  ASSUME NEW c \in Callers, cid[c] = 0, ncalls < MaxCalls, ncalls' = ncalls + 1,
         cid' = [cid EXCEPT ![c] = ncalls + 1], mutex' = mutex, AskedNow' <=> AskedNow,
         Waiting' = Waiting, Answered' = Answered
  PROVE  RR!Next
<1>1. RR!Issue(c)
  BY Zenon DEF RR!Issue, AskedNow, Answered
<1> QED
  BY Zenon, <1>1 DEF RR!Next

LEMMA Enters ==
  ASSUME NEW c \in Callers, cid[c] # 0, mutex = NoCaller, mutex' = c,
         UNCHANGED <<cid, ncalls>>, AskedNow' <=> AskedNow,
         Waiting' = Waiting, Answered' = Answered
  PROVE  RR!Next
<1>1. RR!Enter(c)
  BY Zenon DEF RR!Enter, AskedNow, Answered
<1> QED
  BY Zenon, <1>1 DEF RR!Next

LEMMA Asking ==
  ASSUME NEW c \in Callers, mutex = c, ~AskedNow, AskedNow', Waiting' = {cid[c]},
         UNCHANGED <<cid, ncalls, mutex>>, Answered' = Answered
  PROVE  RR!Next
<1>1. RR!Ask(c)
  BY Zenon DEF RR!Ask, AskedNow, Answered
<1> QED
  BY Zenon, <1>1 DEF RR!Next

LEMMA IsAnswered ==
  ASSUME NEW c \in Callers, mutex = c, Waiting = {cid[c]}, Waiting' = {},
         Answered' = {cid[c]}, UNCHANGED <<cid, ncalls, mutex>>, AskedNow' <=> AskedNow
  PROVE  RR!Next
<1>1. RR!Answer(c)
  BY Zenon DEF RR!Answer, AskedNow, Answered
<1> QED
  BY Zenon, <1>1 DEF RR!Next

LEMMA GivesUp ==
  ASSUME NEW c \in Callers, mutex = c, Waiting = {cid[c]}, Waiting' = {},
         Answered' = Answered, UNCHANGED <<cid, ncalls, mutex>>, AskedNow' <=> AskedNow
  PROVE  RR!Next
<1>1. RR!GiveUp(c)
  BY Zenon DEF RR!GiveUp, AskedNow, Answered
<1> QED
  BY Zenon, <1>1 DEF RR!Next

LEMMA Leaves ==
  ASSUME NEW c \in Callers, mutex = c, AskedNow, cid' = [cid EXCEPT ![c] = 0],
         mutex' = NoCaller, ~AskedNow', Waiting' = {}, Answered' = {}, ncalls' = ncalls
  PROVE  RR!Next
<1>1. RR!Leave(c)
  BY Zenon DEF RR!Leave, AskedNow, Answered
<1> QED
  BY Zenon, <1>1 DEF RR!Next

LEMMA Stutters ==
  ASSUME UNCHANGED <<cid, ncalls, mutex>>, AskedNow' <=> AskedNow, Waiting' = Waiting,
         Answered' = Answered
  PROVE  UNCHANGED RR!vars
BY Zenon DEF RR!vars, AskedNow, Answered

(* A handler is held for somebody.                                         *)
Held ==
  \/ created # << >> /\ created[1].internal
  \/ echo # << >> /\ echo[1].internal
  \/ \E h \in StatusHandles : status[h] # 0
  \/ ppc = "deliver" /\ \E c \in Callers : cid[c] = ph.id

Turn == mutex \in Callers /\ pc[mutex] # "set"

Mapped ==
  /\ AskedNow <=> Turn
  /\ Held => Turn
  /\ Waiting = IF Held THEN {cid[mutex]} ELSE {}
  /\ Answered = IF mutex \in Callers /\ cres[mutex] # 0 THEN {cid[mutex]} ELSE {}

LEMMA OneEntry ==
  ASSUME NEW q \in Seq(Entry), Len(q) <= 1, q # << >>
  PROVE  Len(q) = 1
<1>1. Len(q) \in Nat \ {0}
  BY EmptySeq, Zenon
<1> DEFINE l == Len(q)
<1>2. l \in Nat \ {0} /\ l <= 1
  BY Zenon, <1>1
<1> HIDE DEF l
<1>3. l = 1
  BY <1>2
<1> QED
  BY Zenon, <1>3 DEF l

LEMMA LiveShort ==
  ASSUME NEW q \in Seq(Entry), Len(q) <= 1
  PROVE  Live(q) = IF q # << >> /\ q[1].internal THEN {q[1].id} ELSE {}
<1>1. CASE q = << >>
  <2>1. {i \in 1..Len(q) : q[i].internal} = {}
    BY <1>1
  <2> QED
    BY Zenon, <1>1, <2>1 DEF Live
<1>2. CASE q # << >>
  <2>1. Len(q) = 1
    BY Zenon, <1>2, OneEntry
  <2>2. {i \in 1..Len(q) : q[i].internal} = IF q[1].internal THEN {1} ELSE {}
    BY <2>1
  <2> QED
    BY Zenon, <1>2, <2>2 DEF Live
<1> QED
  BY Zenon, <1>1, <1>2

LEMMA Mapping == TypeOK /\ HandlerInv => Mapped
<1> SUFFICES ASSUME TypeOK, HandlerInv PROVE Mapped
  OBVIOUS
<1>1. AskedNow <=> Turn
  <2>1. ASSUME NEW c \in Callers, pc[c] \notin {"idle", "lock", "set"}
        PROVE  Turn
    BY Zenon, <2>1, HolderFacts DEF Turn
  <2>2. ASSUME Turn
        PROVE  AskedNow
    BY Zenon, <2>2, HolderFacts DEF Turn, AskedNow
  <2> QED
    BY Zenon, <2>1, <2>2 DEF AskedNow
<1>2. /\ created # << >> => Turn /\ created[1].id = cid[mutex]
      /\ echo # << >> => Turn /\ echo[1].id = cid[mutex]
      /\ \A h \in StatusHandles : status[h] # 0 => Turn /\ status[h] = cid[mutex]
  BY Zenon, QueueFacts DEF Turn
<1>3. ASSUME ppc = "deliver", NEW c \in Callers, cid[c] = ph.id
      PROVE  Turn /\ mutex = c
  <2>1. pc[c] \notin {"lock", "set"} /\ ph.id # 0
    BY <1>3 DEF HandlerInv, SpentInv
  <2> QED
    BY Zenon, <1>3, <2>1, HolderFacts DEF Turn
<1>4. Held => Turn
  BY Zenon, <1>2, <1>3 DEF Held
<1>5. Waiting = IF Held THEN {cid[mutex]} ELSE {}
  <2>1. /\ Live(created) = IF created # << >> /\ created[1].internal THEN {cid[mutex]} ELSE {}
        /\ Live(echo) = IF echo # << >> /\ echo[1].internal THEN {cid[mutex]} ELSE {}
    BY Zenon, <1>2, LiveShort, QueueFacts DEF TypeOK, SlotTypes
  <2>2. {status[h] : h \in StatusHandles} \ {0}
          = IF \E h \in StatusHandles : status[h] # 0 THEN {cid[mutex]} ELSE {}
    BY Zenon, <1>2
  <2>3. (IF ppc = "deliver" THEN {ph.id} \cap {cid[c] : c \in Callers} ELSE {})
          = IF ppc = "deliver" /\ \E c \in Callers : cid[c] = ph.id THEN {cid[mutex]} ELSE {}
    BY Zenon, <1>3
  <2> QED
    BY Zenon, <2>1, <2>2, <2>3 DEF Waiting, Held
<1>6. Answered = IF mutex \in Callers /\ cres[mutex] # 0 THEN {cid[mutex]} ELSE {}
  <2>1. ASSUME NEW c \in Callers, cres[c] # 0
        PROVE  mutex = c
    BY Zenon, <2>1, HolderFacts DEF HandlerInv, SpentInv
  <2> QED
    BY Zenon, <2>1 DEF Answered
<1> QED
  BY Zenon, <1>1, <1>4, <1>5, <1>6 DEF Mapped

LEMMA MappingNext == TypeOK' /\ HandlerInv' => Mapped'
BY Mapping, PTL

(* abandon leaves a spent entry spent, and take hands out a live handler   *)
(* only if one was queued.                                                 *)
LEMMA SpentStaysSpent ==
  ASSUME TypeOK, HandlerInv, NEW q \in {created, echo}, NEW id, q = << >> \/ ~q[1].internal
  PROVE  SlotAbandon(q, id, 1) = << >> \/ ~SlotAbandon(q, id, 1)[1].internal
<1>1. q \in Seq(Entry) /\ Len(q) <= 1
  BY Zenon, QueueFacts DEF TypeOK, SlotTypes
<1>2. CASE Queued(q, id) /\ q # << >>
  <2>1. Len(q) = 1
    BY Zenon, <1>1, <1>2, OneEntry
  <2>2. \A i \in 1..Len(q) : i = 1
    BY <2>1
  <2>3. IndexOf(q, id) = 1
    BY Zenon, <1>2, <2>2 DEF Queued, IndexOf
  <2>4. SlotAbandon(q, id, 1) = [q EXCEPT ![1] = [NoEntry EXCEPT !.id = id, !.expires = 1]]
    BY Zenon, <1>2, <2>3 DEF SlotAbandon
  <2>5. SlotAbandon(q, id, 1)[1] = [NoEntry EXCEPT !.id = id, !.expires = 1]
    BY <1>1, <2>1, <2>4
  <2> QED
    BY Zenon, <2>5 DEF NoEntry
<1>3. CASE ~Queued(q, id)
  BY Zenon, <1>3 DEF SlotAbandon
<1>4. q = << >> => ~Queued(q, id)
  BY DEF Queued
<1> QED
  BY Zenon, <1>2, <1>3, <1>4

LEMMA TakenWasHeld ==
  ASSUME TypeOK, HandlerInv, NEW r \in Packet, NEW now \in {0, 1}, TakeHandler(r, now),
         ph'.internal
  PROVE  Held
<1>1. CASE r.type = "job_created"
  <2>1. ph' = SlotTaken(created, now)
    BY Zenon, <1>1 DEF TakeHandler
  <2> QED
    BY <2>1, ShortQueues, ClientAssumption DEF Held
<1>2. CASE r.type = "echo_res"
  <2>1. ph' = SlotTaken(echo, now)
    BY Zenon, <1>2 DEF TakeHandler
  <2> QED
    BY <2>1, ShortQueues, ClientAssumption DEF Held
<1>3. CASE r.type = "status_res"
  <2>1. r.arg \in StatusHandles
    BY Zenon, <1>3, PacketTypes
  <2>2. ph' = IF status[r.arg] = 0 THEN NoEntry ELSE LiveEntry(status[r.arg], FALSE)
    BY Zenon, <1>3 DEF TakeHandler
  <2> QED
    BY Zenon, <2>1, <2>2 DEF NoEntry, LiveEntry, Held
<1> QED
  BY Zenon, <1>1, <1>2, <1>3 DEF TakeHandler

-----------------------------------------------------------------------------
(* Each step of the client is a step of RequestReply, or leaves what it    *)
(* shows alone.                                                            *)

(* Steps that move nobody.                                                 *)
LEMMA QuietMaps ==
  ASSUME Mapped, Mapped', UNCHANGED <<mutex, ncalls, pc, cid, cres>>,
         (Held' <=> Held) \/ ~Held'
  PROVE  [RR!Next]_RR!vars
<1>1. AskedNow' <=> AskedNow
  BY Zenon DEF AskedNow
<1>2. Answered' = Answered
  BY Zenon DEF Answered
<1>3. CASE Held' <=> Held
  <2>1. Waiting' = Waiting
    BY Zenon, <1>3 DEF Mapped
  <2> QED
    BY Zenon, <1>1, <1>2, <2>1, Stutters
<1>4. CASE Held /\ ~Held'
  <2>1. mutex \in Callers /\ Waiting = {cid[mutex]} /\ Waiting' = {}
    BY Zenon, <1>4 DEF Mapped, Turn
  <2> QED
    BY <1>1, <1>2, <2>1, GivesUp
<1> QED
  BY Zenon, <1>3, <1>4

LEMMA ReturnMaps ==
  ASSUME TypeOK, HandlerInv, Mapped, Mapped', NEW c \in Callers,
         pc[c] \notin {"idle", "lock", "set"}, Return(c)
  PROVE  RR!Next
<1>1. mutex = c /\ mutex' = NoCaller /\ cid' = [cid EXCEPT ![c] = 0] /\ ncalls' = ncalls
  BY Zenon, HolderFacts DEF Return
<1>2. ~AskedNow' /\ Waiting' = {} /\ Answered' = {}
  BY Zenon, <1>1, ClientAssumption DEF Mapped, Turn
<1>3. AskedNow
  BY Zenon DEF AskedNow
<1> QED
  BY Zenon, <1>1, <1>2, <1>3, Leaves

LEMMA CallMaps ==
  ASSUME TypeOK, HandlerInv, Mapped, Mapped', NEW c \in Callers, NEW k \in Kinds, NEW h \in Args,
         Call(c, k, h)
  PROVE  RR!Next
<1>1. /\ pc[c] = "idle" /\ ncalls < MaxCalls /\ ncalls' = ncalls + 1
      /\ cid' = [cid EXCEPT ![c] = ncalls + 1] /\ pc' = [pc EXCEPT ![c] = "lock"]
      /\ UNCHANGED <<mutex, cres, created, echo, status, ppc, ph>>
  BY Zenon DEF Call, slotVars, procVars
<1>2. cid[c] = 0 /\ mutex # c
  BY Zenon, <1>1, HolderFacts
<1>3. /\ mutex \in Callers => pc'[mutex] = pc[mutex] /\ cid'[mutex] = cid[mutex]
      /\ ncalls \in Nat /\ cid \in [Callers -> 0..MaxCalls]
  BY <1>1, <1>2 DEF TypeOK, CallerTypes
<1>4. Turn' <=> Turn
  BY Zenon, <1>1, <1>3 DEF Turn
<1>5. ASSUME ppc = "deliver"
      PROVE  (\E d \in Callers : cid'[d] = ph.id) <=> (\E d \in Callers : cid[d] = ph.id)
  <2>1. ph.id \in 1..ncalls
    BY Zenon, <1>5 DEF HandlerInv, SpentInv
  <2>2. ph.id # cid[c] /\ ph.id # ncalls + 1
    BY <1>2, <1>3, <2>1
  <2>3. \A d \in Callers : cid'[d] = IF d = c THEN ncalls + 1 ELSE cid[d]
    BY Zenon, <1>1, <1>3
  <2> QED
    BY Zenon, <2>2, <2>3
<1>6. Held' <=> Held
  BY Zenon, <1>1, <1>5 DEF Held
<1>7. /\ AskedNow' <=> AskedNow
      /\ Waiting' = Waiting /\ Answered' = Answered
  BY Zenon, <1>1, <1>3, <1>4, <1>6 DEF Mapped, Turn
<1> QED
  BY Zenon, <1>1, <1>2, <1>7, Issues

LEMMA LockMaps ==
  ASSUME TypeOK, HandlerInv, Mapped, Mapped', NEW c \in Callers, Lock(c)
  PROVE  RR!Next
<1>1. /\ pc[c] = "lock" /\ mutex = NoCaller /\ mutex' = c /\ pc' = [pc EXCEPT ![c] = "set"]
      /\ UNCHANGED <<ncalls, cid, cres>>
  BY Zenon DEF Lock
<1>2. pc'[c] = "set" /\ cid[c] # 0
  BY <1>1, HolderFacts DEF TypeOK, CallerTypes
<1>3. ~Turn /\ ~Turn'
  BY <1>1, <1>2, ClientAssumption DEF Turn
<1>4. cres[c] = 0
  BY <1>1 DEF HandlerInv, SpentInv
<1>5. /\ AskedNow' <=> AskedNow
      /\ Waiting' = Waiting /\ Answered' = Answered
  BY Zenon, <1>1, <1>3, <1>4, ClientAssumption DEF Mapped
<1> QED
  BY <1>1, <1>2, <1>5, Enters

LEMMA SetHandlerMaps ==
  ASSUME TypeOK, HandlerInv, Mapped, Mapped', NEW c \in Callers, SetHandler(c)
  PROVE  RR!Next
<1>1. /\ pc[c] = "set" /\ pc' = [pc EXCEPT ![c] = "write"]
      /\ UNCHANGED <<mutex, ncalls, cid, cres>>
  BY Zenon DEF SetHandler
<1>2. mutex = c /\ pc'[c] = "write" /\ cid[c] # 0 /\ cid[c] \in 0..MaxCalls
  BY <1>1, HolderFacts DEF TypeOK, CallerTypes
<1>3. ~Turn /\ Turn'
  BY <1>1, <1>2 DEF Turn
<1>4. Held'
  <2>1. created = << >> /\ echo = << >>
    BY Zenon, <1>1, <1>2, NothingBefore DEF NothingQueued
  <2>2. CASE UsesCreated(c)
    <3>1. created' = <<LiveEntry(cid[c], ckind[c] = "do")>>
      BY ZenonT(30), <2>1, <2>2, SlotSetEmpty DEF SetHandler
    <3>2. created' # << >> /\ created'[1].internal
      BY Zenon, <3>1 DEF LiveEntry
    <3> QED
      BY Zenon, <3>2 DEF Held
  <2>3. CASE ckind[c] = "echo"
    <3>1. echo' = <<LiveEntry(cid[c], FALSE)>>
      BY Zenon, <2>1, <2>3, SlotSetEmpty DEF SetHandler
    <3>2. echo' # << >> /\ echo'[1].internal
      BY Zenon, <3>1 DEF LiveEntry
    <3> QED
      BY Zenon, <3>2 DEF Held
  <2>4. CASE ckind[c] = "status"
    <3>1. carg[c] \in StatusHandles
      BY ZenonT(30), <1>1, <2>4 DEF TypeOK, CallTypes
    <3>2. status'[carg[c]] = cid[c]
      BY Zenon, <2>4, <3>1 DEF SetHandler, TypeOK, SlotTypes
    <3> QED
      BY ZenonT(30), <1>2, <3>1, <3>2 DEF Held
  <2> QED
    BY Zenon, <1>1, <2>2, <2>3, <2>4, ClientAssumption DEF UsesCreated, TypeOK, CallTypes
<1>5. ~AskedNow /\ AskedNow' /\ Waiting' = {cid[c]} /\ Answered' = Answered
  BY Zenon, <1>1, <1>2, <1>3, <1>4 DEF Mapped
<1> QED
  BY <1>1, <1>2, <1>5, Asking

(* Writing changes nothing that shows, or fails and ends the call.         *)
LEMMA WriteMaps ==
  ASSUME TypeOK, HandlerInv, Mapped, Mapped', NEW c \in Callers, Write(c) \/ WriteTo(c)
  PROVE  [RR!Next]_RR!vars
<1>1. pc[c] \in {"write", "writeTo"}
  BY Zenon DEF Write, WriteTo
<1>2. CASE Return(c)
  BY <1>1, <1>2, ReturnMaps
<1>3. CASE ~Return(c)
  <2>1. /\ UNCHANGED <<mutex, ncalls, cid, cres, created, echo, status, ppc, ph>>
        /\ pc' = [pc EXCEPT ![c] = "writeTo"] \/ pc' = [pc EXCEPT ![c] = "wait"]
    BY Zenon, <1>3 DEF Write, WriteTo, ReturnLocals, slotVars, procVars
  <2>2. mutex = c /\ pc'[c] # "set"
    BY <1>1, <2>1, HolderFacts DEF TypeOK, CallerTypes
  <2>3. Turn /\ Turn'
    BY Zenon, <1>1, <2>1, <2>2 DEF Turn
  <2>4. Held' <=> Held
    BY Zenon, <2>1 DEF Held
  <2>5. (AskedNow' <=> AskedNow) /\ Waiting' = Waiting /\ Answered' = Answered
    BY Zenon, <2>1, <2>3, <2>4 DEF Mapped
  <2> QED
    BY Zenon, <2>1, <2>5, Stutters
<1> QED
  BY Zenon, <1>2, <1>3

(* A timeout of Status ends the call; one of do or Echo gives up first.    *)
LEMMA TimeoutMaps ==
  ASSUME TypeOK, HandlerInv, Mapped, Mapped', NEW c \in Callers, Timeout(c)
  PROVE  [RR!Next]_RR!vars
<1>1. pc[c] = "wait"
  BY ZenonT(30) DEF Timeout
<1>2. CASE ckind[c] = "status"
  BY Zenon, <1>1, <1>2, ReturnMaps DEF Timeout
<1>3. CASE ckind[c] # "status"
  <2>1. /\ UNCHANGED <<mutex, ncalls, cid, cres>>
        /\ pc' = [pc EXCEPT ![c] = "close"]
    BY ZenonT(30), <1>3 DEF Timeout, ReturnLocals
  <2>2. mutex = c /\ pc'[c] = "close"
    BY Zenon, <1>1, <2>1, HolderFacts DEF TypeOK, CallerTypes
  <2>3. Turn /\ Turn'
    BY Zenon, <1>1, <2>1, <2>2 DEF Turn
  <2>4. (AskedNow' <=> AskedNow) /\ Answered' = Answered
    BY Zenon, <2>1, <2>3 DEF Mapped
  <2>5. CASE Held' <=> Held
    <3>1. Waiting' = Waiting
      BY Zenon, <2>1, <2>5 DEF Mapped
    <3> QED
      BY <2>1, <2>4, <3>1, Stutters
  <2>6. CASE Held /\ ~Held'
    <3>1. Waiting = {cid[c]} /\ Waiting' = {}
      BY Zenon, <2>2, <2>6 DEF Mapped
    <3> QED
      BY <2>1, <2>2, <2>4, <3>1, GivesUp
  <2>7. CASE ~Held
    <3>1. created = << >> \/ ~created[1].internal
      BY Zenon, <2>7 DEF Held
    <3>2. echo = << >> \/ ~echo[1].internal
      BY Zenon, <2>7 DEF Held
    <3>3. /\ created' = << >> \/ ~created'[1].internal
          /\ echo' = << >> \/ ~echo'[1].internal
      BY ZenonT(30), <1>3, <3>1, <3>2, SpentStaysSpent DEF Timeout
    <3>4. UNCHANGED <<status, ppc, ph, cid>>
      BY ZenonT(30), <1>3, <2>1 DEF Timeout, procVars
    <3>5. ~Held'
      BY Zenon, <2>7, <3>3, <3>4 DEF Held
    <3> QED
      BY <2>5, <2>7, <3>5
  <2> QED
    BY Zenon, <2>5, <2>6, <2>7
<1> QED
  BY Zenon, <1>2, <1>3

(* closeConn takes the handler of a call that waits for a reply, or leaves *)
(* all handlers where they are.                                            *)
LEMMA closeConnMaps ==
  ASSUME Mapped, Mapped', closeConn, UNCHANGED <<mutex, ncalls, pc, cid, cres, status, ppc, ph>>
  PROVE  [RR!Next]_RR!vars
<1>1. \/ UNCHANGED <<created, echo>>
      \/ created' = << >> /\ echo' = << >>
  BY Zenon DEF closeConn, SlotReset
<1>2. (Held' <=> Held) \/ ~Held'
  BY Zenon, <1>1 DEF Held
<1> QED
  BY Zenon, <1>2, QuietMaps

(* A live handler that processLoop takes is in its hands now; a spent one  *)
(* answers nobody.                                                         *)
LEMMA ProcessReplyMaps ==
  ASSUME TypeOK, HandlerInv, Mapped, Mapped', ProcessReply
  PROVE  [RR!Next]_RR!vars
<1>1. UNCHANGED <<mutex, ncalls, pc, cid, cres>> /\ ppc = "recv"
  BY Zenon DEF ProcessReply, ProcessUnchanged, callerVars
<1>2. PICK now \in {0, 1} : TakeHandler(Head(in), now)
  BY Zenon DEF ProcessReply
<1>3. Head(in) \in Packet
  BY DEF ProcessReply, TypeOK, ReaderTypes
<1>4. CASE ph'.internal
  <2>1. ppc' = "deliver" /\ mutex \in Callers /\ ph'.id = cid[mutex] /\ NothingQueued'
    BY Zenon, <1>2, <1>3, <1>4, TakeHandlerKeeps DEF ProcessReply
  <2>2. Held'
    BY Zenon, <1>1, <2>1 DEF Held
  <2>3. Held
    BY Zenon, <1>1, <1>2, <1>3, <1>4, TakenWasHeld DEF Held
  <2> QED
    BY Zenon, <1>1, <2>2, <2>3, QuietMaps
<1>5. CASE ~ph'.internal
  <2>1. ppc' = "recv"
    BY ZenonT(30), <1>5 DEF ProcessReply
  <2>2. /\ created' \in {created, << >>} /\ echo' \in {echo, << >>}
        /\ \A h \in StatusHandles : status'[h] \in {status[h], 0}
    BY ZenonT(30), <1>2, <1>3, TakeHandlerKeeps
  <2>3. Held' => Held
    BY Zenon, <1>1, <2>1, <2>2 DEF Held
  <2> QED
    BY Zenon, <1>1, <2>3, QuietMaps
<1> QED
  BY Zenon, <1>4, <1>5

(* deliver answers the call, if it is still there to be answered.          *)
LEMMA DeliverMaps ==
  ASSUME TypeOK, HandlerInv, Mapped, Mapped', presp.req # 0, Deliver
  PROVE  [RR!Next]_RR!vars
<1>1. /\ UNCHANGED <<mutex, ncalls, pc, cid, created, echo, status>>
      /\ ppc = "deliver" /\ ppc' = "recv"
      /\ cres' = [c \in Callers |->
                    IF cid[c] = ph.id /\ pc[c] # "idle" THEN presp.req ELSE cres[c]]
  BY ZenonT(30) DEF Deliver, slotVars
<1>2. AskedNow' <=> AskedNow
  BY Zenon, <1>1 DEF AskedNow
<1>3. CASE \E c \in Callers : cid[c] = ph.id
  <2>1. Held
    BY <1>1, <1>3 DEF Held
  <2>2. PICK c \in Callers : cid[c] = ph.id
    BY <1>3
  <2>3. pc[c] \notin {"idle", "lock", "set"} /\ NothingQueued
    <3>1. pc[c] \notin {"lock", "set"} /\ NothingQueued /\ ph.id # 0
      BY <1>1, <2>2 DEF HandlerInv, SpentInv
    <3> QED
      BY <2>2, <3>1, HolderFacts
  <2>4. mutex = c
    BY Zenon, <2>3, HolderFacts
  <2>5. ~Held'
    BY ZenonT(30), <1>1, <2>3 DEF Held, NothingQueued
  <2>6. cres'[c] = presp.req
    BY ZenonT(30), <1>1, <2>2, <2>3
  <2>7. Waiting = {cid[c]} /\ Waiting' = {} /\ Answered' = {cid[c]}
    BY ZenonT(30), <1>1, <2>1, <2>4, <2>5, <2>6 DEF Mapped
  <2> QED
    BY ZenonT(30), <1>1, <1>2, <2>4, <2>7, IsAnswered
<1>4. CASE ~ \E c \in Callers : cid[c] = ph.id
  <2>1. cres' = cres
    BY <1>1, <1>4 DEF TypeOK, CallerTypes
  <2>2. Held' <=> Held
    BY Zenon, <1>1, <1>4 DEF Held
  <2> QED
    BY Zenon, <1>1, <2>1, <2>2, QuietMaps
<1> QED
  BY Zenon, <1>3, <1>4

(* A reply that is being delivered answers a numbered request.             *)
Numbered == ppc = "deliver" => presp.req # 0

LEMMA NumberedStep ==
  ASSUME TypeOK, Numbered, [Next]_vars
  PROVE  Numbered'
<1>1. CASE ProcessReply
  <2>1. Head(in) \in Packet /\ Head(in).type \in {"job_created", "echo_res", "status_res"}
    BY <1>1 DEF ProcessReply, TypeOK, ReaderTypes
  <2>2. Head(in).req # 0
    BY <2>1 DEF Packet, Calls
  <2> QED
    BY ZenonT(30), <1>1, <2>2 DEF ProcessReply, Numbered
<1>2. \/ UNCHANGED <<ppc, presp>>
      \/ ProcessReply
      \/ ppc' # "deliver"
  <2>1. processLoop => UNCHANGED <<ppc, presp>> \/ ProcessReply \/ ppc' # "deliver"
    BY ZenonT(30) DEF processLoop, ProcessMarker, ProcessOther, Deliver, ProcessWork, CallbackReturns,
           ProcessExit
  <2>2. (\E c \in Callers : Caller(c)) => UNCHANGED <<ppc, presp>>
    BY ZenonT(30) DEF Caller, Call, Lock, SetHandler, Write, WriteTo, Receive, Timeout, CloseConn, procVars
  <2>3. SetClosed \/ FinishClose \/ readLoop \/ Server => UNCHANGED <<ppc, presp>>
    BY Zenon DEF SetClosed, FinishClose, readLoop, LoopTest, GetRW, ReadPacket, ReadError, Send,
           RedialTest, Dial, DialFails, SetConn, SendMarker, ReaderUnchanged, Server, Answer,
           Ignore, Drop, Report, ServerUnchanged, procVars
  <2>4. UNCHANGED vars => UNCHANGED <<ppc, presp>>
    BY Zenon DEF vars
  <2> QED
    BY Zenon, <2>1, <2>2, <2>3, <2>4 DEF Next
<1> QED
  BY Zenon, <1>1, <1>2 DEF Numbered

LEMMA StepMaps ==
  ASSUME TypeOK, HandlerInv, Numbered, Mapped, Mapped', [Next]_vars
  PROVE  [RR!Next]_RR!vars
<1>1. ASSUME NEW c \in Callers, Caller(c)
      PROVE  [RR!Next]_RR!vars
  <2>1. CASE Receive(c)
    <3>1. pc[c] = "wait" /\ Return(c)
      BY Zenon, <2>1 DEF Receive
    <3> QED
      BY Zenon, <3>1, ReturnMaps
  <2>2. CASE CloseConn(c)
    <3>1. pc[c] = "close" /\ Return(c)
      BY Zenon, <2>2 DEF CloseConn
    <3> QED
      BY Zenon, <3>1, ReturnMaps
  <2> QED
    BY <1>1, <2>1, <2>2, CallMaps, LockMaps, SetHandlerMaps, WriteMaps, TimeoutMaps DEF Caller
<1>2. ASSUME UNCHANGED <<mutex, ncalls, pc, cid, cres, created, echo, status, ppc, ph>>
      PROVE  [RR!Next]_RR!vars
  <2>1. Held' <=> Held
    BY Zenon, <1>2 DEF Held
  <2> QED
    BY Zenon, <1>2, <2>1, QuietMaps
<1>3. CASE SetClosed \/ Server \/ UNCHANGED vars
  <2>1. UNCHANGED <<mutex, ncalls, pc, cid, cres, created, echo, status, ppc, ph>>
    BY Zenon, <1>3 DEF SetClosed, Server, Answer, Ignore, Drop, Report, ServerUnchanged, slotVars,
                callerVars, procVars, vars
  <2> QED
    BY Zenon, <1>2, <2>1
<1>4. CASE FinishClose
  BY Zenon, <1>4, closeConnMaps DEF FinishClose, callerVars, procVars
<1>5. CASE readLoop
  <2>1. UNCHANGED <<mutex, ncalls, pc, cid, cres, status, ppc, ph>>
    BY ZenonT(30), <1>5 DEF readLoop, LoopTest, GetRW, ReadPacket, ReadError, Send, RedialTest, Dial,
                DialFails, SetConn, SendMarker, ReaderUnchanged, callerVars, procVars
  <2>2. closeConn \/ UNCHANGED <<created, echo>>
    BY Zenon, <1>5 DEF readLoop, LoopTest, GetRW, ReadPacket, ReadError, Send, RedialTest, Dial,
                DialFails, SetConn, SendMarker
  <2> QED
    BY Zenon, <1>2, <2>1, <2>2, closeConnMaps
<1>6. CASE processLoop
  <2>1. CASE ProcessMarker \/ ProcessOther \/ ProcessWork \/ CallbackReturns \/ ProcessExit
    <3>1. /\ UNCHANGED <<mutex, ncalls, pc, cid, cres, created, echo, status>>
          /\ ppc # "deliver" /\ ppc' # "deliver"
      BY ZenonT(30), <2>1 DEF ProcessMarker, ProcessOther, ProcessWork, CallbackReturns, ProcessExit,
                  ProcessUnchanged, slotVars, callerVars
    <3>2. Held' <=> Held
      BY Zenon, <3>1 DEF Held
    <3> QED
      BY Zenon, <3>1, <3>2, QuietMaps
  <2>2. CASE Deliver
    <3>1. presp.req # 0
      BY ZenonT(30), <2>2 DEF Deliver, Numbered
    <3> QED
      BY Zenon, <2>2, <3>1, DeliverMaps
  <2> QED
    BY Zenon, <1>6, <2>1, <2>2, ProcessReplyMaps DEF processLoop
<1> QED
  BY Zenon, <1>1, <1>3, <1>4, <1>5, <1>6 DEF Next

LEMMA InitMaps == Init => RR!Init
<1> SUFFICES ASSUME Init PROVE RR!Init
  OBVIOUS
<1>1. Live(created) = {} /\ Live(echo) = {}
  <2>1. created = << >> /\ echo = << >>
    BY Zenon DEF Init
  <2>2. 1..Len(created) = {} /\ 1..Len(echo) = {}
    BY <2>1
  <2> QED
    BY Zenon, <2>2 DEF Live
<1>2. Waiting = {}
  BY Zenon, <1>1 DEF Init, Waiting
<1>3. {cid[c] : c \in {c \in Callers : cres[c] # 0}} = {}
  BY Zenon DEF Init
<1>4. (\E c \in Callers : pc[c] \notin {"idle", "lock", "set"}) = FALSE
  BY Zenon DEF Init
<1> QED
  BY Zenon, <1>2, <1>3, <1>4 DEF Init, RR!Init

(* The refinement: whatever the callers, Close, the two loops and the job  *)
(* server do, those who call a Client see calls that are served one at a   *)
(* time, answered at most once, and forgotten when they return.            *)
THEOREM RequestReplyImplemented == Spec => ImplementsRequestReply
<1>1. Init => Numbered
  BY Zenon DEF Init, Numbered
<1>2. TypeOK /\ Numbered /\ [Next]_vars => Numbered'
  BY Zenon, NumberedStep
<1>3. TypeOK /\ HandlerInv /\ Numbered /\ Mapped /\ Mapped' /\ [Next]_vars
        => [RR!Next]_RR!vars
  BY Zenon, StepMaps
<1> QED
  BY <1>1, <1>2, <1>3, InitMaps, Mapping, TypeCorrect, HandlerCorrect, PTL
     DEF Spec, ImplementsRequestReply, RR!Spec
=============================================================================

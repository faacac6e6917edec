------------------------- MODULE ClientReplyProofs --------------------------
(***************************************************************************)
(* For every set of callers and every value of the bounds: the reply that  *)
(* a call of a Client returns answers its own request, as long as no reply *)
(* has met a handler of another connection.                                *)
(***************************************************************************)
EXTENDS ClientProofs

-----------------------------------------------------------------------------
(* The connection that is published is the latest, and a call's snapshot   *)
(* of rw is one of a connection that has been published.                   *)
SnapshotInv ==
  /\ conn \in {0, nconn}
  /\ \A c \in Callers :
       /\ crw[c] <= nconn
       /\ crw[c] # 0 => pc[c] \in {"writeTo", "wait", "close"}
       /\ rpc = "setConn" => crw[c] # nconn

LEMMA SnapshotStep ==
  ASSUME TypeOK, Redialling, SnapshotInv, [Next]_vars
  PROVE  SnapshotInv'
<1> USE DEF SnapshotInv
<1>1. crw \in [Callers -> 0..MaxConn] /\ pc \in [Callers -> {"idle", "lock", "set", "write", "writeTo", "wait", "close"}]
      /\ nconn \in 1..MaxConn /\ MaxConn \in Nat
  BY Zenon, ClientAssumption DEF TypeOK, CallerTypes, ConnTypes
<1>2. ASSUME NEW c \in Callers, Caller(c)
      PROVE  SnapshotInv'
  <2>1. nconn' = nconn /\ rpc' = rpc /\ conn' \in {conn, 0}
    BY ZenonT(30), <1>2 DEF Caller, Call, Lock, SetHandler, Write, WriteTo, Receive, Timeout, CloseConn,
                closeConn, connVars, readerVars
  <2>2. /\ \A d \in Callers \ {c} : crw'[d] = crw[d] /\ pc'[d] = pc[d]
        /\ \/ crw'[c] = 0
           \/ pc[c] = "write" /\ conn # 0 /\ crw'[c] = conn /\ pc'[c] = "writeTo"
           \/ crw'[c] = crw[c] /\ (pc'[c] = pc[c] \/ pc[c] \in {"idle", "lock", "set"} \/ pc'[c] \in {"wait", "close"})
    BY ZenonT(30), <1>1, <1>2 DEF Caller, Call, Lock, SetHandler, Write, WriteTo, Receive, Timeout, CloseConn, Return
  <2>3. ASSUME NEW d \in Callers
        PROVE  /\ crw'[d] <= nconn'
               /\ crw'[d] # 0 => pc'[d] \in {"writeTo", "wait", "close"}
               /\ rpc' = "setConn" => crw'[d] # nconn'
    <3>1. CASE d # c
      BY ZenonT(30), <2>1, <2>2, <3>1
    <3>2. CASE d = c
      BY <1>1, <2>1, <2>2, <3>2 DEF Redialling
    <3> QED
      BY Zenon, <3>1, <3>2
  <2> QED
    BY Zenon, <2>1, <2>3
<1>3. CASE readLoop
  <2>1. UNCHANGED <<crw, pc>>
    BY Zenon, <1>3 DEF readLoop, LoopTest, GetRW, ReadPacket, ReadError, Send, RedialTest, Dial,
                DialFails, SetConn, SendMarker, ReaderUnchanged, callerVars
  <2>2. CASE Dial
    <3>1. conn' = 0 /\ nconn' = nconn + 1
      BY Zenon, <2>2 DEF Dial, Redialling
    <3> QED
      BY <1>1, <2>1, <3>1
  <2>3. CASE ~Dial
    <3>1. nconn' = nconn /\ conn' \in {0, conn, nconn} /\ (rpc' = "setConn" => rpc = "setConn")
      BY Zenon, <1>3, <2>3 DEF readLoop, LoopTest, GetRW, ReadPacket, ReadError, Send, RedialTest,
                        DialFails, SetConn, SendMarker, closeConn
    <3> QED
      BY Zenon, <2>1, <3>1
  <2> QED
    BY Zenon, <2>2, <2>3
<1>4. CASE SetClosed \/ FinishClose \/ processLoop \/ Server \/ UNCHANGED vars
  <2>1. UNCHANGED <<crw, pc, nconn, rpc>>
    BY ZenonT(30), <1>4 DEF SetClosed, FinishClose, processLoop, ProcessMarker, ProcessOther, ProcessReply,
       Deliver, ProcessWork, CallbackReturns, ProcessExit, ProcessUnchanged, Server, Answer,
       Ignore, Drop, Report, ServerUnchanged, connVars, callerVars, readerVars, vars
  <2>2. conn' \in {conn, 0}
    BY Zenon, <1>4 DEF SetClosed, FinishClose, closeConn, processLoop, ProcessMarker, ProcessOther,
       ProcessReply, Deliver, ProcessWork, CallbackReturns, ProcessExit, ProcessUnchanged, Server,
       Answer, Ignore, Drop, Report, ServerUnchanged, connVars, vars
  <2> QED
    BY Zenon, <2>1, <2>2
<1> QED
  BY Zenon, <1>2, <1>3, <1>4 DEF Next

-----------------------------------------------------------------------------
(* A request for a JOB_CREATED or an ECHO_RES, or such a reply, is under   *)
(* way on connection n for call r.                                         *)
Asks(q) == q.kind \notin {"option", "status"}

Replies(p, n, r) == p.type \in {"job_created", "echo_res"} /\ p.conn = n /\ p.req = r

AskedIn(s, r)    == \E i \in 1..Len(s) : Asks(s[i]) /\ s[i].id = r
Asked(n, r)      == n = nconn /\ AskedIn(reqs, r)
Carries(s, n, r) == \E i \in 1..Len(s) : Replies(s[i], n, r)
Read(n, r)       == rpc = "send" /\ Replies(rresp, n, r)

InFlight(n, r) == Asked(n, r) \/ Carries(wire, n, r) \/ Read(n, r) \/ Carries(in, n, r)

(* It is under way once.                                                   *)
OnceAsked(s) == \A i, j \in 1..Len(s) : Asks(s[i]) /\ Asks(s[j]) /\ s[i].id = s[j].id => i = j

OnceIn(s) == \A i, j \in 1..Len(s) :
  s[i].type \in {"job_created", "echo_res"} /\ Replies(s[j], s[i].conn, s[i].req) => i = j

Apart(n, r) ==
  /\ Asked(n, r) => ~Carries(wire, n, r) /\ ~Read(n, r) /\ ~Carries(in, n, r)
  /\ Carries(wire, n, r) => ~Read(n, r) /\ ~Carries(in, n, r)
  /\ Read(n, r) => ~Carries(in, n, r)

OneAtATime ==
  /\ OnceAsked(reqs) /\ OnceIn(wire) /\ OnceIn(in)
  /\ \A n \in 1..MaxConn, r \in Calls : Apart(n, r)

LEMMA CarriesAppend ==
  ASSUME NEW S, NEW s \in Seq(S), NEW p \in S
  PROVE  /\ \A n, r : Carries(Append(s, p), n, r) <=> Carries(s, n, r) \/ Replies(p, n, r)
         /\ OnceIn(s) /\ (p.type \in {"job_created", "echo_res"} => ~Carries(s, p.conn, p.req))
              => OnceIn(Append(s, p))
<1>1. /\ Len(s) \in Nat /\ Len(Append(s, p)) = Len(s) + 1
      /\ \A i \in 1..Len(s) : Append(s, p)[i] = s[i]
      /\ Append(s, p)[Len(s) + 1] = p
  BY AppendProperties
<1> DEFINE t == Append(s, p)
           l == Len(s)
<1>2. l \in Nat /\ Len(t) = l + 1 /\ (\A i \in 1..l : t[i] = s[i]) /\ t[l + 1] = p
  BY Zenon, <1>1
<1>3. l = Len(s)
  OBVIOUS
<1> HIDE DEF t, l
<1>4. ASSUME NEW n, NEW r
      PROVE  Carries(t, n, r) <=> Carries(s, n, r) \/ Replies(p, n, r)
  <2>1. ASSUME NEW i \in 1..Len(t), Replies(t[i], n, r)
        PROVE  Carries(s, n, r) \/ Replies(p, n, r)
    <3>1. CASE i = l + 1
      BY Zenon, <1>2, <2>1, <3>1
    <3>2. CASE i # l + 1
      <4>1. i \in 1..l
        BY <1>2, <3>2
      <4> QED
        BY Zenon, <1>2, <1>3, <2>1, <4>1 DEF Carries
    <3> QED
      BY Zenon, <3>1, <3>2
  <2>2. ASSUME NEW i \in 1..l, Replies(s[i], n, r)
        PROVE  Carries(t, n, r)
    <3>1. i \in 1..Len(t) /\ t[i] = s[i]
      BY <1>2
    <3> QED
      BY Zenon, <2>2, <3>1 DEF Carries
  <2>3. Replies(p, n, r) => Carries(t, n, r)
    <3>1. l + 1 \in 1..Len(t)
      BY <1>2
    <3> QED
      BY Zenon, <1>2, <3>1 DEF Carries
  <2> QED
    BY Zenon, <1>3, <2>1, <2>2, <2>3 DEF Carries
<1>5. ASSUME OnceIn(s), p.type \in {"job_created", "echo_res"} => ~Carries(s, p.conn, p.req)
      PROVE  OnceIn(t)
  <2> SUFFICES ASSUME NEW i \in 1..Len(t), NEW j \in 1..Len(t),
                      t[i].type \in {"job_created", "echo_res"},
                      Replies(t[j], t[i].conn, t[i].req)
               PROVE  i = j
    BY Zenon DEF OnceIn
  <2>1. CASE i \in 1..l /\ j \in 1..l
    BY Zenon, <1>2, <1>3, <1>5, <2>1 DEF OnceIn
  <2>2. CASE i = l + 1 /\ j \in 1..l
    BY Zenon, <1>2, <1>3, <1>5, <2>2 DEF Carries
  <2>3. CASE i \in 1..l /\ j = l + 1
    <3>1. Replies(p, s[i].conn, s[i].req) /\ t[i] = s[i]
      BY Zenon, <1>2, <2>3
    <3>2. Replies(s[i], p.conn, p.req) /\ p.type \in {"job_created", "echo_res"}
      BY Zenon, <3>1 DEF Replies
    <3> QED
      BY Zenon, <1>3, <1>5, <2>3, <3>2 DEF Carries
  <2>4. i \in 1..l \/ i = l + 1
    BY <1>2
  <2>5. j \in 1..l \/ j = l + 1
    BY <1>2
  <2> QED
    BY Zenon, <2>1, <2>2, <2>3, <2>4, <2>5
<1> QED
  BY Zenon, <1>4, <1>5 DEF t

LEMMA CarriesTail ==
  ASSUME NEW S, NEW s \in Seq(S), s # << >>, OnceIn(s)
  PROVE  /\ \A n, r : Carries(Tail(s), n, r) <=> Carries(s, n, r) /\ ~Replies(Head(s), n, r)
         /\ OnceIn(Tail(s))
<1> DEFINE t == Tail(s)
           l == Len(t)
<1>1. l \in Nat /\ Len(s) = l + 1 /\ (\A i \in 1..l : t[i] = s[i + 1]) /\ Head(s) = s[1]
  BY HeadTailProperties, EmptySeq
<1>2. l = Len(t)
  OBVIOUS
<1> HIDE DEF t, l
<1>3. ASSUME NEW n, NEW r
      PROVE  Carries(t, n, r) <=> Carries(s, n, r) /\ ~Replies(s[1], n, r)
  <2>1. ASSUME NEW i \in 1..l, Replies(t[i], n, r)
        PROVE  Carries(s, n, r) /\ ~Replies(s[1], n, r)
    <3>1. i + 1 \in 1..Len(s) /\ Replies(s[i + 1], n, r) /\ i + 1 # 1 /\ 1 \in 1..Len(s)
      BY <1>1, <2>1
    <3>2. ~Replies(s[1], n, r)
      <4>1. Replies(s[1], n, r) => 1 = i + 1
        BY Zenon, <3>1 DEF OnceIn, Replies
      <4> QED
        BY Zenon, <3>1, <4>1
    <3> QED
      BY Zenon, <3>1, <3>2 DEF Carries
  <2>2. ASSUME NEW i \in 1..Len(s), Replies(s[i], n, r), ~Replies(s[1], n, r)
        PROVE  Carries(t, n, r)
    <3>1. i # 1
      BY Zenon, <2>2
    <3>2. i - 1 \in 1..l /\ t[i - 1] = s[i]
      BY <1>1, <3>1
    <3> QED
      BY Zenon, <1>2, <2>2, <3>2 DEF Carries
  <2> QED
    BY Zenon, <1>2, <2>1, <2>2 DEF Carries
<1>4. OnceIn(t)
  <2> SUFFICES ASSUME NEW i \in 1..l, NEW j \in 1..l,
                      t[i].type \in {"job_created", "echo_res"},
                      Replies(t[j], t[i].conn, t[i].req)
               PROVE  i = j
    BY Zenon, <1>2 DEF OnceIn
  <2>1. i + 1 \in 1..Len(s) /\ j + 1 \in 1..Len(s) /\ t[i] = s[i + 1] /\ t[j] = s[j + 1]
    BY <1>1
  <2>2. i + 1 = j + 1
    BY Zenon, <2>1 DEF OnceIn
  <2> QED
    BY <1>1, <2>2
<1> QED
  BY Zenon, <1>1, <1>3, <1>4 DEF t

LEMMA AskedAppend ==
  ASSUME NEW S, NEW s \in Seq(S), NEW q \in S
  PROVE  /\ \A r : AskedIn(Append(s, q), r) <=> AskedIn(s, r) \/ (Asks(q) /\ q.id = r)
         /\ OnceAsked(s) /\ (Asks(q) => ~AskedIn(s, q.id)) => OnceAsked(Append(s, q))
<1>1. /\ Len(s) \in Nat /\ Len(Append(s, q)) = Len(s) + 1
      /\ \A i \in 1..Len(s) : Append(s, q)[i] = s[i]
      /\ Append(s, q)[Len(s) + 1] = q
  BY AppendProperties
<1> DEFINE t == Append(s, q)
           l == Len(s)
<1>2. l \in Nat /\ Len(t) = l + 1 /\ (\A i \in 1..l : t[i] = s[i]) /\ t[l + 1] = q
  BY Zenon, <1>1
<1>3. l = Len(s)
  OBVIOUS
<1> HIDE DEF t, l
<1>4. \A i : i \in 1..Len(t) <=> i \in 1..l \/ i = l + 1
  BY <1>2
<1>5. ASSUME NEW r
      PROVE  AskedIn(t, r) <=> AskedIn(s, r) \/ (Asks(q) /\ q.id = r)
  BY Zenon, <1>2, <1>3, <1>4 DEF AskedIn
<1>6. ASSUME OnceAsked(s), Asks(q) => ~AskedIn(s, q.id)
      PROVE  OnceAsked(t)
  <2> SUFFICES ASSUME NEW i \in 1..Len(t), NEW j \in 1..Len(t),
                      Asks(t[i]), Asks(t[j]), t[i].id = t[j].id
               PROVE  i = j
    BY Zenon DEF OnceAsked
  <2>1. CASE i \in 1..l /\ j \in 1..l
    BY Zenon, <1>2, <1>3, <1>6, <2>1 DEF OnceAsked
  <2>2. CASE i = l + 1 /\ j \in 1..l
    BY Zenon, <1>2, <1>3, <1>6, <2>2 DEF AskedIn
  <2>3. CASE i \in 1..l /\ j = l + 1
    BY Zenon, <1>2, <1>3, <1>6, <2>3 DEF AskedIn
  <2> QED
    BY Zenon, <1>4, <2>1, <2>2, <2>3
<1> QED
  BY Zenon, <1>5, <1>6 DEF t

LEMMA AskedTail ==
  ASSUME NEW S, NEW s \in Seq(S), s # << >>, OnceAsked(s)
  PROVE  /\ \A r : AskedIn(Tail(s), r) <=> AskedIn(s, r) /\ ~ (Asks(Head(s)) /\ Head(s).id = r)
         /\ OnceAsked(Tail(s))
<1> DEFINE t == Tail(s)
           l == Len(t)
<1>1. l \in Nat /\ Len(s) = l + 1 /\ (\A i \in 1..l : t[i] = s[i + 1]) /\ Head(s) = s[1]
  BY HeadTailProperties, EmptySeq
<1>2. l = Len(t)
  OBVIOUS
<1> HIDE DEF t, l
<1>3. ASSUME NEW r
      PROVE  AskedIn(t, r) <=> AskedIn(s, r) /\ ~ (Asks(s[1]) /\ s[1].id = r)
  <2>1. ASSUME NEW i \in 1..l, Asks(t[i]), t[i].id = r
        PROVE  AskedIn(s, r) /\ ~ (Asks(s[1]) /\ s[1].id = r)
    <3>1. i + 1 \in 1..Len(s) /\ s[i + 1] = t[i] /\ i + 1 # 1 /\ 1 \in 1..Len(s)
      BY <1>1
    <3>2. ~ (Asks(s[1]) /\ s[1].id = r)
      <4>1. Asks(s[1]) /\ s[1].id = r => 1 = i + 1
        BY Zenon, <2>1, <3>1 DEF OnceAsked
      <4> QED
        BY Zenon, <3>1, <4>1
    <3> QED
      BY Zenon, <2>1, <3>1, <3>2 DEF AskedIn
  <2>2. ASSUME NEW i \in 1..Len(s), Asks(s[i]), s[i].id = r, ~ (Asks(s[1]) /\ s[1].id = r)
        PROVE  AskedIn(t, r)
    <3>1. i # 1
      BY Zenon, <2>2
    <3>2. i - 1 \in 1..l /\ t[i - 1] = s[i]
      BY <1>1, <3>1
    <3> QED
      BY Zenon, <1>2, <2>2, <3>2 DEF AskedIn
  <2> QED
    BY Zenon, <1>2, <2>1, <2>2 DEF AskedIn
<1>4. OnceAsked(t)
  <2> SUFFICES ASSUME NEW i \in 1..l, NEW j \in 1..l, Asks(t[i]), Asks(t[j]), t[i].id = t[j].id
               PROVE  i = j
    BY Zenon, <1>2 DEF OnceAsked
  <2>1. i + 1 \in 1..Len(s) /\ j + 1 \in 1..Len(s) /\ t[i] = s[i + 1] /\ t[j] = s[j + 1]
    BY <1>1
  <2>2. i + 1 = j + 1
    BY Zenon, <2>1 DEF OnceAsked
  <2> QED
    BY <1>1, <2>2
<1> QED
  BY <1>1, <1>3, <1>4 DEF t
-----------------------------------------------------------------------------
(* Why a reply finds its own call.  What is under way on a connection that *)
(* some call has written to belongs to that call; once its call has        *)
(* returned, its connection has been dropped, and no later call will see   *)
(* that connection.                                                        *)
Gone(n) == n # conn /\ ~ (rpc = "setConn" /\ n = nconn)

Owned(n, r) ==
  /\ n <= nconn /\ r <= ncalls
  /\ \A c \in Callers : crw[c] = n => cid[c] = r
  /\ \A c \in Callers : cid[c] = r =>
       /\ pc[c] \in {"wait", "close"} /\ crw[c] = n /\ ckind[c] # "status"
       /\ cres[c] = 0 /\ (ppc = "deliver" => ph.id # r)
  /\ (\E c \in Callers : cid[c] = r) \/ Gone(n)

FlightInv == \A n \in 1..MaxConn, r \in Calls : InFlight(n, r) => Owned(n, r)

(* A reply in processLoop's hands has been matched with its own call, and  *)
(* that call has been written.                                             *)
DeliverInv ==
  /\ ppc = "deliver" =>
       /\ presp.type \in {"job_created", "echo_res", "status_res"} /\ presp.req \in Calls
       /\ presp.type # "status_res" => presp.req = ph.id
       /\ presp.type = "status_res" =>
            ~ph.external /\ \A c \in Callers : cid[c] = ph.id => ckind[c] = "status"
  /\ \A c \in Callers :
       ckind[c] # "status" /\ (cres[c] # 0 \/ (ppc = "deliver" /\ cid[c] = ph.id))
         => pc[c] \in {"wait", "close"}

(* The connections, as far as they are known by now.                       *)
ConnFacts == NoSocketLeak /\ Redialling /\ SnapshotInv

ReplyInv == ~crossed => OneAtATime /\ FlightInv /\ DeliverInv /\ OwnReply

-----------------------------------------------------------------------------
(* A request is under way only from its WriteTo, and once.                 *)

(* Steps that neither write, read nor answer.                              *)
LEMMA FlowFrame ==
  ASSUME OneAtATime, UNCHANGED <<reqs, wire, in, nconn>>,
         rpc = "send" \/ rpc' = "send" => UNCHANGED <<rpc, rresp>>
  PROVE  /\ OneAtATime'
         /\ \A n \in 1..MaxConn, r \in Calls : InFlight(n, r)' => InFlight(n, r)
<1>1. \A n, r : (Asked(n, r)' <=> Asked(n, r)) /\ (Read(n, r)' <=> Read(n, r))
                /\ (Carries(wire, n, r)' <=> Carries(wire, n, r))
                /\ (Carries(in, n, r)' <=> Carries(in, n, r))
  BY ZenonT(30) DEF Asked, AskedIn, Read, Carries, Replies
<1>2. OnceAsked(reqs)' /\ OnceIn(wire)' /\ OnceIn(in)'
  BY Zenon DEF OneAtATime, OnceAsked, OnceIn, Replies
<1> QED
  BY Zenon, <1>1, <1>2 DEF OneAtATime, Apart, InFlight
(* The server takes a request off its connection; what it answers with     *)
(* takes its place, if it is a reply.                                      *)
LEMMA FlowServer ==
  ASSUME TypeOK, OneAtATime, Server
  PROVE  /\ OneAtATime'
         /\ \A n \in 1..MaxConn, r \in Calls : InFlight(n, r)' => InFlight(n, r)
<1>1. UNCHANGED <<in, nconn, rpc, rresp>>
  BY Zenon DEF Server, Answer, Ignore, Drop, Report, ServerUnchanged, connVars, readerVars
<1>2. /\ reqs \in Seq(Request) /\ wire \in Seq(Packet)
      /\ reqs' \in Seq(Request) /\ wire' \in Seq(Packet)
      /\ nconn \in 1..MaxConn
  BY Zenon, ServerType DEF TypeOK, ServerTypes, ConnTypes
<1>3. /\ \A n, r : Read(n, r)' <=> Read(n, r)
      /\ \A n, r : Carries(in, n, r)' <=> Carries(in, n, r)
      /\ OnceIn(in)'
  BY Zenon, <1>1 DEF OneAtATime, Read, Carries, OnceIn, Replies
<1>4. CASE Drop
  BY Zenon, <1>1, <1>4, FlowFrame DEF Drop
<1>5. CASE Ignore
  <2>1. reqs # << >> /\ reqs' = Tail(reqs) /\ wire' = wire
    BY Zenon, <1>5 DEF Ignore
  <2>2. OnceAsked(reqs') /\ \A r : AskedIn(reqs', r) => AskedIn(reqs, r)
    BY Zenon, <1>2, <2>1, AskedTail DEF OneAtATime
  <2>3. \A n, r : Asked(n, r)' => Asked(n, r)
    BY Zenon, <1>1, <2>2 DEF Asked
  <2>4. OnceIn(wire)' /\ \A n, r : Carries(wire, n, r)' <=> Carries(wire, n, r)
    BY Zenon, <2>1 DEF OneAtATime
  <2> QED
    BY Zenon, <1>3, <2>2, <2>3, <2>4 DEF OneAtATime, Apart, InFlight
<1>6. ASSUME NEW j \in Calls, NEW t \in {"work_data", "work_done"}, Report(j, t)
      PROVE  /\ OneAtATime'
             /\ \A n \in 1..MaxConn, r \in Calls : InFlight(n, r)' => InFlight(n, r)
  <2>1. reqs' = reqs /\ wire' = Append(wire, FromServer(t, j, NoHandle))
    BY Zenon, <1>6 DEF Report
  <2>2. FromServer(t, j, NoHandle) \in Packet /\ FromServer(t, j, NoHandle).type = t
    BY Zenon, <1>2, <1>6, ReportTypes DEF FromServer
  <2>3. OnceIn(wire') /\ \A n, r : Carries(wire', n, r) <=> Carries(wire, n, r)
    BY <1>2, <2>1, <2>2, CarriesAppend DEF OneAtATime, Replies
  <2>4. OnceAsked(reqs)' /\ \A n, r : Asked(n, r)' <=> Asked(n, r)
    BY Zenon, <1>1, <2>1 DEF OneAtATime, Asked
  <2> QED
    BY Zenon, <1>3, <2>3, <2>4 DEF OneAtATime, Apart, InFlight
<1>7. CASE Answer
  <2> DEFINE q == Head(reqs)
  <2>1. PICK t \in {Reply(q.kind), "error", "malformed"} :
          wire' = Append(wire, FromServer(t, q.id, q.arg))
    BY Zenon, <1>7 DEF Answer
  <2>2. reqs # << >> /\ reqs' = Tail(reqs)
    BY Zenon, <1>7 DEF Answer
  <2> DEFINE p == FromServer(t, q.id, q.arg)
  <2>3. /\ q \in Request /\ p \in Packet /\ p.type = t /\ p.conn = nconn /\ p.req = q.id
        /\ p.type \in {"job_created", "echo_res"} => Asks(q) /\ q.id \in Calls
    <3>1. q \in Request
      BY <1>2, <2>2
    <3>2. p \in Packet
      BY Zenon, <1>2, <3>1, AnswerTypes
    <3>3. p.type = t /\ p.conn = nconn /\ p.req = q.id
      BY ZenonT(30) DEF FromServer
    <3>4. p.type \in {"job_created", "echo_res"} => Asks(q) /\ q.id \in Calls
      <4>1. Reply(q.kind) \in {"job_created", "echo_res"} => q.kind \notin {"option", "status"}
        BY Zenon DEF Reply
      <4>2. q.kind # "option" => q.id \in Calls
        BY Zenon, <3>1 DEF Request
      <4> QED
        BY Zenon, <3>3, <4>1, <4>2 DEF Asks
    <3> QED
      BY Zenon, <3>1, <3>2, <3>3, <3>4
  <2>4. /\ OnceAsked(reqs')
        /\ \A r : AskedIn(reqs', r) <=> AskedIn(reqs, r) /\ ~ (Asks(q) /\ q.id = r)
    BY Zenon, <1>2, <2>2, AskedTail DEF OneAtATime
  <2> HIDE DEF q, p
  <2>5. Asks(q) => AskedIn(reqs, q.id)
    <3>1. 1 \in 1..Len(reqs) /\ q = reqs[1]
      <4>1. Len(reqs) \in Nat \ {0} /\ q = reqs[1]
        BY <1>2, <2>2, EmptySeq, HeadTailProperties DEF q
      <4> QED
        BY <4>1
    <3> QED
      BY Zenon, <3>1 DEF AskedIn
  <2>6. p.type \in {"job_created", "echo_res"} => Asked(nconn, q.id) /\ ~Carries(wire, p.conn, p.req)
    BY ZenonT(30), <1>2, <2>3, <2>5 DEF OneAtATime, Apart, Asked
  <2>7. /\ OnceIn(wire')
        /\ \A n, r : Carries(wire', n, r) <=> Carries(wire, n, r) \/ Replies(p, n, r)
    <3>1. wire' = Append(wire, p)
      BY Zenon, <2>1 DEF p
    <3> QED
      BY Zenon, <1>2, <2>3, <2>6, <3>1, CarriesAppend DEF OneAtATime
  <2>8. ASSUME NEW n \in 1..MaxConn, NEW r \in Calls
        PROVE  Apart(n, r)' /\ (InFlight(n, r)' => InFlight(n, r))
    <3>1. Asked(n, r)' <=> Asked(n, r) /\ ~ (Asks(q) /\ q.id = r)
      BY Zenon, <1>1, <2>4 DEF Asked
    <3>2. Replies(p, n, r) => Asked(n, r) /\ Asks(q) /\ q.id = r
      BY Zenon, <2>3, <2>6 DEF Replies
    <3>3. Carries(wire, n, r)' <=> Carries(wire, n, r) \/ Replies(p, n, r)
      BY Zenon, <2>7
    <3>4. (Read(n, r)' <=> Read(n, r)) /\ (Carries(in, n, r)' <=> Carries(in, n, r))
      BY Zenon, <1>3
    <3>5. Apart(n, r)
      BY Zenon DEF OneAtATime
    <3> QED
      BY Zenon, <3>1, <3>2, <3>3, <3>4, <3>5 DEF Apart, InFlight
  <2> QED
    BY Zenon, <1>3, <2>4, <2>7, <2>8 DEF OneAtATime
<1> QED
  BY Zenon, <1>4, <1>5, <1>6, <1>7 DEF Server
(* readLoop passes packets on, one at a time.                              *)
LEMMA FlowReader ==
  ASSUME TypeOK, OneAtATime, readLoop
  PROVE  /\ OneAtATime'
         /\ \A n \in 1..MaxConn, r \in Calls : InFlight(n, r)' => InFlight(n, r)
<1>1. wire \in Seq(Packet) /\ in \in Seq(Packet) /\ rresp \in Packet /\ nconn \in 0..MaxConn
  BY ClientAssumption DEF TypeOK, ServerTypes, ReaderTypes, ConnTypes
<1>2. CASE LoopTest \/ GetRW \/ ReadError \/ RedialTest \/ DialFails \/ SetConn
  <2>1. UNCHANGED <<reqs, wire, in, nconn>> /\ rpc # "send" /\ rpc' # "send"
    BY ZenonT(30), <1>2 DEF LoopTest, GetRW, ReadError, RedialTest, DialFails, SetConn, serverVars
  <2> QED
    BY Zenon, <2>1, FlowFrame
<1>3. CASE Dial
  <2>1. /\ in' = in /\ rpc # "send" /\ rpc' # "send" /\ wire' = << >>
        /\ reqs' = IF WantExceptions THEN <<OptionReq>> ELSE << >>
    BY Zenon, <1>3 DEF Dial
  <2>2. \A r : ~AskedIn(reqs', r)
    BY <2>1 DEF AskedIn, Asks, OptionReq
  <2>3. OnceAsked(reqs') /\ OnceIn(wire') /\ \A n, r : ~Carries(wire', n, r)
    BY <2>1, <2>2 DEF OnceAsked, OnceIn, Carries, AskedIn
  <2>4. \A n, r : ~Asked(n, r)' /\ ~Read(n, r)' /\ (Carries(in, n, r)' <=> Carries(in, n, r))
    BY Zenon, <2>1, <2>2 DEF Asked, Read
  <2>5. OnceIn(in)'
    BY Zenon, <2>1 DEF OneAtATime
  <2> QED
    BY Zenon, <2>3, <2>4, <2>5 DEF OneAtATime, Apart, InFlight
<1>4. CASE SendMarker
  <2>1. /\ UNCHANGED <<reqs, wire, nconn>> /\ rpc # "send" /\ rpc' # "send"
        /\ in' = Append(in, Marker(nconn))
    BY Zenon, <1>4 DEF SendMarker, serverVars
  <2>2. OnceIn(in') /\ \A n, r : Carries(in', n, r) <=> Carries(in, n, r)
    <3>1. Marker(nconn) \in Packet /\ Marker(nconn).type = "option_sent"
      BY Zenon, <1>1, PacketTypes DEF Marker
    <3> QED
      BY Zenon, <1>1, <2>1, <3>1, CarriesAppend DEF OneAtATime, Replies
  <2>3. /\ OnceAsked(reqs)' /\ OnceIn(wire)'
        /\ \A n, r : (Asked(n, r)' <=> Asked(n, r)) /\ ~Read(n, r)'
                     /\ (Carries(wire, n, r)' <=> Carries(wire, n, r))
    BY Zenon, <2>1 DEF OneAtATime, Asked, Read
  <2> QED
    BY Zenon, <2>2, <2>3 DEF OneAtATime, Apart, InFlight
<1>5. CASE Send
  <2>1. /\ UNCHANGED <<reqs, wire, nconn>> /\ rpc = "send" /\ rpc' # "send"
        /\ in' = Append(in, rresp)
    BY Zenon, <1>5 DEF Send, serverVars
  <2>2. rresp.type \in {"job_created", "echo_res"} => ~Carries(in, rresp.conn, rresp.req)
    <3> SUFFICES ASSUME rresp.type \in {"job_created", "echo_res"}
                 PROVE  ~Carries(in, rresp.conn, rresp.req)
      OBVIOUS
    <3>1. rresp.conn \in 1..MaxConn /\ rresp.req \in Calls
      BY Zenon, <1>1 DEF Packet
    <3>2. Read(rresp.conn, rresp.req)
      BY Zenon, <2>1 DEF Read, Replies
    <3> QED
      BY Zenon, <3>1, <3>2 DEF OneAtATime, Apart
  <2>3. OnceIn(in') /\ \A n, r : Carries(in', n, r) <=> Carries(in, n, r) \/ Read(n, r)
    BY Zenon, <1>1, <2>1, <2>2, CarriesAppend DEF OneAtATime, Read
  <2>4. /\ OnceAsked(reqs)' /\ OnceIn(wire)'
        /\ \A n, r : (Asked(n, r)' <=> Asked(n, r)) /\ ~Read(n, r)'
                     /\ (Carries(wire, n, r)' <=> Carries(wire, n, r))
    BY Zenon, <2>1 DEF OneAtATime, Asked, Read
  <2> QED
    BY Zenon, <2>3, <2>4 DEF OneAtATime, Apart, InFlight
<1>6. CASE ReadPacket
  <2>1. /\ UNCHANGED <<reqs, in, nconn>> /\ rpc = "read" /\ wire # << >> /\ wire' = Tail(wire)
        /\ rpc' = "send" => rresp' = Head(wire)
    BY Zenon, <1>6 DEF ReadPacket
  <2>2. /\ OnceIn(wire')
        /\ \A n, r : Carries(wire', n, r) <=> Carries(wire, n, r) /\ ~Replies(Head(wire), n, r)
    BY <1>1, <2>1, CarriesTail DEF OneAtATime
  <2>3. ASSUME NEW n, NEW r, Replies(Head(wire), n, r)
        PROVE  Carries(wire, n, r)
    <3>1. Len(wire) \in Nat \ {0} /\ Head(wire) = wire[1]
      BY <1>1, <2>1, EmptySeq, HeadTailProperties
    <3>2. 1 \in 1..Len(wire)
      BY <3>1
    <3> QED
      BY <2>3, <3>1, <3>2 DEF Carries
  <2>4. \A n, r : Read(n, r)' => Replies(Head(wire), n, r)
    BY Zenon, <2>1 DEF Read
  <2>5. /\ OnceAsked(reqs)' /\ OnceIn(in)'
        /\ \A n, r : (Asked(n, r)' <=> Asked(n, r)) /\ ~Read(n, r)
                     /\ (Carries(in, n, r)' <=> Carries(in, n, r))
    BY Zenon, <2>1 DEF OneAtATime, Asked, Read
  <2>6. ASSUME NEW n \in 1..MaxConn, NEW r \in Calls
        PROVE  Apart(n, r)' /\ (InFlight(n, r)' => InFlight(n, r))
    <3>1. Apart(n, r)
      BY Zenon DEF OneAtATime
    <3> QED
      BY Zenon, <2>2, <2>3, <2>4, <2>5, <3>1 DEF Apart, InFlight
  <2> QED
    BY <2>2, <2>5, <2>6 DEF OneAtATime
<1> QED
  BY Zenon, <1>2, <1>3, <1>4, <1>5, <1>6 DEF readLoop

(* What processLoop receives is not under way any more.                    *)
LEMMA FlowReceive ==
  ASSUME TypeOK, OneAtATime, in # << >>, in' = Tail(in),
         UNCHANGED <<reqs, wire, nconn, rpc, rresp>>
  PROVE  /\ OneAtATime'
         /\ \A n \in 1..MaxConn, r \in Calls :
              /\ InFlight(n, r)' => InFlight(n, r) /\ ~Replies(Head(in), n, r)
              /\ Replies(Head(in), n, r) => InFlight(n, r)
<1>1. in \in Seq(Packet)
  BY Zenon DEF TypeOK, ReaderTypes
<1>2. /\ OnceIn(in')
      /\ \A n, r : Carries(in', n, r) <=> Carries(in, n, r) /\ ~Replies(Head(in), n, r)
  BY Zenon, <1>1, CarriesTail DEF OneAtATime
<1>3. ASSUME NEW n, NEW r, Replies(Head(in), n, r)
      PROVE  Carries(in, n, r)
  <2>1. Len(in) \in Nat \ {0} /\ Head(in) = in[1]
    BY <1>1, EmptySeq, HeadTailProperties
  <2>2. 1 \in 1..Len(in)
    BY <2>1
  <2> QED
    BY <1>3, <2>1, <2>2 DEF Carries
<1>4. /\ OnceAsked(reqs)' /\ OnceIn(wire)'
      /\ \A n, r : (Asked(n, r)' <=> Asked(n, r)) /\ (Read(n, r)' <=> Read(n, r))
                   /\ (Carries(wire, n, r)' <=> Carries(wire, n, r))
  BY Zenon DEF OneAtATime, Asked, Read
<1>5. ASSUME NEW n \in 1..MaxConn, NEW r \in Calls
      PROVE  /\ Apart(n, r)'
             /\ InFlight(n, r)' => InFlight(n, r) /\ ~Replies(Head(in), n, r)
             /\ Replies(Head(in), n, r) => InFlight(n, r)
  <2>1. Apart(n, r)
    BY Zenon DEF OneAtATime
  <2> QED
    BY Zenon, <1>2, <1>3, <1>4, <2>1 DEF Apart, InFlight
<1> QED
  BY <1>2, <1>4, <1>5 DEF OneAtATime

(* A call that writes has nothing under way yet.                           *)
LEMMA FlowWrite ==
  ASSUME TypeOK, OneAtATime, FlightInv, NEW c \in Callers, WriteTo(c)
  PROVE  /\ OneAtATime'
         /\ \A n \in 1..MaxConn, r \in Calls : InFlight(n, r)' =>
              \/ InFlight(n, r)
              \/ /\ n = nconn /\ r = cid[c] /\ ckind[c] # "status" /\ crw[c] \in open
                 /\ pc'[c] = "wait" /\ UNCHANGED <<cid, ckind, cres, crw>>
<1>1. UNCHANGED <<wire, in, nconn, rpc, rresp>> /\ pc[c] = "writeTo"
  BY Zenon DEF WriteTo, connVars, readerVars
<1>2. CASE reqs' = reqs
  BY ZenonT(30), <1>1, <1>2, FlowFrame
<1>3. CASE reqs' # reqs
  <2> DEFINE q == [kind |-> ckind[c], id |-> cid[c], arg |-> carg[c]]
  <2>1. /\ reqs' = Append(reqs, q) /\ crw[c] \in open /\ pc' = [pc EXCEPT ![c] = "wait"]
        /\ UNCHANGED <<cid, ckind, cres, crw>>
    BY Zenon, <1>3 DEF WriteTo, ReturnLocals
  <2>2. /\ q.kind = ckind[c] /\ q.id = cid[c] /\ q \in Request /\ cid[c] \in Calls
        /\ reqs \in Seq(Request) /\ nconn \in 1..MaxConn /\ ckind[c] # "option"
    <3>1. ckind[c] \in Kinds /\ cid[c] \in Calls
          /\ carg[c] \in (IF ckind[c] = "status" THEN StatusHandles ELSE {NoHandle})
      BY ZenonT(30), <1>1 DEF TypeOK, CallTypes
    <3>2. q \in Request
      BY ZenonT(30), <3>1, RequestTypes
    <3> QED
      BY ZenonT(30), <3>1, <3>2, ClientAssumption DEF TypeOK, ServerTypes, ConnTypes
  <2> HIDE DEF q
  <2>3. ~InFlight(nconn, cid[c])
    BY ZenonT(30), <1>1, <2>2 DEF FlightInv, Owned
  <2>4. ~AskedIn(reqs, q.id)
    BY ZenonT(30), <2>2, <2>3 DEF InFlight, Asked
  <2>5. /\ OnceAsked(reqs')
        /\ \A r : AskedIn(reqs', r) <=> AskedIn(reqs, r) \/ (Asks(q) /\ q.id = r)
    BY Zenon, <2>1, <2>2, <2>4, AskedAppend DEF OneAtATime
  <2>6. /\ OnceIn(wire)' /\ OnceIn(in)'
        /\ \A n, r : /\ Read(n, r)' <=> Read(n, r)
                     /\ Carries(wire, n, r)' <=> Carries(wire, n, r)
                     /\ Carries(in, n, r)' <=> Carries(in, n, r)
    BY Zenon, <1>1 DEF OneAtATime, Read
  <2>7. \A n, r : Asked(n, r)' <=>
          Asked(n, r) \/ (n = nconn /\ r = cid[c] /\ ckind[c] # "status")
    BY ZenonT(30), <1>1, <2>2, <2>5 DEF Asked, Asks
  <2>8. ASSUME NEW n \in 1..MaxConn, NEW r \in Calls
        PROVE  /\ Apart(n, r)'
               /\ InFlight(n, r)' =>
                    InFlight(n, r) \/ (n = nconn /\ r = cid[c] /\ ckind[c] # "status")
    <3>1. Apart(n, r)
      BY Zenon DEF OneAtATime
    <3>2. n = nconn /\ r = cid[c] => ~Carries(wire, n, r) /\ ~Read(n, r) /\ ~Carries(in, n, r)
      BY <2>3 DEF InFlight
    <3> QED
      BY Zenon, <2>6, <2>7, <3>1, <3>2 DEF Apart, InFlight
  <2>9. pc'[c] = "wait"
    BY <2>1 DEF TypeOK, CallerTypes
  <2> QED
    BY ZenonT(30), <2>1, <2>5, <2>6, <2>8, <2>9 DEF OneAtATime
<1> QED
  BY ZenonT(30), <1>2, <1>3
-----------------------------------------------------------------------------
(* What is under way stays owned, whatever the callers do ...              *)

LEMMA ConnNumber ==
  ASSUME TypeOK
  PROVE  nconn \in Nat /\ nconn # 0 /\ nconn \in 1..MaxConn
<1>1. nconn \in 1..MaxConn /\ MaxConn \in Nat
  BY Zenon, ClientAssumption DEF TypeOK, ConnTypes
<1> QED
  BY <1>1

LEMMA HeadPacket ==
  ASSUME TypeOK, in # << >>
  PROVE  Head(in) \in Packet
<1>1. in \in Seq(Packet)
  BY Zenon DEF TypeOK, ReaderTypes
<1> QED
  BY Zenon, <1>1, HeadTailProperties

LEMMA GoneKept ==
  ASSUME NEW n \in 1..MaxConn, Gone(n), conn' \in {conn, 0}, UNCHANGED <<nconn, rpc>>
  PROVE  Gone(n)'
BY DEF Gone

(* The other callers, and what a Return leaves.                            *)
LEMMA ReturnFacts ==
  ASSUME TypeOK, NEW c \in Callers, Return(c)
  PROVE  /\ \A d \in Callers \ {c} : /\ cid'[d] = cid[d] /\ crw'[d] = crw[d] /\ pc'[d] = pc[d]
                                     /\ ckind'[d] = ckind[d] /\ cres'[d] = cres[d]
         /\ cid'[c] = 0 /\ crw'[c] = 0 /\ pc'[c] = "idle" /\ ckind'[c] = "none" /\ cres'[c] = 0
         /\ ncalls' = ncalls
BY Zenon DEF Return, TypeOK, CallerTypes

LEMMA OwnedReturn ==
  ASSUME TypeOK, HandlerInv, SnapshotInv, NEW n \in 1..MaxConn, NEW r \in Calls, Owned(n, r),
         NEW c \in Callers, Return(c), cid[c] # r \/ (conn' = 0 /\ cid[c] = r),
         UNCHANGED <<nconn, rpc, ppc, ph>>, conn' \in {conn, 0}
  PROVE  Owned(n, r)'
<1>1. r # 0 /\ n # 0
  BY DEF Calls
<1>2. \A d \in Callers : crw'[d] = n => cid'[d] = r
  BY Zenon, <1>1, ReturnFacts DEF Owned
<1>3. ASSUME NEW d \in Callers, cid'[d] = r
      PROVE  /\ pc'[d] \in {"wait", "close"} /\ crw'[d] = n /\ ckind'[d] # "status"
             /\ cres'[d] = 0 /\ (ppc' = "deliver" => ph'.id # r)
  BY <1>1, <1>3, ReturnFacts DEF Owned
<1>4. (\E d \in Callers : cid'[d] = r) \/ Gone(n)'
  <2>1. CASE cid[c] # r
    <3>1. (\E d \in Callers : cid[d] = r) => (\E d \in Callers : cid'[d] = r)
      BY <2>1, ReturnFacts
    <3> QED
      BY Zenon, <3>1, GoneKept DEF Owned
  <2>2. CASE conn' = 0 /\ cid[c] = r
    <3>1. crw[c] = n
      BY Zenon, <2>2 DEF Owned
    <3>2. rpc = "setConn" => n # nconn
      BY Zenon, <3>1 DEF SnapshotInv
    <3> QED
      BY Zenon, <1>1, <2>2, <3>2 DEF Gone
  <2> QED
    BY Zenon, <2>1, <2>2
<1> QED
  BY Zenon, <1>2, <1>3, <1>4, ReturnFacts DEF Owned

(* A step of c that neither issues a call nor ends one.                    *)
LEMMA OwnedMove ==
  ASSUME TypeOK, NEW n \in 1..MaxConn, NEW r \in Calls, Owned(n, r),
         NEW c \in Callers, UNCHANGED <<cid, ckind, cres, ncalls, conn, nconn, rpc, ppc, ph>>,
         \A d \in Callers \ {c} : crw'[d] = crw[d] /\ pc'[d] = pc[d],
         crw'[c] = n => cid[c] = r,
         cid[c] = r => crw'[c] = crw[c] /\ pc'[c] \in {"wait", "close"}
  PROVE  Owned(n, r)'
<1>1. \A d \in Callers : crw'[d] = n => cid'[d] = r
  BY Zenon DEF Owned
<1>2. ASSUME NEW d \in Callers, cid'[d] = r
      PROVE  /\ pc'[d] \in {"wait", "close"} /\ crw'[d] = n /\ ckind'[d] # "status"
             /\ cres'[d] = 0 /\ (ppc' = "deliver" => ph'.id # r)
  BY Zenon, <1>2 DEF Owned
<1>3. (\E d \in Callers : cid'[d] = r) \/ Gone(n)'
  BY Zenon DEF Owned, Gone
<1> QED
  BY Zenon, <1>1, <1>2, <1>3 DEF Owned

LEMMA OwnedCall ==
  ASSUME TypeOK, HandlerInv, NEW n \in 1..MaxConn, NEW r \in Calls, Owned(n, r),
         NEW c \in Callers, NEW k \in Kinds, NEW h \in Args, Call(c, k, h)
  PROVE  Owned(n, r)'
<1>1. /\ pc[c] = "idle" /\ ncalls' = ncalls + 1 /\ cid' = [cid EXCEPT ![c] = ncalls + 1]
      /\ ckind' = [ckind EXCEPT ![c] = k] /\ pc' = [pc EXCEPT ![c] = "lock"]
      /\ UNCHANGED <<conn, nconn, rpc, ppc, ph, crw, cres>>
  BY Zenon DEF Call, connVars, readerVars, procVars
<1>2. /\ \A d \in Callers \ {c} : cid'[d] = cid[d] /\ ckind'[d] = ckind[d] /\ pc'[d] = pc[d]
      /\ cid'[c] = ncalls + 1 /\ ncalls \in Nat /\ nconn \in Nat
  BY <1>1, ClientAssumption DEF TypeOK, CallerTypes, ConnTypes
<1>3. r # ncalls + 1 /\ r <= ncalls' /\ n <= nconn' /\ r # 0
  <2>1. r <= ncalls /\ n <= nconn
    BY Zenon DEF Owned
  <2>2. r \in Nat /\ r # 0
    BY ClientAssumption DEF Calls
  <2> QED
    BY <1>1, <1>2, <2>1, <2>2
<1>4. cid[c] # r /\ crw[c] # n
  <2>1. cid[c] # r
    BY Zenon, <1>1 DEF Owned
  <2> QED
    BY Zenon, <2>1 DEF Owned
<1>5. \A d \in Callers : crw'[d] = n => cid'[d] = r
  BY <1>1, <1>2, <1>4 DEF Owned
<1>6. ASSUME NEW d \in Callers, cid'[d] = r
      PROVE  /\ pc'[d] \in {"wait", "close"} /\ crw'[d] = n /\ ckind'[d] # "status"
             /\ cres'[d] = 0 /\ (ppc' = "deliver" => ph'.id # r)
  <2>1. d # c
    BY <1>2, <1>3, <1>6
  <2> QED
    BY <1>1, <1>2, <1>6, <2>1 DEF Owned
<1>7. (\E d \in Callers : cid'[d] = r) \/ Gone(n)'
  <2>1. (\E d \in Callers : cid[d] = r) => (\E d \in Callers : cid'[d] = r)
    BY Zenon, <1>2, <1>4
  <2>2. Gone(n) => Gone(n)'
    BY Zenon, <1>1 DEF Gone
  <2> QED
    BY ZenonT(30), <2>1, <2>2 DEF Owned
<1> QED
  BY Zenon, <1>3, <1>5, <1>6, <1>7 DEF Owned

(* Nobody else has anything under way on the connection a call is about to *)
(* write to.                                                               *)
LEMMA OwnedWrite ==
  ASSUME TypeOK, HandlerInv, SnapshotInv, NEW n \in 1..MaxConn, NEW r \in Calls, Owned(n, r),
         NEW c \in Callers, Write(c)
  PROVE  Owned(n, r)'
<1>1. pc[c] = "write" /\ UNCHANGED <<conn, nconn, rpc, ppc, ph>>
  BY Zenon DEF Write, connVars, readerVars, procVars
<1>2. cid[c] # r
  BY ZenonT(30), <1>1 DEF Owned
<1>3. CASE conn = 0
  BY Zenon, <1>1, <1>2, <1>3, OwnedReturn DEF Write
<1>4. CASE conn # 0
  <2>1. /\ crw' = [crw EXCEPT ![c] = conn] /\ pc' = [pc EXCEPT ![c] = "writeTo"]
        /\ UNCHANGED <<cid, ckind, cres, ncalls>>
    BY Zenon, <1>4 DEF Write, ReturnLocals
  <2>2. \A d \in Callers : cid[d] # r
    <3> SUFFICES ASSUME NEW d \in Callers, cid[d] = r PROVE FALSE
      OBVIOUS
    <3>1. pc[d] \in {"wait", "close"}
      BY Zenon DEF Owned
    <3>2. mutex = d /\ mutex = c
      BY Zenon, <1>1, <3>1, HolderFacts
    <3> QED
      BY Zenon, <1>1, <3>1, <3>2
  <2>3. conn # n
    BY Zenon, <2>2 DEF Owned, Gone
  <2>4. \A d \in Callers \ {c} : crw'[d] = crw[d] /\ pc'[d] = pc[d]
    BY Zenon, <2>1 DEF TypeOK, CallerTypes
  <2>5. crw'[c] = conn
    BY Zenon, <2>1 DEF TypeOK, CallerTypes
  <2> QED
    BY <1>1, <1>2, <2>1, <2>3, <2>4, <2>5, OwnedMove
<1> QED
  BY <1>3, <1>4

(* A request that has just been written is its writer's.                   *)
LEMMA OwnedNew ==
  ASSUME TypeOK, HandlerInv, ConnFacts, DeliverInv, NEW c \in Callers, WriteTo(c),
         ckind[c] # "status", crw[c] \in open, pc'[c] = "wait",
         UNCHANGED <<cid, ckind, cres, crw>>
  PROVE  Owned(nconn, cid[c])'
<1>1. pc[c] = "writeTo" /\ UNCHANGED <<conn, nconn, rpc, ppc, ph>>
  BY Zenon DEF WriteTo, connVars, readerVars, procVars
<1>2. ncalls' = ncalls
  BY Zenon DEF WriteTo, ReturnLocals, Return
<1>3. crw[c] = nconn
  <2>1. crw[c] # 0 /\ nconn # 0
    <3>1. open \subseteq 1..MaxConn
      BY Zenon DEF TypeOK, ConnTypes
    <3>2. crw[c] \in 1..MaxConn
      BY Zenon, <3>1
    <3> QED
      BY <3>2, ConnNumber
  <2> QED
    BY Zenon, <2>1 DEF ConnFacts, NoSocketLeak, Redialling, SnapshotInv
<1>4. ASSUME NEW d \in Callers, crw[d] = nconn
      PROVE  d = c
  <2>1. nconn # 0
    BY Zenon, ConnNumber
  <2>2. pc[d] \in {"writeTo", "wait", "close"}
    BY Zenon, <1>4, <2>1 DEF ConnFacts, SnapshotInv
  <2> QED
    BY Zenon, <1>1, <2>2, HolderFacts
<1>5. cid[c] # 0 /\ cid[c] <= ncalls /\ nconn <= nconn
  BY <1>1, HolderFacts DEF TypeOK, ConnTypes, CallerTypes
<1>6. cres[c] = 0 /\ (ppc = "deliver" => ph.id # cid[c])
  BY Zenon, <1>1 DEF DeliverInv
<1>7. \A d \in Callers : cid[d] = cid[c] => d = c
  BY Zenon, <1>5, HolderFacts
<1> QED
  BY <1>1, <1>2, <1>3, <1>4, <1>5, <1>6, <1>7 DEF Owned
LEMMA FlightCaller ==
  ASSUME TypeOK, HandlerInv, ConnFacts, OneAtATime, FlightInv, DeliverInv,
         NEW c \in Callers, Caller(c)
  PROVE  OneAtATime' /\ FlightInv'
<1>0. SnapshotInv
  BY Zenon DEF ConnFacts
<1>1. CASE WriteTo(c)
  <2>1. /\ OneAtATime'
        /\ \A n \in 1..MaxConn, r \in Calls : InFlight(n, r)' =>
              \/ InFlight(n, r)
              \/ /\ n = nconn /\ r = cid[c] /\ ckind[c] # "status" /\ crw[c] \in open
                 /\ pc'[c] = "wait" /\ UNCHANGED <<cid, ckind, cres, crw>>
    BY <1>1, FlowWrite
  <2>2. pc[c] = "writeTo" /\ UNCHANGED <<conn, nconn, rpc, ppc, ph>>
    BY <1>1 DEF WriteTo, connVars, readerVars, procVars
  <2>3. ASSUME NEW n \in 1..MaxConn, NEW r \in Calls, InFlight(n, r)'
        PROVE  Owned(n, r)'
    <3>1. CASE InFlight(n, r)
      <4>1. Owned(n, r) /\ cid[c] # r
        BY <2>2, <3>1 DEF FlightInv, Owned
      <4>2. CASE Return(c)
        BY Zenon, <1>0, <2>2, <4>1, <4>2, OwnedReturn
      <4>3. CASE ~Return(c)
        <5>1. pc' = [pc EXCEPT ![c] = "wait"] /\ UNCHANGED <<crw, cid, ckind, cres, ncalls>>
          BY <1>1, <4>3 DEF WriteTo, ReturnLocals
        <5>2. \A d \in Callers \ {c} : crw'[d] = crw[d] /\ pc'[d] = pc[d]
          BY <5>1 DEF TypeOK, CallerTypes
        <5>3. crw'[c] = n => cid[c] = r
          BY <4>1, <5>1 DEF Owned
        <5> QED
          BY <2>2, <4>1, <5>1, <5>2, <5>3, OwnedMove
      <4> QED
        BY <4>2, <4>3
    <3>2. CASE ~InFlight(n, r)
      <4>1. /\ n = nconn /\ r = cid[c] /\ ckind[c] # "status" /\ crw[c] \in open
            /\ pc'[c] = "wait" /\ UNCHANGED <<cid, ckind, cres, crw>>
        BY <2>1, <2>3, <3>2
      <4>2. Owned(nconn, cid[c])'
        BY <1>1, <4>1, OwnedNew
      <4> QED
        BY <2>2, <4>1, <4>2
    <3> QED
      BY <3>1, <3>2
  <2> QED
    BY Zenon, <2>1, <2>3 DEF FlightInv
<1>2. CASE ~WriteTo(c)
  <2>1. UNCHANGED <<reqs, wire, in, nconn, rpc, rresp, ppc, ph>>
    BY Zenon, <1>2 DEF Caller, Call, Lock, SetHandler, Write, Receive, Timeout, CloseConn, connVars,
                readerVars, serverVars, procVars
  <2>2. /\ OneAtATime'
        /\ \A n \in 1..MaxConn, r \in Calls : InFlight(n, r)' => InFlight(n, r)
    BY <2>1, FlowFrame
  <2>3. ASSUME NEW n \in 1..MaxConn, NEW r \in Calls, Owned(n, r)
        PROVE  Owned(n, r)'
    <3>1. ASSUME NEW k \in Kinds, NEW h \in Args, Call(c, k, h)
          PROVE  Owned(n, r)'
      BY <2>3, <3>1, OwnedCall
    <3>2. CASE Write(c)
      BY <1>0, <2>3, <3>2, OwnedWrite
    <3>3. CASE Lock(c) \/ SetHandler(c)
      <4>1. /\ pc[c] \in {"lock", "set"} /\ \E v : pc' = [pc EXCEPT ![c] = v]
            /\ UNCHANGED <<cid, ckind, cres, crw, ncalls, conn>>
        BY Zenon, <3>3 DEF Lock, SetHandler, connVars
      <4>2. \A d \in Callers \ {c} : crw'[d] = crw[d] /\ pc'[d] = pc[d]
        BY Zenon, <4>1 DEF TypeOK, CallerTypes
      <4>3. cid[c] # r /\ (crw'[c] = n => cid[c] = r)
        BY Zenon, <2>3, <4>1 DEF Owned
      <4> QED
        BY <2>1, <2>3, <4>1, <4>2, <4>3, OwnedMove
    <3>4. CASE Receive(c)
      <4>1. cres[c] # 0 /\ Return(c) /\ conn' = conn
        BY ZenonT(30), <3>4 DEF Receive, connVars
      <4>2. cid[c] # r
        BY Zenon, <2>3, <4>1 DEF Owned
      <4> QED
        BY <1>0, <2>1, <2>3, <4>1, <4>2, OwnedReturn
    <3>5. CASE Timeout(c) /\ ckind[c] = "status"
      <4>1. Return(c) /\ conn' = conn
        BY ZenonT(30), <3>5 DEF Timeout, connVars
      <4>2. cid[c] # r
        BY Zenon, <2>3, <3>5 DEF Owned
      <4> QED
        BY <1>0, <2>1, <2>3, <4>1, <4>2, OwnedReturn
    <3>6. CASE Timeout(c) /\ ckind[c] # "status"
      <4>1. /\ pc' = [pc EXCEPT ![c] = "close"]
            /\ UNCHANGED <<cid, ckind, cres, crw, ncalls, conn>>
        BY Zenon, <3>6 DEF Timeout, ReturnLocals, connVars
      <4>2. /\ \A d \in Callers \ {c} : crw'[d] = crw[d] /\ pc'[d] = pc[d]
            /\ pc'[c] = "close"
        BY Zenon, <4>1 DEF TypeOK, CallerTypes
      <4>3. crw'[c] = n => cid[c] = r
        BY Zenon, <2>3, <4>1 DEF Owned
      <4> QED
        BY ZenonT(30), <2>1, <2>3, <4>1, <4>2, <4>3, OwnedMove
    <3>7. CASE CloseConn(c)
      <4>1. Return(c) /\ conn' = 0
        BY Zenon, <3>7 DEF CloseConn, closeConn
      <4> QED
        BY <1>0, <2>1, <2>3, <4>1, OwnedReturn
    <3> QED
      BY <1>2, <3>1, <3>2, <3>3, <3>4, <3>5, <3>6, <3>7 DEF Caller
  <2> QED
    BY <2>2, <2>3 DEF FlightInv
<1> QED
  BY Zenon, <1>1, <1>2

(* ... and whatever happens to the connections ...                         *)
LEMMA FlightConn ==
  ASSUME TypeOK, ConnFacts, OneAtATime, FlightInv,
         readLoop \/ SetClosed \/ FinishClose \/ Server \/ UNCHANGED vars
  PROVE  OneAtATime' /\ FlightInv'
<1>1. /\ OneAtATime'
      /\ \A n \in 1..MaxConn, r \in Calls : InFlight(n, r)' => InFlight(n, r)
  <2>1. CASE readLoop
    BY <2>1, FlowReader
  <2>2. CASE Server
    BY <2>2, FlowServer
  <2>3. CASE SetClosed \/ FinishClose \/ UNCHANGED vars
    <3>1. UNCHANGED <<reqs, wire, in, nconn, rpc, rresp>>
      BY <2>3 DEF SetClosed, FinishClose, readerVars, serverVars, vars
    <3> QED
      BY <3>1, FlowFrame
  <2> QED
    BY <2>1, <2>2, <2>3
<1>2. UNCHANGED <<ncalls, pc, cid, ckind, crw, cres, ppc, ph>>
  BY ZenonT(30) DEF readLoop, LoopTest, GetRW, ReadPacket, ReadError, Send, RedialTest, Dial, DialFails,
     SetConn, SendMarker, ReaderUnchanged, SetClosed, FinishClose, Server, Answer, Ignore, Drop,
     Report, ServerUnchanged, callerVars, procVars, vars
<1>3. \/ nconn' = nconn /\ conn' \in {conn, 0} /\ (rpc' = "setConn" => rpc = "setConn")
      \/ Dial
      \/ SetConn
  BY Zenon DEF readLoop, LoopTest, GetRW, ReadPacket, ReadError, Send, RedialTest, DialFails,
     SendMarker, SetClosed, FinishClose, closeConn, Server, Answer, Ignore, Drop,
     Report, ServerUnchanged, connVars, readerVars, vars
<1>4. nconn \in Nat
  BY ConnNumber
<1>5. ASSUME NEW n \in 1..MaxConn, NEW r \in Calls, Owned(n, r)
      PROVE  Owned(n, r)'
  <2>1. n <= nconn' /\ (Gone(n) => Gone(n)')
    <3>1. n <= nconn
      BY Zenon, <1>5 DEF Owned
    <3>2. CASE nconn' = nconn /\ conn' \in {conn, 0} /\ (rpc' = "setConn" => rpc = "setConn")
      BY <3>1, <3>2 DEF Gone
    <3>3. CASE Dial
      <4>1. nconn' = nconn + 1 /\ conn' = conn
        BY Zenon, <3>3 DEF Dial
      <4> QED
        BY <1>4, <3>1, <4>1 DEF Gone
    <3>4. CASE SetConn
      <4>1. nconn' = nconn /\ conn' \in {conn, nconn} /\ rpc = "setConn" /\ rpc' # "setConn"
        BY Zenon, <3>4 DEF SetConn
      <4> QED
        BY <3>1, <4>1 DEF Gone
    <3> QED
      BY <1>3, <3>2, <3>3, <3>4
  <2> QED
    BY Zenon, <1>2, <1>5, <2>1 DEF Owned
<1> QED
  BY <1>1, <1>5 DEF FlightInv
(* ... and what processLoop matches with a handler on its own connection   *)
(* answers the call that queued the handler.                               *)
LEMMA MatchedOwn ==
  ASSUME TypeOK, HandlerInv, OneAtATime, FlightInv, ProcessReply, ~crossed', ph'.internal
  PROVE  /\ mutex \in Callers /\ ph'.id = cid[mutex]
         /\ Head(in).type # "status_res" =>
              /\ Head(in).req = cid[mutex] /\ Replies(Head(in), crw[mutex], cid[mutex])
              /\ crw[mutex] \in 1..MaxConn /\ cid[mutex] \in Calls
              /\ ckind[mutex] # "status" /\ pc[mutex] \in {"wait", "close"}
         /\ Head(in).type = "status_res" => ~ph'.external /\ ckind[mutex] = "status"
<1>1. PICK now \in {0, 1} : TakeHandler(Head(in), now)
  BY Zenon DEF ProcessReply
<1>2. Head(in) \in Packet
  BY HeadPacket DEF ProcessReply
<1>3. mutex \in Callers /\ ph'.id = cid[mutex]
  BY <1>1, <1>2, TakeHandlerKeeps
<1>4. ASSUME Head(in).type # "status_res"
      PROVE  /\ Head(in).req = cid[mutex] /\ Replies(Head(in), crw[mutex], cid[mutex])
             /\ crw[mutex] \in 1..MaxConn /\ cid[mutex] \in Calls
             /\ ckind[mutex] # "status" /\ pc[mutex] \in {"wait", "close"}
  <2> DEFINE n == Head(in).conn
             r == Head(in).req
  <2>1. Head(in).type \in {"job_created", "echo_res"}
    BY Zenon, <1>4 DEF ProcessReply
  <2>2. n \in 1..MaxConn /\ r \in Calls /\ Replies(Head(in), n, r)
    BY <1>2, <2>1 DEF Packet, Replies
  <2>3. PICK c \in Callers : cid[c] = ph'.id /\ crw[c] = n
    BY ZenonT(30), <1>4 DEF ProcessReply
  <2>4. InFlight(n, r)
    <3>1. in # << >> /\ in' = Tail(in) /\ UNCHANGED <<reqs, wire, nconn, rpc, rresp>>
      BY ZenonT(30) DEF ProcessReply, ProcessUnchanged, connVars, readerVars, serverVars
    <3> QED
      BY <2>2, <3>1, FlowReceive
  <2>5. Owned(n, r)
    BY Zenon, <2>2, <2>4 DEF FlightInv
  <2>6. cid[c] = r
    BY Zenon, <2>3, <2>5 DEF Owned
  <2>7. c = mutex
    BY Zenon, <1>3, <2>2, <2>3, <2>6, HolderFacts DEF Calls
  <2> QED
    BY <2>2, <2>3, <2>5, <2>6, <2>7 DEF Owned
<1>5. ASSUME Head(in).type = "status_res"
      PROVE  ~ph'.external /\ ckind[mutex] = "status"
  <2>1. Head(in).arg \in StatusHandles
    BY Zenon, <1>2, <1>5, PacketTypes
  <2>2. ph' = IF status[Head(in).arg] = 0 THEN NoEntry ELSE LiveEntry(status[Head(in).arg], FALSE)
    BY ZenonT(30), <1>1, <1>5 DEF TakeHandler
  <2>3. status[Head(in).arg] # 0 /\ ~ph'.external
    BY Zenon, <2>2 DEF NoEntry, LiveEntry
  <2> QED
    BY <2>1, <2>3, QueueFacts
<1> QED
  BY Zenon, <1>3, <1>4, <1>5

LEMMA FlightProcess ==
  ASSUME TypeOK, HandlerInv, OneAtATime, FlightInv, processLoop, ~crossed'
  PROVE  OneAtATime' /\ FlightInv'
<1>1. UNCHANGED <<conn, nconn, rpc, rresp, reqs, wire, mutex, ncalls, pc, cid, ckind, crw>>
  BY ZenonT(30) DEF processLoop, ProcessMarker, ProcessOther, ProcessReply, Deliver, ProcessWork,
     CallbackReturns, ProcessExit, ProcessUnchanged, connVars, readerVars, serverVars, callerVars
<1>2. ASSUME NEW n \in 1..MaxConn, NEW r \in Calls, Owned(n, r),
             \A c \in Callers : cid[c] = r => cres'[c] = 0 /\ (ppc' = "deliver" => ph'.id # r)
      PROVE  Owned(n, r)'
  BY Zenon, <1>1, <1>2 DEF Owned, Gone
<1>3. CASE ProcessReply
  <2>1. in # << >> /\ in' = Tail(in) /\ cres' = cres
    BY Zenon, <1>3 DEF ProcessReply, ProcessUnchanged, callerVars
  <2>2. /\ OneAtATime'
        /\ \A n \in 1..MaxConn, r \in Calls :
              InFlight(n, r)' => InFlight(n, r) /\ ~Replies(Head(in), n, r)
    BY Zenon, <1>1, <2>1, FlowReceive
  <2>3. ASSUME NEW n \in 1..MaxConn, NEW r \in Calls, InFlight(n, r)', NEW c \in Callers,
               cid[c] = r, ppc' = "deliver"
        PROVE  ph'.id # r
    <3>1. Owned(n, r) /\ ~Replies(Head(in), n, r)
      BY Zenon, <2>2, <2>3 DEF FlightInv
    <3>2. ckind[c] # "status" /\ crw[c] = n /\ pc[c] \in {"wait", "close"}
      BY Zenon, <2>3, <3>1 DEF Owned
    <3>3. mutex = c /\ ph'.internal
      BY Zenon, <1>3, <2>3, <3>2, HolderFacts DEF ProcessReply
    <3>4. ph'.id = r => Head(in).type # "status_res"
      BY ZenonT(30), <1>3, <3>2, <3>3, MatchedOwn
    <3>5. ph'.id = r => Replies(Head(in), n, r)
      BY <1>3, <2>3, <3>2, <3>3, <3>4, MatchedOwn
    <3> QED
      BY Zenon, <3>1, <3>5
  <2>4. ASSUME NEW n \in 1..MaxConn, NEW r \in Calls, InFlight(n, r)'
        PROVE  Owned(n, r)'
    <3>1. Owned(n, r)
      BY Zenon, <2>2, <2>4 DEF FlightInv
    <3>2. \A c \in Callers : cid[c] = r => cres'[c] = 0 /\ (ppc' = "deliver" => ph'.id # r)
      BY <2>1, <2>3, <2>4, <3>1 DEF Owned
    <3> QED
      BY Zenon, <1>2, <3>1, <3>2
  <2> QED
    BY Zenon, <2>2, <2>4 DEF FlightInv
<1>4. CASE Deliver
  <2>1. /\ in' = in /\ ppc = "deliver" /\ ppc' # "deliver"
        /\ cres' = [c \in Callers |->
                      IF cid[c] = ph.id /\ pc[c] # "idle" THEN presp.req ELSE cres[c]]
    BY Zenon, <1>4 DEF Deliver
  <2>2. /\ OneAtATime'
        /\ \A n \in 1..MaxConn, r \in Calls : InFlight(n, r)' => InFlight(n, r)
    BY Zenon, <1>1, <2>1, FlowFrame
  <2>3. ASSUME NEW n \in 1..MaxConn, NEW r \in Calls, Owned(n, r)
        PROVE  Owned(n, r)'
    <3>1. \A c \in Callers : cid[c] = r => cres'[c] = 0
      BY Zenon, <2>1, <2>3 DEF Owned
    <3> QED
      BY Zenon, <1>2, <2>1, <2>3, <3>1
  <2> QED
    BY Zenon, <2>2, <2>3 DEF FlightInv
<1>5. CASE ProcessMarker \/ ProcessOther \/ ProcessWork \/ CallbackReturns \/ ProcessExit
  <2>1. /\ (in # << >> /\ in' = Tail(in)) \/ in' = in
        /\ ppc' # "deliver" /\ cres' = cres
    BY Zenon, <1>5 DEF ProcessMarker, ProcessOther, ProcessWork, CallbackReturns, ProcessExit,
                ProcessUnchanged, callerVars
  <2>2. /\ OneAtATime'
        /\ \A n \in 1..MaxConn, r \in Calls : InFlight(n, r)' => InFlight(n, r)
    <3>1. CASE in' = in
      BY Zenon, <1>1, <3>1, FlowFrame
    <3>2. CASE in # << >> /\ in' = Tail(in)
      BY Zenon, <1>1, <3>2, FlowReceive
    <3> QED
      BY Zenon, <2>1, <3>1, <3>2
  <2>3. ASSUME NEW n \in 1..MaxConn, NEW r \in Calls, Owned(n, r)
        PROVE  Owned(n, r)'
    <3>1. \A c \in Callers : cid[c] = r => cres'[c] = 0
      BY Zenon, <2>1, <2>3 DEF Owned
    <3> QED
      BY Zenon, <1>2, <2>1, <2>3, <3>1
  <2> QED
    BY Zenon, <2>2, <2>3 DEF FlightInv
<1> QED
  BY Zenon, <1>3, <1>4, <1>5 DEF processLoop

-----------------------------------------------------------------------------
(* The delivery itself.                                                    *)

LEMMA DeliverCaller ==
  ASSUME TypeOK, HandlerInv, DeliverInv, OwnReply, ~crossed, NEW c \in Callers, Caller(c)
  PROVE  DeliverInv' /\ OwnReply'
<1>1. UNCHANGED <<ppc, ph, presp, rhandlers, crossed>>
  BY ZenonT(30) DEF Caller, Call, Lock, SetHandler, Write, WriteTo, Receive, Timeout, CloseConn, procVars
<1>2. ppc = "deliver" => ph.id \in 1..ncalls
  BY ZenonT(30) DEF HandlerInv, SpentInv
<1>3. /\ \A d \in Callers \ {c} : cid'[d] = cid[d] /\ ckind'[d] = ckind[d] /\ pc'[d] = pc[d]
                                  /\ cres'[d] = cres[d]
      /\ \/ cid'[c] = 0 /\ cres'[c] = 0
         \/ cid'[c] = ncalls + 1 /\ cres'[c] = cres[c] /\ pc[c] = "idle"
         \/ /\ cid'[c] = cid[c] /\ cres'[c] = cres[c] /\ ckind'[c] = ckind[c]
            /\ pc[c] \in {"wait", "close"} => pc'[c] \in {"wait", "close"}
  <2>1. CASE Return(c)
    BY Zenon, <2>1, ReturnFacts
  <2>2. ASSUME NEW k \in Kinds, NEW h \in Args, Call(c, k, h)
        PROVE  /\ \A d \in Callers \ {c} : cid'[d] = cid[d] /\ ckind'[d] = ckind[d]
                                           /\ pc'[d] = pc[d] /\ cres'[d] = cres[d]
               /\ cid'[c] = ncalls + 1 /\ cres'[c] = cres[c] /\ pc[c] = "idle"
    BY Zenon, <2>2 DEF Call, TypeOK, CallerTypes
  <2>3. CASE ~Return(c) /\ ~ \E k \in Kinds, h \in Args : Call(c, k, h)
    <3>1. UNCHANGED <<cid, cres, ckind>>
      BY ZenonT(30), <2>3 DEF Caller, Lock, SetHandler, Write, WriteTo, Receive, Timeout, CloseConn, ReturnLocals
    <3>2. \/ pc[c] \notin {"wait", "close"} /\ \E v : pc' = [pc EXCEPT ![c] = v]
          \/ pc' = [pc EXCEPT ![c] = "close"]
      BY Zenon, <2>3 DEF Caller, Lock, SetHandler, Write, WriteTo, Receive, Timeout, CloseConn
    <3> QED
      BY <3>1, <3>2 DEF TypeOK, CallerTypes
  <2> QED
    BY ZenonT(30), <2>1, <2>2, <2>3
<1>4. ncalls \in Nat /\ (pc[c] = "idle" => cres[c] = 0)
  BY DEF TypeOK, CallerTypes, HandlerInv, SpentInv
<1>5. ppc = "deliver" => ph.id # 0 /\ ph.id # ncalls + 1
  BY <1>2, <1>4
<1>6. DeliverInv'
  <2>1. ASSUME ppc' = "deliver"
        PROVE  /\ presp'.type \in {"job_created", "echo_res", "status_res"} /\ presp'.req \in Calls
               /\ presp'.type # "status_res" => presp'.req = ph'.id
               /\ presp'.type = "status_res" => ~ph'.external
    BY Zenon, <1>1, <2>1 DEF DeliverInv
  <2>2. ASSUME ppc' = "deliver", presp'.type = "status_res", NEW d \in Callers, cid'[d] = ph'.id
        PROVE  ckind'[d] = "status"
    <3>1. cid[d] = ph.id /\ ckind'[d] = ckind[d]
      BY ZenonT(30), <1>1, <1>3, <1>5, <2>2
    <3> QED
      BY <1>1, <2>2, <3>1 DEF DeliverInv
  <2>3. ASSUME NEW d \in Callers, ckind'[d] # "status",
               cres'[d] # 0 \/ (ppc' = "deliver" /\ cid'[d] = ph'.id)
        PROVE  pc'[d] \in {"wait", "close"}
    <3>1. /\ cres[d] # 0 \/ (ppc = "deliver" /\ cid[d] = ph.id)
          /\ ckind[d] # "status"
          /\ pc[d] \in {"wait", "close"} => pc'[d] \in {"wait", "close"}
      BY ZenonT(30), <1>1, <1>3, <1>4, <1>5, <2>3
    <3> QED
      BY Zenon, <3>1 DEF DeliverInv
  <2> QED
    BY Zenon, <2>1, <2>2, <2>3 DEF DeliverInv
<1>7. OwnReply'
  BY <1>1, <1>3, <1>4 DEF OwnReply
<1> QED
  BY <1>6, <1>7

LEMMA DeliverProcess ==
  ASSUME TypeOK, HandlerInv, OneAtATime, FlightInv, DeliverInv, OwnReply, processLoop, ~crossed'
  PROVE  DeliverInv' /\ OwnReply'
<1>0. ~crossed
  BY ZenonT(30) DEF processLoop, ProcessMarker, ProcessOther, ProcessReply, Deliver, ProcessWork,
     CallbackReturns, ProcessExit
<1>1. UNCHANGED <<pc, cid, ckind>>
  BY Zenon DEF processLoop, ProcessMarker, ProcessOther, ProcessReply, Deliver, ProcessWork,
     CallbackReturns, ProcessExit, ProcessUnchanged, callerVars
<1>2. CASE ProcessReply
  <2>1. UNCHANGED <<cres, rhandlers>> /\ ppc # "deliver"
    BY ZenonT(30), <1>2 DEF ProcessReply, ProcessUnchanged, callerVars
  <2>2. OwnReply'
    BY <1>0, <1>1, <2>1 DEF OwnReply
  <2>3. CASE ppc' # "deliver"
    BY <1>1, <2>1, <2>2, <2>3 DEF DeliverInv
  <2>4. CASE ppc' = "deliver"
    <3>1. ph'.internal /\ presp' = Head(in)
      BY Zenon, <1>2, <2>4 DEF ProcessReply
    <3>2. Head(in).type \in {"job_created", "echo_res", "status_res"} /\ Head(in).req \in Calls
      <4>1. Head(in) \in Packet
        BY Zenon, <1>2, HeadPacket DEF ProcessReply
      <4>2. Head(in).type \in {"job_created", "echo_res", "status_res"}
        BY Zenon, <1>2 DEF ProcessReply
      <4> QED
        BY Zenon, <4>1, <4>2, PacketTypes
    <3>3. ASSUME NEW c \in Callers, cid[c] = ph'.id
          PROVE  c = mutex
      <4>1. mutex \in Callers /\ cid[c] = cid[mutex]
        BY Zenon, <1>2, <3>1, <3>3, MatchedOwn
      <4>2. cid[mutex] # 0
        BY Zenon, <4>1, HolderFacts
      <4> QED
        BY Zenon, <4>1, <4>2, HolderFacts
    <3>4. CASE Head(in).type # "status_res"
      <4>1. Head(in).req = ph'.id /\ pc[mutex] \in {"wait", "close"}
        BY ZenonT(30), <1>2, <3>1, <3>4, MatchedOwn
      <4> QED
        BY Zenon, <1>1, <2>1, <2>2, <3>1, <3>2, <3>3, <3>4, <4>1 DEF DeliverInv
    <3>5. CASE Head(in).type = "status_res"
      <4>1. ~ph'.external /\ ckind[mutex] = "status"
        BY ZenonT(30), <1>2, <3>1, <3>5, MatchedOwn
      <4> QED
        BY ZenonT(30), <1>1, <2>1, <2>2, <3>1, <3>2, <3>3, <3>5, <4>1 DEF DeliverInv
    <3> QED
      BY Zenon, <3>4, <3>5
  <2> QED
    BY Zenon, <2>3, <2>4
<1>3. CASE Deliver
  <2>1. /\ ppc = "deliver" /\ ppc' # "deliver"
        /\ rhandlers' = IF ph.external THEN [rhandlers EXCEPT ![presp.req] = ph.id] ELSE rhandlers
        /\ cres' = [c \in Callers |->
                      IF cid[c] = ph.id /\ pc[c] # "idle" THEN presp.req ELSE cres[c]]
    BY Zenon, <1>3 DEF Deliver
  <2>2. \A c \in Callers : ckind[c] # "status" => cres'[c] \in {0, cid[c]}
    BY ZenonT(30), <1>0, <1>1, <2>1 DEF DeliverInv, OwnReply
  <2>3. \A j \in Calls : rhandlers'[j] \in {0, j}
    BY ZenonT(30), <1>0, <1>1, <2>1 DEF DeliverInv, OwnReply, TypeOK, ProcTypes
  <2>4. \A c \in Callers : ckind[c] # "status" /\ cres'[c] # 0 => pc[c] \in {"wait", "close"}
    BY Zenon, <2>1 DEF DeliverInv
  <2> QED
    BY ZenonT(30), <1>1, <2>1, <2>2, <2>3, <2>4 DEF DeliverInv, OwnReply
<1>4. CASE ProcessMarker \/ ProcessOther \/ ProcessWork \/ CallbackReturns \/ ProcessExit
  <2>1. ppc' # "deliver" /\ cres' = cres
    BY ZenonT(30), <1>4 DEF ProcessMarker, ProcessOther, ProcessWork, CallbackReturns, ProcessExit,
                ProcessUnchanged, callerVars
  <2>2. \/ rhandlers' = rhandlers
        \/ rhandlers' = [rhandlers EXCEPT ![presp.req] = 0]
    BY ZenonT(30), <1>4 DEF ProcessMarker, ProcessOther, ProcessWork, CallbackReturns, ProcessExit
  <2>3. \A j \in Calls : rhandlers'[j] \in {0, j}
    BY ZenonT(30), <1>0, <1>1, <2>2 DEF OwnReply, TypeOK, ProcTypes
  <2>4. OwnReply'
    BY ZenonT(30), <1>0, <1>1, <2>1, <2>3 DEF OwnReply
  <2>5. DeliverInv'
    BY Zenon, <1>1, <2>1 DEF DeliverInv
  <2> QED
    BY Zenon, <2>4, <2>5
<1> QED
  BY <1>2, <1>3, <1>4 DEF processLoop

LEMMA ReplyStep ==
  ASSUME TypeOK, HandlerInv, ConnFacts, ReplyInv, [Next]_vars
  PROVE  ReplyInv'
<1> SUFFICES ASSUME ~crossed'
             PROVE  OneAtATime' /\ FlightInv' /\ DeliverInv' /\ OwnReply'
  BY Zenon DEF ReplyInv
<1>1. CASE processLoop
  <2>1. ~crossed
    BY Zenon, <1>1 DEF processLoop, ProcessMarker, ProcessOther, ProcessReply, Deliver, ProcessWork,
       CallbackReturns, ProcessExit
  <2> QED
    BY <1>1, <2>1, FlightProcess, DeliverProcess DEF ReplyInv
<1>2. ASSUME NEW c \in Callers, Caller(c)
      PROVE  OneAtATime' /\ FlightInv' /\ DeliverInv' /\ OwnReply'
  <2>1. ~crossed
    BY Zenon, <1>2 DEF Caller, Call, Lock, SetHandler, Write, WriteTo, Receive, Timeout, CloseConn, procVars
  <2> QED
    BY <1>2, <2>1, FlightCaller, DeliverCaller DEF ReplyInv
<1>3. CASE readLoop \/ SetClosed \/ FinishClose \/ Server \/ UNCHANGED vars
  <2>1. UNCHANGED <<pc, cid, ckind, cres, ppc, ph, presp, rhandlers, crossed>>
    BY Zenon, <1>3 DEF readLoop, LoopTest, GetRW, ReadPacket, ReadError, Send, RedialTest, Dial,
       DialFails, SetConn, SendMarker, ReaderUnchanged, SetClosed, FinishClose, Server, Answer,
       Ignore, Drop, Report, ServerUnchanged, callerVars, procVars, vars
  <2>2. OneAtATime' /\ FlightInv'
    BY <1>3, <2>1, FlightConn DEF ReplyInv
  <2>3. DeliverInv' /\ OwnReply'
    BY Zenon, <2>1 DEF ReplyInv, DeliverInv, OwnReply
  <2> QED
    BY <2>2, <2>3
<1> QED
  BY <1>1, <1>2, <1>3 DEF Next

LEMMA ReplyInit == Init => SnapshotInv /\ ReplyInv
<1> SUFFICES ASSUME Init PROVE SnapshotInv /\ ReplyInv
  OBVIOUS
<1>1. SnapshotInv
  BY DEF Init, SnapshotInv
<1>2. /\ reqs = IF WantExceptions THEN <<OptionReq>> ELSE << >>
      /\ in = IF WantExceptions THEN <<Marker(1)>> ELSE << >>
      /\ wire = << >> /\ rpc # "send"
  BY Zenon DEF Init
<1>3. \A r : ~AskedIn(reqs, r)
  BY <1>2 DEF AskedIn, Asks, OptionReq
<1>4. \A n, r : ~Carries(wire, n, r) /\ ~Carries(in, n, r)
  BY <1>2 DEF Carries, Replies, Marker
<1>5. OnceAsked(reqs) /\ OnceIn(wire) /\ OnceIn(in)
  BY <1>2 DEF OnceAsked, OnceIn, Replies
<1>6. \A n, r : ~InFlight(n, r) /\ Apart(n, r)
  BY Zenon, <1>2, <1>3, <1>4 DEF InFlight, Apart, Asked, Read
<1>7. DeliverInv /\ OwnReply
  BY Zenon DEF Init, DeliverInv, OwnReply
<1> QED
  BY Zenon, <1>1, <1>5, <1>6, <1>7 DEF ReplyInv, OneAtATime, FlightInv

(* As long as no reply has been matched with a handler of a later          *)
(* connection, what Do, DoBg and Echo return answers the very request they *)
(* wrote, and a job's callback is the one its submitter passed: a request  *)
(* is under way at most once, and a call that stops waiting for its reply  *)
(* takes the connection with it.                                           *)
THEOREM RepliesAreOwn == Spec => []OwnReply
<1>1. TypeOK /\ Redialling /\ SnapshotInv /\ [Next]_vars => SnapshotInv'
  BY Zenon, SnapshotStep
<1>2. TypeOK /\ HandlerInv /\ NoSocketLeak /\ Redialling /\ SnapshotInv /\ ReplyInv /\ [Next]_vars
        => ReplyInv'
  BY Zenon, ReplyStep DEF ConnFacts
<1>3. ReplyInv => OwnReply
  BY Zenon DEF ReplyInv, OwnReply
<1> QED
  BY <1>1, <1>2, <1>3, ReplyInit, TypeCorrect, HandlerCorrect, Sockets, PTL DEF Spec

=============================================================================

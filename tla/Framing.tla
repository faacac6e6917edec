------------------------------ MODULE Framing --------------------------------
(***************************************************************************)
(* Packets on a connection, from the code that writes them to the code     *)
(* that uses what was read.  On the client's connection a job server       *)
(* relays what a worker's agent.write has encoded into its pooled buffer,  *)
(* and answers of its own; client.readPacket frames them.  On the worker's *)
(* it assigns the jobs a client has encoded; agent.read frames them.  Both *)
(* readers take a header, reject a bad one, take the body it declares, and *)
(* drop the connection on any error.  Bytes arrive one at a time and the   *)
(* connection may end between any two.                                     *)
(***************************************************************************)
EXTENDS Packets

CONSTANTS
  Handles, Datas, Numbers, Names,   \* handles, payloads, progress figures, ids
  MaxPacketLength,   \* limit on the length of a body
  Word,              \* 2^w, for w-bit unsigned lengths and ints
  BadLengths,        \* lengths over the limit a desynced header may show
  MaxPackets         \* bound on the packets sent

ASSUME FramingAssumption ==
  /\ Handles \cup Datas \cup Names \subseteq Seq(0 .. 255) /\ << >> \notin Handles
  /\ \A s \in Handles \cup Names : IndexNUL(s) = 0
  /\ Numbers \subseteq Int /\ MaxPackets \in Nat
  /\ MaxPacketLength \in Nat /\ Word \in Nat /\ MaxPacketLength < Word \div 2
  /\ BadLengths \subseteq MaxPacketLength + 1 .. Word - 1

VARIABLES
  reader,      \* whose connection it is: "client" or "worker"
  pooled,      \* the array behind the buffer encodeBufPool holds
  packets,     \* packets sent so far, on this connection and before
  sent,        \* messages sent on this connection
  wire, buf,   \* bytes on the way, bytes arrived and not read
  hdr,         \* the header read, << >> when a header is awaited
  up,          \* the connection has not ended
  got          \* what was decoded on this connection

vars == <<reader, pooled, packets, sent, wire, buf, hdr, up, got>>

-----------------------------------------------------------------------------
(* Messages.  Those of a worker go through encodeInto.                     *)

FromWorker ==
  [kind : {"result"}, handle : Handles, data : Datas, failed : BOOLEAN]
    \cup [kind : {"data", "warning"}, handle : Handles, data : Datas]
    \cup [kind : {"progress"}, handle : Handles, num : Numbers, den : Numbers]

FromServer ==
  [kind : {"created"}, handle : Handles]
    \cup [kind : {"echo"}, data : Datas]
    \cup [kind : {"status"}, handle : Handles, known : BOOLEAN, running : BOOLEAN,
          num : Numbers \cap Nat, den : Numbers \cap Nat]

Assigned == [kind : {"assign", "assign_uniq"}, handle : Handles, fn : Names \ {<< >>}, id : Names,
             data : Datas]

OutPackOf(m) ==
  CASE m.kind = "result"   -> ExecOutPack(m.handle, m.data, m.failed)
    [] m.kind = "data"     -> SendData(m.handle, m.data)
    [] m.kind = "warning"  -> SendWarning(m.handle, m.data)
    [] m.kind = "progress" -> UpdateStatus(m.handle, m.num, m.den)

(* The job server passes the body of a worker's packet on as it is.        *)
Relay(packet) == newPacket(res, Type(packet), Body(packet))

Flag(b) == IF b THEN <<49>> ELSE <<48>>

(* Its own answers; an ECHO_REQ or GET_STATUS has one argument, the body.  *)
ServerPacket(m) ==
  CASE m.kind = "created" -> newPacket(res, dt.JobCreated, m.handle)
    [] m.kind = "echo"    -> newPacket(res, dt.EchoRes, Body(encodeRequest(dt.EchoReq, m.data)))
    [] m.kind = "status"  ->
         newPacket(res, dt.StatusRes, Body(encodeRequest(dt.GetStatus, m.handle)) \o NUL
                                        \o Flag(m.known) \o NUL \o Flag(m.running) \o NUL
                                        \o Digits[m.num] \o NUL \o Digits[m.den])

(* The job server splits a SUBMIT_JOB at its first two separators and adds *)
(* its handle; only JOB_ASSIGN_UNIQ passes the unique id on.               *)
Assign(m) ==
  LET job == Body(encodeJob(dt.SubmitJob, m.fn, m.id, m.data))
      fn  == m.handle \o NUL \o Before(job) \o NUL
  IN IF m.kind = "assign" THEN newPacket(res, dt.JobAssign, fn \o After(After(job)))
     ELSE newPacket(res, dt.JobAssignUniq, fn \o Before(After(job)) \o NUL \o After(After(job)))

(* A length field holds the length of the body.                            *)
ASSUME LengthAssumption ==
  /\ \A m \in FromWorker : EncodedLen(OutPackOf(m)) - MinPacketLength < Word
  /\ \A m \in FromServer : ServerPacket(m)[3] < Word
  /\ \A m \in Assigned : Assign(m)[3] < Word

(* What the receiver makes of a packet: the accessor for its type.         *)
Observe(who, packet) ==
  LET resp == decodeResponse(packet)
      type == Type(packet)
  IN IF who = "worker" THEN decodeInPack(packet) ELSE IF resp = Invalid THEN Invalid ELSE
     CASE type \in {dt.WorkComplete, dt.WorkFail, dt.WorkException} -> <<resp.Handle, Result(resp)>>
       [] type \in {dt.WorkData, dt.WorkWarning} -> <<resp.Handle, Update(resp)>>
       [] type = dt.WorkStatus -> <<resp.Handle, Status(resp)>>
       [] type = dt.StatusRes -> <<resp.Handle, _status(resp)>>
       [] OTHER -> <<resp.Handle, resp.Data>>

(* What the sender meant the receiver to see.                              *)
Expected(m) ==
  CASE m.kind = "result" ->
         <<m.handle, [data |-> m.data,
                      err  |-> IF ~m.failed THEN "nil"
                               ELSE IF m.data = << >> THEN "ErrWorkFail" ELSE "ErrWorkException"]>>
    [] m.kind = "data"     -> <<m.handle, [data |-> m.data, err |-> "nil"]>>
    [] m.kind = "warning"  -> <<m.handle, [data |-> m.data, err |-> "ErrWorkWarning"]>>
    [] m.kind = "progress" -> <<m.handle, IF m.num < 0 \/ m.den < 0 THEN Invalid
                                          ELSE JobStatus(TRUE, TRUE, m.num, m.den)>>
    [] m.kind = "created"  -> <<m.handle, << >>>>
    [] m.kind = "echo"     -> << << >>, m.data>>
    [] m.kind = "status"   -> <<m.handle, JobStatus(m.known, m.running, m.num, m.den)>>
    [] m.kind = "assign"   -> InPack(dt.JobAssign, m.handle, m.fn, << >>, m.data)
    [] m.kind = "assign_uniq" -> InPack(dt.JobAssignUniq, m.handle, m.fn, m.id, m.data)

-----------------------------------------------------------------------------
Init ==
  /\ reader \in {"client", "worker"}
  /\ pooled = [i \in 1 .. EncodeBufSize |-> 0]
  /\ packets = 0 /\ sent = << >> /\ wire = << >> /\ buf = << >> /\ hdr = << >>
  /\ up = TRUE /\ got = << >>

Put(m, packet) ==
  /\ up /\ packets < MaxPackets
  /\ packets' = packets + 1
  /\ sent' = Append(sent, m)
  /\ wire' = wire \o packet
  /\ UNCHANGED <<reader, buf, hdr, up, got>>

(* Mutant: a buffer of any size goes back into the pool.                   *)
WorkerWriteKeepsAll(m) ==
  /\ reader = "client"
  /\ LET data == encodeInto(OutPackOf(m), pooled) IN
       /\ Put(m, Relay(SubSeq(data, 1, EncodedLen(OutPackOf(m)))))
       /\ pooled' = data

(* agent.write: encode into the pooled buffer, which goes back unless it   *)
(* has grown too large.                                                    *)
WorkerWrite(m) ==
  /\ reader = "client"
  /\ LET data == encodeInto(OutPackOf(m), pooled) IN
       /\ Put(m, Relay(SubSeq(data, 1, EncodedLen(OutPackOf(m)))))
       /\ pooled' = IF Len(data) =< EncodeBufKeep THEN data ELSE pooled

ServerWrite(m) == reader = "client" /\ Put(m, ServerPacket(m)) /\ UNCHANGED pooled

JobAssigned(m) == reader = "worker" /\ Put(m, Assign(m)) /\ UNCHANGED pooled

(* A stream out of step: a header with the wrong magic, or a length no     *)
(* packet has.                                                             *)
Desync(magic, length) ==
  Put([kind |-> "bad"], <<magic, dt.EchoRes, length>>) /\ UNCHANGED pooled

Arrive ==
  /\ wire # << >>
  /\ buf' = Append(buf, Head(wire)) /\ wire' = Tail(wire)
  /\ UNCHANGED <<reader, pooled, packets, sent, hdr, up, got>>

HangUp ==
  /\ up
  /\ up' = FALSE /\ wire' = << >>
  /\ UNCHANGED <<reader, pooled, packets, sent, buf, hdr, got>>

-----------------------------------------------------------------------------
(* readPacket and agent.read.                                              *)

Signed(u) == IF u >= Word \div 2 THEN u - Word ELSE u

(* Mutant: the length is compared after the conversion to int.             *)
TooLongSigned(u) == Signed(u) > MaxPacketLength

TooLong(u) == u > MaxPacketLength

(* io.ReadFull and Peek return when what they ask for is there.            *)
HeaderArrived == hdr = << >> /\ Len(buf) >= MinPacketLength

(* Mutant: a body is complete only once the next packet has begun.         *)
BodyArrivedLate == hdr # << >> /\ Len(buf) > hdr[3]

BodyArrived == hdr # << >> /\ Len(buf) >= hdr[3]

(* The caller of a read that failed redials, with a new bufio.Reader.      *)
Redial ==
  /\ sent' = << >> /\ wire' = << >> /\ buf' = << >> /\ hdr' = << >> /\ up' = TRUE /\ got' = << >>
  /\ UNCHANGED <<reader, pooled, packets>>

ReadHeader ==
  /\ HeaderArrived
  /\ \/ /\ buf[1] = res /\ ~TooLong(buf[3])
        /\ hdr' = SubSeq(buf, 1, MinPacketLength)
        /\ buf' = SubSeq(buf, MinPacketLength + 1, Len(buf))
        /\ UNCHANGED <<reader, pooled, packets, sent, wire, up, got>>
     \/ (buf[1] # res \/ TooLong(buf[3])) /\ Redial

ReadBody ==
  /\ BodyArrived
  /\ got' = Append(got, Observe(reader, hdr \o SubSeq(buf, 1, hdr[3])))
  /\ buf' = SubSeq(buf, hdr[3] + 1, Len(buf))
  /\ hdr' = << >>
  /\ UNCHANGED <<reader, pooled, packets, sent, wire, up>>

(* The connection ended before the header or the body was complete.        *)
ReadEOF ==
  /\ ~up /\ ~HeaderArrived /\ ~BodyArrived
  /\ Redial

Next ==
  \/ \E m \in FromWorker : WorkerWrite(m)
  \/ \E m \in FromServer : ServerWrite(m)
  \/ \E m \in Assigned : JobAssigned(m)
  \/ Desync(req, 0) \/ \E length \in BadLengths : Desync(res, length)
  \/ Arrive \/ HangUp \/ ReadHeader \/ ReadBody \/ ReadEOF

Spec == Init /\ [][Next]_vars

-----------------------------------------------------------------------------
(* Properties.                                                             *)

Bytes == 0 .. 255 \cup {req, res} \cup 0 .. Word - 1

(* The state has its types.                                                *)
TypeOK ==
  /\ reader \in {"client", "worker"} /\ packets \in 0 .. MaxPackets /\ up \in BOOLEAN
  /\ pooled \in Seq(Bytes) /\ Len(pooled) =< EncodeBufKeep
  /\ {wire, buf, hdr} \subseteq Seq(Bytes) /\ Len(hdr) \in {0, MinPacketLength}
  /\ Len(got) =< Len(sent) /\ Len(sent) =< packets

(* What is decoded on a connection is what was sent on it, in order and    *)
(* from the first packet on: however the bytes arrive, wherever earlier    *)
(* connections broke off, and whatever earlier packets left in the pooled  *)
(* buffer, the handle and payload a job function or a submitter hands to   *)
(* the library are those the other side's accessors return, separators in  *)
(* the payload included.  Nothing is decoded from a bad header on.         *)
DecodedAsSent ==
  \A i \in DOMAIN got : sent[i].kind # "bad" /\ got[i] = Expected(sent[i])

(* A reader never waits for bytes nobody will send: when everything sent   *)
(* has arrived and the reader can take no further step, it has decoded     *)
(* every packet.                                                           *)
NoStall ==
  up /\ wire = << >> /\ ~HeaderArrived /\ ~BodyArrived => Len(got) = Len(sent)

(* The length a reader goes on with, as the int it allocates with, is      *)
(* neither negative nor over the limit, whatever the header declares.      *)
AllocationBounded == hdr # << >> => Signed(hdr[3]) \in 0 .. MaxPacketLength
=============================================================================

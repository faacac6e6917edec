------------------------------ MODULE Packets --------------------------------
(***************************************************************************)
(* The packet formats: what client/request.go, worker/outpack.go and       *)
(* worker/inpack.go write and what client/response.go and worker/inpack.go *)
(* make of it.  A packet is a sequence of numbers: the three header fields *)
(* (magic, type, length), one number each, and the bytes of the body.      *)
(* Strings and byte slices are sequences of bytes; 0 separates fields.     *)
(***************************************************************************)
EXTENDS Integers, Sequences, FiniteSetsExt

CONSTANTS
  EncodeBufSize,   \* capacity of a new buffer of encodeBufPool
  EncodeBufKeep,   \* largest capacity put back into encodeBufPool
  Invalid          \* what an accessor or a conversion returns with an error

ASSUME PacketsAssumption ==
  /\ EncodeBufSize \in Nat /\ EncodeBufKeep \in Nat /\ EncodeBufSize =< EncodeBufKeep
  /\ Invalid \notin Int /\ Invalid \notin [DataType : Int, Handle : Seq(Int), Data : Seq(Int)]

req == 5391697
res == 5391699

dt == [SubmitJob |-> 7, JobCreated |-> 8, JobAssign |-> 11, WorkStatus |-> 12,
       WorkComplete |-> 13, WorkFail |-> 14, GetStatus |-> 15, EchoReq |-> 16,
       EchoRes |-> 17, StatusRes |-> 20, WorkException |-> 25, WorkData |-> 28, WorkWarning |-> 29,
       JobAssignUniq |-> 31]

MinPacketLength == 3
NUL             == <<0>>

Type(packet) == packet[2]
Body(packet) == SubSeq(packet, MinPacketLength + 1, MinPacketLength + packet[3])

(* bytes.IndexByte(s, 0), counting from 1; 0 when there is none.           *)
IndexNUL(s) == LET at == {i \in DOMAIN s : s[i] = 0} IN IF at = {} THEN 0 ELSE Min(at)

Before(s) == SubSeq(s, 1, IndexNUL(s) - 1)
After(s)  == SubSeq(s, IndexNUL(s) + 1, Len(s))

-----------------------------------------------------------------------------
(* strconv.Itoa and ParseUint, in base ten.                                *)

Digits[n \in Nat] == IF n < 10 THEN <<48 + n>> ELSE Append(Digits[n \div 10], 48 + (n % 10))

Itoa(n) == IF n < 0 THEN <<45>> \o Digits[-n] ELSE Digits[n]

(* The number after i characters is ten times the one before plus a digit. *)
Value(s) ==
  LET n[i \in 0 .. Len(s)] == IF i = 0 THEN 0 ELSE 10 * n[i - 1] + (s[i] - 48) IN n[Len(s)]

ParseUint(s) ==
  IF s = << >> \/ \E i \in DOMAIN s : s[i] \notin 48 .. 57 THEN Invalid ELSE Value(s)

-----------------------------------------------------------------------------
(* What is written.  request.go: one buffer for the header and the body.   *)

newPacket(magic, type, body) == <<magic, type, Len(body)>> \o body

encodeRequest(type, arg) == newPacket(req, type, arg)

encodeJob(type, fn, id, data) == newPacket(req, type, fn \o NUL \o id \o NUL \o data)

(* outPack values.  What a job function sends with its handle has the      *)
(* handle in its data; what exec sends has it in the handle field.         *)
OutPack(type, data, handle) == [type |-> type, data |-> data, handle |-> handle]

SendData(handle, data)     == OutPack(dt.WorkData, handle \o NUL \o data, << >>)
SendWarning(handle, data)  == OutPack(dt.WorkWarning, handle \o NUL \o data, << >>)
UpdateStatus(handle, n, d) ==
  OutPack(dt.WorkStatus, handle \o NUL \o Itoa(n) \o NUL \o Itoa(d), << >>)

ExecOutPack(handle, data, failed) ==
  OutPack(IF ~failed THEN dt.WorkComplete
          ELSE IF data = << >> THEN dt.WorkFail ELSE dt.WorkException, data, handle)

EncodedLen(out) ==
  MinPacketLength + (IF out.type = dt.WorkFail THEN Len(out.handle)
                     ELSE Len(out.data) + (IF out.handle = << >> THEN 0 ELSE Len(out.handle) + 1))

(* encodeInto(buf): the array behind the slice it returns, with what it    *)
(* writes at each index and what buf held everywhere else.  buf is its     *)
(* whole capacity.                                                         *)
Room(out, buf) ==
  IF Len(buf) < EncodedLen(out) THEN [i \in 1 .. EncodedLen(out) |-> 0] ELSE buf

EncodeAt(out, buf, separated, i) ==
  LET hl   == Len(out.handle)
      j    == i - MinPacketLength                     \* index in the body
      k    == IF hl = 0 THEN j ELSE j - hl - 1        \* index in out.data
      fail == out.type = dt.WorkFail
  IN CASE j =< 0                                   -> <<req, out.type, EncodedLen(out) - MinPacketLength>>[i]
       [] j > 0 /\ j =< hl                         -> out.handle[j]
       [] separated /\ hl > 0 /\ j = hl + 1 /\ ~fail -> 0
       [] k \in DOMAIN out.data /\ ~fail           -> out.data[k]
       [] OTHER                                    -> buf[i]

(* Mutant: the separator is left to the zeroing of a fresh buffer.         *)
NoSeparator(out, buf) ==
  LET room == Room(out, buf) IN [i \in DOMAIN room |-> EncodeAt(out, room, FALSE, i)]

encodeInto(out, buf) ==
  LET room == Room(out, buf) IN [i \in DOMAIN room |-> EncodeAt(out, room, TRUE, i)]

-----------------------------------------------------------------------------
(* What is read.  client/response.go.                                      *)

Truncated(packet) == Len(packet) < MinPacketLength \/ Len(packet) < MinPacketLength + packet[3]

Response(type, handle, data) == [DataType |-> type, Handle |-> handle, Data |-> data]

decodeResponse(packet) ==
  LET type == Type(packet)
      body == Body(packet)
  IN IF Truncated(packet) THEN Invalid ELSE
     CASE type = dt.JobCreated -> Response(type, body, << >>)
       [] type \in {dt.StatusRes, dt.WorkData, dt.WorkWarning, dt.WorkStatus, dt.WorkComplete,
                    dt.WorkException} ->
            IF IndexNUL(body) = 0 THEN Invalid ELSE Response(type, Before(body), After(body))
       [] type = dt.WorkFail ->
            Response(type, IF IndexNUL(body) = 0 THEN body ELSE Before(body), << >>)
       [] OTHER -> Response(type, << >>, body)

Result(resp) ==
  CASE resp.DataType = dt.WorkFail      -> [data |-> << >>, err |-> "ErrWorkFail"]
    [] resp.DataType = dt.WorkException -> [data |-> resp.Data, err |-> "ErrWorkException"]
    [] resp.DataType = dt.WorkComplete  -> [data |-> resp.Data, err |-> "nil"]
    [] OTHER                            -> [data |-> << >>, err |-> "ErrDataType"]

Update(resp) ==
  CASE resp.DataType = dt.WorkData    -> [data |-> resp.Data, err |-> "nil"]
    [] resp.DataType = dt.WorkWarning -> [data |-> resp.Data, err |-> "ErrWorkWarning"]
    [] OTHER                          -> [data |-> << >>, err |-> "ErrDataType"]

JobStatus(known, running, num, den) ==
  [Known |-> known, Running |-> running, Numerator |-> num, Denominator |-> den]

(* Response.Status, of a WORK_STATUS.                                      *)
Status(resp) ==
  LET num == ParseUint(Before(resp.Data))
      den == ParseUint(After(resp.Data))
  IN IF IndexNUL(resp.Data) = 0 \/ Invalid \in {num, den} THEN Invalid
     ELSE JobStatus(TRUE, TRUE, num, den)

(* Response._status, of a STATUS_RES: four fields, flags by first byte.    *)
_status(resp) ==
  LET f1 == Before(resp.Data)      r1 == After(resp.Data)
      f2 == Before(r1)             r2 == After(r1)
      num == ParseUint(Before(r2)) den == ParseUint(After(r2))
  IN IF \/ 0 \in {IndexNUL(resp.Data), IndexNUL(r1), IndexNUL(r2)}
        \/ << >> \in {f1, f2} \/ Invalid \in {num, den}
     THEN Invalid
     ELSE JobStatus(f1[1] = 49, f2[1] = 49, num, den)

-----------------------------------------------------------------------------
(* worker/inpack.go.                                                       *)

InPack(type, handle, fn, uid, data) ==
  [dataType |-> type, handle |-> handle, fn |-> fn, uniqueId |-> uid, data |-> data]

decodeInPack(packet) ==
  LET type == Type(packet)
      body == Body(packet)
      r1   == After(body)          \* what follows the handle,
      r2   == After(r1)            \* the function
      r3   == After(r2)            \* and the unique id
      none == InPack(type, << >>, << >>, << >>, << >>)
  IN IF Truncated(packet) THEN Invalid ELSE
     CASE type = dt.JobAssign ->
            IF 0 \in {IndexNUL(body), IndexNUL(r1)} THEN none
            ELSE InPack(type, Before(body), Before(r1), << >>, r2)
       [] type = dt.JobAssignUniq ->
            IF 0 \in {IndexNUL(body), IndexNUL(r1), IndexNUL(r2)} THEN none
            ELSE InPack(type, Before(body), Before(r1), Before(r2), r3)
       [] OTHER -> InPack(type, << >>, << >>, << >>, body)
=============================================================================

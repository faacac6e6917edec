------------------------------- MODULE Client --------------------------------
(***************************************************************************)
(* client/client.go: one Client, its caller goroutines (Do, DoBg, Status,  *)
(* Echo), its readLoop and processLoop goroutines, a goroutine that calls  *)
(* Close, and the job server at the other end of its connections.          *)
(*                                                                         *)
(* Every critical section of connMu, of a handlerSlot and of the status    *)
(* map is one atomic step.  closeConn holds connMu while it resets both    *)
(* slots; it is one step too, since everyone who looks at conn or rw waits *)
(* for connMu and the two resets commute with every other slot operation   *)
(* that can fall between them.  client.Mutex is held across steps and is   *)
(* the variable mutex.                                                     *)
(*                                                                         *)
(* Calls are numbered; a call's number stands for its handlers, for its    *)
(* result channel, for the payload of its request and, once the server has *)
(* accepted a job, for the handle of that job.  A connection is the number *)
(* of the dial that made it, and 0 is nil.                                 *)
(***************************************************************************)
EXTENDS HandlerSlot, FiniteSets

CONSTANTS
  Callers,          \* goroutines that issue requests
  NoCaller,         \* the holder of a free client.Mutex
  Kinds,            \* which requests they issue
  StatusHandles,    \* job handles they ask the status of
  NoHandle,         \* the handle of a request that names none
  WantExceptions,   \* client.wantExceptions
  QueueSize,        \* capacity of client.in
  MaxCalls,         \* bound on the number of requests issued
  MaxConn,          \* bound on the number of dials
  MaxWire           \* bound on the packets in flight to the client

ASSUME ClientAssumption ==
  /\ NoCaller \notin Callers
  /\ NoHandle \notin StatusHandles
  /\ Kinds \subseteq {"do", "bg", "echo", "status"}
  /\ WantExceptions \in BOOLEAN
  /\ QueueSize \in Nat \ {0}
  /\ MaxCalls \in Nat /\ MaxConn \in Nat \ {0} /\ MaxWire \in Nat

VARIABLES
  conn,           \* client.conn and client.rw, always set together
  closing,        \* progress of Close; client.closed once it is not "no"
  open,           \* sockets the client has dialled and not closed
  dropped,        \* the job server has dropped the latest connection
  nconn,          \* dials that have succeeded
  excState,       \* client.exceptionsState
  created, echo,  \* client.handlers.created and .echo
  status,         \* client.handlers.status: handle -> waiting call, or 0
  mutex,          \* holder of client.Mutex
  ncalls,         \* calls issued
  pc, cid, ckind, carg,   \* per caller: where it is, and its current call
  crw,            \* per caller: write's snapshot of client.rw
  cres,           \* per caller: what the result channel holds, or 0
  rpc, rrw, rresp,        \* readLoop: where it is, its rw, its response
  in,             \* client.in
  ppc, presp, ph, \* processLoop: where it is, its response, its handler
  rhandlers,      \* processLoop: job -> call whose callback it runs, or 0
  optionPending,  \* processLoop: the next packet answers the OPTION_REQ
  reqs, wire,     \* latest connection: requests to, packets from the server
  jobs,           \* foreground jobs accepted on the latest connection
  crossed,        \* history: a reply met a handler of another connection
  acked,          \* history: the latest connection's OPTION_REQ was taken
  lastMarker      \* history: connection of the last marker processed

connVars   == <<conn, closing, open, nconn>>
serverVars == <<reqs, wire, jobs, dropped, acked>>
slotVars   == <<created, echo, status>>
callerVars == <<mutex, ncalls, pc, cid, ckind, carg, crw, cres>>
readerVars == <<rpc, rrw, rresp>>
procVars   == <<ppc, presp, ph, rhandlers, optionPending, lastMarker, crossed>>

vars == <<conn, closing, open, dropped, nconn, excState, created, echo, status,
          mutex, ncalls, pc, cid, ckind, carg, crw, cres, rpc, rrw, rresp, in,
          ppc, presp, ph, rhandlers, optionPending, reqs, wire, jobs,
          crossed, acked, lastMarker>>

Calls == 1..MaxCalls
Args  == StatusHandles \cup {NoHandle}

Request ==
  [kind : {"option"}, id : {0}, arg : {NoHandle}]
    \cup [kind : Kinds \ {"status"}, id : Calls, arg : {NoHandle}]
    \cup [kind : Kinds \cap {"status"}, id : Calls, arg : StatusHandles]

(* A response remembers the connection it was read from and the call that  *)
(* asked for it; the client sees neither, only the type and, for a         *)
(* STATUS_RES or a WORK_*, the handle.                                     *)
Packet ==
  [type : {"none", "option_sent", "option_res", "error", "malformed"},
   conn : 0..MaxConn, req : 0..MaxCalls, arg : Args]
    \cup [type : {"job_created", "echo_res", "work_data", "work_done"},
          conn : 1..MaxConn, req : Calls, arg : {NoHandle}]
    \cup [type : {"status_res"}, conn : 1..MaxConn, req : Calls, arg : StatusHandles]

NoPacket  == [type |-> "none", conn |-> 0, req |-> 0, arg |-> NoHandle]
Marker(n) == [type |-> "option_sent", conn |-> n, req |-> 0, arg |-> NoHandle]

OptionReq == [kind |-> "option", id |-> 0, arg |-> NoHandle]

closed == closing # "no"

(* What New returns: connected, with the OPTION_REQ written and the marker *)
(* in client.in if the option is wanted, and both loops started.           *)
Init ==
  /\ conn = 1 /\ closing = "no" /\ open = {1} /\ dropped = FALSE /\ nconn = 1
  /\ excState = "pending"
  /\ created = << >> /\ echo = << >> /\ status = [h \in StatusHandles |-> 0]
  /\ mutex = NoCaller /\ ncalls = 0
  /\ pc = [c \in Callers |-> "idle"]
  /\ cid = [c \in Callers |-> 0]
  /\ ckind = [c \in Callers |-> "none"]
  /\ carg = [c \in Callers |-> NoHandle]
  /\ crw = [c \in Callers |-> 0]
  /\ cres = [c \in Callers |-> 0]
  /\ rpc = "loop" /\ rrw = 0 /\ rresp = NoPacket
  /\ in = IF WantExceptions THEN <<Marker(1)>> ELSE << >>
  /\ ppc = "recv" /\ presp = NoPacket /\ ph = NoEntry
  /\ rhandlers = [j \in Calls |-> 0]
  /\ optionPending = FALSE
  /\ reqs = IF WantExceptions THEN <<OptionReq>> ELSE << >>
  /\ wire = << >> /\ jobs = {}
  /\ crossed = FALSE /\ acked = FALSE /\ lastMarker = 0

-----------------------------------------------------------------------------
(* closeConn: drop the current connection and empty both handler queues.   *)

closeConn ==
  \/ /\ conn = 0
     /\ UNCHANGED <<conn, open, created, echo>>
  \/ /\ conn # 0
     /\ conn' = 0
     /\ open' = open \ {conn}
     /\ created' = SlotReset
     /\ echo' = SlotReset

-----------------------------------------------------------------------------
(* Callers: do, Status and Echo.                                           *)

UsesCreated(c) == ckind[c] \in {"do", "bg"}

(* Unlock and return to the caller's caller.                               *)
Return(c) ==
  /\ mutex' = NoCaller
  /\ pc' = [pc EXCEPT ![c] = "idle"]
  /\ crw' = [crw EXCEPT ![c] = 0]
  /\ cres' = [cres EXCEPT ![c] = 0]
  /\ cid' = [cid EXCEPT ![c] = 0]
  /\ ckind' = [ckind EXCEPT ![c] = "none"]
  /\ carg' = [carg EXCEPT ![c] = NoHandle]
  /\ UNCHANGED ncalls

ReturnLocals == <<mutex, ncalls, cid, ckind, carg, cres>>

(* Mutant: a call that could not be written leaves its handler queued.     *)
cancelForgotten(c) == UNCHANGED slotVars

cancel(c) ==
  /\ created' = IF UsesCreated(c) THEN SlotCancel(created, cid[c]) ELSE created
  /\ echo' = IF ckind[c] = "echo" THEN SlotCancel(echo, cid[c]) ELSE echo
  /\ status' = IF ckind[c] = "status" THEN [status EXCEPT ![carg[c]] = 0] ELSE status

(* The checks before the lock.  A call that finds no connection returns    *)
(* ErrLostConn and changes nothing.                                        *)
Call(c, k, h) ==
  /\ pc[c] = "idle" /\ ncalls < MaxCalls
  /\ conn # 0
  /\ h \in (IF k = "status" THEN StatusHandles ELSE {NoHandle})
  /\ ncalls' = ncalls + 1
  /\ cid' = [cid EXCEPT ![c] = ncalls + 1]
  /\ ckind' = [ckind EXCEPT ![c] = k]
  /\ carg' = [carg EXCEPT ![c] = h]
  /\ pc' = [pc EXCEPT ![c] = "lock"]
  /\ UNCHANGED <<connVars, excState, slotVars, mutex, crw, cres, readerVars, in,
                 procVars, serverVars>>

Lock(c) ==
  /\ pc[c] = "lock" /\ mutex = NoCaller
  /\ mutex' = c
  /\ pc' = [pc EXCEPT ![c] = "set"]
  /\ UNCHANGED <<connVars, excState, slotVars, ncalls, cid, ckind, carg, crw, cres,
                 readerVars, in, procVars, serverVars>>

(* handlers.created.set, handlers.echo.set or handlers.status.set.         *)
SetHandler(c) ==
  /\ pc[c] = "set"
  /\ created' = IF UsesCreated(c) THEN SlotSet(created, cid[c], ckind[c] = "do") ELSE created
  /\ echo' = IF ckind[c] = "echo" THEN SlotSet(echo, cid[c], FALSE) ELSE echo
  /\ status' = IF ckind[c] = "status" THEN [status EXCEPT ![carg[c]] = cid[c]] ELSE status
  /\ pc' = [pc EXCEPT ![c] = "write"]
  /\ UNCHANGED <<connVars, excState, mutex, ncalls, cid, ckind, carg, crw, cres,
                 readerVars, in, procVars, serverVars>>

(* write's snapshot of rw; without one, cancel and return ErrLostConn.     *)
Write(c) ==
  /\ pc[c] = "write"
  /\ \/ /\ conn # 0
        /\ crw' = [crw EXCEPT ![c] = conn]
        /\ pc' = [pc EXCEPT ![c] = "writeTo"]
        /\ UNCHANGED <<slotVars, ReturnLocals>>
     \/ /\ conn = 0
        /\ cancel(c)
        /\ Return(c)
  /\ UNCHANGED <<connVars, excState, readerVars, in,
                 procVars, serverVars>>

(* writeTo on that snapshot, outside every lock but client.Mutex.  It can  *)
(* only succeed on a socket this side has not closed and can only fail on  *)
(* one that either side has.  It has no deadline, and the timer is armed   *)
(* after it: when the step is taken on an open socket is the server's      *)
(* choice, and a server that does not read may put it off for ever.        *)
WriteTo(c) ==
  /\ pc[c] = "writeTo"
  /\ \/ /\ crw[c] \in open
        /\ reqs' = Append(reqs, [kind |-> ckind[c], id |-> cid[c], arg |-> carg[c]])
        /\ pc' = [pc EXCEPT ![c] = "wait"]
        /\ UNCHANGED <<slotVars, ReturnLocals, crw>>
     \/ /\ crw[c] \notin open \/ dropped
        /\ cancel(c)
        /\ Return(c)
        /\ UNCHANGED reqs
  /\ UNCHANGED <<connVars, excState, readerVars, in,
                 procVars, wire, jobs, dropped, acked>>

(* case ret := <-result.                                                   *)
Receive(c) ==
  /\ pc[c] = "wait" /\ cres[c] # 0
  /\ Return(c)
  /\ UNCHANGED <<connVars, excState, slotVars, readerVars,
                 in, procVars, serverVars>>

(* Mutant: only Status gives up.                                           *)
TimeoutStatusOnly(c) ==
  /\ pc[c] = "wait" /\ ckind[c] = "status"
  /\ cancel(c)
  /\ Return(c)
  /\ UNCHANGED <<connVars, excState, readerVars, in, procVars, serverVars>>

(* case <-timeout, which may be picked over a result that is ready too.    *)
(* Status only cancels; do and Echo abandon their entry ...                *)
Timeout(c) ==
  /\ pc[c] = "wait"
  /\ \/ /\ ckind[c] = "status"
        /\ cancel(c)
        /\ Return(c)
     \/ /\ ckind[c] # "status"
        /\ created' = IF UsesCreated(c) THEN SlotAbandon(created, cid[c], 1) ELSE created
        /\ echo' = IF ckind[c] = "echo" THEN SlotAbandon(echo, cid[c], 1) ELSE echo
        /\ pc' = [pc EXCEPT ![c] = "close"]
        /\ UNCHANGED <<status, ReturnLocals, crw>>
  /\ UNCHANGED <<connVars, excState, readerVars, in,
                 procVars, serverVars>>

(* Mutant: a timeout trusts the abandoned entry and keeps the connection.  *)
CloseConnKept(c) ==
  /\ pc[c] = "close"
  /\ Return(c)
  /\ UNCHANGED <<connVars, excState, slotVars, readerVars, in, procVars, serverVars>>

(* ... and then drop whatever connection is current.                       *)
CloseConn(c) ==
  /\ pc[c] = "close"
  /\ closeConn
  /\ Return(c)
  /\ UNCHANGED <<closing, nconn, excState, status, readerVars, in, procVars, serverVars>>

Caller(c) ==
  \/ \E k \in Kinds, h \in Args : Call(c, k, h)
  \/ Lock(c) \/ SetHandler(c) \/ Write(c) \/ WriteTo(c)
  \/ Receive(c) \/ Timeout(c) \/ CloseConn(c)

-----------------------------------------------------------------------------
(* Close: two critical sections of connMu.                                 *)

SetClosed ==
  /\ closing = "no"
  /\ closing' = "flagged"
  /\ UNCHANGED <<conn, open, nconn, excState, slotVars, callerVars,
                 readerVars, in, procVars, serverVars>>

(* Mutant: Close waits for client.Mutex before it closes the connection.   *)
FinishCloseLocked ==
  /\ closing = "flagged" /\ mutex = NoCaller
  /\ closing' = "done"
  /\ closeConn
  /\ UNCHANGED <<nconn, excState, status, callerVars, readerVars, in, procVars, serverVars>>

(* Mutant: Close sets the flag and leaves the connection open.             *)
FinishCloseFlagOnly ==
  /\ closing = "flagged"
  /\ closing' = "done"
  /\ UNCHANGED <<conn, open, nconn, excState, slotVars, callerVars, readerVars, in,
                 procVars, serverVars>>

FinishClose ==
  /\ closing = "flagged"
  /\ closing' = "done"
  /\ closeConn
  /\ UNCHANGED <<nconn, excState, status, callerVars, readerVars, in,
                 procVars, serverVars>>

-----------------------------------------------------------------------------
(* readLoop, with readPacket and connect.  Its exit closes client.in.      *)

ReaderUnchanged ==
  UNCHANGED <<closing, status, callerVars, procVars>>

(* The loop condition.                                                     *)
LoopTest ==
  /\ rpc = "loop"
  /\ rpc' = IF closed THEN "exited" ELSE "getRW"
  /\ UNCHANGED <<conn, open, nconn, excState, created, echo, rrw, rresp, in, serverVars>>
  /\ ReaderUnchanged

(* Mutant: a nil rw is taken for Close.                                    *)
GetRWNilIsClose ==
  /\ rpc = "getRW"
  /\ rrw' = conn
  /\ rpc' = IF conn = 0 THEN "exited" ELSE "read"
  /\ UNCHANGED <<conn, open, nconn, excState, created, echo, rresp, in, serverVars>>
  /\ ReaderUnchanged

(* readPacket's snapshot of rw; nil makes it return ErrLostConn.           *)
GetRW ==
  /\ rpc = "getRW"
  /\ rrw' = conn
  /\ rpc' = IF conn = 0 THEN "redial" ELSE "read"
  /\ UNCHANGED <<conn, open, nconn, excState, created, echo, rresp, in, serverVars>>
  /\ ReaderUnchanged

(* One whole packet.  The bufio.Reader may still hold packets of a socket  *)
(* that has been closed, so they can be read after the close too.  A body  *)
(* decodeResponse rejects is reported and skipped.                         *)
ReadPacket ==
  /\ rpc = "read" /\ wire # << >>
  /\ wire' = Tail(wire)
  /\ rrw' = 0
  /\ \/ /\ Head(wire).type = "malformed"
        /\ rpc' = "loop"
        /\ UNCHANGED rresp
     \/ /\ Head(wire).type # "malformed"
        /\ rresp' = Head(wire)
        /\ rpc' = "send"
  /\ UNCHANGED <<conn, open, nconn, excState, created, echo, in, reqs, jobs,
                 dropped, acked>>
  /\ ReaderUnchanged

(* A read error: the socket was closed on either side.  A header with the  *)
(* wrong magic or an oversized length ends the connection the same way.    *)
ReadError ==
  /\ rpc = "read"
  /\ rrw \notin open \/ dropped
  /\ rrw' = 0
  /\ rpc' = "redial"
  /\ closeConn
  /\ UNCHANGED <<nconn, excState, rresp, in, serverVars>>
  /\ ReaderUnchanged

(* Mutant: the queue grows past its capacity.                              *)
SendUnbounded ==
  /\ rpc = "send"
  /\ in' = Append(in, rresp)
  /\ rresp' = NoPacket
  /\ rpc' = "loop"
  /\ UNCHANGED <<conn, open, nconn, excState, created, echo, rrw, serverVars>>
  /\ ReaderUnchanged

(* client.in <- resp.                                                      *)
Send ==
  /\ rpc = "send" /\ Len(in) < QueueSize
  /\ in' = Append(in, rresp)
  /\ rresp' = NoPacket
  /\ rpc' = "loop"
  /\ UNCHANGED <<conn, open, nconn, excState, created, echo, rrw, serverVars>>
  /\ ReaderUnchanged

(* After an error, and again at the top of connect: isClosed.              *)
RedialTest ==
  /\ rpc = "redial"
  /\ rpc' = IF closed THEN "exited" ELSE "dial"
  /\ UNCHANGED <<conn, open, nconn, excState, created, echo, rrw, rresp, in, serverVars>>
  /\ ReaderUnchanged

(* connect up to setConn: dial, write the OPTION_REQ on the unpublished    *)
(* connection and mark the option pending.                                 *)
Dial ==
  /\ rpc = "dial" /\ nconn < MaxConn
  /\ nconn' = nconn + 1
  /\ open' = open \cup {nconn + 1}
  /\ reqs' = IF WantExceptions THEN <<OptionReq>> ELSE << >>
  /\ wire' = << >> /\ jobs' = {} /\ dropped' = FALSE /\ acked' = FALSE
  /\ excState' = IF WantExceptions THEN "pending" ELSE excState
  /\ rpc' = "setConn"
  /\ UNCHANGED <<conn, created, echo, rrw, rresp, in>>
  /\ ReaderUnchanged

(* The dial, or the OPTION_REQ on it, fails: connect closes the socket if  *)
(* there is one, and readLoop gives up.                                    *)
DialFails ==
  /\ rpc = "dial"
  /\ rpc' = "failed"
  /\ UNCHANGED <<conn, open, nconn, excState, created, echo, rrw, rresp, in, serverVars>>
  /\ ReaderUnchanged

(* Mutant: a refused connection is forgotten, not closed.                  *)
SetConnLeaks ==
  /\ rpc = "setConn"
  /\ \/ closed /\ rpc' = "exited" /\ UNCHANGED conn
     \/ ~closed /\ conn' = nconn /\ rpc' = IF WantExceptions THEN "marker" ELSE "loop"
  /\ UNCHANGED <<open, nconn, excState, created, echo, rrw, rresp, in, serverVars>>
  /\ ReaderUnchanged

(* Mutant: publish without looking at closed.                              *)
SetConnUnchecked ==
  /\ rpc = "setConn"
  /\ conn' = nconn
  /\ rpc' = IF WantExceptions THEN "marker" ELSE "loop"
  /\ UNCHANGED <<open, nconn, excState, created, echo, rrw, rresp, in, serverVars>>
  /\ ReaderUnchanged

(* setConn publishes the pair, unless Close came first.                    *)
SetConn ==
  /\ rpc = "setConn"
  /\ \/ /\ closed
        /\ open' = open \ {nconn}
        /\ rpc' = "exited"
        /\ UNCHANGED conn
     \/ /\ ~closed
        /\ conn' = nconn
        /\ rpc' = IF WantExceptions THEN "marker" ELSE "loop"
        /\ UNCHANGED open
  /\ UNCHANGED <<nconn, excState, created, echo, rrw, rresp, in, serverVars>>
  /\ ReaderUnchanged

(* client.in <- dtOptionSent.                                              *)
SendMarker ==
  /\ rpc = "marker" /\ Len(in) < QueueSize
  /\ in' = Append(in, Marker(nconn))
  /\ rpc' = "loop"
  /\ UNCHANGED <<conn, open, nconn, excState, created, echo, rrw, rresp, serverVars>>
  /\ ReaderUnchanged

readLoop ==
  \/ LoopTest \/ GetRW \/ ReadPacket \/ ReadError \/ Send
  \/ RedialTest \/ Dial \/ DialFails \/ SetConn \/ SendMarker

-----------------------------------------------------------------------------
(* processLoop.  Receiving a response and looking up its handler are one   *)
(* step: in between the loop only touches its own variables, and a         *)
(* response it holds is one more place in client.in.                       *)

ProcessUnchanged ==
  UNCHANGED <<connVars, callerVars, readerVars, serverVars>>

(* The marker connect pushes.                                              *)
ProcessMarker ==
  /\ ppc = "recv" /\ in # << >> /\ Head(in).type = "option_sent"
  /\ in' = Tail(in)
  /\ optionPending' = TRUE
  /\ lastMarker' = Head(in).conn
  /\ UNCHANGED <<excState, slotVars, cres, ppc, presp, ph, rhandlers, crossed>>
  /\ ProcessUnchanged

(* Mutant: any reply but an ERROR passes for an acknowledgement.           *)
SettleOptionLenient(r) ==
  /\ optionPending' = FALSE
  /\ excState' = IF ~optionPending THEN excState
                 ELSE IF r.type = "error" THEN "refused" ELSE "on"

(* The first packet after a marker settles the option; one that answers    *)
(* the OPTION_REQ goes no further.                                         *)
SettleOption(r) ==
  /\ optionPending' = FALSE
  /\ excState' = IF ~optionPending THEN excState
                 ELSE IF r.type = "option_res" THEN "on" ELSE "refused"

(* Packets no handler waits for: the answer to the OPTION_REQ, a repeated  *)
(* OPTION_RES, an ERROR (which goes to the ErrorHandler).                  *)
ProcessOther ==
  /\ ppc = "recv" /\ in # << >> /\ Head(in).type \in {"option_res", "error"}
  /\ in' = Tail(in)
  /\ SettleOption(Head(in))
  /\ UNCHANGED <<slotVars, ppc, presp, ph, rhandlers, lastMarker, crossed>>
  /\ ProcessUnchanged

(* The handler taken for a reply.  Only what has been abandoned can have   *)
(* expired, and the clock may or may not have come that far.               *)
TakeHandler(r, now) ==
  \/ /\ r.type = "job_created"
     /\ ph' = SlotTaken(created, now)
     /\ created' = SlotTake(created, now)
     /\ UNCHANGED <<echo, status>>
  \/ /\ r.type = "echo_res"
     /\ ph' = SlotTaken(echo, now)
     /\ echo' = SlotTake(echo, now)
     /\ UNCHANGED <<created, status>>
  \/ /\ r.type = "status_res"
     /\ ph' = IF status[r.arg] = 0 THEN NoEntry ELSE LiveEntry(status[r.arg], FALSE)
     /\ status' = [status EXCEPT ![r.arg] = 0]
     /\ UNCHANGED <<created, echo>>

ProcessReply ==
  /\ ppc = "recv" /\ in # << >>
  /\ Head(in).type \in {"job_created", "echo_res", "status_res"}
  /\ in' = Tail(in)
  /\ SettleOption(Head(in))
  /\ \E now \in {0, 1} : TakeHandler(Head(in), now)
  /\ presp' = Head(in)
  /\ ppc' = IF ph'.internal THEN "deliver" ELSE "recv"
  /\ crossed' = (crossed \/ /\ ph'.internal
                            /\ Head(in).type # "status_res"
                            /\ \A c \in Callers : ~ (cid[c] = ph'.id /\ crw[c] = Head(in).conn))
  /\ UNCHANGED <<rhandlers, lastMarker>>
  /\ ProcessUnchanged

(* deliver: register the callback, then run the internal handler, which    *)
(* sends on the result channel of the call.  A call that has given up      *)
(* never reads that channel again.                                         *)
Deliver ==
  /\ ppc = "deliver"
  /\ rhandlers' = IF ph.external THEN [rhandlers EXCEPT ![presp.req] = ph.id] ELSE rhandlers
  /\ cres' = [c \in Callers |-> IF cid[c] = ph.id /\ pc[c] # "idle" THEN presp.req ELSE cres[c]]
  /\ ppc' = "recv" /\ presp' = NoPacket /\ ph' = NoEntry
  /\ UNCHANGED <<connVars, excState, slotVars, mutex, ncalls, pc, cid, ckind, carg, crw,
                 readerVars, in, optionPending, lastMarker, crossed, serverVars>>

(* WORK_*: run the callback of the job, if there is one.                   *)
ProcessWork ==
  /\ ppc = "recv" /\ in # << >> /\ Head(in).type \in {"work_data", "work_done"}
  /\ in' = Tail(in)
  /\ SettleOption(Head(in))
  /\ LET cb == rhandlers[Head(in).req] IN
       \/ /\ cb # 0
          /\ ppc' = "callback" /\ presp' = Head(in) /\ ph' = LiveEntry(cb, TRUE)
       \/ /\ cb = 0
          /\ UNCHANGED <<ppc, presp, ph>>
  /\ UNCHANGED <<slotVars, rhandlers, lastMarker, crossed>>
  /\ ProcessUnchanged

(* The callback returns; a terminal packet ends the job.                   *)
CallbackReturns ==
  /\ ppc = "callback"
  /\ rhandlers' = IF presp.type = "work_done" THEN [rhandlers EXCEPT ![presp.req] = 0]
                  ELSE rhandlers
  /\ ppc' = "recv" /\ presp' = NoPacket /\ ph' = NoEntry
  /\ UNCHANGED <<excState, slotVars, in, optionPending, lastMarker, crossed>>
  /\ ProcessUnchanged

(* client.in is closed and drained.                                        *)
ProcessExit ==
  /\ ppc = "recv" /\ in = << >> /\ rpc \in {"exited", "failed"}
  /\ ppc' = "exited"
  /\ UNCHANGED <<excState, slotVars, in, presp, ph, rhandlers, optionPending,
                 lastMarker, crossed>>
  /\ ProcessUnchanged

processLoop ==
  \/ ProcessMarker \/ ProcessOther \/ ProcessReply \/ Deliver
  \/ ProcessWork \/ CallbackReturns \/ ProcessExit

-----------------------------------------------------------------------------
(* The job server (external): it takes the requests of a connection in     *)
(* order and answers each one with its reply, with an ERROR, with a packet *)
(* the client cannot decode, or not at all; it reports on the foreground   *)
(* jobs it has accepted; and it may drop the connection.  What it does     *)
(* once this side has closed the socket is never seen.                     *)

ServerUnchanged ==
  UNCHANGED <<connVars, excState, slotVars, callerVars, readerVars, in, procVars>>

Serving == nconn \in open /\ ~dropped

FromServer(t, id, arg) == [type |-> t, conn |-> nconn, req |-> id, arg |-> arg]

Reply(k) ==
  CASE k = "option" -> "option_res"
    [] k = "echo"   -> "echo_res"
    [] k = "status" -> "status_res"
    [] OTHER        -> "job_created"

Answer ==
  /\ Serving /\ reqs # << >> /\ Len(wire) < MaxWire
  /\ reqs' = Tail(reqs)
  /\ LET q == Head(reqs) IN
     \E t \in {Reply(q.kind), "error", "malformed"} :
       /\ wire' = Append(wire, FromServer(t, q.id, q.arg))
       /\ jobs' = IF t = "job_created" /\ q.kind = "do" THEN jobs \cup {q.id} ELSE jobs
       /\ acked' = (acked \/ t = "option_res")
  /\ UNCHANGED dropped
  /\ ServerUnchanged

Ignore ==
  /\ Serving /\ reqs # << >>
  /\ reqs' = Tail(reqs)
  /\ UNCHANGED <<wire, jobs, acked, dropped>>
  /\ ServerUnchanged

Report(j, t) ==
  /\ Serving /\ j \in jobs /\ Len(wire) < MaxWire
  /\ wire' = Append(wire, FromServer(t, j, NoHandle))
  /\ jobs' = IF t = "work_done" THEN jobs \ {j} ELSE jobs
  /\ UNCHANGED <<reqs, acked, dropped>>
  /\ ServerUnchanged

Drop ==
  /\ Serving
  /\ dropped' = TRUE
  /\ UNCHANGED <<reqs, wire, jobs, acked>>
  /\ ServerUnchanged

Server ==
  \/ Answer \/ Ignore \/ Drop
  \/ \E j \in Calls, t \in {"work_data", "work_done"} : Report(j, t)

-----------------------------------------------------------------------------
Next ==
  \/ \E c \in Callers : Caller(c)
  \/ SetClosed \/ FinishClose
  \/ readLoop \/ processLoop \/ Server

Spec == Init /\ [][Next]_vars

(* A caller in a write that returns only when the server reads, or when    *)
(* somebody closes the socket.                                             *)
BlockedWrite(c) == pc[c] = "writeTo" /\ crw[c] \in open /\ ~dropped

(* Fairness of the callers: a goroutine that can run does, which one in a  *)
(* blocked write cannot; the response timer fires; sync.Mutex, which hands *)
(* over to the longest waiter once that one has waited a millisecond,      *)
(* starves nobody.                                                         *)
CallerFairness ==
  \A c \in Callers :
    /\ SF_vars(Lock(c))
    /\ WF_vars(SetHandler(c) \/ Write(c) \/ (WriteTo(c) /\ ~BlockedWrite(c)) \/ Receive(c)
               \/ Timeout(c) \/ CloseConn(c))

(* Fairness of the client's own goroutines: they run when they can, a      *)
(* callback returns, and a Close that has begun is carried through.        *)
LoopFairness == WF_vars(readLoop) /\ WF_vars(processLoop) /\ WF_vars(FinishClose)

-----------------------------------------------------------------------------
Entry == [id : 0..MaxCalls, internal : BOOLEAN, external : BOOLEAN, expires : {0, 1}]

ConnTypes ==
  /\ conn \in 0..MaxConn /\ closing \in {"no", "flagged", "done"}
  /\ open \subseteq 1..MaxConn /\ nconn \in 1..MaxConn
  /\ excState \in {"pending", "on", "refused"}

SlotTypes ==
  /\ created \in Seq(Entry) /\ echo \in Seq(Entry)
  /\ status \in [StatusHandles -> 0..MaxCalls]

CallerTypes ==
  /\ mutex \in Callers \cup {NoCaller} /\ ncalls \in 0..MaxCalls
  /\ pc \in [Callers -> {"idle", "lock", "set", "write", "writeTo", "wait", "close"}]
  /\ cid \in [Callers -> 0..MaxCalls]
  /\ ckind \in [Callers -> Kinds \cup {"none"}]
  /\ carg \in [Callers -> Args]
  /\ crw \in [Callers -> 0..MaxConn] /\ cres \in [Callers -> 0..MaxCalls]

CallTypes ==
  \A c \in Callers : pc[c] # "idle" =>
    /\ cid[c] \in Calls /\ ckind[c] \in Kinds
    /\ ckind[c] = "status" => carg[c] \in StatusHandles
    /\ ckind[c] # "status" => carg[c] = NoHandle

ReaderTypes ==
  /\ rpc \in {"loop", "getRW", "read", "send", "redial", "dial", "setConn", "marker", "exited",
              "failed"}
  /\ rrw \in 0..MaxConn /\ rresp \in Packet
  /\ in \in Seq(Packet) /\ Len(in) <= QueueSize

ProcTypes ==
  /\ ppc \in {"recv", "deliver", "callback", "exited"}
  /\ presp \in Packet /\ ph \in Entry
  /\ rhandlers \in [Calls -> 0..MaxCalls] /\ optionPending \in BOOLEAN
  /\ lastMarker \in 0..MaxConn /\ crossed \in BOOLEAN

ServerTypes ==
  /\ reqs \in Seq(Request) /\ wire \in Seq(Packet)
  /\ jobs \subseteq Calls /\ dropped \in BOOLEAN /\ acked \in BOOLEAN

(* The state has its types.                                                *)
TypeOK ==
  /\ ConnTypes /\ SlotTypes /\ CallerTypes /\ CallTypes
  /\ ReaderTypes /\ ProcTypes /\ ServerTypes

(* A handler is queued only for the call in progress, and only one: a call *)
(* leaves none behind, however it ends and whatever closeConn, a redial or *)
(* processLoop did to the queues meanwhile.  handler_slot.go bounds its    *)
(* queue against leftovers; within one Client there never are any.         *)
OnlyHolderQueued ==
  /\ \A q \in {created, echo} :
       /\ Len(q) <= 1
       /\ Len(q) = 1 => mutex # NoCaller /\ q[1].id = cid[mutex]
  /\ created = << >> \/ echo = << >>
  /\ \A h \in StatusHandles :
       status[h] # 0 => mutex # NoCaller /\ status[h] = cid[mutex]

NothingQueued == created = << >> /\ echo = << >> /\ \A h \in StatusHandles : status[h] = 0

(* client.Mutex is held from the set of a handler to the return, and calls *)
(* in progress have numbers of their own.                                  *)
HolderInv ==
  /\ \A c \in Callers : mutex = c <=> pc[c] \notin {"idle", "lock"}
  /\ \A c \in Callers : cid[c] <= ncalls /\ (cid[c] = 0 <=> pc[c] = "idle")
  /\ \A c, d \in Callers : cid[c] = cid[d] /\ cid[c] # 0 => c = d

(* What is queued is queued by the holder, where its kind of request goes. *)
QueueInv ==
  /\ \A q \in {created, echo} :
       /\ Len(q) <= 1
       /\ q # << >> => mutex # NoCaller /\ q[1].id = cid[mutex] /\ pc[mutex] # "set"
  /\ created # << >> => ckind[mutex] \in {"do", "bg"}
  /\ echo # << >> => ckind[mutex] = "echo"
  /\ \A h \in StatusHandles : status[h] # 0 =>
       /\ mutex # NoCaller /\ status[h] = cid[mutex] /\ pc[mutex] # "set"
       /\ ckind[mutex] = "status" /\ carg[mutex] = h

(* Past write's snapshot, losing the connection means losing the entry; a  *)
(* reply that has been taken, or delivered, was the only thing queued.     *)
SpentInv ==
  /\ \A c \in Callers : pc[c] \in {"writeTo", "wait", "close"} /\ conn = 0 =>
       created = << >> /\ echo = << >>
  /\ \A c \in Callers : pc[c] = "close" => ckind[c] # "status"
  /\ \A c \in Callers : cres[c] # 0 => pc[c] \notin {"idle", "lock", "set"} /\ NothingQueued
  /\ ppc = "deliver" =>
       /\ ph.id \in 1..ncalls
       /\ \A c \in Callers : cid[c] = ph.id => pc[c] \notin {"lock", "set"} /\ NothingQueued

(* The three together explain why a call leaves nothing behind: they are   *)
(* kept by every single step, which OnlyHolderQueued alone is not.         *)
HandlerInv == HolderInv /\ QueueInv /\ SpentInv

(* What reaches the result channel of Do, DoBg or Echo answers that very   *)
(* request, and a job's callback is the one its submitter passed, as long  *)
(* as no reply has been matched with a handler of a later connection.      *)
OwnReply ==
  ~crossed =>
    /\ \A c \in Callers : ckind[c] # "status" => cres[c] \in {0, cid[c]}
    /\ \A j \in Calls : rhandlers[j] \in {0, j}

(* Every socket the client has open is the current one or the one connect  *)
(* is about to publish: no redial, timeout or Close forgets to close one.  *)
NoSocketLeak == open \subseteq ({conn} \cup IF rpc = "setConn" THEN {nconn} ELSE {})

(* Once Close has returned the client has no connection and gets none: a   *)
(* dial that was in flight cannot resurrect it.                            *)
ClosedIsFinal == closing = "done" => conn = 0

(* The internal handler never blocks processLoop: when it is about to send *)
(* its result, the buffered result channel is empty.                       *)
DeliverNeverBlocks ==
  ppc = "deliver" => \A c \in Callers : cid[c] = ph.id => cres[c] = 0

(* Once the first packet after the marker of the latest connection has     *)
(* been processed, ExceptionsEnabled tells whether the server acknowledged *)
(* the option on that connection.                                          *)
ExceptionsSettled ==
  WantExceptions /\ lastMarker = nconn /\ ~optionPending
    => (excState = "on" <=> acked)

(* With fair callers and a timer that fires, every call returns, whatever  *)
(* answers the server, readLoop and processLoop fail to give, unless some  *)
(* call stays blocked in its write for good: that one holds client.Mutex.  *)
CallsReturn ==
  CallerFairness =>
    \/ \E c \in Callers : <>[]BlockedWrite(c)
    \/ \A c \in Callers : []<>(pc[c] = "idle")

(* Close: not on client.Mutex, since "locking here would make Close wait   *)
(* out an in-flight request instead of cutting it short".  Once the client *)
(* is closed every call returns, one in a blocked write and those behind   *)
(* it included, whatever the server and the loops do or fail to do.        *)
CloseEndsCalls ==
  CallerFairness /\ WF_vars(FinishClose) =>
    \A c \in Callers : []<>(closed => pc[c] = "idle")

(* After Close both goroutines end, also when they are blocked in a read,  *)
(* on a full client.in or in the middle of a redial.                       *)
LoopsExit ==
  LoopFairness => []<>(closed => rpc \in {"exited", "failed"} /\ ppc = "exited")

(* A connection lost to an error or to a caller's timeout is replaced,     *)
(* unless the client is closed or a dial fails.                            *)
Redials == LoopFairness => []<>(conn # 0 \/ closed \/ rpc = "failed")

-----------------------------------------------------------------------------
(* The abstract specification of the calls.  An answer would reach a call  *)
(* whose handler is in a slot or in the status map, or in processLoop's    *)
(* hands while the call is in progress.                                    *)

Live(q) == {q[i].id : i \in {i \in 1..Len(q) : q[i].internal}}

Waiting ==
  Live(created) \cup Live(echo) \cup ({status[h] : h \in StatusHandles} \ {0})
    \cup (IF ppc = "deliver" THEN {ph.id} \cap {cid[c] : c \in Callers} ELSE {})

RR == INSTANCE RequestReply WITH
        call <- cid, turn <- mutex,
        asked <- \E c \in Callers : pc[c] \notin {"idle", "lock", "set"},
        waiting <- Waiting,
        answered <- {cid[c] : c \in {c \in Callers : cres[c] # 0}}

(* do, Status and Echo, with their timeouts, the two handler queues, the   *)
(* status map, processLoop and a connection that closeConn may take away   *)
(* at any moment, implement calls that are served one at a time, answered  *)
(* at most once and forgotten when they return.                            *)
ImplementsRequestReply == RR!Spec

-----------------------------------------------------------------------------
(* Stated by the repository, and not so; see the README.                   *)

(* handler_slot_test.go says of an Echo issued after a timeout and the     *)
(* redial: "It must get its own data back, never a reply meant for the     *)
(* first, abandoned call."  What Do, DoBg or Echo is about to return       *)
(* answers that call.                                                      *)
ReplyIsOwn ==
  \A c \in Callers :
    pc[c] = "wait" /\ ckind[c] # "status" => cres[c] \in {0, cid[c]}
=============================================================================

# A TLA+ model of gearman-go

gearman-go is a Gearman client and worker library in Go. What makes it hard is
concurrency: calls, two loops, a timer and `Close` share a client's connection;
a main loop, job goroutines, per-server read loops, reconnects and `Close` share
a worker's. The modules here model both halves down to the bytes they exchange,
TLC checks them on small instances, and TLAPS proves their safety properties for
every instance.

## The system

| Part | State | Operations | What is hard |
|---|---|---|---|
| `client/client.go` | conn/rw, closed (connMu); client.Mutex; client.in; exceptionsState; rhandlers | Do, DoBg, Status, Echo, Close; readLoop, processLoop, connect | replies without ids; timeouts against late replies; redial while calls are in flight; Close against a dial |
| `client/handler_slot.go`, `status_handlers.go` | two FIFO queues, a map | set, take, cancel, abandon, reset | an entry left behind shifts every later reply |
| `client/pool.go` | Clients, last, rates, errorHandler | Add, Remove, Close, SetErrorHandler, Do, ... | Add dials and configures outside the lock |
| `client/request.go`, `response.go`; `worker/inpack.go`, `outpack.go` | encodeBufPool | encode, decode | field splitting, reused buffers, length limits |
| `client/id.go` | one counter | Id | none within a process |
| `worker/worker.go` | funcs, running, ready, closed; worker.in; limit; quit | AddFunc, RemoveFunc, Reset, Ready, Work, Close; handleInPack, exec | the limit channel; shutdown with everyone parked; registration against reconnects |
| `worker/agent.go` | conn, rw, epoch per server; two locks | Connect, work, reconnect, redial, Close, Grab, PreSleep, read, write | superseded loops; two readers on one connection; lock order |
| `example/`, `gearman.go` | none | sample programs | not modelled |

The client half is correct if every call ends (while its server reads, or at the latest
with Close), gets its own answer and leaves nothing behind; if sockets are neither leaked nor resurrected; and if the
exceptions option reflects the current connection. The worker half is correct if
the limit bounds the exec goroutines, every assigned job is executed and the grab/sleep conversation
never stalls; if each server knows every function and no other; if each connection
has one reader; and if nobody waits in a circle. `PROJECT.json` lists the hazards
line by line.

## Modules

**HandlerSlot** — the five methods of `handlerSlot` as functions of the queue. An
entry is named after the call that queued it, which stands for its two closures.

**Client** (`client.go`) — a step is a critical section of connMu or of a queue, a
channel operation, or one socket operation. client.Mutex is the variable `mutex`.
`pc[c]` walks a caller through `Call`, `Lock`, `SetHandler`, `Write` (rw snapshot),
`WriteTo`, and `Receive` or `Timeout` and `CloseConn`: these are do, Status and Echo,
which differ in the queue they use and in what a timeout does. A write has no deadline,
and the timer is armed only after it: while the server does not read, `WriteTo` need not
happen, and the call keeps client.Mutex (BlockedWrite). `rpc` walks readLoop
through `LoopTest`, `GetRW`, `ReadPacket` or `ReadError`, `Send`, and
`RedialTest`, `Dial`, `SetConn`, `SendMarker`; `ppc` is processLoop. `SetClosed` and
`FinishClose` are the two critical sections of Close. The job server is the
environment: it answers a request in order with the reply, an ERROR or a packet
decodeResponse rejects, or not at all, reports on jobs, and drops connections.
Three history variables (`crossed`, `acked`, `lastMarker`) only serve properties.
Time is abstract: a timer may fire whenever it is armed, and an abandoned entry may
or may not have expired when a reply is taken.

**RequestReply** — what Client promises its callers, without connections, queues,
loops or server: a call waits for its turn, is answered at most once and only during
its turn, and leaves nothing behind. Client implements it under the mapping at the
end of `Client.tla`: the turn is client.Mutex, a call waits while a queue, the status
map or processLoop holds its live entry, and it is answered once its result channel is
filled. Abandoned entries map to nothing, which is the claim: an entry that has been
given up can absorb a late reply but never answer anyone.

**Pool** (`pool.go`) — what is done under one hold of pool.mutex is one step. Add is
`AddLook`, `AddDial`, `AddConfigure` and `AddInsert`; the one hold that spans a call
into a client (`AddCloseDuplicate`) keeps `mutex` set. The iteration order of the map
and rand.Intn are chosen freely.

**Packets** — every encoder and decoder as an operator over byte sequences.
`encodeInto` is defined index by index, so that a byte it does not write keeps what the
reused buffer held. **Framing** puts them on a connection: messages are encoded, the
server relays them, bytes arrive one at a time, the connection ends anywhere, and
`readPacket` and `agent.read` (the same algorithm) take header and body.

**Dispatch** (`worker.go` from Work on, and the forwarding half of `agent.work`) —
`wpc` is Work, with one action per case of handleInPack; `ex[j]` is the exec
goroutine of job j; `tokens` is the content of the limit channel, whose capacity is
limit - 1, so that with limit 1 the send and the receive are one step
(`LimitHandoff`). A function that misses its timeout is in `overrun` until it returns,
if it does; exec answers and frees its place in limit without it. UnknownJobs are the
jobs whose function may have been removed when exec looks it up. Connections fail (`Lose`), the work loop reports it, and the error
handler calls Reconnect until it succeeds; reconnect grabs and starts a new loop
while Work may still hold packets of the old connection.

**Registration** (`agent.go`, and AddFunc, RemoveFunc, Reset, Ready, Close of
`worker.go`) — one server; `able` is what it has been told on the published
connection. Every work loop is named after the connection it was started for and
carries the epoch and rw it holds. A failed read takes the disconnect branch (the
error handler may call Reconnect, at once or later) or the redial branch. Ready may fail
before or after this agent has connected, since it stops at the first agent that cannot
be reached, and be called again: Connect then finds a connection and keeps it. While
Connect dials it holds the agent's Mutex, so nobody writes (`Unlocked`).

**WorkerLocks** — the same operations seen as sequences of lock, unlock, dial, publish
and write steps, each method containing those it calls. worker.Mutex and the agent's
Mutex have holders; connMu has readers and a writer that, once announced, keeps new
readers out. A server may stop reading, which blocks a write until the socket is
closed.

**MCClient, MCDispatch, MCRegistration, MCPool** add the symmetry sets for TLC, and
**MCFraming** the byte strings. A definition under a comment that begins with "Mutant"
is a deliberately broken variant of the definition that follows it; no specification
uses it.

## Runs

| Run | Checks | Shows |
|---|---|---|
| client_calls | TypeOK, OwnReply, NoSocketLeak, ClosedIsFinal, DeliverNeverBlocks, ExceptionsSettled | Do and Echo from two goroutines, with the option handshake, drops, timeouts, a redial and Close anywhere |
| client_live | OnlyHolderQueued, HandlerInv, ImplementsRequestReply, CallsReturn, CloseEndsCalls, LoopsExit, Redials | DoBg and Status; no handler is left behind (for Do and Echo see the proofs); the refinement; every call returns by its timer alone unless a write is blocked for good, and after Close even then; both goroutines end after Close; a lost connection is replaced |
| dispatch_limit | TypeOK, LimitRespected, TimedJobsAnswered, JobsExecuted, WorkEnds | limit 2, three jobs: timed, plain, possibly unknown; at most two exec goroutines, more functions only past their timeout; queued jobs are executed across a lost connection, Work returns after Close |
| dispatch_servers | OneConversation | two servers, limit 1, lost connections |
| registration | TypeOK, NeverNeither, NoStaleAbility, OneReader, ConnectsOnce | every order of registration, Ready and its retries, reconnect, redial and Close |
| worker_locks | NoCircularWait, WritesSerialized, AllReturn, CloseReturns | a work loop in trouble and two goroutines in any two operations |
| pool | TypeOK, NoClientLeak, PooledOpen, HandlerReaches, SelectionReference, OpsReturn | two goroutines, two addresses, two dials |
| framing | TypeOK, DecodedAsSent, NoStall, AllocationBounded | all pairs of packets, all cuts, all ends |
| client_crossed, registration_ready, registration_close, pool_lock | one statement of the repository each | a counterexample, see below |

**Bounds.** Two callers and two calls are what it takes for one call to meet what
another left behind, and two connections for a packet of an old one to meet a
handler of a new one. QueueSize 1 makes client.in and worker.in full as soon as one
packet waits; one packet on the wire plus one in readLoop's hand plus one in
client.in gives three in flight. Three jobs against limit 2 fill the channel and
make Work wait for a place in it; MaxEvents bounds jobs plus twice the losses, so that
a loss meets up to two jobs. Three connections let a redial and a reconnect overlap.
Three goroutines suffice for a circle through the three locks of one agent, one of
them always the agent's own loop; each runs one operation. Two dials of a pool give a
winner and a duplicate. Two packets show what one leaves in the buffer, or in the
stream, for the next; the buffer sizes and the limit are scaled so that packets lie on
both sides of each, and lengths are 5-bit words with the limit below half of the range.
Callers, agents, functions, goroutines and addresses are symmetric sets in the runs
that check safety only. The pool run checks for deadlock. The others do not: with the
bounds used up, or the client or worker closed, the system is meant to stop, and
blocking is asked about by their liveness properties.

**Fairness.** CallerFairness: a caller that can step does, its timer fires, and
client.Mutex is strongly fair because Go's mutex hands over to a waiter that has
starved for a millisecond. Nothing is assumed of the loops or the server there; in
particular a write to a server that does not read need not end, which is the one case
CallsReturn leaves out and CloseEndsCalls is about.
LoopFairness: the two loops run and job callbacks return, and a Close that has
begun finishes. Each is the antecedent of the properties it is needed for, so that one
run checks them all. Dispatch's FairSpec: goroutines run, job functions return or time
out (a function past its timeout need not return), the servers read and answer, and a redialled server is reached in the end. Pool's: a call
that has begun goes on, the calls into clients return. WorkerLocks': a goroutine that
can run does; nothing is assumed of a server that does not read. Callers start calls,
servers drop connections and someone calls Close by choice only.

## Where the code and its documents disagree

- **client_crossed** — closeConn empties the handler queues, but a response of the
  old connection may already be in client.in or with readLoop. Processed after the
  redial and after the next Echo has queued its handler, it becomes that Echo's
  result (likewise Do's handle). `client/handler_slot_test.go:162` says that this
  never happens. OwnReply is what remains true: without such a crossing, replies
  and callbacks are never mixed up.
- **registration_ready** — a function added between Ready's snapshot and
  `running = true` is announced to no one (`worker/worker.go:203`).
- **registration_close** — the agent's redial publishes its new connection without a
  look at closed, so Close can be followed by a live one (`worker/worker.go:294`).
- **pool_lock** — the Add that loses a race for an address closes its duplicate before
  its deferred Unlock, under the lock `client/pool.go:66` says is never held across a
  call into a client. OpsReturn shows that nothing worse than waiting comes of it.

Smaller ones, which the properties above carve out or state:

- processLoop may store exceptionsOn for the old connection's OPTION_RES after connect
  has stored exceptionsPending for the new one (`client/client.go:119-126`);
  ExceptionsSettled: the first packet after the new connection's marker corrects it.
- Reset tells the servers first and clears funcs second, reconnect or Ready may write a
  CAN_DO after the CANT_DO that outdated it, and a removal before Work runs sends none
  (`worker/worker.go:325`); `late` in NoStaleAbility records exactly these functions,
  and no other stays announced.
- SelectWithRate's draw never decides (SelectionReference): with rates that are not
  negative, the first server of the iteration with a positive rate is taken
  (`client/pool.go:26` says proportional to the rate).
- A client that SetErrorHandler missed is reached by the next SetErrorHandler, not by
  the next Add (`client/pool.go:88-90`); `missed` in HandlerReaches.
- A client's write has no deadline and ResponseTimeout is armed only after it
  (`client/client.go:513`). If the server has stopped reading, the call holds
  client.Mutex, and every other call waits, until the connection breaks or Close closes
  the socket; CallsReturn excludes this case and no other.
- AddFunc and RemoveFunc hold worker.Mutex over their write. If the server has stopped
  reading, Close waits behind them for a lock, and the socket it would close is the
  one they wait for; CloseReturns excludes this case and no other.

## Proofs

Every safety invariant that a passing run checks and the refinement of RequestReply are
also theorems: for every set of callers, goroutines, servers, addresses, functions, jobs,
handles and payloads, and all bounds. `PROJECT.json` names the theorem of each property.
The proofs use the named assumptions of the modules and nothing else: numbers are
numbers, Jobs is finite, kinds are kinds of call, and the values that stand for "nobody"
or "none" are no caller, handle, goroutine or address; of what is sent they assume what
the protocol does (see FramingProofs). Inductive invariants that no run checks are
defined in the proof modules.

- **ClientProofs** — `TypeCorrect`: TypeOK is a conjunction of seven groups; each
  goroutine has a lemma for the groups it changes, TypeFrame covers the rest.
  `CloseFinal`, since setConn tests closed where it publishes. `EverySocketKnown`, with
  the strengthening that conn is nil whenever readLoop is between closeConn and setConn.
  `HandlerCorrect`, and from it `NoHandlerLeftBehind` and `ResultChannelHasRoom`.
  OnlyHolderQueued is not inductive: when a caller returns, its entry has to be gone,
  and why it is gone depends on how the call ended. HandlerInv adds exactly that.
  HolderInv: the mutex holder is the one caller past Lock, and numbers of calls in
  progress differ. QueueInv: the only entry is the holder's, in the queue of its kind.
  SpentInv: after write's snapshot, no connection means empty queues (closeConn resets
  them in the critical section that clears conn); a reply taken or delivered was the
  only entry.
- **ClientReplyProofs** — `RepliesAreOwn`. A request under way is on its connection as
  a request, on the wire, in readLoop's hand or in client.in, in one of these places
  and once (OneAtATime). ReplyInv: whatever is under way on a connection was asked by
  the one call that has written to it and still waits, or that connection has gone. A
  call stops waiting for its reply only by closing the connection, so a reply which
  meets a handler on its own connection meets that of its request; the other case is
  the one that `crossed` records.
- **ClientInterfaceProofs** — `ExceptionsAreSettled`. MarkerInv: until connect has sent
  the marker there is none of this connection in client.in; afterwards it is there once,
  with only older packets before it, or has been passed. OptionInv: the OPTION_REQ is the
  first request of a connection, so that its answer is the first packet behind the
  marker, and while it waits no job report can overtake it.
  `RequestReplyImplemented` goes through the actions: Call issues, Lock enters,
  SetHandler asks, processLoop's delivery answers, a handler that is taken without an
  answer, cancelled or reset gives up, and the return leaves; every other step is a
  stutter. HandlerInv is what makes `waiting` the holder's call or nothing in each of
  them.
- **PoolProofs** — all four rest on OwnerInv: a client belongs to the Add that dialled
  it or to one address of the map, and what a Remove, a Close or a SetErrorHandler has
  snapshotted is nobody's fresh client. HandlerReaches also needs ReachInv, which says
  for every client that lacks the handler who is about to install it.
  `SelectionIsReference`: up to the first positive rate the total is zero, by induction
  over the iteration; there it is that rate, and every draw is below it.
- **RegistrationProofs** — ConnInv: a dialled connection belongs to the Connect or the
  loop that dialled it until one loop reads it, hence `LoopsReadTheirOwn`. EpochInv:
  the epoch is the number of connections published, which bounds it. ToldInv and
  StaleInv speak of what the server knows together with what is still to be written to
  it, which is how a step of Ready or reconnect leaves both properties true.
  `RetriesKeepTheConnection`: OnceInv says that while rw is nil there is no loop, hence
  nobody else who dials or publishes, and that once it is not, neither is conn, which is
  what Connect looks at, before Close has cleared it.
- **DispatchProofs** — JobInv: a job is in one place, the queue of one server, one
  packet or exec. Hence CountInv: there are as many places taken in worker.limit as
  exec goroutines, but for the one Work waits with; capacity limit - 1 then gives
  `LimitHolds`. A function that runs has its exec goroutine or is past its timeout. AnswerInv: a job with a timeout is answered, orphaned, or on its way.
  `ConversationKept`: Conversation is a sum of who may speak next, and each step moves
  one unit from one term to another. What a lost connection leaves over is paid for by
  losses; LostInv says that an agent without a connection is one whose loop or reconnect
  will deal with it.
- **FramingProofs** — the four invariants of Framing, for any payloads. First what one
  packet holds: `Recursion` shows that a recursive function is what its definition says
  (induction is by least counterexample, since induction over an operator is not
  available), so that ParseUint reads back what Itoa writes; `Fields` shows that the
  first separator is the one that was put in; `Encoded` that encodeInto leaves the packet
  at the front of the pooled array, whatever that held. Together: the accessors return
  what was sent, for each kind of message (`WorkerCarried`, `ServerDelivered`,
  `AssignedDelivered`). Then how a stream is cut: DecodedAsSent is not inductive, since
  it says nothing of bytes under way. IInv adds InStep: header taken, buffer, wire and
  what the connection broke off before are, in this order, the packets sent and not yet
  decoded. Each step moves bytes within that concatenation or takes one packet off its
  front. Assumed of what is sent: payloads are bytes, handles and names hold no NUL (the
  protocol's separator), a handle is not empty (encodeInto writes no separator after an
  empty one), and the length of a body fits the length field.
- **WorkerLocksProofs** — `LocksNeverCircular`. The operations are sequences, so the
  invariant is a typing of sequences: Rule says what each step needs held and leaves
  held, Takes(s, h, g) that s leads from h to g by these rules, whichever branches it
  skips. Takes is shown for every method from those of the methods it calls. LockInv:
  what a goroutine has left leads from what it holds to nothing, which also means that
  no path leaves a lock locked. The rules contain the order (worker.Mutex, then the
  agent's Mutex, then connMu, and nothing while reading connMu), and in a circle of
  waiting goroutines nobody could hold any of the three. They also let nobody write who
  does not hold the agent's Mutex, which has one holder: `OneWriterAtATime`.

Only model-checked is liveness: fairness and ENABLED are out of the proof system's
reach. The invariants of the expected violations are refuted, not proved.

## Not modelled

- id generation, error values and their messages, `AddServer` (an append before
  Ready), the examples: no state that two actors share.
- A late STATUS_RES may answer a later Status of the same job with an older status.
  Callbacks of jobs whose connection died stay in rhandlers; coalesced unique ids let
  one callback replace another; an unknown function or a panic without a timeout sends
  no WORK_FAIL; reconnect does not close the socket it replaces. The models allow or
  show these, the repository promises nothing about them, and they are listed as
  hazards with that note.
- The redial after a malformed header is in Registration and not in Dispatch: it sends no
  grab, so the conversation ends there, as the comment at `worker/agent.go:155` says.
- A second Ready after Work has begun is in WorkerLocks only.
- The pool run has one error handler, so calls of SetErrorHandler with different handlers
  (`overlapped`) are left to the proof of HandlerReaches.
- Range errors of strconv.ParseUint: numbers in Packets are short.
- A broadcast to several agents under worker.Mutex is one write in WorkerLocks; more
  agents add more locks of the same rank, taken one at a time.
- Client, server and worker in one state machine: the interfaces between the three are
  the packet types, which Framing checks byte by byte, and the server's order of
  answers, which Client and Dispatch each assume of their environment.

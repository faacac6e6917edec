----------------------------- MODULE HandlerSlot -----------------------------
(***************************************************************************)
(* client/handler_slot.go: the FIFO of handlers waiting for a reply of one *)
(* packet type.  The operators below are the five methods of handlerSlot,  *)
(* each of them one critical section of handlerSlot.mu, as functions of    *)
(* the queue.                                                              *)
(*                                                                         *)
(* An entry stands for a slotEntry.  Handlers are closures of the call     *)
(* that queued them, so an entry names that call by its id (the token set  *)
(* hands out; unique, as nextID makes it) and only says whether the        *)
(* internal and the external handler are non-nil.  expires is 0 for        *)
(* time.Time's zero value.                                                 *)
(***************************************************************************)
EXTENDS Integers, Sequences

CONSTANT HandlerSlotCap    \* handlerSlotCap, queueSize in the code

ASSUME HandlerSlotCapAssumption == HandlerSlotCap \in Nat \ {0}

(* The zero handledResponse: what take returns from an empty queue.        *)
NoEntry == [id |-> 0, internal |-> FALSE, external |-> FALSE, expires |-> 0]

LiveEntry(id, ext) ==
  [id |-> id, internal |-> TRUE, external |-> ext, expires |-> 0]

Expired(e, now) == ~e.internal /\ e.expires # 0 /\ now >= e.expires

(* set: evict the oldest entry on overflow, but only a spent one.          *)
SlotSet(q, id, ext) ==
  LET kept == IF Len(q) >= HandlerSlotCap /\ ~q[1].internal THEN Tail(q) ELSE q
  IN  Append(kept, LiveEntry(id, ext))

(* Where take stops giving up on entries: at the first that is live or not *)
(* yet expired.  Empty if there is none, and a singleton otherwise.        *)
FirstUnexpired(q, now) ==
  {i \in 1..Len(q) : ~Expired(q[i], now) /\ \A k \in 1..(i - 1) : Expired(q[k], now)}

(* take: the handler the reply is correlated with ...                      *)
SlotTaken(q, now) ==
  LET front == FirstUnexpired(q, now)
  IN  IF front = {} THEN NoEntry ELSE q[CHOOSE i \in front : TRUE]

(* Mutant: the matched entry stays at the front.                           *)
SlotTakeKeeps(q, now) ==
  LET front == FirstUnexpired(q, now)
  IN  IF front = {} THEN << >> ELSE SubSeq(q, CHOOSE i \in front : TRUE, Len(q))

(* ... and the queue it leaves behind.                                     *)
SlotTake(q, now) ==
  LET front == FirstUnexpired(q, now)
  IN  IF front = {} THEN << >> ELSE SubSeq(q, (CHOOSE i \in front : TRUE) + 1, Len(q))

Queued(q, id) == \E i \in 1..Len(q) : q[i].id = id

IndexOf(q, id) == CHOOSE i \in 1..Len(q) : q[i].id = id

(* cancel: remove exactly the entry id names.                              *)
SlotCancel(q, id) ==
  IF Queued(q, id)
  THEN SubSeq(q, 1, IndexOf(q, id) - 1) \o SubSeq(q, IndexOf(q, id) + 1, Len(q))
  ELSE q

(* abandon: mark the entry id names spent, but leave it queued.            *)
SlotAbandon(q, id, expires) ==
  IF Queued(q, id)
  THEN [q EXCEPT ![IndexOf(q, id)] = [NoEntry EXCEPT !.id = id, !.expires = expires]]
  ELSE q

(* reset: the connection the entries were written on is gone.              *)
SlotReset == << >>
=============================================================================

----------------------------- MODULE SlotQueue -----------------------------
(***************************************************************************)
(* wait_free_queue.hpp: a queue of fixed capacity whose elements stay in   *)
(* an array of slots.  Two FreeRTOS queues, external and each atomic by    *)
(* itself, hold the indices of the free and of the filled slots.  Between  *)
(* two operations on them the index of a slot is with the task that took   *)
(* it.  A producer claims a slot, stores into it and publishes it; the     *)
(* consumer takes the oldest filled one, moves the element out and gives   *)
(* the slot back.  Each is an operator of its own, because the other side  *)
(* may run in between.                                                     *)
(***************************************************************************)
EXTENDS Integers, Sequences, SequencesExt

CONSTANT Nothing   \* what an empty slot holds

(* A plausible mistake: a ring that keeps one slot empty. *)
NewQueueShort(cap) == [free   |-> [i \in 1..(cap - 1) |-> i],
                       filled |-> <<>>,
                       slots  |-> [i \in 1..(cap - 1) |-> Nothing]]

(* init(). *)
NewQueue(cap) == [free   |-> [i \in 1..cap |-> i],
                  filled |-> <<>>,
                  slots  |-> [i \in 1..cap |-> Nothing]]

(* try_push() fails where no slot is free, be it that one is being emptied. *)
CanClaim(q) == q.free # <<>>

Claimed(q)     == Head(q.free)

(* A plausible mistake: the index is looked at and not taken. *)
ClaimPeeked(q) == q

Claim(q)       == [q EXCEPT !.free = Tail(@)]
Store(q, i, x) == [q EXCEPT !.slots[i] = x]
Publish(q, i)  == [q EXCEPT !.filled = Append(@, i)]

CanTake(q) == q.filled # <<>>
Taken(q)   == Head(q.filled)

(* A plausible mistake: the slot is free before it is emptied. *)
TakeAndGive(q) == [q EXCEPT !.filled = Tail(@), !.free = Append(@, Head(q.filled))]

Take(q)        == [q EXCEPT !.filled = Tail(@)]

MoveOut(q, i)  == [q EXCEPT !.slots[i] = Nothing]
GiveBack(q, i) == [q EXCEPT !.free = Append(@, i)]

(* packet_allocator::init(): the free buffers are a FreeRTOS queue, too. *)
NewPool(buffers) == SetToSeq(buffers)

(* The elements in the order in which they were published. *)
Contents(q) == [k \in DOMAIN q.filled |-> q.slots[q.filled[k]]]

(* Every slot is free, filled or in the hands of one task, held, and in one *)
(* of these places only; what is free holds nothing, what is filled does.   *)
SlotsInOnePlace(q, held) ==
    LET all == q.free \o q.filled \o held
    IN /\ IsInjective(all) /\ Range(all) = DOMAIN q.slots
       /\ \A i \in Range(q.free) : q.slots[i] = Nothing
       /\ \A i \in Range(q.filled) : q.slots[i] # Nothing
=============================================================================

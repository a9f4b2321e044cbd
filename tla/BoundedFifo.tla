---------------------------- MODULE BoundedFifo ----------------------------
(***************************************************************************)
(* What a frame queue of the radio promises: elements leave in the order   *)
(* in which they entered, each once, and there are never more than fit.    *)
(***************************************************************************)
EXTENDS Integers, Sequences

CONSTANTS Elements, CAPACITY
VARIABLE fifo

Init == fifo = <<>>

Put(e) == Len(fifo) < CAPACITY /\ fifo' = Append(fifo, e)
Get    == fifo # <<>> /\ fifo' = Tail(fifo)

Next == Get \/ \E e \in Elements : Put(e)

Spec == Init /\ [][Next]_fifo
=============================================================================

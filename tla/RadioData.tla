----------------------------- MODULE RadioData -----------------------------
(***************************************************************************)
(* The data path of the radio in full mode, as main.cpp sets it up:        *)
(* RadioReceive and RadioInject side by side.  The two directions share    *)
(* nothing but counters, so a behaviour of this module exercises one of    *)
(* them, and the variables of the other stay as they were set up.          *)
(***************************************************************************)
EXTENDS RadioReceive, RadioInject

VARIABLE direction

vars == <<rxVars, txVars, direction>>

Init == RxInit /\ TxInit /\ direction \in {"receive", "inject"}

Receive == direction = "receive" /\ RxNext /\ UNCHANGED <<txVars, direction>>
Inject  == direction = "inject" /\ TxNext /\ UNCHANGED <<rxVars, direction>>

Next == Receive \/ Inject

Spec == Init /\ [][Next]_vars

-----------------------------------------------------------------------------
(* Slots and buffers of both queues and pools: none leaks, none is used  *)
(* twice (wait_free_queue.hpp try_push, pop; packet_allocator).          *)
InOnePlace == RxInOnePlace /\ TxInOnePlace

(* What is pushed is popped once and in the order in which the producers *)
(* published it, from the queue with one producer and the one with two.  *)
FifoSpecs == RxFifoSpec /\ TxFifoSpec
=============================================================================

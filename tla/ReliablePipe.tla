----------------------------- MODULE ReliablePipe -----------------------------
(***************************************************************************)
(* What the TCP-over-radio stream promises while a session lasts ("Reliable *)
(* byte pipe over radio UDP", src/src/manager/stream/tcp_stream.h): each    *)
(* end reads exactly what the other end wrote, in order, nothing missing    *)
(* and nothing twice.  The k-th thing an end writes is named k.            *)
(***************************************************************************)
EXTENDS Integers, Sequences

CONSTANT End      \* the two ends

VARIABLES
  written,  \* written[e]: how many segments the application at e wrote
  got       \* got[e]: what e has received from the other end, in order

vars == <<written, got>>

Init ==
  /\ written = [e \in End |-> 0]
  /\ got = [e \in End |-> <<>>]

Write(e) ==
  /\ written' = [written EXCEPT ![e] = @ + 1]
  /\ UNCHANGED got

\* e receives some of what the other end wrote and e does not have yet.
Deliver(e) ==
  /\ \E p \in End \ {e} : \E k \in Len(got[e]) + 1 .. written[p] :
       got' = [got EXCEPT ![e] = [i \in 1 .. k |-> i]]
  /\ UNCHANGED written

Next == \E e \in End : Write(e) \/ Deliver(e)

Spec == Init /\ [][Next]_vars
=============================================================================

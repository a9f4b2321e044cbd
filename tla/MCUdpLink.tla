------------------------------ MODULE MCUdpLink ------------------------------
(***************************************************************************)
(* Small instances of UdpLink for TLC.                                     *)
(***************************************************************************)
EXTENDS UdpLink

\* Two datagrams a block and three shards, or every datagram twice.
TwoModes == {[k |-> 2, n |-> 3], [k |-> 1, n |-> 2]}
===============================================================================

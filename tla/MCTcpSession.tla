----------------------------- MODULE MCTcpSession -----------------------------
(* Instances of TcpSession for TLC. *)
EXTENDS TcpSession, TLC

CONSTANTS a, b

BothEnds == {a, b}
Duplex == a :> 4 @@ b :> 1    \* enough for the sequence numbers to wrap
Holes == a :> 4 @@ b :> 0     \* two runs in reorder with a hole between them
=============================================================================

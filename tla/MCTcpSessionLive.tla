--------------------------- MODULE MCTcpSessionLive ---------------------------
(* Instances of TcpSessionLive for TLC; Nothing is for a counterexample of *)
(* section 5 of README.md.                                                 *)
EXTENDS TcpSessionLive, TLC

CONSTANTS a, b

BothEnds == {a, b}
Few == a :> 3 @@ b :> 0
Nothing == a :> 0 @@ b :> 0
=============================================================================

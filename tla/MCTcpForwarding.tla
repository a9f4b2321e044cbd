--------------------------- MODULE MCTcpForwarding ---------------------------
(* Instances of TcpForwarding for TLC; Nothing, TwoOne, ServerWrites and *)
(* ClientWritesTwo are for the counterexamples of section 5 of README.md. *)
EXTENDS TcpForwarding, TLC

\* Applications at each end, segments that each writes, deaths of its manager.
Nothing == SERVER :> 0 @@ CLIENT :> 0
One == SERVER :> 1 @@ CLIENT :> 1
OneTwo == SERVER :> 1 @@ CLIENT :> 2
TwoOne == SERVER :> 2 @@ CLIENT :> 1
ServerDies == SERVER :> 1 @@ CLIENT :> 0
ServerWrites == SERVER :> 1 @@ CLIENT :> 0
ServerWritesTwo == SERVER :> 2 @@ CLIENT :> 0
ClientWrites == SERVER :> 0 @@ CLIENT :> 1
ClientWritesTwo == SERVER :> 0 @@ CLIENT :> 2
=============================================================================

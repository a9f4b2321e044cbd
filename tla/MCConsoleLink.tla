---------------------------- MODULE MCConsoleLink ----------------------------
(***************************************************************************)
(* ConsoleLink with a radio that boots as it left the factory, on the      *)
(* channel that takes only DSSS and bound to this manager's port, or with  *)
(* the rate that channel does not take and bound to another manager.       *)
(***************************************************************************)
EXTENDS ConsoleLink

Factory == [ch |-> 1, mod |-> "DSSS", tx |-> "none", rx |-> "none"]
Stale   == [ch |-> 14, mod |-> "DSSS", tx |-> "ours", rx |-> "another"]

Other   == [ch |-> 1, mod |-> "OFDM", tx |-> "another", rx |-> "another"]

MCBoots == {Factory, Stale, Other}
=============================================================================

----------------------------- MODULE MCRadioData -----------------------------
(***************************************************************************)
(* RadioData with a receive pool and queues of two, and two destinations   *)
(* that share neither host nor port.  MCQueueable, the frames that can all *)
(* be queued, is for a counterexample of section 5 of README.md.           *)
(***************************************************************************)
EXTENDS RadioData

MCDestinations == {<<1, 1>>, <<2, 2>>}
MCAll == Kinds
MCQueueable == {"other", "inject"}
=============================================================================

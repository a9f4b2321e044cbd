---------------------------- MODULE MCTxScheduler ----------------------------
(***************************************************************************)
(* An instance of TxScheduler for TLC: budgets shorter than any PDU, or    *)
(* for two.                                                                *)
(***************************************************************************)
EXTENDS TxScheduler

\* Stream 0 is UDP, stream 1 is TCP.
FirstIsUdp == {0}
===============================================================================

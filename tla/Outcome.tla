------------------------------ MODULE Outcome ------------------------------
(***************************************************************************)
(* A C++ method that may fail half-way is an operator from a state to the  *)
(* set of its outcomes: the state it leaves behind and the bool it         *)
(* returns.  The states are records with a field left, the number of       *)
(* external calls (of the 802.11 driver, lwIP, the flash) that may still   *)
(* fail.                                                                   *)
(***************************************************************************)
EXTENDS Integers

Done(s)   == {[state |-> s, ok |-> TRUE]}
Failed(s) == {[state |-> s, ok |-> FALSE]}

(* An external call that turns s into t, or fails and changes nothing. *)
Call(s, t) ==
    Done(t) \cup IF s.left > 0 THEN Failed([s EXCEPT !.left = @ - 1]) ELSE {}

(* a && b: the second is called when the first succeeds. *)
Then(outcomes, Op(_)) ==
    UNION {IF o.ok THEN Op(o.state) ELSE {o} : o \in outcomes}

(* a; b: the second is called in any case, and its result counts. *)
AndAlso(outcomes, Op(_)) == UNION {Op(o.state) : o \in outcomes}

(* A result that nobody looks at. *)
Ignored(outcomes) == {[o EXCEPT !.ok = TRUE] : o \in outcomes}
=============================================================================

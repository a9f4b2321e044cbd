---------------------------- MODULE FrameRules ----------------------------
(***************************************************************************)
(* The bus rules of the radio, radio/frame.cpp: which address prefix the   *)
(* frames of its mode carry.  One thread changes them, the tasks of the    *)
(* data path read them, without a lock: a number that is odd while a       *)
(* change is under way tells the reader to try again, a bounded number of  *)
(* times.  The prefix is copied piece by piece, here as two halves.        *)
(*                                                                         *)
(* The rules are a record: seq, g_seqlock; half, the halves of the prefix, *)
(* each the mode it belongs to.  A reader is a record: at, where it is;    *)
(* tries, how many it has made; seq, the number it has loaded; half, what  *)
(* it has copied.                                                          *)
(***************************************************************************)
EXTENDS Integers, Sequences

CONSTANT TRIES    \* kSeqlockTries, 16 in the code

ASSUME FrameRulesAssumption == TRIES \in Nat \ {0}

LiveModes == {"TUNNEL", "STANDALONE"}

FirstRules == [seq |-> 0, half |-> <<"TUNNEL", "TUNNEL">>]

(* RulesWriter and memcpy(): the steps of frameSetMode(), in this order. *)
ModeWrites(mode) ==
    <<[what |-> "open"], [what |-> "half", i |-> 1, mode |-> mode],
      [what |-> "half", i |-> 2, mode |-> mode], [what |-> "close"]>>

(* A plausible mistake: the change is announced when it is over. *)
WrittenLate(rules, w) ==
    IF w.what = "close" THEN [rules EXCEPT !.seq = @ + 2]
    ELSE IF w.what = "open" THEN rules
    ELSE [rules EXCEPT !.half[w.i] = w.mode]

Written(rules, w) ==
    IF w.what = "half" THEN [rules EXCEPT !.half[w.i] = w.mode]
                       ELSE [rules EXCEPT !.seq = @ + 1]

NotReading == [at |-> "none", tries |-> 0, seq |-> 0, half |-> <<"TUNNEL", "TUNNEL">>]
StartRead  == [NotReading EXCEPT !.at = "seq"]

(* The next try, or after the last one a copy that nothing confirms. *)
Again(r) ==
    [r EXCEPT !.tries = @ + 1,
              !.at = IF r.tries + 1 < TRIES THEN "seq" ELSE "last1"]

(* One step of snapshot_rules(). *)
ReadStep(r, rules) ==
    CASE r.at = "seq" -> IF rules.seq % 2 = 1 THEN Again(r)
                         ELSE [r EXCEPT !.seq = rules.seq, !.at = "half1"]
      [] r.at = "half1" -> [r EXCEPT !.half[1] = rules.half[1], !.at = "half2"]
      [] r.at = "half2" -> [r EXCEPT !.half[2] = rules.half[2], !.at = "recheck"]
      [] r.at = "recheck" -> IF rules.seq = r.seq THEN [r EXCEPT !.at = "sure"]
                                                  ELSE Again(r)
      [] r.at = "last1" -> [r EXCEPT !.half[1] = rules.half[1], !.at = "last2"]
      [] r.at = "last2" -> [r EXCEPT !.half[2] = rules.half[2], !.at = "unsure"]

HasRead(r) == r.at \in {"sure", "unsure"}

(* What was read is one mode's prefix, and not parts of two. *)
ReadsWhole(r) == r.at = "sure" => r.half[1] = r.half[2]

(* frameAddr3PrefixMatch(): a frame of that mode carries what was read. *)
PrefixMatch(r, mode) == r.half = <<mode, mode>>
=============================================================================

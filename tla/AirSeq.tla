-------------------------------- MODULE AirSeq --------------------------------
(***************************************************************************)
(* The numbers that the manager puts before every PDU of a stream,         *)
(* frames/air_seq.cpp.  The sender counts PDUs, the receiver counts the    *)
(* numbers it never saw.  One object does both: tx belongs to the way out, *)
(* the other fields to the way in.                                         *)
(***************************************************************************)
EXTENDS Integers

CONSTANT SEQ_MOD   \* 65536 in the code

ASSUME AirSeqAssumption == SEQ_MOD \in Nat /\ SEQ_MOD >= 4 /\ SEQ_MOD % 2 = 0

AirSeqs == [tx : 0..(SEQ_MOD - 1), rx : 0..(SEQ_MOD - 1),
            have_rx : BOOLEAN, lost : Nat]

NewSeq == [tx |-> 0, rx |-> 0, have_rx |-> FALSE, lost |-> 0]

Stamp(q) == [q EXCEPT !.tx = (@ + 1) % SEQ_MOD]

(* How many numbers lie between the last one received and this one. *)
Ahead(q, seq) == (seq - (q.rx + 1)) % SEQ_MOD

(* Mutant of NoteRx: the number itself is counted as lost. *)
NoteRxOffByOne(q, seq) ==
    IF ~q.have_rx
    THEN [q EXCEPT !.rx = seq, !.have_rx = TRUE]
    ELSE [q EXCEPT !.rx = seq, !.lost = @ + ((seq - q.rx) % SEQ_MOD)]

(* A number at most half the space ahead is progress; anything else is an  *)
(* old number, which counts nothing.                                       *)
NoteRx(q, seq) ==
    IF ~q.have_rx
    THEN [q EXCEPT !.rx = seq, !.have_rx = TRUE]
    ELSE IF seq # q.rx /\ Ahead(q, seq) < SEQ_MOD \div 2
    THEN [q EXCEPT !.rx = seq, !.lost = @ + Ahead(q, seq)]
    ELSE q

(* Only the exact repetition of the last number is dropped. *)
Accepts(q, seq) == ~(q.have_rx /\ seq = q.rx)
===============================================================================

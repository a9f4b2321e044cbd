---------------------------- MODULE WifiTxProof ----------------------------
(***************************************************************************)
(* in_flight of the inject task never leaks: for every number of slots,    *)
(* producers, retries and frames, and every interleaving of the task with  *)
(* the TX-done callback.                                                   *)
(***************************************************************************)
EXTENDS WifiTx, FiniteSetTheorems, TLAPS

LEMMA DivMod ==
  ASSUME NEW m \in Nat \ {0}, NEW a \in Int
  PROVE  \E q \in Int, r \in 0..m - 1 : a = m * q + r /\ a % m = r
<1>1. a = m * (a \div m) + (a % m) /\ (a \div m) \in Int /\ (a % m) \in 0..m - 1
  OBVIOUS
<1>. QED BY <1>1

LEMMA ModUnique ==
  ASSUME NEW m \in Nat \ {0}, NEW q \in Int, NEW r \in 0..m - 1, NEW a \in Int, a = m * q + r
  PROVE  a % m = r
OBVIOUS

(* The number after the one with remainder a % m. *)
LEMMA NextMod ==
  ASSUME NEW m \in Nat \ {0}, NEW a \in Int
  PROVE  ((a % m) + 1) % m = (a + 1) % m
<1>1. PICK q \in Int, r \in 0..m - 1 : a = m * q + r /\ a % m = r
  BY DivMod
<1>2. PICK c \in Int, d \in Int : c = a + 1 /\ d = r + 1
  BY <1>1
<1>3. PICK p \in Int, s \in 0..m - 1 : c = m * p + s /\ c % m = s
  BY DivMod
<1>4. p - q \in Int /\ d = m * (p - q) + s
  BY <1>1, <1>2, <1>3
<1>5. d % m = s
  BY <1>4, ModUnique
<1>. QED BY <1>1, <1>2, <1>3, <1>5

LEMMA SlotType == ASSUME NEW seq \in Seqs PROVE Slot(seq) \in Slots
BY WifiTxAssumption DEF Seqs, Slots, Slot

LEMMA NextNumber == ASSUME NEW n \in Seqs PROVE (n + 1) % SEQS \in Seqs
BY WifiTxAssumption DEF Seqs

LEMMA ZeroSeq == 0 \in Seqs
BY WifiTxAssumption DEF Seqs

LEMMA Finite == ASSUME NEW S \in SUBSET Slots PROVE IsFiniteSet(S)
<1>1. IsFiniteSet(Slots)
  BY WifiTxAssumption, FS_Interval DEF Slots
<1> QED BY <1>1, FS_Subset

(* Every step of the task and the callback, and every other step. *)
LEMMA Steps ==
  ASSUME [Next]_vars
  PROVE  \/ \E p \in PRODUCERS : Enqueue(p)
         \/ \E p \in PRODUCERS : Drop(p)
         \/ SetMaxInFlight \/ Pop \/ Skip
         \/ Submit \/ Stamp \/ Mark \/ Wait \/ Accepted \/ NoMem \/ Refused
         \/ Cancel \/ CancelClear \/ CancelUncount \/ Again
         \/ OnTxDone \/ DoneTest \/ DoneMatch \/ DoneClear \/ DoneUncount
         \/ UNCHANGED vars
BY DEF Next, Steady, Inject, NoteDone

LEMMA Initially == Init => IInv
<1> SUFFICES ASSUME Init PROVE IInv
  OBVIOUS
<1>1. TypeOK
  BY WifiTxAssumption, ZeroSeq
     DEF Init, TypeOK, TaskSteps, CallbackSteps, Idle, NoFrame
<1>2. FailsBelow /\ Tracked
  BY WifiTxAssumption DEF Init, FailsBelow, Tracked, Idle, NoFrame
<1>3. Counted
  BY FS_EmptySet DEF Init, Counted, Pending, AsOne, Idle, NoFrame
<1> QED BY <1>1, <1>2, <1>3 DEF IInv

(***************************************************************************)
(* Types.                                                                  *)
(***************************************************************************)
LEMMA TypeStep == TypeOK /\ FailsBelow /\ [Next]_vars => TypeOK' /\ FailsBelow'
<1> SUFFICES ASSUME TypeOK, FailsBelow, [Next]_vars PROVE TypeOK' /\ FailsBelow'
  OBVIOUS
<1> USE WifiTxAssumption DEF TypeOK, FailsBelow, TaskSteps, CallbackSteps, At, GoTo,
                             CbAt, CbGo, Idle, NoFrame
<1>1. ASSUME NEW p \in PRODUCERS, Enqueue(p) PROVE TypeOK' /\ FailsBelow'
  BY <1>1, NextNumber DEF Enqueue, Number
<1>2. ASSUME NEW p \in PRODUCERS, Drop(p) PROVE TypeOK' /\ FailsBelow'
  BY <1>2, NextNumber DEF Drop, Number
<1>3. CASE SetMaxInFlight BY <1>3 DEF SetMaxInFlight
<1>4. CASE Pop BY <1>4 DEF Pop
<1>5. CASE Skip
  <2>1. queue' \in Seq(Seqs) /\ UNCHANGED <<nextSeq, task, callback, used, slotSeq,
                                           inFlight, cap, ring>>
    BY <1>5 DEF Skip
  <2>. QED BY <2>1
<1>6. CASE Submit
  <2>1. inFlight' \in Nat
    BY <1>6 DEF Submit
  <2>2. /\ task' = [task EXCEPT !.pc = "stamp"] /\ task.pc = "submit"
        /\ UNCHANGED <<nextSeq, queue, callback, used, slotSeq, cap, ring>>
    BY <1>6 DEF Submit
  <2>3. /\ task' \in [pc : TaskSteps, seq : Seqs, fails : 0..RETRIES]
        /\ task'.fails = task.fails
    BY <2>2
  <2>. QED BY <2>1, <2>2, <2>3
<1>7. CASE Stamp BY <1>7, SlotType DEF Stamp
<1>8. CASE Mark BY <1>8, SlotType DEF Mark
<1>9. CASE Wait BY <1>9 DEF Wait
<1>10. CASE Accepted BY <1>10, ZeroSeq DEF Accepted
<1>11. CASE NoMem BY <1>11 DEF NoMem
<1>12. CASE Refused
  <2>1. task.fails + 1 \in 0..RETRIES
    BY <1>12 DEF Refused
  <2>2. task' = [task EXCEPT !.pc = "cancel", !.fails = task.fails + 1]
    BY <1>12 DEF Refused
  <2>3. /\ task' \in [pc : TaskSteps, seq : Seqs, fails : 0..RETRIES]
        /\ task'.pc = "cancel"
    BY <2>1, <2>2
  <2> QED BY <1>12, <2>3 DEF Refused
<1>13. CASE Cancel BY <1>13 DEF Cancel
<1>14. CASE CancelClear BY <1>14 DEF CancelClear
<1>15. CASE CancelUncount
  <2>1. Decremented \in Nat
    BY DEF Decremented
  <2>2. /\ task' \in [pc : TaskSteps, seq : Seqs, fails : 0..RETRIES]
        /\ task'.pc = "again"
    BY <1>15 DEF CancelUncount
  <2> QED BY <1>15, <2>1, <2>2 DEF CancelUncount
<1>16. CASE Again BY <1>16, ZeroSeq DEF Again
<1>17. CASE OnTxDone
  <2>1. /\ ring # <<>> /\ ring' = Tail(ring)
        /\ callback' = [pc |-> "test", seq |-> Head(ring)]
        /\ UNCHANGED <<nextSeq, queue, task, used, slotSeq, inFlight, cap>>
    BY <1>17 DEF OnTxDone
  <2>2. Head(ring) \in Seqs /\ Tail(ring) \in Seq(Seqs)
    BY <2>1
  <2>. QED BY <2>1, <2>2
<1>18. CASE DoneTest BY <1>18, ZeroSeq DEF DoneTest
<1>19. CASE DoneMatch BY <1>19, ZeroSeq DEF DoneMatch
<1>20. CASE DoneClear BY <1>20 DEF DoneClear
<1>21. CASE DoneUncount BY <1>21, ZeroSeq DEF DoneUncount, Decremented
<1>22. CASE UNCHANGED vars BY <1>22 DEF vars
<1> QED
  BY <1>1, <1>2, <1>3, <1>4, <1>5, <1>6, <1>7, <1>8, <1>9, <1>10, <1>11, <1>12,
     <1>13, <1>14, <1>15, <1>16, <1>17, <1>18, <1>19, <1>20, <1>21, <1>22, Steps

(***************************************************************************)
(* A used slot has an owner.                                               *)
(***************************************************************************)
LEMMA TrackedStep == TypeOK /\ Tracked /\ [Next]_vars => Tracked'
<1> SUFFICES ASSUME TypeOK, Tracked, [Next]_vars PROVE Tracked'
  OBVIOUS
<1> USE DEF Tracked, TaskHolds, CallbackHolds, DriverHolds, At, GoTo, CbAt, CbGo
<1>1. ASSUME NEW p \in PRODUCERS, Enqueue(p) PROVE Tracked'
  BY <1>1 DEF Enqueue
<1>2. ASSUME NEW p \in PRODUCERS, Drop(p) PROVE Tracked'
  BY <1>2 DEF Drop
<1>3. CASE SetMaxInFlight BY <1>3 DEF SetMaxInFlight
<1>4. CASE Pop BY <1>4 DEF Pop, TypeOK
<1>5. CASE Skip BY <1>5 DEF Skip
<1>6. CASE Submit BY <1>6 DEF Submit, TypeOK
<1>7. CASE Stamp BY <1>7, SlotType DEF Stamp, TypeOK
<1>8. CASE Mark BY <1>8, SlotType DEF Mark, TypeOK
<1>9. CASE Wait BY <1>9 DEF Wait, TypeOK
<1>10. CASE Accepted
  <2>1. /\ ring' = Append(ring, task.seq) /\ task.seq \in Seqs /\ ring \in Seq(Seqs)
        /\ task.pc = "send" /\ task'.pc = "idle"
        /\ UNCHANGED <<used, slotSeq, callback>>
    BY <1>10 DEF Accepted, TypeOK, Idle
  <2>2. /\ \A i \in DOMAIN ring : i \in DOMAIN ring' /\ ring'[i] = ring[i]
        /\ Len(ring) + 1 \in DOMAIN ring' /\ ring'[Len(ring) + 1] = task.seq
    BY <2>1
  <2>3. ASSUME NEW s \in used PROVE CallbackHolds(s)' \/ DriverHolds(s)'
    <3>1. CASE TaskHolds(s)
      BY <3>1, <2>1, <2>2
    <3>2. CASE CallbackHolds(s)
      BY <3>2, <2>1
    <3>3. CASE DriverHolds(s)
      BY <3>3, <2>1, <2>2
    <3> QED BY <3>1, <3>2, <3>3
  <2> QED BY <2>1, <2>3
<1>11. CASE NoMem BY <1>11 DEF NoMem, TypeOK
<1>12. CASE Refused BY <1>12 DEF Refused, TypeOK
<1>13. CASE Cancel BY <1>13 DEF Cancel, TypeOK
<1>14. CASE CancelClear BY <1>14 DEF CancelClear, TypeOK
<1>15. CASE CancelUncount BY <1>15 DEF CancelUncount, TypeOK
<1>16. CASE Again BY <1>16 DEF Again, TypeOK, Idle
<1>17. CASE OnTxDone
  <2>1. /\ ring' = Tail(ring) /\ ring \in Seq(Seqs) /\ ring # <<>>
        /\ callback.pc = "idle" /\ callback' = [pc |-> "test", seq |-> Head(ring)]
        /\ UNCHANGED <<used, slotSeq, task>>
    BY <1>17 DEF OnTxDone, TypeOK
  <2>2. /\ callback'.pc = "test" /\ callback'.seq = ring[1]
        /\ \A i \in DOMAIN ring :
              i # 1 => i - 1 \in DOMAIN ring' /\ ring'[i - 1] = ring[i]
    BY <2>1
  <2>3. ASSUME NEW s \in used PROVE TaskHolds(s)' \/ CallbackHolds(s)' \/ DriverHolds(s)'
    <3>1. CASE TaskHolds(s)
      BY <3>1, <2>1
    <3>2. ASSUME NEW i \in DOMAIN ring, ring[i] = slotSeq[s], Slot(ring[i]) = s
          PROVE  CallbackHolds(s)' \/ DriverHolds(s)'
      BY <3>2, <2>1, <2>2
    <3> QED BY <3>1, <3>2, <2>1
  <2> QED BY <2>1, <2>3
<1>18. CASE DoneTest BY <1>18 DEF DoneTest, TypeOK, NoFrame
<1>19. CASE DoneMatch BY <1>19 DEF DoneMatch, TypeOK, NoFrame
<1>20. CASE DoneClear BY <1>20 DEF DoneClear, TypeOK
<1>21. CASE DoneUncount BY <1>21 DEF DoneUncount, TypeOK, NoFrame
<1>22. CASE UNCHANGED vars BY <1>22 DEF vars
<1> QED
  BY <1>1, <1>2, <1>3, <1>4, <1>5, <1>6, <1>7, <1>8, <1>9, <1>10, <1>11, <1>12,
     <1>13, <1>14, <1>15, <1>16, <1>17, <1>18, <1>19, <1>20, <1>21, <1>22, Steps

(***************************************************************************)
(* in_flight counts no more than what is used or about to be.              *)
(***************************************************************************)
LEMMA AddSlot ==
  ASSUME NEW S \in SUBSET Slots, NEW s \in Slots
  PROVE  /\ Cardinality(S) \in Nat
         /\ Cardinality(S \cup {s}) = Cardinality(S) + AsOne(s \notin S)
BY Finite, FS_CardinalityType, FS_AddElement DEF AsOne

LEMMA RemoveSlot ==
  ASSUME NEW S \in SUBSET Slots, NEW s \in Slots
  PROVE  /\ Cardinality(S) \in Nat
         /\ Cardinality(S \ {s}) = Cardinality(S) - AsOne(s \in S)
BY Finite, FS_CardinalityType, FS_RemoveElement DEF AsOne

LEMMA CountedStep == TypeOK /\ Counted /\ [Next]_vars => Counted'
<1> SUFFICES ASSUME TypeOK, Counted, [Next]_vars PROVE Counted'
  OBVIOUS
<1>0. /\ used \in SUBSET Slots /\ inFlight \in Nat
      /\ Cardinality(used) \in Nat
      /\ task \in [pc : TaskSteps, seq : Seqs, fails : 0..RETRIES]
      /\ callback \in [pc : CallbackSteps, seq : Seqs]
      /\ Slot(task.seq) \in Slots /\ Slot(callback.seq) \in Slots
  BY Finite, FS_CardinalityType, SlotType DEF TypeOK
<1> USE <1>0 DEF Counted, Pending, AsOne, At, GoTo, CbAt, CbGo
<1>1. ASSUME NEW p \in PRODUCERS, Enqueue(p) PROVE Counted'
  BY <1>1 DEF Enqueue
<1>2. ASSUME NEW p \in PRODUCERS, Drop(p) PROVE Counted'
  BY <1>2 DEF Drop
<1>3. CASE SetMaxInFlight BY <1>3 DEF SetMaxInFlight
<1>4. CASE Pop BY <1>4 DEF Pop
<1>5. CASE Skip BY <1>5 DEF Skip
<1>6. CASE Submit BY <1>6 DEF Submit
<1>7. CASE Stamp BY <1>7 DEF Stamp
<1>8. CASE Mark BY <1>8, AddSlot DEF Mark
<1>9. CASE Wait BY <1>9 DEF Wait
<1>10. CASE Accepted BY <1>10 DEF Accepted, Idle
<1>11. CASE NoMem BY <1>11 DEF NoMem
<1>12. CASE Refused BY <1>12 DEF Refused
<1>13. CASE Cancel BY <1>13 DEF Cancel
<1>14. CASE CancelClear BY <1>14, RemoveSlot DEF CancelClear
<1>15. CASE CancelUncount BY <1>15 DEF CancelUncount, Decremented
<1>16. CASE Again BY <1>16 DEF Again, Idle
<1>17. CASE OnTxDone BY <1>17 DEF OnTxDone
<1>18. CASE DoneTest BY <1>18 DEF DoneTest, NoFrame
<1>19. CASE DoneMatch BY <1>19 DEF DoneMatch, NoFrame
<1>20. CASE DoneClear BY <1>20, RemoveSlot DEF DoneClear
<1>21. CASE DoneUncount BY <1>21 DEF DoneUncount, Decremented, NoFrame
<1>22. CASE UNCHANGED vars BY <1>22 DEF vars
<1> QED
  BY <1>1, <1>2, <1>3, <1>4, <1>5, <1>6, <1>7, <1>8, <1>9, <1>10, <1>11, <1>12,
     <1>13, <1>14, <1>15, <1>16, <1>17, <1>18, <1>19, <1>20, <1>21, <1>22, Steps

(***************************************************************************)
(* The theorems.                                                           *)
(***************************************************************************)

(* With nothing on its way no slot has an owner, so none is used, and then *)
(* the count is zero.                                                      *)
LEMMA Quiescent == IInv => NoLeak
<1> SUFFICES ASSUME IInv, Quiet PROVE inFlight = 0 /\ used = {}
  BY DEF NoLeak
<1>1. used = {}
  BY DEF IInv, Tracked, TaskHolds, CallbackHolds, DriverHolds, Quiet, At, CbAt
<1>2. Pending = 0
  BY DEF Pending, AsOne, Quiet, At, CbAt
<1>3. inFlight <= 0 /\ inFlight \in Nat
  BY <1>1, <1>2, FS_EmptySet DEF IInv, TypeOK, Counted
<1> QED BY <1>1, <1>3

(* Every reachable state satisfies the inductive invariant. *)
THEOREM Invariance == Spec => []IInv
<1>1. IInv /\ [Next]_vars => IInv'
  BY TypeStep, TrackedStep, CountedStep DEF IInv
<1> QED BY Initially, <1>1, PTL DEF Spec

(* The shared variables keep their types whatever the interleaving of the  *)
(* inject task with the callback: in_flight never goes below zero.         *)
THEOREM TypeCorrect == Spec => []TypeOK
<1>1. IInv => TypeOK
  BY DEF IInv
<1> QED BY Invariance, <1>1, PTL

(* in_flight and pending_used never leak: once the driver has completed    *)
(* what it took, note_submit(), cancel_submit() and note_done() have        *)
(* undone each other, for any number of slots, collisions and refusals.    *)
THEOREM NothingLeaks == Spec => []NoLeak
BY Invariance, Quiescent, PTL
-----------------------------------------------------------------------------
(***************************************************************************)
(* The cap.  As long as one producer's frames all reach the driver, their  *)
(* numbers are consecutive, and frames less than SLOTS apart have slots of *)
(* their own: note_submit() then counts every frame, and in_flight is not  *)
(* less than what is outstanding.                                          *)
(***************************************************************************)

(* The a-th frame is with the callback, or was the last one there; those   *)
(* after it are with the driver, the task and in the queue, in this order. *)
Behind(a) == a + Len(ring) + AsOne(task.pc # "idle")

Numbered(a) ==
    /\ callback.pc # "idle" => callback.seq = a % SEQS
    /\ \A i \in DOMAIN ring : ring[i] = (a + i) % SEQS
    /\ task.pc # "idle" => task.seq = (a + Len(ring) + 1) % SEQS
    /\ \A j \in DOMAIN queue : queue[j] = (Behind(a) + j) % SEQS
    /\ \A p \in PRODUCERS : nextSeq[p] = (Behind(a) + Len(queue) + 1) % SEQS

Outstanding == Len(ring) + AsOne(callback.pc # "idle")
               + AsOne(task.pc \notin {"idle", "submit", "again"})

RoomToSend == At("send") => \E c \in CAPS : Len(ring) + 1 < c

CapInv ==
    /\ IInv /\ task.fails = 0
    /\ \E a \in Nat : Numbered(a)
    /\ Outstanding <= inFlight
    /\ OutstandingBelowCap /\ RoomToSend

LEMMA NumberType == ASSUME NEW a \in Nat PROVE a % SEQS \in Seqs
BY WifiTxAssumption DEF Seqs

(* The slot depends on the number before it was cut to the number space. *)
LEMMA SlotOfNumber == ASSUME NEW a \in Nat PROVE Slot(a % SEQS) = a % SLOTS
<1>0. /\ SLOTS \in Nat \ {0} /\ SEQS \in Nat \ {0} /\ SEQS \in Int /\ a \in Int
      /\ SEQS % SLOTS = 0
  BY WifiTxAssumption
<1>1. PICK q \in Int, r \in 0 .. SEQS - 1 : a = SEQS * q + r /\ a % SEQS = r
  BY <1>0, DivMod
<1>2. PICK k \in Int, z \in 0 .. SLOTS - 1 : SEQS = SLOTS * k + z /\ SEQS % SLOTS = z
  BY <1>0, DivMod
<1>r. r \in Int
  BY <1>0, <1>1
<1>3. PICK p \in Int, s \in 0 .. SLOTS - 1 : r = SLOTS * p + s /\ r % SLOTS = s
  BY <1>0, <1>r, DivMod
<1>4. z = 0
  BY <1>0, <1>2
<1>5. PICK e \in Int : e = k * q + p
  OBVIOUS
<1>6. SLOTS * e = SLOTS * (k * q) + SLOTS * p
  BY <1>0, <1>5
<1>7. SEQS * q = SLOTS * (k * q)
  BY <1>0, <1>2, <1>4
<1>8. a = SLOTS * e + s
  BY <1>0, <1>1, <1>3, <1>6, <1>7
<1>9. a % SLOTS = s
  BY <1>0, <1>8, ModUnique
<1> QED BY <1>1, <1>3, <1>9 DEF Slot

(* Frames less than SLOTS apart have different slots. *)
LEMMA SlotsApart ==
  ASSUME NEW a \in Nat, NEW b \in Nat, a < b, b < a + SLOTS
  PROVE  Slot(a % SEQS) # Slot(b % SEQS)
<1>1. SLOTS \in Nat \ {0} /\ a \in Int /\ b \in Int
  BY WifiTxAssumption
<1>2. PICK p \in Int, r \in 0..SLOTS - 1 : a = SLOTS * p + r /\ a % SLOTS = r
  BY <1>1, DivMod
<1>3. PICK k \in Int, s \in 0..SLOTS - 1 : b = SLOTS * k + s /\ b % SLOTS = s
  BY <1>1, DivMod
<1>4. ASSUME r = s PROVE FALSE
  <2>1. PICK d \in Int : d = k - p
    OBVIOUS
  <2>2. b - a = SLOTS * d /\ SLOTS * 0 = 0 /\ SLOTS * 1 = SLOTS
    BY <1>1, <1>2, <1>3, <1>4, <2>1
  <2>3. d <= 0 => SLOTS * d <= 0
    BY <1>1, <2>1
  <2>4. d >= 1 => SLOTS * d >= SLOTS
    BY <1>1, <2>1
  <2>5. d <= 0 \/ d >= 1
    BY <2>1
  <2>. QED BY <1>1, <2>2, <2>3, <2>4, <2>5
<1>5. r # s
  BY <1>4
<1> QED BY <1>2, <1>3, <1>5, SlotOfNumber

(* The next number is the number of the next frame. *)
LEMMA NextIsNext == ASSUME NEW a \in Nat PROVE ((a % SEQS) + 1) % SEQS = (a + 1) % SEQS
<1>1. SEQS \in Nat \ {0} /\ a \in Int
  BY WifiTxAssumption
<1> QED BY <1>1, NextMod

(* The frame the task submits finds its slot free. *)
LEMMA SlotIsFree ==
  ASSUME TypeOK, Tracked, OutstandingBelowCap, At("submit"),
         NEW a \in Nat, Numbered(a), \A c \in CAPS : c < SLOTS
  PROVE  Slot(task.seq) \notin used
<1>1. PICK c \in CAPS : Len(ring) < c
  BY DEF OutstandingBelowCap
<1>2. Len(ring) \in Nat /\ SLOTS \in Nat /\ c \in Nat /\ Len(ring) + 1 < SLOTS
      /\ DOMAIN ring = 1..Len(ring)
  BY <1>1, WifiTxAssumption DEF TypeOK
<1>. DEFINE b == a + Len(ring) + 1
<1>3. b \in Nat /\ a < b /\ b < a + SLOTS
  BY <1>2
<1>4. task.seq = b % SEQS
  BY DEF Numbered, At
<1>5. ASSUME NEW i \in DOMAIN ring PROVE Slot(ring[i]) # Slot(task.seq)
  <2>1. a + i \in Nat /\ a + i < b /\ b < (a + i) + SLOTS
    BY <1>2, <1>5
  <2>2. ring[i] = (a + i) % SEQS
    BY <1>5 DEF Numbered
  <2>. HIDE DEF b
  <2>. QED BY <1>3, <1>4, <2>1, <2>2, SlotsApart
<1>6. callback.pc # "idle" => Slot(callback.seq) # Slot(task.seq)
  <2>. HIDE DEF b
  <2>. QED BY <1>3, <1>4, SlotsApart DEF Numbered
<1>. QED BY <1>5, <1>6 DEF Tracked, TaskHolds, CallbackHolds, DriverHolds, At

LEMMA NumberedStep ==
  ASSUME TypeOK, [Steady]_vars, NEW producer, PRODUCERS = {producer},
         NEW a \in Nat, Numbered(a), task.fails = 0
  PROVE  /\ \E b \in Nat : Numbered(b)'
         /\ task'.fails = 0
<1>1. /\ Len(ring) \in Nat /\ Len(queue) \in Nat
      /\ ring \in Seq(Seqs) /\ queue \in Seq(Seqs)
      /\ DOMAIN ring = 1..Len(ring) /\ DOMAIN queue = 1..Len(queue)
      /\ task \in [pc : TaskSteps, seq : Seqs, fails : 0..RETRIES]
      /\ callback \in [pc : CallbackSteps, seq : Seqs]
  BY DEF TypeOK
<1>2. /\ callback.pc # "idle" => callback.seq = a % SEQS
      /\ \A i \in DOMAIN ring : ring[i] = (a + i) % SEQS
      /\ task.pc # "idle" => task.seq = (a + Len(ring) + 1) % SEQS
      /\ \A j \in DOMAIN queue : queue[j] = (Behind(a) + j) % SEQS
      /\ nextSeq[producer] = (Behind(a) + Len(queue) + 1) % SEQS
  BY DEF Numbered
<1>3. Behind(a) \in Nat
  BY <1>1 DEF Behind, AsOne
(* What the frames are is not changed by where the task is with one. *)
<1>4. ASSUME UNCHANGED <<nextSeq, queue, ring>>, task'.seq = task.seq,
             task'.fails = task.fails, task'.pc = "idle" <=> task.pc = "idle",
             callback'.pc # "idle" => callback.pc # "idle" /\ callback'.seq = callback.seq
      PROVE  Numbered(a)' /\ task'.fails = 0
  BY <1>4 DEF Numbered, Behind, AsOne
<1>5. CASE \E p \in PRODUCERS : Enqueue(p)
  <2>1. /\ queue' = Append(queue, nextSeq[producer])
        /\ nextSeq' = [nextSeq EXCEPT ![producer] = (@ + 1) % SEQS]
        /\ UNCHANGED <<task, callback, ring>>
    BY <1>5 DEF Enqueue, Number
  <2>2. nextSeq'[producer] = (Behind(a) + Len(queue) + 1 + 1) % SEQS
    <3>. DEFINE n == Behind(a) + Len(queue) + 1
    <3>1. n \in Nat /\ nextSeq[producer] = n % SEQS
      BY <1>1, <1>2, <1>3
    <3>2. nextSeq'[producer] = (nextSeq[producer] + 1) % SEQS
      BY <2>1 DEF TypeOK
    <3>. HIDE DEF n
    <3>3. nextSeq'[producer] = (n + 1) % SEQS
      BY <3>1, <3>2, NextIsNext
    <3>. QED BY <3>3 DEF n
  <2>3. Len(queue') = Len(queue) + 1 /\ DOMAIN queue' = 1..(Len(queue) + 1)
        /\ queue'[Len(queue) + 1] = (Behind(a) + (Len(queue) + 1)) % SEQS
        /\ \A j \in 1..Len(queue) : queue'[j] = queue[j]
    <3>1. nextSeq[producer] \in Seqs
      BY DEF TypeOK
    <3>2. Behind(a) + (Len(queue) + 1) = Behind(a) + Len(queue) + 1
      BY <1>1, <1>3
    <3>. QED BY <1>1, <1>2, <2>1, <3>1, <3>2
  <2>4. Behind(a)' = Behind(a)
    BY <2>1 DEF Behind
  <2>5. \A j \in DOMAIN queue' : queue'[j] = (Behind(a) + j) % SEQS
    BY <1>1, <1>2, <2>3
  <2>6. nextSeq'[producer] = (Behind(a) + Len(queue') + 1) % SEQS
    BY <1>1, <1>3, <2>2, <2>3
  <2>. QED BY <1>2, <2>1, <2>4, <2>5, <2>6 DEF Numbered
<1>6. CASE SetMaxInFlight
  BY <1>4, <1>6 DEF SetMaxInFlight
<1>7. CASE Pop
  <2>1. /\ task.pc = "idle" /\ queue # <<>> /\ queue' = Tail(queue)
        /\ task' = [pc |-> "submit", seq |-> Head(queue), fails |-> 0]
        /\ UNCHANGED <<nextSeq, callback, ring>>
    BY <1>7 DEF Pop, At
  <2>2. task'.pc = "submit" /\ task'.seq = queue[1] /\ task'.fails = 0
        /\ Len(queue') = Len(queue) - 1 /\ 1 \in DOMAIN queue
        /\ DOMAIN queue' = 1..(Len(queue) - 1)
        /\ \A j \in 1..(Len(queue) - 1) : queue'[j] = queue[j + 1]
    BY <1>1, <2>1
  <2>3. Behind(a) = a + Len(ring) /\ Behind(a)' = a + Len(ring) + 1
    BY <1>1, <2>1, <2>2 DEF Behind, AsOne
  <2>4. \A j \in DOMAIN queue' : queue'[j] = (Behind(a)' + j) % SEQS
    <3>1. ASSUME NEW j \in 1..(Len(queue) - 1)
          PROVE  queue'[j] = (Behind(a)' + j) % SEQS
      <4>1. j + 1 \in DOMAIN queue /\ Behind(a) + (j + 1) = Behind(a)' + j
        BY <1>1, <2>3, <3>1
      <4>. QED BY <1>2, <2>2, <4>1
    <3>. QED BY <2>2, <3>1
  <2>5. Behind(a)' + Len(queue') + 1 = Behind(a) + Len(queue) + 1
    BY <1>1, <2>2, <2>3
  <2>6. task'.seq = (a + Len(ring) + 1) % SEQS
    BY <1>2, <2>2, <2>3
  <2>7. Numbered(a)'
    BY <1>2, <2>1, <2>4, <2>5, <2>6 DEF Numbered
  <2>. QED BY <2>2, <2>7
<1>8. CASE Submit \/ Stamp \/ Mark \/ Wait \/ NoMem \/ Cancel \/ CancelClear
           \/ CancelUncount
  BY <1>1, <1>4, <1>8 DEF Submit, Stamp, Mark, Wait, NoMem, Cancel, CancelClear,
                          CancelUncount, At, GoTo, TaskSteps
<1>9. CASE Again
  <2>1. task' = [task EXCEPT !.pc = "submit"] /\ task.pc = "again"
        /\ UNCHANGED <<nextSeq, queue, callback, ring>>
    BY <1>9, WifiTxAssumption DEF Again, At
  <2>. QED BY <1>1, <1>4, <2>1
<1>10. CASE Accepted
  <2>1. /\ task.pc = "send" /\ ring' = Append(ring, task.seq)
        /\ task'.pc = "idle" /\ task'.fails = 0
        /\ UNCHANGED <<nextSeq, queue, callback>>
    BY <1>10 DEF Accepted, At, Idle
  <2>2. /\ Len(ring') = Len(ring) + 1 /\ DOMAIN ring' = 1..(Len(ring) + 1)
        /\ ring'[Len(ring) + 1] = task.seq
        /\ \A i \in 1..Len(ring) : ring'[i] = ring[i]
    BY <1>1, <2>1
  <2>3. Behind(a)' = Behind(a)
    BY <1>1, <2>1, <2>2 DEF Behind, AsOne
  <2>4. a + Len(ring) + 1 = a + (Len(ring) + 1)
    BY <1>1
  <2>5. \A i \in DOMAIN ring' : ring'[i] = (a + i) % SEQS
    <3>1. task.seq = (a + (Len(ring) + 1)) % SEQS
      BY <1>2, <2>1, <2>4
    <3>2. ASSUME NEW i \in 1..(Len(ring) + 1), i # Len(ring) + 1
          PROVE  ring'[i] = (a + i) % SEQS
      <4>1. i \in 1..Len(ring)
        BY <1>1, <3>2
      <4>. QED BY <1>1, <1>2, <2>2, <4>1
    <3>. QED BY <2>2, <3>1, <3>2
  <2>6. Numbered(a)'
    BY <1>2, <2>1, <2>3, <2>5 DEF Numbered
  <2>. QED BY <2>1, <2>6
<1>11. CASE OnTxDone
  <2>1. /\ ring # <<>> /\ ring' = Tail(ring)
        /\ callback'.pc = "test" /\ callback'.seq = Head(ring)
        /\ UNCHANGED <<nextSeq, queue, task>>
    BY <1>11 DEF OnTxDone
  <2>2. /\ Len(ring') = Len(ring) - 1 /\ 1 \in DOMAIN ring /\ Head(ring) = ring[1]
        /\ DOMAIN ring' = 1..(Len(ring) - 1)
        /\ \A i \in 1..(Len(ring) - 1) : ring'[i] = ring[i + 1]
    BY <1>1, <2>1
  <2>3. Behind(a + 1)' = Behind(a) /\ a + 1 + Len(ring') + 1 = a + Len(ring) + 1
    BY <1>1, <2>1, <2>2 DEF Behind, AsOne
  <2>4. \A i \in DOMAIN ring' : ring'[i] = (a + 1 + i) % SEQS
    <3>1. ASSUME NEW i \in 1..(Len(ring) - 1) PROVE ring'[i] = (a + 1 + i) % SEQS
      <4>1. i + 1 \in DOMAIN ring /\ a + (i + 1) = a + 1 + i
        BY <1>1, <3>1
      <4>. QED BY <1>2, <2>2, <4>1
    <3>. QED BY <2>2, <3>1
  <2>5. Numbered(a + 1)'
    BY <1>2, <2>1, <2>2, <2>3, <2>4 DEF Numbered
  <2>6. a + 1 \in Nat
    OBVIOUS
  <2>. QED BY <2>1, <2>5, <2>6
<1>12. CASE DoneTest \/ DoneMatch \/ DoneClear \/ DoneUncount
  <2>1. UNCHANGED <<nextSeq, queue, ring, task>>
    BY <1>12 DEF DoneTest, DoneMatch, DoneClear, DoneUncount
  <2>2. callback'.pc # "idle" => callback.pc # "idle" /\ callback'.seq = callback.seq
    BY <1>1, <1>12 DEF DoneTest, DoneMatch, DoneClear, DoneUncount, CbAt, CbGo,
                       NoFrame, CallbackSteps
  <2>. QED BY <1>4, <2>1, <2>2
<1>13. CASE UNCHANGED vars
  BY <1>4, <1>13 DEF vars
<1>. QED BY <1>5, <1>6, <1>7, <1>8, <1>9, <1>10, <1>11, <1>12, <1>13
         DEF Steady, Inject, NoteDone

LEMMA OutstandingStep ==
  ASSUME TypeOK, [Steady]_vars, Outstanding <= inFlight,
         At("submit") => Slot(task.seq) \notin used
  PROVE  Outstanding' <= inFlight'
<1>1. /\ Len(ring) \in Nat /\ inFlight \in Nat /\ ring \in Seq(Seqs)
      /\ task \in [pc : TaskSteps, seq : Seqs, fails : 0..RETRIES]
      /\ callback \in [pc : CallbackSteps, seq : Seqs] /\ task.seq \in Seqs
  BY DEF TypeOK
<1>. USE <1>1 DEF Outstanding, AsOne, At, GoTo, CbAt, CbGo
<1>2. CASE \E p \in PRODUCERS : Enqueue(p)
  BY <1>2 DEF Enqueue
<1>3. CASE SetMaxInFlight \/ UNCHANGED vars
  BY <1>3 DEF SetMaxInFlight, vars
<1>4. CASE Pop
  BY <1>4 DEF Pop
<1>5. CASE Submit
  <2>1. /\ task.pc = "submit" /\ task'.pc = "stamp" /\ inFlight' = inFlight + 1
        /\ UNCHANGED <<ring, callback>>
    BY <1>5 DEF Submit
  <2>. QED BY <2>1
<1>6. CASE Stamp \/ Mark \/ Wait \/ NoMem
  <2>1. /\ task.pc \in {"stamp", "mark", "wait", "send"}
        /\ task'.pc \in {"mark", "wait", "send", "cancel"}
        /\ UNCHANGED <<ring, callback, inFlight>>
    BY <1>6 DEF Stamp, Mark, Wait, NoMem
  <2>. QED BY <2>1
<1>7. CASE Accepted
  <2>1. Len(ring') = Len(ring) + 1 /\ task'.pc = "idle" /\ task.pc = "send"
        /\ UNCHANGED <<callback, inFlight>>
    BY <1>7 DEF Accepted, Idle
  <2>. QED BY <2>1
<1>8. CASE Cancel \/ CancelClear
  <2>1. /\ task.pc \in {"cancel", "clear"} /\ task'.pc \in {"clear", "again", "uncount"}
        /\ task.pc = "clear" => task'.pc = "uncount"
        /\ task.pc = "cancel" => task'.pc # "uncount"
        /\ UNCHANGED <<ring, callback, inFlight>>
    BY <1>8 DEF Cancel, CancelClear
  <2>2. task.pc \notin {"idle", "submit", "again"}
    BY <2>1
  <2>3. Outstanding \in Nat /\ Outstanding' \in Nat /\ Outstanding' <= Outstanding
    <3>1. AsOne(callback'.pc # "idle") = AsOne(callback.pc # "idle")
          /\ AsOne(callback.pc # "idle") \in {0, 1}
      BY <2>1
    <3>2. AsOne(task.pc \notin {"idle", "submit", "again"}) = 1
          /\ AsOne(task'.pc \notin {"idle", "submit", "again"}) \in {0, 1}
      BY <2>2
    <3>3. Len(ring') = Len(ring)
      BY <2>1
    <3>. HIDE DEF AsOne
    <3>. QED BY <3>1, <3>2, <3>3
  <2>. HIDE DEF Outstanding
  <2>. QED BY <2>1, <2>3
<1>9. CASE CancelUncount
  <2>1. /\ task.pc = "uncount" /\ task'.pc = "again"
        /\ inFlight' = IF inFlight > 0 THEN inFlight - 1 ELSE 0
        /\ UNCHANGED <<ring, callback>>
    BY <1>9 DEF CancelUncount, Decremented
  <2>2. Outstanding \in Nat /\ Outstanding' = Outstanding - 1
    BY <2>1
  <2>3. inFlight' = inFlight - 1
    BY <2>1, <2>2
  <2>. HIDE DEF Outstanding
  <2>. QED BY <2>2, <2>3
<1>10. CASE Again
  BY <1>10 DEF Again, Idle
<1>11. CASE OnTxDone
  <2>1. Len(ring') = Len(ring) - 1 /\ callback'.pc = "test" /\ callback.pc = "idle"
        /\ UNCHANGED <<task, inFlight>>
    BY <1>11 DEF OnTxDone
  <2>. QED BY <2>1
<1>12. CASE DoneTest \/ DoneMatch \/ DoneClear
  <2>1. callback.pc # "idle" /\ UNCHANGED <<task, ring, inFlight>>
    BY <1>12 DEF DoneTest, DoneMatch, DoneClear
  <2>2. Outstanding \in Nat /\ Outstanding' \in Nat /\ Outstanding' <= Outstanding
    <3>1. AsOne(callback.pc # "idle") = 1 /\ AsOne(callback'.pc # "idle") \in {0, 1}
      BY <2>1
    <3>2. AsOne(task'.pc \notin {"idle", "submit", "again"})
            = AsOne(task.pc \notin {"idle", "submit", "again"})
          /\ AsOne(task.pc \notin {"idle", "submit", "again"}) \in {0, 1}
      BY <2>1
    <3>3. Len(ring') = Len(ring)
      BY <2>1
    <3>. HIDE DEF AsOne
    <3>. QED BY <3>1, <3>2, <3>3
  <2>. HIDE DEF Outstanding
  <2>. QED BY <2>1, <2>2
<1>13. CASE DoneUncount
  <2>1. /\ callback.pc # "idle" /\ callback'.pc = "idle"
        /\ inFlight' = IF inFlight > 0 THEN inFlight - 1 ELSE 0
        /\ UNCHANGED <<task, ring>>
    BY <1>13 DEF DoneUncount, Decremented, NoFrame
  <2>2. Outstanding \in Nat /\ Outstanding' = Outstanding - 1
    BY <2>1
  <2>3. Outstanding > 0
    BY <2>1
  <2>. HIDE DEF Outstanding
  <2>. QED BY <2>1, <2>2, <2>3
<1>. QED BY <1>2, <1>3, <1>4, <1>5, <1>6, <1>7, <1>8, <1>9, <1>10, <1>11, <1>12, <1>13
         DEF Steady, Inject, NoteDone

LEMMA RoomStep ==
  ASSUME TypeOK, [Steady]_vars, Outstanding <= inFlight,
         OutstandingBelowCap, RoomToSend
  PROVE  OutstandingBelowCap' /\ RoomToSend'
<1>1. /\ Len(ring) \in Nat /\ inFlight \in Nat /\ ring \in Seq(Seqs) /\ cap \in CAPS
      /\ task \in [pc : TaskSteps, seq : Seqs, fails : 0..RETRIES]
      /\ \A c \in CAPS : c \in Nat
  BY WifiTxAssumption DEF TypeOK
<1>2. CASE Accepted
  <2>1. task.pc = "send" /\ Len(ring') = Len(ring) + 1 /\ task'.pc = "idle"
    BY <1>1, <1>2 DEF Accepted, At, Idle
  <2>. QED BY <2>1 DEF OutstandingBelowCap, RoomToSend, At
<1>3. CASE Wait
  <2>1. /\ task.pc = "wait" /\ inFlight < cap /\ UNCHANGED ring
    BY <1>3 DEF Wait, At
  <2>2. Len(ring) + 1 <= inFlight
    BY <1>1, <2>1 DEF Outstanding, AsOne
  <2>. QED BY <1>1, <2>1, <2>2 DEF OutstandingBelowCap, RoomToSend, At
<1>4. CASE OnTxDone
  <2>1. Len(ring') = Len(ring) - 1 /\ task' = task
    BY <1>1, <1>4 DEF OnTxDone
  <2>2. \A c \in CAPS : /\ Len(ring) < c => Len(ring') < c
                        /\ Len(ring) + 1 < c => Len(ring') + 1 < c
    BY <1>1, <2>1
  <2>. QED BY <2>1, <2>2 DEF OutstandingBelowCap, RoomToSend, At
<1>5. ASSUME UNCHANGED ring, task'.pc = "send" => task.pc = "send"
      PROVE  OutstandingBelowCap' /\ RoomToSend'
  BY <1>5 DEF OutstandingBelowCap, RoomToSend, At
<1>6. CASE \E p \in PRODUCERS : Enqueue(p)
  BY <1>5, <1>6 DEF Enqueue
<1>7. CASE SetMaxInFlight \/ UNCHANGED vars
  BY <1>5, <1>7 DEF SetMaxInFlight, vars
<1>8. CASE Pop \/ Submit \/ Stamp \/ Mark \/ NoMem \/ Cancel \/ CancelClear
           \/ CancelUncount \/ Again
  BY <1>1, <1>5, <1>8 DEF Pop, Submit, Stamp, Mark, NoMem, Cancel, CancelClear,
                          CancelUncount, Again, GoTo, Idle
<1>9. CASE DoneTest \/ DoneMatch \/ DoneClear \/ DoneUncount
  BY <1>5, <1>9 DEF DoneTest, DoneMatch, DoneClear, DoneUncount
<1>. QED BY <1>2, <1>3, <1>4, <1>6, <1>7, <1>8, <1>9 DEF Steady, Inject, NoteDone

LEMMA CapInitially == Init => CapInv
<1>. SUFFICES ASSUME Init PROVE CapInv
  OBVIOUS
<1>1. IInv
  BY Initially
<1>2. /\ ring = <<>> /\ queue = <<>> /\ nextSeq = [p \in PRODUCERS |-> 0]
      /\ task.pc = "idle" /\ callback.pc = "idle" /\ task.fails = 0
      /\ inFlight = 0 /\ Len(ring) = 0 /\ Len(queue) = 0
  BY DEF Init, Idle, NoFrame
<1>3. SEQS - 1 \in Nat /\ SEQS - 1 + 0 + 0 + 0 + 1 = SEQS /\ SEQS % SEQS = 0
  BY WifiTxAssumption
<1>4. Behind(SEQS - 1) = SEQS - 1 + 0 + 0
  BY <1>2 DEF Behind, AsOne
<1>5. Numbered(SEQS - 1)
  BY <1>2, <1>3, <1>4 DEF Numbered
<1>6. Outstanding = 0
  BY <1>2 DEF Outstanding, AsOne
<1>7. PICK c \in CAPS : 0 < c
  <2>1. PICK c \in CAPS : c \in 1..32
    BY WifiTxAssumption
  <2>. QED BY <2>1
<1>. QED BY <1>1, <1>2, <1>3, <1>5, <1>6, <1>7
         DEF CapInv, OutstandingBelowCap, RoomToSend, At

(* The driver never holds max_in_flight frames, whatever the console sets   *)
(* it to meanwhile: inject_retry()'s wait, and that note_submit() counts    *)
(* every frame.  One producer whose frames are neither lost nor given up,   *)
(* and fewer frames than slots, as 32 and 64 are in the code, make sure of  *)
(* the latter.                                                              *)
THEOREM CapKept ==
  ASSUME NEW producer, PRODUCERS = {producer}, \A c \in CAPS : c < SLOTS
  PROVE  SpecSteady => []OutstandingBelowCap
<1>1. CapInv /\ [Steady]_vars => CapInv'
  <2>. SUFFICES ASSUME CapInv, [Steady]_vars PROVE CapInv'
    OBVIOUS
  <2>1. IInv'
    BY TypeStep, TrackedStep, CountedStep DEF CapInv, IInv, Next, Steady
  <2>2. PICK a \in Nat : Numbered(a)
    BY DEF CapInv
  <2>3. At("submit") => Slot(task.seq) \notin used
    BY <2>2, SlotIsFree DEF CapInv, IInv
  <2>4. (\E b \in Nat : Numbered(b)') /\ task'.fails = 0
    BY <2>2, NumberedStep DEF CapInv, IInv
  <2>5. Outstanding' <= inFlight'
    BY <2>3, OutstandingStep DEF CapInv, IInv
  <2>6. OutstandingBelowCap' /\ RoomToSend'
    BY RoomStep DEF CapInv, IInv
  <2>. QED BY <2>1, <2>4, <2>5, <2>6 DEF CapInv
<1>2. CapInv => OutstandingBelowCap
  BY DEF CapInv
<1>. QED BY <1>1, <1>2, CapInitially, PTL DEF SpecSteady
=============================================================================

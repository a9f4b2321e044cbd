------------------------------- MODULE WifiTx -------------------------------
(***************************************************************************)
(* The radio's injection path, radio/wifi_tx.cpp: the frame queue, the     *)
(* inject task that hands frames to the 802.11 driver and holds back while *)
(* max_in_flight of them are outstanding, and the driver's TX-done         *)
(* callback.  Task and callback run on different threads; they share       *)
(* in_flight and a table of pending slots indexed by the low bits of the   *)
(* frame's sequence number, without a lock.  Each shared access is a step. *)
(*                                                                         *)
(* A frame is its sequence number.  Every producer numbers its own frames  *)
(* (the manager, and wifi_bench on the radio), so two frames of the queue  *)
(* may have equal numbers.  The driver, external, completes frames in the  *)
(* order in which it took them and calls back once for each.               *)
(***************************************************************************)
EXTENDS Integers, Sequences, FiniteSets

CONSTANTS PRODUCERS,   \* who numbers and enqueues frames
          SEQS,        \* size of the sequence number space, 4096 in the code
          SLOTS,       \* kPendingCap, 64 in the code
          QUEUE,       \* k_queue_cap, 20 in the code
          RING,        \* bound: how many frames the driver can hold
          RETRIES,     \* WIFI_RADIO_INJECT_RETRIES, 8 in the code
          CAPS         \* the values of max_in_flight the console may set

ASSUME WifiTxAssumption ==
    /\ SLOTS \in Nat \ {0}
    /\ SEQS \in Nat \ {0} /\ SEQS % SLOTS = 0
    /\ QUEUE \in Nat \ {0}
    /\ RING \in Nat \ {0}
    /\ RETRIES \in Nat \ {0}
    /\ CAPS \subseteq 1..32
    /\ CAPS # {}

VARIABLES nextSeq,    \* per producer, g_txSeq
          queue,      \* q
          task,       \* the inject task: where it is, its frame, fail_tries
          callback,   \* the TX-done callback: where it is, its frame
          used,       \* the slots whose pending_used is set
          slotSeq,    \* pending_seq
          inFlight,   \* in_flight
          cap,        \* max_in_flight_cap_
          ring        \* the frames the driver holds, external

vars == <<nextSeq, queue, task, callback, used, slotSeq, inFlight, cap, ring>>

Seqs  == 0..(SEQS - 1)
Slots == 0..(SLOTS - 1)

Slot(seq) == seq % SLOTS

TaskSteps == {"idle", "submit", "stamp", "mark", "wait", "send",
              "cancel", "clear", "uncount", "again"}
CallbackSteps == {"idle", "test", "match", "clear", "uncount"}

Idle    == [pc |-> "idle", seq |-> 0, fails |-> 0]
NoFrame == [pc |-> "idle", seq |-> 0]

At(pc)    == task.pc = pc
GoTo(pc)  == task' = [task EXCEPT !.pc = pc]
CbAt(pc)  == callback.pc = pc
CbGo(pc)  == callback' = IF pc = "idle" THEN NoFrame
                                        ELSE [callback EXCEPT !.pc = pc]

(* A plausible mistake: the count is taken down without looking at zero. *)
DecrementedAlways == inFlight - 1

Decremented == IF inFlight > 0 THEN inFlight - 1 ELSE 0

Init ==
    /\ nextSeq = [p \in PRODUCERS |-> 0]
    /\ queue = <<>>
    /\ task = Idle
    /\ callback = NoFrame
    /\ used = {}
    /\ slotSeq = [s \in Slots |-> 0]
    /\ inFlight = 0
    /\ cap \in CAPS
    /\ ring = <<>>

-----------------------------------------------------------------------------
(***************************************************************************)
(* Producers and console.                                                  *)
(***************************************************************************)

Number(p) == nextSeq' = [nextSeq EXCEPT ![p] = (@ + 1) % SEQS]

(* enqueue() of a frame, as long as the queue has room. *)
Enqueue(p) ==
    /\ Len(queue) < QUEUE
    /\ Number(p)
    /\ queue' = Append(queue, nextSeq[p])
    /\ UNCHANGED <<task, callback, used, slotSeq, inFlight, cap, ring>>

(* A numbered frame that never gets into the queue: it is full, or the *)
(* datagram was lost on the way to the radio.                          *)
Drop(p) ==
    /\ Number(p)
    /\ UNCHANGED <<queue, task, callback, used, slotSeq, inFlight, cap, ring>>

SetMaxInFlight ==
    /\ cap' \in CAPS
    /\ UNCHANGED <<nextSeq, queue, task, callback, used, slotSeq, inFlight, ring>>

-----------------------------------------------------------------------------
(***************************************************************************)
(* The inject task: run() and inject_retry().                              *)
(***************************************************************************)

Pop ==
    /\ At("idle") /\ queue # <<>>
    /\ task' = [pc |-> "submit", seq |-> Head(queue), fails |-> 0]
    /\ queue' = Tail(queue)
    /\ UNCHANGED <<nextSeq, callback, used, slotSeq, inFlight, cap, ring>>

(* A frame of a wrong length, or any frame in a dry run, is not injected. *)
Skip ==
    /\ At("idle") /\ queue # <<>>
    /\ queue' = Tail(queue)
    /\ UNCHANGED <<nextSeq, task, callback, used, slotSeq, inFlight, cap, ring>>

(* note_submit(): a slot that is still used is taken over, not counted. *)
Submit ==
    /\ At("submit")
    /\ inFlight' = IF Slot(task.seq) \in used THEN inFlight ELSE inFlight + 1
    /\ GoTo("stamp")
    /\ UNCHANGED <<nextSeq, queue, callback, used, slotSeq, cap, ring>>

Stamp ==
    /\ At("stamp")
    /\ slotSeq' = [slotSeq EXCEPT ![Slot(task.seq)] = task.seq]
    /\ GoTo("mark")
    /\ UNCHANGED <<nextSeq, queue, callback, used, inFlight, cap, ring>>

Mark ==
    /\ At("mark")
    /\ used' = used \cup {Slot(task.seq)}
    /\ GoTo("wait")
    /\ UNCHANGED <<nextSeq, queue, callback, slotSeq, inFlight, cap, ring>>

(* A plausible mistake: as if the frame itself were not counted yet. *)
WaitAtCap ==
    /\ At("wait")
    /\ inFlight <= cap
    /\ GoTo("send")
    /\ UNCHANGED <<nextSeq, queue, callback, used, slotSeq, inFlight, cap, ring>>

(* The wait counts the task's own frame, which note_submit() has added. *)
Wait ==
    /\ At("wait")
    /\ inFlight < cap
    /\ GoTo("send")
    /\ UNCHANGED <<nextSeq, queue, callback, used, slotSeq, inFlight, cap, ring>>

Accepted ==
    /\ At("send") /\ Len(ring) < RING
    /\ ring' = Append(ring, task.seq)
    /\ task' = Idle
    /\ UNCHANGED <<nextSeq, queue, callback, used, slotSeq, inFlight, cap>>

(* ESP_ERR_NO_MEM: tried again for ever. *)
NoMem ==
    /\ At("send")
    /\ GoTo("cancel")
    /\ UNCHANGED <<nextSeq, queue, callback, used, slotSeq, inFlight, cap, ring>>

(* Any other error counts against WIFI_RADIO_INJECT_RETRIES. *)
Refused ==
    /\ At("send")
    /\ task' = [task EXCEPT !.pc = "cancel", !.fails = @ + 1]
    /\ UNCHANGED <<nextSeq, queue, callback, used, slotSeq, inFlight, cap, ring>>

(* A plausible mistake: a refused frame keeps its slot. *)
CancelForgets ==
    /\ At("cancel")
    /\ GoTo("again")
    /\ UNCHANGED <<nextSeq, queue, callback, used, slotSeq, inFlight, cap, ring>>

(* cancel_submit(), in three steps; only this task writes pending_seq. *)
Cancel ==
    /\ At("cancel")
    /\ GoTo(IF /\ Slot(task.seq) \in used
               /\ slotSeq[Slot(task.seq)] = task.seq
            THEN "clear" ELSE "again")
    /\ UNCHANGED <<nextSeq, queue, callback, used, slotSeq, inFlight, cap, ring>>

CancelClear ==
    /\ At("clear")
    /\ used' = used \ {Slot(task.seq)}
    /\ GoTo("uncount")
    /\ UNCHANGED <<nextSeq, queue, callback, slotSeq, inFlight, cap, ring>>

CancelUncount ==
    /\ At("uncount")
    /\ inFlight' = Decremented
    /\ GoTo("again")
    /\ UNCHANGED <<nextSeq, queue, callback, used, slotSeq, cap, ring>>

Again ==
    /\ At("again")
    /\ task' = IF task.fails >= RETRIES THEN Idle ELSE [task EXCEPT !.pc = "submit"]
    /\ UNCHANGED <<nextSeq, queue, callback, used, slotSeq, inFlight, cap, ring>>

Inject ==
    \/ Submit \/ Stamp \/ Mark \/ Wait
    \/ Cancel \/ CancelClear \/ CancelUncount \/ Again

-----------------------------------------------------------------------------
(***************************************************************************)
(* The driver and its callback, note_done().                               *)
(***************************************************************************)

(* The frame has been on the air; on_tx_done() is called with it. *)
OnTxDone ==
    /\ CbAt("idle") /\ ring # <<>>
    /\ callback' = [pc |-> "test", seq |-> Head(ring)]
    /\ ring' = Tail(ring)
    /\ UNCHANGED <<nextSeq, queue, task, used, slotSeq, inFlight, cap>>

DoneTest ==
    /\ CbAt("test")
    /\ CbGo(IF Slot(callback.seq) \in used THEN "match" ELSE "idle")
    /\ UNCHANGED <<nextSeq, queue, task, used, slotSeq, inFlight, cap, ring>>

DoneMatch ==
    /\ CbAt("match")
    /\ CbGo(IF slotSeq[Slot(callback.seq)] = callback.seq THEN "clear" ELSE "idle")
    /\ UNCHANGED <<nextSeq, queue, task, used, slotSeq, inFlight, cap, ring>>

DoneClear ==
    /\ CbAt("clear")
    /\ used' = used \ {Slot(callback.seq)}
    /\ CbGo("uncount")
    /\ UNCHANGED <<nextSeq, queue, task, slotSeq, inFlight, cap, ring>>

(* A plausible mistake: a completed frame frees its slot and stays counted. *)
DoneForgets ==
    /\ CbAt("uncount")
    /\ CbGo("idle")
    /\ UNCHANGED <<nextSeq, queue, task, used, slotSeq, inFlight, cap, ring>>

DoneUncount ==
    /\ CbAt("uncount")
    /\ inFlight' = Decremented
    /\ CbGo("idle")
    /\ UNCHANGED <<nextSeq, queue, task, used, slotSeq, cap, ring>>

NoteDone == OnTxDone \/ DoneTest \/ DoneMatch \/ DoneClear \/ DoneUncount

-----------------------------------------------------------------------------
Steady ==
    \/ \E p \in PRODUCERS : Enqueue(p)
    \/ SetMaxInFlight
    \/ Pop \/ Inject \/ Accepted \/ NoMem
    \/ NoteDone

Next ==
    \/ Steady
    \/ \E p \in PRODUCERS : Drop(p)
    \/ Skip \/ Refused

Spec == Init /\ [][Next]_vars

(* No frame is lost before the queue, skipped or given up: with one       *)
(* producer the injected frames have consecutive numbers.                 *)
SpecSteady == Init /\ [][Steady]_vars

(***************************************************************************)
(* The task runs at priority 20 and the callback in the driver's own task: *)
(* neither is starved.  The driver keeps completing what it holds, and     *)
(* does not run out of memory for ever.                                    *)
(***************************************************************************)
Fairness ==
    /\ WF_vars(Pop) /\ WF_vars(Inject) /\ WF_vars(NoteDone)
    /\ SF_vars(Accepted)

SpecFair == Spec /\ Fairness

-----------------------------------------------------------------------------
TypeOK ==
    /\ nextSeq \in [PRODUCERS -> Seqs]
    /\ queue \in Seq(Seqs)
    /\ task \in [pc : TaskSteps, seq : Seqs, fails : 0..RETRIES]
    /\ callback \in [pc : CallbackSteps, seq : Seqs]
    /\ used \subseteq Slots
    /\ slotSeq \in [Slots -> Seqs]
    /\ inFlight \in Nat
    /\ cap \in CAPS
    /\ ring \in Seq(Seqs)

Quiet == At("idle") /\ CbAt("idle") /\ ring = <<>>

(* No leak: when nothing is outstanding, in_flight is zero and no slot is *)
(* used, whatever collided, was refused or given up before.  A count left *)
(* behind would lower the cap for ever and in the end stop the task.      *)
NoLeak == Quiet => inFlight = 0 /\ used = {}

(* The argument behind NoLeak.  A used slot belongs to a frame that is      *)
(* still on its way: the task has it, or the driver or the callback holds *)
(* the frame whose number the slot carries ...                            *)
TaskHolds(s) ==
    /\ task.pc \in {"stamp", "mark", "wait", "send", "cancel", "clear"}
    /\ Slot(task.seq) = s

CallbackHolds(s) ==
    /\ callback.pc \in {"test", "match", "clear"}
    /\ Slot(callback.seq) = s
    /\ callback.seq = slotSeq[s]

DriverHolds(s) ==
    \E i \in DOMAIN ring : ring[i] = slotSeq[s] /\ Slot(ring[i]) = s

Tracked ==
    /\ \A s \in used : TaskHolds(s) \/ CallbackHolds(s) \/ DriverHolds(s)
    /\ task.pc \in {"mark", "wait", "send", "cancel", "clear"} =>
            slotSeq[Slot(task.seq)] = task.seq

(* ... and in_flight counts no more than the used slots, the slot about to *)
(* be marked and the slots cleared but not yet subtracted.                 *)
FailsBelow ==
    task.pc \notin {"cancel", "clear", "uncount", "again"} => task.fails < RETRIES

AsOne(condition) == IF condition THEN 1 ELSE 0

Pending ==
      AsOne(task.pc \in {"stamp", "mark"} /\ Slot(task.seq) \notin used)
    + AsOne(task.pc = "uncount")
    + AsOne(callback.pc = "uncount")

Counted == inFlight <= Cardinality(used) + Pending

IInv == TypeOK /\ FailsBelow /\ Tracked /\ Counted

(* The frame being injected was counted first, so the driver holds one    *)
(* less than the cap: what the wait of inject_retry() really enforces.    *)
OutstandingBelowCap == \E c \in CAPS : Len(ring) < c

(* winject.md:125 "max_in_flight=<1-32>": with every value the console    *)
(* takes, the frame the task has popped is injected or given up.          *)
Injects == ~At("idle") ~> At("idle")
=============================================================================

----------------------------- MODULE RadioInject -----------------------------
(***************************************************************************)
(* From the manager to the inject task: upstream_tx_endpoint.cpp, which    *)
(* takes the frames for the air out of the Ethernet driver's input before  *)
(* lwIP sees them, wifi_bench.cpp, and the frame queue of wifi_tx.cpp,     *)
(* whose inject task is the subject of WifiTx.  Three tasks: the Ethernet  *)
(* driver's, the benchmark's and the inject task.                          *)
(*                                                                         *)
(* An Ethernet frame is in a buffer of the heap, allocated by the driver   *)
(* and freed by whoever has it last: adopt_eth_frame() puts that buffer    *)
(* itself into the queue.  The benchmark's frames are in buffers of the TX *)
(* pool.  Driver, lwIP and heap are external.                              *)
(***************************************************************************)
EXTENDS SlotQueue, FiniteSets, SequencesExt, FiniteSetsExt

CONSTANTS KINDS,          \* the Ethernet frames there are, of Kinds
          FRAME_BUFFERS,  \* buffers of the heap
          BENCH_BUFFERS,  \* of the TX pool, WIFI_RADIO_TX_QUEUE in the code
          TX_SLOTS        \* k_queue_cap, 20 in the code

(* What the driver may bring: a frame of another port or protocol; for the *)
(* inject port, one to inject, one without payload, and one of a length    *)
(* that is not injected.                                                   *)
Kinds == {"other", "inject", "empty", "length"}

ASSUME RadioInjectAssumption ==
    /\ KINDS \subseteq Kinds
    /\ IsFiniteSet(BENCH_BUFFERS) /\ TX_SLOTS \in Nat \ {0}
    /\ FRAME_BUFFERS \cap BENCH_BUFFERS = {}
    /\ Nothing \notin FRAME_BUFFERS \cup BENCH_BUFFERS

VARIABLES live,     \* the buffers of the heap that are allocated
          eth,      \* the Ethernet driver's task in eth_input_cb()
          lwip,     \* the buffers lwIP has been given
          bench,    \* the benchmark's task
          txPool,   \* the free buffers of the TX pool
          txq,      \* the frame queue
          inject,   \* the inject task
          ep,       \* inject_port_ is set, null_sink_
          refused   \* history: a frame was taken out and could not be queued

txVars == <<live, eth, lwip, bench, txPool, txq, inject, ep, refused>>

Producing == [at |-> "idle", buf |-> Nothing, slot |-> 0]

TxInit ==
    /\ live = {} /\ lwip = {}
    /\ eth = Producing /\ bench = Producing
    /\ txPool = NewPool(BENCH_BUFFERS)
    /\ txq = NewQueue(TX_SLOTS)
    /\ inject = Producing
    /\ ep = [set |-> FALSE, nullSink |-> FALSE]
    /\ refused = FALSE

-----------------------------------------------------------------------------
(***************************************************************************)
(* The Ethernet driver's task: eth_input_cb(), try_hijack_udp() and        *)
(* accept_packet().                                                        *)
(***************************************************************************)

EthStep == UNCHANGED <<lwip, bench, txPool, inject, ep>>

(* What match_udp_dst() does not match goes to lwIP.  A frame without a   *)
(* payload or of a wrong length is freed, one for the null sink as well.  *)
EthInput(b, kind) ==
    /\ eth.at = "idle" /\ b \notin live
    /\ LET refuse == kind \in {"empty", "length"}
       IN \/ /\ kind = "other" \/ ~ep.set
             /\ live' = live \cup {b}
             /\ eth' = [eth EXCEPT !.at = "pass", !.buf = b]
             /\ UNCHANGED refused
          \/ /\ kind # "other" /\ ep.set /\ refuse
             /\ refused' = TRUE
             /\ eth' = [eth EXCEPT !.at = "pass", !.buf = b]
             /\ UNCHANGED live
          \/ /\ kind = "inject" /\ ep.set
             /\ live' = live \cup {b}
             /\ eth' = [eth EXCEPT !.at = "accept", !.buf = b]
             /\ UNCHANGED refused
    /\ UNCHANGED txq /\ EthStep

(* A plausible mistake: as if the frame had not been taken. *)
NullSinkPassesOn ==
    /\ eth.at = "accept" /\ ep.nullSink
    /\ live' = live \ {eth.buf}
    /\ eth' = [eth EXCEPT !.at = "pass"]
    /\ UNCHANGED <<txq, refused>> /\ EthStep

NullSink ==
    /\ eth.at = "accept" /\ ep.nullSink
    /\ live' = live \ {eth.buf}
    /\ eth' = Producing
    /\ UNCHANGED <<txq, refused>> /\ EthStep

EthClaim ==
    /\ eth.at = "accept" /\ ~ep.nullSink /\ CanClaim(txq)
    /\ txq' = Claim(txq)
    /\ eth' = [eth EXCEPT !.at = "store", !.slot = Claimed(txq)]
    /\ UNCHANGED <<live, refused>> /\ EthStep

(* The queue is full: the packet is destroyed and frees the buffer, and the *)
(* false that is returned makes eth_input_cb() pass the same buffer on.     *)
EthRefused ==
    /\ eth.at = "accept" /\ ~ep.nullSink /\ ~CanClaim(txq)
    /\ live' = live \ {eth.buf}
    /\ refused' = TRUE
    /\ eth' = [eth EXCEPT !.at = "pass"]
    /\ UNCHANGED txq /\ EthStep

EthStore ==
    /\ eth.at = "store"
    /\ txq' = Store(txq, eth.slot, eth.buf)
    /\ eth' = [eth EXCEPT !.at = "publish", !.buf = Nothing]
    /\ UNCHANGED <<live, refused>> /\ EthStep

EthPublish ==
    /\ eth.at = "publish"
    /\ txq' = Publish(txq, eth.slot)
    /\ eth' = Producing
    /\ UNCHANGED <<live, refused>> /\ EthStep

(* esp_netif_receive(). *)
PassOn ==
    /\ eth.at = "pass"
    /\ lwip' = lwip \cup {eth.buf}
    /\ eth' = Producing
    /\ UNCHANGED <<live, bench, txPool, txq, inject, ep, refused>>

LwipFrees(b) ==
    /\ b \in lwip
    /\ lwip' = lwip \ {b} /\ live' = live \ {b}
    /\ UNCHANGED <<eth, bench, txPool, txq, inject, ep, refused>>

-----------------------------------------------------------------------------
(***************************************************************************)
(* The benchmark's task: try_enqueue_one().                                *)
(***************************************************************************)

BenchStep == UNCHANGED <<live, eth, lwip, inject, ep, refused>>

BenchAllocate ==
    /\ bench.at = "idle" /\ txPool # <<>>
    /\ bench' = [bench EXCEPT !.at = "claim", !.buf = Head(txPool)]
    /\ txPool' = Tail(txPool)
    /\ UNCHANGED txq /\ BenchStep

BenchClaim ==
    /\ bench.at = "claim" /\ CanClaim(txq)
    /\ txq' = Claim(txq)
    /\ bench' = [bench EXCEPT !.at = "store", !.slot = Claimed(txq)]
    /\ UNCHANGED txPool /\ BenchStep

(* A plausible mistake: the packet of a full queue is forgotten. *)
BenchForgets ==
    /\ bench.at = "claim" /\ ~CanClaim(txq)
    /\ bench' = Producing
    /\ UNCHANGED <<txPool, txq>> /\ BenchStep

BenchRefused ==
    /\ bench.at = "claim" /\ ~CanClaim(txq)
    /\ txPool' = Append(txPool, bench.buf)
    /\ bench' = Producing
    /\ UNCHANGED txq /\ BenchStep

BenchStore ==
    /\ bench.at = "store"
    /\ txq' = Store(txq, bench.slot, bench.buf)
    /\ bench' = [bench EXCEPT !.at = "publish", !.buf = Nothing]
    /\ UNCHANGED txPool /\ BenchStep

BenchPublish ==
    /\ bench.at = "publish"
    /\ txq' = Publish(txq, bench.slot)
    /\ bench' = Producing
    /\ UNCHANGED txPool /\ BenchStep

-----------------------------------------------------------------------------
(***************************************************************************)
(* The inject task: pop() and the end of the packet in run().              *)
(***************************************************************************)

InjectStep == UNCHANGED <<eth, lwip, bench, ep, refused>>

InjectTake ==
    /\ inject.at = "idle" /\ CanTake(txq)
    /\ txq' = Take(txq)
    /\ inject' = [Producing EXCEPT !.at = "move", !.slot = Taken(txq)]
    /\ UNCHANGED <<live, txPool>> /\ InjectStep

InjectMove ==
    /\ inject.at = "move"
    /\ txq' = MoveOut(txq, inject.slot)
    /\ inject' = [inject EXCEPT !.at = "give", !.buf = txq.slots[inject.slot]]
    /\ UNCHANGED <<live, txPool>> /\ InjectStep

InjectGive ==
    /\ inject.at = "give"
    /\ txq' = GiveBack(txq, inject.slot)
    /\ inject' = [inject EXCEPT !.at = "send", !.slot = 0]
    /\ UNCHANGED <<live, txPool>> /\ InjectStep

(* A plausible mistake: only packets of the pool are given back. *)
InjectDoneKeeps ==
    /\ inject.at = "send"
    /\ txPool' = IF inject.buf \in BENCH_BUFFERS THEN Append(txPool, inject.buf)
                                                ELSE txPool
    /\ inject' = Producing
    /\ UNCHANGED <<live, txq>> /\ InjectStep

(* The frame is injected, or not, and its packet is destroyed: reset(). *)
InjectDone ==
    /\ inject.at = "send"
    /\ \/ /\ inject.buf \in BENCH_BUFFERS
          /\ txPool' = Append(txPool, inject.buf)
          /\ UNCHANGED live
       \/ /\ inject.buf \in FRAME_BUFFERS
          /\ live' = live \ {inject.buf}
          /\ UNCHANGED txPool
    /\ inject' = Producing
    /\ UNCHANGED txq /\ InjectStep

-----------------------------------------------------------------------------
(* set_endpoint() and clear(); set_null_sink(). *)
SetUpstreamTx ==
    /\ ep' = [ep EXCEPT !.set = ~@]
    /\ UNCHANGED <<live, eth, lwip, bench, txPool, txq, inject, refused>>

SetNullSink ==
    /\ ep' = [ep EXCEPT !.nullSink = ~@]
    /\ UNCHANGED <<live, eth, lwip, bench, txPool, txq, inject, refused>>

(* Somebody goes on with a buffer that is free: what the program does from *)
(* then on is undefined, and the model stops.                              *)
Undefined == ~(lwip \subseteq live)

TxStep ==
    \/ \E b \in FRAME_BUFFERS, kind \in KINDS : EthInput(b, kind)
    \/ NullSink \/ EthClaim \/ EthRefused \/ EthStore \/ EthPublish \/ PassOn
    \/ \E b \in FRAME_BUFFERS : LwipFrees(b)
    \/ BenchAllocate \/ BenchClaim \/ BenchRefused \/ BenchStore \/ BenchPublish
    \/ InjectTake \/ InjectMove \/ InjectGive \/ InjectDone
    \/ SetUpstreamTx \/ SetNullSink

TxNext == ~Undefined /\ TxStep

TxSpec == TxInit /\ [][TxNext]_txVars

-----------------------------------------------------------------------------
(***************************************************************************)
(* Properties.                                                             *)
(***************************************************************************)

TxSlotsHeld ==
    LET With(t) == IF t.slot # 0 THEN <<t.slot>> ELSE <<>>
    IN With(eth) \o With(bench) \o With(inject)

(* How many hold a buffer: the tasks and the slots of the queue. *)
Holders(b) ==
    Quantify({"eth", "bench", "inject"},
             LAMBDA t : b = [eth |-> eth, bench |-> bench, inject |-> inject][t].buf)
    + Quantify(DOMAIN txq.slots, LAMBDA i : txq.slots[i] = b)

(* Every slot of the queue and every buffer of the TX pool is in one place, *)
(* with two producers and a consumer that run at any time.                  *)
TxInOnePlace ==
    /\ SlotsInOnePlace(txq, TxSlotsHeld)
    /\ IsInjective(txPool)
    /\ \A b \in BENCH_BUFFERS :
          Holders(b) = IF b \in Range(txPool) THEN 0 ELSE 1

(* No allocated Ethernet buffer is lost: somebody has it who will free it. *)
NoBufferLost == \A b \in live : b \in lwip \/ Holders(b) > 0

(* An allocated buffer is with the driver's task, in the queue, with the *)
(* inject task or with lwIP, and with one of them only; one that was     *)
(* freed is in use by none of them.                                      *)
BufferHasOneOwner ==
    \A b \in FRAME_BUFFERS :
        IF b \in live
        THEN Holders(b) + (IF b \in lwip THEN 1 ELSE 0) = 1
        ELSE b \notin lwip \cup Range(txq.slots) \cup {inject.buf}

(* That holds as long as every frame that was taken out of the driver's  *)
(* input could be queued; and even then no buffer is lost.               *)
BuffersOwned == NoBufferLost /\ (~refused => BufferHasOneOwner)

(* The queue of slots is a bounded first-in-first-out queue of buffers. *)
TxFifo == INSTANCE BoundedFifo
    WITH fifo <- Contents(txq), Elements <- FRAME_BUFFERS \cup BENCH_BUFFERS,
         CAPACITY <- TX_SLOTS
TxFifoSpec == TxFifo!Spec
=============================================================================

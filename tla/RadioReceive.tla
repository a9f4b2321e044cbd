---------------------------- MODULE RadioReceive ----------------------------
(***************************************************************************)
(* From the air to the manager: wifi_rx.cpp, packet.cpp, the drain task of *)
(* upstream_rx_endpoint.cpp and the console commands that act on them.     *)
(* Three tasks share this state without a lock.  The Wi-Fi task runs the   *)
(* promiscuous callback: it checks the frame's prefix against the rules,   *)
(* drops a repeated frame, copies the frame into a buffer of the pool and  *)
(* queues it.  The drain task takes it from there and sends it to the      *)
(* destination the console has set.                                        *)
(*                                                                         *)
(* A frame is its number; of it the air shows the sequence number.  Only   *)
(* what changes state here is kept of the callback's filters: a frame of   *)
(* another kind, domain or length is one that is not heard.  The pool's    *)
(* reference counts are left out: nothing calls share().                   *)
(***************************************************************************)
EXTENDS SlotQueue, FrameRules, FiniteSets, SequencesExt

CONSTANTS BUFFERS,      \* of the pool, as many as the queue has slots,
                        \*   WIFI_RADIO_RX_QUEUE, 8 in the code
          SEQS,         \* size of the sequence number space, 4096
          DESTINATIONS, \* <<host, port>>, as set_upstream_rx may set
          FRAMES,       \* bounds: frames sent,
          MISSED,       \*   of them not heard in a row,
          RX_COMMANDS   \*   console commands

ASSUME RadioReceiveAssumption ==
    /\ IsFiniteSet(BUFFERS) /\ BUFFERS # {} /\ Nothing \notin BUFFERS
    /\ SEQS \in Nat \ {0}
    /\ DESTINATIONS \subseteq (Nat \ {0}) \X (Nat \ {0})
    /\ {FRAMES, MISSED, RX_COMMANDS} \subseteq Nat

VARIABLES heard,     \* the number of the frame the callback had last
          rules,     \* g_rules
          wifi,      \* the Wi-Fi task in the callback
          dedup,     \* dedup_valid_, dedup_wlan_seq_
          pool,      \* the free buffers, and what is in each buffer
          rxq,       \* the frame queue
          drain,     \* the drain task
          dest,      \* dest_host_, dest_port_, dest_active_
          asked,     \* used and dest, set under the lock
          console,   \* what the console's thread is still to write
          rxSpent,   \* commands so far, by kind
          sent       \* history: the last frame that went to the manager

rxVars == <<heard, rules, wifi, dedup, pool, rxq, drain, dest, asked, console,
            rxSpent, sent>>

CAP == Cardinality(BUFFERS)

None      == <<0, 0>>    \* no destination
RxIdle    == [at |-> "idle", frame |-> 0, mode |-> "TUNNEL", round |-> 0,
              read |-> NotReading, buf |-> Nothing, slot |-> 0]
DrainIdle == [at |-> "pop", slot |-> 0, buf |-> Nothing, host |-> 0, clean |-> FALSE]

WifiAt(at)  == wifi.at = at
DrainAt(at) == drain.at = at

RxInit ==
    /\ heard = 0
    /\ rules = FirstRules
    /\ wifi = RxIdle
    /\ dedup = [valid |-> FALSE, seq |-> 0]
    /\ pool = [free |-> NewPool(BUFFERS), data |-> [b \in BUFFERS |-> 0]]
    /\ rxq = NewQueue(CAP)
    /\ drain = DrainIdle
    /\ dest = [host |-> 0, port |-> 0, active |-> FALSE]
    /\ asked = None
    /\ console = <<>>
    /\ rxSpent = [all |-> 0, clears |-> 0, resets |-> 0]
    /\ sent = 0

-----------------------------------------------------------------------------
(***************************************************************************)
(* The callback, on the Wi-Fi task: on_promiscuous().                      *)
(***************************************************************************)

WifiStep == UNCHANGED <<rules, drain, dest, asked, console, rxSpent, sent>>

(* The driver has a frame: the next one, one after some that were lost, or *)
(* the last one again.                                                     *)
Hear(n, mode) ==
    /\ WifiAt("idle")
    /\ n \in {heard} \cup (heard + 1)..(heard + 1 + MISSED)
    /\ n \in 1..FRAMES
    /\ heard' = n
    /\ wifi' = [RxIdle EXCEPT !.at = "rules", !.frame = n, !.mode = mode,
                              !.round = 1, !.read = StartRead]
    /\ UNCHANGED <<dedup, pool, rxq>> /\ WifiStep

ReadRules ==
    /\ WifiAt("rules") /\ ~HasRead(wifi.read)
    /\ wifi' = [wifi EXCEPT !.read = ReadStep(@, rules)]
    /\ UNCHANGED <<heard, dedup, pool, rxq>> /\ WifiStep

(* The prefix is looked at twice, by the callback and by accept_mpdu(). *)
Filter ==
    /\ WifiAt("rules") /\ HasRead(wifi.read)
    /\ wifi' = IF ~PrefixMatch(wifi.read, wifi.mode) THEN RxIdle
               ELSE IF wifi.round = 1
               THEN [wifi EXCEPT !.round = 2, !.read = StartRead]
               ELSE [wifi EXCEPT !.at = "accepted", !.read = NotReading]
    /\ UNCHANGED <<heard, dedup, pool, rxq>> /\ WifiStep

Seq12(n)  == n % SEQS

(* A plausible mistake: the number of a repeated frame is not looked up. *)
RepeatedNever(n) == dedup.valid /\ FALSE

Repeated(n) == dedup.valid /\ dedup.seq = Seq12(n)

DropRepeat ==
    /\ WifiAt("accepted") /\ Repeated(wifi.frame)
    /\ wifi' = RxIdle
    /\ UNCHANGED <<heard, dedup, pool, rxq>> /\ WifiStep

Remember(n) == dedup' = [valid |-> TRUE, seq |-> Seq12(n)]

(* The frame is remembered before there is a buffer for it. *)
DropNoBuffer ==
    /\ WifiAt("accepted") /\ ~Repeated(wifi.frame)
    /\ Remember(wifi.frame)
    /\ pool.free = <<>>
    /\ wifi' = RxIdle
    /\ UNCHANGED <<heard, pool, rxq>> /\ WifiStep

Allocate ==
    /\ WifiAt("accepted") /\ ~Repeated(wifi.frame)
    /\ Remember(wifi.frame)
    /\ pool.free # <<>>
    /\ LET b == Head(pool.free)
       IN /\ pool' = [free |-> Tail(pool.free),
                      data |-> [pool.data EXCEPT ![b] = wifi.frame]]
          /\ wifi' = [wifi EXCEPT !.at = "claim", !.buf = b]
    /\ UNCHANGED <<heard, rxq>> /\ WifiStep

(* try_push(); that it is never refused here is RoomForBuffers. *)
RxClaim ==
    /\ WifiAt("claim") /\ CanClaim(rxq)
    /\ rxq' = Claim(rxq)
    /\ wifi' = [wifi EXCEPT !.at = "store", !.slot = Claimed(rxq)]
    /\ UNCHANGED <<heard, dedup, pool>> /\ WifiStep

RxStore ==
    /\ WifiAt("store")
    /\ rxq' = Store(rxq, wifi.slot, wifi.buf)
    /\ wifi' = [wifi EXCEPT !.at = "publish", !.buf = Nothing]
    /\ UNCHANGED <<heard, dedup, pool>> /\ WifiStep

RxPublish ==
    /\ WifiAt("publish")
    /\ rxq' = Publish(rxq, wifi.slot)
    /\ wifi' = RxIdle
    /\ UNCHANGED <<heard, dedup, pool>> /\ WifiStep

-----------------------------------------------------------------------------
(***************************************************************************)
(* The drain task: run_drain() and send_one().                             *)
(***************************************************************************)

DrainStep == UNCHANGED <<heard, rules, wifi, dedup, dest, asked, console, rxSpent>>

DrainTake ==
    /\ DrainAt("pop") /\ CanTake(rxq)
    /\ rxq' = Take(rxq)
    /\ drain' = [DrainIdle EXCEPT !.at = "move", !.slot = Taken(rxq)]
    /\ UNCHANGED <<pool, sent>> /\ DrainStep

DrainMove ==
    /\ DrainAt("move")
    /\ rxq' = MoveOut(rxq, drain.slot)
    /\ drain' = [drain EXCEPT !.at = "give", !.buf = rxq.slots[drain.slot]]
    /\ UNCHANGED <<pool, sent>> /\ DrainStep

DrainGive ==
    /\ DrainAt("give")
    /\ rxq' = GiveBack(rxq, drain.slot)
    /\ drain' = [drain EXCEPT !.at = "active", !.slot = 0]
    /\ UNCHANGED <<pool, sent>> /\ DrainStep

Release(b) == pool' = [pool EXCEPT !.free = Append(@, b)]

(* Without a destination the frame is dropped; with one that is being *)
(* changed the three loads may see some of both.                      *)
DrainUnset ==
    /\ DrainAt("active") /\ ~dest.active
    /\ Release(drain.buf)
    /\ drain' = DrainIdle
    /\ UNCHANGED <<rxq, sent>> /\ DrainStep

DrainActive ==
    /\ DrainAt("active") /\ dest.active
    /\ drain' = [drain EXCEPT !.at = "host", !.clean = console = <<>>]
    /\ UNCHANGED <<rxq, pool, sent>> /\ DrainStep

DrainHost ==
    /\ DrainAt("host")
    /\ drain' = [drain EXCEPT !.at = "port", !.host = dest.host]
    /\ UNCHANGED <<rxq, pool, sent>> /\ DrainStep

(* The datagram goes out and the packet is destroyed. *)
DrainSend ==
    /\ DrainAt("port")
    /\ sent' = pool.data[drain.buf]
    /\ Release(drain.buf)
    /\ drain' = DrainIdle
    /\ UNCHANGED rxq /\ DrainStep

(* There is no socket, or lwIP does not take the datagram: it is counted. *)
DrainFail ==
    /\ DrainAt("port")
    /\ Release(drain.buf)
    /\ drain' = DrainIdle
    /\ UNCHANGED <<rxq, sent>> /\ DrainStep

-----------------------------------------------------------------------------
(***************************************************************************)
(* The console's thread: set_endpoint(), clear(), frameSetMode() and       *)
(* reset_promisc_stats().  What it writes is atomic one by one.            *)
(***************************************************************************)

Dest(what, value) == [what |-> what, value |-> value]

(* A plausible mistake: the destination is active before it is there. *)
SetActiveFirst(d) ==
    <<Dest("active", TRUE), Dest("host", d[1]), Dest("port", d[2])>>

SetWrites(d) ==
    <<Dest("host", d[1]), Dest("port", d[2]), Dest("active", TRUE)>>

(* A plausible mistake: an endpoint without address is still active. *)
ClearLeavesActive == <<Dest("host", 0), Dest("port", 0)>>

ClearWrites == <<Dest("host", 0), Dest("port", 0), Dest("active", FALSE)>>

RxCommand(kind) ==
    /\ console = <<>> /\ rxSpent.all < RX_COMMANDS
    /\ rxSpent' = [all    |-> rxSpent.all + 1,
                   clears |-> rxSpent.clears + IF kind = "clear" THEN 1 ELSE 0,
                   resets |-> rxSpent.resets + IF kind = "reset" THEN 1 ELSE 0]
    /\ drain' = [drain EXCEPT !.clean = FALSE]
    /\ UNCHANGED <<heard, rules, wifi, pool, rxq, dest, sent>>

SetUpstreamRx(d) ==
    /\ RxCommand("set")
    /\ d # asked
    /\ asked' = d /\ console' = SetWrites(d)
    /\ UNCHANGED dedup

ClearUpstreamRx ==
    /\ RxCommand("clear")
    /\ asked' = None /\ console' = ClearWrites
    /\ UNCHANGED dedup

SetMode(mode) ==
    /\ RxCommand("mode")
    /\ console' = ModeWrites(mode)
    /\ UNCHANGED <<dedup, asked>>

ResetPromiscStats ==
    /\ RxCommand("reset")
    /\ dedup' = [dedup EXCEPT !.valid = FALSE]
    /\ UNCHANGED <<asked, console>>

ConsoleWrite ==
    /\ console # <<>>
    /\ console' = Tail(console)
    /\ LET w == Head(console)
       IN IF w.what \in {"host", "port", "active"}
          THEN dest' = [dest EXCEPT ![w.what] = w.value] /\ UNCHANGED rules
          ELSE rules' = Written(rules, w) /\ UNCHANGED dest
    /\ UNCHANGED <<heard, wifi, dedup, pool, rxq, drain, asked, rxSpent, sent>>

-----------------------------------------------------------------------------
RxNext ==
    \/ \E n \in 1..FRAMES, mode \in LiveModes : Hear(n, mode)
    \/ ReadRules \/ Filter \/ DropRepeat \/ DropNoBuffer \/ Allocate
    \/ RxClaim \/ RxStore \/ RxPublish
    \/ DrainTake \/ DrainMove \/ DrainGive \/ DrainUnset
    \/ DrainActive \/ DrainHost \/ DrainSend \/ DrainFail
    \/ \E d \in DESTINATIONS : SetUpstreamRx(d)
    \/ ClearUpstreamRx \/ ResetPromiscStats \/ ConsoleWrite
    \/ \E mode \in LiveModes : SetMode(mode)

RxSpec == RxInit /\ [][RxNext]_rxVars

-----------------------------------------------------------------------------
(***************************************************************************)
(* Properties.                                                             *)
(***************************************************************************)

(* The slots and the buffers that are with a task, each of them once. *)
RxSlotsHeld ==
    (IF wifi.slot # 0 THEN <<wifi.slot>> ELSE <<>>)
    \o IF drain.slot # 0 THEN <<drain.slot>> ELSE <<>>

RxBuffersHeld ==
    {b \in {wifi.buf, drain.buf} : b # Nothing} \cup
    {b \in Range(rxq.slots) : b # Nothing}

(* Every slot and every buffer is in one place at any time, none leaks and *)
(* none is used by two, whatever the order in which the tasks run; what is *)
(* queued leaves as it came.  try_push(), pop() and packet_allocator.      *)
RxInOnePlace ==
    /\ SlotsInOnePlace(rxq, RxSlotsHeld)
    /\ IsInjective(pool.free) /\ Range(pool.free) \cap RxBuffersHeld = {}
    /\ Range(pool.free) \cup RxBuffersHeld = BUFFERS
    /\ \A i, j \in DOMAIN rxq.slots :
          rxq.slots[i] = rxq.slots[j] /\ rxq.slots[i] # Nothing => i = j
    /\ {wifi.buf, drain.buf} \cap Range(rxq.slots) \subseteq {Nothing}
    /\ wifi.buf = drain.buf => wifi.buf = Nothing

(* A frame that has got a buffer finds a slot: with as many buffers as    *)
(* slots, and a consumer that gives the slot back before the buffer, the  *)
(* queue is never full when the pool was not empty.                       *)
RoomForBuffers == WifiAt("claim") => CanClaim(rxq)

(* The queue of slots is a bounded first-in-first-out queue of buffers. *)
RxFifo == INSTANCE BoundedFifo
    WITH fifo <- Contents(rxq), Elements <- BUFFERS, CAPACITY <- CAP
RxFifoSpec == RxFifo!Spec

(* The manager gets each frame once and none before an earlier one, with *)
(* the bytes it was received with; only a reset of the statistics makes  *)
(* the filter forget the last frame.                                     *)
ForwardedOnce ==
    [][DrainSend => \/ sent' > sent
                    \/ rxSpent.resets > 0 /\ sent' = sent]_rxVars

(* A datagram whose destination was looked up while no command was under *)
(* way goes to the destination that was set, and one to half a           *)
(* destination is possible only once it was cleared: the order of the    *)
(* stores in set_endpoint() and of the loads in run_drain().             *)
SentAsSet ==
    [][DrainSend =>
          LET to == <<drain.host, dest.port>>
          IN /\ drain.clean => to = asked /\ asked # None
             /\ rxSpent.clears = 0 => 0 \notin {to[1], to[2]}]_rxVars

(* A reader of the rules that found the number unchanged has one mode's *)
(* prefix: the seqlock of snapshot_rules() and RulesWriter.             *)
RulesReadWhole == ReadsWhole(wifi.read)
=============================================================================

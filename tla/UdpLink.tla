------------------------------- MODULE UdpLink -------------------------------
(***************************************************************************)
(* One UDP stream from the manager of one host to the manager of the       *)
(* other: the endpoint with or without FEC, its queue, the numbering, the  *)
(* radio hop, and the numbering, decoding and delivery at the peer.        *)
(*                                                                         *)
(* Each manager is one reactor thread, so its handlers are steps.  When    *)
(* the queue's head is sent is up to the scheduler (module TxScheduler).   *)
(*                                                                         *)
(* The air keeps the order (each hop is a FIFO); it loses PDUs, and the    *)
(* one just received may be received again.  What the two managers do      *)
(* while a PDU is on the way commutes with its arrival, so at most one is  *)
(* on the way, and it arrives or is lost before anything else happens.     *)
(***************************************************************************)
EXTENDS AirSeq, BasicFec

CONSTANTS MODES,        \* [k, n] that FEC can be given
          TXQ_MAX,      \* k_max_udp_queue, 1024 in the code
          MAX_SEND,     \* bound: datagrams of the local application
          MAX_FAIL,     \* bound: sends that the radio's socket refuses
          MAX_INIT,     \* bound: how often FEC is started
          MAX_APP,      \* bound: changes of the peer's application
          MAX_TWICE     \* bound: PDUs that are received again

ASSUME UdpLinkAssumption ==
    /\ \A m \in MODES : m.k \in Nat /\ m.n \in Nat /\ m.k >= 1 /\ m.n > m.k
    /\ TXQ_MAX \in Nat \ {0}
    /\ EMPTY \notin Nat \ {0}     \* datagrams are numbered from 1; none is empty
    /\ {MAX_SEND, MAX_FAIL, MAX_INIT, MAX_APP, MAX_TWICE} \subseteq Nat

VARIABLES queue,      \* txq: datagrams [kind, body] or shards that wait
          fec,        \* the FEC object of the sending endpoint
          seq,        \* the numbers of the sending side
          air,        \* what is on the way: [num, seq, pdu], or nothing
          peer,       \* the peer's numbers, FEC object, application known
          history     \* what the properties speak about

vars == <<queue, fec, seq, air, peer, history>>

Init ==
    /\ queue = <<>>
    /\ fec = NoFec
    /\ seq = NewSeq
    /\ air = <<>>
    /\ peer = [seq |-> NewSeq, fec |-> NoFec, dest |-> TRUE]
    /\ history = [sent |-> 0, fails |-> 0, inits |-> 0, apps |-> 0, twice |-> 0,
                  stamped |-> 0, first |-> 0, last |-> 0, count |-> 0,
                  shards |-> {}, delivered |-> <<>>]

Quiet == air = <<>>

-----------------------------------------------------------------------------
(* The sending endpoint. *)

Plain(d)       == [kind |-> "plain", body |-> [data |-> d]]
Shards(shards) == [j \in DOMAIN shards |-> [kind |-> "shard", body |-> shards[j]]]

(* enqueue_air() for each PDU: a full queue drops its oldest. *)
Enqueued(pdus) ==
    LET all == queue \o pdus
    IN  IF Len(all) > TXQ_MAX THEN DropOldest(all, Len(all) - TXQ_MAX) ELSE all

QueueShards(result) ==
    /\ fec' = result.fec
    /\ queue' = Enqueued(Shards(result.out))

(* on_app(): a datagram of a local application. *)
OnApp ==
    /\ Quiet /\ history.sent < MAX_SEND
    /\ LET d == history.sent + 1
       IN  /\ history' = [history EXCEPT !.sent = d]
           /\ IF Enabled(fec)
              THEN QueueShards(PushApp(fec, d))
              ELSE queue' = Enqueued(<<Plain(d)>>) /\ UNCHANGED fec
    /\ UNCHANGED <<seq, air, peer>>

(* on_tick() with a block that has waited for fec.timeout_ms; also         *)
(* announce_down() at exit.                                                *)
OnTick ==
    /\ Quiet /\ fec.pending # <<>>
    /\ QueueShards(Flush(fec))
    /\ UNCHANGED <<seq, air, peer, history>>

(* set_fec(): the block begun is flushed, then encoding starts or stops. *)
SetFec ==
    /\ Quiet
    /\ LET flushed == Flush(fec)
       IN  \/ /\ Enabled(fec)
              /\ QueueShards([flushed EXCEPT !.fec = Disable(@)])
              /\ UNCHANGED history
           \/ /\ history.inits < MAX_INIT
              /\ \E m \in MODES :
                    QueueShards([flushed EXCEPT !.fec = InitFec(m.k, m.n)])
              /\ history' = [history EXCEPT !.inits = @ + 1]
    /\ UNCHANGED <<seq, air, peer>>

(* Mutant of AfterSend: the head is removed although the send failed. *)
AfterSendAlways(sent) == Tail(queue)

(* commit_tx() follows a send that succeeded. *)
AfterSend(sent) == IF sent THEN Tail(queue) ELSE queue

(* emit_mpdu() takes a copy of the head, numbers it and sends it.  A       *)
(* refused send uses up the number.                                        *)
Send(sent) ==
    /\ Quiet /\ queue # <<>>
    /\ ~sent => history.fails < MAX_FAIL
    /\ queue' = AfterSend(sent)
    /\ seq' = Stamp(seq)
    /\ air' = IF sent
              THEN <<[num |-> history.stamped, seq |-> seq.tx, pdu |-> Head(queue)]>>
              ELSE <<>>
    /\ history' = [history EXCEPT !.fails   = IF sent THEN @ ELSE @ + 1,
                                  !.stamped = @ + 1]
    /\ UNCHANGED <<fec, peer>>

-----------------------------------------------------------------------------
(* The peer. *)

(* Holding times are over for the oldest blocks; a finished number is not  *)
(* forgotten while shards of its block are on the way.                     *)
MayExpire(b, e) ==
    LET waiting == {p.body : p \in {q \in ToSet(queue) \cup {a.pdu : a \in ToSet(air)} :
                                      q.kind = "shard"}}
    IN  /\ b <= Len(peer.fec.blocks) /\ e <= Len(peer.fec.done)
        /\ \A j \in 1..e, s \in waiting :
              s.id # peer.fec.done[j].id \/ s.rows # peer.fec.done[j].rows

(* on_radio_rx() of the endpoint, which learns nothing before it knows a   *)
(* local application to send to.                                           *)
OnRadioRx(pdu, b, e) ==
    IF ~peer.dest THEN [fec |-> peer.fec, out |-> <<>>]
    ELSE IF pdu.kind = "plain" THEN [fec |-> peer.fec, out |-> <<pdu.body.data>>]
    ELSE PushAir(ExpireRx(peer.fec, b, e), pdu.body)

(* The shards that the receiver gives up, when b blocks are too old and    *)
(* when a block more finds no room.                                        *)
GivenUp(b, s) ==
    LET f    == ExpireRx(peer.fec, b, 0)
        full == Len(f.blocks) = BLOCK_MAX /\ ~IsOpen(f, s.id) /\ ~IsDone(f, s.id)
    IN  UNION {peer.fec.blocks[j].frags : j \in 1..(b + IF full THEN 1 ELSE 0)}

(* The assumption about the radio: fewer than half the numbers are lost in *)
(* a row (32768 PDUs of one stream).                                       *)
WithinHalf == history.count > 0
                => air[1].num - history.last <= SEQ_MOD \div 2

(* on_mpdu_rx(): the number is looked at, then the PDU goes to the stream. *)
Receive(again) ==
    /\ ~Quiet /\ WithinHalf
    /\ again => history.twice < MAX_TWICE
    /\ LET pdu   == air[1].pdu
           fresh == Accepts(peer.seq, air[1].seq)
           shard == fresh /\ peer.dest /\ pdu.kind = "shard"
       IN  IF ~fresh
           THEN /\ history' = [history EXCEPT !.twice = IF again THEN @ + 1 ELSE @]
                /\ UNCHANGED peer
           ELSE \E b \in 0..BLOCK_MAX, e \in 0..DONE_MAX :
             /\ IF shard THEN MayExpire(b, e) ELSE b + e = 0
             /\ LET rx == OnRadioRx(pdu, b, e)
                IN  /\ peer' = [peer EXCEPT !.seq = NoteRx(@, air[1].seq),
                                            !.fec = rx.fec]
                    /\ history' = [history EXCEPT
                         !.twice     = IF again THEN @ + 1 ELSE @,
                         !.delivered = @ \o rx.out,
                         !.shards    = IF shard
                                       THEN (@ \ GivenUp(b, pdu.body)) \cup {pdu.body}
                                       ELSE @,
                         !.first     = IF history.count = 0 THEN air[1].num ELSE @,
                         !.last      = air[1].num,
                         !.count     = @ + 1]
    /\ air' = IF again THEN air ELSE <<>>
    /\ UNCHANGED <<queue, fec, seq>>

Lose ==
    /\ ~Quiet
    /\ air' = <<>>
    /\ UNCHANGED <<queue, fec, seq, peer, history>>

(* on_tick() of the peer's endpoint. *)
PeerTick ==
    /\ Quiet
    /\ \E b \in 0..BLOCK_MAX, e \in 0..DONE_MAX :
          /\ b + e > 0
          /\ MayExpire(b, e)
          /\ peer' = [peer EXCEPT !.fec = ExpireRx(@, b, e)]
          /\ history' = [history EXCEPT !.shards = @ \ UNION
                           {peer.fec.blocks[j].frags : j \in 1..b}]
    /\ UNCHANGED <<queue, fec, seq, air>>

(* The application of the peer's side sends a first datagram, or its port  *)
(* is found closed.                                                        *)
PeerApp ==
    /\ Quiet /\ history.apps < MAX_APP
    /\ peer' = [peer EXCEPT !.dest = ~@]
    /\ history' = [history EXCEPT !.apps = @ + 1]
    /\ UNCHANGED <<queue, fec, seq, air>>

Next ==
    \/ OnApp \/ OnTick \/ SetFec
    \/ \E sent \in BOOLEAN : Send(sent)
    \/ \E again \in BOOLEAN : Receive(again)
    \/ Lose \/ PeerTick \/ PeerApp

Spec == Init /\ [][Next]_vars

(* The assumption about the numbers of blocks: a block gets none that a    *)
(* shard in the queue has, that the peer has an unfinished block for, or   *)
(* that it remembers as finished.  Numbers that are counted up repeat only *)
(* after 65536 blocks, long after the hold times; starting FEC a second    *)
(* time repeats them at once.                                              *)
Taken == {q.body.id : q \in {p \in ToSet(queue) : p.kind = "shard"}}
            \cup {b.id : b \in ToSet(peer.fec.blocks)}
            \cup {d.id : d \in ToSet(peer.fec.done)}

NumberFree ==
    \A q \in ToSet(queue') \ ToSet(queue) : q.kind = "shard" => q.body.id \notin Taken

SpecNumberFree == Init /\ [][Next /\ NumberFree]_vars

-----------------------------------------------------------------------------
(* What the peer's application gets are datagrams that the local one sent, *)
(* unchanged, each at most once, in the order of sending: through lost     *)
(* PDUs, refused sends, blocks flushed half full, shards that come after   *)
(* their block was decoded, repeated PDUs, and FEC switched on and off     *)
(* (basic_fec.cpp push_air, decode_block, mark_done; udp_endpoint.cpp).    *)
DeliveredAsSent ==
    LET d == history.delivered
    IN  /\ ToSet(d) \subseteq 1..history.sent
        /\ \A j, l \in DOMAIN d : j < l => d[j] < d[l]

(* docs/manager.md: "The peer recovers the originals if any k of n shards  *)
(* arrive", unless the block was given up in between, too old or squeezed  *)
(* out by BLOCK_MAX newer ones.                                            *)
AnyKRecover ==
    \A s \in history.shards :
        Cardinality({t \in history.shards : t.rows = s.rows}) >= s.k
            => ToSet(s.rows) \ {EMPTY} \subseteq ToSet(history.delivered)

(* rx_pkt_loss counts the numbers that never came, through refused sends   *)
(* (whose numbers are used up), losses and repetitions (air_seq.cpp        *)
(* note_rx).                                                               *)
LostIsLost ==
    peer.seq.lost = IF history.count = 0 THEN 0
                    ELSE history.last - history.first + 1 - history.count

(* A datagram or shard leaves the queue only into a PDU that the radio's   *)
(* socket took, or as the oldest of a full queue: a refused send drops     *)
(* nothing (stream.h: "copy without dequeue until commit_tx after air      *)
(* send").                                                                 *)
NothingVanishes ==
    [][\A q \in ToSet(queue) :
          \/ q \in ToSet(queue')
          \/ \E a \in ToSet(air') : a.pdu = q
          \/ Len(queue') = TXQ_MAX]_vars
===============================================================================

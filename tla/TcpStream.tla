------------------------------ MODULE TcpStream ------------------------------
(***************************************************************************)
(* One end of the manager's TCP-over-radio stream, class tcp_stream        *)
(* (src/src/manager/stream/tcp_stream.{h,cpp}): selective-repeat ARQ with  *)
(* cumulative ACK and SACK, and the CONNECT / CLOSE / ABORT handshake.     *)
(*                                                                         *)
(* The class is single threaded, every method runs to completion on the    *)
(* manager's reactor.  A stream is therefore a record with the members of  *)
(* the class, and a method is an operator from record to record; the       *)
(* modules that use it (TcpSession, TcpForwarding) say who calls what.     *)
(*                                                                         *)
(* Abstractions.  A payload is one segment, never bytes: tcp_in and        *)
(* tcp_out are sequences of segments.  Clock readings are not kept: the    *)
(* caller says which timers have expired.  The seq field of frames other   *)
(* than DATA, which no receiver reads, is left out.                        *)
(***************************************************************************)
EXTENDS Integers, Sequences, FiniteSets

CONSTANTS
  MOD,              \* size of the sequence number space (65536: uint16_t)
  WINDOW,           \* k_window, most segments outstanding (256)
  TCP_IN_MAX,       \* k_tcp_in_max, in segments (512)
  MAX_SACK_BLOCKS,  \* k_max_sack_blocks (8)
  NONE              \* the payload of a frame that carries none

ASSUME StreamAssumption ==
  /\ MOD \in Nat
  /\ WINDOW \in Nat \ {0}
  /\ 2 * WINDOW <= MOD
  /\ TCP_IN_MAX \in Nat \ {0}
  /\ MAX_SACK_BLOCKS \in Nat

SeqNum == 0 .. MOD - 1

\* uint16_t arithmetic: static_cast<uint16_t>(a + n) and (a - b).
SeqAdd(a, n) == (a + n) % MOD
SeqDiff(a, b) == (a - b) % MOD

Least(S) == CHOOSE x \in S : \A y \in S : x <= y

-----------------------------------------------------------------------------
(* Frames on the radio.                                                    *)

CtrlType == {"CONNECT", "CLOSE", "ABORT"}

Frame(Payload) ==
  [type : CtrlType \cup {"DATA", "ACK"}, seq : SeqNum, ack : SeqNum,
   sack : SUBSET SeqNum, pay : Payload \cup {NONE}]

DataFrame(seq, ack, pay) ==
  [type |-> "DATA", seq |-> seq, ack |-> ack, sack |-> {}, pay |-> pay]

BareFrame(type, ack, sack) ==
  [type |-> type, seq |-> 0, ack |-> ack, sack |-> sack, pay |-> NONE]

-----------------------------------------------------------------------------
(* The stream's members.                                                   *)

Segment(Payload) ==
  [seq : SeqNum, pay : Payload, in_flight : BOOLEAN, sacked : BOOLEAN]

Stream(Payload) ==
  [local : BOOLEAN, peer_connect : BOOLEAN, peer_close : BOOLEAN,
   ack_pending : BOOLEAN,
   tx_seq : SeqNum, rx_seq : SeqNum, tx_acked : SeqNum,
   tcp_in : Seq(Payload), tcp_out : Seq(Payload),
   unacked : Seq(Segment(Payload)), ctrlq : Seq(CtrlType),
   reorder : [SeqNum -> Payload \cup {NONE}]]

\* The map reorder: NONE where it has no entry.
EmptyMap == [x \in SeqNum |-> NONE]
Keys(reorder) == {x \in SeqNum : reorder[x] # NONE}

\* reset(): also the state of a newly constructed stream.
Fresh ==
  [local |-> FALSE, peer_connect |-> FALSE, peer_close |-> FALSE,
   ack_pending |-> FALSE, tx_seq |-> 0, rx_seq |-> 0, tx_acked |-> 0,
   tcp_in |-> <<>>, tcp_out |-> <<>>, unacked |-> <<>>, ctrlq |-> <<>>,
   reorder |-> EmptyMap]

Established(s) == s.local /\ s.peer_connect /\ ~s.peer_close
WantsConnect(s) == s.peer_connect /\ ~s.local /\ ~s.peer_close
PeerConnected(s) == s.peer_connect /\ ~s.peer_close
AcceptsTcp(s) == Established(s) /\ Len(s.tcp_in) < TCP_IN_MAX

-----------------------------------------------------------------------------
(* The local application comes and goes.                                   *)

LocalUp(s) ==
  IF s.local THEN s
  ELSE [s EXCEPT !.local = TRUE, !.ctrlq = Append(@, "CONNECT")]

\* Mutant of Leave: still connected to the peer.
LeaveConnected(s, notices) ==
  IF ~s.local THEN s
  ELSE [s EXCEPT !.local = FALSE, !.ctrlq = @ \o notices, !.unacked = <<>>,
                 !.tcp_in = <<>>, !.reorder = EmptyMap]

\* What local_down and local_abort share; note what they do not clear:
\* tx_seq, rx_seq, tx_acked, tcp_out, ctrlq and peer_close.
Leave(s, notices) ==
  IF ~s.local THEN s
  ELSE [s EXCEPT !.local = FALSE, !.peer_connect = FALSE,
                 !.ctrlq = @ \o notices, !.unacked = <<>>,
                 !.tcp_in = <<>>, !.reorder = EmptyMap]

LocalDown(s) == Leave(s, <<"CLOSE", "CLOSE", "CLOSE">>)
LocalAbort(s) == Leave(s, <<"ABORT">>)

-----------------------------------------------------------------------------
(* Sending side.                                                           *)

\* Mutant of Cut: one segment more than the window.
CutTooMany(s) ==
  LET room == WINDOW + 1 - Len(s.unacked)
      n == IF Len(s.tcp_in) < room THEN Len(s.tcp_in) ELSE room
      segment(i) == [seq |-> SeqAdd(s.tx_seq, i - 1), pay |-> s.tcp_in[i],
                     in_flight |-> FALSE, sacked |-> FALSE]
  IN [s EXCEPT !.unacked = @ \o [i \in 1 .. n |-> segment(i)],
               !.tx_seq = SeqAdd(@, n),
               !.tcp_in = SubSeq(@, n + 1, Len(@))]

\* queue_data(): cut segments from tcp_in while the window has room.
Cut(s) ==
  LET room == WINDOW - Len(s.unacked)
      n == IF Len(s.tcp_in) < room THEN Len(s.tcp_in) ELSE room
      segment(i) == [seq |-> SeqAdd(s.tx_seq, i - 1), pay |-> s.tcp_in[i],
                     in_flight |-> FALSE, sacked |-> FALSE]
  IN [s EXCEPT !.unacked = @ \o [i \in 1 .. n |-> segment(i)],
               !.tx_seq = SeqAdd(@, n),
               !.tcp_in = SubSeq(@, n + 1, Len(@))]

QueueData(s) == IF Established(s) THEN Cut(s) ELSE s

OnTcpBytes(s, pay) ==
  IF Established(s) THEN Cut([s EXCEPT !.tcp_in = Append(@, pay)]) ELSE s

\* Mutant of SackRuns: each run one SN too long.
SackRunsTooLong(reorder, k) ==
  LET D == Keys(reorder)
      starts == {t \in D : t = 0 \/ t - 1 \notin D}
  IN {x \in SeqNum : (x \in D \/ x - 1 \in D) /\ Cardinality({t \in starts : t <= x}) <= k}

\* The SNs of the first k runs of consecutive keys of the ordered map reorder
\* (fill_sack_payload); a run is not followed from MOD - 1 to 0.
SackRuns(reorder, k) ==
  LET D == Keys(reorder)
      starts == {t \in D : t = 0 \/ t - 1 \notin D}
  IN {x \in D : Cardinality({t \in starts : t <= x}) <= k}

\* pull_tx(): what may be sent next and the stream that is left, control
\* frames first, then a due ACK, then DATA.  The space the caller offers
\* limits the SACK blocks of an ACK and which segment fits.
PullCtrl(s) ==
  IF s.ctrlq = <<>> THEN {}
  ELSE {[left |-> [s EXCEPT !.ctrlq = Tail(@)],
         frame |-> BareFrame(Head(s.ctrlq), s.rx_seq, {})]}

PullAck(s) ==
  IF s.ctrlq # <<>> \/ ~s.ack_pending THEN {}
  ELSE {[left |-> [s EXCEPT !.ack_pending = FALSE],
         frame |-> BareFrame("ACK", s.rx_seq, SackRuns(s.reorder, k))]
        : k \in 0 .. MAX_SACK_BLOCKS}

Sendable(s) ==
  {i \in DOMAIN s.unacked : ~s.unacked[i].in_flight /\ ~s.unacked[i].sacked}

PullData(s) ==
  IF s.ctrlq # <<>> \/ s.ack_pending THEN {}
  ELSE {[left |-> [s EXCEPT !.unacked[i].in_flight = TRUE],
         frame |-> DataFrame(s.unacked[i].seq, s.rx_seq, s.unacked[i].pay)]
        : i \in Sendable(s)}

PullTx(s) == PullCtrl(s) \cup PullAck(s) \cup PullData(s)

\* on_tick(): the part that is not about the handshake.  `due' are the
\* segments whose retransmission timer (k_rexmit) has run out.
Expire(s, due) ==
  [s EXCEPT !.unacked = [i \in DOMAIN @ |->
     IF i \in due /\ ~@[i].sacked THEN [@[i] EXCEPT !.in_flight = FALSE]
     ELSE @[i]]]

Connecting(s) == s.local /\ ~s.peer_connect /\ ~s.peer_close

\* on_tick() re-sends CONNECT when `reconnect' (k_rexmit since the last one).
Reconnect(s, reconnect) ==
  IF Connecting(s) /\ reconnect /\ (\A i \in DOMAIN s.ctrlq : s.ctrlq[i] # "CONNECT")
  THEN [s EXCEPT !.ctrlq = Append(@, "CONNECT")]
  ELSE s

\* on_tick() when neither give-up timer has run out.
OnTick(s, due, reconnect) == QueueData(Reconnect(Expire(s, due), reconnect))

-----------------------------------------------------------------------------
(* Receiving side.                                                         *)

\* Mutant of ApplyAck: an ACK number outside unacked acknowledges all of it.
ApplyAckClamped(s, ack) ==
  LET delta == SeqDiff(ack, s.tx_acked)
      n == IF delta < Len(s.unacked) THEN delta ELSE Len(s.unacked)
  IN [s EXCEPT !.unacked = SubSeq(@, n + 1, Len(@)), !.tx_acked = SeqAdd(@, n)]

ApplyAck(s, ack) ==
  LET delta == SeqDiff(ack, s.tx_acked)
  IN IF delta = 0 \/ delta > Len(s.unacked) \/ delta > WINDOW THEN s
     ELSE [s EXCEPT !.unacked = SubSeq(@, delta + 1, Len(@)),
                    !.tx_acked = SeqAdd(@, delta)]

\* Mutant of ApplySack: also marks what precedes a SACKed segment.
ApplySackUpTo(s, sns) ==
  [s EXCEPT !.unacked = [i \in DOMAIN @ |->
     IF \E j \in i .. Len(@) : @[j].seq \in sns
     THEN [@[i] EXCEPT !.sacked = TRUE] ELSE @[i]]]

ApplySack(s, sns) ==
  [s EXCEPT !.unacked = [i \in DOMAIN @ |->
     IF @[i].seq \in sns THEN [@[i] EXCEPT !.sacked = TRUE] ELSE @[i]]]

\* How many consecutive SNs from `first' on are buffered in reorder.
RunLength(reorder, first) ==
  Least({n \in 0 .. WINDOW : SeqAdd(first, n) \notin Keys(reorder)})

\* Mutant of DeliverRun: buffered segments are not released.
DeliverOne(s, pay) ==
  [s EXCEPT !.tcp_out = Append(@, pay), !.rx_seq = SeqAdd(@, 1), !.ack_pending = TRUE]

\* Mutant of DeliverRun: rx_seq does not move on.
DeliverAgain(s, pay) == [s EXCEPT !.tcp_out = Append(@, pay), !.ack_pending = TRUE]

\* deliver_data() of the segment the stream waits for, with the buffered
\* segments that it releases.
DeliverRun(s, pay) ==
  LET n == RunLength(s.reorder, SeqAdd(s.rx_seq, 1))
      released == {SeqAdd(s.rx_seq, i) : i \in 1 .. n}
  IN [s EXCEPT
        !.tcp_out = Append(@, pay) \o [i \in 1 .. n |-> s.reorder[SeqAdd(s.rx_seq, i)]],
        !.rx_seq = SeqAdd(@, n + 1),
        !.reorder = [x \in SeqNum |-> IF x \in released THEN NONE ELSE @[x]],
        !.ack_pending = TRUE]

\* deliver_data() of a later segment: keep the first copy.
Buffer(s, seq, pay) ==
  [s EXCEPT !.reorder = IF @[seq] = NONE THEN [@ EXCEPT ![seq] = pay] ELSE @,
            !.ack_pending = TRUE]

\* Mutants of DeliverData: a frame outside the window is buffered, or is dropped
\* without a new ACK.
DeliverOutsideWindow(s, seq, pay) ==
  CASE ~PeerConnected(s) -> s
    [] PeerConnected(s) /\ seq = s.rx_seq -> DeliverRun(s, pay)
    [] OTHER -> Buffer(s, seq, pay)
DeliverNoOldAck(s, seq, pay) ==
  CASE ~PeerConnected(s) \/ SeqDiff(seq, s.rx_seq) >= WINDOW -> s
    [] PeerConnected(s) /\ seq = s.rx_seq -> DeliverRun(s, pay)
    [] OTHER -> Buffer(s, seq, pay)

DeliverData(s, seq, pay) ==
  CASE ~PeerConnected(s) -> s
    [] PeerConnected(s) /\ SeqDiff(seq, s.rx_seq) >= WINDOW
         -> [s EXCEPT !.ack_pending = TRUE]
    [] PeerConnected(s) /\ SeqDiff(seq, s.rx_seq) < WINDOW /\ seq = s.rx_seq
         -> DeliverRun(s, pay)
    [] OTHER -> Buffer(s, seq, pay)

\* Mutant of OnConnect: a repeated CONNECT starts the receiver anew.
OnConnectAnew(s) ==
  [s EXCEPT !.rx_seq = 0, !.tcp_out = <<>>, !.reorder = EmptyMap,
            !.peer_connect = TRUE, !.peer_close = FALSE, !.ack_pending = TRUE]

\* The branches of parse_radio(), after apply_ack and apply_sack.
OnConnect(s) ==
  LET t == IF s.peer_connect THEN s
           ELSE [s EXCEPT !.rx_seq = 0, !.tcp_out = <<>>, !.reorder = EmptyMap]
  IN [t EXCEPT !.peer_connect = TRUE, !.peer_close = FALSE, !.ack_pending = TRUE]

OnClose(s) ==
  IF Established(s) THEN [s EXCEPT !.peer_close = TRUE, !.peer_connect = FALSE]
  ELSE [s EXCEPT !.ack_pending = TRUE]

ParseRadio(s, f) ==
  LET t == ApplyAck(s, f.ack)
  IN CASE f.type = "ACK" -> ApplySack(t, f.sack)
       [] f.type = "DATA" -> DeliverData(t, f.seq, f.pay)
       [] f.type = "CONNECT" -> OnConnect(t)
       [] f.type \in {"CLOSE", "ABORT"} -> OnClose(t)

OnRadioRx(s, f) == QueueData(ParseRadio(s, f))
=============================================================================

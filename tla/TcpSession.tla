------------------------------ MODULE TcpSession ------------------------------
(***************************************************************************)
(* Two tcp_stream objects from reset() through their handshake and one      *)
(* session, joined by a radio that loses, repeats and reorders frames       *)
(* without limit.  Either end comes up (local_up) when it likes; the session *)
(* ends, outside this module, when an end goes down or gives up.           *)
(*                                                                         *)
(* air[e] is every frame ever sent to e.  Receiving leaves the frame there, *)
(* so a frame may arrive never, once or often, and in any order.  The only  *)
(* thing asked of the radio is that it forgets a frame before sequence      *)
(* numbers wrap around far enough to be mistaken for new ones (Alive):      *)
(* 65280 segments for the 16-bit numbers of the code, over a minute of air  *)
(* time at the default 10 Mbit/s.                                          *)
(*                                                                         *)
(* The payload of the k-th segment written at an end is the number k.       *)
(***************************************************************************)
EXTENDS TcpStream

CONSTANTS
  End,           \* the two ends of the session
  MAX_SEGMENTS   \* bound: segments each end writes

ASSUME SessionAssumption ==
  /\ \E x, y \in End : x # y /\ End = {x, y}
  /\ MAX_SEGMENTS \in [End -> Nat]
  /\ NONE \notin Nat

VARIABLES
  stream,   \* stream[e]: the tcp_stream at e
  air,      \* air[e]: frames sent to e, each with the sender's receive count
  written,  \* written[e]: segments the application at e has written
  app       \* app[e]: segments the application at e has read

vars == <<stream, air, written, app>>

Peer(e) == CHOOSE p \in End : p # e

\* Everything e has received in order, read by the application or not yet.
Got(e) == app[e] \o stream[e].tcp_out
Received(e) == Len(app[e]) + Len(stream[e].tcp_out)

\* Segments of e that were cut from tcp_in, and those of them acknowledged.
Segmented(e) == written[e] - Len(stream[e].tcp_in)
Acked(e) == Segmented(e) - Len(stream[e].unacked)

Message == [frame : Frame(Nat), received : Nat]

Alive(e, m) ==
  /\ m.frame.type = "DATA" => Received(e) - (m.frame.pay - 1) <= MOD - WINDOW
  /\ Acked(e) - m.received < MOD - WINDOW

-----------------------------------------------------------------------------
Init ==
  /\ stream = [e \in End |-> Fresh]
  /\ air = [e \in End |-> {}]
  /\ written = [e \in End |-> 0]
  /\ app = [e \in End |-> <<>>]

\* local_up(): the endpoint's application is there.
Up(e) ==
  /\ ~stream[e].local
  /\ stream' = [stream EXCEPT ![e] = LocalUp(@)]
  /\ UNCHANGED <<air, written, app>>

\* on_tcp_bytes(), called only while accepts_tcp().
Write(e) ==
  /\ AcceptsTcp(stream[e])
  /\ written[e] < MAX_SEGMENTS[e]
  /\ written' = [written EXCEPT ![e] = @ + 1]
  /\ stream' = [stream EXCEPT ![e] = OnTcpBytes(@, written[e] + 1)]
  /\ UNCHANGED <<air, app>>

\* pull_tx() for the scheduler, which puts the frame on the air.
Transmit(e) ==
  \E p \in PullTx(stream[e]) :
    /\ stream' = [stream EXCEPT ![e] = p.left]
    /\ air' = [air EXCEPT ![Peer(e)] =
                 @ \cup {[frame |-> p.frame, received |-> Received(e)]}]
    /\ UNCHANGED <<written, app>>

\* on_radio_rx()
Receive(e) ==
  \E m \in air[e] :
    /\ Alive(e, m)
    /\ stream' = [stream EXCEPT ![e] = OnRadioRx(@, m.frame)]
    /\ UNCHANGED <<air, written, app>>

\* on_tick(): any segments may have reached their retransmission time, and so
\* may an unanswered CONNECT. 
Tick(e) ==
  \E due \in SUBSET DOMAIN stream[e].unacked, reconnect \in BOOLEAN :
    /\ stream' = [stream EXCEPT ![e] = OnTick(@, due, reconnect)]
    /\ UNCHANGED <<air, written, app>>

\* pull_tcp(): the endpoint takes what its application's socket has room for.
PullTcp(e) ==
  \E n \in 1 .. Len(stream[e].tcp_out) :
    /\ app' = [app EXCEPT ![e] = @ \o SubSeq(stream[e].tcp_out, 1, n)]
    /\ stream' = [stream EXCEPT ![e].tcp_out = SubSeq(@, n + 1, Len(@))]
    /\ UNCHANGED <<air, written>>

Next ==
  \E e \in End :
    Up(e) \/ Write(e) \/ Transmit(e) \/ Receive(e) \/ Tick(e) \/ PullTcp(e)

Spec == Init /\ [][Next]_vars

-----------------------------------------------------------------------------
TypeOK ==
  /\ stream \in [End -> Stream(Nat)]
  /\ air \in [End -> SUBSET Message]
  /\ written \in [End -> Nat]
  /\ app \in [End -> Seq(Nat)]

\* What an end has received is the first Received(e) segments of its peer, in
\* order: no gap, no repeat, no swap (deliver_data and the reorder map).
InOrder ==
  \A e \in End :
    /\ Received(e) <= Segmented(Peer(e))
    /\ \A i \in 1 .. Received(e) : Got(e)[i] = i

\* A segment leaves the retransmission queue only when the peer has delivered
\* it: apply_ack never believes a stale, repeated or wrapped ACK number.
AckedWasDelivered == \A e \in End : Acked(e) <= Received(Peer(e))

\* A segment that SACK took out of retransmission is at the peer, delivered or
\* in its reorder map, with the right payload (apply_sack, fill_sack_payload).
SackedIsHeld ==
  \A e \in End : \A i \in DOMAIN stream[e].unacked :
    LET seg == stream[e].unacked[i]
        r == stream[Peer(e)].reorder
    IN seg.sacked => \/ seg.pay <= Received(Peer(e))
                     \/ r[seg.seq] = seg.pay

\* The segment the peer is waiting for, if it was cut, is still queued and
\* still retransmitted: no order of losses and ACKs wedges the stream.
HoleIsRetransmitted ==
  \A e \in End :
    Received(Peer(e)) < Segmented(e) =>
      \E i \in DOMAIN stream[e].unacked :
        /\ stream[e].unacked[i].pay = Received(Peer(e)) + 1
        /\ ~stream[e].unacked[i].sacked

\* The oldest unacknowledged segment is never marked as held by the peer: it is
\* sent again until an ACK for it gets through, also when it was delivered long
\* ago and only the ACKs were lost (apply_sack against apply_ack).
OldestIsRetransmitted ==
  \A e \in End : stream[e].unacked # <<>> => ~stream[e].unacked[1].sacked

-----------------------------------------------------------------------------
(* The inductive invariant.  Sequence numbers are tied to absolute segment   *)
(* numbers: w segments written, of which those not in tcp_in were cut and    *)
(* those not in unacked either were acknowledged.                            *)

\* The segments of unacked follow the first `before' ones, in order.
Numbered(unacked, before) ==
  \A i \in 1 .. Len(unacked) :
    /\ unacked[i].pay = before + i
    /\ unacked[i].seq = (before + i - 1) % MOD

\* The peer has not left, and the only thing to tell it is CONNECT.
Joined(s) ==
  ~s.peer_close /\ \A i \in 1 .. Len(s.ctrlq) : s.ctrlq[i] = "CONNECT"

\* The sending side of s, whose peer received r segments and holds `held'.
SenderOK(s, w, r, held) ==
  LET cut == w - Len(s.tcp_in)
      acked == cut - Len(s.unacked)
  IN /\ Joined(s)
     /\ acked \in 0 .. r
     /\ Len(s.unacked) <= WINDOW
     /\ s.tx_seq = cut % MOD
     /\ s.tx_acked = acked % MOD
     /\ \A i \in 1 .. Len(s.tcp_in) : s.tcp_in[i] = cut + i
     /\ Numbered(s.unacked, acked)
     /\ \A i \in 1 .. Len(s.unacked) : s.unacked[i].sacked =>
          acked + i <= r \/ held[s.unacked[i].seq] = acked + i

\* What reorder holds is ahead of the hole after r segments, in the window,
\* among the n the peer has cut, and under its own sequence number.
Ahead(reorder, r, n) ==
  \A x \in SeqNum : reorder[x] # NONE =>
    /\ reorder[x] \in r + 2 .. r + WINDOW
    /\ reorder[x] <= n
    /\ x = (reorder[x] - 1) % MOD

\* The receiving side of s, whose application read `got' and whose peer has
\* cut n segments: what arrived in order is a prefix of them, and before the
\* peer's CONNECT it is nothing.
ReceiverOK(s, got, n) ==
  LET r == Len(got) + Len(s.tcp_out)
  IN /\ r <= n
     /\ \A i \in 1 .. Len(got) : got[i] = i
     /\ \A i \in 1 .. Len(s.tcp_out) : s.tcp_out[i] = Len(got) + i
     /\ s.rx_seq = r % MOD
     /\ Ahead(s.reorder, r, n)
     /\ ~s.peer_connect => got = <<>> /\ s.tcp_out = <<>> /\ s.reorder = EmptyMap

\* A frame on its way to an end that has cut `cut' segments, from a peer that
\* has received r, cut n and holds `held' out of order.
FrameOK(m, r, n, held, cut) ==
  LET f == m.frame
  IN /\ m.received <= r
     /\ f.ack = m.received % MOD
     /\ f.type \in {"CONNECT", "DATA", "ACK"}
     /\ f.type = "DATA" => f.pay \in 1 .. n /\ f.seq = (f.pay - 1) % MOD
     /\ f.type = "ACK" => \A x \in f.sack :
          \E k \in m.received + 2 .. m.received + WINDOW :
            /\ k <= cut
            /\ x = (k - 1) % MOD
            /\ k <= r \/ held[x] = k

EndOK(e, p) ==
  /\ SenderOK(stream[e], written[e], Received(p), stream[p].reorder)
  /\ ReceiverOK(stream[e], app[e], Segmented(p))
  /\ \A m \in air[e] :
       FrameOK(m, Received(p), Segmented(p), stream[p].reorder, Segmented(e))

IInv == TypeOK /\ \A e \in End : EndOK(e, Peer(e))

-----------------------------------------------------------------------------
\* Two such streams implement the reliable pipe.
Pipe == INSTANCE ReliablePipe WITH got <- [e \in End |-> Got(e)]
PipeSpec == Pipe!Spec
=============================================================================

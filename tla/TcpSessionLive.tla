---------------------------- MODULE TcpSessionLive ----------------------------
(***************************************************************************)
(* Progress of two tcp_streams over a radio that may lose every frame it is *)
(* given, as long as a frame that is sent over and over gets through.       *)
(*                                                                         *)
(* Fairness.  app runs on_tick() of every stream on its timer, so every     *)
(* timer in it runs out in the end.  tx_scheduler's rounds give every       *)
(* stream space for control frames and ACKs first and for DATA next, so     *)
(* neither waits for ever.  That an endpoint comes up is not assumed.       *)
(***************************************************************************)
EXTENDS TcpSession

\* The radio loses a frame on its way to e (and all its copies).
Lose(e) ==
  \E m \in air[e] :
    /\ air' = [air EXCEPT ![e] = @ \ {m}]
    /\ UNCHANGED <<stream, written, app>>

\* Next with losses.  Applications do not read: nothing a stream sends depends
\* on tcp_out, which has no limit, so reading could not help it on.
LossyNext ==
  \E e \in End :
    Up(e) \/ Write(e) \/ Transmit(e) \/ Receive(e) \/ Tick(e) \/ Lose(e)

\* pull_tx() with space for a whole frame takes the first segment that waits.
SendFrame(e, choices) ==
  \E p \in choices :
    /\ stream' = [stream EXCEPT ![e] = p.left]
    /\ air' = [air EXCEPT ![Peer(e)] =
                 @ \cup {[frame |-> p.frame, received |-> Received(e)]}]
    /\ UNCHANGED <<written, app>>

FirstData(s) ==
  {p \in PullData(s) : p.frame.seq = s.unacked[Least(Sendable(s))].seq}

SendCtrl(e) == SendFrame(e, PullCtrl(stream[e]))
SendAck(e) == SendFrame(e, PullAck(stream[e]))
SendData(e) == SendFrame(e, FirstData(stream[e]))

\* Every timer of e runs out.
TickAll(e) ==
  /\ stream' = [stream EXCEPT ![e] = OnTick(@, DOMAIN @.unacked, TRUE)]
  /\ UNCHANGED <<air, written, app>>

\* One of the frames M on their way to e arrives.
Arrive(e, M) ==
  \E m \in M :
    /\ Alive(e, m)
    /\ stream' = [stream EXCEPT ![e] = OnRadioRx(@, m.frame)]
    /\ UNCHANGED <<air, written, app>>

\* The frames that e needs to get on.
ArriveConnect(e) == Arrive(e, {m \in air[e] : m.frame.type = "CONNECT"})
ArriveFirst(e) ==
  Arrive(e, {m \in air[e] : m.frame.type = "DATA" /\ m.frame.pay = Acked(Peer(e)) + 1})
ArriveAck(e) == Arrive(e, {m \in air[e] : m.received > Acked(e)})

DataFairness ==
  \A e \in End :
    /\ WF_vars(TickAll(e))
    /\ SF_vars(SendAck(e)) /\ SF_vars(SendData(e))
    /\ SF_vars(ArriveFirst(e)) /\ SF_vars(ArriveAck(e))

ConnectFairness ==
  \A e \in End : WF_vars(TickAll(e)) /\ SF_vars(SendCtrl(e)) /\ SF_vars(ArriveConnect(e))

\* From reset(): the handshake.
HandshakeSpec == Init /\ [][LossyNext]_vars /\ ConnectFairness

\* From the end of a handshake, when nothing is on the air any more.
Connected ==
  /\ stream = [e \in End |-> [Fresh EXCEPT !.local = TRUE, !.peer_connect = TRUE]]
  /\ air = [e \in End |-> {}]
  /\ written = [e \in End |-> 0]
  /\ app = [e \in End |-> <<>>]

DataSpec == Connected /\ [][LossyNext]_vars /\ DataFairness

-----------------------------------------------------------------------------
BothEstablished == \A e \in End : Established(stream[e])

\* Once both ends are connected, every segment written is delivered and its
\* acknowledgement comes back, whatever the radio loses on the way: the 20 ms
\* retransmission, SACK and the ACK of every DATA frame, even an old one, leave
\* no state in which the two ends wait for each other.
AllAcked ==
  \A e \in End : \A k \in 1 .. MAX_SEGMENTS[e] :
    written[e] >= k ~> Acked(e) >= k

\* "Handshake still in progress: keep CONNECT retries until timeout"
\* (parse_radio): when both ends are up they become connected, even if the
\* radio loses frames.
HandshakeCompletes ==
  (\A e \in End : stream[e].local) ~> BothEstablished
=============================================================================

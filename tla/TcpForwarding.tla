---------------------------- MODULE TcpForwarding ----------------------------
(***************************************************************************)
(* TCP forwarding between two managers: a server endpoint, a client         *)
(* endpoint, their applications and the radio, over any number of           *)
(* sessions.  Applications come, write, leave and are replaced; connecting  *)
(* to an application fails; timers give up; a manager dies and is started   *)
(* again.                                                                  *)
(*                                                                         *)
(* The radio keeps the order of frames and loses any of them: air_seq drops *)
(* a repeated frame, and nothing on the way reorders.                      *)
(*                                                                         *)
(* Every handler runs to completion on the reactor, in any order: the       *)
(* callbacks a thread posts with wake_up() run in the order of posting, and *)
(* the ones of sockets and timers anywhere between them.                   *)
(*                                                                         *)
(* A segment is named after the application connection that wrote it and    *)
(* its number there.                                                       *)
(***************************************************************************)
EXTENDS TcpEndpoint

CONSTANTS
  MAX_CONN,   \* bound: application connections at each end
  MAX_SEND,   \* bound: segments an application at each end writes
  AIR_MAX,    \* bound: frames on their way to one end
  MAX_CRASH   \* bound: crashes of the manager at each end

VARIABLES
  ep,         \* ep[e]: the endpoint
  air,        \* air[e]: frames on their way to e, in order
  conn,       \* conn[e]: application connections e has had
  sent,       \* sent[e]: segments the current application at e has written
  got,        \* got[e]: what the current application at e has read
  delivered,  \* every segment some stream has put in order
  acked,      \* every segment some stream has removed as acknowledged
  crashes     \* crashes[e]: how often the manager of e has died

vars == <<ep, air, conn, sent, got, delivered, acked, crashes>>

Payloads(unacked) == {unacked[i].pay : i \in DOMAIN unacked}
Elements(q) == {q[i] : i \in DOMAIN q}

Init ==
  /\ ep = [e \in End |-> NewEndpoint]
  /\ air = [e \in End |-> <<>>]
  /\ conn = [e \in End |-> 0]
  /\ sent = [e \in End |-> 0]
  /\ got = [e \in End |-> <<>>]
  /\ delivered = {}
  /\ acked = {}
  /\ crashes = [e \in End |-> 0]

\* The endpoint becomes r.left, and its application reads r.read.
Becomes(e, r) ==
  /\ ep' = [ep EXCEPT ![e] = r.left]
  /\ got' = [got EXCEPT ![e] = @ \o r.read]

\* A new application is connected to e.
NewApplication(e) ==
  /\ conn[e] < MAX_CONN[e]
  /\ conn' = [conn EXCEPT ![e] = @ + 1]
  /\ sent' = [sent EXCEPT ![e] = 0]

-----------------------------------------------------------------------------
(* Applications and the thread that reads from them.                       *)

\* on_listen()
Listen ==
  /\ NewApplication(SERVER)
  /\ ep' = [ep EXCEPT ![SERVER] = OnListen(@)]
  /\ got' = [got EXCEPT ![SERVER] = <<>>]
  /\ UNCHANGED <<air, delivered, acked, crashes>>

\* on_connecting(): the connection succeeded; on_client_write() flushes.
Connect ==
  /\ ep[CLIENT].sock = "connecting"
  /\ NewApplication(CLIENT)
  /\ \E r \in Flush(OnConnected(ep[CLIENT])) :
       /\ ep' = [ep EXCEPT ![CLIENT] = r.left]
       /\ got' = [got EXCEPT ![CLIENT] = r.read]
  /\ UNCHANGED <<air, delivered, acked, crashes>>

\* on_connecting(): it failed.
ConnectFails ==
  /\ ep[CLIENT].sock = "connecting"
  /\ ep' = [ep EXCEPT ![CLIENT] = CloseClient(@)]
  /\ UNCHANGED <<air, conn, sent, got, delivered, acked, crashes>>

\* rx_loop(): recv() returned a segment.
Recv(e) ==
  /\ Open(ep[e]) /\ ~ep[e].eof /\ sent[e] < MAX_SEND[e]
  /\ sent' = [sent EXCEPT ![e] = @ + 1]
  /\ ep' = [ep EXCEPT ![e] =
       PostRxWake([ep[e] EXCEPT !.rx_q = Append(@, [c |-> conn[e], k |-> sent[e] + 1])])]
  /\ UNCHANGED <<air, conn, got, delivered, acked, crashes>>

\* rx_loop(): recv() returned the end of file, and the thread ends.
RecvFin(e) ==
  /\ Open(ep[e]) /\ ~ep[e].eof
  /\ ep' = [ep EXCEPT ![e].eof = TRUE, ![e].wakes = Append(@, "on_local_fin")]
  /\ UNCHANGED <<air, conn, sent, got, delivered, acked, crashes>>

\* The reactor runs the oldest callback the threads have posted.
Wake(e) ==
  /\ ep[e].wakes # <<>>
  /\ LET x == [ep[e] EXCEPT !.wakes = Tail(@)]
     IN ep' = [ep EXCEPT ![e] =
          IF Head(ep[e].wakes) = "on_rx_wake" THEN OnRxWake(x) ELSE OnLocalFin(x)]
  /\ UNCHANGED <<air, conn, sent, got, delivered, acked, crashes>>

\* on_client_write(): the application's socket has room again.
ClientWrite(e) ==
  /\ Open(ep[e]) /\ ep[e].buf # <<>>
  /\ \E r \in Flush(ep[e]) : Becomes(e, r)
  /\ UNCHANGED <<air, conn, sent, delivered, acked, crashes>>

-----------------------------------------------------------------------------
(* The radio and the timer.                                                *)

\* pull_tx() for the scheduler, which puts the frame on the air.
Transmit(e) ==
  /\ Len(air[Peer(e)]) < AIR_MAX
  /\ \E p \in PullTx(ep[e].stream) :
       /\ ep' = [ep EXCEPT ![e].stream = p.left]
       /\ air' = [air EXCEPT ![Peer(e)] = Append(@, p.frame)]
  /\ UNCHANGED <<conn, sent, got, delivered, acked, crashes>>

\* on_radio_rx() of the frame at the front.
RadioRx(e) ==
  /\ air[e] # <<>>
  /\ LET f == Head(air[e])
         s == OnIncomingConnect(e, ep[e], f).stream
     IN /\ \E r \in OnRadioFrame(e, ep[e], f) : Becomes(e, r)
        /\ delivered' = delivered \cup Elements(OnRadioRx(s, f).tcp_out)
        /\ acked' = acked \cup
             (Payloads(s.unacked) \ Payloads(ApplyAck(s, f.ack).unacked))
  /\ air' = [air EXCEPT ![e] = Tail(@)]
  /\ UNCHANGED <<conn, sent, crashes>>

Lose(e) ==
  /\ air[e] # <<>>
  /\ air' = [air EXCEPT ![e] = Tail(@)]
  /\ UNCHANGED <<ep, conn, sent, got, delivered, acked, crashes>>

\* on_tick(), `reconnect' when the time to repeat CONNECT has come.
Tick(e, reconnect) ==
  /\ \E due \in SUBSET DOMAIN ep[e].stream.unacked :
       \E r \in OnEndpointTick(e, ep[e], due, reconnect) : Becomes(e, r)
  /\ UNCHANGED <<air, conn, sent, delivered, acked, crashes>>

\* on_tick() after 30 s without the peer's CONNECT or 5 s without an ACK.
TickGivesUp(e) ==
  /\ \E x \in GiveUp(ep[e], {}) : ep' = [ep EXCEPT ![e] = x]
  /\ UNCHANGED <<air, conn, sent, got, delivered, acked, crashes>>

\* The manager dies without a word and is started again.
Crash(e) ==
  /\ crashes[e] < MAX_CRASH[e]
  /\ crashes' = [crashes EXCEPT ![e] = @ + 1]
  /\ ep' = [ep EXCEPT ![e] = NewEndpoint]
  /\ UNCHANGED <<air, conn, sent, got, delivered, acked>>

Step(e) ==
  \/ Recv(e) \/ RecvFin(e) \/ Wake(e) \/ ClientWrite(e)
  \/ Transmit(e) \/ RadioRx(e) \/ Tick(e, FALSE)
  \/ Lose(e) \/ TickGivesUp(e) \/ Crash(e)

\* No CONNECT is ever repeated.
NextUnrepeated ==
  \/ Listen \/ Connect \/ ConnectFails
  \/ \E e \in End : Step(e)

Next == NextUnrepeated \/ \E e \in End : Tick(e, TRUE)

Spec == Init /\ [][Next]_vars
SpecUnrepeated == Init /\ [][NextUnrepeated]_vars

-----------------------------------------------------------------------------
TypeOK ==
  LET Pay == [c : Nat, k : Nat]
  IN /\ \A e \in End : /\ ep[e].stream \in Stream(Pay)
                       /\ ep[e].sock \in {"none", "connecting", "open"}
                       /\ ep[e].rx_q \in Seq(Pay) /\ ep[e].buf \in Seq(Pay)
                       /\ ep[e].wakes \in Seq({"on_rx_wake", "on_local_fin"})
     /\ air \in [End -> Seq(Frame(Pay))]
     /\ got \in [End -> Seq(Pay)]

\* Bytes of the application never lie in rx_q with nobody to fetch them: when
\* the stream could take some, on_rx_wake() is posted, also after callbacks of
\* a connection that is gone have cleared rx_wake_pending (sync_rx_accept).
NoLostWake ==
  \A e \in End :
    Open(ep[e]) /\ AcceptsTcp(ep[e].stream) /\ ep[e].rx_q # <<>> =>
      \E i \in DOMAIN ep[e].wakes : ep[e].wakes[i] = "on_rx_wake"

\* A stream is up for exactly as long as its application's socket is open: no
\* way to leave forgets one of them.
EndpointOK == TypeOK /\ \A e \in End : ep[e].stream.local <=> Open(ep[e])

\* An application reads no segment out of order, twice, with a gap or of another
\* session: the client's application reads a contiguous part of what one
\* application of the server wrote; the server's, which the server keeps when
\* the peer leaves, reads from one application of the client after another, of
\* each from the beginning.
ReadsInOrder ==
  \A e \in End : \A i \in 2 .. Len(got[e]) :
    LET x == got[e][i - 1]
        y == got[e][i]
    IN \/ y.c = x.c /\ y.k = x.k + 1
       \/ e = SERVER /\ y.c > x.c /\ y.k = 1

\* Whatever happens, an application never reads a segment twice: not when frames
\* are repeated, sessions mixed or managers started again.
NeverTwice ==
  \A e \in End : \A i, j \in DOMAIN got[e] : got[e][i] = got[e][j] => i = j

\* What a stream takes for acknowledged its peer has put in order: no ACK of an
\* earlier session or of a dead manager counts.
AckedWasReceived == acked \subseteq delivered

-----------------------------------------------------------------------------
(* What the code's comments promise and the code does not keep.            *)

\* "Reliable byte pipe": the radio loses nothing, nobody gives up or dies, and
\* only the server's application leaves, after both ends were connected and the
\* stream had taken all it wrote.
Finished(x) == Established(x.stream) /\ x.rx_q = <<>> /\ x.stream.tcp_in = <<>>

NextPerfect ==
  \/ Listen \/ Connect
  \/ Recv(SERVER) \/ (Finished(ep[SERVER]) /\ RecvFin(SERVER))
  \/ \E e \in End :
       Wake(e) \/ ClientWrite(e) \/ Transmit(e) \/ RadioRx(e) \/ Tick(e, FALSE)

SpecPerfect == Init /\ [][NextPerfect]_vars

\* Then, when both sockets are closed again, the client's application has read
\* everything (on_local_fin, local_down).
FinDeliversAll ==
  (\A e \in End : conn[e] = 1 /\ ep[e].sock = "none") => Len(got[CLIENT]) = sent[SERVER]

\* "tcp replacing existing client": the application that replaces another is not
\* closed by the end of file of the one it replaced.
ReplacementStays ==
  [][LET x == ep[SERVER]
     IN /\ Open(x) /\ ~x.eof
        /\ x.wakes # <<>> /\ ep'[SERVER].wakes = Tail(x.wakes)
        => Open(ep'[SERVER])]_vars
=============================================================================

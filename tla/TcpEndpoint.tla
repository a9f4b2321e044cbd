----------------------------- MODULE TcpEndpoint -----------------------------
(***************************************************************************)
(* The manager's TCP endpoints: class tcp_endpoint with its two kinds,      *)
(* tcp_server_endpoint (applications connect to it) and                     *)
(* tcp_client_endpoint (it connects to an application), in                 *)
(* src/src/manager/endpoint/.  An endpoint owns a tcp_stream, the socket of *)
(* one local application and a thread that blocks in recv() on that socket. *)
(*                                                                         *)
(* The endpoint is a record and a method an operator from record to record, *)
(* as in TcpStream; TcpForwarding says when they run.  What a method may do *)
(* in several ways (a connect() that fails at once, a socket that takes     *)
(* part of the data) is a set of results.                                  *)
(***************************************************************************)
EXTENDS TcpStream

CONSTANT SERVER, CLIENT   \* the two ends, and their kinds

ASSUME EndAssumption == SERVER # CLIENT

End == {SERVER, CLIENT}
Peer(e) == IF e = SERVER THEN CLIENT ELSE SERVER

\* client_sock and `connecting'; wakes are the callbacks posted to the reactor
\* that have not run, in order; buf is the part of a chunk pulled from the
\* stream that the socket has not taken; eof: the thread saw the end of file.
NewEndpoint ==
  [stream |-> Fresh, sock |-> "none", rx_q |-> <<>>, rx_wake_pending |-> FALSE,
   wakes |-> <<>>, buf |-> <<>>, eof |-> FALSE]

Open(x) == x.sock = "open"

\* wake_up(): on_rx_wake unless one is pending.
PostRxWake(x) ==
  IF x.rx_wake_pending THEN x
  ELSE [x EXCEPT !.rx_wake_pending = TRUE, !.wakes = Append(@, "on_rx_wake")]

\* Mutant of SyncRxAccept: leaves the queue to the next byte received.
SyncNothing(x) == x

\* sync_rx_accept(): rx_accept itself only paces the thread.
SyncRxAccept(x) ==
  IF Open(x) /\ AcceptsTcp(x.stream) /\ x.rx_q # <<>> THEN PostRxWake(x) ELSE x

\* close_client() with stop_rx_thread(): callbacks already posted stay posted.
CloseClient(x) ==
  [x EXCEPT !.sock = "none", !.rx_q = <<>>, !.rx_wake_pending = FALSE,
            !.buf = <<>>, !.eof = FALSE]

\* Mutant of OnLocalFin: the peer is not told.
FinSilently(x) == CloseClient(x)

OnLocalFin(x) ==
  CloseClient(IF x.sock = "none" THEN x ELSE [x EXCEPT !.stream = LocalDown(@)])

OnLocalAbort(x) ==
  CloseClient(IF x.sock = "none" THEN x ELSE [x EXCEPT !.stream = LocalAbort(@)])

\* on_rx_wake(): as much of rx_q as tcp_in has room for.
OnRxWake(x) ==
  LET room == TCP_IN_MAX - Len(x.stream.tcp_in)
      n == IF room < Len(x.rx_q) THEN room ELSE Len(x.rx_q)
      awake == [x EXCEPT !.rx_wake_pending = FALSE]
  IN IF ~AcceptsTcp(x.stream) THEN awake
     ELSE SyncRxAccept(
            [awake EXCEPT
               !.stream = QueueData([x.stream EXCEPT !.tcp_in = @ \o SubSeq(x.rx_q, 1, n)]),
               !.rx_q = SubSeq(@, n + 1, Len(@))])

\* flush_tcp(): what the socket takes, and the endpoint that is left.  The
\* socket that is full leaves the rest of the pulled chunk in buf.  A socket
\* whose application is gone may fail instead.
Flush(x) ==
  LET all == x.buf \o x.stream.tcp_out
      taken(k, j) ==
        [read |-> SubSeq(all, 1, k),
         left |-> [x EXCEPT !.buf = SubSeq(all, k + 1, j),
                            !.stream.tcp_out = SubSeq(all, j + 1, Len(all))]]
  IN IF ~Open(x) THEN {[read |-> <<>>, left |-> x]}
     ELSE {taken(Len(all), Len(all))}
          \cup {taken(kj[1], kj[2]) : kj \in
                  {kj \in (0 .. Len(all)) \X (Len(x.buf) .. Len(all)) : kj[1] < kj[2]}}
          \cup (IF x.eof /\ all # <<>> THEN {[read |-> <<>>, left |-> OnLocalFin(x)]} ELSE {})

-----------------------------------------------------------------------------
(* tcp_client_endpoint                                                     *)

OnIncomingConnect(e, x, f) ==
  IF f.type = "CONNECT" /\ e = CLIENT /\ ~PeerConnected(x.stream) /\ x.sock = "none"
  THEN [x EXCEPT !.stream = Fresh]
  ELSE x

\* maybe_connect() and start_connect(): connect() may also fail at once.
MaybeConnect(e, x) ==
  IF e = CLIENT /\ WantsConnect(x.stream) /\ x.sock = "none"
  THEN {x, [x EXCEPT !.sock = "connecting"]}
  ELSE {x}

\* on_connecting(), the connection succeeded; on_client_write() follows.
OnConnected(x) == [x EXCEPT !.sock = "open", !.stream = LocalUp(@)]

-----------------------------------------------------------------------------
(* tcp_server_endpoint                                                     *)

\* on_listen(): a new application replaces the one that is there.
OnListen(x) ==
  [CloseClient(x) EXCEPT !.sock = "open", !.stream = LocalUp(Fresh)]

\* on_peer_end() of the server, which keeps its application, and of the client.
OnPeerEnd(e, x) ==
  IF e = SERVER /\ x.sock # "none"
  THEN SyncRxAccept([x EXCEPT !.stream = LocalUp(Fresh)])
  ELSE [CloseClient(x) EXCEPT !.stream = Fresh]

-----------------------------------------------------------------------------
(* What both do.                                                           *)

\* The common end of on_radio_rx() and on_tick().
Serve(x) == Flush(SyncRxAccept(x))

\* on_radio_rx()
OnRadioFrame(e, x, f) ==
  LET heard == [OnIncomingConnect(e, x, f) EXCEPT !.stream = OnRadioRx(@, f)]
      after(z) ==
        IF z.stream.peer_close THEN {[read |-> <<>>, left |-> OnPeerEnd(e, z)]}
        ELSE Serve(z)
  IN UNION {after(z) : z \in MaybeConnect(e, heard)}

\* on_tick() when k_connect_timeout or k_data_stall_timeout runs out.
GiveUp(x, due) ==
  LET late == [x EXCEPT !.stream = Expire(@, due)]
  IN CASE Connecting(x.stream) -> {OnLocalFin(late)}
       [] Established(x.stream) /\ x.stream.unacked # <<>> -> {OnLocalAbort(late)}
       [] OTHER -> {}

\* on_tick() when neither does.
OnEndpointTick(e, x, due, reconnect) ==
  LET y == [x EXCEPT !.stream = OnTick(@, due, reconnect)]
  IN UNION {Serve(z) : z \in MaybeConnect(e, y)}
=============================================================================

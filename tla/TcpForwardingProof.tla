------------------------- MODULE TcpForwardingProof -------------------------
(***************************************************************************)
(* Proofs about TcpForwarding, for every window, queue length, number of   *)
(* applications, segments, frames on the way and deaths of the managers:   *)
(* a stream is up for exactly as long as its application's socket is open, *)
(* every member of stream and endpoint keeps its type, what the thread has *)
(* read never lies in rx_q with nobody to fetch it, and no application     *)
(* reads a segment twice.                                                  *)
(***************************************************************************)
EXTENDS TcpForwarding, SequenceTheorems, WellFoundedInduction, TLAPS

-----------------------------------------------------------------------------
(***************************************************************************)
(* The inductive invariant.                                                *)
(***************************************************************************)

Pay == [c : Nat, k : Nat]

(* What is buffered lies ahead of rx_seq, inside the window. *)
InWindow(s) ==
  \A x \in Keys(s.reorder) : \E j \in 1..WINDOW - 1 : x = SeqAdd(s.rx_seq, j)

Good(s) == s \in Stream(Pay) /\ Len(s.unacked) <= WINDOW /\ InWindow(s)

Frames == {f \in Frame(Pay) : f.type = "DATA" => f.pay \in Pay}

Wakes == {"on_rx_wake", "on_local_fin"}

Endpoints ==
  [stream : Stream(Pay), sock : {"none", "connecting", "open"}, rx_q : Seq(Pay),
   rx_wake_pending : BOOLEAN, wakes : Seq(Wakes), buf : Seq(Pay), eof : BOOLEAN]

Woken(x) == \E i \in DOMAIN x.wakes : x.wakes[i] = "on_rx_wake"

(* The socket is open for as long as the stream is up, and only then does  *)
(* rx_q hold something; a wake that is pending has been posted; the server *)
(* does not connect to its application.                                    *)
SoundEnd(e, x) ==
  /\ x \in Endpoints /\ Good(x.stream)
  /\ x.stream.local <=> Open(x)
  /\ ~Open(x) => x.rx_q = <<>>
  /\ x.rx_wake_pending => Woken(x)
  /\ e = SERVER => x.sock # "connecting"

Fetched(x) == Open(x) /\ AcceptsTcp(x.stream) /\ x.rx_q # <<>> => Woken(x)

IInv ==
  /\ ep = [e \in End |-> ep[e]]
  /\ \A e \in End : SoundEnd(e, ep[e]) /\ Fetched(ep[e])
  /\ air \in [End -> Seq(Frames)]
  /\ got \in [End -> Seq(Pay)]
  /\ conn \in [End -> Nat] /\ sent \in [End -> Nat]

-----------------------------------------------------------------------------
(***************************************************************************)
(* Sequence numbers.                                                       *)
(***************************************************************************)

LEMMA Sizes ==
  /\ MOD \in Nat \ {0} /\ WINDOW \in Nat \ {0} /\ WINDOW < MOD
  /\ TCP_IN_MAX \in Nat \ {0}
BY StreamAssumption

LEMMA DivMod ==
  ASSUME NEW m \in Nat \ {0}, NEW a \in Int
  PROVE  \E q \in Int, r \in 0..m - 1 : a = m * q + r /\ a % m = r
<1>1. a = m * (a \div m) + (a % m) /\ (a \div m) \in Int /\ (a % m) \in 0..m - 1
  OBVIOUS
<1>. QED BY <1>1

LEMMA ModUnique ==
  ASSUME NEW m \in Nat \ {0}, NEW q \in Int, NEW r \in 0..m - 1, NEW a \in Int, a = m * q + r
  PROVE  a % m = r
OBVIOUS

LEMMA SeqAddType == ASSUME NEW a \in Int, NEW n \in Int PROVE SeqAdd(a, n) \in SeqNum
<1>1. PICK c \in Int : c = a + n
  OBVIOUS
<1>2. c % MOD \in 0..MOD - 1
  BY Sizes
<1>. QED BY <1>1, <1>2 DEF SeqAdd, SeqNum

(* Going on twice is going on once. *)
LEMMA SeqAddTwice ==
  ASSUME NEW a \in Int, NEW j \in Int, NEW k \in Int
  PROVE  SeqAdd(SeqAdd(a, j), k) = SeqAdd(a, j + k)
<1>1. PICK b \in Int, c \in Int : b = a + j /\ c = a + (j + k)
  OBVIOUS
<1>2. PICK q \in Int, r \in 0..MOD - 1 : b = MOD * q + r /\ b % MOD = r
  BY Sizes, DivMod
<1>3. PICK p \in Int, s \in 0..MOD - 1 : c = MOD * p + s /\ c % MOD = s
  BY Sizes, DivMod
<1>4. PICK d \in Int : d = r + k
  BY Sizes
<1>5. p - q \in Int /\ d = MOD * (p - q) + s
  BY <1>1, <1>2, <1>3, <1>4, Sizes
<1>6. d % MOD = s
  BY <1>5, Sizes, ModUnique
<1>. QED BY <1>1, <1>2, <1>3, <1>4, <1>6 DEF SeqAdd

(* Numbers of one window are different. *)
LEMMA SeqAddApart ==
  ASSUME NEW a \in Int, NEW j \in 0..WINDOW, NEW k \in 0..WINDOW, SeqAdd(a, j) = SeqAdd(a, k)
  PROVE  j = k
<1>1. PICK b \in Int, c \in Int : b = a + j /\ c = a + k
  BY Sizes
<1>2. PICK q \in Int, r \in 0..MOD - 1 : b = MOD * q + r /\ b % MOD = r
  BY Sizes, DivMod
<1>3. PICK p \in Int, s \in 0..MOD - 1 : c = MOD * p + s /\ c % MOD = s
  BY Sizes, DivMod
<1>4. r = s
  BY <1>1, <1>2, <1>3 DEF SeqAdd
<1>5. PICK d \in Int : d = q - p
  OBVIOUS
<1>6. j - k = MOD * d
  BY <1>1, <1>2, <1>3, <1>4, <1>5, Sizes
<1>7. d >= 1 => MOD * d >= MOD
  BY <1>5, Sizes
<1>8. d <= -1 => MOD * d <= -MOD
  BY <1>5, Sizes
<1>9. d = 0
  BY <1>5, <1>6, <1>7, <1>8, Sizes
<1>. QED BY <1>6, <1>9, Sizes

(* A distance added brings one there. *)
LEMMA SeqDiffAdd ==
  ASSUME NEW x \in SeqNum, NEW a \in SeqNum
  PROVE  SeqDiff(x, a) \in 0..MOD - 1 /\ x = SeqAdd(a, SeqDiff(x, a))
<1>1. PICK d \in Int : d = x - a
  BY Sizes DEF SeqNum
<1>2. PICK q \in Int, r \in 0..MOD - 1 : d = MOD * q + r /\ d % MOD = r
  BY Sizes, DivMod
<1>3. PICK c \in Int : c = a + r
  BY Sizes DEF SeqNum
<1>4. x \in 0..MOD - 1 /\ -q \in Int /\ c = MOD * (-q) + x
  BY <1>1, <1>2, <1>3, Sizes DEF SeqNum
<1>5. c % MOD = x
  BY <1>4, Sizes, ModUnique
<1>. QED BY <1>1, <1>2, <1>3, <1>5 DEF SeqDiff, SeqAdd

LEMMA LeastNat ==
  ASSUME NEW S \in SUBSET Nat, S # {}
  PROVE  Least(S) \in S /\ \A y \in S : Least(S) <= y
<1> DEFINE Lt == {p \in Nat \X Nat : p[1] < p[2]}
<1>1. IsWellFoundedOn(Lt, Nat)
  BY NatLessThanWellFounded DEF OpToRel
<1>2. PICK x \in S : \A y \in S : ~(<<y, x>> \in Lt)
  BY <1>1, WFMin
<1>3. \A y \in S : x <= y
  <2>1. ASSUME NEW y \in S, ~(x <= y) PROVE FALSE
    <3>1. <<y, x>> \in Nat \X Nat /\ <<y, x>>[1] < <<y, x>>[2]
      BY <2>1
    <3>. QED BY <3>1, <1>2
  <2>. QED BY <2>1
<1>. QED BY <1>2, <1>3 DEF Least

-----------------------------------------------------------------------------
(***************************************************************************)
(* The stream: every method keeps it good, and says what it is to the      *)
(* endpoint.                                                               *)
(***************************************************************************)

LEMMA Fields ==
  ASSUME NEW s \in Stream(Pay)
  PROVE  /\ s.local \in BOOLEAN /\ s.peer_connect \in BOOLEAN /\ s.peer_close \in BOOLEAN
         /\ s.ack_pending \in BOOLEAN /\ s.tx_seq \in SeqNum /\ s.rx_seq \in SeqNum
         /\ s.tx_acked \in SeqNum /\ s.tcp_in \in Seq(Pay) /\ s.tcp_out \in Seq(Pay)
         /\ s.unacked \in Seq(Segment(Pay)) /\ s.ctrlq \in Seq(CtrlType)
         /\ s.reorder \in [SeqNum -> Pay \cup {NONE}]
BY DEF Stream

LEMMA Empty ==
  /\ EmptyMap \in [SeqNum -> Pay \cup {NONE}] /\ Keys(EmptyMap) = {}
  /\ 0 \in SeqNum /\ SeqNum \subseteq Int
BY Sizes DEF EmptyMap, Keys, SeqNum

LEMMA FreshGood == Good(Fresh) /\ ~Fresh.local /\ ~Fresh.peer_connect /\ Fresh.tcp_out = <<>>
<1>1. Fresh \in Stream(Pay)
  BY Empty DEF Fresh, Stream
<1>2. Len(Fresh.unacked) = 0 /\ Keys(Fresh.reorder) = {}
  BY Empty DEF Fresh
<1>. QED BY <1>1, <1>2, Sizes DEF Good, InWindow, Fresh

(* The members a method of the endpoint looks at. *)
SameFace(s, t) ==
  t.local = s.local /\ t.peer_connect = s.peer_connect /\ t.peer_close = s.peer_close

LEMMA LocalUpGood ==
  ASSUME NEW s, Good(s) PROVE Good(LocalUp(s)) /\ LocalUp(s).local
<1>1. CASE s.local
  BY <1>1 DEF LocalUp
<1>2. CASE ~s.local
  <2>1. LocalUp(s) = [s EXCEPT !.local = TRUE, !.ctrlq = Append(@, "CONNECT")]
    BY <1>2 DEF LocalUp
  <2>2. s \in Stream(Pay) /\ Append(s.ctrlq, "CONNECT") \in Seq(CtrlType)
    BY Fields DEF Good, CtrlType
  <2>3. LocalUp(s) \in Stream(Pay) /\ LocalUp(s).local
    BY <2>1, <2>2 DEF Stream
  <2>4. LocalUp(s).unacked = s.unacked /\ LocalUp(s).reorder = s.reorder
        /\ LocalUp(s).rx_seq = s.rx_seq
    BY <2>1, <2>2 DEF Stream
  <2>. QED BY <2>3, <2>4 DEF Good, InWindow
<1>. QED BY <1>1, <1>2

LEMMA LeaveGood ==
  ASSUME NEW s, Good(s), NEW notices \in Seq(CtrlType)
  PROVE  Good(Leave(s, notices)) /\ ~Leave(s, notices).local
<1>1. CASE ~s.local
  BY <1>1 DEF Leave
<1>2. CASE s.local
  <2>1. Leave(s, notices) =
          [s EXCEPT !.local = FALSE, !.peer_connect = FALSE,
                    !.ctrlq = @ \o notices, !.unacked = <<>>,
                    !.tcp_in = <<>>, !.reorder = EmptyMap]
    BY <1>2 DEF Leave
  <2>2. s \in Stream(Pay) /\ (s.ctrlq \o notices) \in Seq(CtrlType)
    BY Fields DEF Good
  <2>3. /\ Leave(s, notices).unacked = <<>> /\ Leave(s, notices).reorder = EmptyMap
        /\ ~Leave(s, notices).local
    BY <2>1, <2>2 DEF Stream
  <2>4. Leave(s, notices) \in Stream(Pay)
    <3>1. <<>> \in Seq(Pay) /\ <<>> \in Seq(Segment(Pay))
      OBVIOUS
    <3>2. PICK cq \in Seq(CtrlType) : cq = s.ctrlq \o notices
      BY <2>2
    <3>. QED BY <2>1, <2>2, <3>1, <3>2, Empty DEF Stream
  <2>. QED BY <2>3, <2>4, Empty, Sizes DEF Good, InWindow
<1>. QED BY <1>1, <1>2

LEMMA CutGood ==
  ASSUME NEW s, Good(s) PROVE Good(Cut(s)) /\ SameFace(s, Cut(s))
<1> DEFINE room == WINDOW - Len(s.unacked)
           n == IF Len(s.tcp_in) < room THEN Len(s.tcp_in) ELSE room
           new == [i \in 1..n |-> [seq |-> SeqAdd(s.tx_seq, i - 1), pay |-> s.tcp_in[i],
                                   in_flight |-> FALSE, sacked |-> FALSE]]
<1>1. /\ s \in Stream(Pay) /\ Len(s.unacked) <= WINDOW
      /\ s.unacked \in Seq(Segment(Pay)) /\ s.tcp_in \in Seq(Pay) /\ s.tx_seq \in Int
  BY Fields, Empty DEF Good
<1>2. n \in Nat /\ n <= Len(s.tcp_in) /\ n <= room
  <2>1. PICK a \in Nat, u \in Nat : a = Len(s.tcp_in) /\ u = Len(s.unacked) /\ u <= WINDOW
    BY <1>1
  <2>2. PICK r \in Nat : r = WINDOW - u
    <3>1. WINDOW \in Nat /\ u <= WINDOW
      BY <2>1, Sizes
    <3>. QED BY ONLY <3>1, u \in Nat
  <2>3. room = r /\ n = IF a < r THEN a ELSE r
    BY <2>1, <2>2
  <2> HIDE DEF n, room
  <2>4. n \in Nat /\ n <= a /\ n <= r
    BY <2>3
  <2>. QED BY <2>1, <2>3, <2>4
<1>3. Cut(s) = [s EXCEPT !.unacked = @ \o new, !.tx_seq = SeqAdd(@, n),
                         !.tcp_in = SubSeq(@, n + 1, Len(@))]
  BY DEF Cut
<1> HIDE DEF n
<1>4. ASSUME NEW i \in 1..n PROVE new[i] \in Segment(Pay)
  <2>1. s.tcp_in[i] \in Pay /\ i - 1 \in Int
    BY <1>1, <1>2
  <2>2. SeqAdd(s.tx_seq, i - 1) \in SeqNum
    BY <2>1, <1>1, SeqAddType
  <2>. QED BY <2>1, <2>2 DEF Segment
<1>5. new \in Seq(Segment(Pay)) /\ Len(new) = n
  BY <1>2, <1>4
<1> HIDE DEF new
<1>6. /\ (s.unacked \o new) \in Seq(Segment(Pay))
      /\ Len(s.unacked \o new) = Len(s.unacked) + n
      /\ SeqAdd(s.tx_seq, n) \in SeqNum
      /\ SubSeq(s.tcp_in, n + 1, Len(s.tcp_in)) \in Seq(Pay)
  BY <1>1, <1>2, <1>5, SeqAddType
<1>7. Cut(s) \in Stream(Pay)
  BY <1>1, <1>3, <1>6 DEF Stream
<1>8. /\ Cut(s).unacked = s.unacked \o new /\ Cut(s).reorder = s.reorder
      /\ Cut(s).rx_seq = s.rx_seq /\ SameFace(s, Cut(s))
  BY <1>1, <1>3 DEF Stream, SameFace
<1>9. Len(s.unacked \o new) <= WINDOW
  BY <1>1, <1>2, <1>6, Sizes
<1>. QED BY <1>7, <1>8, <1>9 DEF Good, InWindow

LEMMA QueueDataGood ==
  ASSUME NEW s, Good(s) PROVE Good(QueueData(s)) /\ SameFace(s, QueueData(s))
BY CutGood DEF QueueData, SameFace

(* What is sent, and that sending is nothing to the endpoint. *)
LEMMA PullTxGood ==
  ASSUME NEW s, Good(s), NEW p \in PullTx(s)
  PROVE  /\ Good(p.left) /\ SameFace(s, p.left) /\ p.left.tcp_in = s.tcp_in
         /\ p.frame \in Frames
<1>1. s \in Stream(Pay) /\ Len(s.unacked) <= WINDOW /\ InWindow(s)
  BY DEF Good
<1>2. /\ s.rx_seq \in SeqNum /\ s.unacked \in Seq(Segment(Pay)) /\ s.ctrlq \in Seq(CtrlType)
      /\ 0 \in SeqNum
  BY <1>1, Fields, Empty
<1>3. ASSUME NEW type \in CtrlType \cup {"ACK"}, NEW sack \in SUBSET SeqNum
      PROVE  BareFrame(type, s.rx_seq, sack) \in Frames
  <2>1. type # "DATA"
    BY DEF CtrlType
  <2>. QED BY <2>1, <1>2 DEF BareFrame, Frames, Frame
<1>4. CASE p \in PullCtrl(s)
  <2>1. /\ s.ctrlq # <<>> /\ p.left = [s EXCEPT !.ctrlq = Tail(@)]
        /\ p.frame = BareFrame(Head(s.ctrlq), s.rx_seq, {})
    BY <1>4 DEF PullCtrl
  <2>2. Tail(s.ctrlq) \in Seq(CtrlType) /\ Head(s.ctrlq) \in CtrlType
    BY <1>2, <2>1
  <2>3. p.left \in Stream(Pay)
    BY <1>1, <2>1, <2>2 DEF Stream
  <2>4. /\ p.left.unacked = s.unacked /\ p.left.reorder = s.reorder
        /\ p.left.rx_seq = s.rx_seq /\ p.left.tcp_in = s.tcp_in /\ SameFace(s, p.left)
    BY <1>1, <2>1 DEF Stream, SameFace
  <2>. QED BY <1>1, <1>3, <2>1, <2>2, <2>3, <2>4 DEF Good, InWindow
<1>5. CASE p \in PullAck(s)
  <2>0. PICK k \in 0..MAX_SACK_BLOCKS :
           p = [left |-> [s EXCEPT !.ack_pending = FALSE],
                frame |-> BareFrame("ACK", s.rx_seq, SackRuns(s.reorder, k))]
    BY <1>5 DEF PullAck
  <2>1. /\ p.left = [s EXCEPT !.ack_pending = FALSE]
        /\ p.frame = BareFrame("ACK", s.rx_seq, SackRuns(s.reorder, k))
    BY <2>0
  <2>2. SackRuns(s.reorder, k) \in SUBSET SeqNum
    BY DEF SackRuns, Keys
  <2>3. p.left \in Stream(Pay)
    BY <1>1, <2>1 DEF Stream
  <2>4. /\ p.left.unacked = s.unacked /\ p.left.reorder = s.reorder
        /\ p.left.rx_seq = s.rx_seq /\ p.left.tcp_in = s.tcp_in /\ SameFace(s, p.left)
    BY <1>1, <2>1 DEF Stream, SameFace
  <2>5. p.frame \in Frames
    <3>1. PICK sns \in SUBSET SeqNum : sns = SackRuns(s.reorder, k)
      BY <2>2
    <3>. QED BY <1>3, <2>1, <3>1
  <2>. QED BY <1>1, <2>3, <2>4, <2>5 DEF Good, InWindow
<1>6. CASE p \in PullData(s)
  <2>0. PICK i \in Sendable(s) :
           p = [left |-> [s EXCEPT !.unacked[i].in_flight = TRUE],
                frame |-> DataFrame(s.unacked[i].seq, s.rx_seq, s.unacked[i].pay)]
    BY <1>6 DEF PullData
  <2>1. /\ i \in DOMAIN s.unacked
        /\ p.left = [s EXCEPT !.unacked[i].in_flight = TRUE]
        /\ p.frame = DataFrame(s.unacked[i].seq, s.rx_seq, s.unacked[i].pay)
    BY <2>0 DEF Sendable
  <2>2. PICK g \in Segment(Pay) : g = s.unacked[i]
    BY <1>2, <2>1
  <2>3. PICK h \in Segment(Pay) : h = [g EXCEPT !.in_flight = TRUE]
    BY DEF Segment
  <2>4. PICK u : u = [s.unacked EXCEPT ![i] = h]
    OBVIOUS
  <2>5. u \in Seq(Segment(Pay)) /\ Len(u) = Len(s.unacked)
    <3>1. s.unacked \in Seq(Segment(Pay)) /\ i \in DOMAIN s.unacked /\ h \in Segment(Pay)
      BY <1>2, <2>1
    <3>. QED BY ONLY <3>1, <2>4
  <2>6. p.left = [s EXCEPT !.unacked = u]
    <3>1. p.left = [s EXCEPT !.unacked =
                      [s.unacked EXCEPT ![i] = [s.unacked[i] EXCEPT !.in_flight = TRUE]]]
      BY <1>1, <2>1 DEF Stream
    <3>. QED BY ONLY <2>2, <2>3, <2>4, <3>1
  <2>7. p.left \in Stream(Pay)
    BY <1>1, <2>5, <2>6 DEF Stream
  <2>8. /\ p.left.unacked = u /\ p.left.reorder = s.reorder
        /\ p.left.rx_seq = s.rx_seq /\ p.left.tcp_in = s.tcp_in /\ SameFace(s, p.left)
    BY <1>1, <2>6 DEF Stream, SameFace
  <2>9. p.frame \in Frames
    <3>1. g.seq \in SeqNum /\ g.pay \in Pay
      BY DEF Segment
    <3>2. p.frame = DataFrame(g.seq, s.rx_seq, g.pay)
      BY <2>1, <2>2
    <3>. QED BY <1>2, <3>1, <3>2 DEF DataFrame, Frames, Frame
  <2>. QED BY <1>1, <2>5, <2>7, <2>8, <2>9 DEF Good, InWindow
<1>. QED BY <1>4, <1>5, <1>6 DEF PullTx

(* A method that only changes marks of unacked. *)
LEMMA MarkedGood ==
  ASSUME NEW s, Good(s), NEW u, DOMAIN u = DOMAIN s.unacked,
         u = [i \in DOMAIN s.unacked |-> u[i]],
         \A i \in DOMAIN s.unacked :
            u[i] \in {s.unacked[i], [s.unacked[i] EXCEPT !.in_flight = FALSE],
                      [s.unacked[i] EXCEPT !.sacked = TRUE]},
         NEW t, t = [s EXCEPT !.unacked = u]
  PROVE  Good(t) /\ SameFace(s, t)
<1>1. s \in Stream(Pay) /\ Len(s.unacked) <= WINDOW /\ s.unacked \in Seq(Segment(Pay))
  BY Fields DEF Good
<1>2. ASSUME NEW i \in DOMAIN s.unacked PROVE u[i] \in Segment(Pay)
  <2>1. PICK g \in Segment(Pay) : g = s.unacked[i]
    BY <1>1
  <2>2. u[i] \in {g, [g EXCEPT !.in_flight = FALSE], [g EXCEPT !.sacked = TRUE]}
    BY <2>1
  <2>. QED BY <2>2 DEF Segment
<1>3. u \in Seq(Segment(Pay)) /\ Len(u) = Len(s.unacked)
  <2>1. DOMAIN s.unacked = 1..Len(s.unacked) /\ Len(s.unacked) \in Nat
    BY <1>1
  <2>. QED BY <2>1, <1>2
<1>4. t \in Stream(Pay)
  BY <1>1, <1>3 DEF Stream
<1>5. /\ t.unacked = u /\ t.reorder = s.reorder /\ t.rx_seq = s.rx_seq /\ SameFace(s, t)
  BY <1>1 DEF Stream, SameFace
<1>. QED BY <1>1, <1>3, <1>4, <1>5 DEF Good, InWindow

LEMMA ExpireGood ==
  ASSUME NEW s, Good(s), NEW due PROVE Good(Expire(s, due)) /\ SameFace(s, Expire(s, due))
<1> DEFINE u == [i \in DOMAIN s.unacked |->
                   IF i \in due /\ ~s.unacked[i].sacked
                   THEN [s.unacked[i] EXCEPT !.in_flight = FALSE] ELSE s.unacked[i]]
<1>1. Expire(s, due) = [s EXCEPT !.unacked = u]
  BY Fields DEF Expire, Good, Stream
<1>2. /\ DOMAIN u = DOMAIN s.unacked /\ u = [i \in DOMAIN s.unacked |-> u[i]]
      /\ \A i \in DOMAIN s.unacked :
            u[i] \in {s.unacked[i], [s.unacked[i] EXCEPT !.in_flight = FALSE],
                      [s.unacked[i] EXCEPT !.sacked = TRUE]}
  <2>1. DOMAIN u = DOMAIN s.unacked /\ u = [i \in DOMAIN s.unacked |-> u[i]]
    OBVIOUS
  <2>2. ASSUME NEW i \in DOMAIN s.unacked
        PROVE  u[i] \in {s.unacked[i], [s.unacked[i] EXCEPT !.in_flight = FALSE],
                         [s.unacked[i] EXCEPT !.sacked = TRUE]}
    OBVIOUS
  <2> HIDE DEF u
  <2>. QED BY <2>1, <2>2
<1> HIDE DEF u
<1>. QED BY <1>1, <1>2, MarkedGood

LEMMA ApplySackGood ==
  ASSUME NEW s, Good(s), NEW sns
  PROVE  Good(ApplySack(s, sns)) /\ SameFace(s, ApplySack(s, sns))
<1> DEFINE u == [i \in DOMAIN s.unacked |->
                   IF s.unacked[i].seq \in sns
                   THEN [s.unacked[i] EXCEPT !.sacked = TRUE] ELSE s.unacked[i]]
<1>1. ApplySack(s, sns) = [s EXCEPT !.unacked = u]
  BY Fields DEF ApplySack, Good, Stream
<1>2. /\ DOMAIN u = DOMAIN s.unacked /\ u = [i \in DOMAIN s.unacked |-> u[i]]
      /\ \A i \in DOMAIN s.unacked :
            u[i] \in {s.unacked[i], [s.unacked[i] EXCEPT !.in_flight = FALSE],
                      [s.unacked[i] EXCEPT !.sacked = TRUE]}
  <2>1. DOMAIN u = DOMAIN s.unacked /\ u = [i \in DOMAIN s.unacked |-> u[i]]
    OBVIOUS
  <2>2. ASSUME NEW i \in DOMAIN s.unacked
        PROVE  u[i] \in {s.unacked[i], [s.unacked[i] EXCEPT !.in_flight = FALSE],
                         [s.unacked[i] EXCEPT !.sacked = TRUE]}
    OBVIOUS
  <2> HIDE DEF u
  <2>. QED BY <2>1, <2>2
<1> HIDE DEF u
<1>. QED BY <1>1, <1>2, MarkedGood

LEMMA OnTickGood ==
  ASSUME NEW s, Good(s), NEW due, NEW reconnect
  PROVE  /\ Good(OnTick(s, due, reconnect)) /\ SameFace(s, OnTick(s, due, reconnect))
<1>1. ASSUME NEW t, Good(t) PROVE Good(Reconnect(t, reconnect)) /\ SameFace(t, Reconnect(t, reconnect))
  <2>1. t \in Stream(Pay) /\ Append(t.ctrlq, "CONNECT") \in Seq(CtrlType)
    BY <1>1, Fields DEF Good, CtrlType
  <2>2. CASE Reconnect(t, reconnect) = [t EXCEPT !.ctrlq = Append(@, "CONNECT")]
    <3> DEFINE v == [t EXCEPT !.ctrlq = Append(@, "CONNECT")]
    <3>1. v \in Stream(Pay)
      BY <2>1 DEF Stream
    <3>2. /\ v.unacked = t.unacked /\ v.reorder = t.reorder /\ v.rx_seq = t.rx_seq
          /\ SameFace(t, v)
      BY <2>1 DEF Stream, SameFace
    <3>. QED BY <1>1, <2>2, <3>1, <3>2 DEF Good, InWindow
  <2>3. CASE Reconnect(t, reconnect) = t
    BY <1>1, <2>3 DEF SameFace
  <2>. QED BY <2>2, <2>3 DEF Reconnect
<1>2. Good(Expire(s, due)) /\ SameFace(s, Expire(s, due))
  BY ExpireGood
<1>. QED BY <1>1, <1>2, QueueDataGood DEF OnTick, SameFace

LEMMA ApplyAckGood ==
  ASSUME NEW s, Good(s), NEW ack \in SeqNum
  PROVE  Good(ApplyAck(s, ack)) /\ SameFace(s, ApplyAck(s, ack))
<1> DEFINE delta == SeqDiff(ack, s.tx_acked)
           u == SubSeq(s.unacked, delta + 1, Len(s.unacked))
           t == [s EXCEPT !.unacked = u, !.tx_acked = SeqAdd(@, delta)]
<1>1. /\ s \in Stream(Pay) /\ Len(s.unacked) <= WINDOW /\ s.unacked \in Seq(Segment(Pay))
      /\ s.tx_acked \in SeqNum /\ s.tx_acked \in Int
  BY Fields, Empty DEF Good
<1>2. delta \in Nat /\ SeqAdd(s.tx_acked, delta) \in SeqNum
  <2>1. delta \in 0..MOD - 1
    BY <1>1, SeqDiffAdd
  <2>. QED BY <2>1, <1>1, Sizes, SeqAddType
<1>3. CASE ApplyAck(s, ack) = s
  BY <1>3 DEF SameFace
<1>4. CASE ApplyAck(s, ack) = t /\ delta <= Len(s.unacked)
  <2> HIDE DEF delta
  <2>1. u \in Seq(Segment(Pay)) /\ Len(u) = Len(s.unacked) - delta
    BY <1>1, <1>2, <1>4
  <2>2. Len(u) <= WINDOW
    BY <1>1, <1>2, <2>1, Sizes
  <2> HIDE DEF u
  <2>3. t \in Stream(Pay)
    BY <1>1, <1>2, <2>1 DEF Stream
  <2>4. /\ t.unacked = u /\ t.reorder = s.reorder /\ t.rx_seq = s.rx_seq /\ SameFace(s, t)
    BY <1>1 DEF Stream, SameFace
  <2>. QED BY <1>1, <1>4, <2>2, <2>3, <2>4 DEF Good, InWindow
<1>5. delta > Len(s.unacked) \/ delta <= Len(s.unacked)
  BY <1>1, <1>2
<1>. QED BY <1>3, <1>4, <1>5 DEF ApplyAck

-----------------------------------------------------------------------------
(***************************************************************************)
(* What the radio brings.                                                  *)
(***************************************************************************)

(* The run of buffered segments that follow rx_seq ends inside the window. *)
LEMMA RunEnds ==
  ASSUME NEW s, Good(s)
  PROVE  \E n \in 0..WINDOW - 1 :
           /\ n = RunLength(s.reorder, SeqAdd(s.rx_seq, 1))
           /\ \A i \in 1..n : SeqAdd(s.rx_seq, i) \in Keys(s.reorder)
           /\ SeqAdd(s.rx_seq, n + 1) \notin Keys(s.reorder)
<1> DEFINE first == SeqAdd(s.rx_seq, 1)
           S == {m \in 0..WINDOW : SeqAdd(first, m) \notin Keys(s.reorder)}
           n == RunLength(s.reorder, first)
<1>1. s.rx_seq \in Int /\ InWindow(s)
  BY Fields, Empty DEF Good
<1>2. ASSUME NEW m \in Int PROVE SeqAdd(first, m) = SeqAdd(s.rx_seq, 1 + m)
  <2>1. 1 \in Int /\ s.rx_seq \in Int
    BY <1>1
  <2>. QED BY <2>1, SeqAddTwice, Zenon
<1>3. WINDOW - 1 \in S
  <2>1. ASSUME SeqAdd(s.rx_seq, WINDOW) \in Keys(s.reorder) PROVE FALSE
    <3>1. PICK j \in 1..WINDOW - 1 : SeqAdd(s.rx_seq, WINDOW) = SeqAdd(s.rx_seq, j)
      BY <1>1, <2>1 DEF InWindow
    <3>2. j \in 0..WINDOW /\ WINDOW \in 0..WINDOW
      BY Sizes
    <3>3. WINDOW = j
      BY <1>1, <3>1, <3>2, SeqAddApart
    <3>. QED BY <3>3, Sizes
  <2>2. WINDOW - 1 \in 0..WINDOW /\ 1 + (WINDOW - 1) = WINDOW
    BY Sizes
  <2>3. SeqAdd(first, WINDOW - 1) = SeqAdd(s.rx_seq, WINDOW)
    BY <1>2, <2>2
  <2>. QED BY <2>1, <2>2, <2>3
<1> HIDE DEF first
<1>4. n \in S /\ \A m \in S : n <= m
  <2>1. n = Least(S)
    BY DEF RunLength
  <2>2. S \in SUBSET Nat /\ S # {}
    BY <1>3, Sizes
  <2> HIDE DEF S, n
  <2>. QED BY <2>1, <2>2, LeastNat
<1>5. n \in 0..WINDOW - 1
  BY <1>3, <1>4, Sizes
<1>6. ASSUME NEW i \in 1..n PROVE SeqAdd(s.rx_seq, i) \in Keys(s.reorder)
  <2> HIDE DEF n
  <2>1. i - 1 \in 0..WINDOW /\ ~(n <= i - 1) /\ 1 + (i - 1) = i
    BY <1>5, Sizes
  <2>2. SeqAdd(first, i - 1) \in Keys(s.reorder)
    BY <1>4, <2>1
  <2>. QED BY <1>2, <2>1, <2>2
<1>7. SeqAdd(s.rx_seq, n + 1) \notin Keys(s.reorder)
  <2>1. n \in Int /\ SeqAdd(first, n) \notin Keys(s.reorder) /\ n + 1 = 1 + n
    BY <1>4, <1>5, Sizes
  <2>. QED BY <1>2, <2>1
<1>. QED BY <1>5, <1>6, <1>7 DEF first

LEMMA DeliverRunGood ==
  ASSUME NEW s, Good(s), NEW pay \in Pay
  PROVE  Good(DeliverRun(s, pay)) /\ DeliverRun(s, pay).local = s.local
<1>1. PICK n \in 0..WINDOW - 1 :
         /\ n = RunLength(s.reorder, SeqAdd(s.rx_seq, 1))
         /\ \A i \in 1..n : SeqAdd(s.rx_seq, i) \in Keys(s.reorder)
         /\ SeqAdd(s.rx_seq, n + 1) \notin Keys(s.reorder)
  BY RunEnds
<1> DEFINE rel == {SeqAdd(s.rx_seq, i) : i \in 1..n}
           run == [i \in 1..n |-> s.reorder[SeqAdd(s.rx_seq, i)]]
           out == Append(s.tcp_out, pay) \o run
           rx == SeqAdd(s.rx_seq, n + 1)
           map == [x \in SeqNum |-> IF x \in rel THEN NONE ELSE s.reorder[x]]
           t == DeliverRun(s, pay)
<1>2. /\ s \in Stream(Pay) /\ Len(s.unacked) <= WINDOW /\ InWindow(s) /\ s.rx_seq \in Int
      /\ s.rx_seq \in SeqNum /\ s.tcp_out \in Seq(Pay)
      /\ s.reorder \in [SeqNum -> Pay \cup {NONE}]
  BY Fields, Empty DEF Good
<1>3. n \in Nat
  BY Sizes
<1>4. t = [s EXCEPT !.tcp_out = out, !.rx_seq = rx, !.reorder = map, !.ack_pending = TRUE]
  BY <1>1, <1>2 DEF DeliverRun, Stream
<1>5. out \in Seq(Pay)
  <2>1. ASSUME NEW i \in 1..n PROVE run[i] \in Pay
    BY <1>1, <1>2 DEF Keys
  <2>2. run \in Seq(Pay)
    BY <1>3, <2>1
  <2> HIDE DEF run
  <2>. QED BY <1>2, <2>2
<1>6. rx \in SeqNum
  BY <1>2, <1>3, SeqAddType
<1>7. map \in [SeqNum -> Pay \cup {NONE}]
  BY <1>2
<1>8. ASSUME NEW x \in Keys(map) PROVE \E j \in 1..WINDOW - 1 : x = SeqAdd(rx, j)
  <2>1. x \in Keys(s.reorder) /\ x \notin rel
    BY DEF Keys
  <2>2. PICK j \in 1..WINDOW - 1 : x = SeqAdd(s.rx_seq, j)
    BY <1>2, <2>1 DEF InWindow
  <2>3. j \notin 1..n /\ j # n + 1
    BY <1>1, <2>1, <2>2
  <2>4. j - (n + 1) \in 1..WINDOW - 1 /\ (n + 1) + (j - (n + 1)) = j /\ j \in Int
    BY <1>3, <2>3, Sizes
  <2>5. SeqAdd(rx, j - (n + 1)) = SeqAdd(s.rx_seq, j)
    <3>1. n + 1 \in Int /\ j - (n + 1) \in Int
      BY <1>3, <2>4, Sizes
    <3>2. SeqAdd(rx, j - (n + 1)) = SeqAdd(s.rx_seq, (n + 1) + (j - (n + 1)))
      BY <1>2, <3>1, SeqAddTwice, Zenon
    <3>. QED BY <2>4, <3>2
  <2>. QED BY <2>2, <2>4, <2>5
<1> HIDE DEF rel, run, out, rx, map, t
<1>9. t \in Stream(Pay)
  BY <1>2, <1>4, <1>5, <1>6, <1>7 DEF Stream
<1>10. /\ t.unacked = s.unacked /\ t.reorder = map /\ t.rx_seq = rx /\ t.local = s.local
  BY <1>2, <1>4 DEF Stream
<1>11. InWindow(t)
  BY <1>8, <1>10 DEF InWindow
<1>. QED BY <1>2, <1>9, <1>10, <1>11 DEF Good, t

LEMMA BufferGood ==
  ASSUME NEW s, Good(s), NEW seq \in SeqNum, NEW pay \in Pay,
         SeqDiff(seq, s.rx_seq) < WINDOW, seq # s.rx_seq
  PROVE  Good(Buffer(s, seq, pay)) /\ Buffer(s, seq, pay).local = s.local
<1> DEFINE map == IF s.reorder[seq] = NONE THEN [s.reorder EXCEPT ![seq] = pay] ELSE s.reorder
           t == Buffer(s, seq, pay)
<1>1. /\ s \in Stream(Pay) /\ Len(s.unacked) <= WINDOW /\ InWindow(s) /\ s.rx_seq \in Int
      /\ s.rx_seq \in SeqNum /\ s.reorder \in [SeqNum -> Pay \cup {NONE}]
  BY Fields, Empty DEF Good
<1>2. t = [s EXCEPT !.reorder = map, !.ack_pending = TRUE]
  BY <1>1 DEF Buffer, Stream
<1>3. map \in [SeqNum -> Pay \cup {NONE}] /\ Keys(map) \subseteq Keys(s.reorder) \cup {seq}
  BY <1>1 DEF Keys
<1>4. PICK d \in 0..MOD - 1 : d < WINDOW /\ seq = SeqAdd(s.rx_seq, d)
  BY <1>1, SeqDiffAdd
<1>5. d # 0
  <2>1. SeqAdd(s.rx_seq, 0) = s.rx_seq
    <3>1. s.rx_seq \in 0..MOD - 1 /\ 0 \in Int /\ s.rx_seq = MOD * 0 + s.rx_seq
      BY <1>1, Sizes DEF SeqNum
    <3>2. s.rx_seq % MOD = s.rx_seq
      BY <1>1, <3>1, Sizes, ModUnique
    <3>. QED BY <1>1, <3>2 DEF SeqAdd
  <2>. QED BY <1>4, <2>1
<1>6. d \in 1..WINDOW - 1
  BY <1>4, <1>5, Sizes
<1> HIDE DEF map, t
<1>7. t \in Stream(Pay)
  BY <1>1, <1>2, <1>3 DEF Stream
<1>8. t.unacked = s.unacked /\ t.reorder = map /\ t.rx_seq = s.rx_seq /\ t.local = s.local
  BY <1>1, <1>2 DEF Stream
<1>9. InWindow(t)
  BY <1>1, <1>3, <1>4, <1>6, <1>8 DEF InWindow
<1>. QED BY <1>1, <1>7, <1>8, <1>9 DEF Good, t

LEMMA AckDueGood ==
  ASSUME NEW s, Good(s), NEW t, t = [s EXCEPT !.ack_pending = TRUE]
  PROVE  Good(t) /\ t.local = s.local
<1>1. s \in Stream(Pay)
  BY DEF Good
<1>2. /\ t \in Stream(Pay) /\ t.unacked = s.unacked /\ t.reorder = s.reorder
      /\ t.rx_seq = s.rx_seq /\ t.local = s.local
  BY <1>1 DEF Stream
<1>. QED BY <1>2 DEF Good, InWindow

LEMMA DeliverDataGood ==
  ASSUME NEW s, Good(s), NEW seq \in SeqNum, NEW pay \in Pay
  PROVE  Good(DeliverData(s, seq, pay)) /\ DeliverData(s, seq, pay).local = s.local
<1> DEFINE t == DeliverData(s, seq, pay)
<1>1. SeqDiff(seq, s.rx_seq) \in Int
  BY SeqDiffAdd, Sizes, Fields DEF Good
<1>2. CASE ~PeerConnected(s)
  BY <1>2 DEF DeliverData
<1>3. CASE PeerConnected(s) /\ SeqDiff(seq, s.rx_seq) >= WINDOW
  <2>1. t = [s EXCEPT !.ack_pending = TRUE]
    BY <1>1, <1>3, Sizes DEF DeliverData
  <2>. QED BY <2>1, AckDueGood
<1>4. CASE PeerConnected(s) /\ SeqDiff(seq, s.rx_seq) < WINDOW /\ seq = s.rx_seq
  <2>1. t = DeliverRun(s, pay)
    BY <1>1, <1>4, Sizes DEF DeliverData
  <2>. QED BY <2>1, DeliverRunGood
<1>5. CASE PeerConnected(s) /\ SeqDiff(seq, s.rx_seq) < WINDOW /\ seq # s.rx_seq
  <2>1. t = Buffer(s, seq, pay)
    BY <1>1, <1>5, Sizes DEF DeliverData
  <2>. QED BY <1>5, <2>1, BufferGood
<1>. QED BY <1>1, <1>2, <1>3, <1>4, <1>5, Sizes

LEMMA OnConnectGood ==
  ASSUME NEW s, Good(s) PROVE Good(OnConnect(s)) /\ OnConnect(s).local = s.local
<1> DEFINE t == IF s.peer_connect THEN s
                ELSE [s EXCEPT !.rx_seq = 0, !.tcp_out = <<>>, !.reorder = EmptyMap]
           u == [t EXCEPT !.peer_connect = TRUE, !.peer_close = FALSE, !.ack_pending = TRUE]
<1>1. s \in Stream(Pay)
  BY DEF Good
<1>2. Good(t) /\ t.local = s.local
  <2>1. CASE ~s.peer_connect
    <3>1. <<>> \in Seq(Pay)
      OBVIOUS
    <3>2. t \in Stream(Pay)
      BY <1>1, <2>1, <3>1, Empty DEF Stream
    <3>3. t.unacked = s.unacked /\ t.reorder = EmptyMap /\ t.local = s.local
      BY <1>1, <2>1 DEF Stream
    <3>. QED BY <3>2, <3>3, Empty DEF Good, InWindow
  <2>. QED BY <2>1
<1>3. OnConnect(s) = u
  BY DEF OnConnect
<1> HIDE DEF t
<1>4. t \in Stream(Pay)
  BY <1>2 DEF Good
<1>5. /\ u \in Stream(Pay) /\ u.unacked = t.unacked /\ u.reorder = t.reorder
      /\ u.rx_seq = t.rx_seq /\ u.local = t.local
  BY <1>4 DEF Stream
<1> HIDE DEF u
<1>. QED BY <1>2, <1>3, <1>5 DEF Good, InWindow

LEMMA OnCloseGood ==
  ASSUME NEW s, Good(s) PROVE Good(OnClose(s)) /\ OnClose(s).local = s.local
<1> DEFINE u == [s EXCEPT !.peer_close = TRUE, !.peer_connect = FALSE]
<1>1. s \in Stream(Pay)
  BY DEF Good
<1>2. CASE Established(s)
  <2>1. OnClose(s) = u
    BY <1>2 DEF OnClose
  <2>2. /\ u \in Stream(Pay) /\ u.unacked = s.unacked /\ u.reorder = s.reorder
        /\ u.rx_seq = s.rx_seq /\ u.local = s.local
    BY <1>1 DEF Stream
  <2> HIDE DEF u
  <2>. QED BY <2>1, <2>2 DEF Good, InWindow
<1>3. CASE ~Established(s)
  <2>1. OnClose(s) = [s EXCEPT !.ack_pending = TRUE]
    BY <1>3 DEF OnClose
  <2>. QED BY <2>1, AckDueGood
<1>. QED BY <1>2, <1>3

LEMMA OnRadioRxGood ==
  ASSUME NEW s, Good(s), NEW f \in Frames
  PROVE  Good(OnRadioRx(s, f)) /\ OnRadioRx(s, f).local = s.local
<1> DEFINE t == ApplyAck(s, f.ack)
<1>1. /\ f.type \in CtrlType \cup {"DATA", "ACK"} /\ f.seq \in SeqNum /\ f.ack \in SeqNum
      /\ f.type = "DATA" => f.pay \in Pay
  BY DEF Frames, Frame
<1>2. Good(t) /\ t.local = s.local
  BY <1>1, ApplyAckGood DEF SameFace
<1> HIDE DEF t
<1>3. Good(ParseRadio(s, f)) /\ ParseRadio(s, f).local = s.local
  <2>1. CASE f.type = "ACK"
    <3>1. ParseRadio(s, f) = ApplySack(t, f.sack)
      BY <2>1 DEF ParseRadio, t
    <3>. QED BY <1>2, <3>1, ApplySackGood DEF SameFace
  <2>2. CASE f.type = "DATA"
    <3>1. ParseRadio(s, f) = DeliverData(t, f.seq, f.pay)
      BY <2>2 DEF ParseRadio, t
    <3>. QED BY <1>1, <1>2, <2>2, <3>1, DeliverDataGood
  <2>3. CASE f.type = "CONNECT"
    <3>1. ParseRadio(s, f) = OnConnect(t)
      BY <2>3 DEF ParseRadio, t
    <3>. QED BY <1>2, <3>1, OnConnectGood
  <2>4. CASE f.type \in {"CLOSE", "ABORT"}
    <3>1. ParseRadio(s, f) = OnClose(t)
      BY <2>4 DEF ParseRadio, t
    <3>. QED BY <1>2, <3>1, OnCloseGood
  <2>. QED BY <1>1, <2>1, <2>2, <2>3, <2>4 DEF CtrlType
<1>. QED BY <1>3, QueueDataGood DEF OnRadioRx, SameFace

-----------------------------------------------------------------------------
(***************************************************************************)
(* The endpoint: every method keeps it sound, and those that end a handler *)
(* leave rx_q fetched.                                                     *)
(***************************************************************************)

LEMMA EndFields ==
  ASSUME NEW x \in Endpoints
  PROVE  /\ x.stream \in Stream(Pay) /\ x.sock \in {"none", "connecting", "open"}
         /\ x.rx_q \in Seq(Pay) /\ x.rx_wake_pending \in BOOLEAN /\ x.wakes \in Seq(Wakes)
         /\ x.buf \in Seq(Pay) /\ x.eof \in BOOLEAN
BY DEF Endpoints

LEMMA NewEndpointSound ==
  ASSUME NEW e \in End PROVE SoundEnd(e, NewEndpoint) /\ Fetched(NewEndpoint)
<1>1. <<>> \in Seq(Pay) /\ <<>> \in Seq(Wakes)
  OBVIOUS
<1>2. Good(Fresh) /\ ~Fresh.local /\ Fresh \in Stream(Pay)
  BY FreshGood DEF Good
<1>3. NewEndpoint \in Endpoints
  BY <1>1, <1>2 DEF NewEndpoint, Endpoints
<1>4. /\ NewEndpoint.stream = Fresh /\ NewEndpoint.sock = "none" /\ NewEndpoint.rx_q = <<>>
      /\ ~NewEndpoint.rx_wake_pending
  BY DEF NewEndpoint
<1>. QED BY <1>2, <1>3, <1>4 DEF SoundEnd, Fetched, Open

(* Another state of the same stream. *)
LEMMA StreamMoves ==
  ASSUME NEW e \in End, NEW x, SoundEnd(e, x), NEW t, Good(t), t.local = x.stream.local,
         NEW y, y = [x EXCEPT !.stream = t]
  PROVE  /\ SoundEnd(e, y) /\ y.stream = t /\ y.sock = x.sock /\ y.rx_q = x.rx_q
         /\ y.wakes = x.wakes
<1>1. x \in Endpoints /\ t \in Stream(Pay)
  BY DEF SoundEnd, Good
<1>2. /\ y \in Endpoints /\ y.stream = t /\ y.sock = x.sock /\ y.rx_q = x.rx_q
      /\ y.wakes = x.wakes /\ y.rx_wake_pending = x.rx_wake_pending
  BY <1>1 DEF Endpoints
<1>. QED BY <1>2 DEF SoundEnd, Open, Woken

LEMMA PostRxWakeSound ==
  ASSUME NEW e \in End, NEW x, SoundEnd(e, x)
  PROVE  SoundEnd(e, PostRxWake(x)) /\ Woken(PostRxWake(x))
<1> DEFINE w == Append(x.wakes, "on_rx_wake")
           y == [x EXCEPT !.rx_wake_pending = TRUE, !.wakes = w]
<1>1. x \in Endpoints /\ x.wakes \in Seq(Wakes)
  BY EndFields DEF SoundEnd
<1>2. CASE x.rx_wake_pending
  BY <1>2 DEF PostRxWake, SoundEnd
<1>3. CASE ~x.rx_wake_pending
  <2>1. PostRxWake(x) = y
    BY <1>3 DEF PostRxWake
  <2>2. w \in Seq(Wakes) /\ Len(x.wakes) + 1 \in DOMAIN w /\ w[Len(x.wakes) + 1] = "on_rx_wake"
    BY <1>1 DEF Wakes
  <2> HIDE DEF w
  <2>3. /\ y \in Endpoints /\ y.stream = x.stream /\ y.sock = x.sock /\ y.rx_q = x.rx_q
        /\ y.wakes = w
    BY <1>1, <2>2 DEF Endpoints
  <2> HIDE DEF y
  <2>. QED BY <2>1, <2>2, <2>3 DEF SoundEnd, Open, Woken
<1>. QED BY <1>2, <1>3

LEMMA SyncRxAcceptSound ==
  ASSUME NEW e \in End, NEW x, SoundEnd(e, x)
  PROVE  SoundEnd(e, SyncRxAccept(x)) /\ Fetched(SyncRxAccept(x))
<1>1. CASE Open(x) /\ AcceptsTcp(x.stream) /\ x.rx_q # <<>>
  <2>1. SyncRxAccept(x) = PostRxWake(x)
    BY <1>1 DEF SyncRxAccept
  <2>. QED BY <2>1, PostRxWakeSound DEF Fetched
<1>2. CASE ~(Open(x) /\ AcceptsTcp(x.stream) /\ x.rx_q # <<>>)
  <2>1. SyncRxAccept(x) = x
    BY <1>2 DEF SyncRxAccept
  <2>. QED BY <1>2, <2>1 DEF Fetched
<1>. QED BY <1>1, <1>2

LEMMA CloseClientFields ==
  ASSUME NEW x \in Endpoints
  PROVE  /\ CloseClient(x) \in Endpoints /\ CloseClient(x).stream = x.stream
         /\ CloseClient(x).sock = "none" /\ CloseClient(x).rx_q = <<>>
         /\ ~CloseClient(x).rx_wake_pending /\ CloseClient(x).wakes = x.wakes
<1>1. <<>> \in Seq(Pay)
  OBVIOUS
<1>. QED BY <1>1 DEF CloseClient, Endpoints

LEMMA CloseClientSound ==
  ASSUME NEW e \in End, NEW x \in Endpoints, Good(x.stream), ~x.stream.local
  PROVE  SoundEnd(e, CloseClient(x)) /\ Fetched(CloseClient(x))
BY CloseClientFields DEF SoundEnd, Fetched, Open

(* local_down() or local_abort() and close_client(). *)
LEMMA LeavesSound ==
  ASSUME NEW e \in End, NEW x \in Endpoints, Good(x.stream), x.stream.local <=> Open(x),
         NEW notices \in Seq(CtrlType),
         NEW y, y = CloseClient(IF x.sock = "none" THEN x
                                ELSE [x EXCEPT !.stream = Leave(@, notices)])
  PROVE  SoundEnd(e, y) /\ Fetched(y)
<1>1. CASE x.sock = "none"
  BY <1>1, CloseClientSound DEF Open
<1>2. CASE x.sock # "none"
  <2>1. PICK t : t = Leave(x.stream, notices)
    OBVIOUS
  <2>2. Good(t) /\ ~t.local /\ t \in Stream(Pay)
    BY <2>1, LeaveGood DEF Good
  <2>3. PICK z : z = [x EXCEPT !.stream = t]
    OBVIOUS
  <2>4. z \in Endpoints /\ z.stream = t
    BY <2>2, <2>3 DEF Endpoints
  <2>5. y = CloseClient(z)
    BY <1>2, <2>1, <2>3
  <2>. QED BY <2>2, <2>4, <2>5, CloseClientSound
<1>. QED BY <1>1, <1>2

LEMMA OnLocalFinSound ==
  ASSUME NEW e \in End, NEW x \in Endpoints, Good(x.stream), x.stream.local <=> Open(x)
  PROVE  SoundEnd(e, OnLocalFin(x)) /\ Fetched(OnLocalFin(x))
<1>1. <<"CLOSE", "CLOSE", "CLOSE">> \in Seq(CtrlType)
  BY DEF CtrlType
<1>2. OnLocalFin(x) =
        CloseClient(IF x.sock = "none" THEN x
                    ELSE [x EXCEPT !.stream = Leave(@, <<"CLOSE", "CLOSE", "CLOSE">>)])
  BY DEF OnLocalFin, LocalDown
<1>. QED BY <1>1, <1>2, LeavesSound

LEMMA OnLocalAbortSound ==
  ASSUME NEW e \in End, NEW x \in Endpoints, Good(x.stream), x.stream.local <=> Open(x)
  PROVE  SoundEnd(e, OnLocalAbort(x)) /\ Fetched(OnLocalAbort(x))
<1>1. <<"ABORT">> \in Seq(CtrlType)
  BY DEF CtrlType
<1>2. OnLocalAbort(x) =
        CloseClient(IF x.sock = "none" THEN x ELSE [x EXCEPT !.stream = Leave(@, <<"ABORT">>)])
  BY DEF OnLocalAbort, LocalAbort
<1>. QED BY <1>1, <1>2, LeavesSound

(* on_rx_wake() may run when the wake that was pending is this one. *)
LEMMA OnRxWakeSound ==
  ASSUME NEW e \in End, NEW x \in Endpoints, Good(x.stream), x.stream.local <=> Open(x),
         ~Open(x) => x.rx_q = <<>>, e = SERVER => x.sock # "connecting"
  PROVE  SoundEnd(e, OnRxWake(x)) /\ Fetched(OnRxWake(x))
<1> DEFINE awake == [x EXCEPT !.rx_wake_pending = FALSE]
<1>1. /\ awake \in Endpoints /\ awake.stream = x.stream /\ awake.sock = x.sock
      /\ awake.rx_q = x.rx_q /\ ~awake.rx_wake_pending
  BY DEF Endpoints
<1>2. CASE ~AcceptsTcp(x.stream)
  <2>1. OnRxWake(x) = awake
    BY <1>2 DEF OnRxWake
  <2>. QED BY <1>1, <1>2, <2>1 DEF SoundEnd, Fetched, Open
<1>3. CASE AcceptsTcp(x.stream)
  <2> DEFINE room == TCP_IN_MAX - Len(x.stream.tcp_in)
             n == IF room < Len(x.rx_q) THEN room ELSE Len(x.rx_q)
             tin == x.stream.tcp_in \o SubSeq(x.rx_q, 1, n)
             t == [x.stream EXCEPT !.tcp_in = tin]
             q == SubSeq(x.rx_q, n + 1, Len(x.rx_q))
             y == [awake EXCEPT !.stream = QueueData(t), !.rx_q = q]
  <2>1. Open(x) /\ x.stream \in Stream(Pay)
    BY <1>3 DEF AcceptsTcp, Established, Good
  <2>2. x.stream.tcp_in \in Seq(Pay) /\ x.rx_q \in Seq(Pay)
    BY <2>1, Fields, EndFields
  <2>3. n \in Nat /\ n <= Len(x.rx_q)
    <3>1. PICK a \in Nat, l \in Nat : a = Len(x.stream.tcp_in) /\ l = Len(x.rx_q)
      BY <2>2
    <3>2. a < TCP_IN_MAX
      BY <1>3, <3>1 DEF AcceptsTcp
    <3>3. n = IF TCP_IN_MAX - a < l THEN TCP_IN_MAX - a ELSE l
      BY <3>1
    <3> HIDE DEF room, n
    <3>. QED BY <3>1, <3>2, <3>3, Sizes
  <2> HIDE DEF n
  <2>4. tin \in Seq(Pay) /\ q \in Seq(Pay)
    BY <2>2, <2>3
  <2> HIDE DEF tin, q
  <2>5. Good(t) /\ t.local
    <3>1. /\ t \in Stream(Pay) /\ t.unacked = x.stream.unacked /\ t.rx_seq = x.stream.rx_seq
          /\ t.reorder = x.stream.reorder /\ t.local = x.stream.local
      BY <2>1, <2>4 DEF Stream
    <3>. QED BY <2>1, <3>1 DEF Good, InWindow
  <2> HIDE DEF t
  <2>6. Good(QueueData(t)) /\ QueueData(t).local /\ QueueData(t) \in Stream(Pay)
    BY <2>5, QueueDataGood DEF SameFace, Good
  <2>7. OnRxWake(x) = SyncRxAccept(y)
    <3>1. [awake EXCEPT
             !.stream = QueueData([x.stream EXCEPT !.tcp_in = @ \o SubSeq(x.rx_q, 1, n)]),
             !.rx_q = SubSeq(@, n + 1, Len(@))] = y
      BY <1>1, <2>1 DEF Endpoints, t, tin, q
    <3>. QED BY <1>3, <3>1 DEF OnRxWake, n
  <2> HIDE DEF awake
  <2>8. /\ y \in Endpoints /\ y.stream = QueueData(t) /\ y.sock = x.sock
        /\ ~y.rx_wake_pending
    BY <1>1, <2>4, <2>6 DEF Endpoints
  <2> HIDE DEF y
  <2>9. SoundEnd(e, y)
    BY <2>1, <2>6, <2>8 DEF SoundEnd, Open
  <2>. QED BY <2>7, <2>9, SyncRxAcceptSound
<1>. QED BY <1>2, <1>3

(* What the application reads, and the endpoint that is left. *)
LEMMA FlushSound ==
  ASSUME NEW e \in End, NEW x, SoundEnd(e, x), Fetched(x), NEW r \in Flush(x)
  PROVE  r.read \in Seq(Pay) /\ SoundEnd(e, r.left) /\ Fetched(r.left)
<1> DEFINE all == x.buf \o x.stream.tcp_out
           taken(k, j) ==
             [read |-> SubSeq(all, 1, k),
              left |-> [x EXCEPT !.buf = SubSeq(all, k + 1, j),
                                 !.stream.tcp_out = SubSeq(all, j + 1, Len(all))]]
<1>1. /\ x \in Endpoints /\ Good(x.stream) /\ x.stream \in Stream(Pay)
      /\ x.buf \in Seq(Pay) /\ x.stream.tcp_out \in Seq(Pay) /\ <<>> \in Seq(Pay)
  <2>1. x \in Endpoints /\ Good(x.stream)
    BY DEF SoundEnd
  <2>. QED BY <2>1, Fields, EndFields DEF Good
<1>2. all \in Seq(Pay) /\ Len(all) \in Nat
  <2>1. x.buf \in Seq(Pay) /\ x.stream.tcp_out \in Seq(Pay)
    BY <1>1
  <2>2. all \in Seq(Pay)
    BY ONLY <2>1
  <2> HIDE DEF all
  <2>. QED BY ONLY <2>2
<1> HIDE DEF all
<1>3. ASSUME NEW k \in 0..Len(all), NEW j \in 0..Len(all), r = taken(k, j)
      PROVE  r.read \in Seq(Pay) /\ SoundEnd(e, r.left) /\ Fetched(r.left)
  <2>1. PICK a \in Seq(Pay), b \in Seq(Pay), o \in Seq(Pay) :
          a = SubSeq(all, 1, k) /\ b = SubSeq(all, k + 1, j) /\ o = SubSeq(all, j + 1, Len(all))
    <3>1. SubSeq(all, 1, k) \in Seq(Pay)
      BY <1>2
    <3>2. SubSeq(all, k + 1, j) \in Seq(Pay)
      BY <1>2
    <3>3. SubSeq(all, j + 1, Len(all)) \in Seq(Pay)
      BY <1>2
    <3>. QED BY <3>1, <3>2, <3>3
  <2>2. r.read = a /\ r.left = [x EXCEPT !.buf = b, !.stream.tcp_out = o]
    BY <1>3, <2>1
  <2>3. PICK t : t = [x.stream EXCEPT !.tcp_out = o]
    OBVIOUS
  <2>4. /\ t \in Stream(Pay) /\ t.unacked = x.stream.unacked /\ t.rx_seq = x.stream.rx_seq
        /\ t.reorder = x.stream.reorder /\ SameFace(x.stream, t) /\ t.tcp_in = x.stream.tcp_in
    BY <1>1, <2>3 DEF Stream, SameFace
  <2>5. Good(t)
    BY <1>1, <2>4 DEF Good, InWindow
  <2>6. r.left = [x EXCEPT !.buf = b, !.stream = t]
    BY <1>1, <2>2, <2>3 DEF Endpoints
  <2>7. /\ r.left \in Endpoints /\ r.left.stream = t /\ r.left.sock = x.sock
        /\ r.left.rx_q = x.rx_q /\ r.left.wakes = x.wakes
        /\ r.left.rx_wake_pending = x.rx_wake_pending
    BY <1>1, <2>4, <2>6 DEF Endpoints
  <2>8. SoundEnd(e, r.left)
    BY <2>4, <2>5, <2>7 DEF SoundEnd, Open, Woken, SameFace
  <2>9. Fetched(r.left)
    BY <2>4, <2>7 DEF Fetched, Open, Woken, SameFace, AcceptsTcp, Established
  <2>. QED BY <2>2, <2>8, <2>9
<1>4. CASE r = [read |-> <<>>, left |-> x]
  BY <1>1, <1>4
<1>5. CASE r = [read |-> <<>>, left |-> OnLocalFin(x)]
  BY <1>1, <1>5, OnLocalFinSound DEF SoundEnd
<1>6. Len(all) \in 0..Len(all)
  BY <1>2
<1>7. \/ r = [read |-> <<>>, left |-> x]
      \/ r = taken(Len(all), Len(all))
      \/ \E kj \in (0..Len(all)) \X (Len(x.buf)..Len(all)) : r = taken(kj[1], kj[2])
      \/ r = [read |-> <<>>, left |-> OnLocalFin(x)]
  BY DEF Flush, all
<1>8. ASSUME NEW kj \in (0..Len(all)) \X (Len(x.buf)..Len(all)), r = taken(kj[1], kj[2])
      PROVE  r.read \in Seq(Pay) /\ SoundEnd(e, r.left) /\ Fetched(r.left)
  <2>1. kj[1] \in 0..Len(all) /\ kj[2] \in 0..Len(all)
    <3>1. Len(x.buf) \in Nat
      BY <1>1
    <3>. QED BY <3>1, <1>2
  <2>. QED BY <1>3, <1>8, <2>1
<1>. QED BY <1>3, <1>4, <1>5, <1>6, <1>7, <1>8

LEMMA MaybeConnectSound ==
  ASSUME NEW e \in End, NEW x, SoundEnd(e, x), NEW z \in MaybeConnect(e, x)
  PROVE  SoundEnd(e, z)
<1>1. CASE z = x
  BY <1>1
<1>2. CASE z = [x EXCEPT !.sock = "connecting"] /\ e = CLIENT /\ x.sock = "none"
  <2>1. x \in Endpoints
    BY DEF SoundEnd
  <2>2. /\ z \in Endpoints /\ z.sock = "connecting" /\ z.stream = x.stream /\ z.rx_q = x.rx_q
        /\ z.wakes = x.wakes /\ z.rx_wake_pending = x.rx_wake_pending
    BY <1>2, <2>1 DEF Endpoints
  <2>. QED BY <1>2, <2>2, EndAssumption DEF SoundEnd, Open, Woken
<1>. QED BY <1>1, <1>2 DEF MaybeConnect

LEMMA ServeSound ==
  ASSUME NEW e \in End, NEW x, SoundEnd(e, x), NEW r \in Serve(x)
  PROVE  r.read \in Seq(Pay) /\ SoundEnd(e, r.left) /\ Fetched(r.left)
<1>1. PICK y : y = SyncRxAccept(x)
  OBVIOUS
<1>2. SoundEnd(e, y) /\ Fetched(y) /\ r \in Flush(y)
  BY <1>1, SyncRxAcceptSound DEF Serve
<1>. QED BY <1>2, FlushSound

(* close_client() and reset(), with or without a new application. *)
LEMMA OnPeerEndSound ==
  ASSUME NEW e \in End, NEW x, SoundEnd(e, x)
  PROVE  SoundEnd(e, OnPeerEnd(e, x)) /\ Fetched(OnPeerEnd(e, x))
<1>1. CASE e = SERVER /\ x.sock # "none"
  <2>1. Open(x) /\ x.stream.local
    BY <1>1, EndFields DEF SoundEnd, Open
  <2>2. PICK t : t = LocalUp(Fresh)
    OBVIOUS
  <2>3. Good(t) /\ t.local
    BY <2>2, FreshGood, LocalUpGood
  <2>4. PICK y : y = [x EXCEPT !.stream = t]
    OBVIOUS
  <2>5. SoundEnd(e, y)
    BY <2>1, <2>3, <2>4, StreamMoves DEF Good, Stream
  <2>6. OnPeerEnd(e, x) = SyncRxAccept(y)
    BY <1>1, <2>2, <2>4 DEF OnPeerEnd
  <2>. QED BY <2>5, <2>6, SyncRxAcceptSound
<1>2. CASE ~(e = SERVER /\ x.sock # "none")
  <2>1. PICK c : c = CloseClient(x)
    OBVIOUS
  <2>2. /\ c \in Endpoints /\ c.sock = "none" /\ c.rx_q = <<>> /\ ~c.rx_wake_pending
    BY <2>1, CloseClientFields DEF SoundEnd
  <2>3. Good(Fresh) /\ ~Fresh.local /\ Fresh \in Stream(Pay)
    BY FreshGood DEF Good
  <2>4. PICK y : y = [c EXCEPT !.stream = Fresh]
    OBVIOUS
  <2>5. /\ y \in Endpoints /\ y.stream = Fresh /\ y.sock = "none" /\ y.rx_q = <<>>
        /\ ~y.rx_wake_pending
    BY <2>2, <2>3, <2>4 DEF Endpoints
  <2>6. OnPeerEnd(e, x) = y
    BY <1>2, <2>1, <2>4 DEF OnPeerEnd
  <2>. QED BY <2>3, <2>5, <2>6 DEF SoundEnd, Fetched, Open
<1>. QED BY <1>1, <1>2

LEMMA OnListenSound ==
  ASSUME NEW x, SoundEnd(SERVER, x)
  PROVE  SoundEnd(SERVER, OnListen(x)) /\ Fetched(OnListen(x))
<1>1. PICK c, t : c = CloseClient(x) /\ t = LocalUp(Fresh)
  OBVIOUS
<1>2. c \in Endpoints /\ c.rx_q = <<>> /\ ~c.rx_wake_pending
  BY <1>1, CloseClientFields DEF SoundEnd
<1>3. Good(t) /\ t.local /\ t \in Stream(Pay)
  BY <1>1, FreshGood, LocalUpGood DEF Good
<1>4. PICK y : y = [c EXCEPT !.sock = "open", !.stream = t]
  OBVIOUS
<1>5. /\ y \in Endpoints /\ y.stream = t /\ y.sock = "open" /\ y.rx_q = <<>>
      /\ ~y.rx_wake_pending
  BY <1>2, <1>3, <1>4 DEF Endpoints
<1>6. OnListen(x) = y
  BY <1>1, <1>4 DEF OnListen
<1>. QED BY <1>3, <1>5, <1>6 DEF SoundEnd, Fetched, Open

LEMMA OnConnectedSound ==
  ASSUME NEW x, SoundEnd(CLIENT, x), x.sock = "connecting"
  PROVE  SoundEnd(CLIENT, OnConnected(x)) /\ Fetched(OnConnected(x))
<1>1. PICK t : t = LocalUp(x.stream)
  OBVIOUS
<1>2. Good(t) /\ t.local /\ t \in Stream(Pay) /\ x \in Endpoints
  BY <1>1, LocalUpGood DEF Good, SoundEnd
<1>3. PICK y : y = [x EXCEPT !.sock = "open", !.stream = t]
  OBVIOUS
<1>4. /\ y \in Endpoints /\ y.stream = t /\ y.sock = "open" /\ y.rx_q = x.rx_q
      /\ y.wakes = x.wakes /\ y.rx_wake_pending = x.rx_wake_pending
  BY <1>2, <1>3 DEF Endpoints
<1>5. x.rx_q = <<>>
  BY DEF SoundEnd, Open
<1>6. OnConnected(x) = y
  BY <1>1, <1>3, <1>2 DEF OnConnected, Endpoints
<1>. QED BY <1>2, <1>4, <1>5, <1>6 DEF SoundEnd, Fetched, Open, Woken

LEMMA OnRadioFrameSound ==
  ASSUME NEW e \in End, NEW x, SoundEnd(e, x), NEW f \in Frames, NEW r \in OnRadioFrame(e, x, f)
  PROVE  r.read \in Seq(Pay) /\ SoundEnd(e, r.left) /\ Fetched(r.left)
<1>1. PICK i : i = OnIncomingConnect(e, x, f)
  OBVIOUS
<1>2. SoundEnd(e, i)
  <2>1. CASE i = [x EXCEPT !.stream = Fresh] /\ x.sock = "none"
    <3>1. Good(Fresh) /\ ~Fresh.local /\ Fresh \in Stream(Pay)
      BY FreshGood DEF Good
    <3>2. ~x.stream.local /\ x.stream \in Stream(Pay)
      BY <2>1 DEF SoundEnd, Open, Good
    <3>3. Fresh.local = x.stream.local
      BY <3>1, <3>2 DEF Stream
    <3>. QED BY <2>1, <3>1, <3>3, StreamMoves
  <2>2. CASE i = x
    BY <2>2
  <2>. QED BY <1>1, <2>1, <2>2 DEF OnIncomingConnect
<1>3. PICK t : t = OnRadioRx(i.stream, f)
  OBVIOUS
<1>4. Good(t) /\ t.local = i.stream.local
  BY <1>2, <1>3, OnRadioRxGood DEF SoundEnd
<1>5. PICK heard : heard = [i EXCEPT !.stream = t]
  OBVIOUS
<1>6. SoundEnd(e, heard)
  BY <1>2, <1>4, <1>5, StreamMoves
<1>7. PICK z \in MaybeConnect(e, heard) :
        r \in (IF z.stream.peer_close THEN {[read |-> <<>>, left |-> OnPeerEnd(e, z)]}
               ELSE Serve(z))
  <2>1. heard = [OnIncomingConnect(e, x, f) EXCEPT !.stream = OnRadioRx(@, f)]
    BY <1>1, <1>3, <1>5
  <2>. QED BY <2>1 DEF OnRadioFrame
<1>8. SoundEnd(e, z)
  BY <1>6, <1>7, MaybeConnectSound
<1>9. CASE z.stream.peer_close
  <2>1. r.read = <<>> /\ r.left = OnPeerEnd(e, z) /\ <<>> \in Seq(Pay)
    BY <1>7, <1>9
  <2>. QED BY <1>8, <2>1, OnPeerEndSound
<1>10. CASE ~z.stream.peer_close
  BY <1>7, <1>8, <1>10, ServeSound
<1>. QED BY <1>9, <1>10

LEMMA GiveUpSound ==
  ASSUME NEW e \in End, NEW x, SoundEnd(e, x), NEW due, NEW y \in GiveUp(x, due)
  PROVE  SoundEnd(e, y) /\ Fetched(y)
<1>1. PICK t : t = Expire(x.stream, due)
  OBVIOUS
<1>2. Good(t) /\ t.local = x.stream.local
  BY <1>1, ExpireGood DEF SoundEnd, SameFace
<1>3. PICK late : late = [x EXCEPT !.stream = t]
  OBVIOUS
<1>4. SoundEnd(e, late)
  BY <1>2, <1>3, StreamMoves
<1>5. late \in Endpoints /\ Good(late.stream) /\ (late.stream.local <=> Open(late))
  BY <1>4 DEF SoundEnd
<1>6. y = OnLocalFin(late) \/ y = OnLocalAbort(late)
  <2>1. late = [x EXCEPT !.stream = Expire(@, due)]
    BY <1>1, <1>3
  <2>. QED BY <2>1 DEF GiveUp
<1>. QED BY <1>5, <1>6, OnLocalFinSound, OnLocalAbortSound

LEMMA OnEndpointTickSound ==
  ASSUME NEW e \in End, NEW x, SoundEnd(e, x), NEW due, NEW reconnect,
         NEW r \in OnEndpointTick(e, x, due, reconnect)
  PROVE  r.read \in Seq(Pay) /\ SoundEnd(e, r.left) /\ Fetched(r.left)
<1>1. PICK t : t = OnTick(x.stream, due, reconnect)
  OBVIOUS
<1>2. Good(t) /\ t.local = x.stream.local
  BY <1>1, OnTickGood DEF SoundEnd, SameFace
<1>3. PICK y : y = [x EXCEPT !.stream = t]
  OBVIOUS
<1>4. SoundEnd(e, y)
  BY <1>2, <1>3, StreamMoves
<1>5. PICK z \in MaybeConnect(e, y) : r \in Serve(z)
  <2>1. y = [x EXCEPT !.stream = OnTick(@, due, reconnect)]
    BY <1>1, <1>3
  <2>. QED BY <2>1 DEF OnEndpointTick
<1>6. SoundEnd(e, z)
  BY <1>4, <1>5, MaybeConnectSound
<1>. QED BY <1>5, <1>6, ServeSound

-----------------------------------------------------------------------------
(***************************************************************************)
(* Every step keeps the invariant.                                         *)
(***************************************************************************)

EndsSound == (ep = [d \in End |-> ep[d]]) /\ \A d \in End : SoundEnd(d, ep[d]) /\ Fetched(ep[d])

LEMMA InitIInv == Init => IInv
<1>. SUFFICES ASSUME Init PROVE IInv
  OBVIOUS
<1>1. ep = [d \in End |-> NewEndpoint]
  BY DEF Init
<1>2. \A d \in End : SoundEnd(d, ep[d]) /\ Fetched(ep[d])
  BY <1>1, NewEndpointSound
<1>3. ep = [d \in End |-> ep[d]]
  BY <1>1
<1>4. <<>> \in Seq(Frames) /\ <<>> \in Seq(Pay) /\ 0 \in Nat
  OBVIOUS
<1>5. air \in [End -> Seq(Frames)] /\ got \in [End -> Seq(Pay)]
  BY <1>4 DEF Init
<1>6. conn \in [End -> Nat] /\ sent \in [End -> Nat]
  BY <1>4 DEF Init
<1>. QED BY <1>2, <1>3, <1>5, <1>6 DEF IInv

(* One end becomes something sound, and the other stays what it is. *)
LEMMA OneEndMoves ==
  ASSUME EndsSound, NEW e \in End, NEW x, SoundEnd(e, x), Fetched(x), ep' = [ep EXCEPT ![e] = x]
  PROVE  EndsSound'
<1>1. ep' = [d \in End |-> IF d = e THEN x ELSE ep[d]]
  BY DEF EndsSound
<1>2. ep' = [d \in End |-> ep'[d]]
  BY <1>1
<1>3. ASSUME NEW d \in End PROVE SoundEnd(d, ep'[d]) /\ Fetched(ep'[d])
  BY <1>1 DEF EndsSound
<1>. QED BY <1>2, <1>3 DEF EndsSound

LEMMA GotGrows ==
  ASSUME got \in [End -> Seq(Pay)], NEW e \in End, NEW r, r.read \in Seq(Pay),
         got' = [got EXCEPT ![e] = @ \o r.read]
  PROVE  got' \in [End -> Seq(Pay)]
<1>1. PICK a \in Seq(Pay), b \in Seq(Pay) : a = got[e] /\ b = r.read
  OBVIOUS
<1>2. PICK g \in Seq(Pay) : g = a \o b
  <2>1. a \in Seq(Pay) /\ b \in Seq(Pay)
    OBVIOUS
  <2>2. a \o b \in Seq(Pay)
    BY ONLY <2>1
  <2>. QED BY ONLY <2>2
<1>3. got' = [got EXCEPT ![e] = g]
  BY <1>1, <1>2
<1>. QED BY <1>3

LEMMA NewApplicationCounts ==
  ASSUME conn \in [End -> Nat], sent \in [End -> Nat], NEW e \in End, NewApplication(e)
  PROVE  conn' \in [End -> Nat] /\ sent' \in [End -> Nat]
BY DEF NewApplication

LEMMA ListenKeeps == IInv /\ Listen => IInv'
<1>. SUFFICES ASSUME IInv, Listen PROVE IInv'
  OBVIOUS
<1>1. SERVER \in End /\ EndsSound /\ SoundEnd(SERVER, ep[SERVER])
  BY DEF End, IInv, EndsSound
<1>2. EndsSound'
  <2>1. ep' = [ep EXCEPT ![SERVER] = OnListen(ep[SERVER])]
    BY DEF Listen
  <2>. QED BY <1>1, <2>1, OnListenSound, OneEndMoves
<1>3. got' \in [End -> Seq(Pay)] /\ air' \in [End -> Seq(Frames)]
  <2>1. <<>> \in Seq(Pay) /\ got \in [End -> Seq(Pay)] /\ got' = [got EXCEPT ![SERVER] = <<>>]
    BY DEF Listen, IInv
  <2>2. got' \in [End -> Seq(Pay)]
    BY ONLY <2>1
  <2>. QED BY <2>2 DEF Listen, IInv
<1>4. conn' \in [End -> Nat] /\ sent' \in [End -> Nat]
  BY <1>1, NewApplicationCounts DEF Listen, IInv
<1>. QED BY <1>2, <1>3, <1>4 DEF IInv, EndsSound

LEMMA ConnectKeeps == IInv /\ Connect => IInv'
<1>. SUFFICES ASSUME IInv, Connect PROVE IInv'
  OBVIOUS
<1>1. CLIENT \in End /\ EndsSound /\ SoundEnd(CLIENT, ep[CLIENT])
  BY DEF End, IInv, EndsSound
<1>2. PICK r \in Flush(OnConnected(ep[CLIENT])) :
        /\ ep' = [ep EXCEPT ![CLIENT] = r.left]
        /\ got' = [got EXCEPT ![CLIENT] = r.read]
  BY DEF Connect
<1>3. r.read \in Seq(Pay) /\ SoundEnd(CLIENT, r.left) /\ Fetched(r.left)
  <2>1. PICK y : y = OnConnected(ep[CLIENT])
    OBVIOUS
  <2>2. SoundEnd(CLIENT, y) /\ Fetched(y)
    BY <1>1, <2>1, OnConnectedSound DEF Connect
  <2>. QED BY <1>1, <1>2, <2>1, <2>2, FlushSound
<1>4. EndsSound'
  BY <1>1, <1>2, <1>3, OneEndMoves
<1>5. got' \in [End -> Seq(Pay)] /\ air' \in [End -> Seq(Frames)]
  BY <1>2, <1>3 DEF Connect, IInv
<1>6. conn' \in [End -> Nat] /\ sent' \in [End -> Nat]
  BY <1>1, NewApplicationCounts DEF Connect, IInv
<1>. QED BY <1>4, <1>5, <1>6 DEF IInv, EndsSound

LEMMA ConnectFailsKeeps == IInv /\ ConnectFails => IInv'
<1>. SUFFICES ASSUME IInv, ConnectFails PROVE IInv'
  OBVIOUS
<1>1. CLIENT \in End /\ EndsSound /\ SoundEnd(CLIENT, ep[CLIENT])
  BY DEF End, IInv, EndsSound
<1>2. /\ ep[CLIENT] \in Endpoints /\ Good(ep[CLIENT].stream) /\ ~ep[CLIENT].stream.local
      /\ ep' = [ep EXCEPT ![CLIENT] = CloseClient(ep[CLIENT])]
  <2>1. ep[CLIENT].sock = "connecting" /\ ep' = [ep EXCEPT ![CLIENT] = CloseClient(ep[CLIENT])]
    BY DEF ConnectFails
  <2>. QED BY <1>1, <2>1 DEF SoundEnd, Open
<1>3. EndsSound'
  BY <1>1, <1>2, CloseClientSound, OneEndMoves
<1>. QED BY <1>3 DEF IInv, EndsSound, ConnectFails

LEMMA RecvKeeps == ASSUME NEW e \in End PROVE IInv /\ Recv(e) => IInv'
<1>. SUFFICES ASSUME IInv, Recv(e) PROVE IInv'
  OBVIOUS
<1> DEFINE pay == [c |-> conn[e], k |-> sent[e] + 1]
           q == Append(ep[e].rx_q, pay)
           x == [ep[e] EXCEPT !.rx_q = q]
<1>1. EndsSound /\ SoundEnd(e, ep[e]) /\ ep[e] \in Endpoints /\ Open(ep[e])
  BY DEF IInv, EndsSound, Recv, SoundEnd
<1>2. q \in Seq(Pay)
  <2>1. pay \in Pay
    BY DEF IInv, Pay
  <2>2. ep[e].rx_q \in Seq(Pay)
    BY <1>1, EndFields
  <2> HIDE DEF pay
  <2>. QED BY <2>1, <2>2
<1>3. ep' = [ep EXCEPT ![e] = PostRxWake(x)]
  <2>1. ep' = [ep EXCEPT ![e] =
                 PostRxWake([ep[e] EXCEPT !.rx_q = Append(@, pay)])]
    BY DEF Recv
  <2>2. [ep[e] EXCEPT !.rx_q = Append(@, pay)] = x
    BY <1>1 DEF Endpoints
  <2>. QED BY <2>1, <2>2
<1> HIDE DEF q
<1>4. SoundEnd(e, x)
  <2>1. /\ x \in Endpoints /\ x.stream = ep[e].stream /\ x.sock = ep[e].sock
        /\ x.wakes = ep[e].wakes /\ x.rx_wake_pending = ep[e].rx_wake_pending
    BY <1>1, <1>2 DEF Endpoints
  <2> HIDE DEF x
  <2>. QED BY <1>1, <2>1 DEF SoundEnd, Open, Woken
<1> HIDE DEF x
<1>5. EndsSound'
  BY <1>1, <1>3, <1>4, PostRxWakeSound, OneEndMoves DEF Fetched
<1>6. sent' \in [End -> Nat]
  BY DEF Recv, IInv
<1>. QED BY <1>5, <1>6 DEF IInv, EndsSound, Recv

LEMMA RecvFinKeeps == ASSUME NEW e \in End PROVE IInv /\ RecvFin(e) => IInv'
<1>. SUFFICES ASSUME IInv, RecvFin(e) PROVE IInv'
  OBVIOUS
<1> DEFINE w == Append(ep[e].wakes, "on_local_fin")
           x == [ep[e] EXCEPT !.eof = TRUE, !.wakes = w]
<1>1. /\ EndsSound /\ SoundEnd(e, ep[e]) /\ Fetched(ep[e]) /\ ep[e] \in Endpoints
      /\ ep[e].wakes \in Seq(Wakes)
  BY EndFields DEF IInv, EndsSound, SoundEnd
<1>2. w \in Seq(Wakes) /\ \A i \in DOMAIN ep[e].wakes : i \in DOMAIN w /\ w[i] = ep[e].wakes[i]
  <2>1. "on_local_fin" \in Wakes
    BY DEF Wakes
  <2>. QED BY <1>1, <2>1
<1>3. ep' = [ep EXCEPT ![e] = x]
  BY <1>1 DEF RecvFin, EndsSound, Endpoints
<1> HIDE DEF w
<1>4. /\ x \in Endpoints /\ x.stream = ep[e].stream /\ x.sock = ep[e].sock
      /\ x.rx_q = ep[e].rx_q /\ x.wakes = w /\ x.rx_wake_pending = ep[e].rx_wake_pending
  BY <1>1, <1>2 DEF Endpoints
<1> HIDE DEF x
<1>5. Woken(ep[e]) => Woken(x)
  BY <1>2, <1>4 DEF Woken
<1>6. SoundEnd(e, x) /\ Fetched(x)
  BY <1>1, <1>4, <1>5 DEF SoundEnd, Fetched, Open
<1>7. EndsSound'
  BY <1>1, <1>3, <1>6, OneEndMoves
<1>. QED BY <1>7 DEF IInv, EndsSound, RecvFin

LEMMA WakeKeeps == ASSUME NEW e \in End PROVE IInv /\ Wake(e) => IInv'
<1>. SUFFICES ASSUME IInv, Wake(e) PROVE IInv'
  OBVIOUS
<1> DEFINE x == [ep[e] EXCEPT !.wakes = Tail(ep[e].wakes)]
           y == IF Head(ep[e].wakes) = "on_rx_wake" THEN OnRxWake(x) ELSE OnLocalFin(x)
<1>1. /\ EndsSound /\ SoundEnd(e, ep[e]) /\ ep[e] \in Endpoints
      /\ ep[e].wakes \in Seq(Wakes) /\ ep[e].wakes # <<>>
  BY EndFields DEF IInv, EndsSound, SoundEnd, Wake
<1>2. /\ x \in Endpoints /\ x.stream = ep[e].stream /\ x.sock = ep[e].sock
      /\ x.rx_q = ep[e].rx_q
  <2>1. Tail(ep[e].wakes) \in Seq(Wakes)
    BY <1>1
  <2>. QED BY <1>1, <2>1 DEF Endpoints
<1>3. ep' = [ep EXCEPT ![e] = y]
  BY DEF Wake
<1> HIDE DEF x
<1>4. SoundEnd(e, y) /\ Fetched(y)
  <2>1. /\ Good(x.stream) /\ (x.stream.local <=> Open(x)) /\ (~Open(x) => x.rx_q = <<>>)
        /\ (e = SERVER => x.sock # "connecting")
    BY <1>1, <1>2 DEF SoundEnd, Open
  <2>. QED BY <1>2, <2>1, OnRxWakeSound, OnLocalFinSound
<1> HIDE DEF y
<1>5. EndsSound'
  BY <1>1, <1>3, <1>4, OneEndMoves
<1>. QED BY <1>5 DEF IInv, EndsSound, Wake

LEMMA ClientWriteKeeps == ASSUME NEW e \in End PROVE IInv /\ ClientWrite(e) => IInv'
<1>. SUFFICES ASSUME IInv, ClientWrite(e) PROVE IInv'
  OBVIOUS
<1>1. EndsSound /\ SoundEnd(e, ep[e]) /\ Fetched(ep[e])
  BY DEF IInv, EndsSound
<1>2. PICK r \in Flush(ep[e]) : Becomes(e, r)
  BY DEF ClientWrite
<1>3. r.read \in Seq(Pay) /\ SoundEnd(e, r.left) /\ Fetched(r.left)
  BY <1>1, <1>2, FlushSound
<1>4. EndsSound'
  BY <1>1, <1>2, <1>3, OneEndMoves DEF Becomes
<1>5. got' \in [End -> Seq(Pay)]
  BY <1>2, <1>3, GotGrows DEF Becomes, IInv
<1>. QED BY <1>4, <1>5 DEF IInv, EndsSound, ClientWrite

LEMMA TransmitKeeps == ASSUME NEW e \in End PROVE IInv /\ Transmit(e) => IInv'
<1>. SUFFICES ASSUME IInv, Transmit(e) PROVE IInv'
  OBVIOUS
<1>1. EndsSound /\ SoundEnd(e, ep[e]) /\ Fetched(ep[e]) /\ Peer(e) \in End
  BY DEF IInv, EndsSound, Peer, End
<1>2. PICK p \in PullTx(ep[e].stream) :
        /\ ep' = [ep EXCEPT ![e].stream = p.left]
        /\ air' = [air EXCEPT ![Peer(e)] = Append(@, p.frame)]
  BY DEF Transmit
<1>3. /\ Good(p.left) /\ SameFace(ep[e].stream, p.left)
      /\ p.left.tcp_in = ep[e].stream.tcp_in /\ p.frame \in Frames
  BY <1>1, <1>2, PullTxGood DEF SoundEnd
<1>4. PICK x : x = [ep[e] EXCEPT !.stream = p.left]
  OBVIOUS
<1>5. /\ SoundEnd(e, x) /\ x.stream = p.left /\ x.sock = ep[e].sock /\ x.rx_q = ep[e].rx_q
      /\ x.wakes = ep[e].wakes
  BY <1>1, <1>3, <1>4, StreamMoves DEF SameFace
<1>6. Fetched(x)
  BY <1>1, <1>3, <1>5 DEF Fetched, Open, Woken, AcceptsTcp, Established, SameFace
<1>7. ep' = [ep EXCEPT ![e] = x]
  BY <1>1, <1>2, <1>4 DEF EndsSound
<1>8. EndsSound'
  BY <1>1, <1>5, <1>6, <1>7, OneEndMoves
<1>9. air' \in [End -> Seq(Frames)]
  <2>1. PICK a \in Seq(Frames) : a = Append(air[Peer(e)], p.frame)
    <3>1. air[Peer(e)] \in Seq(Frames) /\ p.frame \in Frames
      BY <1>1, <1>3 DEF IInv
    <3>2. Append(air[Peer(e)], p.frame) \in Seq(Frames)
      BY ONLY <3>1
    <3>. QED BY <3>2
  <2>. QED BY <1>1, <1>2, <2>1 DEF IInv
<1>. QED BY <1>8, <1>9 DEF IInv, EndsSound, Transmit

(* The frame at the front is taken from the air. *)
LEMMA AirShrinks ==
  ASSUME air \in [End -> Seq(Frames)], NEW e \in End, air[e] # <<>>,
         air' = [air EXCEPT ![e] = Tail(@)]
  PROVE  air' \in [End -> Seq(Frames)] /\ Head(air[e]) \in Frames
<1>1. air[e] \in Seq(Frames)
  OBVIOUS
<1>2. Tail(air[e]) \in Seq(Frames) /\ Head(air[e]) \in Frames
  BY <1>1
<1>. QED BY <1>2

LEMMA RadioRxKeeps == ASSUME NEW e \in End PROVE IInv /\ RadioRx(e) => IInv'
<1>. SUFFICES ASSUME IInv, RadioRx(e) PROVE IInv'
  OBVIOUS
<1>1. EndsSound /\ SoundEnd(e, ep[e])
  BY DEF IInv, EndsSound
<1>2. PICK f : f = Head(air[e])
  OBVIOUS
<1>3. air' \in [End -> Seq(Frames)] /\ f \in Frames
  BY <1>2, AirShrinks DEF IInv, RadioRx
<1>4. PICK r \in OnRadioFrame(e, ep[e], f) : Becomes(e, r)
  BY <1>2 DEF RadioRx
<1>5. r.read \in Seq(Pay) /\ SoundEnd(e, r.left) /\ Fetched(r.left)
  BY <1>1, <1>3, <1>4, OnRadioFrameSound
<1>6. EndsSound'
  BY <1>1, <1>4, <1>5, OneEndMoves DEF Becomes
<1>7. got' \in [End -> Seq(Pay)]
  BY <1>4, <1>5, GotGrows DEF Becomes, IInv
<1>. QED BY <1>3, <1>6, <1>7 DEF IInv, EndsSound, RadioRx

LEMMA LoseKeeps == ASSUME NEW e \in End PROVE IInv /\ Lose(e) => IInv'
BY AirShrinks DEF IInv, Lose

LEMMA TickKeeps == ASSUME NEW e \in End, NEW reconnect PROVE IInv /\ Tick(e, reconnect) => IInv'
<1>. SUFFICES ASSUME IInv, Tick(e, reconnect) PROVE IInv'
  OBVIOUS
<1>1. EndsSound /\ SoundEnd(e, ep[e])
  BY DEF IInv, EndsSound
<1>2. PICK due, r : r \in OnEndpointTick(e, ep[e], due, reconnect) /\ Becomes(e, r)
  BY DEF Tick
<1>3. r.read \in Seq(Pay) /\ SoundEnd(e, r.left) /\ Fetched(r.left)
  BY <1>1, <1>2, OnEndpointTickSound
<1>4. EndsSound'
  BY <1>1, <1>2, <1>3, OneEndMoves DEF Becomes
<1>5. got' \in [End -> Seq(Pay)]
  BY <1>2, <1>3, GotGrows DEF Becomes, IInv
<1>. QED BY <1>4, <1>5 DEF IInv, EndsSound, Tick

LEMMA TickGivesUpKeeps == ASSUME NEW e \in End PROVE IInv /\ TickGivesUp(e) => IInv'
<1>. SUFFICES ASSUME IInv, TickGivesUp(e) PROVE IInv'
  OBVIOUS
<1>1. EndsSound /\ SoundEnd(e, ep[e])
  BY DEF IInv, EndsSound
<1>2. PICK x \in GiveUp(ep[e], {}) : ep' = [ep EXCEPT ![e] = x]
  BY DEF TickGivesUp
<1>3. EndsSound'
  BY <1>1, <1>2, GiveUpSound, OneEndMoves
<1>. QED BY <1>3 DEF IInv, EndsSound, TickGivesUp

LEMMA CrashKeeps == ASSUME NEW e \in End PROVE IInv /\ Crash(e) => IInv'
<1>. SUFFICES ASSUME IInv, Crash(e) PROVE IInv'
  OBVIOUS
<1>1. EndsSound /\ ep' = [ep EXCEPT ![e] = NewEndpoint]
  BY DEF IInv, EndsSound, Crash
<1>2. EndsSound'
  BY <1>1, NewEndpointSound, OneEndMoves
<1>. QED BY <1>2 DEF IInv, EndsSound, Crash

LEMMA StepKeeps == IInv /\ [Next]_vars => IInv'
<1>. SUFFICES ASSUME IInv, [Next]_vars PROVE IInv'
  OBVIOUS
<1>1. CASE Listen
  BY <1>1, ListenKeeps
<1>2. CASE Connect
  BY <1>2, ConnectKeeps
<1>3. CASE ConnectFails
  BY <1>3, ConnectFailsKeeps
<1>4. CASE \E e \in End : Step(e)
  <2>1. PICK e \in End : Step(e)
    BY <1>4
  <2>. QED BY <2>1, RecvKeeps, RecvFinKeeps, WakeKeeps, ClientWriteKeeps, TransmitKeeps,
              RadioRxKeeps, TickKeeps, LoseKeeps, TickGivesUpKeeps, CrashKeeps DEF Step
<1>5. CASE \E e \in End : Tick(e, TRUE)
  BY <1>5, TickKeeps
<1>6. CASE UNCHANGED vars
  BY <1>6 DEF vars, IInv
<1>. QED BY <1>1, <1>2, <1>3, <1>4, <1>5, <1>6 DEF Next, NextUnrepeated

THEOREM Invariant == Spec => []IInv
<1>1. Init => IInv
  BY InitIInv
<1>2. IInv /\ [Next]_vars => IInv'
  BY StepKeeps
<1>. QED BY <1>1, <1>2, PTL DEF Spec

-----------------------------------------------------------------------------
(* Whatever comes, leaves, fails, gives up or dies, and whatever the radio *)
(* loses: a stream is up for exactly as long as its application's socket   *)
(* is open, and every member of streams and endpoints keeps its type       *)
(* (tcp_endpoint, tcp_stream).                                             *)
THEOREM StreamFollowsSocket == Spec => []EndpointOK
<1>1. IInv => EndpointOK
  <2>. SUFFICES ASSUME IInv PROVE EndpointOK
    OBVIOUS
  <2>1. ASSUME NEW e \in End
        PROVE  /\ ep[e].stream \in Stream(Pay) /\ ep[e].sock \in {"none", "connecting", "open"}
               /\ ep[e].rx_q \in Seq(Pay) /\ ep[e].buf \in Seq(Pay)
               /\ ep[e].wakes \in Seq({"on_rx_wake", "on_local_fin"})
               /\ ep[e].stream.local <=> Open(ep[e])
    <3>1. SoundEnd(e, ep[e])
      BY DEF IInv
    <3>. QED BY <3>1, EndFields DEF SoundEnd, Wakes
  <2>2. air \in [End -> Seq(Frame(Pay))]
    <3>1. Seq(Frames) \subseteq Seq(Frame(Pay))
      BY DEF Frames
    <3>. QED BY <3>1 DEF IInv
  <2>. QED BY <2>1, <2>2 DEF EndpointOK, TypeOK, IInv, Pay
<1>. QED BY <1>1, Invariant, PTL

(* The same when no CONNECT is ever repeated. *)
THEOREM StreamFollowsSocketUnrepeated == SpecUnrepeated => []EndpointOK
<1>1. SpecUnrepeated => Spec
  <2>1. [NextUnrepeated]_vars => [Next]_vars
    BY DEF Next
  <2>. QED BY <2>1, PTL DEF Spec, SpecUnrepeated
<1>. QED BY <1>1, StreamFollowsSocket, PTL

(* Bytes of the application never lie in rx_q with nobody to fetch them:   *)
(* when the stream could take some, on_rx_wake() is posted, also after     *)
(* callbacks of a connection that is gone have cleared rx_wake_pending     *)
(* (sync_rx_accept, close_client).                                         *)
THEOREM AlwaysFetched == Spec => []NoLostWake
<1>1. IInv => NoLostWake
  BY DEF IInv, Fetched, NoLostWake, Woken
<1>. QED BY <1>1, Invariant, PTL

(***************************************************************************)
(* No segment is read twice: the invariant.                                *)
(***************************************************************************)

Distinct(q) == \A i, j \in DOMAIN q : q[i] = q[j] => i = j

(* The number that is sent only after q was acknowledged. *)
Full(q) == SeqAdd(q, WINDOW)

(* The copies of segments on their way from a writer, with `line' on the   *)
(* air and `unacked' still with the writer, behind all of these.           *)
Spot == [at : Nat, seq : SeqNum, pay : Pay]

Way(line, unacked) ==
  {[at |-> i, seq |-> line[i].seq, pay |-> line[i].pay] :
      i \in {j \in DOMAIN line : line[j].type = "DATA"}}
  \cup {[at |-> Len(line) + 1, seq |-> unacked[j].seq, pay |-> unacked[j].pay] :
          j \in DOMAIN unacked}

(* A segment keeps its number; and between two copies of it there is none  *)
(* that is sent only after it was acknowledged.                            *)
WayOK(W) ==
  /\ \A v, w \in W : v.pay = w.pay => v.seq = w.seq
  /\ \A v, y, w \in W :
        v.pay = w.pay /\ v.at <= y.at /\ y.at <= w.at => y.seq # Full(v.seq)

(* What the current application has read or is going to read. *)
Consumed(x, g) == (IF Open(x) THEN g ELSE <<>>) \o (x.buf \o x.stream.tcp_out)

Held(s) == {s.reorder[n] : n \in Keys(s.reorder)}

Accepted(x, g) == Elements(Consumed(x, g)) \cup Held(x.stream)

(* A copy of what was consumed is behind rx_seq, by a window at most, and  *)
(* stays there: nothing that could bring rx_seq further comes before it.   *)
(* A copy of what is buffered has the number it is buffered under.         *)
ReadOK(W, s, c) ==
  s.peer_connect =>
    /\ \A v \in W : v.pay \in c =>
         /\ SeqDiff(s.rx_seq, v.seq) \in 1 .. WINDOW
         /\ s.reorder[Full(v.seq)] = NONE
         /\ \A y \in W : y.at <= v.at => y.seq # Full(v.seq)
    /\ \A n \in Keys(s.reorder) :
         /\ s.reorder[n] \notin c
         /\ \A m \in Keys(s.reorder) : s.reorder[m] = s.reorder[n] => m = n
         /\ \A v \in W : v.pay = s.reorder[n] =>
              /\ v.seq = n
              /\ \A y \in W : y.at <= v.at => y.seq # Full(n)

(* A CLOSE parts what a writer sent before it from what comes after it. *)
Leaving(type) == type \in {"CLOSE", "ABORT"}

CloseOK(line, W, A) ==
  \A n \in DOMAIN line : Leaving(line[n].type) =>
    \A v \in W : v.at > n =>
      /\ v.pay \notin A
      /\ \A w \in W : w.pay = v.pay => w.at > n

(* What was not sent yet is nowhere else, and known are the segments that *)
(* the writer's applications have written.                                 *)
UnsentOK(W, N, A, known) ==
  /\ Distinct(N)
  /\ \A p \in Elements(N) : p \in known /\ p \notin A /\ \A v \in W : v.pay # p
  /\ \A v \in W : v.pay \in known
  /\ A \subseteq known

(* From a writer with `unacked', and N not sent yet, over `line' to the    *)
(* reader x, whose application has read g.                                 *)
Direction(line, unacked, N, x, g, known) ==
  LET W == Way(line, unacked)
      c == Elements(Consumed(x, g))
  IN /\ WayOK(W)
     /\ Distinct(g) /\ Distinct(Consumed(x, g))
     /\ ReadOK(W, x.stream, c)
     /\ Open(x) /\ ~x.stream.peer_connect => \A v \in W : v.pay \notin c
     /\ CloseOK(line, W, Accepted(x, g))
     /\ UnsentOK(W, N, Accepted(x, g), known)

Unsent(x) == x.stream.tcp_in \o x.rx_q

Known(e) == {p \in Pay : p.c < conn[e] \/ (p.c = conn[e] /\ p.k <= sent[e])}

(* Numbers follow one another; who has left sends nothing; the client      *)
(* connects to an application only for a peer that is connected.           *)
Chain(s) ==
  \A i \in DOMAIN s.unacked : s.unacked[i].seq = SeqAdd(s.tx_seq, i - 1 - Len(s.unacked))

HasLeft(s) == \E i \in DOMAIN s.ctrlq : Leaving(s.ctrlq[i])

StreamOK(e, s) ==
  /\ Chain(s)
  /\ ~s.local => s.unacked = <<>> /\ s.tcp_in = <<>>
  /\ HasLeft(s) => ~s.local
  /\ e = CLIENT /\ HasLeft(s) => ~s.peer_connect

LineEnd(e, x) ==
  /\ StreamOK(e, x.stream)
  /\ ~x.stream.peer_close
  /\ e = CLIENT /\ x.sock # "none" => x.stream.peer_connect
  /\ ~Open(x) => x.buf = <<>>

OnceInv ==
  \A e \in End :
    /\ LineEnd(e, ep[e])
    /\ Direction(air[e], ep[Peer(e)].stream.unacked, Unsent(ep[Peer(e)]),
                 ep[e], got[e], Known(Peer(e)))

-----------------------------------------------------------------------------
(***************************************************************************)
(* More about numbers.                                                     *)
(***************************************************************************)

LEMMA SeqAddDiffer ==
  ASSUME NEW a \in Int, NEW j \in Int, NEW k \in Int, j - k < MOD, k - j < MOD,
         SeqAdd(a, j) = SeqAdd(a, k)
  PROVE  j = k
<1>1. PICK b \in Int, c \in Int : b = a + j /\ c = a + k
  BY Sizes
<1>2. PICK q \in Int, r \in 0..MOD - 1 : b = MOD * q + r /\ b % MOD = r
  BY Sizes, DivMod
<1>3. PICK p \in Int, s \in 0..MOD - 1 : c = MOD * p + s /\ c % MOD = s
  BY Sizes, DivMod
<1>4. r = s
  BY <1>1, <1>2, <1>3 DEF SeqAdd
<1>5. PICK d \in Int : d = q - p
  OBVIOUS
<1>6. j - k = MOD * d
  BY <1>1, <1>2, <1>3, <1>4, <1>5, Sizes
<1>7. d >= 1 => MOD * d >= MOD
  BY <1>5, Sizes
<1>8. d <= -1 => MOD * d <= -MOD
  BY <1>5, Sizes
<1>9. d = 0
  BY <1>5, <1>6, <1>7, <1>8, Sizes
<1>. QED BY <1>6, <1>9, Sizes

LEMMA Halves == 2 * WINDOW <= MOD /\ WINDOW \in Nat \ {0} /\ MOD \in Nat \ {0}
BY StreamAssumption, Sizes

LEMMA SeqAddZero == ASSUME NEW a \in SeqNum PROVE SeqAdd(a, 0) = a
<1>1. a \in 0..MOD - 1 /\ 0 \in Int /\ a = MOD * 0 + a
  BY Sizes DEF SeqNum
<1>2. a % MOD = a
  BY <1>1, Sizes, ModUnique
<1>. QED BY <1>1, <1>2 DEF SeqAdd

LEMMA SeqDiffOf ==
  ASSUME NEW a \in SeqNum, NEW d \in 0..MOD - 1 PROVE SeqDiff(SeqAdd(a, d), a) = d
<1>1. a \in Int /\ d \in Int /\ SeqAdd(a, d) \in SeqNum
  BY Sizes, SeqAddType DEF SeqNum
<1>2. PICK c \in 0..MOD - 1 : c = SeqDiff(SeqAdd(a, d), a) /\ SeqAdd(a, d) = SeqAdd(a, c)
  BY <1>1, SeqDiffAdd
<1>3. c \in Int /\ c - d < MOD /\ d - c < MOD
  BY <1>2, Sizes
<1>. QED BY <1>1, <1>2, <1>3, SeqAddDiffer

LEMMA FullType == ASSUME NEW q \in SeqNum PROVE Full(q) \in SeqNum
<1>1. q \in Int /\ WINDOW \in Int
  BY Halves DEF SeqNum
<1>. QED BY <1>1, SeqAddType DEF Full

(* Numbers less than a window apart are not a window apart. *)
LEMMA FullApart ==
  ASSUME NEW a \in Int, NEW j \in Int, NEW k \in Int, j - k < WINDOW, k - j < WINDOW
  PROVE  SeqAdd(a, j) # Full(SeqAdd(a, k))
<1>1. SUFFICES ASSUME SeqAdd(a, j) = Full(SeqAdd(a, k)) PROVE FALSE
  OBVIOUS
<1>2. k + WINDOW \in Int /\ WINDOW \in Int
  BY Halves
<1>3. Full(SeqAdd(a, k)) = SeqAdd(a, k + WINDOW)
  BY <1>2, SeqAddTwice DEF Full
<1>4. j - (k + WINDOW) < MOD /\ (k + WINDOW) - j < MOD
  BY Halves
<1>5. j = k + WINDOW
  BY <1>1, <1>2, <1>3, <1>4, SeqAddDiffer
<1>. QED BY <1>5, Halves

(* What is at most a window behind rx_seq is not ahead of it. *)
LEMMA Behind ==
  ASSUME NEW rx \in SeqNum, NEW q \in SeqNum, SeqDiff(rx, q) \in 1..WINDOW
  PROVE  /\ SeqDiff(q, rx) >= WINDOW /\ q # rx
         /\ \E d \in 1..WINDOW : d = SeqDiff(rx, q) /\ rx = SeqAdd(q, d)
<1>1. PICK d \in 1..WINDOW : d = SeqDiff(rx, q) /\ rx = SeqAdd(q, d)
  BY SeqDiffAdd
<1>2. PICK c \in 0..MOD - 1 : c = SeqDiff(q, rx) /\ q = SeqAdd(rx, c)
  BY SeqDiffAdd
<1>3. d \in Int /\ c \in Int /\ d + c \in Int /\ q \in Int
  BY <1>1, <1>2, Halves DEF SeqNum
<1>4. q = SeqAdd(q, d + c)
  <2>1. SeqAdd(SeqAdd(q, d), c) = SeqAdd(q, d + c)
    BY <1>3, SeqAddTwice
  <2>. QED BY <1>1, <1>2, <2>1
<1>5. c >= WINDOW
  <2>1. ASSUME c < WINDOW PROVE FALSE
    <3>1. (d + c) - 0 < MOD /\ 0 - (d + c) < MOD /\ d + c # 0 /\ 0 \in Int
      BY <1>1, <1>2, <2>1, Halves
    <3>2. SeqAdd(q, d + c) = SeqAdd(q, 0)
      BY <1>4, SeqAddZero
    <3>3. d + c = 0
      BY <1>3, <3>1, <3>2, SeqAddDiffer
    <3>. QED BY <3>1, <3>3
  <2>. QED BY <1>2, <2>1, Halves
<1>6. q # rx
  <2>1. ASSUME q = rx PROVE FALSE
    <3>1. SeqAdd(rx, 0) = SeqAdd(rx, c) /\ 0 \in Int /\ rx \in Int
      BY <1>2, <2>1, SeqAddZero DEF SeqNum
    <3>2. 0 - c < MOD /\ c - 0 < MOD
      BY <1>2, Halves
    <3>3. 0 = c
      BY <1>3, <3>1, <3>2, SeqAddDiffer
    <3>. QED BY <1>5, <3>3, Halves
  <2>. QED BY <2>1
<1>. QED BY <1>1, <1>2, <1>5, <1>6

-----------------------------------------------------------------------------
(***************************************************************************)
(* Copies on their way, when the line moves.                               *)
(***************************************************************************)

LEMMA WaySpots ==
  ASSUME NEW line \in Seq(Frames), NEW unacked \in Seq(Segment(Pay))
  PROVE  /\ Way(line, unacked) \subseteq Spot
         /\ \A v \in Way(line, unacked) : v.at \in 1..Len(line) + 1
<1>1. ASSUME NEW i \in DOMAIN line, line[i].type = "DATA"
      PROVE  i \in Nat /\ i \in 1..Len(line) + 1 /\ line[i].seq \in SeqNum /\ line[i].pay \in Pay
  <2>1. line[i] \in Frames /\ i \in 1..Len(line) /\ Len(line) \in Nat
    OBVIOUS
  <2>. QED BY <1>1, <2>1 DEF Frames, Frame
<1>2. ASSUME NEW j \in DOMAIN unacked PROVE unacked[j].seq \in SeqNum /\ unacked[j].pay \in Pay
  <2>1. unacked[j] \in Segment(Pay)
    OBVIOUS
  <2>. QED BY <2>1 DEF Segment
<1>3. Len(line) + 1 \in Nat /\ Len(line) + 1 \in 1..Len(line) + 1
  <2>1. Len(line) \in Nat
    OBVIOUS
  <2>. QED BY <2>1
<1>4. ASSUME NEW v \in Way(line, unacked) PROVE v \in Spot /\ v.at \in 1..Len(line) + 1
  <2>1. CASE \E i \in {j \in DOMAIN line : line[j].type = "DATA"} :
               v = [at |-> i, seq |-> line[i].seq, pay |-> line[i].pay]
    BY <1>1, <2>1 DEF Spot
  <2>2. CASE \E j \in DOMAIN unacked :
               v = [at |-> Len(line) + 1, seq |-> unacked[j].seq, pay |-> unacked[j].pay]
    BY <1>2, <1>3, <2>2 DEF Spot
  <2>. QED BY <2>1, <2>2 DEF Way
<1>. QED BY <1>4

LEMMA WayOnAir ==
  ASSUME NEW line, NEW unacked, NEW i \in DOMAIN line, line[i].type = "DATA"
  PROVE  [at |-> i, seq |-> line[i].seq, pay |-> line[i].pay] \in Way(line, unacked)
BY DEF Way

LEMMA WayBehind ==
  ASSUME NEW line, NEW unacked, NEW j \in DOMAIN unacked
  PROVE  [at |-> Len(line) + 1, seq |-> unacked[j].seq, pay |-> unacked[j].pay]
            \in Way(line, unacked)
BY DEF Way

LEMMA WayCases ==
  ASSUME NEW line, NEW unacked, NEW v \in Way(line, unacked)
  PROVE  \/ \E i \in DOMAIN line : line[i].type = "DATA"
              /\ v = [at |-> i, seq |-> line[i].seq, pay |-> line[i].pay]
         \/ \E j \in DOMAIN unacked :
              v = [at |-> Len(line) + 1, seq |-> unacked[j].seq, pay |-> unacked[j].pay]
BY DEF Way

(* V is on its way as W was, with h telling where each of V was. *)
Mono(h) == h \in [Nat -> Nat] /\ \A i, j \in Nat : i <= j => h[i] <= h[j]

From(V, W, h) ==
  /\ V \subseteq Spot
  /\ \A v \in V : \E w \in W : w.at = h[v.at] /\ w.seq = v.seq /\ w.pay = v.pay

LEMMA WayOKMoves ==
  ASSUME NEW V, NEW W, NEW h, Mono(h), From(V, W, h), WayOK(W) PROVE WayOK(V)
<1>1. ASSUME NEW v \in V, NEW w \in V, v.pay = w.pay PROVE v.seq = w.seq
  <2>1. PICK v0 \in W : v0.seq = v.seq /\ v0.pay = v.pay
    BY DEF From
  <2>2. PICK w0 \in W : w0.seq = w.seq /\ w0.pay = w.pay
    BY DEF From
  <2>. QED BY <1>1, <2>1, <2>2 DEF WayOK
<1>2. ASSUME NEW v \in V, NEW y \in V, NEW w \in V,
             v.pay = w.pay, v.at <= y.at, y.at <= w.at
      PROVE  y.seq # Full(v.seq)
  <2>1. PICK v0 \in W : v0.at = h[v.at] /\ v0.seq = v.seq /\ v0.pay = v.pay
    BY DEF From
  <2>2. PICK w0 \in W : w0.at = h[w.at] /\ w0.seq = w.seq /\ w0.pay = w.pay
    BY DEF From
  <2>3. PICK y0 \in W : y0.at = h[y.at] /\ y0.seq = y.seq /\ y0.pay = y.pay
    BY DEF From
  <2>4. v.at \in Nat /\ w.at \in Nat /\ y.at \in Nat
    BY DEF From, Spot
  <2>5. v0.at <= y0.at /\ y0.at <= w0.at
    BY <1>2, <2>1, <2>2, <2>3, <2>4 DEF Mono
  <2>. QED BY <1>2, <2>1, <2>2, <2>3, <2>5 DEF WayOK
<1>. QED BY <1>1, <1>2 DEF WayOK

LEMMA ReadOKMoves ==
  ASSUME NEW V, NEW W, NEW h, Mono(h), From(V, W, h), NEW s, NEW c, ReadOK(W, s, c)
  PROVE  ReadOK(V, s, c)
<1>. SUFFICES ASSUME s.peer_connect PROVE ReadOK(V, s, c)
  BY DEF ReadOK
<1>1. ASSUME NEW v \in V, NEW q, q = Full(v.seq),
             \A w \in W : w.at = h[v.at] /\ w.seq = v.seq /\ w.pay = v.pay =>
                \A y \in W : y.at <= w.at => y.seq # q
      PROVE  \A y \in V : y.at <= v.at => y.seq # q
  <2>. SUFFICES ASSUME NEW y \in V, y.at <= v.at PROVE y.seq # q
    OBVIOUS
  <2>1. PICK w \in W : w.at = h[v.at] /\ w.seq = v.seq /\ w.pay = v.pay
    BY DEF From
  <2>2. PICK z \in W : z.at = h[y.at] /\ z.seq = y.seq /\ z.pay = y.pay
    BY DEF From
  <2>3. v.at \in Nat /\ y.at \in Nat
    BY DEF From, Spot
  <2>4. z.at <= w.at
    BY <2>1, <2>2, <2>3 DEF Mono
  <2>. QED BY <1>1, <2>1, <2>2, <2>4
<1>2. ASSUME NEW v \in V, v.pay \in c
      PROVE  /\ SeqDiff(s.rx_seq, v.seq) \in 1 .. WINDOW
             /\ s.reorder[Full(v.seq)] = NONE
             /\ \A y \in V : y.at <= v.at => y.seq # Full(v.seq)
  <2>1. PICK w \in W : w.at = h[v.at] /\ w.seq = v.seq /\ w.pay = v.pay
    BY DEF From
  <2>2. /\ SeqDiff(s.rx_seq, v.seq) \in 1 .. WINDOW
        /\ s.reorder[Full(v.seq)] = NONE
    BY <1>2, <2>1 DEF ReadOK
  <2>3. \A z \in W : z.at = h[v.at] /\ z.seq = v.seq /\ z.pay = v.pay =>
                \A y \in W : y.at <= z.at => y.seq # Full(v.seq)
    BY <1>2 DEF ReadOK
  <2>. QED BY <1>1, <2>2, <2>3
<1>3. ASSUME NEW n \in Keys(s.reorder), NEW v \in V, v.pay = s.reorder[n]
      PROVE  v.seq = n /\ \A y \in V : y.at <= v.at => y.seq # Full(n)
  <2>1. PICK w \in W : w.at = h[v.at] /\ w.seq = v.seq /\ w.pay = v.pay
    BY DEF From
  <2>2. v.seq = n
    BY <1>3, <2>1 DEF ReadOK
  <2>3. \A z \in W : z.at = h[v.at] /\ z.seq = v.seq /\ z.pay = v.pay =>
                \A y \in W : y.at <= z.at => y.seq # Full(n)
    BY <1>3 DEF ReadOK
  <2>. QED BY <1>1, <2>2, <2>3
<1>. QED BY <1>2, <1>3 DEF ReadOK

LEMMA CloseOKMoves ==
  ASSUME NEW V, NEW W, NEW h, Mono(h), From(V, W, h),
         NEW line, NEW next, NEW A, CloseOK(line, W, A), DOMAIN next \subseteq Nat,
         \A n \in DOMAIN next : Leaving(next[n].type) =>
            \/ \A v \in V : ~(v.at > n)
            \/ /\ h[n] \in DOMAIN line /\ line[h[n]].type = next[n].type
               /\ h[n] \in Nat /\ \A i \in Nat : i > n => h[i] > h[n]
  PROVE  CloseOK(next, V, A)
<1>. SUFFICES ASSUME NEW n \in DOMAIN next, Leaving(next[n].type), NEW v \in V, v.at > n
              PROVE  v.pay \notin A /\ \A w \in V : w.pay = v.pay => w.at > n
  BY DEF CloseOK
<1>1. /\ h[n] \in DOMAIN line /\ line[h[n]].type = next[n].type
      /\ h[n] \in Nat /\ \A i \in Nat : i > n => h[i] > h[n]
  OBVIOUS
<1>2. n \in Nat /\ \A y \in V : y.at \in Nat /\ h[y.at] \in Nat
  BY DEF From, Spot, Mono
<1>3. PICK v0 \in W : v0.at = h[v.at] /\ v0.seq = v.seq /\ v0.pay = v.pay
  BY DEF From
<1>4. v0.at > h[n]
  BY <1>1, <1>2, <1>3
<1>5. v.pay \notin A /\ \A w \in W : w.pay = v.pay => w.at > h[n]
  BY <1>1, <1>3, <1>4 DEF CloseOK
<1>6. ASSUME NEW w \in V, w.pay = v.pay PROVE w.at > n
  <2>1. PICK w0 \in W : w0.at = h[w.at] /\ w0.seq = w.seq /\ w0.pay = w.pay
    BY DEF From
  <2>2. h[w.at] > h[n]
    BY <1>5, <1>6, <2>1
  <2>3. ~(w.at <= n)
    BY <1>1, <1>2, <2>2 DEF Mono
  <2>. QED BY <1>2, <2>3
<1>. QED BY <1>5, <1>6

LEMMA UnsentOKMoves ==
  ASSUME NEW V, NEW W, NEW h, From(V, W, h), NEW N, NEW A, NEW known, UnsentOK(W, N, A, known)
  PROVE  UnsentOK(V, N, A, known)
<1>1. \A v \in V : \E w \in W : w.pay = v.pay
  BY DEF From
<1>. QED BY <1>1 DEF UnsentOK

(* The line moves and takes its copies with it. *)
LEMMA LineMoves ==
  ASSUME NEW line, NEW next, NEW u, NEW t, NEW N, NEW x, NEW g, NEW known,
         Direction(line, u, N, x, g, known), DOMAIN next \subseteq Nat,
         NEW h, Mono(h), From(Way(next, t), Way(line, u), h),
         \A n \in DOMAIN next : Leaving(next[n].type) =>
            \/ \A v \in Way(next, t) : ~(v.at > n)
            \/ /\ h[n] \in DOMAIN line /\ line[h[n]].type = next[n].type
               /\ h[n] \in Nat /\ \A i \in Nat : i > n => h[i] > h[n]
  PROVE  Direction(next, t, N, x, g, known)
<1>. DEFINE W == Way(line, u)
            V == Way(next, t)
            c == Elements(Consumed(x, g))
            A == Accepted(x, g)
<1>1. /\ WayOK(W) /\ Distinct(g) /\ Distinct(Consumed(x, g)) /\ ReadOK(W, x.stream, c)
      /\ Open(x) /\ ~x.stream.peer_connect => \A v \in W : v.pay \notin c
      /\ CloseOK(line, W, A) /\ UnsentOK(W, N, A, known)
  BY DEF Direction
<1>. SUFFICES /\ WayOK(V) /\ Distinct(g) /\ Distinct(Consumed(x, g)) /\ ReadOK(V, x.stream, c)
              /\ Open(x) /\ ~x.stream.peer_connect => \A v \in V : v.pay \notin c
              /\ CloseOK(next, V, A) /\ UnsentOK(V, N, A, known)
  BY DEF Direction
<1>. HIDE DEF V, W, c, A
<1>2. From(V, W, h) /\ \A n \in DOMAIN next : Leaving(next[n].type) =>
            \/ \A v \in V : ~(v.at > n)
            \/ /\ h[n] \in DOMAIN line /\ line[h[n]].type = next[n].type
               /\ h[n] \in Nat /\ \A i \in Nat : i > n => h[i] > h[n]
  BY DEF V, W
<1>3. \A v \in V : \E w \in W : w.pay = v.pay
  BY <1>2 DEF From
<1>4. CloseOK(next, V, A)
  BY <1>1, <1>2, CloseOKMoves
<1>. QED BY <1>1, <1>2, <1>3, <1>4, WayOKMoves, ReadOKMoves, UnsentOKMoves

(* The frame at the front is gone. *)
LEMMA LineShrinks ==
  ASSUME NEW line \in Seq(Frames), line # <<>>, NEW u \in Seq(Segment(Pay)),
         NEW N, NEW x, NEW g, NEW known, Direction(line, u, N, x, g, known)
  PROVE  Direction(Tail(line), u, N, x, g, known)
<1>. DEFINE next == Tail(line)
            h == [i \in Nat |-> i + 1]
<1>1. /\ next \in Seq(Frames) /\ Len(next) = Len(line) - 1 /\ Len(line) \in Nat \ {0}
      /\ \A i \in 1..Len(next) : next[i] = line[i + 1] /\ i + 1 \in DOMAIN line
      /\ DOMAIN next = 1..Len(next)
  BY LenProperties, HeadTailProperties
<1>. HIDE DEF next
<1>2. Mono(h)
  BY DEF Mono
<1>3. From(Way(next, u), Way(line, u), h)
  <2>1. Way(next, u) \subseteq Spot
    BY <1>1, WaySpots
  <2>2. ASSUME NEW v \in Way(next, u)
        PROVE  \E w \in Way(line, u) : w.at = h[v.at] /\ w.seq = v.seq /\ w.pay = v.pay
    <3>1. CASE \E i \in DOMAIN next : next[i].type = "DATA"
                 /\ v = [at |-> i, seq |-> next[i].seq, pay |-> next[i].pay]
      <4>1. PICK i \in DOMAIN next : next[i].type = "DATA"
                 /\ v = [at |-> i, seq |-> next[i].seq, pay |-> next[i].pay]
        BY <3>1
      <4>2. line[i + 1] = next[i] /\ i + 1 \in DOMAIN line /\ i \in Nat
        BY <1>1, <4>1
      <4>3. [at |-> i + 1, seq |-> line[i + 1].seq, pay |-> line[i + 1].pay] \in Way(line, u)
        BY <4>1, <4>2, WayOnAir
      <4>4. v.at = i /\ v.seq = line[i + 1].seq /\ v.pay = line[i + 1].pay /\ h[i] = i + 1
        BY <4>1, <4>2
      <4> HIDE DEF h
      <4>. QED BY <4>3, <4>4
    <3>2. CASE \E j \in DOMAIN u :
                 v = [at |-> Len(next) + 1, seq |-> u[j].seq, pay |-> u[j].pay]
      <4>1. PICK j \in DOMAIN u :
                 v = [at |-> Len(next) + 1, seq |-> u[j].seq, pay |-> u[j].pay]
        BY <3>2
      <4>2. [at |-> Len(line) + 1, seq |-> u[j].seq, pay |-> u[j].pay] \in Way(line, u)
        BY <4>1, WayBehind
      <4>3. v.at \in Nat /\ h[v.at] = Len(line) + 1
        BY <1>1, <4>1
      <4>4. v.seq = u[j].seq /\ v.pay = u[j].pay
        BY <4>1
      <4> HIDE DEF h
      <4>. QED BY <4>2, <4>3, <4>4
    <3> HIDE DEF h
    <3>3. \/ \E i \in DOMAIN next : next[i].type = "DATA"
                 /\ v = [at |-> i, seq |-> next[i].seq, pay |-> next[i].pay]
          \/ \E j \in DOMAIN u :
                 v = [at |-> Len(next) + 1, seq |-> u[j].seq, pay |-> u[j].pay]
      BY WayCases
    <3>. QED BY <3>1, <3>2, <3>3
  <2>. QED BY <2>1, <2>2 DEF From
<1>4. ASSUME NEW n \in DOMAIN next
      PROVE  /\ h[n] \in DOMAIN line /\ line[h[n]].type = next[n].type
             /\ h[n] \in Nat /\ \A i \in Nat : i > n => h[i] > h[n]
  <2>1. n \in Nat /\ n \in 1..Len(next) /\ h[n] = n + 1
    BY <1>1
  <2>2. \A i \in Nat : h[i] = i + 1
    OBVIOUS
  <2> HIDE DEF h
  <2>3. line[h[n]] = next[n] /\ h[n] \in DOMAIN line
    <3>1. line[n + 1] = next[n] /\ n + 1 \in DOMAIN line
      BY ONLY <1>1, <2>1
    <3>. QED BY ONLY <2>1, <3>1
  <2>4. \A i \in Nat : i > n => h[i] > h[n]
    BY <2>1, <2>2
  <2>5. line[h[n]].type = next[n].type /\ h[n] \in Nat
    BY <2>1, <2>3
  <2>. QED BY <2>3, <2>4, <2>5
<1>5. DOMAIN next \subseteq Nat
  BY <1>1
<1>. HIDE DEF h
<1>6. Direction(next, u, N, x, g, known)
  BY <1>2, <1>3, <1>4, <1>5, LineMoves
<1>. QED BY <1>6 DEF next

-----------------------------------------------------------------------------
(***************************************************************************)
(* A writer or a reader becomes another, and nothing is heard.             *)
(***************************************************************************)

(* The writer sends on what it had or had not sent yet. *)
WriterOK(u, N) ==
  /\ Distinct(N)
  /\ \A i \in DOMAIN u : u[i].pay \notin Elements(N)
  /\ \A i, j \in DOMAIN u : u[i].pay = u[j].pay => u[i].seq = u[j].seq

Apart(u) == \A i, j \in DOMAIN u : u[i].seq # Full(u[j].seq)

Sends(u, N, t, M) ==
  /\ \A j \in DOMAIN t :
        \/ t[j].pay \in Elements(N)
        \/ \E i \in DOMAIN u : t[j].seq = u[i].seq /\ t[j].pay = u[i].pay
  /\ Elements(M) \subseteq Elements(N)

(* The reader accepts nothing new, and forgets where it was at most when the *)
(* peer is gone.                                                             *)
ReaderOK(x, g) == Distinct(g) /\ Distinct(Consumed(x, g))

Reads(x, g, y, h) ==
  LET c == Elements(Consumed(x, g))
      d == Elements(Consumed(y, h))
  IN /\ Accepted(y, h) \subseteq Accepted(x, g)
     /\ y.stream.peer_connect =>
          /\ x.stream.peer_connect
          /\ y.stream.rx_seq = x.stream.rx_seq /\ y.stream.reorder = x.stream.reorder
          /\ d \subseteq c
     /\ Open(y) /\ ~y.stream.peer_connect =>
          d = {} \/ (Open(x) /\ ~x.stream.peer_connect /\ d \subseteq c)

LEMMA ReaderTurns ==
  ASSUME NEW line, NEW u, NEW N, NEW x, NEW g, NEW known, Direction(line, u, N, x, g, known),
         NEW y, NEW h, ReaderOK(y, h), Reads(x, g, y, h)
  PROVE  Direction(line, u, N, y, h, known)
<1>. DEFINE W == Way(line, u)
            c == Elements(Consumed(x, g))
            A == Accepted(x, g)
            d == Elements(Consumed(y, h))
            B == Accepted(y, h)
<1>1. /\ WayOK(W) /\ ReadOK(W, x.stream, c)
      /\ Open(x) /\ ~x.stream.peer_connect => \A v \in W : v.pay \notin c
      /\ CloseOK(line, W, A) /\ UnsentOK(W, N, A, known)
  BY DEF Direction
<1>2. /\ B \subseteq A
      /\ y.stream.peer_connect =>
          /\ x.stream.peer_connect
          /\ y.stream.rx_seq = x.stream.rx_seq /\ y.stream.reorder = x.stream.reorder
          /\ d \subseteq c
      /\ Open(y) /\ ~y.stream.peer_connect =>
          d = {} \/ (Open(x) /\ ~x.stream.peer_connect /\ d \subseteq c)
  BY DEF Reads
<1>. SUFFICES /\ WayOK(W) /\ Distinct(h) /\ Distinct(Consumed(y, h)) /\ ReadOK(W, y.stream, d)
              /\ Open(y) /\ ~y.stream.peer_connect => \A v \in W : v.pay \notin d
              /\ CloseOK(line, W, B) /\ UnsentOK(W, N, B, known)
  BY DEF Direction
<1>. HIDE DEF W, c, A, d, B
<1>3. ReadOK(W, y.stream, d)
  <2>. SUFFICES ASSUME y.stream.peer_connect PROVE ReadOK(W, y.stream, d)
    BY DEF ReadOK
  <2>1. /\ x.stream.peer_connect
        /\ y.stream.rx_seq = x.stream.rx_seq /\ y.stream.reorder = x.stream.reorder
        /\ d \subseteq c
    BY <1>2
  <2>. QED BY <1>1, <2>1 DEF ReadOK
<1>4. CloseOK(line, W, B)
  BY <1>1, <1>2 DEF CloseOK
<1>5. UnsentOK(W, N, B, known)
  BY <1>1, <1>2 DEF UnsentOK
<1>. QED BY <1>1, <1>2, <1>3, <1>4, <1>5 DEF ReaderOK

LEMMA ReadsTwice ==
  ASSUME NEW x, NEW g, NEW y, NEW h, NEW z, NEW k, Reads(x, g, y, h), Reads(y, h, z, k)
  PROVE  Reads(x, g, z, k)
<1>. DEFINE c == Elements(Consumed(x, g))
            d == Elements(Consumed(y, h))
            b == Elements(Consumed(z, k))
<1>1. /\ Accepted(y, h) \subseteq Accepted(x, g)
      /\ y.stream.peer_connect =>
          /\ x.stream.peer_connect
          /\ y.stream.rx_seq = x.stream.rx_seq /\ y.stream.reorder = x.stream.reorder
          /\ d \subseteq c
      /\ Open(y) /\ ~y.stream.peer_connect =>
          d = {} \/ (Open(x) /\ ~x.stream.peer_connect /\ d \subseteq c)
  BY DEF Reads
<1>2. /\ Accepted(z, k) \subseteq Accepted(y, h)
      /\ z.stream.peer_connect =>
          /\ y.stream.peer_connect
          /\ z.stream.rx_seq = y.stream.rx_seq /\ z.stream.reorder = y.stream.reorder
          /\ b \subseteq d
      /\ Open(z) /\ ~z.stream.peer_connect =>
          b = {} \/ (Open(y) /\ ~y.stream.peer_connect /\ b \subseteq d)
  BY DEF Reads
<1>. HIDE DEF c, d, b
<1>3. /\ Accepted(z, k) \subseteq Accepted(x, g)
      /\ z.stream.peer_connect =>
          /\ x.stream.peer_connect
          /\ z.stream.rx_seq = x.stream.rx_seq /\ z.stream.reorder = x.stream.reorder
          /\ b \subseteq c
      /\ Open(z) /\ ~z.stream.peer_connect =>
          b = {} \/ (Open(x) /\ ~x.stream.peer_connect /\ b \subseteq c)
  BY <1>1, <1>2
<1>. QED BY <1>3 DEF Reads, c, b

LEMMA SendsTwice ==
  ASSUME NEW u, NEW N, NEW t, NEW M, NEW r, NEW L, Sends(u, N, t, M), Sends(t, M, r, L)
  PROVE  Sends(u, N, r, L)
<1>1. ASSUME NEW j \in DOMAIN r
      PROVE  \/ r[j].pay \in Elements(N)
             \/ \E i \in DOMAIN u : r[j].seq = u[i].seq /\ r[j].pay = u[i].pay
  <2>1. CASE r[j].pay \in Elements(M)
    BY <2>1 DEF Sends
  <2>2. CASE \E i \in DOMAIN t : r[j].seq = t[i].seq /\ r[j].pay = t[i].pay
    <3>1. PICK i \in DOMAIN t : r[j].seq = t[i].seq /\ r[j].pay = t[i].pay
      BY <2>2
    <3>2. \/ t[i].pay \in Elements(N)
          \/ \E k \in DOMAIN u : t[i].seq = u[k].seq /\ t[i].pay = u[k].pay
      BY DEF Sends
    <3>. QED BY <3>1, <3>2
  <2>. QED BY <2>1, <2>2 DEF Sends
<1>2. Elements(L) \subseteq Elements(N)
  BY DEF Sends
<1>. QED BY <1>1, <1>2 DEF Sends

LEMMA WriterTurns ==
  ASSUME NEW line \in Seq(Frames), NEW u \in Seq(Segment(Pay)), NEW t \in Seq(Segment(Pay)),
         NEW N, NEW M, NEW x, NEW g, NEW known, Direction(line, u, N, x, g, known),
         Sends(u, N, t, M), WriterOK(t, M), Apart(t)
  PROVE  Direction(line, t, M, x, g, known)
<1>. DEFINE W == Way(line, u)
            V == Way(line, t)
            c == Elements(Consumed(x, g))
            A == Accepted(x, g)
<1>1. /\ WayOK(W) /\ Distinct(g) /\ Distinct(Consumed(x, g)) /\ ReadOK(W, x.stream, c)
      /\ Open(x) /\ ~x.stream.peer_connect => \A v \in W : v.pay \notin c
      /\ CloseOK(line, W, A) /\ UnsentOK(W, N, A, known)
      /\ c \subseteq A
  BY DEF Direction, Accepted
<1>. SUFFICES /\ WayOK(V) /\ Distinct(g) /\ Distinct(Consumed(x, g)) /\ ReadOK(V, x.stream, c)
              /\ Open(x) /\ ~x.stream.peer_connect => \A v \in V : v.pay \notin c
              /\ CloseOK(line, V, A) /\ UnsentOK(V, M, A, known)
  BY DEF Direction
<1>. DEFINE P == Elements(N)
            T == {v \in V : \E j \in DOMAIN t : v.at = Len(line) + 1
                                  /\ v.seq = t[j].seq /\ v.pay = t[j].pay}
<1>2. ASSUME NEW v \in V PROVE v \in W \/ (v \in T /\ v.pay \in P)
  <2>1. CASE \E i \in DOMAIN line : line[i].type = "DATA"
               /\ v = [at |-> i, seq |-> line[i].seq, pay |-> line[i].pay]
    BY <2>1, WayOnAir
  <2>2. CASE \E j \in DOMAIN t :
               v = [at |-> Len(line) + 1, seq |-> t[j].seq, pay |-> t[j].pay]
    <3>1. PICK j \in DOMAIN t :
               v = [at |-> Len(line) + 1, seq |-> t[j].seq, pay |-> t[j].pay]
      BY <2>2
    <3>2. CASE t[j].pay \in P
      BY <3>1, <3>2
    <3>3. CASE \E i \in DOMAIN u : t[j].seq = u[i].seq /\ t[j].pay = u[i].pay
      <4>1. PICK i \in DOMAIN u : t[j].seq = u[i].seq /\ t[j].pay = u[i].pay
        BY <3>3
      <4>. QED BY <3>1, <4>1, WayBehind
    <3>. QED BY <3>2, <3>3 DEF Sends
  <2>3. \/ \E i \in DOMAIN line : line[i].type = "DATA"
               /\ v = [at |-> i, seq |-> line[i].seq, pay |-> line[i].pay]
        \/ \E j \in DOMAIN t :
               v = [at |-> Len(line) + 1, seq |-> t[j].seq, pay |-> t[j].pay]
    BY WayCases
  <2>. QED BY <2>1, <2>2, <2>3
<1>3. /\ \A v \in V : v.at \in Nat /\ v.at <= Len(line) + 1
      /\ Len(line) \in Nat /\ DOMAIN line = 1..Len(line)
      /\ \A v \in T : v.at = Len(line) + 1
  <2>1. V \subseteq Spot /\ \A v \in V : v.at \in 1..Len(line) + 1
    BY WaySpots
  <2>2. Len(line) \in Nat
    OBVIOUS
  <2>. QED BY <2>1, <2>2 DEF Spot
(* What is last is still with the writer. *)
<1>4. ASSUME NEW v \in V, v.at = Len(line) + 1 PROVE v \in T
  <2>1. \/ \E i \in DOMAIN line : line[i].type = "DATA"
               /\ v = [at |-> i, seq |-> line[i].seq, pay |-> line[i].pay]
        \/ \E j \in DOMAIN t :
               v = [at |-> Len(line) + 1, seq |-> t[j].seq, pay |-> t[j].pay]
    BY WayCases
  <2>2. ASSUME NEW i \in DOMAIN line PROVE i # Len(line) + 1
    BY <1>3
  <2>3. PICK j \in DOMAIN t :
               v = [at |-> Len(line) + 1, seq |-> t[j].seq, pay |-> t[j].pay]
    BY <1>4, <2>1, <2>2
  <2>. QED BY <2>3
<1>5. ASSUME NEW v \in T, NEW w \in T PROVE v.seq # Full(w.seq) /\ (v.pay = w.pay => v.seq = w.seq)
  BY DEF Apart, WriterOK
<1>6. /\ \A v \in W : v.pay \notin P
      /\ \A p \in P : p \in known /\ p \notin A
  BY <1>1 DEF UnsentOK
<1>7. \A v \in T : v.pay \notin Elements(M)
  BY DEF WriterOK
<1>8. T \subseteq V
  OBVIOUS
<1>. HIDE DEF W, V, c, A, P, T
(* Two copies of the same are both old or both new. *)
<1>9. ASSUME NEW v \in V, NEW w \in V, v.pay = w.pay
      PROVE  v.seq = w.seq /\ \/ v \in W /\ w \in W
                              \/ v \in T /\ w \in T
  BY <1>1, <1>2, <1>5, <1>6, <1>9 DEF WayOK
(* What is new is behind all that is not with the writer. *)
<1>10. ASSUME NEW v \in V, NEW y \in V, y.at <= v.at
       PROVE  y \in W \/ (v \in T /\ y.seq # Full(v.seq))
  <2>1. CASE y \in T
    <3>1. v.at = Len(line) + 1
      BY <1>3, <1>10, <2>1
    <3>. QED BY <1>4, <1>5, <2>1, <3>1
  <2>. QED BY <1>2, <2>1
<1>11. WayOK(V)
  <2>1. ASSUME NEW v \in V, NEW y \in V, NEW w \in V, v.pay = w.pay, v.at <= y.at, y.at <= w.at
        PROVE  y.seq # Full(v.seq)
    <3>1. CASE y \in W /\ v \in W /\ w \in W
      BY <1>1, <2>1, <3>1 DEF WayOK
    <3>2. CASE ~(y \in W)
      BY <1>9, <1>10, <2>1, <3>2
    <3>3. CASE v \in T /\ w \in T
      <4>1. v.at = Len(line) + 1 /\ w.at = Len(line) + 1 /\ y.at \in Nat /\ Len(line) \in Nat
        BY <1>3, <3>3
      <4>2. y.at = Len(line) + 1
        BY <2>1, <4>1
      <4>. QED BY <1>4, <1>5, <3>3, <4>2
    <3>. QED BY <1>9, <2>1, <3>1, <3>2, <3>3
  <2>. QED BY <1>9, <2>1 DEF WayOK
<1>12. ReadOK(V, x.stream, c)
  <2>. SUFFICES ASSUME x.stream.peer_connect PROVE ReadOK(V, x.stream, c)
    BY DEF ReadOK
  <2>1. ASSUME NEW v \in V, v.pay \in A PROVE v \in W
    BY <1>2, <1>6, <2>1
  <2>2. \A n \in Keys(x.stream.reorder) : x.stream.reorder[n] \in A
    BY DEF A, Accepted, Held
  <2>3. ASSUME NEW v \in V, v.pay \in c
        PROVE  /\ SeqDiff(x.stream.rx_seq, v.seq) \in 1 .. WINDOW
               /\ x.stream.reorder[Full(v.seq)] = NONE
               /\ \A y \in V : y.at <= v.at => y.seq # Full(v.seq)
    <3>1. v \in W
      BY <1>1, <2>1, <2>3
    <3>2. /\ SeqDiff(x.stream.rx_seq, v.seq) \in 1 .. WINDOW
          /\ x.stream.reorder[Full(v.seq)] = NONE
          /\ \A y \in W : y.at <= v.at => y.seq # Full(v.seq)
      BY <1>1, <2>3, <3>1 DEF ReadOK
    <3>. QED BY <1>10, <3>2
  <2>4. ASSUME NEW n \in Keys(x.stream.reorder), NEW v \in V, v.pay = x.stream.reorder[n]
        PROVE  v.seq = n /\ \A y \in V : y.at <= v.at => y.seq # Full(n)
    <3>1. v \in W
      BY <2>1, <2>2, <2>4
    <3>2. v.seq = n /\ \A y \in W : y.at <= v.at => y.seq # Full(n)
      BY <1>1, <2>4, <3>1 DEF ReadOK
    <3>. QED BY <1>10, <3>2
  <2>5. \A n \in Keys(x.stream.reorder) :
          /\ x.stream.reorder[n] \notin c
          /\ \A m \in Keys(x.stream.reorder) :
                x.stream.reorder[m] = x.stream.reorder[n] => m = n
    BY <1>1 DEF ReadOK
  <2>. QED BY <2>3, <2>4, <2>5 DEF ReadOK
<1>13. Open(x) /\ ~x.stream.peer_connect => \A v \in V : v.pay \notin c
  BY <1>1, <1>2, <1>6
<1>14. CloseOK(line, V, A)
  <2>. SUFFICES ASSUME NEW n \in DOMAIN line, Leaving(line[n].type), NEW v \in V, v.at > n
                PROVE  v.pay \notin A /\ \A w \in V : w.pay = v.pay => w.at > n
    BY DEF CloseOK
  <2>1. n \in Nat /\ n <= Len(line)
    BY <1>3
  <2>2. \A w \in T : w.at > n
    BY <1>3, <2>1
  <2>3. CASE v \in W
    <3>1. v.pay \notin A /\ \A w \in W : w.pay = v.pay => w.at > n
      BY <1>1, <2>3 DEF CloseOK
    <3>. QED BY <1>2, <2>2, <3>1
  <2>4. CASE v \in T /\ v.pay \in P
    <3>1. \A w \in V : w.pay = v.pay => w \in T
      BY <1>2, <1>6, <2>4
    <3>. QED BY <1>6, <2>2, <2>4, <3>1
  <2>. QED BY <1>2, <2>3, <2>4
<1>15. UnsentOK(V, M, A, known)
  <2>1. Elements(M) \subseteq P /\ Distinct(M)
    BY DEF Sends, WriterOK, P
  <2>2. ASSUME NEW p \in Elements(M), NEW v \in V PROVE v.pay # p
    BY <1>2, <1>6, <1>7, <2>1
  <2>3. \A v \in V : v.pay \in known
    BY <1>1, <1>2, <1>6 DEF UnsentOK
  <2>4. A \subseteq known
    BY <1>1 DEF UnsentOK
  <2>. QED BY <1>6, <2>1, <2>2, <2>3, <2>4 DEF UnsentOK
<1>. QED BY <1>1, <1>11, <1>12, <1>13, <1>14, <1>15

(* A writer that has a chain in its window. *)
LEMMA ChainApart ==
  ASSUME NEW s \in Stream(Pay), Len(s.unacked) <= WINDOW, Chain(s) PROVE Apart(s.unacked)
<1>1. s.unacked \in Seq(Segment(Pay)) /\ s.tx_seq \in Int /\ WINDOW \in Nat
  BY Fields, Empty, Halves
<1>2. PICK L \in Nat : L = Len(s.unacked) /\ DOMAIN s.unacked = 1..L /\ L <= WINDOW
  BY <1>1
<1>3. ASSUME NEW i \in 1..L, NEW j \in 1..L
      PROVE  s.unacked[i].seq # Full(s.unacked[j].seq)
  <2>0. i \in Int /\ j \in Int /\ L \in Int
    OBVIOUS
  <2>1. PICK a \in Int, b \in Int : a = i - 1 - L /\ b = j - 1 - L
    BY ONLY <2>0
  <2>2. a - b < WINDOW /\ b - a < WINDOW
    BY <1>1, <1>2, <2>1
  <2>3. s.unacked[i].seq = SeqAdd(s.tx_seq, a) /\ s.unacked[j].seq = SeqAdd(s.tx_seq, b)
    BY <1>2, <2>1 DEF Chain
  <2>. QED BY <1>1, <2>2, <2>3, FullApart
<1>. QED BY <1>2, <1>3 DEF Apart

(* What the direction says of its writer and of its reader. *)
LEMMA WriterIs ==
  ASSUME NEW line, NEW u, NEW N, NEW x, NEW g, NEW known, Direction(line, u, N, x, g, known)
  PROVE  WriterOK(u, N) /\ ReaderOK(x, g)
<1>. DEFINE W == Way(line, u)
<1>1. /\ WayOK(W) /\ Distinct(g) /\ Distinct(Consumed(x, g))
      /\ Distinct(N) /\ \A p \in Elements(N) : \A v \in W : v.pay # p
  BY DEF Direction, UnsentOK
<1>2. ASSUME NEW i \in DOMAIN u
      PROVE  [at |-> Len(line) + 1, seq |-> u[i].seq, pay |-> u[i].pay] \in W
  BY WayBehind
<1>. HIDE DEF W
<1>3. ASSUME NEW i \in DOMAIN u, NEW j \in DOMAIN u, u[i].pay = u[j].pay
      PROVE  u[i].seq = u[j].seq
  <2>1. PICK v \in W, w \in W : v.seq = u[i].seq /\ v.pay = u[i].pay
                                /\ w.seq = u[j].seq /\ w.pay = u[j].pay
    BY <1>2
  <2>. QED BY <1>1, <1>3, <2>1 DEF WayOK
<1>4. ASSUME NEW i \in DOMAIN u PROVE u[i].pay \notin Elements(N)
  <2>1. PICK v \in W : v.pay = u[i].pay
    BY <1>2
  <2>. QED BY <1>1, <2>1
<1>. QED BY <1>1, <1>3, <1>4 DEF WriterOK, ReaderOK

(* A segment that nobody knew is read from the application. *)
LEMMA NewSegment ==
  ASSUME NEW line, NEW u, NEW N \in Seq(Pay), NEW x, NEW g, NEW known,
         Direction(line, u, N, x, g, known),
         NEW p \in Pay, p \notin known, NEW M, M = Append(N, p),
         NEW known2, known \subseteq known2, p \in known2
  PROVE  Direction(line, u, M, x, g, known2)
<1>. DEFINE W == Way(line, u)
            A == Accepted(x, g)
<1>1. UnsentOK(W, N, A, known)
  BY DEF Direction
<1>. SUFFICES UnsentOK(W, M, A, known2)
  BY DEF Direction
<1>. HIDE DEF W, A
<1>2. PICK n \in Nat : n = Len(N) /\ DOMAIN N = 1..n /\ DOMAIN M = 1..n + 1
  OBVIOUS
<1>3. (\A i \in 1..n : M[i] = N[i]) /\ M[n + 1] = p
  BY <1>2
<1>4. ASSUME NEW i \in DOMAIN M PROVE i \in 1..n \/ i = n + 1
  BY <1>2
<1>5. \A i \in 1..n : N[i] # p
  BY <1>1, <1>2 DEF UnsentOK, Elements
<1>6. Distinct(M)
  BY <1>1, <1>2, <1>3, <1>4, <1>5 DEF UnsentOK, Distinct
<1>7. \A q \in Elements(M) : q \in Elements(N) \/ q = p
  BY <1>2, <1>3, <1>4 DEF Elements
<1>. QED BY <1>1, <1>6, <1>7 DEF UnsentOK

LEMMA KnownGrows ==
  ASSUME NEW line, NEW u, NEW N, NEW x, NEW g, NEW known, Direction(line, u, N, x, g, known),
         NEW known2, known \subseteq known2
  PROVE  Direction(line, u, N, x, g, known2)
<1>1. UnsentOK(Way(line, u), N, Accepted(x, g), known2)
  BY DEF Direction, UnsentOK
<1>. QED BY <1>1 DEF Direction

-----------------------------------------------------------------------------
(***************************************************************************)
(* Sequences.                                                              *)
(***************************************************************************)

LEMMA Join ==
  ASSUME NEW a \in Seq(Pay), NEW b \in Seq(Pay)
  PROVE  /\ (a \o b) \in Seq(Pay) /\ Elements(a \o b) = Elements(a) \cup Elements(b)
         /\ Distinct(a \o b) <=> (Distinct(a) /\ Distinct(b) /\ Elements(a) \cap Elements(b) = {})
<1>1. PICK m \in Nat, n \in Nat : m = Len(a) /\ n = Len(b) /\ DOMAIN a = 1..m /\ DOMAIN b = 1..n
  OBVIOUS
<1>2. PICK q \in Seq(Pay) : q = a \o b
  <2>1. (a \o b) \in Seq(Pay)
    OBVIOUS
  <2>. QED BY ONLY <2>1
<1>3. /\ DOMAIN q = 1..m + n
      /\ \A i \in 1..m : q[i] = a[i]
      /\ \A j \in 1..n : q[m + j] = b[j]
  BY <1>1, <1>2
<1>4. ASSUME NEW i \in 1..m + n
      PROVE  i \in 1..m \/ \E j \in 1..n : i = m + j
  <2>1. CASE i > m
    <3>1. i - m \in 1..n /\ i = m + (i - m)
      BY <2>1
    <3>. QED BY <3>1
  <2>. QED BY <2>1
<1>5. ASSUME NEW i \in 1..m, NEW j \in 1..n
      PROVE  i \in 1..m + n /\ m + j \in 1..m + n /\ i # m + j
  OBVIOUS
<1>6. ASSUME NEW i \in 1..m PROVE i \in 1..m + n
  OBVIOUS
<1>7. ASSUME NEW i \in 1..n PROVE m + i \in 1..m + n
  OBVIOUS
<1>8. ASSUME NEW i \in 1..n, NEW j \in 1..n, m + i = m + j PROVE i = j
  BY <1>8
<1>9. Elements(q) = Elements(a) \cup Elements(b)
  <2>1. ASSUME NEW i \in 1..m + n PROVE q[i] \in Elements(a) \cup Elements(b)
    <3>1. CASE i \in 1..m
      BY <1>1, <1>3, <3>1 DEF Elements
    <3>2. CASE \E j \in 1..n : i = m + j
      BY <1>1, <1>3, <3>2 DEF Elements
    <3>. QED BY <1>4, <3>1, <3>2
  <2>2. ASSUME NEW i \in 1..m PROVE a[i] \in Elements(q)
    BY <1>3, <1>6 DEF Elements
  <2>3. ASSUME NEW i \in 1..n PROVE b[i] \in Elements(q)
    BY <1>3, <1>7 DEF Elements
  <2>4. \A r \in Elements(a) : r \in Elements(q)
    BY <1>1, <2>2 DEF Elements
  <2>5. \A r \in Elements(b) : r \in Elements(q)
    BY <1>1, <2>3 DEF Elements
  <2>6. \A r \in Elements(q) : r \in Elements(a) \cup Elements(b)
    BY <1>3, <2>1 DEF Elements
  <2>. QED BY <2>4, <2>5, <2>6
<1>10. ASSUME Distinct(a), Distinct(b), Elements(a) \cap Elements(b) = {} PROVE Distinct(q)
  <2>. SUFFICES ASSUME NEW i \in 1..m + n, NEW j \in 1..m + n, q[i] = q[j] PROVE i = j
    BY <1>3 DEF Distinct
  <2>1. CASE i \in 1..m /\ j \in 1..m
    BY <1>1, <1>3, <1>10, <2>1 DEF Distinct
  <2>2. CASE i \in 1..m /\ \E k \in 1..n : j = m + k
    <3>1. PICK k \in 1..n : j = m + k
      BY <2>2
    <3>2. q[i] = a[i] /\ q[j] = b[k]
      BY <1>3, <2>2, <3>1
    <3>3. a[i] \in Elements(a) /\ b[k] \in Elements(b)
      BY <1>1, <2>2 DEF Elements
    <3>. QED BY <1>10, <3>2, <3>3
  <2>3. CASE j \in 1..m /\ \E k \in 1..n : i = m + k
    <3>1. PICK k \in 1..n : i = m + k
      BY <2>3
    <3>2. q[j] = a[j] /\ q[i] = b[k]
      BY <1>3, <2>3, <3>1
    <3>3. a[j] \in Elements(a) /\ b[k] \in Elements(b)
      BY <1>1, <2>3 DEF Elements
    <3>. QED BY <1>10, <3>2, <3>3
  <2>4. CASE (\E k \in 1..n : i = m + k) /\ (\E k \in 1..n : j = m + k)
    <3>1. PICK k \in 1..n, l \in 1..n : i = m + k /\ j = m + l
      BY <2>4
    <3>2. b[k] = b[l]
      BY <1>3, <3>1
    <3>3. k = l
      BY <1>1, <1>10, <3>2 DEF Distinct
    <3>. QED BY <3>1, <3>3
  <2>. QED BY <1>4, <2>1, <2>2, <2>3, <2>4
<1>11. ASSUME Distinct(q) PROVE Distinct(a) /\ Distinct(b) /\ Elements(a) \cap Elements(b) = {}
  <2>1. Distinct(a)
    BY <1>1, <1>3, <1>6, <1>11 DEF Distinct
  <2>2. Distinct(b)
    <3>1. ASSUME NEW i \in 1..n, NEW j \in 1..n, b[i] = b[j] PROVE i = j
      <4>1. q[m + i] = q[m + j] /\ m + i \in DOMAIN q /\ m + j \in DOMAIN q
        BY <1>3, <1>7, <3>1
      <4>2. m + i = m + j
        BY <1>11, <4>1 DEF Distinct
      <4>. QED BY <1>8, <4>2
    <3>. QED BY <1>1, <3>1 DEF Distinct
  <2>3. ASSUME NEW i \in 1..m, NEW j \in 1..n PROVE a[i] # b[j]
    <3>1. q[i] = a[i] /\ q[m + j] = b[j] /\ i \in DOMAIN q /\ m + j \in DOMAIN q /\ i # m + j
      BY <1>3, <1>5
    <3>. QED BY <1>11, <3>1 DEF Distinct
  <2>. QED BY <1>1, <2>1, <2>2, <2>3 DEF Elements
<1>. QED BY <1>2, <1>9, <1>10, <1>11

LEMMA JoinAssoc ==
  ASSUME NEW a \in Seq(Pay), NEW b \in Seq(Pay), NEW c \in Seq(Pay)
  PROVE  (a \o b) \o c = a \o (b \o c)
BY ConcatAssociative

(* A sequence that is cut in two. *)
LEMMA CutInTwo ==
  ASSUME NEW q \in Seq(Pay), NEW k \in 0..Len(q)
  PROVE  /\ SubSeq(q, 1, k) \in Seq(Pay) /\ SubSeq(q, k + 1, Len(q)) \in Seq(Pay)
         /\ q = SubSeq(q, 1, k) \o SubSeq(q, k + 1, Len(q))
<1>1. PICK n \in Nat : n = Len(q) /\ k \in Nat /\ k <= n
  OBVIOUS
<1>2. PICK a : a = SubSeq(q, 1, k)
  OBVIOUS
<1>3. PICK b : b = SubSeq(q, k + 1, n)
  OBVIOUS
<1>4. /\ a \in Seq(Pay) /\ Len(a) = k /\ \A i \in 1..k : a[i] = q[i]
      /\ b \in Seq(Pay) /\ Len(b) = n - k /\ \A i \in 1..n - k : b[i] = q[k + i]
  <2>1. (\A i \in 1..k : q[i] \in Pay) /\ \A i \in k + 1..n : q[i] \in Pay
    BY <1>1
  <2>2. 1 \in Int /\ k \in Int /\ k + 1 \in Int /\ n \in Int
    BY <1>1
  <2>3. a \in Seq(Pay) /\ b \in Seq(Pay)
    BY <1>2, <1>3, <2>1, <2>2, SubSeqProperties
  <2>4. Len(a) = (IF 1 <= k THEN k - 1 + 1 ELSE 0) /\ \A i \in 1..k - 1 + 1 : a[i] = q[1 + i - 1]
    BY <1>2, <2>1, <2>2, SubSeqProperties
  <2>5. /\ Len(b) = (IF k + 1 <= n THEN n - (k + 1) + 1 ELSE 0)
        /\ \A i \in 1..n - (k + 1) + 1 : b[i] = q[(k + 1) + i - 1]
    BY <1>3, <2>1, <2>2, SubSeqProperties
  <2>6. Len(a) = k /\ Len(b) = n - k
    BY <1>1, <2>4, <2>5
  <2>7. ASSUME NEW i \in 1..k PROVE a[i] = q[i]
    <3>1. i \in 1..k - 1 + 1 /\ 1 + i - 1 = i
      BY <1>1
    <3>. QED BY <2>4, <3>1
  <2>8. ASSUME NEW i \in 1..n - k PROVE b[i] = q[k + i]
    <3>1. i \in 1..n - (k + 1) + 1 /\ (k + 1) + i - 1 = k + i
      BY <1>1
    <3>. QED BY <2>5, <3>1
  <2>. QED BY <2>3, <2>6, <2>7, <2>8
<1>41. PICK r : r = a \o b
  OBVIOUS
<1>42. /\ r \in Seq(Pay) /\ Len(r) = k + (n - k)
       /\ (\A i \in 1..k : r[i] = a[i]) /\ (\A i \in 1..n - k : r[k + i] = b[i])
  BY <1>1, <1>4, <1>41
<1>5. ASSUME NEW i \in 1..n PROVE r[i] = q[i]
  <2>1. CASE i > k
    <3>1. PICK j \in 1..n - k : i = k + j
      <4>1. i - k \in 1..n - k /\ i = k + (i - k)
        BY <1>1, <2>1
      <4>. QED BY <4>1
    <3>. QED BY <1>4, <1>42, <3>1
  <2>2. CASE ~(i > k)
    <3>1. i \in 1..k
      BY <1>1, <2>2
    <3>. QED BY <1>4, <1>42, <3>1
  <2>. QED BY <2>1, <2>2
<1>6. Len(r) = n
  BY <1>1, <1>42
<1>7. r = q
  BY <1>1, <1>42, <1>5, <1>6
<1>. QED BY <1>1, <1>2, <1>3, <1>4, <1>41, <1>7

-----------------------------------------------------------------------------
(***************************************************************************)
(* A frame is put on the air.                                              *)
(***************************************************************************)

LEMMA LineGrows ==
  ASSUME NEW s, Good(s), HasLeft(s) => s.unacked = <<>>, NEW p \in PullTx(s),
         NEW line \in Seq(Frames), NEW N, NEW x, NEW g, NEW known,
         Direction(line, s.unacked, N, x, g, known)
  PROVE  Direction(Append(line, p.frame), p.left.unacked, N, x, g, known)
<1>. DEFINE next == Append(line, p.frame)
            u == s.unacked
            t == p.left.unacked
            n == Len(line)
            h == [i \in Nat |-> IF i <= n + 1 THEN i ELSE n + 1]
<1>1. /\ s \in Stream(Pay) /\ u \in Seq(Segment(Pay)) /\ t \in Seq(Segment(Pay))
      /\ p.frame \in Frames
  BY PullTxGood, Fields DEF Good
<1>2. /\ n \in Nat /\ next \in Seq(Frames) /\ Len(next) = n + 1 /\ next[n + 1] = p.frame
      /\ \A i \in 1..n : next[i] = line[i]
      /\ DOMAIN line = 1..n /\ DOMAIN next = 1..n + 1
  BY <1>1
<1>3. /\ DOMAIN t = DOMAIN u
      /\ \A j \in DOMAIN u : t[j].seq = u[j].seq /\ t[j].pay = u[j].pay
  <2>1. CASE p \in PullCtrl(s)
    <3>1. p.left = [s EXCEPT !.ctrlq = Tail(@)]
      BY <2>1 DEF PullCtrl
    <3>. QED BY <1>1, <3>1 DEF Stream
  <2>2. CASE p \in PullAck(s)
    <3>1. p.left = [s EXCEPT !.ack_pending = FALSE]
      <4>1. PICK k \in 0..MAX_SACK_BLOCKS :
           p = [left |-> [s EXCEPT !.ack_pending = FALSE],
                frame |-> BareFrame("ACK", s.rx_seq, SackRuns(s.reorder, k))]
        BY <2>2 DEF PullAck
      <4>. QED BY <4>1
    <3>. QED BY <1>1, <3>1 DEF Stream
  <2>3. CASE p \in PullData(s)
    <3>1. PICK i \in DOMAIN u : p.left = [s EXCEPT !.unacked[i].in_flight = TRUE]
      <4>1. PICK i \in Sendable(s) :
           p = [left |-> [s EXCEPT !.unacked[i].in_flight = TRUE],
                frame |-> DataFrame(s.unacked[i].seq, s.rx_seq, s.unacked[i].pay)]
        BY <2>3 DEF PullData
      <4>2. i \in DOMAIN u /\ p.left = [s EXCEPT !.unacked[i].in_flight = TRUE]
        BY <4>1 DEF Sendable
      <4>. QED BY <4>2
    <3>2. t = [u EXCEPT ![i] = [u[i] EXCEPT !.in_flight = TRUE]]
      BY <1>1, <3>1 DEF Stream
    <3>3. ASSUME NEW j \in DOMAIN u
          PROVE  t[j] = IF j = i THEN [u[i] EXCEPT !.in_flight = TRUE] ELSE u[j]
      BY <3>2
    <3>4. \A j \in DOMAIN u : u[j] \in Segment(Pay)
      BY <1>1
    <3>5. [u[i] EXCEPT !.in_flight = TRUE].seq = u[i].seq
          /\ [u[i] EXCEPT !.in_flight = TRUE].pay = u[i].pay
      BY <3>4 DEF Segment
    <3>6. DOMAIN t = DOMAIN u
      BY <3>2
    <3>. QED BY <3>3, <3>5, <3>6
  <2>. QED BY <2>1, <2>2, <2>3 DEF PullTx
<1>4. p.frame.type = "DATA" =>
        \E i \in DOMAIN u : p.frame.seq = u[i].seq /\ p.frame.pay = u[i].pay
  <2>1. CASE p \in PullCtrl(s)
    <3>1. p.frame.type = Head(s.ctrlq) /\ s.ctrlq # <<>> /\ s.ctrlq \in Seq(CtrlType)
      BY <1>1, <2>1, Fields DEF PullCtrl, BareFrame
    <3>2. Head(s.ctrlq) \in CtrlType
      BY <3>1
    <3>. QED BY <3>1, <3>2 DEF CtrlType
  <2>2. CASE p \in PullAck(s)
    BY <2>2 DEF PullAck, BareFrame
  <2>3. CASE p \in PullData(s)
    BY <2>3 DEF PullData, Sendable, DataFrame
  <2>. QED BY <2>1, <2>2, <2>3 DEF PullTx
<1>5. Leaving(p.frame.type) => t = <<>>
  <2>1. CASE p \in PullCtrl(s)
    <3>0. s.ctrlq # <<>> /\ p = [left |-> [s EXCEPT !.ctrlq = Tail(@)],
                                 frame |-> BareFrame(Head(s.ctrlq), s.rx_seq, {})]
      BY <2>1 DEF PullCtrl
    <3>1. /\ p.frame.type = Head(s.ctrlq) /\ s.ctrlq \in Seq(CtrlType)
          /\ p.left = [s EXCEPT !.ctrlq = Tail(@)] /\ s.ctrlq # <<>>
      BY <1>1, <3>0, Fields DEF BareFrame
    <3>2. Head(s.ctrlq) = s.ctrlq[1] /\ 1 \in DOMAIN s.ctrlq
      BY <3>1
    <3>3. t = u
      BY <1>1, <3>1 DEF Stream
    <3>. QED BY <3>1, <3>2, <3>3 DEF HasLeft
  <2>2. CASE p \in PullAck(s)
    BY <2>2 DEF PullAck, BareFrame, Leaving
  <2>3. CASE p \in PullData(s)
    BY <2>3 DEF PullData, DataFrame, Leaving
  <2>. QED BY <2>1, <2>2, <2>3 DEF PullTx
<1>. HIDE DEF next, t, u
<1>6. Mono(h)
  <2>1. \A i \in Nat : h[i] \in Nat
    BY <1>2
  <2>2. \A i, j \in Nat : i <= j => h[i] <= h[j]
    BY <1>2
  <2>. QED BY <2>1, <2>2 DEF Mono
<1>7. /\ \A i \in 1..n + 1 : h[i] = i
      /\ h[n + 2] = n + 1
  BY <1>2
<1>8. ASSUME NEW k \in 1..n
      PROVE  \A i \in Nat : i > k => h[i] > h[k]
  BY <1>2
<1>. HIDE DEF h
<1>9. From(Way(next, t), Way(line, u), h)
  <2>1. Way(next, t) \subseteq Spot
    BY <1>1, <1>2, WaySpots
  <2>2. ASSUME NEW v \in Way(next, t)
        PROVE  \E w \in Way(line, u) : w.at = h[v.at] /\ w.seq = v.seq /\ w.pay = v.pay
    <3>1. CASE \E i \in DOMAIN next : next[i].type = "DATA"
                 /\ v = [at |-> i, seq |-> next[i].seq, pay |-> next[i].pay]
      <4>1. PICK i \in DOMAIN next : next[i].type = "DATA"
                 /\ v = [at |-> i, seq |-> next[i].seq, pay |-> next[i].pay]
        BY <3>1
      <4>2. CASE i \in 1..n
        <5>1. next[i] = line[i] /\ i \in DOMAIN line /\ h[i] = i
          BY <1>2, <1>7, <4>2
        <5>. QED BY <4>1, <5>1, WayOnAir
      <4>3. CASE i = n + 1
        <5>1. h[i] = n + 1 /\ next[i] = p.frame
          BY <1>2, <1>7, <4>3
        <5>2. PICK j \in DOMAIN u : next[i].seq = u[j].seq /\ next[i].pay = u[j].pay
          BY <1>4, <4>1, <5>1
        <5>. QED BY <4>1, <5>1, <5>2, WayBehind
      <4>. QED BY <1>2, <4>2, <4>3
    <3>2. CASE \E j \in DOMAIN t :
                 v = [at |-> Len(next) + 1, seq |-> t[j].seq, pay |-> t[j].pay]
      <4>1. PICK j \in DOMAIN t :
                 v = [at |-> Len(next) + 1, seq |-> t[j].seq, pay |-> t[j].pay]
        BY <3>2
      <4>2. Len(next) + 1 = n + 2
        BY <1>2
      <4>3. j \in DOMAIN u /\ t[j].seq = u[j].seq /\ t[j].pay = u[j].pay
        BY <1>3
      <4>. QED BY <1>7, <4>1, <4>2, <4>3, WayBehind
    <3>3. \/ \E i \in DOMAIN next : next[i].type = "DATA"
                 /\ v = [at |-> i, seq |-> next[i].seq, pay |-> next[i].pay]
          \/ \E j \in DOMAIN t :
                 v = [at |-> Len(next) + 1, seq |-> t[j].seq, pay |-> t[j].pay]
      BY WayCases
    <3>. QED BY <3>1, <3>2, <3>3
  <2>. QED BY <2>1, <2>2 DEF From
<1>10. ASSUME NEW k \in DOMAIN next, Leaving(next[k].type)
       PROVE  \/ \A v \in Way(next, t) : ~(v.at > k)
              \/ /\ h[k] \in DOMAIN line /\ line[h[k]].type = next[k].type
                 /\ h[k] \in Nat /\ \A i \in Nat : i > k => h[i] > h[k]
  <2>1. CASE k \in 1..n
    <3>1. h[k] = k /\ next[k] = line[k] /\ k \in DOMAIN line /\ k \in Nat
      BY <1>2, <1>7, <2>1
    <3>. QED BY <1>8, <2>1, <3>1
  <2>2. CASE k = n + 1
    <3>1. t = <<>>
      BY <1>2, <1>5, <1>10, <2>2
    <3>2. ASSUME NEW v \in Way(next, t) PROVE v.at \in 1..n + 1
      <4>1. PICK i \in DOMAIN next : v = [at |-> i, seq |-> next[i].seq, pay |-> next[i].pay]
        BY <3>1, WayCases
      <4>. QED BY <1>2, <4>1
    <3>3. \A i \in 1..n + 1 : ~(i > k)
      BY <1>2, <2>2
    <3>. QED BY <3>2, <3>3
  <2>. QED BY <1>2, <2>1, <2>2
<1>11. DOMAIN next \subseteq Nat
  BY <1>2
<1>12. Direction(next, t, N, x, g, known)
  BY <1>6, <1>9, <1>10, <1>11, LineMoves DEF u
<1>. QED BY <1>12 DEF next, t

-----------------------------------------------------------------------------
(***************************************************************************)
(* A segment is heard.                                                     *)
(***************************************************************************)

(* The frame at the front of the line. *)
AtFront(W, q, p) ==
  /\ W \subseteq Spot /\ \A v \in W : v.at >= 1
  /\ [at |-> 1, seq |-> q, pay |-> p] \in W

LEMMA FrontIs ==
  ASSUME NEW W, NEW q, NEW p, AtFront(W, q, p), WayOK(W), NEW v \in W
  PROVE  v.pay = p => v.seq = q /\ \A y \in W : y.at <= v.at => y.seq # Full(q)
<1>1. PICK w \in W : w = [at |-> 1, seq |-> q, pay |-> p]
  BY DEF AtFront
<1>2. w.at = 1 /\ w.seq = q /\ w.pay = p
  BY <1>1
<1>3. \A y \in W : w.at <= y.at
  BY <1>2 DEF AtFront, Spot
<1>. QED BY <1>2, <1>3 DEF WayOK

LEMMA TakesIn ==
  ASSUME NEW W, NEW q, NEW p, AtFront(W, q, p), NEW line \in Seq(Frames), NEW A,
         NEW B, B \subseteq A \cup {p}, NEW N, NEW known,
         CloseOK(line, W, A), UnsentOK(W, N, A, known)
  PROVE  CloseOK(line, W, B) /\ UnsentOK(W, N, B, known)
<1>1. PICK w \in W : w = [at |-> 1, seq |-> q, pay |-> p]
  BY DEF AtFront
<1>2. w.at = 1 /\ w.pay = p
  BY <1>1
<1>3. \A n \in DOMAIN line : ~(w.at > n)
  BY <1>2
<1>4. CloseOK(line, W, B)
  BY <1>2, <1>3 DEF CloseOK
<1>5. UnsentOK(W, N, B, known)
  BY <1>2 DEF UnsentOK
<1>. QED BY <1>4, <1>5

(* Numbers: going on from a place behind. *)
LEMMA GoesOn ==
  ASSUME NEW rx \in SeqNum, NEW q \in SeqNum, SeqDiff(rx, q) \in 1..WINDOW,
         NEW n \in 0..WINDOW - 1, rx # Full(q), \A i \in 1..n : SeqAdd(rx, i) # Full(q)
  PROVE  SeqDiff(SeqAdd(rx, n + 1), q) \in 1..WINDOW
<1>1. PICK d \in 1..WINDOW : d = SeqDiff(rx, q) /\ rx = SeqAdd(q, d)
  BY Behind
<1>2. d \in Int /\ n \in Int /\ q \in Int /\ WINDOW \in Int /\ 1 <= d /\ 0 <= n /\ n < WINDOW
      /\ d <= WINDOW
  BY Halves DEF SeqNum
<1>3. ASSUME NEW i \in Int PROVE SeqAdd(rx, i) = SeqAdd(q, d + i)
  <2>1. d \in Int /\ i \in Int /\ q \in Int
    BY <1>2
  <2>2. SeqAdd(SeqAdd(q, d), i) = SeqAdd(q, d + i)
    BY <2>1, SeqAddTwice
  <2>. QED BY <1>1, <2>2
<1>4. d # WINDOW
  BY <1>1 DEF Full
<1>5. WINDOW - d \notin 1..n
  <2>1. ASSUME WINDOW - d \in 1..n PROVE FALSE
    <3>1. WINDOW - d \in Int /\ d + (WINDOW - d) = WINDOW
      BY <1>2
    <3>2. SeqAdd(rx, WINDOW - d) = Full(q)
      BY <1>3, <3>1 DEF Full
    <3>. QED BY <2>1, <3>2
  <2>. QED BY <2>1
<1>6. d + (n + 1) \in 1..WINDOW
  BY <1>2, <1>4, <1>5
<1>7. d + (n + 1) \in 0..MOD - 1 /\ n + 1 \in Int
  BY <1>2, <1>6, Halves
<1>8. SeqAdd(rx, n + 1) = SeqAdd(q, d + (n + 1))
  BY <1>3, <1>7
<1>9. SeqDiff(SeqAdd(q, d + (n + 1)), q) = d + (n + 1)
  BY <1>7, SeqDiffOf
<1>. QED BY <1>6, <1>8, <1>9

(* Numbers of the window that has been passed. *)
LEMMA JustPassed ==
  ASSUME NEW rx \in SeqNum, NEW n \in 0..WINDOW - 1, NEW i \in 0..n
  PROVE  /\ SeqAdd(rx, i) \in SeqNum
         /\ SeqDiff(SeqAdd(rx, n + 1), SeqAdd(rx, i)) \in 1..WINDOW
         /\ \A j \in 0..WINDOW - 1 : SeqAdd(rx, j) # Full(SeqAdd(rx, i))
<1>1. /\ rx \in Int /\ n \in Int /\ i \in Int /\ WINDOW \in Int
      /\ 0 <= i /\ i <= n /\ n < WINDOW
  BY Halves DEF SeqNum
<1>2. SeqAdd(rx, i) \in SeqNum
  BY <1>1, SeqAddType
<1>3. PICK k \in Int : k = n + 1 - i /\ k \in 1..WINDOW
  <2>1. n + 1 - i \in Int /\ n + 1 - i \in 1..WINDOW
    BY <1>1
  <2>. QED BY <2>1
<1>4. i + k = n + 1 /\ k \in 0..MOD - 1
  BY <1>1, <1>3, Halves
<1>5. SeqAdd(SeqAdd(rx, i), k) = SeqAdd(rx, n + 1)
  BY <1>1, <1>4, SeqAddTwice
<1>6. SeqDiff(SeqAdd(rx, n + 1), SeqAdd(rx, i)) = k
  BY <1>2, <1>4, <1>5, SeqDiffOf
<1>7. ASSUME NEW j \in 0..WINDOW - 1 PROVE SeqAdd(rx, j) # Full(SeqAdd(rx, i))
  <2>1. j \in Int /\ j - i < WINDOW /\ i - j < WINDOW
    BY <1>1
  <2>. QED BY <1>1, <2>1, FullApart
<1>. QED BY <1>2, <1>3, <1>6, <1>7

(* The segment the stream waits for, and what it releases. *)
LEMMA RunReads ==
  ASSUME NEW W, NEW s, Good(s), s.peer_connect, NEW p, AtFront(W, s.rx_seq, p), WayOK(W),
         NEW c, ReadOK(W, s, c),
         NEW n \in 0..WINDOW - 1, \A i \in 1..n : SeqAdd(s.rx_seq, i) \in Keys(s.reorder),
         NEW t, t.rx_seq = SeqAdd(s.rx_seq, n + 1),
         t.reorder = [q \in SeqNum |->
            IF q \in {SeqAdd(s.rx_seq, i) : i \in 1..n} THEN NONE ELSE s.reorder[q]],
         NEW d, d \subseteq c \cup {p} \cup {s.reorder[SeqAdd(s.rx_seq, i)] : i \in 1..n}
  PROVE  ReadOK(W, t, d)
<1>. DEFINE rx == s.rx_seq
            rel == {SeqAdd(rx, i) : i \in 1..n}
<1>1. /\ rx \in SeqNum /\ rx \in Int /\ s.reorder \in [SeqNum -> Pay \cup {NONE}]
      /\ InWindow(s) /\ n \in Nat
  <2>1. s \in Stream(Pay) /\ InWindow(s)
    BY DEF Good
  <2>2. s.rx_seq \in SeqNum /\ s.reorder \in [SeqNum -> Pay \cup {NONE}]
    BY <2>1, Fields
  <2>3. n \in Nat
    BY Sizes
  <2>. QED BY <2>1, <2>2, <2>3, Empty
<1>2. /\ \A v \in W : v.pay \in c =>
           /\ SeqDiff(rx, v.seq) \in 1 .. WINDOW
           /\ s.reorder[Full(v.seq)] = NONE
           /\ \A y \in W : y.at <= v.at => y.seq # Full(v.seq)
      /\ \A m \in Keys(s.reorder) :
           /\ s.reorder[m] \notin c
           /\ \A l \in Keys(s.reorder) : s.reorder[l] = s.reorder[m] => l = m
           /\ \A v \in W : v.pay = s.reorder[m] =>
                v.seq = m /\ \A y \in W : y.at <= v.at => y.seq # Full(m)
  BY DEF ReadOK
<1>3. \A v \in W : v.at \in Nat /\ v.at >= 1 /\ v.seq \in SeqNum
  BY DEF AtFront, Spot
<1>4. PICK w \in W : w.at = 1 /\ w.seq = rx /\ w.pay = p
  BY DEF AtFront
<1>5. \A v \in W : v.pay = p => v.seq = rx /\ \A y \in W : y.at <= v.at => y.seq # Full(rx)
  BY FrontIs
<1>6. ASSUME NEW q \in Keys(s.reorder) PROVE \E j \in 1..WINDOW - 1 : q = SeqAdd(rx, j)
  BY <1>1 DEF InWindow
<1>7. rx \notin Keys(s.reorder)
  <2>1. ASSUME NEW j \in 1..WINDOW - 1, rx = SeqAdd(rx, j) PROVE FALSE
    <3>1. SeqAdd(rx, 0) = SeqAdd(rx, j)
      BY <1>1, <2>1, SeqAddZero
    <3>2. 0 \in 0..WINDOW /\ j \in 0..WINDOW
      BY Sizes
    <3>3. 0 = j
      BY <1>1, <3>1, <3>2, SeqAddApart
    <3>. QED BY <3>3, Sizes
  <2>. QED BY <1>6, <2>1
<1>8. ASSUME NEW q \in SeqNum, s.reorder[q] = NONE PROVE t.reorder[q] = NONE
  BY <1>8
<1>9. ASSUME NEW i \in 0..n, NEW q, q = Full(SeqAdd(rx, i))
      PROVE  q \in SeqNum /\ s.reorder[q] = NONE
  <2>1. SeqAdd(rx, i) \in SeqNum /\ \A j \in 0..WINDOW - 1 : SeqAdd(rx, j) # q
    BY <1>1, <1>9, JustPassed
  <2>2. q \in SeqNum
    BY <1>9, <2>1, FullType
  <2>3. \A j \in 1..WINDOW - 1 : j \in 0..WINDOW - 1
    BY Sizes
  <2>4. q \notin Keys(s.reorder)
    BY <1>6, <2>1, <2>3
  <2>. QED BY <2>2, <2>4 DEF Keys
<1>. HIDE DEF rx
(* Copies of what has been consumed. *)
<1>10. ASSUME NEW v \in W, v.pay \in d
       PROVE  /\ SeqDiff(t.rx_seq, v.seq) \in 1 .. WINDOW
              /\ t.reorder[Full(v.seq)] = NONE
              /\ \A y \in W : y.at <= v.at => y.seq # Full(v.seq)
  <2>1. CASE v.pay \in c
    <3>1. /\ SeqDiff(rx, v.seq) \in 1 .. WINDOW
          /\ s.reorder[Full(v.seq)] = NONE
          /\ \A y \in W : y.at <= v.at => y.seq # Full(v.seq)
      BY <1>2, <2>1
    <3>2. v.seq \in SeqNum /\ Full(v.seq) \in SeqNum
      BY <1>3, FullType
    <3>3. rx # Full(v.seq)
      BY <1>3, <1>4, <3>1
    <3>4. \A i \in 1..n : SeqAdd(rx, i) # Full(v.seq)
      BY <3>1 DEF Keys, rx
    <3>5. SeqDiff(SeqAdd(rx, n + 1), v.seq) \in 1..WINDOW
      BY <1>1, <3>1, <3>2, <3>3, <3>4, GoesOn
    <3>. QED BY <1>8, <3>1, <3>2, <3>5 DEF rx
  <2>2. CASE \E i \in 0..n : v.seq = SeqAdd(rx, i)
                /\ \A y \in W : y.at <= v.at => y.seq # Full(v.seq)
    <3>1. PICK i \in 0..n : v.seq = SeqAdd(rx, i)
                /\ \A y \in W : y.at <= v.at => y.seq # Full(v.seq)
      BY <2>2
    <3>2. SeqDiff(SeqAdd(rx, n + 1), v.seq) \in 1..WINDOW
      BY <1>1, <3>1, JustPassed
    <3>3. t.reorder[Full(v.seq)] = NONE
      BY <1>8, <1>9, <3>1
    <3>. QED BY <3>1, <3>2, <3>3 DEF rx
  <2>3. CASE v.pay = p
    <3>1. v.seq = rx /\ \A y \in W : y.at <= v.at => y.seq # Full(v.seq)
      BY <1>5, <2>3
    <3>2. v.seq = SeqAdd(rx, 0) /\ 0 \in 0..n
      BY <1>1, <3>1, SeqAddZero
    <3>. QED BY <2>2, <3>1, <3>2
  <2>4. CASE \E i \in 1..n : v.pay = s.reorder[SeqAdd(rx, i)]
    <3>1. PICK i \in 1..n : v.pay = s.reorder[SeqAdd(rx, i)]
      BY <2>4
    <3>2. SeqAdd(rx, i) \in Keys(s.reorder) /\ i \in 0..n
      BY <1>1 DEF rx
    <3>3. v.seq = SeqAdd(rx, i) /\ \A y \in W : y.at <= v.at => y.seq # Full(v.seq)
      BY <1>2, <3>1, <3>2
    <3>. QED BY <2>2, <3>2, <3>3
  <2>. QED BY <1>10, <2>1, <2>3, <2>4 DEF rx
(* What stays buffered. *)
<1>11. ASSUME NEW m \in Keys(t.reorder)
       PROVE  /\ t.reorder[m] \notin d
              /\ \A l \in Keys(t.reorder) : t.reorder[l] = t.reorder[m] => l = m
              /\ \A v \in W : v.pay = t.reorder[m] =>
                   v.seq = m /\ \A y \in W : y.at <= v.at => y.seq # Full(m)
  <2>1. ASSUME NEW l \in Keys(t.reorder)
        PROVE  l \in Keys(s.reorder) /\ l \notin rel /\ t.reorder[l] = s.reorder[l]
    BY DEF Keys, rx
  <2>2. m \in Keys(s.reorder) /\ m \notin rel /\ t.reorder[m] = s.reorder[m]
    BY <2>1
  <2>3. s.reorder[m] \notin c
    BY <1>2, <2>2
  <2>4. s.reorder[m] # p
    BY <1>2, <1>4, <1>7, <2>2
  <2>5. ASSUME NEW i \in 1..n PROVE s.reorder[m] # s.reorder[SeqAdd(rx, i)]
    <3>1. SeqAdd(rx, i) \in Keys(s.reorder) /\ SeqAdd(rx, i) \in rel
      BY DEF rx
    <3>. QED BY <1>2, <2>2, <3>1
  <2>6. t.reorder[m] \notin d
    BY <2>2, <2>3, <2>4, <2>5 DEF rx
  <2>. QED BY <1>2, <2>1, <2>2, <2>6
<1>. QED BY <1>10, <1>11 DEF ReadOK

(* A later segment is buffered. *)
LEMMA BufferReads ==
  ASSUME NEW W, NEW s, Good(s), s.peer_connect, NEW q \in SeqNum, NEW p, AtFront(W, q, p), WayOK(W),
         NEW c, ReadOK(W, s, c), SeqDiff(q, s.rx_seq) < WINDOW, s.reorder[q] = NONE,
         NEW t, t.rx_seq = s.rx_seq, t.reorder = [s.reorder EXCEPT ![q] = p]
  PROVE  ReadOK(W, t, c)
<1>1. /\ s.rx_seq \in SeqNum /\ s.reorder \in [SeqNum -> Pay \cup {NONE}]
  BY Fields DEF Good
<1>2. /\ \A v \in W : v.pay \in c =>
           /\ SeqDiff(s.rx_seq, v.seq) \in 1 .. WINDOW
           /\ s.reorder[Full(v.seq)] = NONE
           /\ \A y \in W : y.at <= v.at => y.seq # Full(v.seq)
      /\ \A m \in Keys(s.reorder) :
           /\ s.reorder[m] \notin c
           /\ \A l \in Keys(s.reorder) : s.reorder[l] = s.reorder[m] => l = m
           /\ \A v \in W : v.pay = s.reorder[m] =>
                v.seq = m /\ \A y \in W : y.at <= v.at => y.seq # Full(m)
  BY DEF ReadOK
<1>3. \A v \in W : v.at \in Nat /\ v.at >= 1 /\ v.seq \in SeqNum
  BY DEF AtFront, Spot
<1>4. PICK w \in W : w.at = 1 /\ w.seq = q /\ w.pay = p
  BY DEF AtFront
<1>5. \A v \in W : v.pay = p => v.seq = q /\ \A y \in W : y.at <= v.at => y.seq # Full(q)
  BY FrontIs
<1>6. \A m \in SeqNum : t.reorder[m] = IF m = q THEN p ELSE s.reorder[m]
  BY <1>1
<1>7. p \notin c
  <2>1. ASSUME p \in c PROVE FALSE
    <3>1. SeqDiff(s.rx_seq, q) \in 1..WINDOW
      BY <1>2, <1>4, <2>1
    <3>2. SeqDiff(q, s.rx_seq) >= WINDOW
      BY <1>1, <3>1, Behind
    <3>3. SeqDiff(q, s.rx_seq) \in 0..MOD - 1
      BY <1>1, SeqDiffAdd
    <3>. QED BY <3>2, <3>3, Halves
  <2>. QED BY <2>1
<1>8. ASSUME NEW m \in Keys(s.reorder) PROVE s.reorder[m] # p
  BY <1>2, <1>4 DEF Keys
<1>9. ASSUME NEW v \in W, v.pay \in c
      PROVE  /\ SeqDiff(t.rx_seq, v.seq) \in 1 .. WINDOW
             /\ t.reorder[Full(v.seq)] = NONE
             /\ \A y \in W : y.at <= v.at => y.seq # Full(v.seq)
  <2>1. /\ SeqDiff(s.rx_seq, v.seq) \in 1 .. WINDOW
        /\ s.reorder[Full(v.seq)] = NONE
        /\ \A y \in W : y.at <= v.at => y.seq # Full(v.seq)
    BY <1>2, <1>9
  <2>2. q # Full(v.seq)
    BY <1>3, <1>4, <2>1
  <2>3. Full(v.seq) \in SeqNum
    BY <1>3, FullType
  <2>. QED BY <1>6, <2>1, <2>2, <2>3
<1>10. ASSUME NEW m \in Keys(t.reorder)
       PROVE  m \in SeqNum /\ \/ m = q /\ t.reorder[m] = p
                              \/ m \in Keys(s.reorder) /\ m # q /\ t.reorder[m] = s.reorder[m]
  BY <1>6 DEF Keys
<1>11. ASSUME NEW m \in Keys(t.reorder)
       PROVE  /\ t.reorder[m] \notin c
              /\ \A l \in Keys(t.reorder) : t.reorder[l] = t.reorder[m] => l = m
              /\ \A v \in W : v.pay = t.reorder[m] =>
                   v.seq = m /\ \A y \in W : y.at <= v.at => y.seq # Full(m)
  <2>1. CASE m = q /\ t.reorder[m] = p
    BY <1>5, <1>7, <1>8, <1>10, <2>1
  <2>2. CASE m \in Keys(s.reorder) /\ m # q /\ t.reorder[m] = s.reorder[m]
    BY <1>2, <1>8, <1>10, <2>2
  <2>. QED BY <1>10, <2>1, <2>2
<1>. QED BY <1>9, <1>11 DEF ReadOK

-----------------------------------------------------------------------------
(***************************************************************************)
(* An endpoint hears a frame.                                              *)
(***************************************************************************)

(* What the reader side of a stream consists of. *)
SameReader(s, t) ==
  /\ t.tcp_out = s.tcp_out /\ t.rx_seq = s.rx_seq /\ t.reorder = s.reorder
  /\ t.peer_connect = s.peer_connect

LEMMA SameReads ==
  ASSUME NEW x, NEW y, SameReader(x.stream, y.stream), Open(y) <=> Open(x), y.buf = x.buf, NEW g
  PROVE  /\ Consumed(y, g) = Consumed(x, g) /\ Reads(x, g, y, g)
         /\ ReaderOK(x, g) => ReaderOK(y, g)
<1>1. Consumed(y, g) = Consumed(x, g)
  BY DEF Consumed, SameReader
<1>2. Accepted(y, g) = Accepted(x, g)
  BY <1>1 DEF Accepted, Held, SameReader
<1>. QED BY <1>1, <1>2 DEF Reads, SameReader, ReaderOK

LEMMA FrontOf ==
  ASSUME NEW line \in Seq(Frames), line # <<>>, NEW u \in Seq(Segment(Pay)),
         Head(line).type = "DATA"
  PROVE  AtFront(Way(line, u), Head(line).seq, Head(line).pay)
<1>1. Head(line) = line[1] /\ 1 \in DOMAIN line
  OBVIOUS
<1>2. [at |-> 1, seq |-> line[1].seq, pay |-> line[1].pay] \in Way(line, u)
  BY <1>1, WayOnAir
<1>3. Len(line) + 1 \in Nat
  OBVIOUS
<1>. QED BY <1>1, <1>2, <1>3, WaySpots DEF AtFront

LEMMA JoinOne ==
  ASSUME NEW p \in Pay, NEW run \in Seq(Pay), Distinct(run), p \notin Elements(run)
  PROVE  /\ (<<p>> \o run) \in Seq(Pay) /\ Distinct(<<p>> \o run)
         /\ Elements(<<p>> \o run) = {p} \cup Elements(run)
<1>1. <<p>> \in Seq(Pay) /\ DOMAIN <<p>> = {1} /\ <<p>>[1] = p
  OBVIOUS
<1>2. PICK o \in Seq(Pay) : o = <<p>>
  BY <1>1
<1>3. Elements(o) = {p} /\ Distinct(o)
  BY <1>1, <1>2 DEF Elements, Distinct
<1>4. Elements(o) \cap Elements(run) = {}
  BY <1>3
<1>5. (o \o run) \in Seq(Pay) /\ Elements(o \o run) = Elements(o) \cup Elements(run)
      /\ Distinct(o \o run)
  BY <1>3, <1>4, Join
<1>. QED BY <1>2, <1>3, <1>5

(* The operator, for facts that are to be cited as they stand. *)
Cat(a, b) == a \o b

LEMMA CatType == ASSUME NEW a \in Seq(Pay), NEW b \in Seq(Pay) PROVE Cat(a, b) \in Seq(Pay)
BY Join DEF Cat

LEMMA CatAssoc ==
  ASSUME NEW a \in Seq(Pay), NEW b \in Seq(Pay), NEW c \in Seq(Pay)
  PROVE  Cat(Cat(a, b), c) = Cat(a, Cat(b, c))
BY JoinAssoc DEF Cat

One(p) == <<p>>

LEMMA CatOne ==
  ASSUME NEW p \in Pay
  PROVE  One(p) \in Seq(Pay) /\ \A o \in Seq(Pay) : Append(o, p) = Cat(o, One(p))
<1>1. <<p>> \in Seq(Pay)
  OBVIOUS
<1>2. ASSUME NEW o \in Seq(Pay) PROVE Append(o, p) = o \o <<p>>
  BY AppendIsConcat
<1>. QED BY <1>1, <1>2 DEF Cat, One

(* What follows the last of three parts follows the three. *)
LEMMA CatBehind ==
  ASSUME NEW a \in Seq(Pay), NEW b \in Seq(Pay), NEW o \in Seq(Pay), NEW z \in Seq(Pay)
  PROVE  Cat(a, Cat(b, Cat(o, z))) = Cat(Cat(a, Cat(b, o)), z)
BY CatType, CatAssoc

LEMMA CatRun ==
  ASSUME NEW a \in Seq(Pay), NEW b \in Seq(Pay), NEW o \in Seq(Pay), NEW p \in Pay,
         NEW run \in Seq(Pay)
  PROVE  Cat(a, Cat(b, Cat(Cat(o, One(p)), run))) = Cat(Cat(a, Cat(b, o)), Cat(One(p), run))
<1>1. PICK k \in Seq(Pay) : k = One(p)
  BY CatOne
<1>2. Cat(k, run) \in Seq(Pay) /\ Cat(Cat(o, k), run) = Cat(o, Cat(k, run))
  BY <1>1, CatType, CatAssoc
<1>. QED BY <1>1, <1>2, CatBehind

(* The n buffered segments that follow the one the stream waits for. *)
RunOf(s, n) == [i \in 1..n |-> s.reorder[SeqAdd(s.rx_seq, i)]]

RunSet(s, n) == {s.reorder[SeqAdd(s.rx_seq, i)] : i \in 1..n}

(* What the stream waits for is not consumed, nor buffered; what is buffered *)
(* is not consumed, and once.                                                *)
LEMMA RunDistinct ==
  ASSUME NEW W, NEW s, Good(s), s.peer_connect, NEW p \in Pay, AtFront(W, s.rx_seq, p),
         NEW q \in Seq(Pay), Distinct(q), ReadOK(W, s, Elements(q)),
         NEW n \in 0..WINDOW - 1, \A i \in 1..n : SeqAdd(s.rx_seq, i) \in Keys(s.reorder),
         NEW run, run = RunOf(s, n),
         NEW z, z = Cat(One(p), run), NEW r, r = Cat(q, z)
  PROVE  /\ run \in Seq(Pay) /\ z \in Seq(Pay) /\ r \in Seq(Pay) /\ Distinct(r)
         /\ Elements(r) = Elements(q) \cup {p} \cup RunSet(s, n)
<1>1. /\ s.rx_seq \in SeqNum /\ s.rx_seq \in Int /\ s.reorder \in [SeqNum -> Pay \cup {NONE}]
      /\ InWindow(s) /\ n \in Nat
  <2>1. s \in Stream(Pay) /\ InWindow(s)
    BY DEF Good
  <2>2. s.rx_seq \in SeqNum /\ s.reorder \in [SeqNum -> Pay \cup {NONE}]
    BY <2>1, Fields
  <2>3. n \in Nat
    BY Sizes
  <2>. QED BY <2>1, <2>2, <2>3, Empty
<1>2. /\ \A v \in W : v.pay \in Elements(q) => SeqDiff(s.rx_seq, v.seq) \in 1 .. WINDOW
      /\ \A m \in Keys(s.reorder) :
           /\ s.reorder[m] \notin Elements(q)
           /\ \A l \in Keys(s.reorder) : s.reorder[l] = s.reorder[m] => l = m
           /\ \A v \in W : v.pay = s.reorder[m] => v.seq = m
  BY DEF ReadOK
<1>3. PICK w \in W : w.seq = s.rx_seq /\ w.pay = p
  BY DEF AtFront
<1>4. p \notin Elements(q)
  <2>1. ASSUME p \in Elements(q) PROVE FALSE
    <3>1. SeqDiff(s.rx_seq, s.rx_seq) \in 1..WINDOW
      BY <1>2, <1>3, <2>1
    <3>. QED BY <1>1, <3>1, Behind
  <2>. QED BY <2>1
<1>5. ASSUME NEW i \in 1..n, NEW j \in 0..n, SeqAdd(s.rx_seq, i) = SeqAdd(s.rx_seq, j)
      PROVE  i = j
  <2>1. i \in 0..WINDOW /\ j \in 0..WINDOW
    BY <1>1, Sizes
  <2>. QED BY <1>1, <1>5, <2>1, SeqAddApart
<1>6. ASSUME NEW i \in 1..n
      PROVE  run[i] \in Pay /\ run[i] \notin Elements(q) /\ run[i] # p
  <2>1. SeqAdd(s.rx_seq, i) \in Keys(s.reorder) /\ run[i] = s.reorder[SeqAdd(s.rx_seq, i)]
    BY DEF RunOf
  <2>2. run[i] \in Pay
    BY <1>1, <2>1 DEF Keys
  <2>3. run[i] # p
    <3>1. ASSUME run[i] = p PROVE FALSE
      <4>1. PICK m \in Keys(s.reorder) : m = SeqAdd(s.rx_seq, i) /\ s.reorder[m] = w.pay
        BY <1>3, <2>1, <3>1
      <4>5. w.seq = m
        BY <1>2, <1>3, <4>1
      <4>6. s.rx_seq = SeqAdd(s.rx_seq, i)
        BY <1>3, <4>1, <4>5
      <4>2. SeqAdd(s.rx_seq, i) = SeqAdd(s.rx_seq, 0) /\ 0 \in 0..n
        BY <1>1, <4>6, SeqAddZero
      <4>3. i = 0
        BY <1>5, <4>2
      <4>. QED BY <4>3
    <3>. QED BY <3>1
  <2>. QED BY <1>2, <2>1, <2>2, <2>3
<1>7. run \in Seq(Pay) /\ DOMAIN run = 1..n
  BY <1>1, <1>6 DEF RunOf
<1>8. Elements(run) = RunSet(s, n)
  BY <1>7 DEF Elements, RunSet, RunOf
<1>9. Distinct(run)
  <2>1. ASSUME NEW i \in 1..n, NEW j \in 1..n, run[i] = run[j] PROVE i = j
    <3>1. SeqAdd(s.rx_seq, i) = SeqAdd(s.rx_seq, j) /\ j \in 0..n
      BY <1>2, <2>1 DEF RunOf
    <3>. QED BY <1>5, <3>1
  <2>. QED BY <1>7, <2>1 DEF Distinct
<1>11. \A y \in Elements(run) : y # p /\ y \notin Elements(q)
  BY <1>6, <1>7 DEF Elements
<1>12. z \in Seq(Pay) /\ Elements(z) = {p} \cup Elements(run) /\ Distinct(z)
  <2>1. p \notin Elements(run) /\ run \in Seq(Pay)
    BY <1>7, <1>11
  <2>. QED BY <1>9, <2>1, JoinOne DEF Cat, One
<1>13. Elements(q) \cap Elements(z) = {}
  BY <1>4, <1>11, <1>12
<1>14. /\ (q \o z) \in Seq(Pay) /\ Distinct(q \o z)
       /\ Elements(q \o z) = Elements(q) \cup Elements(z)
  BY <1>12, <1>13, Join
<1>. QED BY <1>7, <1>8, <1>12, <1>14 DEF Cat

LEMMA ConsumedType ==
  ASSUME NEW x \in Endpoints, NEW g \in Seq(Pay) PROVE Consumed(x, g) \in Seq(Pay)
<1>1. x.buf \in Seq(Pay) /\ x.stream.tcp_out \in Seq(Pay) /\ <<>> \in Seq(Pay)
  BY EndFields, Fields
<1>2. (x.buf \o x.stream.tcp_out) \in Seq(Pay)
  BY <1>1, Join
<1>. QED BY <1>1, <1>2, Join DEF Consumed

LEMMA HearRun ==
  ASSUME NEW e \in End, NEW x, SoundEnd(e, x), NEW g \in Seq(Pay),
         NEW line \in Seq(Frames), line # <<>>, NEW u \in Seq(Segment(Pay)), NEW N, NEW known,
         Direction(line, u, N, x, g, known),
         Head(line).type = "DATA", Head(line).seq = x.stream.rx_seq,
         PeerConnected(x.stream), Head(line).pay \in Pay,
         NEW y, y = [x EXCEPT !.stream = DeliverRun(x.stream, Head(line).pay)]
  PROVE  Direction(line, u, N, y, g, known)
<1>. DEFINE s == x.stream
            p == Head(line).pay
            W == Way(line, u)
            q == Consumed(x, g)
            A == Accepted(x, g)
<1>1. x \in Endpoints /\ Good(s) /\ s \in Stream(Pay) /\ s.peer_connect
  BY DEF SoundEnd, Good, PeerConnected
<1>2. /\ WayOK(W) /\ Distinct(g) /\ Distinct(q) /\ ReadOK(W, s, Elements(q))
      /\ CloseOK(line, W, A) /\ UnsentOK(W, N, A, known)
  BY DEF Direction
<1>3. AtFront(W, s.rx_seq, p)
  BY FrontOf
<1>4. PICK n \in 0..WINDOW - 1 :
         /\ n = RunLength(s.reorder, SeqAdd(s.rx_seq, 1))
         /\ \A i \in 1..n : SeqAdd(s.rx_seq, i) \in Keys(s.reorder)
  BY <1>1, RunEnds
<1>5. PICK run : run = RunOf(s, n)
  OBVIOUS
<1>6. PICK z, r : z = Cat(One(p), run) /\ r = Cat(q, z)
  OBVIOUS
<1>. DEFINE t == DeliverRun(s, p)
            map == [k \in SeqNum |->
                      IF k \in {SeqAdd(s.rx_seq, i) : i \in 1..n} THEN NONE ELSE s.reorder[k]]
<1>7. /\ t.tcp_out = Append(s.tcp_out, p) \o run /\ t.rx_seq = SeqAdd(s.rx_seq, n + 1)
      /\ t.reorder = map /\ t.peer_connect
  <2>1. t = [s EXCEPT !.tcp_out = Append(@, p) \o run, !.rx_seq = SeqAdd(@, n + 1),
                      !.reorder = [k \in SeqNum |->
                          IF k \in {SeqAdd(s.rx_seq, i) : i \in 1..n} THEN NONE ELSE @[k]],
                      !.ack_pending = TRUE]
    BY <1>4, <1>5 DEF DeliverRun, RunOf
  <2> HIDE DEF t
  <2>. QED BY <1>1, <2>1 DEF Stream
<1>8. y.stream = t /\ y.buf = x.buf /\ (Open(y) <=> Open(x))
  <2>1. y = [x EXCEPT !.stream = t]
    OBVIOUS
  <2> HIDE DEF t, s
  <2>. QED BY <1>1, <2>1 DEF Endpoints, Open
<1>9. q \in Seq(Pay)
  BY <1>1, ConsumedType
<1>. HIDE DEF W, A, t
<1>10. /\ run \in Seq(Pay) /\ z \in Seq(Pay) /\ r \in Seq(Pay) /\ Distinct(r)
       /\ Elements(r) = Elements(q) \cup {p} \cup RunSet(s, n)
  <2>1. /\ Good(s) /\ s.peer_connect /\ AtFront(W, s.rx_seq, p) /\ p \in Pay
        /\ Distinct(q) /\ ReadOK(W, s, Elements(q)) /\ q \in Seq(Pay)
        /\ \A i \in 1..n : SeqAdd(s.rx_seq, i) \in Keys(s.reorder)
    BY <1>1, <1>2, <1>3, <1>4, <1>9
  <2>2. n \in 0..WINDOW - 1
    BY <1>4
  <2> HIDE DEF q, s, p
  <2>. QED BY ONLY <1>5, <1>6, <2>1, <2>2, RunDistinct
<1>11. Consumed(y, g) = r
  <2>1. PICK a \in Seq(Pay) : a = IF Open(x) THEN g ELSE <<>>
    <3>1. <<>> \in Seq(Pay)
      OBVIOUS
    <3>. QED BY <3>1
  <2>2. PICK b \in Seq(Pay), o \in Seq(Pay) : b = x.buf /\ o = s.tcp_out
    BY <1>1, EndFields, Fields
  <2>3. t.tcp_out = Cat(Cat(o, One(p)), run)
    BY <1>7, <2>2, CatOne DEF Cat
  <2>4. Consumed(y, g) = Cat(a, Cat(b, Cat(Cat(o, One(p)), run)))
    BY <1>8, <2>1, <2>2, <2>3 DEF Consumed, Cat
  <2>5. q = Cat(a, Cat(b, o))
    BY <2>1, <2>2 DEF Consumed, Cat
  <2>6. PICK d \in Pay : d = p
    OBVIOUS
  <2>7. r = Cat(q, Cat(One(d), run)) /\ run \in Seq(Pay)
    BY <1>6, <1>10, <2>6
  <2> HIDE DEF q, p
  <2>8. run \in Seq(Pay) /\ a \in Seq(Pay) /\ b \in Seq(Pay) /\ o \in Seq(Pay) /\ d \in Pay
    BY <2>1, <2>2, <2>6, <2>7
  <2>9. Cat(a, Cat(b, Cat(Cat(o, One(d)), run))) = Cat(Cat(a, Cat(b, o)), Cat(One(d), run))
    BY ONLY <2>8, CatRun
  <2>. QED BY <2>4, <2>5, <2>6, <2>7, <2>9
<1>. HIDE DEF q
<1>12. ReadOK(W, t, Elements(r))
  <2>1. /\ Good(s) /\ s.peer_connect /\ AtFront(W, s.rx_seq, p) /\ WayOK(W)
        /\ ReadOK(W, s, Elements(q)) /\ \A i \in 1..n : SeqAdd(s.rx_seq, i) \in Keys(s.reorder)
    BY <1>1, <1>2, <1>3, <1>4
  <2>2. PICK d : d = Elements(r)
    OBVIOUS
  <2>3. d \subseteq Elements(q) \cup {p} \cup {s.reorder[SeqAdd(s.rx_seq, i)] : i \in 1..n}
    BY <1>10, <2>2 DEF RunSet
  <2>4. t.rx_seq = SeqAdd(s.rx_seq, n + 1) /\ t.reorder = map
    BY <1>7
  <2> HIDE DEF s, p
  <2>5. ReadOK(W, t, d)
    BY <2>1, <2>3, <2>4, RunReads
  <2>. QED BY <2>2, <2>5
<1>13. Accepted(y, g) \subseteq A \cup {p}
  <2>1. ASSUME NEW i \in 1..n PROVE s.reorder[SeqAdd(s.rx_seq, i)] \in Held(s)
    BY <1>4 DEF Held
  <2>2. Held(t) \subseteq Held(s)
    <3>1. ASSUME NEW m \in Keys(t.reorder) PROVE m \in Keys(s.reorder) /\ t.reorder[m] = s.reorder[m]
      BY <1>7 DEF Keys
    <3>. QED BY <3>1 DEF Held
  <2>3. Elements(q) \subseteq A /\ Held(s) \subseteq A
    BY DEF A, Accepted, q
  <2>4. Elements(r) \subseteq A \cup {p}
    BY <1>10, <2>1, <2>3 DEF RunSet
  <2>5. Accepted(y, g) = Elements(r) \cup Held(t)
    BY <1>8, <1>11 DEF Accepted
  <2>. QED BY <2>2, <2>3, <2>4, <2>5
<1>14. CloseOK(line, W, Accepted(y, g)) /\ UnsentOK(W, N, Accepted(y, g), known)
  BY <1>2, <1>3, <1>13, TakesIn
<1>. QED BY <1>2, <1>7, <1>8, <1>10, <1>11, <1>12, <1>14 DEF Direction, W

LEMMA HearLater ==
  ASSUME NEW e \in End, NEW x, SoundEnd(e, x), NEW g \in Seq(Pay),
         NEW line \in Seq(Frames), line # <<>>, NEW u \in Seq(Segment(Pay)), NEW N, NEW known,
         Direction(line, u, N, x, g, known), Head(line).type = "DATA",
         PeerConnected(x.stream), SeqDiff(Head(line).seq, x.stream.rx_seq) < WINDOW,
         Head(line).pay \in Pay, Head(line).seq \in SeqNum,
         NEW y, y = [x EXCEPT !.stream = Buffer(x.stream, Head(line).seq, Head(line).pay)]
  PROVE  Direction(line, u, N, y, g, known)
<1>. DEFINE s == x.stream
            p == Head(line).pay
            k == Head(line).seq
            W == Way(line, u)
            c == Elements(Consumed(x, g))
            A == Accepted(x, g)
            t == Buffer(s, k, p)
<1>1. /\ x \in Endpoints /\ Good(s) /\ s \in Stream(Pay) /\ s.peer_connect
      /\ s.reorder \in [SeqNum -> Pay \cup {NONE}]
  BY Fields DEF SoundEnd, Good, PeerConnected
<1>2. /\ WayOK(W) /\ ReaderOK(x, g) /\ ReadOK(W, s, c)
      /\ CloseOK(line, W, A) /\ UnsentOK(W, N, A, known)
  BY DEF Direction, ReaderOK
<1>3. y.stream = t /\ y.buf = x.buf /\ (Open(y) <=> Open(x))
  <2>1. y = [x EXCEPT !.stream = t]
    OBVIOUS
  <2> HIDE DEF t, s
  <2>. QED BY <1>1, <2>1 DEF Endpoints, Open
<1>4. /\ t.tcp_out = s.tcp_out /\ t.rx_seq = s.rx_seq /\ t.peer_connect
      /\ t.reorder = IF s.reorder[k] = NONE THEN [s.reorder EXCEPT ![k] = p] ELSE s.reorder
  BY <1>1 DEF Buffer, Stream
<1>. HIDE DEF t
<1>5. CASE s.reorder[k] # NONE
  <2>1. SameReader(x.stream, y.stream)
    <3>1. /\ t.tcp_out = s.tcp_out /\ t.rx_seq = s.rx_seq /\ t.peer_connect = s.peer_connect
          /\ t.reorder = s.reorder
      <4>1. s.peer_connect = TRUE /\ t.peer_connect = TRUE
        BY <1>1, <1>4
      <4>. QED BY <1>4, <1>5, <4>1
    <3>. QED BY <1>3, <3>1 DEF SameReader
  <2>. QED BY <1>2, <1>3, <2>1, SameReads, ReaderTurns
<1>6. CASE s.reorder[k] = NONE
  <2>1. Consumed(y, g) = Consumed(x, g)
    BY <1>3, <1>4 DEF Consumed
  <2>2. AtFront(W, k, p)
    BY FrontOf
  <2>3. ReadOK(W, t, c)
    <3> HIDE DEF W, c
    <3>. QED BY <1>1, <1>2, <1>4, <1>6, <2>2, BufferReads
  <2>4. Accepted(y, g) \subseteq A \cup {p}
    <3>1. ASSUME NEW m \in Keys(t.reorder)
          PROVE  t.reorder[m] = p \/ (m \in Keys(s.reorder) /\ t.reorder[m] = s.reorder[m])
      BY <1>1, <1>4, <1>6 DEF Keys
    <3>2. Held(t) \subseteq Held(s) \cup {p}
      BY <3>1 DEF Held
    <3>. QED BY <1>3, <2>1, <3>2 DEF Accepted
  <2>5. CloseOK(line, W, Accepted(y, g)) /\ UnsentOK(W, N, Accepted(y, g), known)
    <3> HIDE DEF W, A
    <3>. QED BY <1>2, <2>2, <2>4, TakesIn
  <2>. QED BY <1>2, <1>3, <1>4, <2>1, <2>3, <2>5 DEF Direction, ReaderOK
<1>. QED BY <1>5, <1>6

(* parse_radio() after apply_ack. *)
Heard(t, f) ==
  CASE f.type = "ACK" -> ApplySack(t, f.sack)
    [] f.type = "DATA" -> DeliverData(t, f.seq, f.pay)
    [] f.type = "CONNECT" -> OnConnect(t)
    [] f.type \in {"CLOSE", "ABORT"} -> OnClose(t)

LEMMA HearData ==
  ASSUME NEW e \in End, NEW x, SoundEnd(e, x), NEW g \in Seq(Pay),
         NEW line \in Seq(Frames), line # <<>>, NEW u \in Seq(Segment(Pay)), NEW N, NEW known,
         Direction(line, u, N, x, g, known), Head(line).type = "DATA",
         Head(line).pay \in Pay, Head(line).seq \in SeqNum,
         NEW y, y = [x EXCEPT !.stream = DeliverData(x.stream, Head(line).seq, Head(line).pay)]
  PROVE  Direction(line, u, N, y, g, known)
<1>. DEFINE s == x.stream
            k == Head(line).seq
            t == DeliverData(s, k, Head(line).pay)
<1>1. x \in Endpoints /\ s \in Stream(Pay)
  BY DEF SoundEnd, Good
<1>2. /\ ReaderOK(x, g)
      /\ y.stream = t /\ y.buf = x.buf /\ (Open(y) <=> Open(x))
  <2>1. y = [x EXCEPT !.stream = t]
    OBVIOUS
  <2>2. ReaderOK(x, g)
    BY WriterIs
  <2> HIDE DEF t, s
  <2>. QED BY <1>1, <2>1, <2>2 DEF Endpoints, Open
<1>3. CASE SameReader(s, t)
  <2>1. SameReader(x.stream, y.stream)
    BY <1>2, <1>3
  <2>. QED BY <1>2, <2>1, SameReads, ReaderTurns
<1>4. CASE ~PeerConnected(s)
  <2>1. t = s
    BY <1>4 DEF DeliverData
  <2>2. SameReader(s, t)
    BY <2>1 DEF SameReader
  <2>. QED BY <1>3, <2>2
<1>6. SeqDiff(k, s.rx_seq) \in Int /\ WINDOW \in Int
  BY <1>1, Fields, SeqDiffAdd, Sizes
<1>5. CASE PeerConnected(s) /\ SeqDiff(k, s.rx_seq) >= WINDOW
  <2>1. t = [s EXCEPT !.ack_pending = TRUE]
    BY <1>5, <1>6 DEF DeliverData
  <2>2. SameReader(s, t)
    BY <1>1, <2>1 DEF SameReader, Stream
  <2>. QED BY <1>3, <2>2
<1>7. CASE PeerConnected(s) /\ SeqDiff(k, s.rx_seq) < WINDOW /\ k = s.rx_seq
  <2>1. t = DeliverRun(s, Head(line).pay)
    BY <1>6, <1>7 DEF DeliverData
  <2>2. y = [x EXCEPT !.stream = DeliverRun(x.stream, Head(line).pay)]
    BY <2>1
  <2>3. PeerConnected(x.stream) /\ Head(line).seq = x.stream.rx_seq
    BY <1>7
  <2> HIDE DEF s, k, t
  <2>. QED BY <2>2, <2>3, HearRun
<1>8. CASE PeerConnected(s) /\ SeqDiff(k, s.rx_seq) < WINDOW /\ k # s.rx_seq
  <2>1. t = Buffer(s, k, Head(line).pay)
    BY <1>6, <1>8 DEF DeliverData
  <2>2. y = [x EXCEPT !.stream = Buffer(x.stream, Head(line).seq, Head(line).pay)]
    BY <2>1
  <2>3. PeerConnected(x.stream) /\ SeqDiff(Head(line).seq, x.stream.rx_seq) < WINDOW
    BY <1>8
  <2> HIDE DEF s, k, t
  <2>. QED BY <2>2, <2>3, HearLater
<1>. QED BY <1>4, <1>5, <1>6, <1>7, <1>8

(* A CONNECT: what was sent before the peer connected is no longer on the way. *)
LEMMA HearConnect ==
  ASSUME NEW e \in End, NEW x, SoundEnd(e, x), ~Open(x) => x.buf = <<>>, NEW g \in Seq(Pay),
         NEW line, NEW u, NEW N, NEW known, Direction(line, u, N, x, g, known),
         NEW y, y = [x EXCEPT !.stream = OnConnect(x.stream)]
  PROVE  Direction(line, u, N, y, g, known)
<1>. DEFINE s == x.stream
            t == OnConnect(s)
            W == Way(line, u)
<1>1. x \in Endpoints /\ s \in Stream(Pay)
  BY DEF SoundEnd, Good
<1>2. /\ ReaderOK(x, g)
      /\ y.stream = t /\ y.buf = x.buf /\ (Open(y) <=> Open(x))
  <2>1. y = [x EXCEPT !.stream = t]
    OBVIOUS
  <2>2. ReaderOK(x, g)
    BY WriterIs
  <2> HIDE DEF t, s
  <2>. QED BY <1>1, <2>1, <2>2 DEF Endpoints, Open
<1>3. CASE s.peer_connect
  <2>1. SameReader(s, t)
    BY <1>1, <1>3 DEF SameReader, Stream, OnConnect
  <2>2. SameReader(x.stream, y.stream)
    BY <1>2, <2>1
  <2>. QED BY <1>2, <2>2, SameReads, ReaderTurns
<1>4. CASE ~s.peer_connect
  <2>1. t.tcp_out = <<>> /\ t.rx_seq = 0 /\ t.reorder = EmptyMap /\ t.peer_connect
    BY <1>1, <1>4 DEF OnConnect, Stream
  <2>2. Keys(t.reorder) = {} /\ Held(t) = {}
    BY <2>1, Empty DEF Held
  <2>3. PICK a, b, o \in Seq(Pay) : /\ a = IF Open(x) THEN g ELSE <<>>
                                    /\ b = x.buf /\ o = s.tcp_out
    <3>1. <<>> \in Seq(Pay)
      OBVIOUS
    <3>. QED BY <1>1, <3>1, EndFields, Fields
  <2>4. PICK bo \in Seq(Pay) : bo = Cat(b, o)
    BY <2>3, CatType
  <2>5. Consumed(x, g) = Cat(a, bo) /\ Consumed(y, g) = a \o b
    <3>1. b \o <<>> = b
      BY <2>3
    <3>. QED BY <1>2, <2>1, <2>3, <2>4, <3>1 DEF Consumed, Cat
  <2>6. /\ Elements(Consumed(y, g)) \subseteq Elements(Consumed(x, g))
        /\ Distinct(Consumed(y, g))
    <3>1. Distinct(Cat(a, bo)) /\ bo \in Seq(Pay) /\ a \in Seq(Pay)
      BY <1>2, <2>3, <2>4, <2>5 DEF ReaderOK
    <3>2. /\ Distinct(a) /\ Distinct(bo) /\ Elements(a) \cap Elements(bo) = {}
          /\ Elements(Cat(a, bo)) = Elements(a) \cup Elements(bo)
      BY <3>1, Join DEF Cat
    <3>3. Distinct(b) /\ Elements(bo) = Elements(b) \cup Elements(o)
      BY <2>3, <2>4, <3>2, Join DEF Cat
    <3>4. Elements(a \o b) = Elements(a) \cup Elements(b) /\ Distinct(a \o b)
      BY <2>3, <3>2, <3>3, Join
    <3>. QED BY <2>5, <3>2, <3>3, <3>4
  <2>7. Accepted(y, g) \subseteq Accepted(x, g)
    BY <1>2, <2>2, <2>6 DEF Accepted
  <2>8. \A v \in W : v.pay \notin Elements(Consumed(y, g))
    <3>1. CASE Open(x)
      BY <1>4, <2>6, <3>1 DEF Direction
    <3>2. CASE ~Open(x)
      <4>1. a = <<>> /\ b = <<>>
        BY <2>3, <3>2
      <4>2. Consumed(y, g) = <<>>
        BY <2>5, <4>1
      <4>. QED BY <4>2 DEF Elements
    <3>. QED BY <3>1, <3>2
  <2>9. ReadOK(W, t, Elements(Consumed(y, g)))
    BY <2>2, <2>8 DEF ReadOK
  <2>10. CloseOK(line, W, Accepted(y, g)) /\ UnsentOK(W, N, Accepted(y, g), known)
    <3>1. CloseOK(line, W, Accepted(x, g)) /\ UnsentOK(W, N, Accepted(x, g), known)
      BY DEF Direction
    <3>. QED BY <2>7, <3>1 DEF CloseOK, UnsentOK
  <2>. QED BY <1>2, <2>1, <2>6, <2>9, <2>10 DEF Direction, ReaderOK
<1>. QED BY <1>3, <1>4

(* A CLOSE or an ABORT: nothing that was read comes again behind it. *)
LEMMA HearClose ==
  ASSUME NEW e \in End, NEW x, SoundEnd(e, x), NEW g \in Seq(Pay),
         NEW line \in Seq(Frames), line # <<>>, NEW u \in Seq(Segment(Pay)), NEW N, NEW known,
         Direction(line, u, N, x, g, known), Leaving(Head(line).type),
         NEW y, y = [x EXCEPT !.stream = OnClose(x.stream)]
  PROVE  Direction(line, u, N, y, g, known)
<1>. DEFINE s == x.stream
            t == OnClose(s)
            W == Way(line, u)
<1>1. x \in Endpoints /\ s \in Stream(Pay)
  BY DEF SoundEnd, Good
<1>2. /\ ReaderOK(x, g)
      /\ y.stream = t /\ y.buf = x.buf /\ (Open(y) <=> Open(x))
  <2>1. y = [x EXCEPT !.stream = t]
    OBVIOUS
  <2>2. ReaderOK(x, g)
    BY WriterIs
  <2> HIDE DEF t, s
  <2>. QED BY <1>1, <2>1, <2>2 DEF Endpoints, Open
<1>3. CASE ~Established(s)
  <2>1. SameReader(s, t)
    BY <1>1, <1>3 DEF SameReader, Stream, OnClose
  <2>2. SameReader(x.stream, y.stream)
    BY <1>2, <2>1
  <2>. QED BY <1>2, <2>2, SameReads, ReaderTurns
<1>4. CASE Established(s)
  <2>1. /\ t.tcp_out = s.tcp_out /\ t.rx_seq = s.rx_seq /\ t.reorder = s.reorder
        /\ ~t.peer_connect
    BY <1>1, <1>4 DEF OnClose, Stream
  <2>2. Consumed(y, g) = Consumed(x, g)
    BY <1>2, <2>1 DEF Consumed
  <2>3. Accepted(y, g) = Accepted(x, g)
    BY <1>2, <2>1, <2>2 DEF Accepted, Held
  <2>4. \A v \in W : v.pay \notin Accepted(x, g)
    <3>1. ASSUME NEW v \in W PROVE v.pay \notin Accepted(x, g)
      <4>1. Head(line) = line[1] /\ 1 \in DOMAIN line /\ Len(line) \in Nat \ {0}
        OBVIOUS
      <4>2. v.at \in 1..Len(line) + 1
        BY <3>1, WaySpots
      <4>3. v.at # 1
        <5>1. CASE \E i \in DOMAIN line : line[i].type = "DATA"
                      /\ v = [at |-> i, seq |-> line[i].seq, pay |-> line[i].pay]
          BY <4>1, <5>1 DEF Leaving
        <5>2. CASE \E j \in DOMAIN u :
                      v = [at |-> Len(line) + 1, seq |-> u[j].seq, pay |-> u[j].pay]
          BY <4>1, <5>2
        <5>. QED BY <3>1, <5>1, <5>2, WayCases
      <4>4. v.at > 1
        BY <4>1, <4>2, <4>3
      <4>5. CloseOK(line, W, Accepted(x, g))
        BY DEF Direction
      <4>. QED BY <4>1, <4>4, <4>5 DEF CloseOK
    <3>. QED BY <3>1
  <2>5. Elements(Consumed(x, g)) \subseteq Accepted(x, g)
    BY DEF Accepted
  <2>6. ReadOK(W, t, Elements(Consumed(y, g)))
    BY <2>1 DEF ReadOK
  <2>. QED BY <1>2, <2>1, <2>2, <2>3, <2>4, <2>5, <2>6 DEF Direction
<1>. QED BY <1>3, <1>4

LEMMA Hear ==
  ASSUME NEW e \in End, NEW x, SoundEnd(e, x), ~Open(x) => x.buf = <<>>, NEW g \in Seq(Pay),
         NEW line \in Seq(Frames), line # <<>>, NEW u \in Seq(Segment(Pay)), NEW N, NEW known,
         Direction(line, u, N, x, g, known),
         NEW y, y = [x EXCEPT !.stream = Heard(x.stream, Head(line))]
  PROVE  Direction(line, u, N, y, g, known)
<1>. DEFINE f == Head(line)
            s == x.stream
<1>1. f \in Frames /\ f \in Frame(Pay) /\ x \in Endpoints /\ s \in Stream(Pay)
  BY DEF SoundEnd, Good, Frames
<1>2. f.type \in CtrlType \cup {"DATA", "ACK"} /\ f.seq \in SeqNum
  BY <1>1 DEF Frame
<1>3. CASE f.type = "ACK"
  <2>1. PICK t : t = ApplySack(s, f.sack)
    OBVIOUS
  <2>2. y = [x EXCEPT !.stream = t]
    BY <1>3, <2>1 DEF Heard
  <2>3. SameReader(s, t)
    BY <1>1, <2>1 DEF ApplySack, SameReader, Stream
  <2>4. ReaderOK(x, g)
    BY WriterIs
  <2>5. y.stream = t /\ y.buf = x.buf /\ (Open(y) <=> Open(x))
    BY <1>1, <2>2 DEF Endpoints, Open
  <2>. QED BY <2>3, <2>4, <2>5, SameReads, ReaderTurns
<1>4. CASE f.type = "DATA"
  <2>1. f.pay \in Pay
    BY <1>1, <1>4 DEF Frames
  <2>2. y = [x EXCEPT !.stream = DeliverData(x.stream, Head(line).seq, Head(line).pay)]
    BY <1>4 DEF Heard
  <2>. QED BY <1>2, <1>4, <2>1, <2>2, HearData
<1>5. CASE f.type = "CONNECT"
  <2>1. y = [x EXCEPT !.stream = OnConnect(x.stream)]
    BY <1>5 DEF Heard
  <2>. QED BY <2>1, HearConnect
<1>6. CASE f.type \in {"CLOSE", "ABORT"}
  <2>1. y = [x EXCEPT !.stream = OnClose(x.stream)]
    BY <1>6 DEF Heard
  <2>. QED BY <1>6, <2>1, HearClose DEF Leaving
<1>. QED BY <1>2, <1>3, <1>4, <1>5, <1>6 DEF CtrlType

-----------------------------------------------------------------------------
(***************************************************************************)
(* What the methods of an endpoint leave as it was: an endpoint turns from *)
(* x, whose application has read g, to y, whose application has read h,    *)
(* and stays a fit end of both lines.                                      *)
(***************************************************************************)

ReaderTurn(x, g, y, h) == Reads(x, g, y, h) /\ (ReaderOK(x, g) => ReaderOK(y, h))

WriterTurn(x, y) ==
  /\ Sends(x.stream.unacked, Unsent(x), y.stream.unacked, Unsent(y))
  /\ WriterOK(x.stream.unacked, Unsent(x)) => WriterOK(y.stream.unacked, Unsent(y))

Turn(e, x, g, y, h) ==
  ReaderTurn(x, g, y, h) /\ WriterTurn(x, y) /\ (LineEnd(e, x) => LineEnd(e, y))

LEMMA ReaderTurnTwice ==
  ASSUME NEW x, NEW g, NEW y, NEW h, NEW z, NEW k, ReaderTurn(x, g, y, h), ReaderTurn(y, h, z, k)
  PROVE  ReaderTurn(x, g, z, k)
BY ReadsTwice DEF ReaderTurn

LEMMA WriterTurnTwice ==
  ASSUME NEW x, NEW y, NEW z, WriterTurn(x, y), WriterTurn(y, z)
  PROVE  WriterTurn(x, z)
BY SendsTwice DEF WriterTurn

LEMMA TurnTwice ==
  ASSUME NEW e, NEW x, NEW g, NEW y, NEW h, NEW z, NEW k, Turn(e, x, g, y, h), Turn(e, y, h, z, k)
  PROVE  Turn(e, x, g, z, k)
BY ReaderTurnTwice, WriterTurnTwice DEF Turn

LEMMA SameReaderTurn ==
  ASSUME NEW x, NEW y, SameReader(x.stream, y.stream), Open(y) <=> Open(x), y.buf = x.buf, NEW g
  PROVE  ReaderTurn(x, g, y, g)
BY SameReads DEF ReaderTurn

(* The writer has no segment it had not before. *)
LEMMA LessToSend ==
  ASSUME NEW x, NEW y,
         \A j \in DOMAIN y.stream.unacked : \E i \in DOMAIN x.stream.unacked :
            /\ y.stream.unacked[j].seq = x.stream.unacked[i].seq
            /\ y.stream.unacked[j].pay = x.stream.unacked[i].pay,
         Elements(Unsent(y)) \subseteq Elements(Unsent(x)),
         Distinct(Unsent(x)) => Distinct(Unsent(y))
  PROVE  WriterTurn(x, y)
<1>1. Sends(x.stream.unacked, Unsent(x), y.stream.unacked, Unsent(y))
  BY DEF Sends
<1>2. ASSUME WriterOK(x.stream.unacked, Unsent(x))
      PROVE  WriterOK(y.stream.unacked, Unsent(y))
  BY <1>2 DEF WriterOK
<1>. QED BY <1>1, <1>2 DEF WriterTurn

SameSender(s, t) ==
  /\ t.tx_seq = s.tx_seq /\ t.local = s.local /\ t.peer_close = s.peer_close
  /\ t.tcp_in = s.tcp_in /\ (HasLeft(t) => HasLeft(s))
  /\ Len(t.unacked) = Len(s.unacked) /\ DOMAIN t.unacked = DOMAIN s.unacked
  /\ \A i \in DOMAIN s.unacked :
        t.unacked[i].seq = s.unacked[i].seq /\ t.unacked[i].pay = s.unacked[i].pay

LEMMA SameSenderKeeps ==
  ASSUME NEW e, NEW s, NEW t, t \in Stream(Pay), SameSender(s, t), t.peer_connect => s.peer_connect,
         StreamOK(e, s)
  PROVE  StreamOK(e, t)
<1>1. /\ \A i \in DOMAIN s.unacked :
            s.unacked[i].seq = SeqAdd(s.tx_seq, i - 1 - Len(s.unacked))
      /\ ~s.local => s.unacked = <<>> /\ s.tcp_in = <<>>
      /\ HasLeft(s) => ~s.local
      /\ e = CLIENT /\ HasLeft(s) => ~s.peer_connect
  BY DEF StreamOK, Chain
<1>2. Chain(t)
  BY <1>1 DEF Chain, SameSender
<1>3. ASSUME ~t.local PROVE t.unacked = <<>> /\ t.tcp_in = <<>>
  <2>1. s.unacked = <<>> /\ s.tcp_in = <<>>
    BY <1>1, <1>3 DEF SameSender
  <2>2. Len(t.unacked) = 0
    BY <2>1 DEF SameSender
  <2>3. t.unacked \in Seq(Segment(Pay))
    BY Fields
  <2>. QED BY <2>1, <2>2, <2>3 DEF SameSender
<1>. QED BY <1>1, <1>2, <1>3 DEF StreamOK, SameSender

LEMMA SameTurn ==
  ASSUME NEW e, NEW x, NEW y, y \in Endpoints, SameReader(x.stream, y.stream),
         SameSender(x.stream, y.stream), y.sock = x.sock, y.buf = x.buf, y.rx_q = x.rx_q, NEW g
  PROVE  Turn(e, x, g, y, g)
<1>1. y.stream \in Stream(Pay)
  BY EndFields
<1>2. Open(y) <=> Open(x)
  BY DEF Open
<1>3. ReaderTurn(x, g, y, g)
  BY <1>2, SameReaderTurn
<1>4. Unsent(y) = Unsent(x)
  BY DEF Unsent, SameSender
<1>5. WriterTurn(x, y)
  BY <1>4, LessToSend DEF SameSender
<1>6. ASSUME LineEnd(e, x) PROVE LineEnd(e, y)
  <2>1. StreamOK(e, y.stream)
    BY <1>1, <1>6, SameSenderKeeps DEF LineEnd, SameReader
  <2>. QED BY <1>2, <1>6, <2>1 DEF LineEnd, SameReader, SameSender
<1>. QED BY <1>3, <1>5, <1>6 DEF Turn

LEMMA TurnSelf == ASSUME NEW e, NEW x, NEW g PROVE Turn(e, x, g, x, g)
<1>1. ReaderTurn(x, g, x, g)
  BY SameReaderTurn DEF SameReader
<1>2. WriterTurn(x, x)
  BY LessToSend
<1>. QED BY <1>1, <1>2 DEF Turn

-----------------------------------------------------------------------------
(***************************************************************************)
(* The stream's methods.                                                   *)
(***************************************************************************)

(* What a method of the stream does to the endpoint. *)
LEMMA StreamTurns ==
  ASSUME NEW e, NEW x \in Endpoints, NEW t \in Stream(Pay), SameReader(x.stream, t),
         SameSender(x.stream, t), NEW y, y = [x EXCEPT !.stream = t], NEW g
  PROVE  Turn(e, x, g, y, g)
<1>1. /\ y \in Endpoints /\ y.stream = t /\ y.sock = x.sock /\ y.buf = x.buf /\ y.rx_q = x.rx_q
  BY DEF Endpoints
<1>. QED BY <1>1, SameTurn

LEMMA MarkedSender ==
  ASSUME NEW s, s \in Stream(Pay), NEW u, DOMAIN u = DOMAIN s.unacked,
         u = [i \in DOMAIN s.unacked |-> u[i]],
         \A i \in DOMAIN s.unacked :
            u[i] \in {s.unacked[i], [s.unacked[i] EXCEPT !.in_flight = FALSE],
                      [s.unacked[i] EXCEPT !.sacked = TRUE]},
         NEW t, t = [s EXCEPT !.unacked = u]
  PROVE  SameSender(s, t) /\ SameReader(s, t)
<1>1. s.unacked \in Seq(Segment(Pay))
  BY Fields
<1>2. ASSUME NEW i \in DOMAIN s.unacked
      PROVE  u[i].seq = s.unacked[i].seq /\ u[i].pay = s.unacked[i].pay
  <2>1. PICK g \in Segment(Pay) : g = s.unacked[i]
    BY <1>1
  <2>2. u[i] \in {g, [g EXCEPT !.in_flight = FALSE], [g EXCEPT !.sacked = TRUE]}
    BY <2>1
  <2>. QED BY <2>1, <2>2 DEF Segment
<1>3. Len(u) = Len(s.unacked)
  <2>1. DOMAIN s.unacked = 1..Len(s.unacked) /\ Len(s.unacked) \in Nat
    BY <1>1
  <2>. QED BY <2>1
<1>4. /\ t.unacked = u /\ t.tx_seq = s.tx_seq /\ t.local = s.local
      /\ t.peer_close = s.peer_close /\ t.tcp_in = s.tcp_in /\ t.ctrlq = s.ctrlq
      /\ SameReader(s, t)
  BY DEF Stream, SameReader
<1>. QED BY <1>2, <1>3, <1>4 DEF SameSender, HasLeft

LEMMA ExpireSender ==
  ASSUME NEW s, s \in Stream(Pay), NEW due
  PROVE  SameSender(s, Expire(s, due)) /\ SameReader(s, Expire(s, due))
<1> DEFINE u == [i \in DOMAIN s.unacked |->
                  IF i \in due /\ ~s.unacked[i].sacked
                  THEN [s.unacked[i] EXCEPT !.in_flight = FALSE] ELSE s.unacked[i]]
<1>1. Expire(s, due) = [s EXCEPT !.unacked = u]
  BY DEF Expire
<1>2. \A i \in DOMAIN s.unacked :
        u[i] \in {s.unacked[i], [s.unacked[i] EXCEPT !.in_flight = FALSE],
                  [s.unacked[i] EXCEPT !.sacked = TRUE]}
  OBVIOUS
<1>3. DOMAIN u = DOMAIN s.unacked /\ u = [i \in DOMAIN s.unacked |-> u[i]]
  OBVIOUS
<1> HIDE DEF u
<1>. QED BY <1>1, <1>2, <1>3, MarkedSender

LEMMA ApplySackSender ==
  ASSUME NEW s, s \in Stream(Pay), NEW sns
  PROVE  SameSender(s, ApplySack(s, sns)) /\ SameReader(s, ApplySack(s, sns))
<1> DEFINE u == [i \in DOMAIN s.unacked |->
                  IF s.unacked[i].seq \in sns
                  THEN [s.unacked[i] EXCEPT !.sacked = TRUE] ELSE s.unacked[i]]
<1>1. ApplySack(s, sns) = [s EXCEPT !.unacked = u]
  BY DEF ApplySack
<1>2. \A i \in DOMAIN s.unacked :
        u[i] \in {s.unacked[i], [s.unacked[i] EXCEPT !.in_flight = FALSE],
                  [s.unacked[i] EXCEPT !.sacked = TRUE]}
  OBVIOUS
<1>3. DOMAIN u = DOMAIN s.unacked /\ u = [i \in DOMAIN s.unacked |-> u[i]]
  OBVIOUS
<1> HIDE DEF u
<1>. QED BY <1>1, <1>2, <1>3, MarkedSender

LEMMA ReconnectSender ==
  ASSUME NEW s, s \in Stream(Pay), NEW reconnect, NEW t, t = Reconnect(s, reconnect)
  PROVE  SameSender(s, t) /\ SameReader(s, t)
<1>1. CASE t = s
  BY <1>1 DEF SameSender, SameReader
<1>2. CASE t = [s EXCEPT !.ctrlq = Append(@, "CONNECT")]
  <2>1. s.ctrlq \in Seq(CtrlType)
    BY Fields
  <2>2. PICK q : q = Append(s.ctrlq, "CONNECT")
    OBVIOUS
  <2>3. t = [s EXCEPT !.ctrlq = q]
    BY <1>2, <2>2
  <2>4. /\ t.unacked = s.unacked /\ t.tx_seq = s.tx_seq /\ t.local = s.local
        /\ t.peer_close = s.peer_close /\ t.tcp_in = s.tcp_in /\ t.ctrlq = q
        /\ SameReader(s, t)
    BY <2>3 DEF Stream, SameReader
  <2>5. ASSUME HasLeft(t) PROVE HasLeft(s)
    <3>1. PICK i \in DOMAIN q : Leaving(q[i])
      BY <2>4, <2>5 DEF HasLeft
    <3>2. i \in DOMAIN s.ctrlq /\ q[i] = s.ctrlq[i]
      BY <2>1, <2>2, <3>1 DEF Leaving
    <3>. QED BY <3>1, <3>2 DEF HasLeft
  <2>. QED BY <2>4, <2>5 DEF SameSender
<1>. QED BY <1>1, <1>2 DEF Reconnect

(* The window moves from tcp_in to unacked, and the numbers go on. *)
LEMMA CutTurns ==
  ASSUME NEW e, NEW x \in Endpoints, Good(x.stream), x.stream.local,
         NEW y, y = [x EXCEPT !.stream = Cut(x.stream)], NEW g
  PROVE  Turn(e, x, g, y, g)
<1> DEFINE s == x.stream
           room == WINDOW - Len(s.unacked)
           n == IF Len(s.tcp_in) < room THEN Len(s.tcp_in) ELSE room
           new == [i \in 1..n |-> [seq |-> SeqAdd(s.tx_seq, i - 1), pay |-> s.tcp_in[i],
                                   in_flight |-> FALSE, sacked |-> FALSE]]
<1>1. /\ s \in Stream(Pay) /\ Len(s.unacked) <= WINDOW
      /\ s.unacked \in Seq(Segment(Pay)) /\ s.tcp_in \in Seq(Pay) /\ s.tx_seq \in Int
      /\ x.rx_q \in Seq(Pay)
  BY Fields, EndFields, Empty DEF Good
<1>2. n \in Nat /\ n <= Len(s.tcp_in)
  <2>1. PICK a \in Nat, u \in Nat : a = Len(s.tcp_in) /\ u = Len(s.unacked) /\ u <= WINDOW
    <3>1. Len(s.tcp_in) \in Nat /\ Len(s.unacked) \in Nat
      BY <1>1
    <3>. QED BY <1>1, <3>1
  <2>2. PICK r \in Nat : r = WINDOW - u
    <3>1. WINDOW \in Nat /\ u <= WINDOW
      BY <2>1, Sizes
    <3>. QED BY ONLY <3>1, u \in Nat
  <2>3. room = r /\ n = IF a < r THEN a ELSE r
    BY <2>1, <2>2
  <2> HIDE DEF n, room
  <2>4. n \in Nat /\ n <= a
    BY <2>3
  <2>. QED BY <2>1, <2>3, <2>4
<1>3. Cut(s) = [s EXCEPT !.unacked = @ \o new, !.tx_seq = SeqAdd(@, n),
                         !.tcp_in = SubSeq(@, n + 1, Len(@))]
  BY DEF Cut
<1>4. Cut(s) \in Stream(Pay)
  BY CutGood DEF Good
<1> HIDE DEF n, s
<1>5. Len(new) = n /\ DOMAIN new = 1..n /\ new \in Seq(Segment(Pay))
  <2>1. ASSUME NEW i \in 1..n PROVE new[i] \in Segment(Pay)
    <3>1. s.tcp_in[i] \in Pay /\ i - 1 \in Int
      BY <1>1, <1>2
    <3>2. SeqAdd(s.tx_seq, i - 1) \in SeqNum
      BY <3>1, <1>1, SeqAddType
    <3>. QED BY <3>1, <3>2 DEF Segment
  <2>. QED BY <1>2, <2>1
<1>6. PICK t, u, q : t = Cut(s) /\ u = s.unacked \o new /\ q = SubSeq(s.tcp_in, n + 1, Len(s.tcp_in))
  OBVIOUS
<1>7. PICK L \in Nat : L = Len(s.unacked)
  BY <1>1
<1>8. /\ Len(u) = L + n /\ DOMAIN u = 1..L + n /\ DOMAIN s.unacked = 1..L
      /\ \A i \in 1..L : u[i] = s.unacked[i]
      /\ \A i \in L + 1..L + n : /\ i - L \in 1..n
                                 /\ u[i].seq = SeqAdd(s.tx_seq, i - L - 1)
                                 /\ u[i].pay = s.tcp_in[i - L]
  <2>1. /\ Len(u) = L + n /\ DOMAIN u = 1..L + n /\ DOMAIN s.unacked = 1..L
        /\ \A i \in 1..L : u[i] = s.unacked[i]
    BY <1>1, <1>2, <1>5, <1>6, <1>7
  <2>2. ASSUME NEW i \in L + 1..L + n
        PROVE  /\ i - L \in 1..n /\ u[i].seq = SeqAdd(s.tx_seq, i - L - 1)
               /\ u[i].pay = s.tcp_in[i - L]
    <3>1. PICK k \in 1..n : k = i - L
      BY <1>2, <1>7
    <3>2. u[i] = new[k]
      <4>1. i \in 1..Len(s.unacked) + Len(new) /\ ~(i <= Len(s.unacked)) /\ k = i - Len(s.unacked)
        BY <1>2, <1>5, <1>7, <3>1
      <4> HIDE DEF new
      <4>. QED BY <1>1, <1>5, <1>6, <4>1, ConcatProperties
    <3>3. new[k].seq = SeqAdd(s.tx_seq, k - 1) /\ new[k].pay = s.tcp_in[k]
      BY <3>1
    <3>. QED BY <3>1, <3>2, <3>3
  <2>. QED BY <2>1, <2>2
<1>9. /\ t.unacked = u /\ t.tx_seq = SeqAdd(s.tx_seq, n) /\ t.tcp_in = q
      /\ t.local = s.local /\ t.peer_close = s.peer_close /\ t.ctrlq = s.ctrlq
      /\ SameReader(s, t)
  <2>1. t = [s EXCEPT !.unacked = u, !.tx_seq = SeqAdd(s.tx_seq, n), !.tcp_in = q]
    BY <1>3, <1>6
  <2>. QED BY <1>1, <2>1 DEF Stream, SameReader
<1>10. y = [x EXCEPT !.stream = t] /\ t \in Stream(Pay)
  BY <1>4, <1>6 DEF s
<1>11. /\ y \in Endpoints /\ y.stream = t /\ y.sock = x.sock /\ y.buf = x.buf /\ y.rx_q = x.rx_q
       /\ (Open(y) <=> Open(x))
  BY <1>10 DEF Endpoints, Open
<1>12. ReaderTurn(x, g, y, g)
  <2>1. SameReader(x.stream, y.stream)
    BY <1>9, <1>11 DEF s
  <2>. QED BY <1>11, <2>1, SameReaderTurn
<1>13. PICK a \in Seq(Pay) : /\ a = SubSeq(s.tcp_in, 1, n) /\ q \in Seq(Pay)
                             /\ s.tcp_in = Cat(a, q)
  <2>1. n \in 0..Len(s.tcp_in)
    BY <1>1, <1>2
  <2>. QED BY <1>1, <1>6, <2>1, CutInTwo DEF Cat
<1>14. PICK M \in Seq(Pay) : M = Cat(q, x.rx_q)
  BY <1>1, <1>13, CatType
<1>15. Unsent(y) = M /\ Unsent(x) = Cat(a, M)
  <2>1. Cat(Cat(a, q), x.rx_q) = Cat(a, Cat(q, x.rx_q))
    <3>1. a \in Seq(Pay) /\ q \in Seq(Pay) /\ x.rx_q \in Seq(Pay)
      BY <1>1, <1>13
    <3>. QED BY ONLY <3>1, CatAssoc
  <2>2. Unsent(x) = Cat(s.tcp_in, x.rx_q) /\ Unsent(y) = Cat(t.tcp_in, x.rx_q)
    BY <1>11 DEF Unsent, Cat, s
  <2>. QED BY <1>9, <1>13, <1>14, <2>1, <2>2
<1>16. /\ Elements(Unsent(x)) = Elements(a) \cup Elements(M)
       /\ Distinct(Unsent(x)) <=> (Distinct(a) /\ Distinct(M) /\ Elements(a) \cap Elements(M) = {})
  BY <1>15, Join DEF Cat
<1>17. DOMAIN a = 1..n /\ \A i \in 1..n : a[i] = s.tcp_in[i]
  <2>1. DOMAIN a = 1..n
    BY <1>1, <1>2, <1>13
  <2>2. \A i \in 1..n : a[i] = s.tcp_in[i]
    BY <1>1, <1>2, <1>13
  <2>. QED BY <2>1, <2>2
<1>18. \A i \in L + 1..L + n : i - L \in DOMAIN a /\ u[i].pay = a[i - L]
  BY <1>8, <1>17
<1>19. ASSUME NEW j \in DOMAIN u
       PROVE  \/ j \in 1..L /\ j \in DOMAIN s.unacked /\ u[j] = s.unacked[j]
              \/ j \in L + 1..L + n /\ u[j].pay \in Elements(a)
  <2>1. j \in 1..L \/ j \in L + 1..L + n
    BY <1>2, <1>7, <1>8
  <2>. QED BY <1>8, <1>18, <2>1 DEF Elements
<1>20. Sends(s.unacked, Unsent(x), u, M)
  <2>1. \A j \in DOMAIN u :
          \/ u[j].pay \in Elements(Unsent(x))
          \/ \E i \in DOMAIN s.unacked : u[j].seq = s.unacked[i].seq /\ u[j].pay = s.unacked[i].pay
    BY <1>16, <1>19
  <2>. QED BY <1>16, <2>1 DEF Sends
<1>21. ASSUME WriterOK(s.unacked, Unsent(x)) PROVE WriterOK(u, M)
  <2>1. /\ Distinct(a) /\ Distinct(M) /\ Elements(a) \cap Elements(M) = {}
        /\ \A i \in DOMAIN s.unacked :
             s.unacked[i].pay \notin Elements(a) /\ s.unacked[i].pay \notin Elements(M)
        /\ \A i, j \in DOMAIN s.unacked :
             s.unacked[i].pay = s.unacked[j].pay => s.unacked[i].seq = s.unacked[j].seq
    BY <1>16, <1>21 DEF WriterOK
  <2>2. \A i \in DOMAIN u : u[i].pay \notin Elements(M)
    BY <1>19, <2>1
  <2>3. ASSUME NEW i \in DOMAIN u, NEW j \in DOMAIN u, u[i].pay = u[j].pay
        PROVE  u[i].seq = u[j].seq
    <3>1. CASE i \in 1..L /\ i \in DOMAIN s.unacked /\ u[i] = s.unacked[i]
      BY <1>19, <2>1, <2>3, <3>1
    <3>2. CASE j \in 1..L /\ j \in DOMAIN s.unacked /\ u[j] = s.unacked[j]
      BY <1>19, <2>1, <2>3, <3>2
    <3>3. CASE i \in L + 1..L + n /\ j \in L + 1..L + n
      <4>1. i - L \in DOMAIN a /\ j - L \in DOMAIN a /\ a[i - L] = a[j - L]
        BY <1>18, <2>3, <3>3
      <4>2. i - L = j - L
        BY <2>1, <4>1 DEF Distinct
      <4>3. i = j
        BY <1>7, <3>3, <4>2
      <4>. QED BY <4>3
    <3>. QED BY <1>19, <3>1, <3>2, <3>3
  <2>. QED BY <2>1, <2>2, <2>3 DEF WriterOK
<1>22. WriterTurn(x, y)
  BY <1>9, <1>11, <1>15, <1>20, <1>21 DEF WriterTurn, s
<1>23. ASSUME LineEnd(e, x) PROVE LineEnd(e, y)
  <2>1. /\ \A i \in 1..L : s.unacked[i].seq = SeqAdd(s.tx_seq, i - 1 - L)
        /\ HasLeft(s) => ~s.local
        /\ e = CLIENT /\ HasLeft(s) => ~s.peer_connect
    BY <1>7, <1>8, <1>23 DEF LineEnd, StreamOK, Chain, s
  <2>2. ASSUME NEW i \in 1..L + n
        PROVE  u[i].seq = SeqAdd(SeqAdd(s.tx_seq, n), i - 1 - (L + n))
    <3>1. i \in Int /\ L \in Int /\ n \in Int /\ i - 1 - (L + n) \in Int
          /\ n + (i - 1 - (L + n)) = i - 1 - L
      BY <1>2, <1>7
    <3>2. SeqAdd(SeqAdd(s.tx_seq, n), i - 1 - (L + n)) = SeqAdd(s.tx_seq, n + (i - 1 - (L + n)))
      BY <1>1, <3>1, SeqAddTwice
    <3>3. CASE i \in 1..L
      BY <1>8, <2>1, <3>1, <3>2, <3>3
    <3>4. CASE i \in L + 1..L + n
      <4>1. u[i].seq = SeqAdd(s.tx_seq, i - L - 1) /\ i - L - 1 = i - 1 - L
        BY <1>8, <3>1, <3>4
      <4>. QED BY <3>1, <3>2, <4>1
    <3>. QED BY <1>2, <1>7, <3>3, <3>4
  <2>3. Chain(t)
    BY <1>8, <1>9, <2>2 DEF Chain
  <2>4. s.local
    BY DEF s
  <2>5. StreamOK(e, t)
    BY <1>9, <2>1, <2>3, <2>4 DEF StreamOK, HasLeft, SameReader
  <2>. QED BY <1>9, <1>11, <1>23, <2>5 DEF LineEnd, SameReader, s
<1>. QED BY <1>12, <1>22, <1>23 DEF Turn

LEMMA QueueDataTurns ==
  ASSUME NEW e, NEW x \in Endpoints, Good(x.stream), NEW g,
         NEW y, y = [x EXCEPT !.stream = QueueData(x.stream)]
  PROVE  Turn(e, x, g, y, g)
<1>1. CASE ~Established(x.stream)
  <2>1. y = x
    BY <1>1 DEF QueueData, Endpoints
  <2>. QED BY <2>1, TurnSelf
<1>2. CASE Established(x.stream)
  <2>1. y = [x EXCEPT !.stream = Cut(x.stream)] /\ x.stream.local
    BY <1>2 DEF QueueData, Established
  <2>. QED BY <2>1, CutTurns
<1>. QED BY <1>1, <1>2

(* What is acknowledged leaves unacked at its front. *)
LEMMA ApplyAckTurns ==
  ASSUME NEW e, NEW x \in Endpoints, Good(x.stream), NEW ack \in SeqNum, NEW g,
         NEW y, y = [x EXCEPT !.stream = ApplyAck(x.stream, ack)]
  PROVE  Turn(e, x, g, y, g)
<1> DEFINE s == x.stream
           delta == SeqDiff(ack, s.tx_acked)
           v == SubSeq(s.unacked, delta + 1, Len(s.unacked))
           r == [s EXCEPT !.unacked = v, !.tx_acked = SeqAdd(@, delta)]
<1>1. /\ s \in Stream(Pay) /\ s.unacked \in Seq(Segment(Pay)) /\ s.tx_acked \in SeqNum
      /\ s.tx_acked \in Int /\ s.tx_seq \in Int
  BY Fields, Empty DEF Good
<1>2. PICK d \in Nat : d = delta
  BY <1>1, SeqDiffAdd
<1>3. PICK L \in Nat : L = Len(s.unacked) /\ DOMAIN s.unacked = 1..L
  BY <1>1
<1>4. CASE ApplyAck(s, ack) = s
  <2>1. y = x
    BY <1>4 DEF Endpoints
  <2>. QED BY <2>1, TurnSelf
<1>5. CASE ApplyAck(s, ack) = r /\ d <= L
  <2>1. PICK u, t : u = v /\ t = r
    OBVIOUS
  <2>2. t = [s EXCEPT !.unacked = u, !.tx_acked = SeqAdd(s.tx_acked, delta)] /\ t = ApplyAck(s, ack)
    BY <1>5, <2>1
  <2>3. u = SubSeq(s.unacked, d + 1, L)
    BY <1>2, <1>3, <2>1
  <2>4. t \in Stream(Pay)
    BY <2>2, ApplyAckGood DEF Good
  <2> HIDE DEF delta, v, r, s
  <2>5. /\ DOMAIN u = 1..L - d /\ Len(u) = L - d
        /\ \A i \in 1..L - d : u[i] = s.unacked[i + d] /\ i + d \in DOMAIN s.unacked
    <3>1. Len(u) = L - d /\ DOMAIN u = 1..L - d
      BY <1>1, <1>3, <1>5, <2>3
    <3>2. ASSUME NEW i \in 1..L - d PROVE u[i] = s.unacked[i + d] /\ i + d \in DOMAIN s.unacked
      <4>1. i + d \in 1..L /\ i \in 1..L - (d + 1) + 1 /\ (d + 1) + i - 1 = i + d
        BY <1>5
      <4>2. \A j \in d + 1..L : s.unacked[j] \in Segment(Pay)
        BY <1>1, <1>3
      <4>3. \A j \in 1..L - (d + 1) + 1 : u[j] = s.unacked[(d + 1) + j - 1]
        <5>1. d + 1 \in Int /\ L \in Int
          OBVIOUS
        <5>. QED BY <2>3, <4>2, <5>1, SubSeqProperties
      <4>. QED BY <1>3, <4>1, <4>3
    <3>. QED BY <3>1, <3>2
  <2>6. /\ t.unacked = u /\ t.tx_seq = s.tx_seq /\ t.tcp_in = s.tcp_in
        /\ t.local = s.local /\ t.peer_close = s.peer_close /\ t.ctrlq = s.ctrlq
        /\ SameReader(s, t)
    BY <1>1, <2>2 DEF Stream, SameReader
  <2>7. y = [x EXCEPT !.stream = t]
    BY <2>2 DEF s
  <2>8. /\ y.stream = t /\ y.sock = x.sock /\ y.buf = x.buf /\ y.rx_q = x.rx_q
        /\ (Open(y) <=> Open(x))
    BY <2>4, <2>7 DEF Endpoints, Open
  <2>9. ReaderTurn(x, g, y, g)
    <3>1. SameReader(x.stream, y.stream)
      BY <2>6, <2>8 DEF s
    <3>. QED BY <2>8, <3>1, SameReaderTurn
  <2>10. WriterTurn(x, y)
    <3>1. Unsent(y) = Unsent(x)
      BY <2>6, <2>8 DEF Unsent, s
    <3>2. \A j \in DOMAIN u : \E i \in DOMAIN s.unacked :
             u[j].seq = s.unacked[i].seq /\ u[j].pay = s.unacked[i].pay
      BY <2>5
    <3>. QED BY <2>6, <2>8, <3>1, <3>2, LessToSend DEF s
  <2>11. ASSUME LineEnd(e, x) PROVE LineEnd(e, y)
    <3>1. /\ \A i \in 1..L : s.unacked[i].seq = SeqAdd(s.tx_seq, i - 1 - L)
          /\ ~s.local => s.unacked = <<>> /\ s.tcp_in = <<>>
          /\ HasLeft(s) => ~s.local
          /\ e = CLIENT /\ HasLeft(s) => ~s.peer_connect
      BY <1>3, <2>11 DEF LineEnd, StreamOK, Chain, s
    <3>2. Chain(t)
      <4>1. ASSUME NEW i \in 1..L - d PROVE u[i].seq = SeqAdd(s.tx_seq, i - 1 - (L - d))
        <5>1. i + d \in 1..L /\ (i + d) - 1 - L = i - 1 - (L - d)
          BY <1>5
        <5>2. u[i] = s.unacked[i + d]
          BY <2>5
        <5>. QED BY <3>1, <5>1, <5>2
      <4>. QED BY <2>5, <2>6, <4>1 DEF Chain
    <3>3. ASSUME ~t.local PROVE u = <<>> /\ t.tcp_in = <<>>
      <4>1. s.unacked = <<>> /\ t.tcp_in = <<>>
        BY <2>6, <3>1, <3>3
      <4>2. L = 0
        BY <1>3, <4>1
      <4>3. Len(u) = 0 /\ u \in Seq(Segment(Pay))
        BY <1>5, <2>4, <2>5, <2>6, <4>2, Fields
      <4>. QED BY <4>1, <4>3
    <3>4. StreamOK(e, t)
      BY <2>6, <3>1, <3>2, <3>3 DEF StreamOK, HasLeft, SameReader
    <3>. QED BY <2>6, <2>8, <2>11, <3>4 DEF LineEnd, SameReader, s
  <2>. QED BY <2>9, <2>10, <2>11 DEF Turn
<1>6. ApplyAck(s, ack) = s \/ (ApplyAck(s, ack) = r /\ ~(delta > Len(s.unacked)))
  BY DEF ApplyAck
<1>. QED BY <1>2, <1>3, <1>4, <1>5, <1>6

LEMMA OnTickTurns ==
  ASSUME NEW e, NEW x \in Endpoints, Good(x.stream), NEW due, NEW reconnect, NEW g,
         NEW y, y = [x EXCEPT !.stream = OnTick(x.stream, due, reconnect)]
  PROVE  Turn(e, x, g, y, g)
<1>1. PICK s1 : s1 = Expire(x.stream, due)
  OBVIOUS
<1>2. PICK s2 : s2 = Reconnect(s1, reconnect)
  OBVIOUS
<1>3. PICK x1, x2 : x1 = [x EXCEPT !.stream = s1] /\ x2 = [x1 EXCEPT !.stream = s2]
  OBVIOUS
<1>4. Good(s1) /\ SameSender(x.stream, s1) /\ SameReader(x.stream, s1) /\ s1 \in Stream(Pay)
  BY <1>1, ExpireGood, ExpireSender DEF Good
<1>5. x1 \in Endpoints /\ x1.stream = s1
  BY <1>3, <1>4 DEF Endpoints
<1>6. Turn(e, x, g, x1, g)
  BY <1>3, <1>4, StreamTurns
<1>7. Good(s2) /\ SameSender(s1, s2) /\ SameReader(s1, s2) /\ s2 \in Stream(Pay)
  <2>1. s2 \in Stream(Pay) /\ s2.unacked = s1.unacked
    <3>1. s1.ctrlq \in Seq(CtrlType) /\ "CONNECT" \in CtrlType
      BY <1>4, Fields DEF CtrlType
    <3>2. PICK q \in Seq(CtrlType) : q = Append(s1.ctrlq, "CONNECT")
      <4>1. Append(s1.ctrlq, "CONNECT") \in Seq(CtrlType)
        BY <3>1, AppendProperties
      <4>. QED BY <4>1
    <3>3. s2 = s1 \/ s2 = [s1 EXCEPT !.ctrlq = q]
      BY <1>2, <3>2 DEF Reconnect
    <3>. QED BY <1>4, <3>2, <3>3 DEF Stream
  <2>2. SameSender(s1, s2) /\ SameReader(s1, s2)
    BY <1>2, <1>4, ReconnectSender
  <2>. QED BY <1>4, <2>1, <2>2 DEF Good, InWindow, SameReader
<1>8. x2 \in Endpoints /\ x2.stream = s2 /\ Turn(e, x1, g, x2, g)
  <2>1. x2 \in Endpoints /\ x2.stream = s2
    BY <1>3, <1>5, <1>7 DEF Endpoints
  <2>. QED BY <1>3, <1>5, <1>7, <2>1, StreamTurns
<1>9. y = [x2 EXCEPT !.stream = QueueData(x2.stream)]
  BY <1>1, <1>2, <1>3, <1>5, <1>8 DEF Endpoints, OnTick
<1>10. Turn(e, x2, g, y, g)
  BY <1>7, <1>8, <1>9, QueueDataTurns
<1>. QED BY <1>6, <1>8, <1>10, TurnTwice

-----------------------------------------------------------------------------
(***************************************************************************)
(* The endpoint's methods.                                                 *)
(***************************************************************************)

LEMMA PostRxWakeTurns ==
  ASSUME NEW e \in End, NEW x, SoundEnd(e, x), NEW g
  PROVE  Turn(e, x, g, PostRxWake(x), g)
<1>1. PICK y : y = PostRxWake(x)
  OBVIOUS
<1>2. y \in Endpoints /\ x \in Endpoints
  BY <1>1, PostRxWakeSound DEF SoundEnd
<1>3. /\ y.stream = x.stream /\ y.sock = x.sock /\ y.buf = x.buf /\ y.rx_q = x.rx_q
  BY <1>1, <1>2 DEF PostRxWake, Endpoints
<1>4. SameReader(x.stream, y.stream) /\ SameSender(x.stream, y.stream)
  BY <1>3 DEF SameReader, SameSender
<1>. QED BY <1>1, <1>2, <1>3, <1>4, SameTurn

LEMMA SyncRxAcceptTurns ==
  ASSUME NEW e \in End, NEW x, SoundEnd(e, x), NEW g
  PROVE  Turn(e, x, g, SyncRxAccept(x), g)
<1>1. SyncRxAccept(x) = x \/ SyncRxAccept(x) = PostRxWake(x)
  BY DEF SyncRxAccept
<1>. QED BY <1>1, PostRxWakeTurns, TurnSelf

(* on_rx_wake() moves the front of rx_q to the end of tcp_in. *)
LEMMA FetchTurns ==
  ASSUME NEW e, NEW x \in Endpoints, Good(x.stream), x.stream.local,
         NEW n \in 0..Len(x.rx_q),
         NEW y \in Endpoints, SameReader(x.stream, y.stream),
         y.stream.tcp_in = Cat(x.stream.tcp_in, SubSeq(x.rx_q, 1, n)),
         y.rx_q = SubSeq(x.rx_q, n + 1, Len(x.rx_q)),
         y.stream.unacked = x.stream.unacked, y.stream.tx_seq = x.stream.tx_seq,
         y.stream.local = x.stream.local, y.stream.peer_close = x.stream.peer_close,
         y.stream.ctrlq = x.stream.ctrlq, y.sock = x.sock, y.buf = x.buf, NEW g
  PROVE  Turn(e, x, g, y, g)
<1>1. PICK q \in Seq(Pay), i \in Seq(Pay) : q = x.rx_q /\ i = x.stream.tcp_in
  BY EndFields, Fields
<1>2. PICK a \in Seq(Pay), b \in Seq(Pay) :
        /\ a = SubSeq(x.rx_q, 1, n) /\ b = SubSeq(x.rx_q, n + 1, Len(x.rx_q)) /\ q = Cat(a, b)
  BY <1>1, CutInTwo DEF Cat
<1>3. Cat(Cat(i, a), b) = Cat(i, Cat(a, b))
  <2>1. i \in Seq(Pay) /\ a \in Seq(Pay) /\ b \in Seq(Pay)
    BY <1>1, <1>2
  <2>. QED BY ONLY <2>1, CatAssoc
<1>4. Unsent(y) = Unsent(x)
  <2>1. Unsent(x) = Cat(i, q) /\ Unsent(y) = Cat(Cat(i, a), b)
    BY <1>1, <1>2 DEF Unsent, Cat
  <2>. QED BY <1>2, <1>3, <2>1
<1>5. WriterTurn(x, y)
  BY <1>4, LessToSend
<1>6. Open(y) <=> Open(x)
  BY DEF Open
<1>7. ReaderTurn(x, g, y, g)
  BY <1>6, SameReaderTurn
<1>8. ASSUME LineEnd(e, x) PROVE LineEnd(e, y)
  BY <1>6, <1>8 DEF LineEnd, StreamOK, Chain, HasLeft, SameReader
<1>. QED BY <1>5, <1>7, <1>8 DEF Turn

LEMMA OnRxWakeTurns ==
  ASSUME NEW e \in End, NEW x \in Endpoints, Good(x.stream), x.stream.local <=> Open(x),
         ~Open(x) => x.rx_q = <<>>, e = SERVER => x.sock # "connecting", NEW g
  PROVE  Turn(e, x, g, OnRxWake(x), g)
<1> DEFINE awake == [x EXCEPT !.rx_wake_pending = FALSE]
<1>1. /\ awake \in Endpoints /\ awake.stream = x.stream /\ awake.sock = x.sock
      /\ awake.rx_q = x.rx_q /\ ~awake.rx_wake_pending /\ awake.buf = x.buf
  BY DEF Endpoints
<1>2. CASE ~AcceptsTcp(x.stream)
  <2>1. OnRxWake(x) = awake
    BY <1>2 DEF OnRxWake
  <2>2. SameReader(x.stream, awake.stream) /\ SameSender(x.stream, awake.stream)
    BY <1>1 DEF SameReader, SameSender
  <2> HIDE DEF awake
  <2>. QED BY <1>1, <2>1, <2>2, SameTurn
<1>3. CASE AcceptsTcp(x.stream)
  <2> DEFINE room == TCP_IN_MAX - Len(x.stream.tcp_in)
             n == IF room < Len(x.rx_q) THEN room ELSE Len(x.rx_q)
             tin == x.stream.tcp_in \o SubSeq(x.rx_q, 1, n)
             t == [x.stream EXCEPT !.tcp_in = tin]
             q == SubSeq(x.rx_q, n + 1, Len(x.rx_q))
             z == [awake EXCEPT !.stream = t, !.rx_q = q]
             y == [awake EXCEPT !.stream = QueueData(t), !.rx_q = q]
  <2>1. Open(x) /\ x.stream \in Stream(Pay) /\ x.stream.local
    BY <1>3 DEF AcceptsTcp, Established, Good
  <2>2. x.stream.tcp_in \in Seq(Pay) /\ x.rx_q \in Seq(Pay)
    BY <2>1, Fields, EndFields
  <2>3. n \in Nat /\ n <= Len(x.rx_q)
    <3>1. PICK a \in Nat, l \in Nat : a = Len(x.stream.tcp_in) /\ l = Len(x.rx_q)
      BY <2>2
    <3>2. a < TCP_IN_MAX
      BY <1>3, <3>1 DEF AcceptsTcp
    <3>3. n = IF TCP_IN_MAX - a < l THEN TCP_IN_MAX - a ELSE l
      BY <3>1
    <3> HIDE DEF room, n
    <3>. QED BY <3>1, <3>2, <3>3, Sizes
  <2> HIDE DEF n
  <2>4. tin \in Seq(Pay) /\ q \in Seq(Pay)
    BY <2>2, <2>3
  <2>5. tin = Cat(x.stream.tcp_in, SubSeq(x.rx_q, 1, n))
    BY DEF Cat
  <2>6. q = SubSeq(x.rx_q, n + 1, Len(x.rx_q)) /\ n \in 0..Len(x.rx_q)
    BY <2>2, <2>3
  <2> HIDE DEF tin, q
  <2>7. /\ t \in Stream(Pay) /\ t.unacked = x.stream.unacked /\ t.rx_seq = x.stream.rx_seq
        /\ t.reorder = x.stream.reorder /\ t.local = x.stream.local /\ t.tcp_in = tin
        /\ t.tx_seq = x.stream.tx_seq /\ t.peer_close = x.stream.peer_close
        /\ t.ctrlq = x.stream.ctrlq /\ SameReader(x.stream, t)
    BY <2>1, <2>4 DEF Stream, SameReader
  <2>8. Good(t) /\ t.local
    BY <2>1, <2>7 DEF Good, InWindow
  <2> HIDE DEF t
  <2>9. Good(QueueData(t)) /\ QueueData(t).local /\ QueueData(t) \in Stream(Pay)
    BY <2>8, QueueDataGood DEF SameFace, Good
  <2>10. OnRxWake(x) = SyncRxAccept(y)
    <3>1. [awake EXCEPT
             !.stream = QueueData([x.stream EXCEPT !.tcp_in = @ \o SubSeq(x.rx_q, 1, n)]),
             !.rx_q = SubSeq(@, n + 1, Len(@))] = y
      BY <1>1, <2>1 DEF Endpoints, t, tin, q
    <3>. QED BY <1>3, <3>1 DEF OnRxWake, n
  <2> HIDE DEF awake
  <2>11. /\ y \in Endpoints /\ y.stream = QueueData(t) /\ y.sock = x.sock
         /\ ~y.rx_wake_pending
         /\ z \in Endpoints /\ z.stream = t /\ z.sock = x.sock /\ z.buf = x.buf /\ z.rx_q = q
         /\ y = [z EXCEPT !.stream = QueueData(z.stream)]
    <3>1. z \in Endpoints /\ z.stream = t /\ z.sock = x.sock /\ z.buf = x.buf /\ z.rx_q = q
      BY <1>1, <2>4, <2>7 DEF Endpoints
    <3>2. y = [z EXCEPT !.stream = QueueData(t)]
      BY <1>1, <2>7 DEF Endpoints
    <3>3. y \in Endpoints /\ y.stream = QueueData(t) /\ y.sock = x.sock /\ ~y.rx_wake_pending
      BY <1>1, <2>4, <2>9 DEF Endpoints
    <3>. QED BY <3>1, <3>2, <3>3
  <2> HIDE DEF y, z
  <2>12. SoundEnd(e, y)
    BY <2>1, <2>9, <2>11 DEF SoundEnd, Open
  <2>13. Turn(e, x, g, z, g)
    <3>1. /\ SameReader(x.stream, z.stream)
          /\ z.stream.tcp_in = Cat(x.stream.tcp_in, SubSeq(x.rx_q, 1, n))
          /\ z.rx_q = SubSeq(x.rx_q, n + 1, Len(x.rx_q))
          /\ z.stream.unacked = x.stream.unacked /\ z.stream.tx_seq = x.stream.tx_seq
          /\ z.stream.local = x.stream.local /\ z.stream.peer_close = x.stream.peer_close
          /\ z.stream.ctrlq = x.stream.ctrlq
      BY <2>5, <2>6, <2>7, <2>11
    <3>. QED BY <2>1, <2>6, <2>11, <3>1, FetchTurns
  <2>14. Turn(e, z, g, y, g)
    BY <2>8, <2>11, QueueDataTurns
  <2>15. Turn(e, y, g, SyncRxAccept(y), g)
    BY <2>12, SyncRxAcceptTurns
  <2>. QED BY <2>10, <2>13, <2>14, <2>15, TurnTwice
<1>. QED BY <1>2, <1>3

(* The application is gone: nothing is read any more, and nothing fetched. *)
LEMMA DropTurns ==
  ASSUME NEW x \in Endpoints, NEW g \in Seq(Pay), NEW y \in Endpoints,
         ~Open(y), y.buf = <<>>, y.rx_q = <<>>,
         y.stream.tcp_out = x.stream.tcp_out,
         y.stream.reorder \in {x.stream.reorder, EmptyMap},
         y.stream.peer_connect => SameReader(x.stream, y.stream),
         y.stream.unacked \in {x.stream.unacked, <<>>},
         y.stream.tcp_in \in {x.stream.tcp_in, <<>>}
  PROVE  ReaderTurn(x, g, y, g) /\ WriterTurn(x, y)
<1>1. PICK a, b, o \in Seq(Pay) : /\ a = IF Open(x) THEN g ELSE <<>>
                                  /\ b = x.buf /\ o = x.stream.tcp_out
  <2>1. <<>> \in Seq(Pay)
    OBVIOUS
  <2>. QED BY <2>1, EndFields, Fields
<1>2. Consumed(y, g) = o /\ Consumed(x, g) = Cat(a, Cat(b, o))
  <2>1. <<>> \o (<<>> \o o) = o
    BY <1>1
  <2>. QED BY <1>1, <2>1 DEF Consumed, Cat
<1>3. /\ Elements(o) \subseteq Elements(Cat(a, Cat(b, o)))
      /\ Distinct(Cat(a, Cat(b, o))) => Distinct(o)
  <2>1. a \in Seq(Pay) /\ b \in Seq(Pay) /\ o \in Seq(Pay) /\ Cat(b, o) \in Seq(Pay)
    BY <1>1, CatType
  <2>2. /\ Elements(Cat(b, o)) = Elements(b) \cup Elements(o)
        /\ Distinct(Cat(b, o)) => Distinct(o)
    BY ONLY <2>1, Join DEF Cat
  <2>3. /\ Elements(Cat(a, Cat(b, o))) = Elements(a) \cup Elements(Cat(b, o))
        /\ Distinct(Cat(a, Cat(b, o))) => Distinct(Cat(b, o))
    <3>1. PICK bo \in Seq(Pay) : bo = Cat(b, o)
      BY <2>1
    <3>2. bo \in Seq(Pay)
      BY <3>1
    <3>3. Elements(Cat(a, bo)) = Elements(a) \cup Elements(bo) /\ (Distinct(Cat(a, bo)) => Distinct(bo))
      BY ONLY <2>1, <3>2, Join DEF Cat
    <3>. QED BY <3>1, <3>3
  <2>. QED BY <2>2, <2>3
<1>4. Held(y.stream) \subseteq Held(x.stream)
  BY Empty DEF Held
<1>5. Accepted(y, g) \subseteq Accepted(x, g)
  BY <1>2, <1>3, <1>4 DEF Accepted
<1>6. ReaderTurn(x, g, y, g)
  BY <1>2, <1>3, <1>5 DEF ReaderTurn, Reads, ReaderOK, SameReader
<1>7. /\ Elements(Unsent(y)) \subseteq Elements(Unsent(x))
      /\ Distinct(Unsent(x)) => Distinct(Unsent(y))
  <2>1. PICK i, q \in Seq(Pay) : i = x.stream.tcp_in /\ q = x.rx_q
    BY EndFields, Fields
  <2>2. Unsent(x) = Cat(i, q)
    BY <2>1 DEF Unsent, Cat
  <2>3. Elements(Cat(i, q)) = Elements(i) \cup Elements(q) /\ (Distinct(Cat(i, q)) => Distinct(i))
    BY <2>1, Join DEF Cat
  <2>4. CASE y.stream.tcp_in = <<>>
    <3>1. Unsent(y) = <<>>
      BY <2>4 DEF Unsent
    <3>. QED BY <3>1 DEF Elements, Distinct
  <2>5. CASE y.stream.tcp_in = i
    <3>1. i \o <<>> = i
      BY <2>1
    <3>2. Unsent(y) = i
      BY <2>5, <3>1 DEF Unsent
    <3>. QED BY <2>2, <2>3, <3>2
  <2>. QED BY <2>1, <2>4, <2>5
<1>8. WriterTurn(x, y)
  <2>1. CASE y.stream.unacked = x.stream.unacked
    BY <1>7, <2>1, LessToSend
  <2>2. CASE y.stream.unacked = <<>>
    <3>1. DOMAIN y.stream.unacked = {}
      BY <2>2
    <3>. QED BY <1>7, <3>1, LessToSend
  <2>. QED BY <2>1, <2>2
<1>. QED BY <1>6, <1>8

LEMMA CloseClientTurns ==
  ASSUME NEW e, NEW x \in Endpoints, NEW g \in Seq(Pay)
  PROVE  Turn(e, x, g, CloseClient(x), g)
<1>1. PICK y : y = CloseClient(x)
  OBVIOUS
<1>2. /\ y \in Endpoints /\ y.stream = x.stream /\ y.sock = "none" /\ y.rx_q = <<>>
      /\ y.buf = <<>> /\ ~Open(y)
  <2>1. y \in Endpoints /\ y.stream = x.stream /\ y.sock = "none" /\ y.rx_q = <<>>
    BY <1>1, CloseClientFields
  <2>2. y.buf = <<>>
    BY <1>1 DEF CloseClient, Endpoints
  <2>. QED BY <2>1, <2>2 DEF Open
<1>3. ReaderTurn(x, g, y, g) /\ WriterTurn(x, y)
  BY <1>2, DropTurns DEF SameReader
<1>4. LineEnd(e, x) => LineEnd(e, y)
  BY <1>2 DEF LineEnd
<1>. QED BY <1>1, <1>3, <1>4 DEF Turn

LEMMA LeaveTurns ==
  ASSUME NEW e, NEW x \in Endpoints, Good(x.stream), NEW g \in Seq(Pay),
         NEW notices \in Seq(CtrlType),
         NEW y, y = CloseClient(IF x.sock = "none" THEN x
                                ELSE [x EXCEPT !.stream = Leave(@, notices)])
  PROVE  Turn(e, x, g, y, g)
<1>1. CASE x.sock = "none" \/ ~x.stream.local
  <2>1. [x EXCEPT !.stream = x.stream] = x
    BY DEF Endpoints
  <2>2. y = CloseClient(x)
    BY <1>1, <2>1 DEF Leave
  <2>. QED BY <2>2, CloseClientTurns
<1>2. CASE x.sock # "none" /\ x.stream.local
  <2>1. PICK t : t = Leave(x.stream, notices)
    OBVIOUS
  <2>2. t \in Stream(Pay)
    BY <2>1, LeaveGood DEF Good
  <2>3. PICK z : z = [x EXCEPT !.stream = t]
    OBVIOUS
  <2>4. z \in Endpoints /\ z.stream = t
    BY <2>2, <2>3 DEF Endpoints
  <2>5. y = CloseClient(z)
    BY <1>2, <2>1, <2>3
  <2>6. /\ ~t.local /\ ~t.peer_connect /\ t.unacked = <<>> /\ t.tcp_in = <<>>
        /\ t.reorder = EmptyMap /\ t.tcp_out = x.stream.tcp_out
        /\ t.peer_close = x.stream.peer_close
    BY <1>2, <2>1 DEF Leave, Good, Stream
  <2>7. /\ y \in Endpoints /\ y.stream = t /\ y.sock = "none" /\ y.rx_q = <<>>
        /\ y.buf = <<>> /\ ~Open(y)
    <3>1. y \in Endpoints /\ y.stream = t /\ y.sock = "none" /\ y.rx_q = <<>>
      BY <2>4, <2>5, CloseClientFields
    <3>2. y.buf = <<>>
      BY <2>4, <2>5 DEF CloseClient, Endpoints
    <3>. QED BY <3>1, <3>2 DEF Open
  <2>8. ReaderTurn(x, g, y, g) /\ WriterTurn(x, y)
    BY <2>6, <2>7, DropTurns
  <2>9. ASSUME LineEnd(e, x) PROVE LineEnd(e, y)
    <3>1. Chain(t)
      BY <2>6 DEF Chain
    <3>2. StreamOK(e, t)
      BY <2>6, <3>1 DEF StreamOK
    <3>. QED BY <2>6, <2>7, <2>9, <3>2 DEF LineEnd
  <2>. QED BY <2>8, <2>9 DEF Turn
<1>. QED BY <1>1, <1>2

LEMMA OnLocalFinTurns ==
  ASSUME NEW e, NEW x \in Endpoints, Good(x.stream), NEW g \in Seq(Pay)
  PROVE  Turn(e, x, g, OnLocalFin(x), g)
<1>1. <<"CLOSE", "CLOSE", "CLOSE">> \in Seq(CtrlType)
  BY DEF CtrlType
<1>2. OnLocalFin(x) =
        CloseClient(IF x.sock = "none" THEN x
                    ELSE [x EXCEPT !.stream = Leave(@, <<"CLOSE", "CLOSE", "CLOSE">>)])
  BY DEF OnLocalFin, LocalDown
<1>. QED BY <1>1, <1>2, LeaveTurns

LEMMA OnLocalAbortTurns ==
  ASSUME NEW e, NEW x \in Endpoints, Good(x.stream), NEW g \in Seq(Pay)
  PROVE  Turn(e, x, g, OnLocalAbort(x), g)
<1>1. <<"ABORT">> \in Seq(CtrlType)
  BY DEF CtrlType
<1>2. OnLocalAbort(x) =
        CloseClient(IF x.sock = "none" THEN x ELSE [x EXCEPT !.stream = Leave(@, <<"ABORT">>)])
  BY DEF OnLocalAbort, LocalAbort
<1>. QED BY <1>1, <1>2, LeaveTurns

LEMMA CutInThree ==
  ASSUME NEW q \in Seq(Pay), NEW k \in Nat, NEW j \in Nat, k <= j, j <= Len(q)
  PROVE  /\ SubSeq(q, 1, k) \in Seq(Pay) /\ SubSeq(q, k + 1, j) \in Seq(Pay)
         /\ SubSeq(q, j + 1, Len(q)) \in Seq(Pay)
         /\ q = Cat(SubSeq(q, 1, k), Cat(SubSeq(q, k + 1, j), SubSeq(q, j + 1, Len(q))))
<1>1. PICK p, o \in Seq(Pay) : /\ p = SubSeq(q, 1, j) /\ o = SubSeq(q, j + 1, Len(q))
                               /\ q = Cat(p, o)
  <2>1. j \in 0..Len(q)
    OBVIOUS
  <2>. QED BY <2>1, CutInTwo DEF Cat
<1>2. Len(p) = j /\ \A i \in 1..j : p[i] = q[i]
  <2>1. \A i \in 1..j : q[i] \in Pay
    OBVIOUS
  <2>2. 1 \in Int /\ j \in Int
    OBVIOUS
  <2>3. /\ Len(p) = (IF 1 <= j THEN j - 1 + 1 ELSE 0)
        /\ \A i \in 1..j - 1 + 1 : p[i] = q[1 + i - 1]
    BY <1>1, <2>1, <2>2, SubSeqProperties
  <2>4. Len(p) = j
    BY <2>3
  <2>5. ASSUME NEW i \in 1..j PROVE p[i] = q[i]
    <3>1. i \in 1..j - 1 + 1 /\ 1 + i - 1 = i
      OBVIOUS
    <3>. QED BY <2>3, <3>1
  <2>. QED BY <2>4, <2>5
<1>3. PICK a, b \in Seq(Pay) : /\ a = SubSeq(p, 1, k) /\ b = SubSeq(p, k + 1, j)
                               /\ p = Cat(a, b)
  <2>1. k \in 0..Len(p) /\ p \in Seq(Pay)
    BY <1>1, <1>2
  <2>. QED BY <1>2, <2>1, CutInTwo DEF Cat
<1>4. SubSeq(p, 1, k) = SubSeq(q, 1, k)
  <2>1. \A i \in 1..k : p[i] = q[i] /\ p[i] \in Pay
    BY <1>2
  <2>. QED BY <1>1, <1>2, <2>1
<1>5. SubSeq(p, k + 1, j) = SubSeq(q, k + 1, j)
  <2>1. \A i \in k + 1..j : p[i] = q[i] /\ p[i] \in Pay
    BY <1>2
  <2>. QED BY <1>1, <1>2, <2>1
<1>6. Cat(Cat(a, b), o) = Cat(a, Cat(b, o))
  <2>1. a \in Seq(Pay) /\ b \in Seq(Pay) /\ o \in Seq(Pay)
    BY <1>1, <1>3
  <2>. QED BY ONLY <2>1, CatAssoc
<1>. QED BY <1>1, <1>3, <1>4, <1>5, <1>6

(* What the socket takes moves from the front of buf and tcp_out to what is *)
(* read.                                                                    *)
LEMMA TakeTurns ==
  ASSUME NEW e, NEW x \in Endpoints, Open(x), NEW g \in Seq(Pay),
         NEW a \in Seq(Pay), NEW b \in Seq(Pay), NEW o \in Seq(Pay),
         Cat(x.buf, x.stream.tcp_out) = Cat(a, Cat(b, o)),
         NEW y, y = [x EXCEPT !.buf = b, !.stream.tcp_out = o]
  PROVE  Turn(e, x, g, y, g \o a)
<1>1. PICK t : t = [x.stream EXCEPT !.tcp_out = o]
  OBVIOUS
<1>2. x.stream \in Stream(Pay)
  BY EndFields
<1>3. /\ t \in Stream(Pay) /\ t.unacked = x.stream.unacked /\ t.rx_seq = x.stream.rx_seq
      /\ t.reorder = x.stream.reorder /\ t.tcp_in = x.stream.tcp_in /\ t.tcp_out = o
      /\ t.local = x.stream.local /\ t.peer_connect = x.stream.peer_connect
      /\ t.peer_close = x.stream.peer_close /\ t.ctrlq = x.stream.ctrlq
      /\ t.tx_seq = x.stream.tx_seq
  BY <1>1, <1>2 DEF Stream
<1>4. y = [x EXCEPT !.buf = b, !.stream = t]
  BY <1>1 DEF Endpoints
<1>5. /\ y \in Endpoints /\ y.stream = t /\ y.sock = x.sock /\ y.rx_q = x.rx_q /\ y.buf = b
      /\ (Open(y) <=> Open(x))
  BY <1>3, <1>4 DEF Endpoints, Open
<1>6. /\ Consumed(x, g) = Cat(g, Cat(a, Cat(b, o)))
      /\ Consumed(y, g \o a) = Cat(Cat(g, a), Cat(b, o))
  BY <1>3, <1>5 DEF Consumed, Cat
<1>7. PICK bo \in Seq(Pay) : bo = Cat(b, o)
  BY CatType
<1>8. Cat(Cat(g, a), bo) = Cat(g, Cat(a, bo)) /\ (Distinct(Cat(Cat(g, a), bo)) => Distinct(Cat(g, a)))
  <2>1. g \in Seq(Pay) /\ a \in Seq(Pay) /\ bo \in Seq(Pay)
    BY <1>7
  <2>2. PICK ga \in Seq(Pay) : ga = Cat(g, a)
    BY CatType
  <2>3. ga \in Seq(Pay)
    BY <2>2
  <2>4. Distinct(Cat(ga, bo)) => Distinct(ga)
    BY ONLY <2>1, <2>3, Join DEF Cat
  <2>5. Cat(Cat(g, a), bo) = Cat(g, Cat(a, bo))
    BY ONLY <2>1, CatAssoc
  <2>. QED BY <2>2, <2>4, <2>5
<1>9. Consumed(y, g \o a) = Consumed(x, g)
  BY <1>6, <1>7, <1>8
<1>10. Accepted(y, g \o a) = Accepted(x, g)
  BY <1>3, <1>5, <1>9 DEF Accepted, Held
<1>11. ReaderTurn(x, g, y, g \o a)
  <2>1. Reads(x, g, y, g \o a)
    BY <1>3, <1>5, <1>9, <1>10 DEF Reads
  <2>2. ASSUME ReaderOK(x, g) PROVE ReaderOK(y, g \o a)
    <3>1. Distinct(Consumed(x, g))
      BY <2>2 DEF ReaderOK
    <3>2. Distinct(Cat(g, a))
      BY <1>6, <1>7, <1>8, <3>1
    <3>. QED BY <1>9, <3>1, <3>2 DEF ReaderOK, Cat
  <2>. QED BY <2>1, <2>2 DEF ReaderTurn
<1>12. Unsent(y) = Unsent(x) /\ y.stream.unacked = x.stream.unacked
  BY <1>3, <1>5 DEF Unsent
<1>13. WriterTurn(x, y)
  BY <1>12, LessToSend
<1>14. ASSUME LineEnd(e, x) PROVE LineEnd(e, y)
  <2>1. StreamOK(e, x.stream) => StreamOK(e, t)
    BY <1>3 DEF StreamOK, Chain, HasLeft
  <2>. QED BY <1>3, <1>5, <1>14, <2>1 DEF LineEnd
<1>. QED BY <1>11, <1>13, <1>14 DEF Turn

LEMMA FlushTurns ==
  ASSUME NEW e, NEW x \in Endpoints, Good(x.stream), NEW g \in Seq(Pay), NEW r \in Flush(x)
  PROVE  Turn(e, x, g, r.left, g \o r.read)
<1> DEFINE all == x.buf \o x.stream.tcp_out
           taken(k, j) ==
             [read |-> SubSeq(all, 1, k),
              left |-> [x EXCEPT !.buf = SubSeq(all, k + 1, j),
                                 !.stream.tcp_out = SubSeq(all, j + 1, Len(all))]]
<1>1. /\ x.stream \in Stream(Pay)
      /\ x.buf \in Seq(Pay) /\ x.stream.tcp_out \in Seq(Pay) /\ <<>> \in Seq(Pay)
  BY Fields, EndFields DEF Good
<1>2. all \in Seq(Pay) /\ Len(all) \in Nat /\ all = Cat(x.buf, x.stream.tcp_out)
  <2>1. x.buf \in Seq(Pay) /\ x.stream.tcp_out \in Seq(Pay)
    BY <1>1
  <2>2. all \in Seq(Pay)
    BY ONLY <2>1
  <2>3. all = Cat(x.buf, x.stream.tcp_out)
    BY DEF Cat
  <2> HIDE DEF all
  <2>. QED BY ONLY <2>2, <2>3
<1> HIDE DEF all
<1>3. ASSUME Open(x), NEW k \in Nat, NEW j \in Nat, k <= j, j <= Len(all), r = taken(k, j)
      PROVE  Turn(e, x, g, r.left, g \o r.read)
  <2>1. PICK a \in Seq(Pay), b \in Seq(Pay), o \in Seq(Pay) :
          /\ a = SubSeq(all, 1, k) /\ b = SubSeq(all, k + 1, j) /\ o = SubSeq(all, j + 1, Len(all))
          /\ all = Cat(a, Cat(b, o))
    <3>1. /\ SubSeq(all, 1, k) \in Seq(Pay) /\ SubSeq(all, k + 1, j) \in Seq(Pay)
          /\ SubSeq(all, j + 1, Len(all)) \in Seq(Pay)
          /\ all = Cat(SubSeq(all, 1, k), Cat(SubSeq(all, k + 1, j), SubSeq(all, j + 1, Len(all))))
      <4>1. all \in Seq(Pay)
        BY <1>2
      <4>. QED BY <1>3, <4>1, CutInThree
    <3>. QED BY <3>1
  <2>2. r.read = a /\ r.left = [x EXCEPT !.buf = b, !.stream.tcp_out = o]
    BY <1>3, <2>1
  <2>3. Cat(x.buf, x.stream.tcp_out) = Cat(a, Cat(b, o))
    BY <1>2, <2>1
  <2>4. a \in Seq(Pay) /\ b \in Seq(Pay) /\ o \in Seq(Pay)
    BY <2>1
  <2>5. PICK y : y = r.left
    OBVIOUS
  <2>6. y = [x EXCEPT !.buf = b, !.stream.tcp_out = o]
    BY <2>2, <2>5
  <2>7. Turn(e, x, g, y, g \o a)
    BY <1>3, <2>3, <2>4, <2>6, TakeTurns
  <2>. QED BY <2>2, <2>5, <2>7
<1>4. g \o <<>> = g
  OBVIOUS
<1>5. CASE r = [read |-> <<>>, left |-> x]
  BY <1>4, <1>5, TurnSelf
<1>6. CASE r = [read |-> <<>>, left |-> OnLocalFin(x)]
  BY <1>4, <1>6, OnLocalFinTurns
<1>7. \/ r = [read |-> <<>>, left |-> x]
      \/ Open(x) /\ r = taken(Len(all), Len(all))
      \/ Open(x) /\ \E kj \in {kj \in (0..Len(all)) \X (Len(x.buf)..Len(all)) : kj[1] < kj[2]} :
                       r = taken(kj[1], kj[2])
      \/ r = [read |-> <<>>, left |-> OnLocalFin(x)]
  BY DEF Flush, all
<1>8. ASSUME Open(x),
             NEW kj \in {kj \in (0..Len(all)) \X (Len(x.buf)..Len(all)) : kj[1] < kj[2]},
             r = taken(kj[1], kj[2])
      PROVE  Turn(e, x, g, r.left, g \o r.read)
  <2>1. kj[1] \in Nat /\ kj[2] \in Nat /\ kj[1] <= kj[2] /\ kj[2] <= Len(all)
    <3>1. Len(x.buf) \in Nat
      BY <1>1
    <3>2. kj[1] \in 0..Len(all) /\ kj[2] \in Len(x.buf)..Len(all) /\ kj[1] < kj[2]
      OBVIOUS
    <3>. QED BY <1>2, <3>1, <3>2
  <2>. QED BY <1>3, <1>8, <2>1
<1>9. CASE Open(x) /\ r = taken(Len(all), Len(all))
  <2>1. Len(all) \in Nat /\ Len(all) <= Len(all)
    BY <1>2
  <2>. QED BY <1>3, <1>9, <2>1
<1>. QED BY <1>5, <1>6, <1>7, <1>8, <1>9

LEMMA ServeTurns ==
  ASSUME NEW e \in End, NEW x, SoundEnd(e, x), NEW g \in Seq(Pay), NEW r \in Serve(x)
  PROVE  Turn(e, x, g, r.left, g \o r.read)
<1>1. PICK y : y = SyncRxAccept(x)
  OBVIOUS
<1>2. SoundEnd(e, y) /\ r \in Flush(y)
  BY <1>1, SyncRxAcceptSound DEF Serve
<1>3. Turn(e, x, g, y, g)
  BY <1>1, SyncRxAcceptTurns
<1>4. Turn(e, y, g, r.left, g \o r.read)
  BY <1>2, FlushTurns DEF SoundEnd
<1>. QED BY <1>3, <1>4, TurnTwice

LEMMA MaybeConnectTurns ==
  ASSUME NEW e \in End, NEW x, SoundEnd(e, x), NEW z \in MaybeConnect(e, x), NEW g
  PROVE  Turn(e, x, g, z, g)
<1>1. CASE z = x
  BY <1>1, TurnSelf
<1>2. CASE z = [x EXCEPT !.sock = "connecting"] /\ WantsConnect(x.stream) /\ x.sock = "none"
  <2>1. x \in Endpoints
    BY DEF SoundEnd
  <2>2. /\ z.sock = "connecting" /\ z.stream = x.stream /\ z.rx_q = x.rx_q /\ z.buf = x.buf
        /\ ~Open(z) /\ ~Open(x)
    BY <1>2, <2>1 DEF Endpoints, Open
  <2>3. ReaderTurn(x, g, z, g)
    BY <2>2, SameReaderTurn DEF SameReader
  <2>4. Unsent(z) = Unsent(x) /\ z.stream.unacked = x.stream.unacked
    BY <2>2 DEF Unsent
  <2>5. WriterTurn(x, z)
    BY <2>4, LessToSend
  <2>6. LineEnd(e, x) => LineEnd(e, z)
    BY <1>2, <2>2 DEF LineEnd, WantsConnect
  <2>. QED BY <2>3, <2>5, <2>6 DEF Turn
<1>. QED BY <1>1, <1>2 DEF MaybeConnect

LEMMA OnEndpointTickTurns ==
  ASSUME NEW e \in End, NEW x, SoundEnd(e, x), NEW due, NEW reconnect, NEW g \in Seq(Pay),
         NEW r \in OnEndpointTick(e, x, due, reconnect)
  PROVE  Turn(e, x, g, r.left, g \o r.read)
<1>1. PICK t : t = OnTick(x.stream, due, reconnect)
  OBVIOUS
<1>2. Good(t) /\ t.local = x.stream.local
  BY <1>1, OnTickGood DEF SoundEnd, SameFace
<1>3. PICK y : y = [x EXCEPT !.stream = t]
  OBVIOUS
<1>4. SoundEnd(e, y)
  BY <1>2, <1>3, StreamMoves
<1>5. PICK z \in MaybeConnect(e, y) : r \in Serve(z)
  <2>1. y = [x EXCEPT !.stream = OnTick(@, due, reconnect)]
    BY <1>1, <1>3
  <2>. QED BY <2>1 DEF OnEndpointTick
<1>6. SoundEnd(e, z)
  BY <1>4, <1>5, MaybeConnectSound
<1>7. Turn(e, x, g, y, g)
  <2>1. y = [x EXCEPT !.stream = OnTick(x.stream, due, reconnect)]
    BY <1>1, <1>3
  <2>. QED BY <2>1, OnTickTurns DEF SoundEnd
<1>8. Turn(e, y, g, z, g)
  BY <1>4, <1>5, MaybeConnectTurns
<1>9. Turn(e, z, g, r.left, g \o r.read)
  BY <1>5, <1>6, ServeTurns
<1>. QED BY <1>7, <1>8, <1>9, TurnTwice

LEMMA GiveUpTurns ==
  ASSUME NEW e \in End, NEW x, SoundEnd(e, x), NEW due, NEW y \in GiveUp(x, due),
         NEW g \in Seq(Pay)
  PROVE  Turn(e, x, g, y, g)
<1>1. PICK t : t = Expire(x.stream, due)
  OBVIOUS
<1>2. /\ Good(t) /\ t.local = x.stream.local /\ t \in Stream(Pay)
      /\ SameSender(x.stream, t) /\ SameReader(x.stream, t)
  BY <1>1, ExpireGood, ExpireSender DEF SoundEnd, SameFace, Good
<1>3. PICK late : late = [x EXCEPT !.stream = t]
  OBVIOUS
<1>4. SoundEnd(e, late)
  BY <1>2, <1>3, StreamMoves
<1>5. late \in Endpoints /\ Good(late.stream)
  BY <1>4 DEF SoundEnd
<1>6. y = OnLocalFin(late) \/ y = OnLocalAbort(late)
  <2>1. late = [x EXCEPT !.stream = Expire(@, due)]
    BY <1>1, <1>3
  <2>. QED BY <2>1 DEF GiveUp
<1>7. Turn(e, x, g, late, g)
  BY <1>2, <1>3, StreamTurns DEF SoundEnd
<1>8. Turn(e, late, g, y, g)
  BY <1>5, <1>6, OnLocalFinTurns, OnLocalAbortTurns
<1>. QED BY <1>7, <1>8, TurnTwice

(* A stream that is reset, for an application that is connected or not. *)
Begun(s) ==
  /\ s \in Stream(Pay) /\ ~s.peer_connect /\ ~s.peer_close /\ s.tcp_out = <<>>
  /\ s.reorder = EmptyMap /\ s.unacked = <<>> /\ s.tcp_in = <<>> /\ ~HasLeft(s)

LEMMA FreshBegun == Begun(Fresh) /\ Begun(LocalUp(Fresh))
<1>1. Fresh \in Stream(Pay) /\ LocalUp(Fresh) \in Stream(Pay)
  BY FreshGood, LocalUpGood DEF Good
<1>2. Begun(Fresh)
  BY <1>1 DEF Begun, Fresh, HasLeft
<1>3. Begun(LocalUp(Fresh))
  <2>1. PICK t : t = LocalUp(Fresh)
    OBVIOUS
  <2>2. /\ t.ctrlq = <<"CONNECT">> /\ ~t.peer_connect /\ ~t.peer_close /\ t.tcp_out = <<>>
        /\ t.reorder = EmptyMap /\ t.unacked = <<>> /\ t.tcp_in = <<>>
    BY <2>1 DEF LocalUp, Fresh
  <2>3. ~HasLeft(t)
    BY <2>2 DEF HasLeft, Leaving
  <2>. QED BY <1>1, <2>1, <2>2, <2>3 DEF Begun
<1>. QED BY <1>2, <1>3

LEMMA BegunStream == ASSUME NEW e, NEW s, Begun(s) PROVE StreamOK(e, s)
<1>1. Chain(s)
  BY DEF Begun, Chain
<1>. QED BY <1>1 DEF Begun, StreamOK

(* Nothing is left of what the endpoint had. *)
LEMMA StartsAnew ==
  ASSUME NEW e, NEW x, NEW g, NEW y, Begun(y.stream), y.buf = <<>>, y.rx_q = <<>>,
         e = CLIENT => y.sock = "none",
         NEW h, h = <<>> \/ (h = g /\ ~Open(y))
  PROVE  ReaderTurn(x, g, y, h) /\ WriterTurn(x, y) /\ LineEnd(e, y)
<1>1. Consumed(y, h) = <<>>
  BY DEF Consumed, Begun
<1>2. Elements(Consumed(y, h)) = {} /\ Distinct(Consumed(y, h)) /\ Distinct(<<>>)
  BY <1>1 DEF Elements, Distinct
<1>3. Accepted(y, h) = {}
  BY <1>2, Empty DEF Accepted, Held, Begun
<1>4. ReaderTurn(x, g, y, h)
  BY <1>2, <1>3 DEF ReaderTurn, Reads, ReaderOK, Begun
<1>5. Unsent(y) = <<>>
  BY DEF Unsent, Begun
<1>6. Elements(Unsent(y)) = {} /\ Distinct(Unsent(y)) /\ DOMAIN y.stream.unacked = {}
  BY <1>5 DEF Elements, Distinct, Begun
<1>7. WriterTurn(x, y)
  BY <1>6, LessToSend
<1>8. LineEnd(e, y)
  BY BegunStream DEF LineEnd, Begun
<1>. QED BY <1>4, <1>7, <1>8

LEMMA OnListenTurns ==
  ASSUME NEW x, SoundEnd(SERVER, x), NEW g
  PROVE  /\ ReaderTurn(x, g, OnListen(x), <<>>) /\ WriterTurn(x, OnListen(x))
         /\ LineEnd(SERVER, OnListen(x))
<1>1. PICK c, t : c = CloseClient(x) /\ t = LocalUp(Fresh)
  OBVIOUS
<1>2. c \in Endpoints /\ c.rx_q = <<>> /\ c.buf = <<>>
  BY <1>1, CloseClientFields DEF SoundEnd, CloseClient, Endpoints
<1>3. Begun(t)
  BY <1>1, FreshBegun
<1>4. PICK y : y = [c EXCEPT !.sock = "open", !.stream = t]
  OBVIOUS
<1>5. y.stream = t /\ y.rx_q = <<>> /\ y.buf = <<>>
  BY <1>2, <1>4 DEF Endpoints
<1>6. OnListen(x) = y
  BY <1>1, <1>4 DEF OnListen
<1>. QED BY <1>3, <1>5, <1>6, StartsAnew, EndAssumption

LEMMA NewEndpointTurns ==
  ASSUME NEW e \in End, NEW x, NEW g
  PROVE  ReaderTurn(x, g, NewEndpoint, g) /\ WriterTurn(x, NewEndpoint) /\ LineEnd(e, NewEndpoint)
<1>1. PICK y : y = NewEndpoint
  OBVIOUS
<1>2. Begun(y.stream) /\ y.buf = <<>> /\ y.rx_q = <<>> /\ y.sock = "none" /\ ~Open(y)
  BY <1>1, FreshBegun DEF NewEndpoint, Open
<1>. QED BY <1>1, <1>2, StartsAnew

(* The application that is connected now reads what the stream holds. *)
LEMMA OnConnectedTurns ==
  ASSUME NEW x, SoundEnd(CLIENT, x), x.sock = "connecting", LineEnd(CLIENT, x), NEW g
  PROVE  /\ ReaderTurn(x, g, OnConnected(x), <<>>) /\ WriterTurn(x, OnConnected(x))
         /\ LineEnd(CLIENT, OnConnected(x))
<1>1. PICK s : s = x.stream
  OBVIOUS
<1>2. /\ x \in Endpoints /\ s \in Stream(Pay) /\ ~Open(x) /\ ~s.local /\ s.peer_connect
      /\ x.buf = <<>> /\ ~s.peer_close /\ Chain(s) /\ ~HasLeft(s)
  <2>1. x \in Endpoints /\ s \in Stream(Pay) /\ ~Open(x) /\ ~s.local
    BY <1>1 DEF SoundEnd, Good, Open
  <2>. QED BY <1>1, <2>1 DEF LineEnd, StreamOK
<1>3. PICK t : t = LocalUp(s)
  OBVIOUS
<1>4. PICK q : q = Append(s.ctrlq, "CONNECT")
  OBVIOUS
<1>5. t = [s EXCEPT !.local = TRUE, !.ctrlq = q]
  BY <1>2, <1>3, <1>4 DEF LocalUp
<1>6. /\ t.local /\ t.ctrlq = q /\ t.unacked = s.unacked /\ t.tcp_in = s.tcp_in
      /\ t.tx_seq = s.tx_seq /\ t.peer_close = s.peer_close /\ t.peer_connect = s.peer_connect
      /\ SameReader(s, t)
  BY <1>2, <1>5 DEF Stream, SameReader
<1>7. ~HasLeft(t)
  <2>1. ASSUME HasLeft(t) PROVE FALSE
    <3>1. PICK i \in DOMAIN q : Leaving(q[i])
      BY <1>6, <2>1 DEF HasLeft
    <3>2. s.ctrlq \in Seq(CtrlType)
      BY <1>2, Fields
    <3>3. i \in DOMAIN s.ctrlq /\ q[i] = s.ctrlq[i]
      BY <1>4, <3>1, <3>2 DEF Leaving
    <3>. QED BY <1>2, <3>1, <3>3 DEF HasLeft
  <2>. QED BY <2>1
<1>8. PICK y : y = [x EXCEPT !.sock = "open", !.stream = t]
  OBVIOUS
<1>9. y.stream = t /\ y.sock = "open" /\ y.rx_q = x.rx_q /\ y.buf = <<>> /\ Open(y)
  BY <1>2, <1>8 DEF Endpoints, Open
<1>10. OnConnected(x) = y
  BY <1>1, <1>2, <1>3, <1>8 DEF OnConnected, Endpoints
<1>11. ReaderTurn(x, g, y, <<>>)
  <2>1. Consumed(y, <<>>) = Consumed(x, g)
    BY <1>1, <1>2, <1>6, <1>9 DEF Consumed, SameReader
  <2>2. Accepted(y, <<>>) = Accepted(x, g)
    BY <1>1, <1>6, <1>9, <2>1 DEF Accepted, Held, SameReader
  <2>3. Reads(x, g, y, <<>>)
    BY <1>1, <1>2, <1>6, <1>9, <2>1, <2>2 DEF Reads, SameReader
  <2>4. Distinct(<<>>)
    BY DEF Distinct
  <2>. QED BY <2>1, <2>3, <2>4 DEF ReaderTurn, ReaderOK
<1>12. Unsent(y) = Unsent(x) /\ y.stream.unacked = x.stream.unacked
  BY <1>1, <1>6, <1>9 DEF Unsent
<1>13. WriterTurn(x, y)
  BY <1>12, LessToSend
<1>14. StreamOK(CLIENT, t)
  BY <1>2, <1>6, <1>7 DEF StreamOK, Chain
<1>15. LineEnd(CLIENT, y)
  BY <1>2, <1>6, <1>9, <1>14 DEF LineEnd
<1>. QED BY <1>10, <1>11, <1>13, <1>15

(* The peer has left: the server keeps its application, and what of the old *)
(* session the application has not read.                                    *)
LEMMA OnPeerEndTurns ==
  ASSUME NEW e \in End, NEW x, SoundEnd(e, x), ~x.stream.peer_connect, NEW g \in Seq(Pay)
  PROVE  /\ ReaderTurn(x, g, OnPeerEnd(e, x), g) /\ WriterTurn(x, OnPeerEnd(e, x))
         /\ LineEnd(e, OnPeerEnd(e, x))
<1>1. CASE e = SERVER /\ x.sock # "none"
  <2>1. Open(x) /\ x.stream.local /\ x \in Endpoints
    BY <1>1, EndFields DEF SoundEnd, Open
  <2>2. PICK t : t = LocalUp(Fresh)
    OBVIOUS
  <2>3. Begun(t) /\ Good(t) /\ t.local
    BY <2>2, FreshBegun, FreshGood, LocalUpGood
  <2>4. PICK y : y = [x EXCEPT !.stream = t]
    OBVIOUS
  <2>5. SoundEnd(e, y)
    BY <2>1, <2>3, <2>4, StreamMoves DEF Good, Stream
  <2>6. OnPeerEnd(e, x) = SyncRxAccept(y)
    BY <1>1, <2>2, <2>4 DEF OnPeerEnd
  <2>7. y.stream = t /\ y.buf = x.buf /\ y.rx_q = x.rx_q /\ Open(y)
    BY <2>1, <2>4 DEF Endpoints, Open
  <2>8. PICK b, o \in Seq(Pay) : b = x.buf /\ o = x.stream.tcp_out
    BY <2>1, EndFields, Fields
  <2>9. Consumed(x, g) = Cat(g, Cat(b, o)) /\ Consumed(y, g) = Cat(g, b)
    <3>1. b \o <<>> = b
      BY <2>8
    <3>. QED BY <2>1, <2>3, <2>7, <2>8, <3>1 DEF Consumed, Cat, Begun
  <2>10. /\ Elements(Consumed(y, g)) \subseteq Elements(Consumed(x, g))
         /\ Distinct(Consumed(x, g)) => Distinct(Consumed(y, g))
    <3>1. PICK bo \in Seq(Pay) : bo = Cat(b, o)
      BY <2>8, CatType
    <3>2. g \in Seq(Pay) /\ b \in Seq(Pay) /\ o \in Seq(Pay) /\ bo \in Seq(Pay)
      BY <2>8, <3>1
    <3>3. /\ Elements(Cat(b, o)) = Elements(b) \cup Elements(o)
          /\ Distinct(Cat(b, o)) => Distinct(b)
      BY ONLY <3>2, Join DEF Cat
    <3>4. /\ Elements(Cat(g, bo)) = Elements(g) \cup Elements(bo)
          /\ Distinct(Cat(g, bo)) => Distinct(g) /\ Distinct(bo) /\ Elements(g) \cap Elements(bo) = {}
      BY ONLY <3>2, Join DEF Cat
    <3>5. /\ Elements(Cat(g, b)) = Elements(g) \cup Elements(b)
          /\ Distinct(g) /\ Distinct(b) /\ Elements(g) \cap Elements(b) = {} => Distinct(Cat(g, b))
      BY ONLY <3>2, Join DEF Cat
    <3>. QED BY <2>9, <3>1, <3>3, <3>4, <3>5
  <2>11. Accepted(y, g) \subseteq Accepted(x, g)
    BY <2>3, <2>7, <2>10, Empty DEF Accepted, Held, Begun
  <2>12. ReaderTurn(x, g, y, g)
    BY <2>1, <2>3, <2>7, <2>10, <2>11 DEF ReaderTurn, Reads, ReaderOK, Begun
  <2>13. WriterTurn(x, y)
    <3>1. PICK i, q \in Seq(Pay) : i = x.stream.tcp_in /\ q = x.rx_q
      BY <2>1, EndFields, Fields
    <3>0. <<>> \o q = q
      BY <3>1
    <3>2. Unsent(x) = Cat(i, q) /\ Unsent(y) = q
      BY <2>3, <2>7, <3>0, <3>1 DEF Unsent, Cat, Begun
    <3>3. i \in Seq(Pay) /\ q \in Seq(Pay)
      BY <3>1
    <3>4. Elements(Cat(i, q)) = Elements(i) \cup Elements(q) /\ (Distinct(Cat(i, q)) => Distinct(q))
      BY ONLY <3>3, Join DEF Cat
    <3>5. DOMAIN y.stream.unacked = {}
      BY <2>3, <2>7 DEF Begun
    <3>. QED BY <3>2, <3>4, <3>5, LessToSend
  <2>14. LineEnd(e, y)
    BY <1>1, <2>3, <2>7, BegunStream, EndAssumption DEF LineEnd, Begun
  <2>15. Turn(e, y, g, SyncRxAccept(y), g)
    BY <2>5, SyncRxAcceptTurns
  <2>. QED BY <2>6, <2>12, <2>13, <2>14, <2>15, ReaderTurnTwice, WriterTurnTwice DEF Turn
<1>2. CASE ~(e = SERVER /\ x.sock # "none")
  <2>1. PICK c : c = CloseClient(x)
    OBVIOUS
  <2>2. c \in Endpoints /\ c.sock = "none" /\ c.rx_q = <<>> /\ c.buf = <<>>
    BY <2>1, CloseClientFields DEF SoundEnd, CloseClient, Endpoints
  <2>3. PICK y : y = [c EXCEPT !.stream = Fresh]
    OBVIOUS
  <2>4. y.stream = Fresh /\ y.sock = "none" /\ y.rx_q = <<>> /\ y.buf = <<>> /\ ~Open(y)
    BY <2>2, <2>3 DEF Endpoints, Open
  <2>5. OnPeerEnd(e, x) = y
    BY <1>2, <2>1, <2>3 DEF OnPeerEnd
  <2>. QED BY <2>4, <2>5, FreshBegun, StartsAnew
<1>. QED BY <1>1, <1>2

LEMMA OnIncomingConnectTurns ==
  ASSUME NEW e \in End, NEW x, SoundEnd(e, x), LineEnd(e, x), NEW f, NEW g,
         NEW i, i = OnIncomingConnect(e, x, f)
  PROVE  /\ Turn(e, x, g, i, g) /\ SoundEnd(e, i)
         /\ e = CLIENT /\ f.type = "CONNECT" => ~HasLeft(i.stream)
<1>1. CASE /\ i = [x EXCEPT !.stream = Fresh] /\ x.sock = "none" /\ e = CLIENT
  <2>1. x \in Endpoints /\ ~Open(x) /\ x.rx_q = <<>> /\ x.buf = <<>>
    BY <1>1 DEF SoundEnd, Open, LineEnd
  <2>2. i.stream = Fresh /\ i.sock = "none" /\ i.rx_q = <<>> /\ i.buf = <<>> /\ ~Open(i)
    BY <1>1, <2>1 DEF Endpoints, Open
  <2>3. Begun(i.stream)
    BY <2>2, FreshBegun
  <2>4. ReaderTurn(x, g, i, g) /\ WriterTurn(x, i) /\ LineEnd(e, i)
    BY <2>2, <2>3, StartsAnew
  <2>5. SoundEnd(e, i)
    <3>1. Good(Fresh) /\ ~Fresh.local /\ Fresh \in Stream(Pay)
      BY FreshGood DEF Good
    <3>2. ~x.stream.local /\ x.stream \in Stream(Pay)
      BY <1>1 DEF SoundEnd, Open, Good
    <3>3. Fresh.local = x.stream.local
      BY <3>1, <3>2 DEF Stream
    <3>. QED BY <1>1, <3>1, <3>3, StreamMoves
  <2>. QED BY <2>3, <2>4, <2>5 DEF Turn, Begun
<1>2. CASE i = x /\ (e = CLIENT /\ f.type = "CONNECT" => PeerConnected(x.stream) \/ x.sock # "none")
  <2>1. e = CLIENT /\ f.type = "CONNECT" => x.stream.peer_connect
    BY <1>2 DEF LineEnd, PeerConnected
  <2>2. e = CLIENT /\ f.type = "CONNECT" => ~HasLeft(x.stream)
    BY <2>1 DEF LineEnd, StreamOK
  <2>. QED BY <1>2, <2>2, TurnSelf
<1>. QED BY <1>1, <1>2 DEF OnIncomingConnect

(* What a frame does to the receiving side of a stream leaves the sending *)
(* side as it was, but for marks.                                         *)
SendsSame(s, t) ==
  /\ t.tx_seq = s.tx_seq /\ t.local = s.local /\ t.tcp_in = s.tcp_in /\ t.ctrlq = s.ctrlq
  /\ Len(t.unacked) = Len(s.unacked) /\ DOMAIN t.unacked = DOMAIN s.unacked
  /\ \A i \in DOMAIN s.unacked :
        t.unacked[i].seq = s.unacked[i].seq /\ t.unacked[i].pay = s.unacked[i].pay

LEMMA DeliverDataSends ==
  ASSUME NEW s \in Stream(Pay), NEW seq, NEW pay, NEW t, t = DeliverData(s, seq, pay)
  PROVE  SendsSame(s, t) /\ t.peer_connect = s.peer_connect /\ t.peer_close = s.peer_close
<1>1. CASE t = s
  BY <1>1 DEF SendsSame
<1>2. CASE t = [s EXCEPT !.ack_pending = TRUE]
  BY <1>2 DEF SendsSame, Stream
<1>3. CASE t = DeliverRun(s, pay)
  <2>1. /\ t.tx_seq = s.tx_seq /\ t.local = s.local /\ t.tcp_in = s.tcp_in /\ t.ctrlq = s.ctrlq
        /\ t.unacked = s.unacked /\ t.peer_connect = s.peer_connect /\ t.peer_close = s.peer_close
    BY <1>3 DEF DeliverRun, Stream
  <2>. QED BY <2>1 DEF SendsSame
<1>4. CASE t = Buffer(s, seq, pay)
  <2>1. PICK m : t = [s EXCEPT !.reorder = m, !.ack_pending = TRUE]
    BY <1>4 DEF Buffer
  <2>. QED BY <2>1 DEF SendsSame, Stream
<1>5. t \in {s, [s EXCEPT !.ack_pending = TRUE], DeliverRun(s, pay), Buffer(s, seq, pay)}
  BY DEF DeliverData
<1>. QED BY <1>1, <1>2, <1>3, <1>4, <1>5

LEMMA HeardSends ==
  ASSUME NEW s, Good(s), NEW f \in Frames, NEW t, t = Heard(s, f)
  PROVE  /\ Good(t) /\ SendsSame(s, t)
         /\ t.peer_connect /\ ~s.peer_connect => f.type = "CONNECT"
         /\ s.peer_connect /\ ~t.peer_connect => t.peer_close
         /\ t.peer_close /\ ~s.peer_close => ~t.peer_connect
<1>1. /\ s \in Stream(Pay) /\ f.seq \in SeqNum /\ (f.type = "DATA" => f.pay \in Pay)
      /\ f.type \in CtrlType \cup {"DATA", "ACK"}
      /\ s.peer_connect \in BOOLEAN /\ s.peer_close \in BOOLEAN
  BY Fields DEF Good, Frames, Frame
<1>2. CASE f.type = "ACK"
  <2>1. t = ApplySack(s, f.sack)
    BY <1>2 DEF Heard
  <2>2. SameSender(s, t) /\ SameFace(s, t) /\ Good(t)
    BY <1>1, <2>1, ApplySackSender, ApplySackGood
  <2>3. t.ctrlq = s.ctrlq
    BY <1>1, <2>1 DEF ApplySack, Stream
  <2>. QED BY <2>2, <2>3 DEF SendsSame, SameSender, SameFace
<1>3. CASE f.type = "DATA"
  <2>1. t = DeliverData(s, f.seq, f.pay)
    BY <1>3 DEF Heard
  <2>2. Good(t)
    BY <1>1, <1>3, <2>1, DeliverDataGood
  <2>. QED BY <1>1, <2>1, <2>2, DeliverDataSends
<1>4. CASE f.type = "CONNECT"
  <2>1. t = OnConnect(s)
    BY <1>4 DEF Heard
  <2>2. Good(t)
    BY <2>1, OnConnectGood
  <2>3. PICK v : /\ v = IF s.peer_connect THEN s
                        ELSE [s EXCEPT !.rx_seq = 0, !.tcp_out = <<>>, !.reorder = EmptyMap]
                 /\ t = [v EXCEPT !.peer_connect = TRUE, !.peer_close = FALSE, !.ack_pending = TRUE]
    BY <2>1 DEF OnConnect
  <2>4. v \in Stream(Pay) /\ SendsSame(s, v)
    <3>1. CASE v = s
      BY <1>1, <3>1 DEF SendsSame
    <3>2. CASE v = [s EXCEPT !.rx_seq = 0, !.tcp_out = <<>>, !.reorder = EmptyMap]
      <4>1. v \in Stream(Pay)
        <5>1. PICK m \in [SeqNum -> Pay \cup {NONE}], k \in SeqNum, o \in Seq(Pay) :
                m = EmptyMap /\ k = 0 /\ o = <<>>
          BY Empty
        <5>2. v = [s EXCEPT !.rx_seq = k, !.tcp_out = o, !.reorder = m]
          BY <3>2, <5>1
        <5>. QED BY <1>1, <5>2 DEF Stream
      <4>2. /\ v.tx_seq = s.tx_seq /\ v.local = s.local /\ v.tcp_in = s.tcp_in
            /\ v.ctrlq = s.ctrlq /\ v.unacked = s.unacked
        BY <1>1, <3>2 DEF Stream
      <4>. QED BY <4>1, <4>2 DEF SendsSame
    <3>. QED BY <2>3, <3>1, <3>2
  <2>5. SendsSame(v, t) /\ t.peer_connect /\ ~t.peer_close
    BY <2>3, <2>4 DEF SendsSame, Stream
  <2>6. SendsSame(s, t)
    BY <2>4, <2>5 DEF SendsSame
  <2>. QED BY <1>4, <2>2, <2>5, <2>6
<1>5. CASE f.type \in {"CLOSE", "ABORT"}
  <2>1. t = OnClose(s)
    BY <1>5 DEF Heard
  <2>2. Good(t)
    BY <2>1, OnCloseGood
  <2>3. CASE t = [s EXCEPT !.peer_close = TRUE, !.peer_connect = FALSE]
    <3>1. SendsSame(s, t) /\ ~t.peer_connect /\ t.peer_close
      BY <1>1, <2>3 DEF SendsSame, Stream
    <3>. QED BY <2>2, <3>1
  <2>4. CASE t = [s EXCEPT !.ack_pending = TRUE]
    <3>1. SendsSame(s, t) /\ t.peer_connect = s.peer_connect /\ t.peer_close = s.peer_close
      BY <1>1, <2>4 DEF SendsSame, Stream
    <3>. QED BY <1>1, <2>2, <3>1
  <2>. QED BY <2>1, <2>3, <2>4 DEF OnClose
<1>. QED BY <1>1, <1>2, <1>3, <1>4, <1>5 DEF CtrlType

LEMMA HeardTurns ==
  ASSUME NEW e \in End, NEW x, SoundEnd(e, x), LineEnd(e, x), NEW f \in Frames,
         e = CLIENT /\ f.type = "CONNECT" => ~HasLeft(x.stream),
         NEW y, y = [x EXCEPT !.stream = Heard(x.stream, f)]
  PROVE  /\ SoundEnd(e, y) /\ WriterTurn(x, y)
         /\ y.stream.peer_close => ~y.stream.peer_connect
         /\ ~y.stream.peer_close => LineEnd(e, y)
<1>1. PICK s, t : s = x.stream /\ t = Heard(s, f)
  OBVIOUS
<1>2. Good(s) /\ x \in Endpoints
  BY <1>1 DEF SoundEnd
<1>3. /\ Good(t) /\ SendsSame(s, t)
      /\ t.peer_connect /\ ~s.peer_connect => f.type = "CONNECT"
      /\ s.peer_connect /\ ~t.peer_connect => t.peer_close
      /\ t.peer_close /\ ~s.peer_close => ~t.peer_connect
  BY <1>1, <1>2, HeardSends
<1>4. y = [x EXCEPT !.stream = t] /\ t \in Stream(Pay)
  BY <1>1, <1>3 DEF Good
<1>5. /\ y.stream = t /\ y.sock = x.sock /\ y.rx_q = x.rx_q /\ y.buf = x.buf
      /\ (Open(y) <=> Open(x))
  BY <1>2, <1>4 DEF Endpoints, Open
<1>6. SoundEnd(e, y)
  BY <1>1, <1>3, <1>4, StreamMoves DEF SendsSame
<1>7. WriterTurn(x, y)
  <2>1. Unsent(y) = Unsent(x)
    BY <1>1, <1>3, <1>5 DEF Unsent, SendsSame
  <2>2. ASSUME NEW j \in DOMAIN y.stream.unacked
        PROVE  \E k \in DOMAIN x.stream.unacked :
                  /\ y.stream.unacked[j].seq = x.stream.unacked[k].seq
                  /\ y.stream.unacked[j].pay = x.stream.unacked[k].pay
    BY <1>1, <1>3, <1>5 DEF SendsSame
  <2>. QED BY <2>1, <2>2, LessToSend
<1>8. ASSUME ~t.peer_close PROVE LineEnd(e, y)
  <2>1. /\ Chain(s) /\ (~s.local => s.unacked = <<>> /\ s.tcp_in = <<>>)
        /\ (HasLeft(s) => ~s.local) /\ (e = CLIENT /\ HasLeft(s) => ~s.peer_connect)
        /\ e = CLIENT /\ x.sock # "none" => s.peer_connect
        /\ ~Open(x) => x.buf = <<>>
    BY <1>1 DEF LineEnd, StreamOK
  <2>2. Chain(t)
    BY <1>3, <2>1 DEF Chain, SendsSame
  <2>3. HasLeft(t) <=> HasLeft(s)
    BY <1>3 DEF HasLeft, SendsSame
  <2>4. ASSUME ~t.local PROVE t.unacked = <<>> /\ t.tcp_in = <<>>
    <3>1. s.unacked = <<>> /\ s.tcp_in = <<>>
      BY <1>3, <2>1, <2>4 DEF SendsSame
    <3>2. t.unacked \in Seq(Segment(Pay)) /\ Len(t.unacked) = 0 /\ t.tcp_in = <<>>
      BY <1>3, <1>4, <3>1, Fields DEF SendsSame
    <3>. QED BY <3>2
  <2>5. StreamOK(e, t)
    BY <1>1, <1>3, <2>1, <2>2, <2>3, <2>4 DEF StreamOK, SendsSame
  <2>. QED BY <1>3, <1>5, <1>8, <2>1, <2>5 DEF LineEnd
<1>9. t.peer_close => ~t.peer_connect
  BY <1>1, <1>3 DEF LineEnd
<1>. QED BY <1>5, <1>6, <1>7, <1>8, <1>9

LEMMA DirectionTurns ==
  ASSUME NEW line, NEW u, NEW N, NEW x, NEW g, NEW known, Direction(line, u, N, x, g, known),
         NEW y, NEW h, ReaderTurn(x, g, y, h)
  PROVE  Direction(line, u, N, y, h, known)
<1>1. ReaderOK(y, h) /\ Reads(x, g, y, h)
  BY WriterIs DEF ReaderTurn
<1>. QED BY <1>1, ReaderTurns

(* on_radio_rx() *)
LEMMA OnRadioFrameTurns ==
  ASSUME NEW e \in End, NEW x, SoundEnd(e, x), LineEnd(e, x), NEW g \in Seq(Pay),
         NEW line \in Seq(Frames), line # <<>>, NEW u \in Seq(Segment(Pay)), NEW N, NEW known,
         Direction(line, u, N, x, g, known),
         NEW r \in OnRadioFrame(e, x, Head(line))
  PROVE  /\ Direction(line, u, N, r.left, g \o r.read, known)
         /\ WriterTurn(x, r.left) /\ LineEnd(e, r.left)
<1>1. PICK f \in Frames : f = Head(line)
  OBVIOUS
<1>2. PICK i : i = OnIncomingConnect(e, x, f)
  OBVIOUS
<1>3. /\ Turn(e, x, g, i, g) /\ SoundEnd(e, i)
      /\ e = CLIENT /\ f.type = "CONNECT" => ~HasLeft(i.stream)
  BY <1>2, OnIncomingConnectTurns
<1>4. i \in Endpoints /\ Good(i.stream) /\ i.stream \in Stream(Pay) /\ f.ack \in SeqNum
  BY <1>1, <1>3 DEF SoundEnd, Good, Frames, Frame
<1>5. PICK s : s = ApplyAck(i.stream, f.ack)
  OBVIOUS
<1>6. Good(s) /\ s.local = i.stream.local /\ s.ctrlq = i.stream.ctrlq
  <2>1. s.ctrlq = i.stream.ctrlq
    BY <1>4, <1>5 DEF ApplyAck, Stream
  <2>. QED BY <1>4, <1>5, <2>1, ApplyAckGood DEF SameFace
<1>7. PICK a : a = [i EXCEPT !.stream = s]
  OBVIOUS
<1>8. Turn(e, i, g, a, g) /\ SoundEnd(e, a) /\ a.stream = s /\ a \in Endpoints
  <2>1. SoundEnd(e, a) /\ a.stream = s
    BY <1>3, <1>6, <1>7, StreamMoves
  <2>2. a = [i EXCEPT !.stream = ApplyAck(i.stream, f.ack)]
    BY <1>5, <1>7
  <2>. QED BY <1>4, <2>1, <2>2, ApplyAckTurns DEF SoundEnd
<1>9. LineEnd(e, a) /\ Direction(line, u, N, a, g, known)
  <2>1. Turn(e, x, g, a, g)
    BY <1>3, <1>8, TurnTwice
  <2>2. ReaderTurn(x, g, a, g)
    BY <2>1 DEF Turn
  <2>. QED BY <2>1, <2>2, DirectionTurns DEF Turn
<1>10. e = CLIENT /\ f.type = "CONNECT" => ~HasLeft(a.stream)
  BY <1>3, <1>6, <1>8 DEF HasLeft
<1>11. PICK t : t = Heard(s, f)
  OBVIOUS
<1>12. PICK b : b = [a EXCEPT !.stream = t]
  OBVIOUS
<1>13. b = [a EXCEPT !.stream = Heard(a.stream, f)]
  BY <1>8, <1>11, <1>12
<1>14. /\ SoundEnd(e, b) /\ WriterTurn(a, b)
       /\ b.stream.peer_close => ~b.stream.peer_connect
       /\ ~b.stream.peer_close => LineEnd(e, b)
  BY <1>8, <1>9, <1>10, <1>13, HeardTurns
<1>15. Direction(line, u, N, b, g, known)
  <2>1. ~Open(a) => a.buf = <<>>
    BY <1>9 DEF LineEnd
  <2>2. b = [a EXCEPT !.stream = Heard(a.stream, Head(line))]
    BY <1>1, <1>13
  <2>. QED BY <1>8, <1>9, <2>1, <2>2, Hear
<1>16. b \in Endpoints /\ Good(b.stream) /\ b.stream = t
  BY <1>8, <1>12, <1>14 DEF SoundEnd, Endpoints
<1>17. PICK q : q = QueueData(t)
  OBVIOUS
<1>18. Good(q) /\ SameFace(t, q)
  BY <1>16, <1>17, QueueDataGood
<1>19. PICK c : c = [b EXCEPT !.stream = q]
  OBVIOUS
<1>20. Turn(e, b, g, c, g) /\ SoundEnd(e, c) /\ c.stream = q
  <2>1. SoundEnd(e, c) /\ c.stream = q
    BY <1>14, <1>16, <1>18, <1>19, StreamMoves DEF SameFace
  <2>2. c = [b EXCEPT !.stream = QueueData(b.stream)]
    BY <1>16, <1>17, <1>19
  <2>. QED BY <1>16, <2>1, <2>2, QueueDataTurns
<1>21. c = [i EXCEPT !.stream = OnRadioRx(@, f)]
  <2>1. OnRadioRx(i.stream, f) = q
    BY <1>5, <1>11, <1>17 DEF OnRadioRx, ParseRadio, Heard
  <2>2. c = [i EXCEPT !.stream = q]
    BY <1>4, <1>7, <1>12, <1>19 DEF Endpoints
  <2>. QED BY <2>1, <2>2
<1>22. PICK z \in MaybeConnect(e, c) :
         r \in (IF z.stream.peer_close THEN {[read |-> <<>>, left |-> OnPeerEnd(e, z)]}
                ELSE Serve(z))
  <2>1. c = [OnIncomingConnect(e, x, Head(line)) EXCEPT !.stream = OnRadioRx(@, Head(line))]
    BY <1>1, <1>2, <1>21
  <2>. QED BY <2>1 DEF OnRadioFrame
<1>23. SoundEnd(e, z) /\ Turn(e, c, g, z, g) /\ z.stream = c.stream
  <2>1. z.stream = c.stream
    BY <1>20, <1>22 DEF MaybeConnect, SoundEnd, Endpoints
  <2>. QED BY <1>20, <1>22, <2>1, MaybeConnectSound, MaybeConnectTurns
<1>24. Turn(e, b, g, z, g)
  BY <1>20, <1>23, TurnTwice
<1>25. /\ z.stream.peer_close = b.stream.peer_close
       /\ z.stream.peer_connect = b.stream.peer_connect
  BY <1>16, <1>18, <1>20, <1>23 DEF SameFace
<1>26. Direction(line, u, N, z, g, known) /\ WriterTurn(x, z)
  <2>1. ReaderTurn(b, g, z, g) /\ WriterTurn(b, z) /\ WriterTurn(x, i) /\ WriterTurn(i, a)
    BY <1>3, <1>8, <1>24 DEF Turn
  <2>2. WriterTurn(x, a)
    BY <2>1, WriterTurnTwice
  <2>3. WriterTurn(x, b)
    BY <1>14, <2>2, WriterTurnTwice
  <2>4. WriterTurn(x, z)
    BY <2>1, <2>3, WriterTurnTwice
  <2>. QED BY <1>15, <2>1, <2>4, DirectionTurns
<1>27. CASE z.stream.peer_close
  <2>1. r.read = <<>> /\ r.left = OnPeerEnd(e, z) /\ ~z.stream.peer_connect
    BY <1>14, <1>22, <1>25, <1>27
  <2>2. g \o r.read = g
    BY <2>1
  <2>3. ReaderTurn(z, g, r.left, g) /\ WriterTurn(z, r.left) /\ LineEnd(e, r.left)
    BY <1>23, <2>1, OnPeerEndTurns
  <2>. QED BY <1>26, <2>2, <2>3, DirectionTurns, WriterTurnTwice
<1>28. CASE ~z.stream.peer_close
  <2>1. r \in Serve(z)
    BY <1>22, <1>28
  <2>2. Turn(e, z, g, r.left, g \o r.read)
    BY <1>23, <2>1, ServeTurns
  <2>3. LineEnd(e, r.left)
    BY <1>14, <1>24, <1>25, <1>28, <2>2 DEF Turn
  <2>4. ReaderTurn(z, g, r.left, g \o r.read) /\ WriterTurn(z, r.left)
    BY <2>2 DEF Turn
  <2>. QED BY <1>26, <2>3, <2>4, DirectionTurns, WriterTurnTwice
<1>. QED BY <1>27, <1>28

-----------------------------------------------------------------------------
(***************************************************************************)
(* Every step keeps both lines.                                            *)
(***************************************************************************)

Line(e) ==
  Direction(air[e], ep[Peer(e)].stream.unacked, Unsent(ep[Peer(e)]),
            ep[e], got[e], Known(Peer(e)))

LEMMA Peers == \A e \in End : Peer(e) \in End /\ Peer(e) # e /\ Peer(Peer(e)) = e /\ End = {e, Peer(e)}
BY EndAssumption DEF Peer, End

LEMMA BothLines ==
  ASSUME OnceInv, NEW e \in End, ep'[Peer(e)] = ep[Peer(e)],
         LineEnd(e, ep'[e]), Line(e)', Line(Peer(e))'
  PROVE  OnceInv'
<1>1. LineEnd(Peer(e), ep'[Peer(e)])
  BY Peers DEF OnceInv
<1>2. \A d \in End : d = e \/ d = Peer(e)
  BY Peers
<1>3. \A d \in End : LineEnd(d, ep'[d]) /\ Line(d)'
  BY <1>1, <1>2
<1>. QED BY <1>3 DEF OnceInv, Line

(* One end acts, its peer does not. *)
LEMMA OneReads ==
  ASSUME OnceInv, NEW e \in End, ep'[Peer(e)] = ep[Peer(e)], air'[e] = air[e],
         Known(Peer(e)) \subseteq Known(Peer(e))', ReaderTurn(ep[e], got[e], ep'[e], got'[e])
  PROVE  Line(e)'
<1>1. PICK P, line, x, y, g, h, K, L :
        /\ P = ep[Peer(e)] /\ line = air[e] /\ x = ep[e] /\ y = ep'[e] /\ g = got[e] /\ h = got'[e]
        /\ K = Known(Peer(e)) /\ L = Known(Peer(e))'
  OBVIOUS
<1>2. Direction(line, P.stream.unacked, Unsent(P), x, g, K)
  BY <1>1 DEF OnceInv
<1>3. ReaderTurn(x, g, y, h) /\ K \subseteq L
  BY <1>1
<1>4. Direction(line, P.stream.unacked, Unsent(P), y, h, L)
  BY <1>2, <1>3, DirectionTurns, KnownGrows
<1>. QED BY <1>1, <1>4 DEF Line

LEMMA WriterLine ==
  ASSUME NEW e, NEW x \in Endpoints, NEW y \in Endpoints, Good(y.stream), LineEnd(e, y),
         WriterTurn(x, y), NEW line \in Seq(Frames), NEW z, NEW g, NEW K,
         Direction(line, x.stream.unacked, Unsent(x), z, g, K)
  PROVE  Direction(line, y.stream.unacked, Unsent(y), z, g, K)
<1>1. x.stream.unacked \in Seq(Segment(Pay)) /\ y.stream.unacked \in Seq(Segment(Pay))
  BY EndFields, Fields
<1>2. Apart(y.stream.unacked)
  BY ChainApart, EndFields DEF LineEnd, StreamOK, Good
<1>3. /\ Sends(x.stream.unacked, Unsent(x), y.stream.unacked, Unsent(y))
      /\ WriterOK(y.stream.unacked, Unsent(y))
  BY WriterIs DEF WriterTurn
<1>. QED BY <1>1, <1>2, <1>3, WriterTurns

LEMMA OneWrites ==
  ASSUME IInv, IInv', OnceInv, NEW e \in End, ep'[Peer(e)] = ep[Peer(e)],
         air'[Peer(e)] = air[Peer(e)], got'[Peer(e)] = got[Peer(e)],
         Known(e) \subseteq Known(e)', WriterTurn(ep[e], ep'[e]), LineEnd(e, ep'[e])
  PROVE  Line(Peer(e))'
<1>1. PICK z, line, x, y, g, K, L :
        /\ z = ep[Peer(e)] /\ line = air[Peer(e)] /\ x = ep[e] /\ y = ep'[e]
        /\ g = got[Peer(e)] /\ K = Known(e) /\ L = Known(e)'
  OBVIOUS
<1>2. Direction(line, x.stream.unacked, Unsent(x), z, g, K)
  BY <1>1, Peers DEF OnceInv
<1>3. SoundEnd(e, x) /\ SoundEnd(e, y) /\ line \in Seq(Frames)
  BY <1>1, Peers DEF IInv
<1>4. x \in Endpoints /\ y \in Endpoints /\ Good(y.stream) /\ WriterTurn(x, y) /\ LineEnd(e, y)
  BY <1>1, <1>3 DEF SoundEnd
<1>5. Direction(line, y.stream.unacked, Unsent(y), z, g, K)
  BY <1>2, <1>3, <1>4, WriterLine
<1>6. K \subseteq L
  BY <1>1
<1>7. Direction(line, y.stream.unacked, Unsent(y), z, g, L)
  BY <1>5, <1>6, KnownGrows
<1>8. Line(Peer(e))' = Direction(air'[Peer(e)], ep'[e].stream.unacked, Unsent(ep'[e]),
                                 ep'[Peer(e)], got'[Peer(e)], Known(e)')
  BY Peers DEF Line
<1>. QED BY <1>1, <1>7, <1>8

LEMMA OneTurns ==
  ASSUME IInv, IInv', OnceInv, NEW e \in End, air' = air,
         ep'[Peer(e)] = ep[Peer(e)], got'[Peer(e)] = got[Peer(e)],
         \A d \in End : Known(d) \subseteq Known(d)',
         ReaderTurn(ep[e], got[e], ep'[e], got'[e]), WriterTurn(ep[e], ep'[e]),
         LineEnd(e, ep'[e])
  PROVE  OnceInv'
<1>1. Line(e)'
  BY Peers, OneReads
<1>2. Line(Peer(e))'
  BY Peers, OneWrites
<1>. QED BY <1>1, <1>2, BothLines

LEMMA OneEnd ==
  ASSUME IInv, NEW e \in End, NEW y, ep' = [ep EXCEPT ![e] = y]
  PROVE  ep'[e] = y /\ ep'[Peer(e)] = ep[Peer(e)]
<1>1. ep' = [d \in End |-> IF d = e THEN y ELSE ep[d]]
  BY DEF IInv
<1>. QED BY <1>1, Peers

LEMMA OneGot ==
  ASSUME IInv, NEW e \in End, NEW h, got' = [got EXCEPT ![e] = h]
  PROVE  got'[e] = h /\ got'[Peer(e)] = got[Peer(e)]
BY Peers DEF IInv

LEMMA SameKnown == conn' = conn /\ sent' = sent => \A d \in End : Known(d) \subseteq Known(d)'
BY DEF Known

LEMMA NewKnown ==
  ASSUME IInv, NEW e \in End, NewApplication(e)
  PROVE  \A d \in End : Known(d) \subseteq Known(d)'
<1>1. ASSUME NEW d \in End, NEW p \in Known(d) PROVE p \in Known(d)'
  <2>1. conn \in [End -> Nat] /\ sent \in [End -> Nat]
    BY DEF IInv
  <2>2. /\ conn' = [conn EXCEPT ![e] = conn[e] + 1]
        /\ sent' = [sent EXCEPT ![e] = 0]
    BY DEF NewApplication
  <2>3. p \in Pay /\ (p.c < conn[d] \/ (p.c = conn[d] /\ p.k <= sent[d]))
    BY DEF Known
  <2>4. CASE d = e
    <3>1. conn'[d] = conn[d] + 1 /\ conn[d] \in Nat /\ p.c \in Nat
      BY <2>1, <2>2, <2>3, <2>4 DEF Pay
    <3>2. p.c < conn'[d]
      BY <2>3, <3>1
    <3>. QED BY <2>3, <3>2 DEF Known
  <2>5. CASE d # e
    <3>1. conn'[d] = conn[d] /\ sent'[d] = sent[d]
      BY <2>1, <2>2, <2>5
    <3>. QED BY <2>3, <3>1 DEF Known
  <2>. QED BY <2>4, <2>5
<1>. QED BY <1>1

(* What an end does within a session. *)
LEMMA TurnKeeps ==
  ASSUME IInv, IInv', OnceInv, NEW e \in End, air' = air, conn' = conn, sent' = sent,
         NEW y, ep' = [ep EXCEPT ![e] = y], NEW h, got' = [got EXCEPT ![e] = h],
         Turn(e, ep[e], got[e], y, h)
  PROVE  OnceInv'
<1>1. ep'[e] = y /\ ep'[Peer(e)] = ep[Peer(e)]
  BY OneEnd
<1>2. got'[e] = h /\ got'[Peer(e)] = got[Peer(e)]
  BY OneGot
<1>3. ReaderTurn(ep[e], got[e], ep'[e], got'[e]) /\ WriterTurn(ep[e], ep'[e]) /\ LineEnd(e, ep'[e])
  BY <1>1, <1>2 DEF Turn, OnceInv
<1>. QED BY <1>1, <1>2, <1>3, SameKnown, OneTurns

LEMMA ListenOnce == IInv /\ IInv' /\ OnceInv /\ Listen => OnceInv'
<1>. SUFFICES ASSUME IInv, IInv', OnceInv, Listen PROVE OnceInv'
  OBVIOUS
<1>1. SERVER \in End /\ NewApplication(SERVER) /\ SoundEnd(SERVER, ep[SERVER]) /\ air' = air
  BY DEF End, IInv, Listen
<1>2. PICK y : y = OnListen(ep[SERVER])
  OBVIOUS
<1>3. ep' = [ep EXCEPT ![SERVER] = y] /\ got' = [got EXCEPT ![SERVER] = <<>>]
  BY <1>2 DEF Listen
<1>4. /\ ReaderTurn(ep[SERVER], got[SERVER], y, <<>>) /\ WriterTurn(ep[SERVER], y)
      /\ LineEnd(SERVER, y)
  BY <1>1, <1>2, OnListenTurns
<1>5. ep'[SERVER] = y /\ ep'[Peer(SERVER)] = ep[Peer(SERVER)]
  BY <1>1, <1>3, OneEnd
<1>6. got'[SERVER] = <<>> /\ got'[Peer(SERVER)] = got[Peer(SERVER)]
  BY <1>1, <1>3, OneGot
<1>7. \A d \in End : Known(d) \subseteq Known(d)'
  BY <1>1, NewKnown
<1>. QED BY <1>1, <1>4, <1>5, <1>6, <1>7, OneTurns

LEMMA ConnectOnce == IInv /\ IInv' /\ OnceInv /\ Connect => OnceInv'
<1>. SUFFICES ASSUME IInv, IInv', OnceInv, Connect PROVE OnceInv'
  OBVIOUS
<1>1. /\ CLIENT \in End /\ NewApplication(CLIENT) /\ SoundEnd(CLIENT, ep[CLIENT]) /\ air' = air
      /\ ep[CLIENT].sock = "connecting" /\ LineEnd(CLIENT, ep[CLIENT])
  BY DEF End, IInv, Connect, OnceInv
<1>2. PICK x, y, g : x = ep[CLIENT] /\ y = OnConnected(x) /\ g = got[CLIENT]
  OBVIOUS
<1>3. PICK r \in Flush(y) :
        /\ ep' = [ep EXCEPT ![CLIENT] = r.left]
        /\ got' = [got EXCEPT ![CLIENT] = r.read]
  BY <1>2 DEF Connect
<1>4. SoundEnd(CLIENT, y) /\ Fetched(y) /\ y \in Endpoints /\ Good(y.stream)
  BY <1>1, <1>2, OnConnectedSound DEF SoundEnd
<1>5. ReaderTurn(x, g, y, <<>>) /\ WriterTurn(x, y) /\ LineEnd(CLIENT, y)
  BY <1>1, <1>2, OnConnectedTurns
<1>6. <<>> \in Seq(Pay) /\ <<>> \o r.read = r.read
  <2>1. r.read \in Seq(Pay)
    BY <1>1, <1>3, <1>4, FlushSound
  <2>. QED BY <2>1
<1>7. Turn(CLIENT, y, <<>>, r.left, r.read)
  <2>1. Turn(CLIENT, y, <<>>, r.left, <<>> \o r.read)
    BY <1>3, <1>4, <1>6, FlushTurns
  <2>. QED BY <1>6, <2>1
<1>8. ReaderTurn(x, g, r.left, r.read) /\ WriterTurn(x, r.left) /\ LineEnd(CLIENT, r.left)
  BY <1>5, <1>7, ReaderTurnTwice, WriterTurnTwice DEF Turn
<1>9. ep'[CLIENT] = r.left /\ ep'[Peer(CLIENT)] = ep[Peer(CLIENT)]
  BY <1>1, <1>3, OneEnd
<1>10. got'[CLIENT] = r.read /\ got'[Peer(CLIENT)] = got[Peer(CLIENT)]
  BY <1>1, <1>3, OneGot
<1>11. \A d \in End : Known(d) \subseteq Known(d)'
  BY <1>1, NewKnown
<1>. QED BY <1>1, <1>2, <1>8, <1>9, <1>10, <1>11, OneTurns

LEMMA SameGot == ASSUME IInv, got' = got, NEW e \in End PROVE got' = [got EXCEPT ![e] = got[e]]
BY DEF IInv

LEMMA ConnectFailsOnce == IInv /\ IInv' /\ OnceInv /\ ConnectFails => OnceInv'
<1>. SUFFICES ASSUME IInv, IInv', OnceInv, ConnectFails PROVE OnceInv'
  OBVIOUS
<1>1. /\ CLIENT \in End /\ ep[CLIENT] \in Endpoints /\ got[CLIENT] \in Seq(Pay)
      /\ air' = air /\ conn' = conn /\ sent' = sent /\ got' = got
  BY DEF End, IInv, SoundEnd, ConnectFails
<1>2. PICK y : y = CloseClient(ep[CLIENT])
  OBVIOUS
<1>3. ep' = [ep EXCEPT ![CLIENT] = y]
  BY <1>2 DEF ConnectFails
<1>4. Turn(CLIENT, ep[CLIENT], got[CLIENT], y, got[CLIENT])
  BY <1>1, <1>2, CloseClientTurns
<1>. QED BY <1>1, <1>3, <1>4, SameGot, TurnKeeps

(* A new segment is at the end of what is not sent yet. *)
LEMMA RecvOnce == ASSUME NEW e \in End PROVE IInv /\ IInv' /\ OnceInv /\ Recv(e) => OnceInv'
<1>. SUFFICES ASSUME IInv, IInv', OnceInv, Recv(e) PROVE OnceInv'
  OBVIOUS
<1>1. /\ SoundEnd(e, ep[e]) /\ Open(ep[e]) /\ LineEnd(e, ep[e])
      /\ conn[e] \in Nat /\ sent[e] \in Nat /\ conn \in [End -> Nat] /\ sent \in [End -> Nat]
      /\ air' = air /\ got' = got /\ conn' = conn /\ sent' = [sent EXCEPT ![e] = sent[e] + 1]
      /\ Peer(e) \in End
  BY Peers DEF IInv, Recv, OnceInv
<1>2. PICK p : p = [c |-> conn[e], k |-> sent[e] + 1]
  OBVIOUS
<1>3. PICK P, line, g, K, L : /\ P = ep[Peer(e)] /\ line = air[Peer(e)] /\ g = got[Peer(e)]
                              /\ K = Known(e) /\ L = Known(e)'
  OBVIOUS
<1>4. p \in Pay /\ p \notin K /\ p \in L /\ K \subseteq L
  <2>1. p \in Pay /\ p.c = conn[e] /\ p.k = sent[e] + 1
    BY <1>1, <1>2 DEF Pay
  <2>2. conn'[e] = conn[e] /\ sent'[e] = sent[e] + 1
    BY <1>1
  <2>3. ~(p.c < conn[e]) /\ ~(p.k <= sent[e])
    BY <1>1, <2>1
  <2>4. p \notin K
    BY <1>3, <2>3 DEF Known
  <2>5. p.k <= sent'[e]
    BY <1>1, <2>1, <2>2
  <2>6. p \in L
    BY <1>3, <2>1, <2>2, <2>5 DEF Known
  <2>7. ASSUME NEW a \in K PROVE a \in L
    <3>1. a \in Pay /\ (a.c < conn[e] \/ (a.c = conn[e] /\ a.k <= sent[e])) /\ a.k \in Nat
      BY <1>3 DEF Known, Pay
    <3>2. a.k <= sent[e] => a.k <= sent[e] + 1
      BY <1>1, <3>1
    <3>. QED BY <1>3, <2>2, <3>1, <3>2 DEF Known
  <2>. QED BY <2>1, <2>4, <2>6, <2>7
<1>5. PICK x, q : x = ep[e] /\ q = Append(x.rx_q, p)
  OBVIOUS
<1>6. x \in Endpoints /\ x.rx_q \in Seq(Pay) /\ x.stream \in Stream(Pay) /\ x.stream.tcp_in \in Seq(Pay)
  BY <1>1, <1>5, EndFields, Fields DEF SoundEnd
<1>7. q \in Seq(Pay)
  BY <1>4, <1>5, <1>6
<1>8. PICK z : z = [x EXCEPT !.rx_q = q]
  OBVIOUS
<1>9. /\ z \in Endpoints /\ z.stream = x.stream /\ z.sock = x.sock /\ z.buf = x.buf
      /\ z.wakes = x.wakes /\ z.rx_wake_pending = x.rx_wake_pending /\ z.rx_q = q
      /\ (Open(z) <=> Open(x))
  BY <1>6, <1>7, <1>8 DEF Endpoints, Open
<1>10. SoundEnd(e, z) /\ LineEnd(e, z)
  BY <1>1, <1>5, <1>9 DEF SoundEnd, LineEnd, Woken
<1>11. PICK y : y = PostRxWake(z)
  OBVIOUS
<1>12. ep' = [ep EXCEPT ![e] = y]
  <2>1. ep' = [ep EXCEPT ![e] = PostRxWake([ep[e] EXCEPT !.rx_q = Append(@, p)])]
    BY <1>2 DEF Recv
  <2>2. [ep[e] EXCEPT !.rx_q = Append(@, p)] = z
    BY <1>5, <1>8
  <2>. QED BY <1>11, <2>1, <2>2
<1>13. ep'[e] = y /\ ep'[Peer(e)] = ep[Peer(e)]
  BY <1>12, OneEnd
<1>14. Unsent(x) \in Seq(Pay) /\ Unsent(z) = Append(Unsent(x), p)
  <2>1. PICK i \in Seq(Pay), r \in Seq(Pay) : i = x.stream.tcp_in /\ r = x.rx_q
    BY <1>6
  <2>2. i \in Seq(Pay) /\ r \in Seq(Pay) /\ p \in Pay
    BY <1>4, <2>1
  <2>3. i \o r \in Seq(Pay) /\ i \o Append(r, p) = Append(i \o r, p)
    BY ONLY <2>2
  <2>. QED BY <1>5, <1>9, <2>1, <2>3 DEF Unsent
<1>15. Direction(line, x.stream.unacked, Unsent(x), P, g, K)
  BY <1>3, <1>5, Peers DEF OnceInv
<1>16. Direction(line, z.stream.unacked, Unsent(z), P, g, L)
  BY <1>4, <1>9, <1>14, <1>15, NewSegment
<1>17. Turn(e, z, got[e], y, got[e])
  BY <1>10, <1>11, PostRxWakeTurns
<1>18. LineEnd(e, y) /\ WriterTurn(z, y) /\ ReaderTurn(z, got[e], y, got[e])
  BY <1>10, <1>17 DEF Turn
<1>19. Line(Peer(e))'
  <2>1. SoundEnd(e, y)
    BY <1>13 DEF IInv
  <2>2. y \in Endpoints /\ Good(y.stream) /\ line \in Seq(Frames)
    BY <1>1, <1>3, <2>1 DEF SoundEnd, IInv
  <2>3. Direction(line, y.stream.unacked, Unsent(y), P, g, L)
    BY <1>9, <1>16, <1>18, <2>2, WriterLine
  <2>4. Line(Peer(e))' = Direction(air'[Peer(e)], ep'[e].stream.unacked, Unsent(ep'[e]),
                                   ep'[Peer(e)], got'[Peer(e)], Known(e)')
    BY Peers DEF Line
  <2>. QED BY <1>1, <1>3, <1>13, <2>3, <2>4
<1>20. Line(e)'
  <2>1. ReaderTurn(x, got[e], z, got[e])
    BY <1>9, SameReaderTurn DEF SameReader
  <2>2. ReaderTurn(ep[e], got[e], ep'[e], got'[e])
    BY <1>1, <1>5, <1>13, <1>18, <2>1, ReaderTurnTwice
  <2>3. Known(Peer(e)) \subseteq Known(Peer(e))'
    <3>1. conn'[Peer(e)] = conn[Peer(e)] /\ sent'[Peer(e)] = sent[Peer(e)]
      BY <1>1, Peers
    <3>. QED BY <3>1 DEF Known
  <2>. QED BY <1>1, <1>13, <2>2, <2>3, OneReads
<1>. QED BY <1>13, <1>18, <1>19, <1>20, BothLines

LEMMA RecvFinOnce == ASSUME NEW e \in End PROVE IInv /\ IInv' /\ OnceInv /\ RecvFin(e) => OnceInv'
<1>. SUFFICES ASSUME IInv, IInv', OnceInv, RecvFin(e) PROVE OnceInv'
  OBVIOUS
<1>1. /\ ep[e] \in Endpoints /\ ep[e].wakes \in Seq(Wakes)
      /\ air' = air /\ conn' = conn /\ sent' = sent /\ got' = got
  BY EndFields DEF IInv, SoundEnd, RecvFin
<1>2. PICK w \in Seq(Wakes) : w = Append(ep[e].wakes, "on_local_fin")
  <2>1. "on_local_fin" \in Wakes
    BY DEF Wakes
  <2>2. Append(ep[e].wakes, "on_local_fin") \in Seq(Wakes)
    BY <1>1, <2>1
  <2>. QED BY <2>2
<1>3. PICK y : y = [ep[e] EXCEPT !.eof = TRUE, !.wakes = w]
  OBVIOUS
<1>4. ep' = [ep EXCEPT ![e] = y]
  BY <1>1, <1>2, <1>3 DEF RecvFin, IInv, Endpoints
<1>5. /\ y \in Endpoints /\ y.stream = ep[e].stream /\ y.sock = ep[e].sock
      /\ y.buf = ep[e].buf /\ y.rx_q = ep[e].rx_q
  BY <1>1, <1>3 DEF Endpoints
<1>6. Turn(e, ep[e], got[e], y, got[e])
  BY <1>5, SameTurn DEF SameReader, SameSender
<1>. QED BY <1>1, <1>4, <1>6, SameGot, TurnKeeps

LEMMA WakeOnce == ASSUME NEW e \in End PROVE IInv /\ IInv' /\ OnceInv /\ Wake(e) => OnceInv'
<1>. SUFFICES ASSUME IInv, IInv', OnceInv, Wake(e) PROVE OnceInv'
  OBVIOUS
<1>1. /\ SoundEnd(e, ep[e]) /\ ep[e] \in Endpoints /\ ep[e].wakes \in Seq(Wakes) /\ ep[e].wakes # <<>>
      /\ air' = air /\ conn' = conn /\ sent' = sent /\ got' = got /\ got[e] \in Seq(Pay)
  BY EndFields DEF IInv, SoundEnd, Wake
<1>2. PICK w \in Seq(Wakes) : w = Tail(ep[e].wakes)
  <2>1. Tail(ep[e].wakes) \in Seq(Wakes)
    BY <1>1
  <2>. QED BY <2>1
<1>3. PICK x : x = [ep[e] EXCEPT !.wakes = w]
  OBVIOUS
<1>4. /\ x \in Endpoints /\ x.stream = ep[e].stream /\ x.sock = ep[e].sock
      /\ x.rx_q = ep[e].rx_q /\ x.buf = ep[e].buf /\ (Open(x) <=> Open(ep[e]))
  BY <1>1, <1>3 DEF Endpoints, Open
<1>5. PICK y : y = IF Head(ep[e].wakes) = "on_rx_wake" THEN OnRxWake(x) ELSE OnLocalFin(x)
  OBVIOUS
<1>6. ep' = [ep EXCEPT ![e] = y]
  BY <1>2, <1>3, <1>5 DEF Wake
<1>7. Turn(e, ep[e], got[e], x, got[e])
  BY <1>4, SameTurn DEF SameReader, SameSender
<1>8. Turn(e, x, got[e], y, got[e])
  <2>1. /\ Good(x.stream) /\ (x.stream.local <=> Open(x)) /\ (~Open(x) => x.rx_q = <<>>)
        /\ (e = SERVER => x.sock # "connecting")
    BY <1>1, <1>4 DEF SoundEnd
  <2>. QED BY <1>1, <1>4, <1>5, <2>1, OnRxWakeTurns, OnLocalFinTurns
<1>9. Turn(e, ep[e], got[e], y, got[e])
  BY <1>7, <1>8, TurnTwice
<1>. QED BY <1>1, <1>6, <1>9, SameGot, TurnKeeps

LEMMA BecomesOnce ==
  ASSUME IInv, IInv', OnceInv, NEW e \in End, air' = air, conn' = conn, sent' = sent,
         NEW r, Becomes(e, r), Turn(e, ep[e], got[e], r.left, got[e] \o r.read)
  PROVE  OnceInv'
<1>1. PICK h, y : h = got[e] \o r.read /\ y = r.left
  OBVIOUS
<1>2. ep' = [ep EXCEPT ![e] = y] /\ got' = [got EXCEPT ![e] = h]
  BY <1>1 DEF Becomes
<1>3. Turn(e, ep[e], got[e], y, h)
  BY <1>1
<1>. QED BY <1>2, <1>3, TurnKeeps

LEMMA ClientWriteOnce ==
  ASSUME NEW e \in End PROVE IInv /\ IInv' /\ OnceInv /\ ClientWrite(e) => OnceInv'
<1>. SUFFICES ASSUME IInv, IInv', OnceInv, ClientWrite(e) PROVE OnceInv'
  OBVIOUS
<1>1. /\ ep[e] \in Endpoints /\ Good(ep[e].stream) /\ got[e] \in Seq(Pay)
      /\ air' = air /\ conn' = conn /\ sent' = sent
  BY DEF IInv, SoundEnd, ClientWrite
<1>2. PICK r \in Flush(ep[e]) : Becomes(e, r)
  BY DEF ClientWrite
<1>3. Turn(e, ep[e], got[e], r.left, got[e] \o r.read)
  BY <1>1, <1>2, FlushTurns
<1>. QED BY <1>1, <1>2, <1>3, BecomesOnce

LEMMA TickOnce ==
  ASSUME NEW e \in End, NEW reconnect PROVE IInv /\ IInv' /\ OnceInv /\ Tick(e, reconnect) => OnceInv'
<1>. SUFFICES ASSUME IInv, IInv', OnceInv, Tick(e, reconnect) PROVE OnceInv'
  OBVIOUS
<1>1. /\ SoundEnd(e, ep[e]) /\ got[e] \in Seq(Pay) /\ air' = air /\ conn' = conn /\ sent' = sent
  BY DEF IInv, Tick
<1>2. PICK due, r : r \in OnEndpointTick(e, ep[e], due, reconnect) /\ Becomes(e, r)
  BY DEF Tick
<1>3. Turn(e, ep[e], got[e], r.left, got[e] \o r.read)
  BY <1>1, <1>2, OnEndpointTickTurns
<1>. QED BY <1>1, <1>2, <1>3, BecomesOnce

LEMMA TickGivesUpOnce ==
  ASSUME NEW e \in End PROVE IInv /\ IInv' /\ OnceInv /\ TickGivesUp(e) => OnceInv'
<1>. SUFFICES ASSUME IInv, IInv', OnceInv, TickGivesUp(e) PROVE OnceInv'
  OBVIOUS
<1>1. /\ SoundEnd(e, ep[e]) /\ got[e] \in Seq(Pay) /\ air' = air /\ conn' = conn /\ sent' = sent
      /\ got' = got
  BY DEF IInv, TickGivesUp
<1>2. PICK y \in GiveUp(ep[e], {}) : ep' = [ep EXCEPT ![e] = y]
  BY DEF TickGivesUp
<1>3. Turn(e, ep[e], got[e], y, got[e])
  BY <1>1, <1>2, GiveUpTurns
<1>. QED BY <1>1, <1>2, <1>3, SameGot, TurnKeeps

LEMMA CrashOnce == ASSUME NEW e \in End PROVE IInv /\ IInv' /\ OnceInv /\ Crash(e) => OnceInv'
<1>. SUFFICES ASSUME IInv, IInv', OnceInv, Crash(e) PROVE OnceInv'
  OBVIOUS
<1>1. /\ air' = air /\ conn' = conn /\ sent' = sent /\ got' = got
      /\ ep' = [ep EXCEPT ![e] = NewEndpoint]
  BY DEF Crash
<1>2. Turn(e, ep[e], got[e], NewEndpoint, got[e])
  BY NewEndpointTurns DEF Turn
<1>. QED BY <1>1, <1>2, SameGot, TurnKeeps

(* What is sent stays with the writer. *)
LEMMA PullTxSender ==
  ASSUME NEW s, Good(s), NEW p \in PullTx(s)
  PROVE  SameSender(s, p.left) /\ SameReader(s, p.left)
<1>1. s \in Stream(Pay) /\ s.ctrlq \in Seq(CtrlType) /\ s.unacked \in Seq(Segment(Pay))
  BY Fields DEF Good
<1>2. CASE p \in PullCtrl(s)
  <2>1. s.ctrlq # <<>> /\ p.left = [s EXCEPT !.ctrlq = Tail(s.ctrlq)]
    BY <1>2 DEF PullCtrl
  <2>2. PICK q \in Seq(CtrlType) : q = Tail(s.ctrlq)
    <3>1. Tail(s.ctrlq) \in Seq(CtrlType)
      BY <1>1, <2>1
    <3>. QED BY <3>1
  <2>3. PICK t : t = [s EXCEPT !.ctrlq = q]
    OBVIOUS
  <2>4. p.left = t
    BY <2>1, <2>2, <2>3
  <2>5. /\ t.unacked = s.unacked /\ t.tx_seq = s.tx_seq /\ t.local = s.local
        /\ t.peer_close = s.peer_close /\ t.tcp_in = s.tcp_in /\ t.ctrlq = q
        /\ SameReader(s, t)
    BY <1>1, <2>3 DEF Stream, SameReader
  <2>6. ASSUME HasLeft(t) PROVE HasLeft(s)
    <3>1. PICK i \in DOMAIN q : Leaving(q[i])
      BY <2>5, <2>6 DEF HasLeft
    <3>2. i + 1 \in DOMAIN s.ctrlq /\ s.ctrlq[i + 1] = q[i]
      BY <1>1, <2>1, <2>2, <3>1
    <3>. QED BY <3>1, <3>2 DEF HasLeft
  <2>. QED BY <2>4, <2>5, <2>6 DEF SameSender
<1>3. CASE p \in PullAck(s)
  <2>0. PICK k \in 0..MAX_SACK_BLOCKS :
           p = [left |-> [s EXCEPT !.ack_pending = FALSE],
                frame |-> BareFrame("ACK", s.rx_seq, SackRuns(s.reorder, k))]
    BY <1>3 DEF PullAck
  <2>1. p.left = [s EXCEPT !.ack_pending = FALSE]
    BY <2>0
  <2>2. PICK t : t = p.left
    OBVIOUS
  <2>3. /\ t.unacked = s.unacked /\ t.tx_seq = s.tx_seq /\ t.local = s.local
        /\ t.peer_close = s.peer_close /\ t.tcp_in = s.tcp_in /\ t.ctrlq = s.ctrlq
        /\ SameReader(s, t)
    BY <1>1, <2>1, <2>2 DEF Stream, SameReader
  <2>. QED BY <2>2, <2>3 DEF SameSender, HasLeft
<1>4. CASE p \in PullData(s)
  <2>0. PICK i \in Sendable(s) :
           p = [left |-> [s EXCEPT !.unacked[i].in_flight = TRUE],
                frame |-> DataFrame(s.unacked[i].seq, s.rx_seq, s.unacked[i].pay)]
    BY <1>4 DEF PullData
  <2>1. i \in DOMAIN s.unacked /\ p.left = [s EXCEPT !.unacked[i].in_flight = TRUE]
    BY <2>0 DEF Sendable
  <2>2. PICK u : u = [s.unacked EXCEPT ![i] = [s.unacked[i] EXCEPT !.in_flight = TRUE]]
    OBVIOUS
  <2>3. PICK t : t = [s EXCEPT !.unacked = u]
    OBVIOUS
  <2>4. p.left = t
    BY <1>1, <2>1, <2>2, <2>3 DEF Stream
  <2>5. DOMAIN u = DOMAIN s.unacked /\ Len(u) = Len(s.unacked)
    BY <1>1, <2>2
  <2>6. ASSUME NEW j \in DOMAIN s.unacked
        PROVE  u[j].seq = s.unacked[j].seq /\ u[j].pay = s.unacked[j].pay
    <3>1. PICK g \in Segment(Pay) : g = s.unacked[j]
      BY <1>1
    <3>2. u[j] = g \/ u[j] = [g EXCEPT !.in_flight = TRUE]
      BY <1>1, <2>2, <3>1
    <3>. QED BY <3>1, <3>2 DEF Segment
  <2>7. /\ t.unacked = u /\ t.tx_seq = s.tx_seq /\ t.local = s.local
        /\ t.peer_close = s.peer_close /\ t.tcp_in = s.tcp_in /\ t.ctrlq = s.ctrlq
        /\ SameReader(s, t)
    BY <1>1, <2>3 DEF Stream, SameReader
  <2>. QED BY <2>4, <2>5, <2>6, <2>7 DEF SameSender, HasLeft
<1>. QED BY <1>2, <1>3, <1>4 DEF PullTx

LEMMA TransmitOnce == ASSUME NEW e \in End PROVE IInv /\ IInv' /\ OnceInv /\ Transmit(e) => OnceInv'
<1>. SUFFICES ASSUME IInv, IInv', OnceInv, Transmit(e) PROVE OnceInv'
  OBVIOUS
<1>1. /\ SoundEnd(e, ep[e]) /\ Good(ep[e].stream) /\ LineEnd(e, ep[e]) /\ air[Peer(e)] \in Seq(Frames)
      /\ conn' = conn /\ sent' = sent /\ got' = got /\ got[e] \in Seq(Pay)
  BY Peers DEF IInv, SoundEnd, Transmit, OnceInv
<1>2. PICK p \in PullTx(ep[e].stream) :
        /\ ep' = [ep EXCEPT ![e].stream = p.left]
        /\ air' = [air EXCEPT ![Peer(e)] = Append(air[Peer(e)], p.frame)]
  BY DEF Transmit
<1>3. SameSender(ep[e].stream, p.left) /\ SameReader(ep[e].stream, p.left)
  BY <1>1, <1>2, PullTxSender
<1>4. PICK x, t : x = ep[e] /\ t = p.left
  OBVIOUS
<1>5. t \in Stream(Pay) /\ x \in Endpoints
  BY <1>1, <1>2, <1>4, PullTxGood DEF Good, SoundEnd
<1>6. PICK y : y = [x EXCEPT !.stream = t]
  OBVIOUS
<1>7. ep' = [ep EXCEPT ![e] = y]
  BY <1>2, <1>4, <1>6 DEF IInv
<1>8. y.stream = t /\ y.rx_q = x.rx_q
  BY <1>5, <1>6 DEF Endpoints
<1>9. Turn(e, x, got[e], y, got[e])
  BY <1>3, <1>4, <1>5, <1>6, StreamTurns
<1>10. ep'[e] = y /\ ep'[Peer(e)] = ep[Peer(e)]
  BY <1>7, OneEnd
<1>11. Line(e)'
  <2>1. air'[e] = air[e]
    BY <1>2, Peers DEF IInv
  <2>2. ReaderTurn(ep[e], got[e], ep'[e], got'[e])
    BY <1>1, <1>4, <1>9, <1>10 DEF Turn
  <2>. QED BY <1>1, <1>10, <2>1, <2>2, SameKnown, Peers, OneReads
<1>12. LineEnd(e, ep'[e])
  BY <1>1, <1>4, <1>9, <1>10 DEF Turn
<1>13. Line(Peer(e))'
  <2>1. PICK P, line, next, g, K :
          /\ P = ep[Peer(e)] /\ line = air[Peer(e)] /\ next = Append(line, p.frame)
          /\ g = got[Peer(e)] /\ K = Known(e)
    OBVIOUS
  <2>2. Direction(line, x.stream.unacked, Unsent(x), P, g, K)
    BY <1>4, <2>1, Peers DEF OnceInv
  <2>3. HasLeft(x.stream) => x.stream.unacked = <<>>
    BY <1>1, <1>4 DEF LineEnd, StreamOK
  <2>4. Good(x.stream) /\ p \in PullTx(x.stream) /\ line \in Seq(Frames)
    BY <1>1, <1>2, <1>4, <2>1
  <2>5. Direction(next, t.unacked, Unsent(x), P, g, K)
    BY <1>4, <2>1, <2>2, <2>3, <2>4, LineGrows
  <2>6. Unsent(y) = Unsent(x) /\ y.stream.unacked = t.unacked
    BY <1>3, <1>4, <1>8 DEF Unsent, SameSender
  <2>7. air'[Peer(e)] = next /\ got'[Peer(e)] = g
    BY <1>1, <1>2, <2>1, Peers DEF IInv
  <2>8. Known(e)' = K
    BY <1>1, <2>1 DEF Known
  <2>9. Line(Peer(e))' = Direction(air'[Peer(e)], ep'[e].stream.unacked, Unsent(ep'[e]),
                                   ep'[Peer(e)], got'[Peer(e)], Known(e)')
    BY Peers DEF Line
  <2>. QED BY <1>10, <2>1, <2>5, <2>6, <2>7, <2>8, <2>9
<1>. QED BY <1>10, <1>11, <1>12, <1>13, BothLines

LEMMA LoseOnce == ASSUME NEW e \in End PROVE IInv /\ IInv' /\ OnceInv /\ Lose(e) => OnceInv'
<1>. SUFFICES ASSUME IInv, IInv', OnceInv, Lose(e) PROVE OnceInv'
  OBVIOUS
<1>1. /\ ep' = ep /\ got' = got /\ conn' = conn /\ sent' = sent
      /\ air[e] # <<>> /\ air' = [air EXCEPT ![e] = Tail(air[e])] /\ air[e] \in Seq(Frames)
      /\ ep[Peer(e)] \in Endpoints
  BY Peers DEF Lose, IInv, SoundEnd
<1>2. air'[e] = Tail(air[e]) /\ air'[Peer(e)] = air[Peer(e)]
  BY <1>1, Peers DEF IInv
<1>3. \A d \in End : Known(d)' = Known(d)
  BY <1>1 DEF Known
<1>4. Line(e)'
  <2>1. PICK P, line, x, g, K : /\ P = ep[Peer(e)] /\ line = air[e] /\ x = ep[e]
                                /\ g = got[e] /\ K = Known(Peer(e))
    OBVIOUS
  <2>2. Direction(line, P.stream.unacked, Unsent(P), x, g, K)
    BY <2>1 DEF OnceInv
  <2>3. P.stream.unacked \in Seq(Segment(Pay)) /\ line \in Seq(Frames) /\ line # <<>>
    BY <1>1, <2>1, EndFields, Fields
  <2>4. Direction(Tail(line), P.stream.unacked, Unsent(P), x, g, K)
    BY <2>2, <2>3, LineShrinks
  <2>5. Line(e)' = Direction(air'[e], ep'[Peer(e)].stream.unacked, Unsent(ep'[Peer(e)]),
                             ep'[e], got'[e], Known(Peer(e))')
    BY DEF Line
  <2>6. Known(Peer(e))' = K
    BY <1>3, <2>1, Peers
  <2>. QED BY <1>1, <1>2, <2>1, <2>4, <2>5, <2>6
<1>5. Line(Peer(e))'
  <2>1. Line(Peer(e))
    BY Peers DEF OnceInv, Line
  <2>2. /\ air'[Peer(e)] = air[Peer(e)] /\ ep' = ep /\ got' = got
        /\ Known(Peer(Peer(e)))' = Known(Peer(Peer(e)))
    BY <1>1, <1>2, <1>3, Peers
  <2>. QED BY <2>1, <2>2 DEF Line
<1>. QED BY <1>1, <1>4, <1>5, BothLines DEF OnceInv

LEMMA RadioRxOnce == ASSUME NEW e \in End PROVE IInv /\ IInv' /\ OnceInv /\ RadioRx(e) => OnceInv'
<1>. SUFFICES ASSUME IInv, IInv', OnceInv, RadioRx(e) PROVE OnceInv'
  OBVIOUS
<1>1. /\ SoundEnd(e, ep[e]) /\ LineEnd(e, ep[e]) /\ got[e] \in Seq(Pay) /\ ep[Peer(e)] \in Endpoints
      /\ air[e] # <<>> /\ air' = [air EXCEPT ![e] = Tail(air[e])] /\ air[e] \in Seq(Frames)
      /\ conn' = conn /\ sent' = sent
  BY Peers DEF RadioRx, IInv, SoundEnd, OnceInv
<1>2. PICK r \in OnRadioFrame(e, ep[e], Head(air[e])) : Becomes(e, r)
  BY DEF RadioRx
<1>3. air'[e] = Tail(air[e]) /\ air'[Peer(e)] = air[Peer(e)]
  BY <1>1, Peers DEF IInv
<1>4. \A d \in End : Known(d)' = Known(d)
  BY <1>1 DEF Known
<1>5. PICK P, line, x, g, h, y, K : /\ P = ep[Peer(e)] /\ line = air[e] /\ x = ep[e] /\ g = got[e]
                                    /\ h = got[e] \o r.read /\ y = r.left /\ K = Known(Peer(e))
  OBVIOUS
<1>6. Direction(line, P.stream.unacked, Unsent(P), x, g, K)
  BY <1>5 DEF OnceInv
<1>7. /\ P.stream.unacked \in Seq(Segment(Pay)) /\ line \in Seq(Frames) /\ line # <<>>
      /\ SoundEnd(e, x) /\ LineEnd(e, x) /\ g \in Seq(Pay) /\ r \in OnRadioFrame(e, x, Head(line))
  BY <1>1, <1>2, <1>5, EndFields, Fields
<1>8. /\ Direction(line, P.stream.unacked, Unsent(P), y, h, K)
      /\ WriterTurn(x, y) /\ LineEnd(e, y)
  <2>1. /\ Direction(line, P.stream.unacked, Unsent(P), r.left, g \o r.read, K)
        /\ WriterTurn(x, r.left) /\ LineEnd(e, r.left)
    BY <1>6, <1>7, OnRadioFrameTurns
  <2>. QED BY <1>5, <2>1
<1>9. Direction(Tail(line), P.stream.unacked, Unsent(P), y, h, K)
  BY <1>7, <1>8, LineShrinks
<1>10. ep'[e] = y /\ ep'[Peer(e)] = ep[Peer(e)]
  <2>1. ep' = [ep EXCEPT ![e] = y]
    BY <1>2, <1>5 DEF Becomes
  <2>. QED BY <2>1, OneEnd
<1>11. got'[e] = h /\ got'[Peer(e)] = got[Peer(e)]
  <2>1. got' = [got EXCEPT ![e] = h]
    BY <1>2, <1>5 DEF Becomes
  <2>. QED BY <2>1, OneGot
<1>12. Line(e)'
  <2>1. Line(e)' = Direction(air'[e], ep'[Peer(e)].stream.unacked, Unsent(ep'[Peer(e)]),
                             ep'[e], got'[e], Known(Peer(e))')
    BY DEF Line
  <2>2. Known(Peer(e))' = K
    BY <1>4, <1>5, Peers
  <2>. QED BY <1>3, <1>5, <1>9, <1>10, <1>11, <2>1, <2>2
<1>13. WriterTurn(ep[e], ep'[e]) /\ LineEnd(e, ep'[e])
  BY <1>5, <1>8, <1>10
<1>14. Line(Peer(e))'
  BY <1>3, <1>4, <1>10, <1>11, <1>13, OneWrites
<1>. QED BY <1>10, <1>12, <1>13, <1>14, BothLines

LEMMA InitOnce == Init => OnceInv
<1>. SUFFICES ASSUME Init PROVE OnceInv
  OBVIOUS
<1>. SUFFICES ASSUME NEW e \in End PROVE LineEnd(e, ep[e]) /\ Line(e)
  BY DEF OnceInv, Line
<1>1. LineEnd(e, NewEndpoint)
  BY NewEndpointTurns
<1>2. Peer(e) \in End
  BY Peers
<1>3. /\ ep[e] = NewEndpoint /\ ep[Peer(e)] = NewEndpoint /\ air[e] = <<>> /\ got[e] = <<>>
  BY <1>2 DEF Init
<1>4. /\ NewEndpoint.stream.unacked = <<>> /\ Unsent(NewEndpoint) = <<>>
      /\ Consumed(NewEndpoint, <<>>) = <<>> /\ Keys(NewEndpoint.stream.reorder) = {}
      /\ ~NewEndpoint.stream.peer_connect /\ ~Open(NewEndpoint)
  BY Empty DEF NewEndpoint, Unsent, Consumed, Fresh, Open
<1>5. Way(<<>>, <<>>) = {} /\ Elements(<<>>) = {} /\ Distinct(<<>>) /\ DOMAIN <<>> = {}
  BY DEF Way, Elements, Distinct
<1>6. Accepted(NewEndpoint, <<>>) = {}
  BY <1>4, <1>5 DEF Accepted, Held
<1>7. Direction(<<>>, <<>>, <<>>, NewEndpoint, <<>>, Known(Peer(e)))
  <2>1. WayOK({}) /\ ReadOK({}, NewEndpoint.stream, {})
    BY <1>4 DEF WayOK, ReadOK
  <2>2. CloseOK(<<>>, {}, {}) /\ UnsentOK({}, <<>>, {}, Known(Peer(e)))
    BY <1>5 DEF CloseOK, UnsentOK
  <2>. QED BY <1>4, <1>5, <1>6, <2>1, <2>2 DEF Direction
<1>. QED BY <1>1, <1>3, <1>4, <1>7 DEF Line

LEMMA StepOnce == IInv /\ IInv' /\ OnceInv /\ [Next]_vars => OnceInv'
<1>. SUFFICES ASSUME IInv, IInv', OnceInv, [Next]_vars PROVE OnceInv'
  OBVIOUS
<1>1. CASE Listen
  BY <1>1, ListenOnce
<1>2. CASE Connect
  BY <1>2, ConnectOnce
<1>3. CASE ConnectFails
  BY <1>3, ConnectFailsOnce
<1>4. CASE \E e \in End : Step(e)
  <2>1. PICK e \in End : Step(e)
    BY <1>4
  <2>. QED BY <2>1, RecvOnce, RecvFinOnce, WakeOnce, ClientWriteOnce, TransmitOnce,
              RadioRxOnce, TickOnce, LoseOnce, TickGivesUpOnce, CrashOnce DEF Step
<1>5. CASE \E e \in End : Tick(e, TRUE)
  BY <1>5, TickOnce
<1>6. CASE UNCHANGED vars
  <2>1. \A e \in End : Known(e)' = Known(e)
    BY <1>6 DEF vars, Known
  <2>. QED BY <1>6, <2>1, Peers DEF vars, OnceInv
<1>. QED BY <1>1, <1>2, <1>3, <1>4, <1>5, <1>6 DEF Next, NextUnrepeated

(* Whatever happens, an application never reads a segment twice: not when  *)
(* frames are repeated, sessions mixed or managers started again           *)
(* (tcp_stream::deliver_data, tcp_endpoint::flush_tcp).                    *)
THEOREM ReadsOnce == Spec => []NeverTwice
<1>1. Init => IInv /\ OnceInv
  BY InitIInv, InitOnce
<1>2. IInv /\ OnceInv /\ [Next]_vars => (IInv /\ OnceInv)'
  BY StepKeeps, StepOnce
<1>3. IInv /\ OnceInv => NeverTwice
  BY DEF OnceInv, Direction, Distinct, NeverTwice
<1>. QED BY <1>1, <1>2, <1>3, PTL DEF Spec
=============================================================================

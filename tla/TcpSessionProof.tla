--------------------------- MODULE TcpSessionProof ---------------------------
(***************************************************************************)
(* Proofs about TcpSession: its inductive invariant, the safety properties  *)
(* it implies and the refinement of ReliablePipe, for every MOD, WINDOW,    *)
(* pair of ends and number of segments.                                    *)
(***************************************************************************)
EXTENDS TcpSession, TLAPS, SequenceTheorems, WellFoundedInduction

-----------------------------------------------------------------------------
(* Facts about remainders.                                                 *)

\* Division with remainder: a quotient and a remainder exist.
LEMMA DivMod ==
  ASSUME NEW m \in Nat \ {0}, NEW a \in Int
  PROVE  \E q \in Int, r \in 0 .. m - 1 : a = m * q + r /\ a % m = r
<1>1. /\ a = m * (a \div m) + (a % m)
      /\ (a \div m) \in Int
      /\ (a % m) \in 0 .. m - 1
  OBVIOUS
<1> QED BY <1>1

\* The remainder is determined by any such decomposition.
LEMMA ModUnique ==
  ASSUME NEW m \in Nat \ {0}, NEW q \in Int, NEW r \in 0 .. m - 1,
         NEW a \in Int, a = m * q + r
  PROVE  a % m = r
OBVIOUS

\* Adding to a remainder is adding to the number.
LEMMA AddMod ==
  ASSUME NEW m \in Nat \ {0}, NEW a \in Int, NEW b \in Int
  PROVE  ((a % m) + b) % m = (a + b) % m
<1>1. PICK q \in Int, r \in 0 .. m - 1 : a = m * q + r /\ a % m = r
  BY DivMod
<1>2. PICK c \in Int : c = a + b
  OBVIOUS
<1>3. PICK p \in Int, s \in 0 .. m - 1 : c = m * p + s /\ c % m = s
  BY DivMod
<1>4. PICK d \in Int : d = r + b
  BY <1>1
<1>5. p - q \in Int /\ d = m * (p - q) + s
  BY <1>1, <1>2, <1>3, <1>4
<1>6. d % m = s
  BY <1>5, ModUnique
<1> QED BY <1>1, <1>2, <1>3, <1>4, <1>6

\* The difference of remainders is the remainder of the difference.
LEMMA SubMod ==
  ASSUME NEW m \in Nat \ {0}, NEW a \in Int, NEW b \in Int
  PROVE  ((a % m) - (b % m)) % m = (a - b) % m
<1>1. PICK q \in Int, r \in 0 .. m - 1 : a = m * q + r /\ a % m = r
  BY DivMod
<1>2. PICK p \in Int, s \in 0 .. m - 1 : b = m * p + s /\ b % m = s
  BY DivMod
<1>3. PICK d \in Int : d = a - b
  OBVIOUS
<1>4. PICK k \in Int, t \in 0 .. m - 1 : d = m * k + t /\ d % m = t
  BY DivMod
<1>5. PICK c \in Int : c = r - s
  OBVIOUS
<1>6. k - q + p \in Int /\ c = m * (k - q + p) + t
  BY <1>1, <1>2, <1>3, <1>4, <1>5
<1>7. c % m = t
  BY <1>6, ModUnique
<1>8. ((a % m) - (b % m)) % m = t
  BY <1>1, <1>2, <1>5, <1>7
<1>9. (a - b) % m = t
  BY <1>3, <1>4
<1> QED BY <1>8, <1>9

\* The remainder of a number less than m away from zero.
LEMMA SmallMod ==
  ASSUME NEW m \in Nat \ {0}, NEW d \in Int, -m <= d, d < m
  PROVE  d % m = IF d >= 0 THEN d ELSE IF d = -m THEN 0 ELSE d + m
<1>1. CASE d >= 0
  <2>1. d = m * 0 + d /\ d \in 0 .. m - 1
    BY <1>1
  <2> QED BY <2>1, <1>1, ModUnique
<1>2. CASE -m < d /\ d < 0
  <2>1. d = m * (-1) + (d + m) /\ d + m \in 0 .. m - 1
    BY <1>2
  <2> QED BY <2>1, <1>2, ModUnique
<1>3. CASE d = -m
  <2>1. d = m * (-1) + 0 /\ 0 \in 0 .. m - 1
    BY <1>3
  <2> QED BY <2>1, <1>3, ModUnique
<1> QED BY <1>1, <1>2, <1>3

\* Two numbers less than m apart with the same remainder are equal.
LEMMA ModInjective ==
  ASSUME NEW m \in Nat \ {0}, NEW a \in Int, NEW b \in Int,
         a - b < m, b - a < m, a % m = b % m
  PROVE  a = b
<1>1. PICK d \in Int : d = a - b
  OBVIOUS
<1>2. ((a % m) - (b % m)) % m = (a - b) % m
  BY SubMod
<1>3. (a % m) - (b % m) = 0
  <2>1. a % m \in Int
    OBVIOUS
  <2> QED BY <2>1
<1>4. 0 % m = 0
  OBVIOUS
<1>5. d % m = 0
  BY <1>1, <1>2, <1>3, <1>4
<1>6. d % m = IF d >= 0 THEN d ELSE IF d = -m THEN 0 ELSE d + m
  <2>1. -m <= d /\ d < m
    BY <1>1
  <2> QED BY <2>1, SmallMod
<1> QED BY <1>1, <1>5, <1>6

-----------------------------------------------------------------------------
(* Sequence numbers against absolute numbers.                              *)

LEMMA ModPositive == MOD \in Nat \ {0} /\ WINDOW \in Nat \ {0} /\ 2 * WINDOW <= MOD
BY StreamAssumption DEF StreamAssumption

\* The sequence number of an absolute number is a uint16_t.
LEMMA SeqNumType ==
  ASSUME NEW n \in Int
  PROVE  n % MOD \in SeqNum
BY ModPositive DEF SeqNum

LEMMA SeqAddAbs ==
  ASSUME NEW n \in Int, NEW k \in Int
  PROVE  SeqAdd(n % MOD, k) = (n + k) % MOD
BY ModPositive, AddMod DEF SeqAdd

\* uint16_t subtraction recovers a distance shorter than MOD.
LEMMA SeqDiffAbs ==
  ASSUME NEW x \in Int, NEW y \in Int, x - y < MOD, y - x < MOD
  PROVE  SeqDiff(x % MOD, y % MOD) = IF x >= y THEN x - y ELSE x - y + MOD
<1>1. PICK d \in Int : d = x - y
  OBVIOUS
<1>2. SeqDiff(x % MOD, y % MOD) = (x - y) % MOD
  BY ModPositive, SubMod DEF SeqDiff
<1>3. -MOD <= d /\ d < MOD /\ d # -MOD
  BY <1>1, ModPositive
<1>4. d % MOD = IF d >= 0 THEN d ELSE IF d = -MOD THEN 0 ELSE d + MOD
  BY <1>3, ModPositive, SmallMod
<1> QED BY <1>1, <1>2, <1>3, <1>4

\* The elements of two sequences joined, and of a sequence without its first d.
LEMMA Joins ==
  ASSUME NEW T, NEW a \in Seq(T), NEW b \in Seq(T)
  PROVE  /\ Len(a \o b) = Len(a) + Len(b)
         /\ \A i \in 1 .. Len(a) + Len(b) :
              (a \o b)[i] = IF i <= Len(a) THEN a[i] ELSE b[i - Len(a)]
OBVIOUS

LEMMA Drops ==
  ASSUME NEW T, NEW u \in Seq(T), NEW d \in 0 .. Len(u), NEW v, v = SubSeq(u, d + 1, Len(u))
  PROVE  /\ v \in Seq(T) /\ Len(v) = Len(u) - d
         /\ \A i \in 1 .. Len(v) : v[i] = u[d + i]
OBVIOUS

\* A nonempty set of naturals has a least element, so Least picks one.
LEMMA LeastNat ==
  ASSUME NEW S \in SUBSET Nat, S # {}
  PROVE  /\ Least(S) \in S
         /\ \A y \in S : Least(S) <= y
<1> DEFINE Lt == {p \in Nat \X Nat : p[1] < p[2]}
<1>1. IsWellFoundedOn(Lt, Nat)
  BY NatLessThanWellFounded DEF OpToRel
<1>2. PICK x \in S : \A y \in S : ~(<<y, x>> \in Lt)
  BY <1>1, WFMin
<1>3. ASSUME NEW y \in S, y < x
      PROVE  FALSE
  <2>1. <<y, x>> \in Nat \X Nat /\ <<y, x>>[1] < <<y, x>>[2]
    BY <1>3
  <2>2. <<y, x>> \in Lt
    BY <2>1
  <2> QED BY <1>2, <2>2
<1>4. \A y \in S : x <= y
  BY <1>3
<1> QED BY <1>4 DEF Least

-----------------------------------------------------------------------------
(* Assigning members of a stream: the result is a stream, the members        *)
(* assigned have their new values and the others their old ones.             *)

Record(l, pc, cl, ap, ts, rs, ta, ti, to, un, cq, re) ==
  [local |-> l, peer_connect |-> pc, peer_close |-> cl, ack_pending |-> ap,
   tx_seq |-> ts, rx_seq |-> rs, tx_acked |-> ta, tcp_in |-> ti, tcp_out |-> to,
   unacked |-> un, ctrlq |-> cq, reorder |-> re]

-----------------------------------------------------------------------------
(* queue_data()                                                            *)

LEMMA CutSegments ==
  ASSUME NEW ti \in Seq(Nat), NEW cut \in Nat, NEW n \in Nat, n <= Len(ti),
         \A i \in 1 .. Len(ti) : ti[i] = cut + i,
         NEW new,
         new = [i \in 1 .. n |-> [seq |-> SeqAdd(cut % MOD, i - 1), pay |-> ti[i],
                                  in_flight |-> FALSE, sacked |-> FALSE]]
  PROVE  /\ new \in Seq(Segment(Nat)) /\ Len(new) = n
         /\ Numbered(new, cut)
         /\ \A i \in 1 .. n : ~new[i].sacked
<1>1. ASSUME NEW i \in 1 .. n
      PROVE  /\ SeqAdd(cut % MOD, i - 1) = (cut + i - 1) % MOD
             /\ SeqAdd(cut % MOD, i - 1) \in SeqNum
             /\ ti[i] = cut + i
  <2>1. PICK j \in Int : j = i - 1
    OBVIOUS
  <2>2. PICK c \in Int : c = cut + j
    OBVIOUS
  <2>3. SeqAdd(cut % MOD, j) = (cut + j) % MOD
    BY SeqAddAbs
  <2>4. c % MOD \in SeqNum
    BY SeqNumType
  <2>5. cut + i - 1 = c
    BY <2>1, <2>2
  <2>6. i \in 1 .. Len(ti)
    OBVIOUS
  <2> QED BY <2>1, <2>2, <2>3, <2>4, <2>5, <2>6
<1>2. ASSUME NEW i \in 1 .. n
      PROVE  new[i] \in Segment(Nat)
  <2>0. ti[i] \in Nat
    <3>1. i \in 1 .. Len(ti)
      OBVIOUS
    <3> QED BY <3>1
  <2>1. PICK x \in SeqNum, p \in Nat : x = SeqAdd(cut % MOD, i - 1) /\ p = ti[i]
    BY ONLY <1>1, <2>0
  <2>2. new[i] = [seq |-> x, pay |-> p, in_flight |-> FALSE, sacked |-> FALSE]
    BY <2>1
  <2> QED BY <2>2 DEF Segment
<1>3. new \in Seq(Segment(Nat)) /\ Len(new) = n
  BY <1>2
<1>4. ASSUME NEW i \in 1 .. n
      PROVE  /\ new[i].pay = cut + i
             /\ new[i].seq = (cut + i - 1) % MOD
             /\ ~new[i].sacked
  BY <1>1
<1> QED BY <1>3, <1>4 DEF Numbered

\* Appending the segments cut next to those already queued.
LEMMA AppendSegments ==
  ASSUME NEW u \in Seq(Segment(Nat)), NEW new \in Seq(Segment(Nat)),
         NEW a \in Nat, Numbered(u, a),
         NEW c \in Nat, c = a + Len(u), Numbered(new, c),
         \A i \in 1 .. Len(new) : ~new[i].sacked
  PROVE  LET v == u \o new
         IN /\ v \in Seq(Segment(Nat)) /\ Len(v) = Len(u) + Len(new)
            /\ Numbered(v, a)
            /\ \A i \in 1 .. Len(v) : v[i].sacked => i \in 1 .. Len(u) /\ v[i] = u[i]
<1> DEFINE v == u \o new
<1>1. /\ v \in Seq(Segment(Nat)) /\ Len(v) = Len(u) + Len(new)
      /\ \A i \in 1 .. Len(v) : v[i] = IF i <= Len(u) THEN u[i] ELSE new[i - Len(u)]
  OBVIOUS
<1> HIDE DEF v
<1>2. ASSUME NEW i \in 1 .. Len(v)
      PROVE  /\ v[i].pay = a + i
             /\ v[i].seq = (a + i - 1) % MOD
             /\ v[i].sacked => i \in 1 .. Len(u) /\ v[i] = u[i]
  <2>1. CASE i <= Len(u)
    <3>1. i \in 1 .. Len(u) /\ v[i] = u[i]
      BY <1>1, <2>1
    <3> QED BY <3>1 DEF Numbered
  <2>2. CASE i > Len(u)
    <3>1. PICK k \in 1 .. Len(new) : k = i - Len(u)
      BY <1>1, <2>2
    <3>2. v[i] = new[k]
      BY <1>1, <2>2, <3>1
    <3>3. /\ new[k].pay = c + k
          /\ new[k].seq = (c + k - 1) % MOD
      BY DEF Numbered
    <3>4. c + k = a + i /\ c + k - 1 = a + i - 1
      BY <3>1
    <3> QED BY <3>2, <3>3, <3>4
  <2> QED BY <1>1, <2>1, <2>2
<1>3. Numbered(v, a)
  BY <1>2 DEF Numbered
<1> QED BY <1>1, <1>2, <1>3 DEF v

\* What a method of the sending side leaves alone.
SameReceiver(s, t) ==
  /\ t.tcp_out = s.tcp_out /\ t.rx_seq = s.rx_seq /\ t.reorder = s.reorder
  /\ t.peer_connect = s.peer_connect

Map == [SeqNum -> Nat \cup {NONE}]

\* queue_data() keeps the sender's invariant, whatever room there is.
LEMMA CutSender ==
  ASSUME NEW s \in Stream(Nat), NEW w \in Nat, NEW r \in Nat, NEW held \in Map,
         SenderOK(s, w, r, held), NEW t, t = Cut(s)
  PROVE  /\ t \in Stream(Nat) /\ SenderOK(t, w, r, held) /\ SameReceiver(s, t)
         /\ Len(t.tcp_in) <= Len(s.tcp_in)
<1> DEFINE ti == s.tcp_in
           u == s.unacked
           cut == w - Len(ti)
           acked == cut - Len(u)
<1>1. ti \in Seq(Nat)
  BY DEF Stream
<1>2. u \in Seq(Segment(Nat))
  BY DEF Stream
<1>3. cut \in Int /\ cut = w - Len(ti)
  BY <1>1
<1>4. acked \in Int /\ acked = cut - Len(u)
  BY <1>2, <1>3
<1>5. /\ Joined(s)
      /\ s.tx_seq = cut % MOD
      /\ s.tx_acked = acked % MOD
  BY DEF SenderOK
<1>6. acked \in 0 .. r /\ Len(u) <= WINDOW
  BY DEF SenderOK
<1>7. \A i \in 1 .. Len(ti) : ti[i] = cut + i
  BY DEF SenderOK
<1>8. Numbered(u, acked)
  BY DEF SenderOK
<1>9. \A i \in 1 .. Len(u) :
        u[i].sacked => acked + i <= r \/ held[u[i].seq] = acked + i
  BY DEF SenderOK
<1> DEFINE n == IF Len(ti) < WINDOW - Len(u) THEN Len(ti) ELSE WINDOW - Len(u)
           new == [i \in 1 .. n |-> [seq |-> SeqAdd(cut % MOD, i - 1), pay |-> ti[i],
                                     in_flight |-> FALSE, sacked |-> FALSE]]
           v == u \o new
           q == SeqAdd(cut % MOD, n)
           rest == SubSeq(ti, n + 1, Len(ti))
<1>10. t = [s EXCEPT !.unacked = v, !.tx_seq = q, !.tcp_in = rest]
  BY <1>5 DEF Cut
<1> HIDE DEF ti, u, cut, acked
<1>11. acked \in Nat /\ cut \in Nat /\ cut = acked + Len(u)
  BY <1>2, <1>3, <1>4, <1>6
<1>12. n \in Nat /\ n <= Len(ti) /\ Len(u) + n <= WINDOW
  BY <1>1, <1>2, <1>6, ModPositive
<1> HIDE DEF n
<1>13. /\ new \in Seq(Segment(Nat)) /\ Len(new) = n
       /\ Numbered(new, cut)
       /\ \A i \in 1 .. n : ~new[i].sacked
  BY <1>1, <1>7, <1>11, <1>12, CutSegments
<1> HIDE DEF new
<1>14. /\ v \in Seq(Segment(Nat)) /\ Len(v) = Len(u) + n
       /\ Numbered(v, acked)
       /\ \A i \in 1 .. Len(v) : v[i].sacked => i \in 1 .. Len(u) /\ v[i] = u[i]
  <2>1. new \in Seq(Segment(Nat)) /\ Numbered(new, cut) /\ Len(new) = n
    BY <1>13
  <2>2. \A i \in 1 .. Len(new) : ~new[i].sacked
    BY <1>13
  <2>3. /\ v \in Seq(Segment(Nat)) /\ Len(v) = Len(u) + Len(new)
        /\ Numbered(v, acked)
        /\ \A i \in 1 .. Len(v) : v[i].sacked => i \in 1 .. Len(u) /\ v[i] = u[i]
    BY <1>2, <1>8, <1>11, <2>1, <2>2, AppendSegments
  <2> HIDE DEF v
  <2> QED BY <2>1, <2>3
<1>15. q \in SeqNum /\ q = (cut + n) % MOD
  <2>1. q = (cut + n) % MOD
    BY <1>11, <1>12, SeqAddAbs
  <2>2. cut + n \in Int
    BY <1>11, <1>12
  <2> QED BY <2>1, <2>2, SeqNumType
<1>16. /\ rest \in Seq(Nat)
       /\ Len(rest) = Len(ti) - n
       /\ \A i \in 1 .. Len(rest) : rest[i] = ti[n + i]
  BY <1>1, <1>12
<1> HIDE DEF v, q, rest
<1>17. t = Record(s.local, s.peer_connect, s.peer_close, s.ack_pending, q,
                  s.rx_seq, s.tx_acked, rest, s.tcp_out, v, s.ctrlq, s.reorder)
  BY <1>10 DEF Stream, Record
<1>18. t \in Stream(Nat)
  BY <1>14, <1>15, <1>16, <1>17 DEF Stream, Record
<1>19. /\ t.local = s.local /\ t.peer_connect = s.peer_connect
       /\ t.peer_close = s.peer_close /\ t.ctrlq = s.ctrlq
       /\ t.tx_acked = s.tx_acked /\ t.tx_seq = q
       /\ t.tcp_in = rest /\ t.unacked = v
       /\ SameReceiver(s, t)
  BY <1>17 DEF Record, SameReceiver
<1>20. /\ w - Len(rest) = cut + n
       /\ (cut + n) - Len(v) = acked
       /\ Len(v) <= WINDOW
       /\ Len(rest) <= Len(ti)
  BY <1>1, <1>2, <1>3, <1>4, <1>12, <1>14, <1>16
<1>21. ASSUME NEW i \in 1 .. Len(rest)
       PROVE  rest[i] = cut + n + i
  <2>1. n + i \in 1 .. Len(ti)
    BY <1>1, <1>12, <1>16
  <2>2. ti[n + i] = cut + (n + i)
    BY <1>7, <2>1
  <2> QED BY <1>11, <1>12, <1>16, <2>2
<1>22. \A i \in 1 .. Len(v) :
         v[i].sacked => acked + i <= r \/ held[v[i].seq] = acked + i
  BY <1>9, <1>14
<1>23. SenderOK(t, w, r, held)
  <2> DEFINE c == cut + n
  <2>1. w - Len(rest) = c /\ c - Len(v) = acked /\ Len(v) <= WINDOW
    BY <1>20
  <2>2. \A i \in 1 .. Len(rest) : rest[i] = c + i
    BY <1>21
  <2>3. t.tx_seq = c % MOD
    BY <1>15, <1>19
  <2> HIDE DEF c
  <2> QED BY <1>5, <1>6, <1>14, <1>19, <1>22, <2>1, <2>2, <2>3 DEF SenderOK, Joined
<1> QED BY <1>18, <1>19, <1>20, <1>23 DEF ti

-----------------------------------------------------------------------------
(* Changing the marks in_flight and sacked.                                *)

\* A segment may become sacked only if the peer has it.
LEMMA MarkSender ==
  ASSUME NEW s \in Stream(Nat), NEW w \in Nat, NEW r \in Nat, NEW held \in Map,
         SenderOK(s, w, r, held),
         NEW v \in Seq(Segment(Nat)), Len(v) = Len(s.unacked),
         \A i \in 1 .. Len(v) :
           v[i].pay = s.unacked[i].pay /\ v[i].seq = s.unacked[i].seq,
         \A i \in 1 .. Len(v) : v[i].sacked =>
           s.unacked[i].sacked \/ v[i].pay <= r \/ held[v[i].seq] = v[i].pay,
         NEW t, t = [s EXCEPT !.unacked = v]
  PROVE  /\ t \in Stream(Nat) /\ SenderOK(t, w, r, held) /\ SameReceiver(s, t)
         /\ t.tcp_in = s.tcp_in /\ Len(t.unacked) = Len(s.unacked)
<1> DEFINE ti == s.tcp_in
           u == s.unacked
           cut == w - Len(ti)
           acked == cut - Len(u)
<1>1. ti \in Seq(Nat)
  BY DEF Stream
<1>2. u \in Seq(Segment(Nat))
  BY DEF Stream
<1>3. cut \in Int
  BY <1>1
<1>4. acked \in Int
  BY <1>2, <1>3
<1>5. /\ Joined(s)
      /\ s.tx_seq = cut % MOD
      /\ s.tx_acked = acked % MOD
  BY DEF SenderOK
<1>6. acked \in 0 .. r /\ Len(u) <= WINDOW
  BY DEF SenderOK
<1>7. \A i \in 1 .. Len(ti) : ti[i] = cut + i
  BY DEF SenderOK
<1>8. Numbered(u, acked)
  BY DEF SenderOK
<1>9. \A i \in 1 .. Len(u) :
        u[i].sacked => acked + i <= r \/ held[u[i].seq] = acked + i
  BY DEF SenderOK
<1>10. t = Record(s.local, s.peer_connect, s.peer_close, s.ack_pending, s.tx_seq,
                  s.rx_seq, s.tx_acked, s.tcp_in, s.tcp_out, v, s.ctrlq, s.reorder)
  BY DEF Stream, Record
<1>11. t \in Stream(Nat)
  BY <1>10 DEF Stream, Record
<1>12. /\ t.local = s.local /\ t.peer_connect = s.peer_connect
       /\ t.peer_close = s.peer_close /\ t.ctrlq = s.ctrlq
       /\ t.tx_acked = s.tx_acked /\ t.tx_seq = s.tx_seq
       /\ t.tcp_in = ti /\ t.unacked = v
       /\ SameReceiver(s, t)
  BY <1>10 DEF Record, SameReceiver
<1>13. Len(v) = Len(u)
  OBVIOUS
<1>14. \A i \in 1 .. Len(v) : v[i].pay = u[i].pay /\ v[i].seq = u[i].seq
  OBVIOUS
<1>15. \A i \in 1 .. Len(v) : v[i].sacked =>
         u[i].sacked \/ v[i].pay <= r \/ held[v[i].seq] = v[i].pay
  OBVIOUS
<1> HIDE DEF u, ti, cut, acked
<1>16. Numbered(v, acked)
  BY <1>8, <1>13, <1>14 DEF Numbered
<1>17. \A i \in 1 .. Len(v) :
         v[i].sacked => acked + i <= r \/ held[v[i].seq] = acked + i
  BY <1>9, <1>13, <1>14, <1>15, <1>16 DEF Numbered
<1>18. w - Len(ti) = cut /\ cut - Len(v) = acked /\ Len(v) <= WINDOW
  BY <1>6, <1>13 DEF cut, acked
<1>19. SenderOK(t, w, r, held)
  BY <1>5, <1>6, <1>7, <1>12, <1>16, <1>17, <1>18 DEF SenderOK, Joined
<1> QED BY <1>11, <1>12, <1>13, <1>19 DEF ti, u

LEMMA MarkSegment ==
  ASSUME NEW g \in Segment(Nat), NEW b \in BOOLEAN
  PROVE  /\ [g EXCEPT !.in_flight = b] \in Segment(Nat)
         /\ [g EXCEPT !.in_flight = b].pay = g.pay
         /\ [g EXCEPT !.in_flight = b].seq = g.seq
         /\ [g EXCEPT !.in_flight = b].sacked = g.sacked
         /\ [g EXCEPT !.sacked = b] \in Segment(Nat)
         /\ [g EXCEPT !.sacked = b].pay = g.pay
         /\ [g EXCEPT !.sacked = b].seq = g.seq
BY DEF Segment

\* on_tick(): a segment whose timer ran out waits to be sent again.
LEMMA ExpireSender ==
  ASSUME NEW s \in Stream(Nat), NEW w \in Nat, NEW r \in Nat, NEW held \in Map,
         SenderOK(s, w, r, held), NEW due, NEW t, t = Expire(s, due)
  PROVE  /\ t \in Stream(Nat) /\ SenderOK(t, w, r, held) /\ SameReceiver(s, t)
         /\ t.tcp_in = s.tcp_in /\ Len(t.unacked) = Len(s.unacked)
<1> DEFINE u == s.unacked
           v == [i \in DOMAIN u |->
                   IF i \in due /\ ~u[i].sacked THEN [u[i] EXCEPT !.in_flight = FALSE]
                   ELSE u[i]]
<1>1. u \in Seq(Segment(Nat))
  BY DEF Stream
<1>2. t = [s EXCEPT !.unacked = v]
  BY DEF Expire, Stream
<1>3. Len(u) = Len(s.unacked) /\ \A i \in 1 .. Len(u) : u[i] = s.unacked[i]
  OBVIOUS
<1> HIDE DEF u
<1>4. ASSUME NEW i \in 1 .. Len(u)
      PROVE  v[i] \in Segment(Nat) /\ v[i].pay = u[i].pay /\ v[i].seq = u[i].seq
             /\ v[i].sacked = u[i].sacked
  <2>1. u[i] \in Segment(Nat) /\ i \in DOMAIN u
    BY <1>1
  <2>2. v[i] = IF i \in due /\ ~u[i].sacked THEN [u[i] EXCEPT !.in_flight = FALSE]
               ELSE u[i]
    BY <2>1
  <2> HIDE DEF v
  <2>3. CASE i \in due /\ ~u[i].sacked
    BY <2>1, <2>2, <2>3, MarkSegment
  <2>4. CASE ~(i \in due /\ ~u[i].sacked)
    BY <2>1, <2>2, <2>4
  <2> QED BY <2>3, <2>4
<1>5. v \in Seq(Segment(Nat)) /\ Len(v) = Len(u)
  <2>1. DOMAIN u = 1 .. Len(u) /\ Len(u) \in Nat
    BY <1>1
  <2>2. DOMAIN v = 1 .. Len(u) /\ \A i \in 1 .. Len(u) : v[i] \in Segment(Nat)
    BY <1>4, <2>1
  <2>3. v = [i \in 1 .. Len(u) |-> v[i]]
    BY <2>1
  <2> HIDE DEF v
  <2> QED BY <2>1, <2>2, <2>3
<1> HIDE DEF v
<1> QED BY <1>2, <1>3, <1>4, <1>5, MarkSender

\* apply_sack(): right as long as the peer has what its SACK names.
LEMMA SackSender ==
  ASSUME NEW s \in Stream(Nat), NEW w \in Nat, NEW r \in Nat, NEW held \in Map,
         SenderOK(s, w, r, held), NEW sns,
         \A i \in 1 .. Len(s.unacked) : s.unacked[i].seq \in sns =>
           s.unacked[i].pay <= r \/ held[s.unacked[i].seq] = s.unacked[i].pay,
         NEW t, t = ApplySack(s, sns)
  PROVE  /\ t \in Stream(Nat) /\ SenderOK(t, w, r, held) /\ SameReceiver(s, t)
         /\ t.tcp_in = s.tcp_in /\ Len(t.unacked) = Len(s.unacked)
<1> DEFINE u == s.unacked
           v == [i \in DOMAIN u |->
                   IF u[i].seq \in sns THEN [u[i] EXCEPT !.sacked = TRUE] ELSE u[i]]
<1>1. u \in Seq(Segment(Nat))
  BY DEF Stream
<1>2. t = [s EXCEPT !.unacked = v]
  BY DEF ApplySack, Stream
<1>3. Len(u) = Len(s.unacked) /\ \A i \in 1 .. Len(u) : u[i] = s.unacked[i]
  OBVIOUS
<1>4. \A i \in 1 .. Len(u) : u[i].seq \in sns =>
        u[i].pay <= r \/ held[u[i].seq] = u[i].pay
  OBVIOUS
<1> HIDE DEF u
<1>5. ASSUME NEW i \in 1 .. Len(u)
      PROVE  /\ v[i] \in Segment(Nat) /\ v[i].pay = u[i].pay /\ v[i].seq = u[i].seq
             /\ v[i].sacked => u[i].sacked \/ v[i].pay <= r \/ held[v[i].seq] = v[i].pay
  <2>1. u[i] \in Segment(Nat) /\ i \in DOMAIN u
    BY <1>1
  <2>2. v[i] = IF u[i].seq \in sns THEN [u[i] EXCEPT !.sacked = TRUE] ELSE u[i]
    BY <2>1
  <2> HIDE DEF v
  <2>3. CASE u[i].seq \in sns
    <3>1. u[i].pay <= r \/ held[u[i].seq] = u[i].pay
      BY <1>4, <2>3
    <3>2. v[i] \in Segment(Nat) /\ v[i].pay = u[i].pay /\ v[i].seq = u[i].seq
      BY <2>1, <2>2, <2>3, MarkSegment
    <3> QED BY <3>1, <3>2
  <2>4. CASE ~(u[i].seq \in sns)
    BY <2>1, <2>2, <2>4
  <2> QED BY <2>3, <2>4
<1>6. v \in Seq(Segment(Nat)) /\ Len(v) = Len(u)
  <2>1. DOMAIN u = 1 .. Len(u) /\ Len(u) \in Nat
    BY <1>1
  <2>2. DOMAIN v = 1 .. Len(u) /\ \A i \in 1 .. Len(u) : v[i] \in Segment(Nat)
    BY <1>5, <2>1
  <2>3. v = [i \in 1 .. Len(u) |-> v[i]]
    BY <2>1
  <2> HIDE DEF v
  <2> QED BY <2>1, <2>2, <2>3
<1>7. \A i \in 1 .. Len(v) : v[i].pay = s.unacked[i].pay /\ v[i].seq = s.unacked[i].seq
  BY <1>3, <1>5, <1>6
<1>8. \A i \in 1 .. Len(v) : v[i].sacked =>
        s.unacked[i].sacked \/ v[i].pay <= r \/ held[v[i].seq] = v[i].pay
  BY <1>3, <1>5, <1>6
<1>9. Len(v) = Len(s.unacked)
  BY <1>3, <1>6
<1>10. w \in Nat /\ r \in Nat /\ held \in Map /\ s \in Stream(Nat) /\ SenderOK(s, w, r, held)
  OBVIOUS
<1> HIDE DEF v
<1> QED BY ONLY <1>2, <1>6, <1>7, <1>8, <1>9, <1>10, MarkSender

-----------------------------------------------------------------------------
(* apply_ack()                                                             *)

\* An ACK of m segments by a peer that received r: taken when it is news,
\* refused when it is old, whatever the numbers have wrapped to.
LEMMA AckSender ==
  ASSUME NEW s \in Stream(Nat), NEW w \in Nat, NEW r \in Nat, NEW held \in Map,
         SenderOK(s, w, r, held), NEW m \in 0 .. r,
         r <= w - Len(s.tcp_in),
         (w - Len(s.tcp_in)) - Len(s.unacked) - m < MOD - WINDOW,
         NEW t, t = ApplyAck(s, m % MOD)
  PROVE  /\ t \in Stream(Nat) /\ SenderOK(t, w, r, held) /\ SameReceiver(s, t)
         /\ t.tcp_in = s.tcp_in
         /\ ((w - Len(t.tcp_in)) - Len(t.unacked)) - m \in 0 .. MOD - WINDOW
<1> DEFINE ti == s.tcp_in
           u == s.unacked
           cut == w - Len(ti)
           acked == cut - Len(u)
           delta == SeqDiff(m % MOD, s.tx_acked)
<1>1. ti \in Seq(Nat)
  BY DEF Stream
<1>2. u \in Seq(Segment(Nat))
  BY DEF Stream
<1>3. cut \in Int /\ r <= cut
  BY <1>1
<1>4. acked \in Int /\ acked = cut - Len(u)
  BY <1>2, <1>3
<1>5. /\ Joined(s)
      /\ s.tx_seq = cut % MOD
      /\ s.tx_acked = acked % MOD
  BY DEF SenderOK
<1>6. acked \in 0 .. r /\ Len(u) <= WINDOW
  BY DEF SenderOK
<1>7. \A i \in 1 .. Len(ti) : ti[i] = cut + i
  BY DEF SenderOK
<1>8. Numbered(u, acked)
  BY DEF SenderOK
<1>9. \A i \in 1 .. Len(u) :
        u[i].sacked => acked + i <= r \/ held[u[i].seq] = acked + i
  BY DEF SenderOK
<1>10. t = IF delta = 0 \/ delta > Len(u) \/ delta > WINDOW THEN s
           ELSE [s EXCEPT !.unacked = SubSeq(u, delta + 1, Len(u)),
                          !.tx_acked = SeqAdd(acked % MOD, delta)]
  BY <1>5 DEF ApplyAck
<1>11. acked - m < MOD - WINDOW
  BY <1>1, <1>2, <1>3, <1>4
<1>12. delta = SeqDiff(m % MOD, acked % MOD)
  BY <1>5
<1>13. w - Len(ti) = cut
  OBVIOUS
<1> HIDE DEF ti, u, cut, acked, delta
<1>14. delta = IF m >= acked THEN m - acked ELSE (m - acked) + MOD
  <2>1. m - acked < MOD /\ acked - m < MOD /\ m \in Int /\ acked \in Int
    BY <1>2, <1>3, <1>4, <1>6, <1>11, ModPositive
  <2>2. SeqDiff(m % MOD, acked % MOD) = IF m >= acked THEN m - acked ELSE m - acked + MOD
    BY <2>1, SeqDiffAbs
  <2> QED BY <1>12, <2>1, <2>2, ModPositive
<1>15. CASE m > acked
  <2> DEFINE v == SubSeq(u, delta + 1, Len(u))
             q == SeqAdd(acked % MOD, delta)
  <2>1. delta = m - acked /\ delta \in 1 .. Len(u) /\ delta <= WINDOW
    <3>1. delta = m - acked
      BY <1>4, <1>14, <1>15
    <3>2. Len(u) \in Nat /\ Len(u) = cut - acked
      BY <1>2, <1>3, <1>4
    <3>3. m <= cut
      BY <1>3
    <3> QED BY <1>3, <1>4, <1>6, <1>15, <3>1, <3>2, <3>3, ModPositive
  <2>2. t = [s EXCEPT !.unacked = v, !.tx_acked = q]
    BY <1>2, <1>10, <2>1, ModPositive
  <2>3. /\ v \in Seq(Segment(Nat)) /\ Len(v) = Len(u) - delta
        /\ \A i \in 1 .. Len(v) : v[i] = u[delta + i]
    <3>1. delta \in 0 .. Len(u)
      BY <2>1
    <3> HIDE DEF v
    <3>2. v = SubSeq(u, delta + 1, Len(u))
      BY DEF v
    <3> QED BY ONLY <1>2, <3>1, <3>2, Drops
  <2>4. q \in SeqNum /\ q = m % MOD
    <3>1. q = (acked + delta) % MOD
      BY <1>4, <2>1, SeqAddAbs
    <3>2. acked + delta = m
      BY <1>4, <2>1
    <3> QED BY <3>1, <3>2, SeqNumType
  <2> HIDE DEF v, q
  <2>5. t = Record(s.local, s.peer_connect, s.peer_close, s.ack_pending, s.tx_seq,
                   s.rx_seq, q, s.tcp_in, s.tcp_out, v, s.ctrlq, s.reorder)
    BY <2>2 DEF Stream, Record
  <2>6. t \in Stream(Nat)
    BY <2>3, <2>4, <2>5 DEF Stream, Record
  <2>7. /\ t.local = s.local /\ t.peer_connect = s.peer_connect
        /\ t.peer_close = s.peer_close /\ t.ctrlq = s.ctrlq
        /\ t.tx_acked = q /\ t.tx_seq = s.tx_seq
        /\ t.tcp_in = ti /\ t.unacked = v
        /\ SameReceiver(s, t)
    BY <2>5 DEF Record, SameReceiver, ti
  <2>8. cut - Len(v) = m /\ Len(v) <= WINDOW
    <3>1. Len(u) \in Nat
      BY <1>2
    <3>2. Len(v) = Len(u) - delta
      BY <2>3
    <3> QED BY <1>3, <1>4, <1>6, <2>1, <3>1, <3>2, ModPositive
  <2>9. ASSUME NEW i \in 1 .. Len(v)
        PROVE  /\ v[i].pay = m + i
               /\ v[i].seq = (m + i - 1) % MOD
               /\ v[i].sacked => m + i <= r \/ held[v[i].seq] = m + i
    <3>1. PICK j \in 1 .. Len(u) : j = delta + i
      BY <1>2, <2>1, <2>3
    <3>2. v[i] = u[j]
      BY <2>3, <3>1
    <3>5. acked + j = m + i /\ acked + j - 1 = m + i - 1
      <4>1. i \in Int /\ m \in Int
        BY ONLY <1>2, <2>3, <2>1, <1>3, r \in Nat, m \in 0 .. r, i \in 1 .. Len(v)
      <4> QED BY ONLY <1>4, <2>1, <3>1, <4>1
    <3>3. u[j].pay = acked + j /\ u[j].seq = (acked + j - 1) % MOD
      BY <1>8 DEF Numbered
    <3>4. u[j].sacked => acked + j <= r \/ held[u[j].seq] = acked + j
      BY <1>9
    <3> QED BY <3>2, <3>3, <3>4, <3>5
  <2>10. Numbered(v, m)
    BY <2>9 DEF Numbered
  <2>11. \A i \in 1 .. Len(v) : v[i].sacked => m + i <= r \/ held[v[i].seq] = m + i
    BY <2>9
  <2>12. SenderOK(t, w, r, held)
    <3>1. w - Len(t.tcp_in) = cut /\ t.unacked = v /\ t.tx_acked = m % MOD
      BY <1>13, <2>4, <2>7
    <3>2. Joined(t) /\ t.tx_seq = cut % MOD
      BY <1>5, <2>7 DEF Joined
    <3>3. \A i \in 1 .. Len(t.tcp_in) : t.tcp_in[i] = cut + i
      BY <1>7, <2>7
    <3>4. cut - Len(v) = m /\ m \in 0 .. r
      BY <2>8
    <3> QED BY ONLY <2>8, <2>10, <2>11, <3>1, <3>2, <3>3, <3>4 DEF SenderOK
  <2>13. (w - Len(t.tcp_in)) - Len(t.unacked) = m
    BY <1>13, <2>7, <2>8
  <2>14. m - m = 0 /\ 0 \in 0 .. MOD - WINDOW
    BY ModPositive
  <2>15. ((w - Len(t.tcp_in)) - Len(t.unacked)) - m \in 0 .. MOD - WINDOW
    BY <2>13, <2>14
  <2> QED BY <2>6, <2>7, <2>12, <2>15 DEF ti
<1>16. CASE m <= acked
  <2>1. delta = 0 \/ delta > WINDOW
    BY <1>4, <1>11, <1>14, <1>16, ModPositive
  <2>2. t = s
    BY <1>10, <2>1
  <2>3. acked - m \in 0 .. MOD - WINDOW
    BY <1>4, <1>11, <1>16, ModPositive
  <2>4. ((w - Len(t.tcp_in)) - Len(t.unacked)) - m \in 0 .. MOD - WINDOW
    BY <2>2, <2>3 DEF ti, u, cut, acked
  <2> QED BY <2>2, <2>4 DEF SameReceiver
<1>17. m > acked \/ m <= acked
  BY <1>4
<1> QED BY <1>15, <1>16, <1>17

\* Within a window, one sequence number stands for one segment.
LEMMA SameSegment ==
  ASSUME NEW a \in Int, NEW i \in Int, NEW k \in Int, NEW m \in Int, NEW c \in Int,
         a - m <= MOD - WINDOW, c <= a + WINDOW,
         1 <= i, a + i <= c, m + 2 <= k, k <= c,
         (a + i - 1) % MOD = (k - 1) % MOD
  PROVE  k = a + i
<1> DEFINE p == a + i - 1
           j == k - 1
<1>1. p \in Int /\ j \in Int /\ p - j < MOD /\ j - p < MOD
  BY ModPositive
<1>2. p % MOD = j % MOD
  OBVIOUS
<1>3. p = j
  <2> HIDE DEF p, j
  <2> QED BY <1>1, <1>2, ModPositive, ModInjective
<1> QED BY <1>3

\* The numbers sns, sent with the ACK number m, are those of segments up to cut
\* that the peer has received or holds in reorder.
TrueSack(sns, m, cut, r, held) ==
  \A x \in sns : \E k \in m + 2 .. m + WINDOW :
    /\ k <= cut
    /\ x = (k - 1) % MOD
    /\ k <= r \/ held[x] = k

\* The segments of u that sns names have been received or are held.
NamedAreHeld(u, sns, r, held) ==
  \A i \in 1 .. Len(u) : u[i].seq \in sns =>
    u[i].pay <= r \/ held[u[i].seq] = u[i].pay

\* A SACK names only segments of unacked that the peer has: a sequence number
\* of the window stands for one segment.
LEMMA SackNames ==
  ASSUME NEW s \in Stream(Nat), NEW w \in Nat, NEW r \in Nat, NEW held \in Map,
         SenderOK(s, w, r, held), NEW m \in 0 .. r,
         ((w - Len(s.tcp_in)) - Len(s.unacked)) - m \in 0 .. MOD - WINDOW,
         NEW sns
  PROVE  TrueSack(sns, m, w - Len(s.tcp_in), r, held)
         => NamedAreHeld(s.unacked, sns, r, held)
<1> DEFINE ti == s.tcp_in
           u == s.unacked
           cut == w - Len(ti)
           acked == cut - Len(u)
<1>1. Len(ti) \in Nat
  BY DEF Stream
<1>2. Len(u) \in Nat
  BY DEF Stream
<1>3. cut \in Int /\ acked \in Int /\ acked = cut - Len(u)
  BY <1>1, <1>2
<1>4. Len(u) <= WINDOW
  BY DEF SenderOK
<1>5. Numbered(u, acked)
  BY DEF SenderOK
<1>6. acked - m \in 0 .. MOD - WINDOW
  OBVIOUS
<1>7. SUFFICES ASSUME \A x \in sns : \E k \in m + 2 .. m + WINDOW :
                        /\ k <= cut
                        /\ x = (k - 1) % MOD
                        /\ k <= r \/ held[x] = k
               PROVE  \A i \in 1 .. Len(u) : u[i].seq \in sns =>
                        u[i].pay <= r \/ held[u[i].seq] = u[i].pay
  BY DEF TrueSack, NamedAreHeld
<1> HIDE DEF cut, acked
<1>8. ASSUME NEW i \in 1 .. Len(u), u[i].seq \in sns
      PROVE  u[i].pay <= r \/ held[u[i].seq] = u[i].pay
  <2>1. u[i].pay = acked + i /\ u[i].seq = (acked + i - 1) % MOD
    BY <1>5 DEF Numbered
  <2>2. PICK k \in m + 2 .. m + WINDOW :
          /\ k <= cut
          /\ u[i].seq = (k - 1) % MOD
          /\ k <= r \/ held[u[i].seq] = k
    BY <1>7, <1>8
  <2>3. /\ i \in Int /\ k \in Int /\ m \in Int
        /\ 1 <= i /\ acked + i <= cut /\ m + 2 <= k
    BY <1>2, <1>3, ModPositive
  <2>4. acked - m <= MOD - WINDOW /\ cut <= acked + WINDOW
    <3>1. cut <= acked + WINDOW
      BY <1>2, <1>3, <1>4, ModPositive
    <3>2. MOD - WINDOW \in Int
      BY ModPositive
    <3>3. acked - m <= MOD - WINDOW
      BY <1>6, <3>2
    <3> QED BY <3>1, <3>3
  <2>5. k = acked + i
    BY <1>3, <2>1, <2>2, <2>3, <2>4, SameSegment
  <2> QED BY <2>1, <2>2, <2>5
<1> QED BY <1>8

-----------------------------------------------------------------------------
(* on_tcp_bytes(), on_tick()                                               *)

LEMMA WriteSender ==
  ASSUME NEW s \in Stream(Nat), NEW w \in Nat, NEW r \in Nat, NEW held \in Map,
         SenderOK(s, w, r, held), Established(s), NEW t, t = OnTcpBytes(s, w + 1)
  PROVE  /\ t \in Stream(Nat) /\ SenderOK(t, w + 1, r, held) /\ SameReceiver(s, t)
         /\ Len(t.tcp_in) <= Len(s.tcp_in) + 1
<1> DEFINE ti == s.tcp_in
           u == s.unacked
           cut == w - Len(ti)
           acked == cut - Len(u)
           more == Append(ti, w + 1)
           z == [s EXCEPT !.tcp_in = more]
<1>1. ti \in Seq(Nat)
  BY DEF Stream
<1>2. u \in Seq(Segment(Nat))
  BY DEF Stream
<1>3. cut \in Int /\ acked \in Int
  BY <1>1, <1>2
<1>4. /\ Joined(s)
      /\ s.tx_seq = cut % MOD
      /\ s.tx_acked = acked % MOD
  BY DEF SenderOK
<1>5. acked \in 0 .. r /\ Len(u) <= WINDOW
  BY DEF SenderOK
<1>6. \A i \in 1 .. Len(ti) : ti[i] = cut + i
  BY DEF SenderOK
<1>7. Numbered(u, acked)
  BY DEF SenderOK
<1>8. \A i \in 1 .. Len(u) :
        u[i].sacked => acked + i <= r \/ held[u[i].seq] = acked + i
  BY DEF SenderOK
<1>10. t = Cut(z)
  BY DEF OnTcpBytes
<1>11. cut = w - Len(ti) /\ acked = cut - Len(u)
  OBVIOUS
<1> HIDE DEF ti, u, cut, acked, more
<1>12. /\ more \in Seq(Nat) /\ Len(more) = Len(ti) + 1
       /\ \A i \in 1 .. Len(more) : more[i] = IF i <= Len(ti) THEN ti[i] ELSE w + 1
  BY <1>1 DEF more
<1>20. z = [s EXCEPT !.tcp_in = more]
  OBVIOUS
<1> HIDE DEF z
<1>9. z = Record(s.local, s.peer_connect, s.peer_close, s.ack_pending, s.tx_seq,
                 s.rx_seq, s.tx_acked, more, s.tcp_out, s.unacked, s.ctrlq, s.reorder)
  BY <1>20 DEF Stream, Record
<1>13. z \in Stream(Nat)
  BY <1>9, <1>12 DEF Stream, Record
<1>14. /\ z.local = s.local /\ z.peer_connect = s.peer_connect
       /\ z.peer_close = s.peer_close /\ z.ctrlq = s.ctrlq
       /\ z.tx_acked = s.tx_acked /\ z.tx_seq = s.tx_seq
       /\ z.tcp_in = more /\ z.unacked = u
       /\ SameReceiver(s, z)
  BY <1>9 DEF Record, SameReceiver, u
<1>15. (w + 1) - Len(more) = cut
  BY <1>1, <1>11, <1>12
<1>16. ASSUME NEW i \in 1 .. Len(more)
       PROVE  more[i] = cut + i
  <2>1. CASE i <= Len(ti)
    BY <1>1, <1>6, <1>12, <2>1
  <2>2. CASE i = Len(ti) + 1
    BY <1>1, <1>3, <1>11, <1>12, <2>2
  <2> QED BY <1>1, <1>12, <2>1, <2>2
<1>17. SenderOK(z, w + 1, r, held)
  BY <1>4, <1>5, <1>7, <1>8, <1>11, <1>14, <1>15, <1>16 DEF SenderOK, Joined
<1>18. w + 1 \in Nat
  OBVIOUS
<1>19. /\ t \in Stream(Nat) /\ SenderOK(t, w + 1, r, held) /\ SameReceiver(z, t)
       /\ Len(t.tcp_in) <= Len(z.tcp_in)
  BY <1>10, <1>13, <1>17, <1>18, CutSender
<1> QED BY <1>12, <1>14, <1>19 DEF SameReceiver, ti

LEMMA QueueSender ==
  ASSUME NEW s \in Stream(Nat), NEW w \in Nat, NEW r \in Nat, NEW held \in Map,
         SenderOK(s, w, r, held), NEW t, t = QueueData(s)
  PROVE  /\ t \in Stream(Nat) /\ SenderOK(t, w, r, held) /\ SameReceiver(s, t)
         /\ Len(t.tcp_in) <= Len(s.tcp_in)
<1>1. CASE Established(s)
  <2>1. t = Cut(s)
    BY <1>1 DEF QueueData
  <2> QED BY <2>1, CutSender
<1>2. CASE ~Established(s)
  <2>1. t = s
    BY <1>2 DEF QueueData
  <2>2. Len(s.tcp_in) \in Nat
    BY DEF Stream
  <2> QED BY <2>1, <2>2 DEF SameReceiver
<1> QED BY <1>1, <1>2

\* A CONNECT more in ctrlq: local_up(), and on_tick() of an unanswered one.
LEMMA ConnectSender ==
  ASSUME NEW s \in Stream(Nat), NEW w \in Nat, NEW r \in Nat, NEW held \in Map,
         SenderOK(s, w, r, held), NEW up \in BOOLEAN, NEW t
  PROVE  t = [s EXCEPT !.local = up, !.ctrlq = Append(s.ctrlq, "CONNECT")] =>
           /\ t \in Stream(Nat) /\ SenderOK(t, w, r, held) /\ SameReceiver(s, t)
           /\ t.tcp_in = s.tcp_in
<1>0. SUFFICES ASSUME t = [s EXCEPT !.local = up, !.ctrlq = Append(s.ctrlq, "CONNECT")]
               PROVE  /\ t \in Stream(Nat) /\ SenderOK(t, w, r, held) /\ SameReceiver(s, t)
                      /\ t.tcp_in = s.tcp_in
  OBVIOUS
<1> DEFINE q == s.ctrlq
           v == Append(q, "CONNECT")
<1>1. t = [s EXCEPT !.local = up, !.ctrlq = v]
  BY <1>0
<1>2. q \in Seq(CtrlType) /\ "CONNECT" \in CtrlType
  BY DEF Stream, CtrlType
<1>3. Joined(s)
  BY DEF SenderOK
<1>4. \A i \in 1 .. Len(q) : q[i] = "CONNECT"
  BY <1>3 DEF Joined
<1> HIDE DEF q
<1>5. v \in Seq(CtrlType) /\ \A i \in 1 .. Len(v) : v[i] = "CONNECT"
  BY <1>2, <1>4
<1> HIDE DEF v
<1>6. t = Record(up, s.peer_connect, s.peer_close, s.ack_pending, s.tx_seq,
                 s.rx_seq, s.tx_acked, s.tcp_in, s.tcp_out, s.unacked, v, s.reorder)
  BY <1>1 DEF Stream, Record
<1>7. t \in Stream(Nat)
  BY <1>5, <1>6 DEF Stream, Record
<1>8. /\ t.peer_close = s.peer_close /\ t.ctrlq = v
      /\ t.tx_acked = s.tx_acked /\ t.tx_seq = s.tx_seq
      /\ t.tcp_in = s.tcp_in /\ t.unacked = s.unacked /\ SameReceiver(s, t)
  BY ONLY <1>6 DEF Record, SameReceiver
<1>9. Joined(t)
  BY <1>3, <1>5, <1>8 DEF Joined
<1>10. SenderOK(t, w, r, held)
  BY <1>8, <1>9 DEF SenderOK
<1> QED BY <1>7, <1>8, <1>10

LEMMA TickSender ==
  ASSUME NEW s \in Stream(Nat), NEW w \in Nat, NEW r \in Nat, NEW held \in Map,
         SenderOK(s, w, r, held), NEW due, NEW reconnect \in BOOLEAN,
         NEW t, t = OnTick(s, due, reconnect)
  PROVE  /\ t \in Stream(Nat) /\ SenderOK(t, w, r, held) /\ SameReceiver(s, t)
         /\ Len(t.tcp_in) <= Len(s.tcp_in)
<1> DEFINE z == Expire(s, due)
           y == Reconnect(z, reconnect)
<1>1. /\ z \in Stream(Nat) /\ SenderOK(z, w, r, held) /\ SameReceiver(s, z)
      /\ z.tcp_in = s.tcp_in
  BY ExpireSender
<1>2. t = QueueData(y)
  BY DEF OnTick
<1>3. y = z \/ y = [z EXCEPT !.ctrlq = Append(@, "CONNECT")]
  BY DEF Reconnect
<1> HIDE DEF y, z
<1>4. /\ y \in Stream(Nat) /\ SenderOK(y, w, r, held) /\ SameReceiver(z, y)
      /\ y.tcp_in = z.tcp_in
  <2>1. CASE y = z
    BY <1>1, <2>1 DEF SameReceiver
  <2>2. CASE y = [z EXCEPT !.ctrlq = Append(@, "CONNECT")]
    <3>1. y = [z EXCEPT !.local = z.local, !.ctrlq = Append(z.ctrlq, "CONNECT")]
      BY <1>1, <2>2 DEF Stream
    <3> DEFINE up == z.local
    <3>2. up \in BOOLEAN
      BY <1>1 DEF Stream
    <3>4. y = [z EXCEPT !.local = up, !.ctrlq = Append(z.ctrlq, "CONNECT")]
      BY <3>1
    <3> HIDE DEF up
    <3>3. y = [z EXCEPT !.local = up, !.ctrlq = Append(z.ctrlq, "CONNECT")] =>
            /\ y \in Stream(Nat) /\ SenderOK(y, w, r, held) /\ SameReceiver(z, y)
            /\ y.tcp_in = z.tcp_in
      BY <1>1, <3>2, ConnectSender
    <3> QED BY <3>3, <3>4
  <2> QED BY <1>3, <2>1, <2>2
<1>5. /\ SenderOK(t, w, r, held) /\ SameReceiver(y, t)
      /\ t \in Stream(Nat) /\ Len(t.tcp_in) <= Len(y.tcp_in)
  BY <1>2, <1>4, QueueSender
<1> QED BY <1>1, <1>4, <1>5 DEF SameReceiver

-----------------------------------------------------------------------------
(* deliver_data()                                                          *)

\* What a method of the receiving side leaves alone.
SameSender(s, t) ==
  /\ t.peer_close = s.peer_close /\ t.ctrlq = s.ctrlq
  /\ t.tx_acked = s.tx_acked /\ t.tx_seq = s.tx_seq
  /\ t.tcp_in = s.tcp_in /\ t.unacked = s.unacked

LEMMA SenderUntouched ==
  ASSUME NEW s, NEW t, NEW w, NEW r, NEW held,
         SenderOK(s, w, r, held), SameSender(s, t)
  PROVE  SenderOK(t, w, r, held)
BY DEF SenderOK, Joined, SameSender

LEMMA ReceiverUntouched ==
  ASSUME NEW s, NEW t, NEW g, NEW n,
         ReceiverOK(s, g, n), SameReceiver(s, t)
  PROVE  ReceiverOK(t, g, n)
BY DEF ReceiverOK, SameReceiver

\* In the window, reorder holds under a sequence number its own segment or none.
LEMMA EntryAt ==
  ASSUME NEW f \in Map, NEW r \in Nat, NEW n \in Nat, Ahead(f, r, n),
         NEW j \in 1 .. WINDOW, f[(r + j) % MOD] # NONE
  PROVE  f[(r + j) % MOD] = r + j + 1 /\ j < WINDOW /\ r + j + 1 <= n
<1> DEFINE c == r + j
           x == c % MOD
<1>1. c \in Int /\ c = r + j /\ MOD \in Int /\ WINDOW \in Int /\ WINDOW < MOD
  BY ModPositive
<1> HIDE DEF c
<1>2. x \in SeqNum
  BY <1>1, SeqNumType
<1>3. x = (r + j) % MOD /\ f[x] # NONE
  BY <1>1
<1>4. f[x] \in r + 2 .. r + WINDOW /\ f[x] <= n /\ x = (f[x] - 1) % MOD
  BY <1>2, <1>3 DEF Ahead
<1>5. PICK k \in r + 2 .. r + WINDOW : k = f[x]
  BY <1>4
<1>6. PICK d \in Int : d = k - 1
  BY <1>1, <1>5
<1>7. c - d < MOD /\ d - c < MOD
  BY <1>1, <1>6
<1>8. c % MOD = d % MOD
  BY <1>4, <1>5, <1>6
<1>9. c = d
  BY <1>1, <1>6, <1>7, <1>8, ModPositive, ModInjective
<1>10. k = r + j + 1 /\ j < WINDOW
  BY <1>1, <1>5, <1>6, <1>9
<1> QED BY <1>3, <1>4, <1>5, <1>10

\* RunLength finds the run of segments that follow the hole: it ends, before
\* the window does, at the first that is not buffered.
LEMMA RunEnds ==
  ASSUME NEW f \in Map, NEW r \in Nat, NEW n \in Nat, Ahead(f, r, n),
         NEW m, m = RunLength(f, SeqAdd(r % MOD, 1))
  PROVE  /\ m \in 0 .. WINDOW - 1
         /\ \A i \in 1 .. m : f[(r + i) % MOD] = r + i + 1 /\ r + i + 1 <= n
         /\ f[(r + m + 1) % MOD] = NONE
<1> DEFINE at(k) == SeqAdd(SeqAdd(r % MOD, 1), k)
           S == {k \in 0 .. WINDOW : at(k) \notin Keys(f)}
<1>1. ASSUME NEW k \in 0 .. WINDOW
      PROVE  at(k) = (r + k + 1) % MOD /\ at(k) \in SeqNum
  <2>1. PICK c \in Int : c = r + 1
    OBVIOUS
  <2>2. PICK d \in Int : d = c + k
    BY ModPositive
  <2>3. SeqAdd(r % MOD, 1) = c % MOD
    BY <2>1, SeqAddAbs
  <2>4. k \in Int
    BY ModPositive
  <2>5. SeqAdd(c % MOD, k) = (c + k) % MOD
    BY <2>4, SeqAddAbs
  <2>6. r + k + 1 = d
    BY <2>1, <2>2, <2>4
  <2>7. d % MOD \in SeqNum
    BY SeqNumType
  <2> QED BY <2>2, <2>3, <2>5, <2>6, <2>7
<1>2. m = Least(S)
  BY DEF RunLength
<1> HIDE DEF at
<1>3. ASSUME NEW k \in 0 .. WINDOW
      PROVE  k \in S <=> f[(r + k + 1) % MOD] = NONE
  BY <1>1 DEF Keys
<1>4. WINDOW - 1 \in S
  <2>1. WINDOW \in 1 .. WINDOW /\ WINDOW - 1 \in 0 .. WINDOW
    BY ModPositive
  <2>2. r + (WINDOW - 1) + 1 = r + WINDOW
    BY ModPositive
  <2>3. f[(r + WINDOW) % MOD] = NONE
    <3>1. SUFFICES ASSUME f[(r + WINDOW) % MOD] # NONE PROVE FALSE
      OBVIOUS
    <3>2. WINDOW < WINDOW
      BY <2>1, <3>1, EntryAt
    <3> QED BY <3>2, ModPositive
  <2> QED BY <1>3, <2>1, <2>2, <2>3
<1>5. S \subseteq 0 .. WINDOW
  OBVIOUS
<1> HIDE DEF S
<1>6. m \in S /\ m <= WINDOW - 1 /\ \A k \in S : m <= k
  <2>1. S \in SUBSET Nat /\ S # {}
    BY <1>4, <1>5, ModPositive
  <2>2. Least(S) \in S /\ \A k \in S : Least(S) <= k
    BY <2>1, LeastNat
  <2> QED BY <1>2, <1>4, <2>2
<1>7. m \in 0 .. WINDOW - 1
  BY <1>5, <1>6, ModPositive
<1>8. f[(r + m + 1) % MOD] = NONE
  BY <1>3, <1>5, <1>6
<1>9. ASSUME NEW i \in 1 .. m
      PROVE  f[(r + i) % MOD] = r + i + 1 /\ r + i + 1 <= n
  <2>1. i \in 1 .. WINDOW /\ i - 1 \in 0 .. WINDOW /\ ~(m <= i - 1)
    BY <1>7, ModPositive
  <2>2. i - 1 \notin S
    BY <1>6, <2>1
  <2>3. f[(r + (i - 1) + 1) % MOD] # NONE
    BY <1>3, <2>1, <2>2
  <2>4. r + (i - 1) + 1 = r + i
    BY <2>1
  <2>5. f[(r + i) % MOD] # NONE
    BY <2>3, <2>4
  <2> QED BY <2>1, <2>5, EntryAt
<1> QED BY <1>7, <1>8, <1>9

\* What the segment in the hole releases follows it without a gap.
LEMMA RunSegments ==
  ASSUME NEW f \in Map, NEW r \in Nat, NEW m \in Nat,
         \A i \in 1 .. m : f[(r + i) % MOD] = r + i + 1
  PROVE  LET run == [i \in 1 .. m |-> f[SeqAdd(r % MOD, i)]]
         IN run \in Seq(Nat) /\ Len(run) = m /\ \A i \in 1 .. m : run[i] = r + i + 1
<1> DEFINE run == [i \in 1 .. m |-> f[SeqAdd(r % MOD, i)]]
<1>1. ASSUME NEW i \in 1 .. m
      PROVE  run[i] = r + i + 1 /\ r + i + 1 \in Nat
  <2>1. SeqAdd(r % MOD, i) = (r + i) % MOD
    BY SeqAddAbs
  <2> QED BY <2>1
<1>2. run \in Seq(Nat) /\ Len(run) = m
  BY <1>1
<1> QED BY <1>1, <1>2

\* Taking the run out of reorder leaves what is ahead of the new hole.
LEMMA RunReleases ==
  ASSUME NEW f \in Map, NEW r \in Nat, NEW n \in Nat, Ahead(f, r, n),
         NEW m \in 0 .. WINDOW - 1, f[(r + m + 1) % MOD] = NONE
  PROVE  LET released == {SeqAdd(r % MOD, i) : i \in 1 .. m}
             h == [x \in SeqNum |-> IF x \in released THEN NONE ELSE f[x]]
         IN /\ h \in Map
            /\ Ahead(h, r + m + 1, n)
            /\ \A x \in SeqNum : f[x] # NONE => h[x] = f[x] \/ f[x] <= r + m + 1
<1> DEFINE released == {SeqAdd(r % MOD, i) : i \in 1 .. m}
           h == [x \in SeqNum |-> IF x \in released THEN NONE ELSE f[x]]
<1>1. h \in Map
  BY DEF Map
<1>2. ASSUME NEW x \in SeqNum, x \in released, f[x] # NONE
      PROVE  f[x] <= r + m + 1
  <2>1. PICK i \in 1 .. m : x = SeqAdd(r % MOD, i)
    BY <1>2
  <2>2. i \in 1 .. WINDOW /\ i \in Int
    BY ModPositive
  <2>3. x = (r + i) % MOD
    BY <2>1, <2>2, SeqAddAbs
  <2>4. f[x] = r + i + 1
    BY <1>2, <2>2, <2>3, EntryAt
  <2> QED BY <2>4, ModPositive
<1>3. ASSUME NEW x \in SeqNum, x \notin released, f[x] # NONE
      PROVE  /\ f[x] \in (r + m + 1) + 2 .. (r + m + 1) + WINDOW
             /\ f[x] <= n
             /\ x = (f[x] - 1) % MOD
  <2>1. f[x] \in r + 2 .. r + WINDOW /\ f[x] <= n /\ x = (f[x] - 1) % MOD
    BY <1>3 DEF Ahead
  <2>2. PICK k \in r + 2 .. r + WINDOW : k = f[x]
    BY <2>1
  <2>3. PICK j \in 1 .. WINDOW - 1 : j = k - 1 - r
    BY ModPositive
  <2>4. k - 1 = r + j /\ k = r + j + 1
    BY <2>3, ModPositive
  <2>5. x = (r + j) % MOD
    BY <2>1, <2>2, <2>4
  <2>6. ~(j <= m)
    <3>1. SUFFICES ASSUME j <= m PROVE FALSE
      OBVIOUS
    <3>2. j \in 1 .. m /\ j \in Int
      BY <3>1, ModPositive
    <3>3. SeqAdd(r % MOD, j) = x
      BY <2>5, <3>2, SeqAddAbs
    <3> QED BY <1>3, <3>2, <3>3
  <2>7. j # m + 1
    <3>1. SUFFICES ASSUME j = m + 1 PROVE FALSE
      OBVIOUS
    <3>2. r + j = r + m + 1
      BY <3>1
    <3>3. x = (r + m + 1) % MOD
      BY <2>5, <3>2
    <3> QED BY <1>3, <3>3
  <2>8. k \in (r + m + 1) + 2 .. (r + m + 1) + WINDOW
    BY <2>4, <2>6, <2>7, ModPositive
  <2> QED BY <2>1, <2>2, <2>8
<1>4. Ahead(h, r + m + 1, n)
  BY <1>3 DEF Ahead
<1>5. \A x \in SeqNum : f[x] # NONE => h[x] = f[x] \/ f[x] <= r + m + 1
  BY <1>2
<1> QED BY <1>1, <1>4, <1>5

Count(s, g) == Len(g) + Len(s.tcp_out)

\* The reorder entries of s are still in that of t, or were received.
Keeps(s, t, g) ==
  \A x \in SeqNum : s.reorder[x] # NONE =>
    t.reorder[x] = s.reorder[x] \/ s.reorder[x] <= Count(t, g)

LEMMA ReceiverRecord ==
  ASSUME NEW s \in Stream(Nat), NEW q \in SeqNum, NEW o \in Seq(Nat), NEW h \in Map, NEW t,
         t = Record(s.local, s.peer_connect, s.peer_close, TRUE, s.tx_seq,
                    q, s.tx_acked, s.tcp_in, o, s.unacked, s.ctrlq, h)
  PROVE  t \in Stream(Nat)
BY DEF Stream, Record, Map

LEMMA RunReceiver ==
  ASSUME NEW s \in Stream(Nat), NEW g \in Seq(Nat), NEW n \in Nat,
         ReceiverOK(s, g, n), s.peer_connect,
         NEW pay \in Nat, pay = Count(s, g) + 1, pay <= n,
         NEW t, t = DeliverRun(s, pay)
  PROVE  /\ t \in Stream(Nat) /\ ReceiverOK(t, g, n) /\ SameSender(s, t)
         /\ Count(s, g) <= Count(t, g) /\ Keeps(s, t, g)
<1> DEFINE o == s.tcp_out
           f == s.reorder
           r == Len(g) + Len(o)
           m == RunLength(f, SeqAdd(r % MOD, 1))
           run == [i \in 1 .. m |-> f[SeqAdd(r % MOD, i)]]
           more == Append(o, pay) \o run
           q == SeqAdd(r % MOD, m + 1)
           h == [x \in SeqNum |-> IF x \in {SeqAdd(r % MOD, i) : i \in 1 .. m}
                                  THEN NONE ELSE f[x]]
<1>1. o \in Seq(Nat)
  BY DEF Stream
<1>2. f \in Map
  BY DEF Stream, Map
<1>3. r \in Nat
  BY <1>1
<1>4. s.rx_seq = r % MOD /\ r <= n
  BY DEF ReceiverOK
<1>5. \A i \in 1 .. Len(g) : g[i] = i
  BY DEF ReceiverOK
<1>6. \A i \in 1 .. Len(o) : o[i] = Len(g) + i
  BY DEF ReceiverOK
<1>7. Ahead(f, r, n)
  BY DEF ReceiverOK
<1>8. pay = r + 1
  BY DEF Count
<1>9. t = [s EXCEPT !.tcp_out = more, !.rx_seq = q, !.reorder = h, !.ack_pending = TRUE]
  BY <1>4 DEF DeliverRun
<1>10. r = Len(g) + Len(o)
  OBVIOUS
<1> HIDE DEF o, f, r, m
<1>11. /\ m \in 0 .. WINDOW - 1
       /\ \A i \in 1 .. m : f[(r + i) % MOD] = r + i + 1 /\ r + i + 1 <= n
       /\ f[(r + m + 1) % MOD] = NONE
  BY <1>2, <1>3, <1>7, RunEnds DEF m
<1>12. m \in Nat
  BY <1>11, ModPositive
<1>13. run \in Seq(Nat) /\ Len(run) = m /\ \A i \in 1 .. m : run[i] = r + i + 1
  <2>1. \A i \in 1 .. m : f[(r + i) % MOD] = r + i + 1
    BY <1>11
  <2> QED BY <1>2, <1>3, <1>12, <2>1, RunSegments
<1>14. h \in Map /\ Ahead(h, r + m + 1, n)
       /\ \A x \in SeqNum : f[x] # NONE => h[x] = f[x] \/ f[x] <= r + m + 1
  BY <1>2, <1>3, <1>7, <1>11, RunReleases
<1>15. q \in SeqNum /\ q = (r + m + 1) % MOD
  <2>1. m + 1 \in Int /\ r \in Int /\ r + (m + 1) \in Int /\ r + (m + 1) = r + m + 1
    BY <1>3, <1>12
  <2>2. q = (r + (m + 1)) % MOD
    BY <2>1, SeqAddAbs
  <2> QED BY <2>1, <2>2, SeqNumType
<1> HIDE DEF run, h, q
<1>16. /\ more \in Seq(Nat) /\ Len(more) = Len(o) + 1 + m
       /\ \A i \in 1 .. Len(more) :
            more[i] = IF i <= Len(o) THEN o[i]
                      ELSE IF i = Len(o) + 1 THEN pay
                      ELSE run[i - (Len(o) + 1)]
  <2> DEFINE z == Append(o, pay)
  <2>1. /\ z \in Seq(Nat) /\ Len(z) = Len(o) + 1
        /\ \A i \in 1 .. Len(z) : z[i] = IF i <= Len(o) THEN o[i] ELSE pay
    BY <1>1
  <2>2. more = z \o run
    OBVIOUS
  <2> HIDE DEF z, more
  <2>5. run \in Seq(Nat) /\ z \in Seq(Nat)
    BY <1>13, <2>1
  <2>3. /\ more \in Seq(Nat) /\ Len(more) = Len(z) + Len(run)
        /\ \A i \in 1 .. Len(more) :
             more[i] = IF i <= Len(z) THEN z[i] ELSE run[i - Len(z)]
    BY <2>2, <2>5, Joins
  <2>4. Len(o) \in Nat
    BY <1>1
  <2>6. Len(more) = Len(o) + 1 + m /\ more \in Seq(Nat)
    BY <1>12, <1>13, <2>1, <2>3, <2>4
  <2>7. ASSUME NEW i \in 1 .. Len(more)
        PROVE  more[i] = IF i <= Len(o) THEN o[i]
                         ELSE IF i = Len(o) + 1 THEN pay
                         ELSE run[i - (Len(o) + 1)]
    <3>1. more[i] = IF i <= Len(z) THEN z[i] ELSE run[i - Len(z)]
      BY <2>3
    <3>2. i <= Len(z) => z[i] = IF i <= Len(o) THEN o[i] ELSE pay
      BY <2>1, <2>4
    <3> QED BY <2>1, <2>4, <3>1, <3>2
  <2> QED BY <2>6, <2>7
<1> HIDE DEF more
<1>17. t = Record(s.local, s.peer_connect, s.peer_close, TRUE, s.tx_seq,
                  q, s.tx_acked, s.tcp_in, more, s.unacked, s.ctrlq, h)
  BY <1>9 DEF Stream, Record
<1>18. t \in Stream(Nat)
  <2>1. q \in SeqNum /\ more \in Seq(Nat) /\ h \in Map
    BY <1>14, <1>15, <1>16
  <2> QED BY <1>17, <2>1, ReceiverRecord
<1>19. /\ SameSender(s, t) /\ t.tcp_out = more /\ t.rx_seq = q /\ t.reorder = h
       /\ t.peer_connect = s.peer_connect
  BY ONLY <1>17 DEF Record, SameSender
<1>20. Len(g) + Len(more) = r + m + 1
  BY <1>1, <1>10, <1>12, <1>16
<1>21. r + m + 1 <= n
  <2>1. CASE m = 0
    BY <1>3, <1>8, <2>1
  <2>2. CASE m # 0
    BY <1>11, <1>12, <2>2
  <2> QED BY <2>1, <2>2
<1>22. ASSUME NEW i \in 1 .. Len(more)
       PROVE  more[i] = Len(g) + i
  <2>1. CASE i <= Len(o)
    <3>1. i \in 1 .. Len(o)
      BY <1>1, <1>16, <2>1
    <3>2. more[i] = o[i]
      BY <1>16, <2>1
    <3> QED BY <1>6, <3>1, <3>2
  <2>2. CASE i = Len(o) + 1
    BY <1>1, <1>8, <1>10, <1>16, <2>2
  <2>3. CASE i > Len(o) + 1
    <3> DEFINE k == i - (Len(o) + 1)
    <3>5. Len(o) \in Nat /\ Len(more) = Len(o) + 1 + m
      BY <1>1, <1>16
    <3>1. k \in 1 .. m /\ k = i - (Len(o) + 1) /\ k \in Int
      BY <1>12, <2>3, <3>5
    <3>2. more[i] = run[k]
      BY <1>16, <2>3, <3>5
    <3> HIDE DEF k
    <3>3. run[k] = r + k + 1
      BY <1>13, <3>1
    <3>4. r + k + 1 = Len(g) + i
      BY <1>3, <1>10, <3>1, <3>5
    <3> QED BY <3>2, <3>3, <3>4
  <2>4. Len(o) \in Nat /\ i \in Int
    BY <1>1
  <2> QED BY <2>1, <2>2, <2>3, <2>4
<1>23. ReceiverOK(t, g, n)
  BY <1>5, <1>14, <1>15, <1>19, <1>20, <1>21, <1>22 DEF ReceiverOK
<1>24. Count(s, g) = r /\ Count(t, g) = r + m + 1
  BY <1>10, <1>19, <1>20 DEF Count, o
<1>25. Keeps(s, t, g)
  BY <1>14, <1>19, <1>24 DEF Keeps, f
<1> QED BY <1>3, <1>12, <1>18, <1>19, <1>23, <1>24, <1>25

\* A segment ahead of the hole goes where its sequence number says.
LEMMA BufferReceiver ==
  ASSUME NEW s \in Stream(Nat), NEW g \in Seq(Nat), NEW n \in Nat,
         ReceiverOK(s, g, n), s.peer_connect, NEW pay \in Nat, pay <= n,
         pay \in Count(s, g) + 2 .. Count(s, g) + WINDOW,
         NEW seq, seq = (pay - 1) % MOD,
         NEW t, t = Buffer(s, seq, pay)
  PROVE  /\ t \in Stream(Nat) /\ ReceiverOK(t, g, n) /\ SameSender(s, t)
         /\ Count(s, g) <= Count(t, g) /\ Keeps(s, t, g)
<1> DEFINE f == s.reorder
           r == Count(s, g)
           h == IF f[seq] = NONE THEN [f EXCEPT ![seq] = pay] ELSE f
<1>1. f \in Map /\ seq \in SeqNum
  BY SeqNumType DEF Stream, Map
<1>2. Ahead(f, r, n)
  BY DEF ReceiverOK, Count
<1>3. t = [s EXCEPT !.reorder = h, !.ack_pending = TRUE]
  BY DEF Buffer
<1>4. r = Len(g) + Len(s.tcp_out) /\ r \in Nat
  BY DEF Stream, Count
<1>5. f = s.reorder /\ pay \in r + 2 .. r + WINDOW
  OBVIOUS
<1> HIDE DEF f, r
<1>6. h \in Map
  BY <1>1 DEF Map
<1>7. ASSUME NEW x \in SeqNum
      PROVE  h[x] = IF x = seq /\ f[x] = NONE THEN pay ELSE f[x]
  BY <1>1 DEF Map
<1> HIDE DEF h
<1>8. ASSUME NEW x \in SeqNum, h[x] # NONE
      PROVE  h[x] \in r + 2 .. r + WINDOW /\ h[x] <= n /\ x = (h[x] - 1) % MOD
  <2>1. CASE x = seq /\ f[x] = NONE
    BY <1>5, <1>7, <2>1
  <2>2. CASE ~(x = seq /\ f[x] = NONE)
    <3>1. h[x] = f[x]
      BY <1>7, <2>2
    <3> QED BY <1>2, <1>8, <3>1 DEF Ahead
  <2> QED BY <2>1, <2>2
<1>9. Ahead(h, r, n)
  BY <1>8 DEF Ahead
<1>10. t = Record(s.local, s.peer_connect, s.peer_close, TRUE, s.tx_seq,
                  s.rx_seq, s.tx_acked, s.tcp_in, s.tcp_out, s.unacked, s.ctrlq, h)
  BY <1>3 DEF Stream, Record
<1>11. t \in Stream(Nat)
  <2>1. s.rx_seq \in SeqNum /\ s.tcp_out \in Seq(Nat)
    BY DEF Stream
  <2> QED BY <1>6, <1>10, <2>1, ReceiverRecord
<1>12. /\ SameSender(s, t) /\ t.tcp_out = s.tcp_out /\ t.rx_seq = s.rx_seq
       /\ t.reorder = h /\ t.peer_connect = s.peer_connect
  BY ONLY <1>10 DEF Record, SameSender
<1>13. ReceiverOK(t, g, n)
  BY <1>4, <1>9, <1>12 DEF ReceiverOK
<1>14. Count(t, g) = r
  BY <1>4, <1>12 DEF Count
<1>15. Keeps(s, t, g)
  BY <1>5, <1>7, <1>12 DEF Keeps
<1> QED BY <1>4, <1>11, <1>12, <1>13, <1>14, <1>15 DEF r

\* A DATA frame is delivered, buffered or refused as its segment number says,
\* as long as it is not so old that its sequence number looks new again.
LEMMA DataReceiver ==
  ASSUME NEW s \in Stream(Nat), NEW g \in Seq(Nat), NEW n \in Nat,
         ReceiverOK(s, g, n),
         NEW pay \in 1 .. n, NEW seq, seq = (pay - 1) % MOD,
         Count(s, g) - (pay - 1) <= MOD - WINDOW,
         n <= Count(s, g) + WINDOW,
         NEW t, t = DeliverData(s, seq, pay)
  PROVE  /\ t \in Stream(Nat) /\ ReceiverOK(t, g, n) /\ SameSender(s, t)
         /\ Count(s, g) <= Count(t, g) /\ Keeps(s, t, g)
<1> DEFINE r == Count(s, g)
           k == pay - 1
           delta == SeqDiff(seq, s.rx_seq)
<1>1. r \in Nat /\ s.rx_seq = r % MOD
  BY DEF ReceiverOK, Count, Stream
<1>2. k \in Nat /\ k = pay - 1 /\ seq = k % MOD /\ pay \in Nat /\ pay <= n
  OBVIOUS
<1>3. delta = SeqDiff(k % MOD, r % MOD)
  BY <1>1, <1>2
<1>4. r - k <= MOD - WINDOW /\ n <= r + WINDOW
  OBVIOUS
<1>11. CASE ~PeerConnected(s)
  <2>1. t = s
    BY <1>11 DEF DeliverData
  <2> QED BY <1>1, <2>1 DEF SameSender, Keeps
<1>12. SUFFICES ASSUME PeerConnected(s)
                PROVE  /\ t \in Stream(Nat) /\ ReceiverOK(t, g, n) /\ SameSender(s, t)
                       /\ Count(s, g) <= Count(t, g) /\ Keeps(s, t, g)
  BY <1>11
<1>13. s.peer_connect
  BY <1>12 DEF PeerConnected
<1> HIDE DEF r, k, delta
<1>5. k - r < MOD /\ r - k < MOD
  BY <1>1, <1>2, <1>4, ModPositive
<1>6. SeqDiff(k % MOD, r % MOD) = IF k >= r THEN k - r ELSE k - r + MOD
  BY <1>1, <1>2, <1>5, SeqDiffAbs
<1>7. CASE k = r
  <2>1. delta = 0
    BY <1>1, <1>3, <1>6, <1>7
  <2>2. seq = s.rx_seq
    BY <1>1, <1>2, <1>7
  <2>3. delta < WINDOW /\ ~(delta >= WINDOW)
    BY <2>1, ModPositive
  <2>4. t = DeliverRun(s, pay)
    BY <1>12, <2>2, <2>3 DEF DeliverData, delta
  <2>5. pay = r + 1
    BY <1>1, <1>2, <1>7
  <2> QED BY <1>2, <1>13, <2>4, <2>5, RunReceiver DEF r
<1>8. CASE k > r
  <2>1. delta = k - r /\ delta \in 1 .. WINDOW - 1
    BY <1>1, <1>2, <1>3, <1>4, <1>6, <1>8, ModPositive
  <2>2. seq # s.rx_seq
    <3>1. SUFFICES ASSUME seq = s.rx_seq PROVE FALSE
      OBVIOUS
    <3>2. k % MOD = r % MOD /\ k \in Int /\ r \in Int
      BY <1>1, <1>2, <3>1
    <3>3. k = r
      BY <1>5, <3>2, ModPositive, ModInjective
    <3> QED BY <1>1, <1>2, <1>8, <3>3
  <2>3. delta < WINDOW /\ ~(delta >= WINDOW)
    BY <2>1, ModPositive
  <2>4. t = Buffer(s, seq, pay)
    BY <1>12, <2>2, <2>3 DEF DeliverData, delta
  <2>5. pay \in r + 2 .. r + WINDOW
    BY <1>1, <1>2, <1>4, <1>8, ModPositive
  <2> QED BY <1>2, <1>13, <2>4, <2>5, BufferReceiver DEF r
<1>9. CASE k < r
  <2>1. delta = k - r + MOD
    BY <1>1, <1>2, <1>3, <1>6, <1>9
  <2>2. delta >= WINDOW /\ ~(delta < WINDOW)
    BY <1>1, <1>2, <1>4, <2>1, ModPositive
  <2>3. t = [s EXCEPT !.ack_pending = TRUE]
    BY <1>12, <2>2 DEF DeliverData, delta
  <2>4. t = Record(s.local, s.peer_connect, s.peer_close, TRUE, s.tx_seq, s.rx_seq,
                   s.tx_acked, s.tcp_in, s.tcp_out, s.unacked, s.ctrlq, s.reorder)
    BY <2>3 DEF Stream, Record
  <2>5. t \in Stream(Nat)
    <3>1. s.rx_seq \in SeqNum /\ s.tcp_out \in Seq(Nat) /\ s.reorder \in Map
      BY DEF Stream, Map
    <3> QED BY <2>4, <3>1, ReceiverRecord
  <2>6. SameSender(s, t) /\ SameReceiver(s, t)
    BY <2>4 DEF Record, SameSender, SameReceiver
  <2>7. ReceiverOK(t, g, n)
    BY <2>6, ReceiverUntouched
  <2>8. Count(t, g) = r
    BY <2>6 DEF Count, SameReceiver, r
  <2>9. Keeps(s, t, g)
    BY <2>6 DEF Keeps, SameReceiver
  <2> QED BY <1>1, <2>5, <2>6, <2>7, <2>8, <2>9 DEF r
<1>10. k = r \/ k > r \/ k < r
  BY <1>1, <1>2
<1> QED BY <1>7, <1>8, <1>9, <1>10

-----------------------------------------------------------------------------
(* on_radio_rx()                                                           *)

\* A CONNECT, the first or a late copy, disturbs nothing that was received.
LEMMA ConnectReceiver ==
  ASSUME NEW s \in Stream(Nat), NEW g \in Seq(Nat), NEW n \in Nat,
         ReceiverOK(s, g, n), NEW w, NEW r, NEW held, SenderOK(s, w, r, held),
         NEW t, t = OnConnect(s)
  PROVE  /\ t \in Stream(Nat) /\ ReceiverOK(t, g, n) /\ SameSender(s, t)
         /\ Count(t, g) = Count(s, g) /\ Keeps(s, t, g)
<1>1. ~s.peer_close
  BY DEF SenderOK, Joined
<1>2. /\ s.rx_seq \in SeqNum /\ s.tcp_out \in Seq(Nat) /\ s.reorder \in Map
  BY DEF Stream, Map
<1>3. ~s.peer_connect => /\ s.rx_seq = 0 /\ s.tcp_out = <<>> /\ s.reorder = EmptyMap
  <2>1. SUFFICES ASSUME ~s.peer_connect
                 PROVE  s.rx_seq = 0 /\ s.tcp_out = <<>> /\ s.reorder = EmptyMap
    OBVIOUS
  <2>2. g = <<>> /\ s.tcp_out = <<>> /\ s.reorder = EmptyMap
    BY <2>1 DEF ReceiverOK
  <2>3. s.rx_seq = (Len(g) + Len(s.tcp_out)) % MOD
    BY DEF ReceiverOK
  <2>4. Len(g) + Len(s.tcp_out) = 0
    BY <2>2
  <2>5. 0 % MOD = 0
    BY ModPositive, SmallMod
  <2> QED BY <2>2, <2>3, <2>4, <2>5
<1> DEFINE z == IF s.peer_connect THEN s
                ELSE [s EXCEPT !.rx_seq = 0, !.tcp_out = <<>>, !.reorder = EmptyMap]
<1>4. z = s
  <2>1. CASE s.peer_connect
    BY <2>1
  <2>2. CASE ~s.peer_connect
    <3>1. [s EXCEPT !.rx_seq = 0, !.tcp_out = <<>>, !.reorder = EmptyMap]
            = [s EXCEPT !.rx_seq = s.rx_seq, !.tcp_out = s.tcp_out, !.reorder = s.reorder]
      BY <1>3, <2>2
    <3>2. [s EXCEPT !.rx_seq = s.rx_seq, !.tcp_out = s.tcp_out, !.reorder = s.reorder] = s
      BY DEF Stream
    <3> QED BY <2>2, <3>1, <3>2
  <2> QED BY <2>1, <2>2
<1>5. t = [z EXCEPT !.peer_connect = TRUE, !.peer_close = FALSE, !.ack_pending = TRUE]
  BY DEF OnConnect
<1> HIDE DEF z
<1>6. t = Record(s.local, TRUE, FALSE, TRUE, s.tx_seq, s.rx_seq, s.tx_acked,
                 s.tcp_in, s.tcp_out, s.unacked, s.ctrlq, s.reorder)
  BY <1>4, <1>5 DEF Stream, Record
<1>7. t \in Stream(Nat)
  BY <1>6 DEF Stream, Record
<1>10. s.peer_close = FALSE
  BY <1>1 DEF Stream
<1>8. /\ t.peer_connect = TRUE /\ t.tcp_out = s.tcp_out /\ t.rx_seq = s.rx_seq
      /\ t.reorder = s.reorder /\ SameSender(s, t)
  BY ONLY <1>6, <1>10 DEF Record, SameSender
<1>9. ReceiverOK(t, g, n)
  BY <1>8 DEF ReceiverOK
<1> QED BY <1>7, <1>8, <1>9 DEF Count, Keeps

\* s, which has written w and read g, may be given m: the two ends are in
\* order and the frame is neither false nor too old.
MayReceive(s, w, g, r, n, held, m) ==
  /\ SenderOK(s, w, r, held) /\ ReceiverOK(s, g, n)
  /\ r <= w - Len(s.tcp_in) /\ n <= Count(s, g) + WINDOW
  /\ FrameOK(m, r, n, held, w - Len(s.tcp_in))
  /\ m.frame.type = "DATA" => Count(s, g) - (m.frame.pay - 1) <= MOD - WINDOW
  /\ ((w - Len(s.tcp_in)) - Len(s.unacked)) - m.received < MOD - WINDOW

\* An end that has received a frame is as good as before and no step back.
LEMMA ReceiveStream ==
  ASSUME NEW s \in Stream(Nat), NEW w \in Nat, NEW r \in Nat, NEW held \in Map,
         NEW g \in Seq(Nat), NEW n \in Nat, NEW m \in Message,
         MayReceive(s, w, g, r, n, held, m),
         NEW t, t = OnRadioRx(s, m.frame)
  PROVE  /\ t \in Stream(Nat) /\ SenderOK(t, w, r, held) /\ ReceiverOK(t, g, n)
         /\ Len(t.tcp_in) <= Len(s.tcp_in)
         /\ Count(s, g) <= Count(t, g) /\ Keeps(s, t, g)
<1> USE DEF MayReceive
<1> DEFINE f == m.frame
           k == m.received
           z == ApplyAck(s, k % MOD)
<1>1. k \in 0 .. r /\ f.ack = k % MOD /\ f.type \in {"CONNECT", "DATA", "ACK"}
  BY DEF FrameOK, Message
<1>2. /\ z \in Stream(Nat) /\ SenderOK(z, w, r, held) /\ SameReceiver(s, z)
      /\ z.tcp_in = s.tcp_in
      /\ ((w - Len(z.tcp_in)) - Len(z.unacked)) - k \in 0 .. MOD - WINDOW
  <2> HIDE DEF k
  <2> QED BY <1>1, AckSender DEF k
<1>3. ReceiverOK(z, g, n) /\ Count(z, g) = Count(s, g)
  BY <1>2, ReceiverUntouched DEF SameReceiver, Count
<1>4. t = QueueData(CASE f.type = "ACK" -> ApplySack(z, f.sack)
                      [] f.type = "DATA" -> DeliverData(z, f.seq, f.pay)
                      [] f.type = "CONNECT" -> OnConnect(z)
                      [] f.type \in {"CLOSE", "ABORT"} -> OnClose(z))
  BY <1>1 DEF OnRadioRx, ParseRadio
<1> HIDE DEF z
<1>5. ASSUME NEW y \in Stream(Nat), t = QueueData(y),
             SenderOK(y, w, r, held), ReceiverOK(y, g, n),
             y.tcp_in = z.tcp_in, Count(z, g) <= Count(y, g), Keeps(z, y, g)
      PROVE  /\ t \in Stream(Nat) /\ SenderOK(t, w, r, held) /\ ReceiverOK(t, g, n)
             /\ Len(t.tcp_in) <= Len(s.tcp_in)
             /\ Count(s, g) <= Count(t, g) /\ Keeps(s, t, g)
  <2>2. /\ t \in Stream(Nat) /\ SenderOK(t, w, r, held) /\ SameReceiver(y, t)
        /\ Len(t.tcp_in) <= Len(y.tcp_in)
    BY <1>5, QueueSender
  <2>3. ReceiverOK(t, g, n) /\ Count(t, g) = Count(y, g)
    BY <1>5, <2>2, ReceiverUntouched DEF SameReceiver, Count
  <2>4. Keeps(s, t, g)
    BY <1>2, <1>5, <2>2, <2>3 DEF Keeps, SameReceiver
  <2> QED BY <1>2, <1>3, <1>5, <2>2, <2>3, <2>4
<1>6. CASE f.type = "ACK"
  <2> DEFINE y == ApplySack(z, f.sack)
  <2>1. TrueSack(f.sack, k, w - Len(z.tcp_in), r, held)
    BY <1>2, <1>6 DEF FrameOK, TrueSack
  <2>2. NamedAreHeld(z.unacked, f.sack, r, held)
    <3>1. k \in 0 .. r
      BY <1>1
    <3>2. w \in Nat /\ r \in Nat /\ held \in Map
      OBVIOUS
    <3>3. /\ z \in Stream(Nat) /\ SenderOK(z, w, r, held)
          /\ ((w - Len(z.tcp_in)) - Len(z.unacked)) - k \in 0 .. MOD - WINDOW
      BY <1>2
    <3> HIDE DEF f, k, z
    <3> QED BY ONLY <2>1, <3>1, <3>2, <3>3, SackNames
  <2>3. /\ y \in Stream(Nat) /\ SenderOK(y, w, r, held) /\ SameReceiver(z, y)
        /\ y.tcp_in = z.tcp_in
    BY <1>2, <2>2, SackSender DEF NamedAreHeld
  <2>4. ReceiverOK(y, g, n) /\ Count(y, g) = Count(z, g)
    BY <1>3, <2>3, ReceiverUntouched DEF SameReceiver, Count
  <2>5. Keeps(z, y, g)
    BY <2>3 DEF Keeps, SameReceiver
  <2>6. t = QueueData(y)
    BY <1>4, <1>6
  <2>7. Count(z, g) <= Count(y, g)
    <3>1. Count(z, g) \in Nat
      BY <1>2 DEF Count, Stream
    <3> QED BY <2>4, <3>1
  <2> HIDE DEF y
  <2> QED BY <1>5, <2>3, <2>4, <2>5, <2>6, <2>7
<1>7. CASE f.type = "DATA"
  <2> DEFINE y == DeliverData(z, f.seq, f.pay)
  <2>1. f.pay \in 1 .. n /\ f.seq = (f.pay - 1) % MOD
    BY <1>7 DEF FrameOK
  <2>3. Count(z, g) - (f.pay - 1) <= MOD - WINDOW /\ n <= Count(z, g) + WINDOW
    BY <1>3, <1>7
  <2>4. /\ y \in Stream(Nat) /\ ReceiverOK(y, g, n) /\ SameSender(z, y)
        /\ Count(z, g) <= Count(y, g) /\ Keeps(z, y, g)
    <3> HIDE DEF f
    <3> QED BY <1>2, <1>3, <2>1, <2>3, DataReceiver
  <2>5. SenderOK(y, w, r, held) /\ y.tcp_in = z.tcp_in
    BY <1>2, <2>4, SenderUntouched DEF SameSender
  <2>6. t = QueueData(y)
    BY <1>4, <1>7
  <2> HIDE DEF y
  <2> QED BY <1>5, <2>4, <2>5, <2>6
<1>8. CASE f.type = "CONNECT"
  <2> DEFINE y == OnConnect(z)
  <2>1. /\ y \in Stream(Nat) /\ ReceiverOK(y, g, n) /\ SameSender(z, y)
        /\ Count(y, g) = Count(z, g) /\ Keeps(z, y, g)
    BY <1>2, <1>3, ConnectReceiver
  <2>2. SenderOK(y, w, r, held) /\ y.tcp_in = z.tcp_in
    BY <1>2, <2>1, SenderUntouched DEF SameSender
  <2>3. t = QueueData(y)
    BY <1>4, <1>8
  <2>4. Count(z, g) <= Count(y, g)
    <3>1. Count(z, g) \in Nat
      BY <1>2 DEF Count, Stream
    <3> QED BY <2>1, <3>1
  <2> HIDE DEF y
  <2> QED BY <1>5, <2>1, <2>2, <2>3, <2>4
<1> QED BY <1>1, <1>6, <1>7, <1>8

-----------------------------------------------------------------------------
(* pull_tx()                                                               *)

LEMMA SendSender ==
  ASSUME NEW s \in Stream(Nat), NEW w \in Nat, NEW r \in Nat, NEW held \in Map,
         SenderOK(s, w, r, held), NEW i \in 1 .. Len(s.unacked),
         NEW t
  PROVE  t = [s EXCEPT !.unacked[i].in_flight = TRUE] =>
           /\ t \in Stream(Nat) /\ SenderOK(t, w, r, held) /\ SameReceiver(s, t)
           /\ t.tcp_in = s.tcp_in
<1>0. SUFFICES ASSUME t = [s EXCEPT !.unacked[i].in_flight = TRUE]
               PROVE  /\ t \in Stream(Nat) /\ SenderOK(t, w, r, held) /\ SameReceiver(s, t)
                      /\ t.tcp_in = s.tcp_in
  OBVIOUS
<1> DEFINE u == s.unacked
           v == [u EXCEPT ![i] = [u[i] EXCEPT !.in_flight = TRUE]]
<1>1. u \in Seq(Segment(Nat)) /\ i \in 1 .. Len(u)
  BY DEF Stream
<1>2. t = [s EXCEPT !.unacked = v]
  BY <1>0 DEF Stream
<1>3. Len(u) = Len(s.unacked) /\ \A j \in 1 .. Len(u) : u[j] = s.unacked[j]
  OBVIOUS
<1> HIDE DEF u
<1>4. ASSUME NEW j \in 1 .. Len(u)
      PROVE  /\ v[j] \in Segment(Nat) /\ v[j].pay = u[j].pay
             /\ v[j].seq = u[j].seq /\ v[j].sacked = u[j].sacked
  <2>1. u[j] \in Segment(Nat) /\ j \in DOMAIN u
    BY <1>1
  <2>2. v[j] = IF j = i THEN [u[j] EXCEPT !.in_flight = TRUE] ELSE u[j]
    BY <1>1, <2>1
  <2> HIDE DEF v
  <2>3. CASE j = i
    BY <2>1, <2>2, <2>3, MarkSegment
  <2>4. CASE j # i
    BY <2>1, <2>2, <2>4
  <2> QED BY <2>3, <2>4
<1>5. v \in Seq(Segment(Nat)) /\ Len(v) = Len(u)
  <2>1. u[i] \in Segment(Nat)
    BY <1>1
  <2>2. [u[i] EXCEPT !.in_flight = TRUE] \in Segment(Nat)
    BY <2>1, MarkSegment
  <2> QED BY <1>1, <2>2
<1>6. \A j \in 1 .. Len(v) : v[j].pay = s.unacked[j].pay /\ v[j].seq = s.unacked[j].seq
  BY <1>3, <1>4, <1>5
<1>7. \A j \in 1 .. Len(v) : v[j].sacked =>
        s.unacked[j].sacked \/ v[j].pay <= r \/ held[v[j].seq] = v[j].pay
  BY <1>3, <1>4, <1>5
<1>8. Len(v) = Len(s.unacked)
  BY <1>3, <1>5
<1>9. w \in Nat /\ r \in Nat /\ held \in Map /\ s \in Stream(Nat) /\ SenderOK(s, w, r, held)
  OBVIOUS
<1> HIDE DEF v
<1> QED BY ONLY <1>2, <1>5, <1>6, <1>7, <1>8, <1>9, MarkSender

\* Sending leaves the stream's promises alone, and the frame is a true one.
LEMMA TransmitStream ==
  ASSUME NEW s \in Stream(Nat), NEW w \in Nat, NEW r \in Nat, NEW held \in Map,
         NEW g \in Seq(Nat), NEW n \in Nat,
         SenderOK(s, w, r, held), ReceiverOK(s, g, n),
         NEW p \in PullTx(s),
         NEW m, m = [frame |-> p.frame, received |-> Count(s, g)]
  PROVE  /\ p.left \in Stream(Nat) /\ SenderOK(p.left, w, r, held)
         /\ SameReceiver(s, p.left) /\ p.left.tcp_in = s.tcp_in
         /\ m \in Message
         /\ FrameOK(m, Count(s, g), w - Len(s.tcp_in), s.reorder, n)
<1> DEFINE c == Count(s, g)
           cut == w - Len(s.tcp_in)
           t == p.left
<1>1. c \in Nat /\ s.rx_seq = c % MOD /\ s.rx_seq \in SeqNum
  BY DEF ReceiverOK, Count, Stream
<1>2. Ahead(s.reorder, c, n)
  BY DEF ReceiverOK, Count
<1>3. m.frame = p.frame /\ m.received = c
  OBVIOUS
<1>4. cut \in Int
  BY DEF Stream
<1>5. p \in PullCtrl(s) \/ p \in PullAck(s) \/ p \in PullData(s)
  BY DEF PullTx
<1> HIDE DEF c, cut
<1>6. CASE p \in PullAck(s)
  <2>1. PICK k \in 0 .. MAX_SACK_BLOCKS :
          p = [left |-> [s EXCEPT !.ack_pending = FALSE],
               frame |-> BareFrame("ACK", s.rx_seq, SackRuns(s.reorder, k))]
    BY <1>6 DEF PullAck
  <2> DEFINE sack == SackRuns(s.reorder, k)
  <2>2. sack \subseteq Keys(s.reorder)
    BY DEF SackRuns
  <2> HIDE DEF sack
  <2>3. /\ p.frame.type = "ACK" /\ p.frame.ack = s.rx_seq /\ p.frame.sack = sack
        /\ p.frame = [type |-> "ACK", seq |-> 0, ack |-> s.rx_seq, sack |-> sack,
                      pay |-> NONE]
    BY <2>1 DEF BareFrame, sack
  <2>4. t = [s EXCEPT !.ack_pending = FALSE]
    BY <2>1
  <2> HIDE DEF t
  <2>5. t = Record(s.local, s.peer_connect, s.peer_close, FALSE, s.tx_seq, s.rx_seq,
                   s.tx_acked, s.tcp_in, s.tcp_out, s.unacked, s.ctrlq, s.reorder)
    BY <2>4 DEF Stream, Record
  <2>6. t \in Stream(Nat)
    BY <2>5 DEF Stream, Record
  <2>7. SameSender(s, t) /\ SameReceiver(s, t)
    BY <2>5 DEF Record, SameSender, SameReceiver
  <2>8. SenderOK(t, w, r, held)
    BY <2>7, SenderUntouched
  <2>9. m \in Message
    <3>1. 0 \in SeqNum /\ sack \in SUBSET SeqNum
      BY <2>2, ModPositive DEF SeqNum, Keys
    <3>2. p.frame \in Frame(Nat)
      BY <1>1, <2>3, <3>1 DEF Frame
    <3> QED BY <1>1, <3>2 DEF Message, c
  <2>10. ASSUME NEW x \in sack
         PROVE  \E k_1 \in c + 2 .. c + WINDOW :
                  /\ k_1 <= n
                  /\ x = (k_1 - 1) % MOD
                  /\ k_1 <= c \/ s.reorder[x] = k_1
    <3>1. x \in SeqNum /\ s.reorder[x] # NONE
      BY <2>2 DEF Keys
    <3>2. /\ s.reorder[x] \in c + 2 .. c + WINDOW /\ s.reorder[x] <= n
          /\ x = (s.reorder[x] - 1) % MOD
      BY <1>2, <3>1 DEF Ahead
    <3> QED BY <3>2
  <2>11. FrameOK(m, c, cut, s.reorder, n)
    BY <1>1, <1>3, <2>3, <2>10 DEF FrameOK
  <2> QED BY <2>6, <2>7, <2>8, <2>9, <2>11 DEF SameSender, t, c, cut
<1>7. CASE p \in PullData(s)
  <2>1. PICK i \in Sendable(s) :
          p = [left |-> [s EXCEPT !.unacked[i].in_flight = TRUE],
               frame |-> DataFrame(s.unacked[i].seq, s.rx_seq, s.unacked[i].pay)]
    BY <1>7 DEF PullData
  <2> DEFINE u == s.unacked
             acked == cut - Len(u)
  <2>2. u \in Seq(Segment(Nat))
    BY DEF Stream
  <2>3. i \in 1 .. Len(u)
    BY <2>2 DEF Sendable
  <2>4. u[i] \in Segment(Nat)
    BY <2>2, <2>3
  <2>5. t = [s EXCEPT !.unacked[i].in_flight = TRUE]
    BY <2>1
  <2>6. Numbered(u, acked) /\ acked \in 0 .. r
    BY DEF SenderOK, cut
  <2>7. i \in 1 .. Len(s.unacked)
    BY <2>3
  <2>8. /\ p.frame.type = "DATA" /\ p.frame.ack = s.rx_seq
        /\ p.frame.seq = u[i].seq /\ p.frame.pay = u[i].pay
        /\ p.frame = [type |-> "DATA", seq |-> u[i].seq, ack |-> s.rx_seq,
                      sack |-> {}, pay |-> u[i].pay]
    BY <2>1 DEF DataFrame
  <2> HIDE DEF u, acked, t
  <2>12. /\ t \in Stream(Nat) /\ SenderOK(t, w, r, held) /\ SameReceiver(s, t)
         /\ t.tcp_in = s.tcp_in
    <3>1. t = [s EXCEPT !.unacked[i].in_flight = TRUE] =>
            /\ t \in Stream(Nat) /\ SenderOK(t, w, r, held) /\ SameReceiver(s, t)
            /\ t.tcp_in = s.tcp_in
      BY <2>7, SendSender
    <3> QED BY <2>5, <3>1
  <2>13. u[i].pay \in 1 .. cut /\ u[i].seq = (u[i].pay - 1) % MOD
    <3>1. u[i].pay = acked + i /\ u[i].seq = (acked + i - 1) % MOD
      BY <2>3, <2>6 DEF Numbered
    <3>2. Len(u) \in Nat /\ acked \in Nat /\ i \in Nat
      BY <2>2, <2>3, <2>6
    <3>3. acked + i \in 1 .. cut
      BY <1>4, <2>3, <3>2 DEF acked
    <3> QED BY <3>1, <3>2, <3>3
  <2>14. m \in Message
    <3>1. u[i].seq \in SeqNum /\ u[i].pay \in Nat
      BY <2>4 DEF Segment
    <3>2. p.frame \in Frame(Nat)
      BY <1>1, <2>8, <3>1 DEF Frame
    <3> QED BY <1>1, <3>2 DEF Message, c
  <2>15. FrameOK(m, c, cut, s.reorder, n)
    BY <1>1, <1>3, <2>8, <2>13 DEF FrameOK
  <2> QED BY <2>12, <2>14, <2>15 DEF t, c, cut
<1>8. CASE p \in PullCtrl(s)
  <2> DEFINE q == s.ctrlq
             v == Tail(q)
  <2>1. /\ q # <<>>
        /\ p = [left |-> [s EXCEPT !.ctrlq = v],
                frame |-> BareFrame(Head(q), s.rx_seq, {})]
    BY <1>8 DEF PullCtrl
  <2>2. q \in Seq(CtrlType)
    BY DEF Stream
  <2>3. Joined(s)
    BY DEF SenderOK
  <2>4. \A i \in 1 .. Len(q) : q[i] = "CONNECT"
    BY <2>3 DEF Joined
  <2>5. t = [s EXCEPT !.ctrlq = v] /\ s.ctrlq = q
    BY <2>1
  <2> HIDE DEF q, t
  <2>6. /\ v \in Seq(CtrlType) /\ Head(q) = "CONNECT"
        /\ \A i \in 1 .. Len(v) : v[i] = "CONNECT"
    BY <2>1, <2>2, <2>4
  <2> HIDE DEF v
  <2>7. t = Record(s.local, s.peer_connect, s.peer_close, s.ack_pending, s.tx_seq,
                   s.rx_seq, s.tx_acked, s.tcp_in, s.tcp_out, s.unacked, v, s.reorder)
    BY <2>5 DEF Stream, Record
  <2>8. t \in Stream(Nat)
    BY <2>6, <2>7 DEF Stream, Record
  <2>9. /\ t.peer_close = s.peer_close /\ t.ctrlq = v
        /\ t.tx_acked = s.tx_acked /\ t.tx_seq = s.tx_seq
        /\ t.tcp_in = s.tcp_in /\ t.unacked = s.unacked /\ SameReceiver(s, t)
    BY <2>7 DEF Record, SameReceiver
  <2>10. Joined(t)
    BY <2>3, <2>6, <2>9 DEF Joined
  <2>11. SenderOK(t, w, r, held)
    BY <2>9, <2>10 DEF SenderOK
  <2>12. p.frame = [type |-> "CONNECT", seq |-> 0, ack |-> s.rx_seq, sack |-> {},
                    pay |-> NONE]
    BY <2>1, <2>6 DEF BareFrame
  <2>13. m \in Message
    <3>1. 0 \in SeqNum
      BY ModPositive DEF SeqNum
    <3>2. p.frame \in Frame(Nat)
      BY <1>1, <2>12, <3>1 DEF Frame, CtrlType
    <3> QED BY <1>1, <3>2 DEF Message, c
  <2>14. FrameOK(m, c, cut, s.reorder, n)
    BY <1>1, <1>3, <2>12 DEF FrameOK
  <2> QED BY <2>8, <2>9, <2>11, <2>13, <2>14 DEF t, c, cut
<1> QED BY <1>5, <1>6, <1>7, <1>8

-----------------------------------------------------------------------------
(* What one end promises survives the progress of the other.               *)

\* An end that had received r segments and held `f' has now received r2 and
\* holds f2: it has lost nothing.
Onward(r, f, r2, f2) ==
  r <= r2 /\ \A x \in SeqNum : f[x] # NONE => f2[x] = f[x] \/ f[x] <= r2

LEMMA SenderOnward ==
  ASSUME NEW s \in Stream(Nat), NEW w \in Nat, NEW r \in Nat, NEW f \in Map,
         NEW r2 \in Nat, NEW f2 \in Map,
         SenderOK(s, w, r, f), Onward(r, f, r2, f2)
  PROVE  SenderOK(s, w, r2, f2)
<1> DEFINE ti == s.tcp_in
           u == s.unacked
           cut == w - Len(ti)
           acked == cut - Len(u)
<1>1. u \in Seq(Segment(Nat)) /\ Len(ti) \in Nat /\ Len(u) \in Nat
  BY DEF Stream
<1>2. /\ Joined(s)
      /\ s.tx_seq = cut % MOD
      /\ s.tx_acked = acked % MOD
      /\ Len(u) <= WINDOW
  BY DEF SenderOK
<1>3. acked \in 0 .. r
  BY DEF SenderOK
<1>4. \A i \in 1 .. Len(ti) : ti[i] = cut + i
  BY DEF SenderOK
<1>5. Numbered(u, acked)
  BY DEF SenderOK
<1>6. \A i \in 1 .. Len(u) :
        u[i].sacked => acked + i <= r \/ f[u[i].seq] = acked + i
  BY DEF SenderOK
<1>7. w - Len(ti) = cut /\ cut - Len(u) = acked /\ s.tcp_in = ti /\ s.unacked = u
  OBVIOUS
<1> HIDE DEF ti, u, cut, acked
<1>8. acked \in 0 .. r2
  BY <1>3 DEF Onward
<1>9. ASSUME NEW i \in 1 .. Len(u), u[i].sacked
      PROVE  acked + i <= r2 \/ f2[u[i].seq] = acked + i
  <2>1. PICK k \in Nat : k = acked + i
    BY <1>1, <1>3
  <2>2. u[i].seq \in SeqNum
    <3>1. u[i] \in Segment(Nat)
      BY <1>1
    <3> QED BY <3>1 DEF Segment
  <2>3. k <= r \/ f[u[i].seq] = k
    BY <1>6, <1>9, <2>1
  <2>4. CASE k <= r
    BY <2>1, <2>4 DEF Onward
  <2>5. CASE f[u[i].seq] = k
    <3>1. f[u[i].seq] # NONE
      BY <2>5, SessionAssumption DEF SessionAssumption
    <3> QED BY <2>1, <2>2, <2>5, <3>1 DEF Onward
  <2> QED BY <2>3, <2>4, <2>5
<1>10. \A i \in 1 .. Len(u) :
         u[i].sacked => acked + i <= r2 \/ f2[u[i].seq] = acked + i
  BY <1>9
<1> QED BY <1>2, <1>4, <1>5, <1>7, <1>8, <1>10 DEF SenderOK

LEMMA ReceiverOnward ==
  ASSUME NEW s \in Stream(Nat), NEW g \in Seq(Nat), NEW n \in Int, NEW n2 \in Int,
         ReceiverOK(s, g, n), n <= n2
  PROVE  ReceiverOK(s, g, n2)
<1> DEFINE r == Len(g) + Len(s.tcp_out)
           f == s.reorder
<1>1. r \in Nat
  BY DEF Stream
<1>2. /\ r <= n
      /\ s.rx_seq = r % MOD
  BY DEF ReceiverOK
<1>3. /\ \A i \in 1 .. Len(g) : g[i] = i
      /\ \A i \in 1 .. Len(s.tcp_out) : s.tcp_out[i] = Len(g) + i
  BY DEF ReceiverOK
<1>4. Ahead(f, r, n)
  BY DEF ReceiverOK
<1> HIDE DEF f
<1>5. Ahead(f, r, n2)
  <2> HIDE DEF r
  <2>1. ASSUME NEW x \in SeqNum, f[x] # NONE
        PROVE  /\ f[x] \in r + 2 .. r + WINDOW
               /\ f[x] <= n2
               /\ x = (f[x] - 1) % MOD
    <3>1. f[x] \in r + 2 .. r + WINDOW /\ f[x] <= n /\ x = (f[x] - 1) % MOD
      BY <1>4, <2>1 DEF Ahead
    <3>2. f[x] \in Int
      BY <1>1, <3>1, ModPositive
    <3> QED BY <3>1, <3>2
  <2> QED BY <2>1 DEF Ahead
<1>6. r <= n2
  BY <1>1, <1>2
<1>7. ~s.peer_connect => g = <<>> /\ s.tcp_out = <<>> /\ f = EmptyMap
  BY DEF ReceiverOK, f
<1> QED BY <1>2, <1>3, <1>5, <1>6, <1>7 DEF ReceiverOK, f

LEMMA FrameOnward ==
  ASSUME NEW m \in Message, NEW r \in Nat, NEW n \in Int, NEW f \in Map, NEW cut \in Int,
         NEW r2 \in Nat, NEW n2 \in Int, NEW f2 \in Map, NEW cut2 \in Int,
         FrameOK(m, r, n, f, cut), Onward(r, f, r2, f2), n <= n2, cut <= cut2
  PROVE  FrameOK(m, r2, n2, f2, cut2)
<1> DEFINE fr == m.frame
           c == m.received
<1>1. c \in Nat /\ fr \in Frame(Nat)
  BY DEF Message
<1>2. c <= r /\ fr.ack = c % MOD /\ fr.type \in {"CONNECT", "DATA", "ACK"}
  BY DEF FrameOK
<1>3. fr.type = "DATA" => fr.pay \in 1 .. n /\ fr.seq = (fr.pay - 1) % MOD
  BY DEF FrameOK
<1>4. fr.type = "ACK" => \A x \in fr.sack :
          \E k \in c + 2 .. c + WINDOW :
            /\ k <= cut
            /\ x = (k - 1) % MOD
            /\ k <= r \/ f[x] = k
  BY DEF FrameOK
<1>5. r <= r2 /\ \A x \in SeqNum : f[x] # NONE => f2[x] = f[x] \/ f[x] <= r2
  BY DEF Onward
<1>6. m.frame = fr /\ m.received = c
  OBVIOUS
<1> HIDE DEF fr, c
<1>7. c <= r2
  BY <1>1, <1>2, <1>5
<1>8. fr.type = "DATA" => fr.pay \in 1 .. n2 /\ fr.seq = (fr.pay - 1) % MOD
  <2>1. SUFFICES ASSUME fr.type = "DATA" PROVE fr.pay \in 1 .. n2
    BY <1>3
  <2>2. fr.pay \in 1 .. n
    BY <1>3, <2>1
  <2> QED BY <2>2
<1>9. ASSUME fr.type = "ACK", NEW x \in fr.sack
      PROVE  \E k \in c + 2 .. c + WINDOW :
               /\ k <= cut2
               /\ x = (k - 1) % MOD
               /\ k <= r2 \/ f2[x] = k
  <2>1. PICK k \in c + 2 .. c + WINDOW :
          /\ k <= cut
          /\ x = (k - 1) % MOD
          /\ k <= r \/ f[x] = k
    BY <1>4, <1>9
  <2>2. k \in Nat
    BY <1>1, ModPositive
  <2>3. k <= cut2
    BY <2>1, <2>2
  <2>4. x \in SeqNum
    BY <1>1, <1>9 DEF Frame
  <2>5. k <= r2 \/ f2[x] = k
    <3>1. CASE k <= r
      BY <1>5, <2>2, <3>1
    <3>2. CASE f[x] = k
      <4>1. f[x] # NONE
        BY <2>2, <3>2, SessionAssumption DEF SessionAssumption
      <4> QED BY <1>5, <2>4, <3>2, <4>1
    <3> QED BY <2>1, <3>1, <3>2
  <2> QED BY <2>1, <2>3, <2>5
<1> QED BY <1>2, <1>6, <1>7, <1>8, <1>9 DEF FrameOK

-----------------------------------------------------------------------------
(* The inductive invariant.                                                *)

LEMMA Peers ==
  ASSUME NEW e \in End
  PROVE  /\ Peer(e) \in End /\ Peer(e) # e /\ Peer(Peer(e)) = e
         /\ End = {e, Peer(e)}
BY SessionAssumption DEF SessionAssumption, Peer

\* What the invariant says of one end, with the types it needs.
LEMMA EndFacts ==
  ASSUME IInv, NEW e \in End
  PROVE  /\ stream[e] \in Stream(Nat) /\ written[e] \in Nat /\ app[e] \in Seq(Nat)
         /\ air[e] \in SUBSET Message /\ stream[e].reorder \in Map
         /\ Received(e) \in Nat /\ Segmented(e) \in Int
         /\ Received(e) = Count(stream[e], app[e])
         /\ Segmented(e) = written[e] - Len(stream[e].tcp_in)
         /\ EndOK(e, Peer(e))
<1>1. stream[e] \in Stream(Nat) /\ written[e] \in Nat /\ app[e] \in Seq(Nat)
      /\ air[e] \in SUBSET Message
  BY DEF IInv, TypeOK
<1>2. PICK s \in Stream(Nat) : s = stream[e]
  BY <1>1
<1>3. /\ s.reorder \in Map /\ Len(s.tcp_out) \in Nat /\ Len(s.tcp_in) \in Nat
  BY DEF Stream, Map
<1>4. Len(app[e]) \in Nat
  BY <1>1
<1>5. Received(e) = Count(stream[e], app[e])
  BY DEF Received, Count
<1>6. Segmented(e) = written[e] - Len(stream[e].tcp_in)
  BY DEF Segmented
<1>7. Received(e) \in Nat
  <2> DEFINE a == Len(app[e])
             o == Len(s.tcp_out)
  <2>1. Received(e) = a + o
    BY <1>2 DEF Received
  <2>2. o \in Nat /\ a \in Nat
    BY <1>3, <1>4
  <2> HIDE DEF a, o
  <2> QED BY <2>1, <2>2
<1>8. Segmented(e) \in Int
  BY <1>1, <1>2, <1>3, <1>6
<1>9. EndOK(e, Peer(e))
  BY DEF IInv
<1> QED BY <1>1, <1>2, <1>3, <1>5, <1>6, <1>7, <1>8, <1>9

\* The peer has received no more than was cut, and has cut no more than a
\* window beyond what was received.
LEMMA Window ==
  ASSUME IInv, NEW e \in End
  PROVE  Received(e) <= Segmented(Peer(e)) /\ Segmented(Peer(e)) <= Received(e) + WINDOW
<1> DEFINE p == Peer(e)
<1>1. p \in End /\ Peer(p) = e
  BY Peers
<1>2. ReceiverOK(stream[e], app[e], Segmented(p))
  BY EndFacts DEF EndOK
<1>3. SenderOK(stream[p], written[p], Received(e), stream[e].reorder)
  BY <1>1, EndFacts DEF EndOK
<1>4. Received(e) \in Nat /\ Segmented(p) \in Int
  BY <1>1, EndFacts
<1>5. Received(e) <= Segmented(p)
  BY <1>2 DEF ReceiverOK, Received
<1>6. PICK u \in Nat : u = Len(stream[p].unacked)
  <2>1. PICK s \in Stream(Nat) : s = stream[p]
    BY <1>1, EndFacts
  <2>2. Len(s.unacked) \in Nat
    BY DEF Stream
  <2> QED BY <2>1, <2>2
<1>7. u <= WINDOW /\ Segmented(p) - u \in 0 .. Received(e)
  BY <1>3, <1>6 DEF SenderOK, Segmented
<1>8. Segmented(p) <= Received(e) + WINDOW
  BY <1>4, <1>7, ModPositive
<1> QED BY <1>5, <1>8

\* One end moves, and loses nothing: the invariant holds again.
LEMMA EndMoves ==
  ASSUME IInv, NEW e \in End, NEW p, p = Peer(e),
         NEW t \in Stream(Nat), NEW w \in Nat, NEW g \in Seq(Nat),
         stream' = [stream EXCEPT ![e] = t],
         written' = [written EXCEPT ![e] = w],
         app' = [app EXCEPT ![e] = g],
         SenderOK(t, w, Received(p), stream[p].reorder),
         ReceiverOK(t, g, Segmented(p)),
         Segmented(e) <= w - Len(t.tcp_in),
         Onward(Received(e), stream[e].reorder, Count(t, g), t.reorder),
         air' \in [End -> SUBSET Message],
         air'[e] = air[e],
         \A m \in air'[p] :
           m \in air[p] \/ FrameOK(m, Received(e), Segmented(e), stream[e].reorder, Segmented(p))
  PROVE  IInv' /\ Received(e)' = Count(t, g) /\ Received(p)' = Received(p)
<1>1. p \in End /\ p # e /\ Peer(p) = e /\ End = {e, p}
  BY Peers
<1>2. /\ stream \in [End -> Stream(Nat)] /\ written \in [End -> Nat]
      /\ app \in [End -> Seq(Nat)]
  BY DEF IInv, TypeOK
<1>3. /\ stream'[e] = t /\ stream'[p] = stream[p]
      /\ written'[e] = w /\ written'[p] = written[p]
      /\ app'[e] = g /\ app'[p] = app[p]
  BY <1>1, <1>2
<1>4. TypeOK'
  BY <1>2 DEF TypeOK
<1>5. /\ Received(e)' = Count(t, g) /\ Received(p)' = Received(p)
      /\ Segmented(e)' = w - Len(t.tcp_in) /\ Segmented(p)' = Segmented(p)
  BY <1>3 DEF Received, Segmented, Count
<1>6. /\ Received(e) \in Nat /\ Received(p) \in Nat
      /\ Segmented(e) \in Int /\ Segmented(p) \in Int
      /\ stream[e].reorder \in Map /\ stream[p].reorder \in Map
      /\ stream[p] \in Stream(Nat) /\ written[p] \in Nat /\ app[p] \in Seq(Nat)
      /\ air[e] \in SUBSET Message /\ air[p] \in SUBSET Message
  BY <1>1, EndFacts
<1>7. EndOK(e, p) /\ EndOK(p, e)
  BY <1>1, EndFacts
<1>8. /\ Count(t, g) \in Nat /\ t.reorder \in Map /\ w - Len(t.tcp_in) \in Int
  BY DEF Count, Stream, Map
<1>9. air'[p] \in SUBSET Message
  BY <1>1
<1>10. EndOK(e, p)'
  <2>1. SenderOK(t, w, Received(p), stream[p].reorder)
    OBVIOUS
  <2>2. ReceiverOK(t, g, Segmented(p))
    OBVIOUS
  <2>3. ASSUME NEW m \in air[e]
        PROVE  FrameOK(m, Received(p), Segmented(p), stream[p].reorder, w - Len(t.tcp_in))
    <3>1. m \in Message
      BY <1>6
    <3>2. FrameOK(m, Received(p), Segmented(p), stream[p].reorder, Segmented(e))
      BY <1>7 DEF EndOK
    <3>3. Onward(Received(p), stream[p].reorder, Received(p), stream[p].reorder)
      BY <1>6 DEF Onward
    <3>4. Segmented(p) <= Segmented(p) /\ Segmented(e) <= w - Len(t.tcp_in)
      BY <1>6
    <3>5. /\ Received(p) \in Nat /\ Segmented(p) \in Int /\ Segmented(e) \in Int
          /\ stream[p].reorder \in Map /\ w - Len(t.tcp_in) \in Int
      BY <1>6, <1>8
    <3> QED BY ONLY <3>1, <3>2, <3>3, <3>4, <3>5, FrameOnward
  <2> QED BY <1>3, <1>5, <2>1, <2>2, <2>3 DEF EndOK
<1>11. EndOK(p, e)'
  <2>1. SenderOK(stream[p], written[p], Count(t, g), t.reorder)
    <3>1. SenderOK(stream[p], written[p], Received(e), stream[e].reorder)
      BY <1>7 DEF EndOK
    <3> QED BY <1>6, <1>8, <3>1, SenderOnward
  <2>2. ReceiverOK(stream[p], app[p], w - Len(t.tcp_in))
    <3>1. ReceiverOK(stream[p], app[p], Segmented(e))
      BY <1>7 DEF EndOK
    <3> QED BY <1>6, <1>8, <3>1, ReceiverOnward
  <2>3. ASSUME NEW m \in air'[p]
        PROVE  FrameOK(m, Count(t, g), w - Len(t.tcp_in), t.reorder, Segmented(p))
    <3> DEFINE c == Count(t, g)
               k == w - Len(t.tcp_in)
               h == t.reorder
    <3>1. m \in Message
      BY <1>9
    <3>2. FrameOK(m, Received(e), Segmented(e), stream[e].reorder, Segmented(p))
      BY <1>7 DEF EndOK
    <3>3. Segmented(p) <= Segmented(p) /\ Segmented(e) <= k
      BY <1>6
    <3>4. /\ Received(e) \in Nat /\ Segmented(p) \in Int /\ Segmented(e) \in Int
          /\ stream[e].reorder \in Map /\ k \in Int /\ c \in Nat /\ h \in Map
      BY <1>6, <1>8
    <3>5. Onward(Received(e), stream[e].reorder, c, h)
      OBVIOUS
    <3> HIDE DEF c, k, h
    <3>6. FrameOK(m, c, k, h, Segmented(p))
      BY ONLY <3>1, <3>2, <3>3, <3>4, <3>5, FrameOnward
    <3> QED BY <3>6 DEF c, k, h
  <2> QED BY <1>3, <1>5, <2>1, <2>2, <2>3 DEF EndOK
<1>12. \A d \in End : EndOK(d, Peer(d))'
  BY <1>1, <1>10, <1>11
<1>13. IInv'
  BY <1>4, <1>12 DEF IInv
<1> QED BY <1>5, <1>13

LEMMA InitIInv == Init => IInv
<1> SUFFICES ASSUME Init PROVE IInv
  OBVIOUS
<1> DEFINE s == Fresh
<1>1. EmptyMap \in [SeqNum -> Nat \cup {NONE}] /\ 0 \in SeqNum
  BY ModPositive DEF EmptyMap, SeqNum
<1>3. /\ <<>> \in Seq(Nat) /\ <<>> \in Seq(Segment(Nat)) /\ <<>> \in Seq(CtrlType)
      /\ Len(<<>>) = 0
  OBVIOUS
<1> HIDE DEF s
<1>4. s = Record(FALSE, FALSE, FALSE, FALSE, 0, 0, 0, <<>>, <<>>, <<>>, <<>>, EmptyMap)
      /\ s \in Stream(Nat)
  <2> HIDE DEF EmptyMap
  <2>1. s = Record(FALSE, FALSE, FALSE, FALSE, 0, 0, 0, <<>>, <<>>, <<>>, <<>>, EmptyMap)
    BY DEF s, Fresh, Record
  <2> QED BY <1>1, <1>3, <2>1 DEF Stream, Record
<1>5. /\ ~s.peer_close /\ s.ctrlq = <<>>
      /\ s.tx_seq = 0 /\ s.rx_seq = 0 /\ s.tx_acked = 0
      /\ s.tcp_in = <<>> /\ s.tcp_out = <<>> /\ s.unacked = <<>>
      /\ s.reorder = EmptyMap
  BY <1>4 DEF Record
<1>6. /\ stream = [e \in End |-> s]
      /\ air = [e \in End |-> {}]
      /\ written = [e \in End |-> 0]
      /\ app = [e \in End |-> <<>>]
  BY DEF Init, s
<1>7. TypeOK
  BY <1>3, <1>4, <1>6 DEF TypeOK
<1>8. 0 % MOD = 0
  BY ModPositive, SmallMod
<1>9. \A h : SenderOK(s, 0, 0, h)
  BY <1>3, <1>5, <1>8, ModPositive DEF SenderOK, Numbered, Joined
<1>10. ReceiverOK(s, <<>>, 0)
  <2>1. Ahead(EmptyMap, 0, 0)
    BY DEF Ahead, EmptyMap
  <2> QED BY <1>3, <1>5, <1>8, <2>1 DEF ReceiverOK
<1>11. ASSUME NEW e \in End, NEW p \in End
       PROVE  EndOK(e, p)
  <2>1. /\ stream[e] = s /\ stream[p] = s /\ app[e] = <<>> /\ app[p] = <<>>
        /\ written[e] = 0 /\ written[p] = 0 /\ air[e] = {}
    BY <1>6
  <2>2. Received(p) = 0 /\ Segmented(p) = 0
    BY <1>3, <1>5, <2>1 DEF Received, Segmented
  <2> QED BY <1>9, <1>10, <2>1, <2>2 DEF EndOK
<1> QED BY <1>7, <1>11, Peers DEF IInv

\* A step of the sending side of e, seen from the other end.
LEMMA SenderMoves ==
  ASSUME IInv, NEW e \in End,
         NEW t \in Stream(Nat), NEW w \in Nat,
         stream' = [stream EXCEPT ![e] = t],
         written' = [written EXCEPT ![e] = w],
         app' = app,
         SenderOK(t, w, Received(Peer(e)), stream[Peer(e)].reorder),
         SameReceiver(stream[e], t),
         Segmented(e) <= w - Len(t.tcp_in),
         air' \in [End -> SUBSET Message],
         air'[e] = air[e],
         \A m \in air'[Peer(e)] :
           m \in air[Peer(e)] \/
           FrameOK(m, Received(e), Segmented(e), stream[e].reorder, Segmented(Peer(e)))
  PROVE  IInv' /\ \A d \in End : Received(d)' = Received(d)
<1> DEFINE g == app[e]
           p == Peer(e)
           s == stream[e]
<1>1. app' = [app EXCEPT ![e] = g] /\ g \in Seq(Nat)
  BY DEF IInv, TypeOK
<1>2. ReceiverOK(s, g, Segmented(p)) /\ Received(e) = Count(s, g)
  BY EndFacts DEF EndOK
<1>3. ReceiverOK(t, g, Segmented(p))
  BY <1>2, ReceiverUntouched
<1>4. Count(t, g) = Received(e) /\ t.reorder = s.reorder
  BY <1>2 DEF SameReceiver, Count
<1>5. Received(e) \in Nat
  BY EndFacts
<1>6. Onward(Received(e), s.reorder, Count(t, g), t.reorder)
  BY <1>4, <1>5 DEF Onward
<1>7. IInv' /\ Received(e)' = Count(t, g) /\ Received(p)' = Received(p)
  BY <1>1, <1>3, <1>6, EndMoves
<1> QED BY <1>4, <1>7, Peers

LEMMA WriteIInv ==
  ASSUME IInv, NEW e \in End, Write(e)
  PROVE  IInv' /\ \A d \in End : Received(d)' = Received(d)
<1> DEFINE s == stream[e]
           w == written[e] + 1
           t == OnTcpBytes(s, w)
           p == Peer(e)
<1>1. p \in End /\ Peer(p) = e
  BY Peers
<1>2. /\ s \in Stream(Nat) /\ written[e] \in Nat
      /\ Received(p) \in Nat /\ stream[p].reorder \in Map
      /\ SenderOK(s, written[e], Received(p), stream[p].reorder)
  BY <1>1, EndFacts DEF EndOK
<1>3. /\ t \in Stream(Nat) /\ SenderOK(t, w, Received(p), stream[p].reorder)
      /\ SameReceiver(s, t) /\ Len(t.tcp_in) <= Len(s.tcp_in) + 1
  <2>1. Established(s)
    BY DEF Write, AcceptsTcp
  <2> HIDE DEF s, p
  <2> QED BY <1>2, <2>1, WriteSender
<1>4. /\ stream' = [stream EXCEPT ![e] = t]
      /\ written' = [written EXCEPT ![e] = w]
      /\ air' = air /\ app' = app
  BY DEF Write
<1>5. air \in [End -> SUBSET Message]
  BY DEF IInv, TypeOK
<1>6. Segmented(e) <= w - Len(t.tcp_in)
  <2> HIDE DEF t
  <2>1. Len(s.tcp_in) \in Nat /\ Len(t.tcp_in) \in Nat
    BY <1>2, <1>3 DEF Stream
  <2>2. Segmented(e) = written[e] - Len(s.tcp_in)
    BY DEF Segmented
  <2> HIDE DEF s
  <2> QED BY <1>2, <1>3, <2>1, <2>2
<1>7. w \in Nat
  BY <1>2
<1> HIDE DEF t, w
<1> QED BY <1>3, <1>4, <1>5, <1>6, <1>7, SenderMoves

LEMMA UpIInv ==
  ASSUME IInv, NEW e \in End, Up(e)
  PROVE  IInv' /\ \A d \in End : Received(d)' = Received(d)
<1> DEFINE s == stream[e]
           w == written[e]
           p == Peer(e)
           t == LocalUp(s)
<1>1. p \in End /\ Peer(p) = e
  BY Peers
<1>2. /\ s \in Stream(Nat) /\ w \in Nat
      /\ Received(p) \in Nat /\ stream[p].reorder \in Map
      /\ SenderOK(s, w, Received(p), stream[p].reorder)
  BY <1>1, EndFacts DEF EndOK
<1>3. /\ stream' = [stream EXCEPT ![e] = t]
      /\ air' = air /\ written' = written /\ app' = app
  BY DEF Up
<1>4. /\ t \in Stream(Nat) /\ SenderOK(t, w, Received(p), stream[p].reorder)
      /\ SameReceiver(s, t) /\ t.tcp_in = s.tcp_in
  <2> DEFINE up == TRUE
             r == Received(p)
             h == stream[p].reorder
  <2>1. t = [s EXCEPT !.local = up, !.ctrlq = Append(s.ctrlq, "CONNECT")]
    BY DEF Up, LocalUp
  <2>2. /\ up \in BOOLEAN /\ s \in Stream(Nat) /\ w \in Nat /\ r \in Nat /\ h \in Map
        /\ SenderOK(s, w, r, h)
    BY <1>2
  <2> HIDE DEF s, w, t, up, r, h
  <2>3. t = [s EXCEPT !.local = up, !.ctrlq = Append(s.ctrlq, "CONNECT")] =>
          /\ t \in Stream(Nat) /\ SenderOK(t, w, r, h)
          /\ SameReceiver(s, t) /\ t.tcp_in = s.tcp_in
    BY <2>2, ConnectSender
  <2>4. t \in Stream(Nat) /\ SenderOK(t, w, r, h) /\ SameReceiver(s, t) /\ t.tcp_in = s.tcp_in
    BY <2>1, <2>3
  <2> QED BY <2>4 DEF r, h
<1>5. air \in [End -> SUBSET Message] /\ written' = [written EXCEPT ![e] = w]
  BY <1>3 DEF IInv, TypeOK
<1>6. Segmented(e) <= w - Len(t.tcp_in)
  <2> HIDE DEF t
  <2>1. Len(s.tcp_in) \in Nat
    BY <1>2 DEF Stream
  <2>2. Segmented(e) = w - Len(s.tcp_in)
    BY DEF Segmented
  <2> HIDE DEF s, w
  <2> QED BY <1>2, <1>4, <2>1, <2>2
<1> HIDE DEF t
<1> QED BY <1>2, <1>3, <1>4, <1>5, <1>6, SenderMoves

LEMMA TickIInv ==
  ASSUME IInv, NEW e \in End, Tick(e)
  PROVE  IInv' /\ \A d \in End : Received(d)' = Received(d)
<1> DEFINE s == stream[e]
           w == written[e]
           p == Peer(e)
<1>1. p \in End /\ Peer(p) = e
  BY Peers
<1>2. /\ s \in Stream(Nat) /\ w \in Nat
      /\ Received(p) \in Nat /\ stream[p].reorder \in Map
      /\ SenderOK(s, w, Received(p), stream[p].reorder)
  BY <1>1, EndFacts DEF EndOK
<1>3. PICK due \in SUBSET DOMAIN s.unacked, reconnect \in BOOLEAN :
        /\ stream' = [stream EXCEPT ![e] = OnTick(s, due, reconnect)]
        /\ air' = air /\ written' = written /\ app' = app
  BY DEF Tick
<1> DEFINE t == OnTick(s, due, reconnect)
<1>4. /\ t \in Stream(Nat) /\ SenderOK(t, w, Received(p), stream[p].reorder)
      /\ SameReceiver(s, t) /\ Len(t.tcp_in) <= Len(s.tcp_in)
  <2> HIDE DEF s, p, w
  <2> QED BY <1>2, TickSender
<1>5. air \in [End -> SUBSET Message] /\ written' = [written EXCEPT ![e] = w]
  BY <1>3 DEF IInv, TypeOK
<1>6. Segmented(e) <= w - Len(t.tcp_in)
  <2> HIDE DEF t
  <2>1. Len(s.tcp_in) \in Nat /\ Len(t.tcp_in) \in Nat
    BY <1>2, <1>4 DEF Stream
  <2>2. Segmented(e) = w - Len(s.tcp_in)
    BY DEF Segmented
  <2> HIDE DEF s, w
  <2> QED BY <1>2, <1>4, <2>1, <2>2
<1>7. stream' = [stream EXCEPT ![e] = t]
  BY <1>3
<1> HIDE DEF t
<1> QED BY <1>2, <1>3, <1>4, <1>5, <1>6, <1>7, SenderMoves

LEMMA TransmitIInv ==
  ASSUME IInv, NEW e \in End, Transmit(e)
  PROVE  IInv' /\ \A d \in End : Received(d)' = Received(d)
<1> DEFINE s == stream[e]
           w == written[e]
           g == app[e]
           p == Peer(e)
           n == Segmented(p)
<1>1. p \in End /\ Peer(p) = e /\ p # e
  BY Peers
<1>2. /\ s \in Stream(Nat) /\ w \in Nat /\ g \in Seq(Nat)
      /\ Received(p) \in Nat /\ stream[p].reorder \in Map
      /\ SenderOK(s, w, Received(p), stream[p].reorder)
      /\ ReceiverOK(s, g, n)
      /\ Received(e) = Count(s, g) /\ Segmented(e) = w - Len(s.tcp_in)
  BY <1>1, EndFacts DEF EndOK
<1>3. n \in Nat
  <2>1. Received(e) \in Nat /\ Received(e) <= n /\ n \in Int
    BY <1>1, EndFacts, Window
  <2> HIDE DEF n
  <2> QED BY <2>1
<1>4. PICK q \in PullTx(s) :
        /\ stream' = [stream EXCEPT ![e] = q.left]
        /\ air' = [air EXCEPT ![p] =
                     air[p] \cup {[frame |-> q.frame, received |-> Received(e)]}]
        /\ written' = written /\ app' = app
  BY DEF Transmit
<1> DEFINE m == [frame |-> q.frame, received |-> Count(s, g)]
           t == q.left
<1>5. /\ t \in Stream(Nat) /\ SenderOK(t, w, Received(p), stream[p].reorder)
      /\ SameReceiver(s, t) /\ t.tcp_in = s.tcp_in
      /\ m \in Message
      /\ FrameOK(m, Count(s, g), w - Len(s.tcp_in), s.reorder, n)
  <2> HIDE DEF s, p, w, g, n
  <2> QED BY <1>2, <1>3, <1>4, TransmitStream
<1>6. air \in [End -> SUBSET Message] /\ written' = [written EXCEPT ![e] = w]
  BY <1>4 DEF IInv, TypeOK
<1>7. air' = [air EXCEPT ![p] = air[p] \cup {m}]
  BY <1>2, <1>4
<1> HIDE DEF m
<1>8. /\ air' \in [End -> SUBSET Message]
      /\ air'[e] = air[e]
      /\ air'[p] = air[p] \cup {m}
  BY <1>1, <1>5, <1>6, <1>7
<1>9. FrameOK(m, Received(e), Segmented(e), stream[e].reorder, Segmented(p))
  BY <1>2, <1>5
<1>10. \A k \in air'[p] :
         k \in air[p] \/
         FrameOK(k, Received(e), Segmented(e), stream[e].reorder, Segmented(p))
  BY <1>8, <1>9
<1>11. Segmented(e) <= w - Len(t.tcp_in)
  <2>1. Segmented(e) \in Int /\ Segmented(e) = w - Len(t.tcp_in)
    BY <1>2, <1>5, EndFacts
  <2> QED BY <2>1
<1>12. stream' = [stream EXCEPT ![e] = t]
  BY <1>4
<1> HIDE DEF t
<1> QED BY <1>2, <1>4, <1>5, <1>6, <1>8, <1>10, <1>11, <1>12, SenderMoves

LEMMA ReceiveIInv ==
  ASSUME IInv, NEW e \in End, Receive(e)
  PROVE  /\ IInv' /\ Received(e) <= Received(e)'
         /\ Received(Peer(e))' = Received(Peer(e))
<1> DEFINE s == stream[e]
           w == written[e]
           g == app[e]
           p == Peer(e)
           n == Segmented(p)
           r == Received(p)
           h == stream[p].reorder
<1>1. p \in End /\ Peer(p) = e /\ p # e
  BY Peers
<1>2. /\ s \in Stream(Nat) /\ w \in Nat /\ g \in Seq(Nat)
      /\ r \in Nat /\ h \in Map
      /\ SenderOK(s, w, r, h)
      /\ ReceiverOK(s, g, n)
  BY <1>1, EndFacts DEF EndOK
<1>3. Received(e) = Count(s, g) /\ Segmented(e) = w - Len(s.tcp_in)
  BY EndFacts
<1>4. n \in Nat /\ n <= Count(s, g) + WINDOW /\ r <= w - Len(s.tcp_in)
  <2>1. Received(e) \in Nat /\ Received(e) <= n /\ n \in Int
    BY <1>1, EndFacts, Window
  <2>2. n <= Received(e) + WINDOW /\ r <= Segmented(e)
    BY <1>1, Window
  <2>3. n \in Nat
    <3> HIDE DEF n
    <3> QED BY <2>1
  <2> QED BY <1>3, <2>2, <2>3
<1>5. PICK m \in air[e] :
        /\ Alive(e, m)
        /\ stream' = [stream EXCEPT ![e] = OnRadioRx(s, m.frame)]
        /\ air' = air /\ written' = written /\ app' = app
  BY DEF Receive
<1> DEFINE t == OnRadioRx(s, m.frame)
<1>6. m \in Message /\ FrameOK(m, r, n, h, w - Len(s.tcp_in))
  BY <1>1, <1>3, EndFacts DEF EndOK
<1>7. /\ m.frame.type = "DATA" => Count(s, g) - (m.frame.pay - 1) <= MOD - WINDOW
      /\ ((w - Len(s.tcp_in)) - Len(s.unacked)) - m.received < MOD - WINDOW
  BY <1>3, <1>5 DEF Alive, Acked
<1>8. /\ t \in Stream(Nat) /\ SenderOK(t, w, r, h) /\ ReceiverOK(t, g, n)
      /\ Len(t.tcp_in) <= Len(s.tcp_in)
      /\ Count(s, g) <= Count(t, g) /\ Keeps(s, t, g)
  <2>1. MayReceive(s, w, g, r, n, h, m)
    BY <1>2, <1>4, <1>6, <1>7 DEF MayReceive
  <2> HIDE DEF s, p, w, g, n, r, h
  <2> QED BY <1>2, <1>4, <1>6, <2>1, ReceiveStream
<1>9. stream' = [stream EXCEPT ![e] = t]
  BY <1>5
<1> HIDE DEF t
<1>10. /\ written' = [written EXCEPT ![e] = w]
       /\ app' = [app EXCEPT ![e] = g]
       /\ air' \in [End -> SUBSET Message] /\ air' = air
  BY <1>5 DEF IInv, TypeOK
<1>11. Segmented(e) <= w - Len(t.tcp_in)
  <2>1. Len(s.tcp_in) \in Nat /\ Len(t.tcp_in) \in Nat
    BY <1>2, <1>8 DEF Stream
  <2> HIDE DEF s, w
  <2> QED BY <1>2, <1>3, <1>8, <2>1
<1>12. Onward(Received(e), stream[e].reorder, Count(t, g), t.reorder)
  BY <1>3, <1>8 DEF Onward, Keeps
<1>13. IInv' /\ Received(e)' = Count(t, g) /\ Received(p)' = Received(p)
  BY <1>2, <1>8, <1>9, <1>10, <1>11, <1>12, EndMoves
<1> QED BY <1>3, <1>8, <1>13

\* Moving the first k segments of tcp_out to the application moves no segment.
LEMMA PullSegments ==
  ASSUME NEW a \in Seq(Nat), NEW o \in Seq(Nat), NEW k \in 1 .. Len(o),
         \A i \in 1 .. Len(a) : a[i] = i,
         \A i \in 1 .. Len(o) : o[i] = Len(a) + i
  PROVE  LET g == a \o SubSeq(o, 1, k)
             rest == SubSeq(o, k + 1, Len(o))
         IN /\ g \in Seq(Nat) /\ rest \in Seq(Nat) /\ Len(g) + Len(rest) = Len(a) + Len(o)
            /\ \A i \in 1 .. Len(g) : g[i] = i
            /\ \A i \in 1 .. Len(rest) : rest[i] = Len(g) + i
<1> DEFINE x == SubSeq(o, 1, k)
           rest == SubSeq(o, k + 1, Len(o))
           g == a \o x
<1>1. /\ x \in Seq(Nat) /\ Len(x) = k /\ \A i \in 1 .. k : x[i] = o[i]
  OBVIOUS
<1>2. /\ rest \in Seq(Nat) /\ Len(rest) = Len(o) - k
      /\ \A i \in 1 .. Len(rest) : rest[i] = o[k + i]
  OBVIOUS
<1>8. g = a \o x
  OBVIOUS
<1> HIDE DEF x, rest, g
<1>3. /\ g \in Seq(Nat) /\ Len(g) = Len(a) + k
      /\ \A i \in 1 .. Len(g) : g[i] = IF i <= Len(a) THEN a[i] ELSE x[i - Len(a)]
  <2>1. x \in Seq(Nat) /\ a \in Seq(Nat)
    BY <1>1
  <2>2. /\ g \in Seq(Nat) /\ Len(g) = Len(a) + Len(x)
        /\ \A i \in 1 .. Len(g) : g[i] = IF i <= Len(a) THEN a[i] ELSE x[i - Len(a)]
    BY ONLY <1>8, <2>1
  <2> QED BY <1>1, <2>2
<1>4. Len(a) \in Nat /\ Len(o) \in Nat /\ k \in Nat
  OBVIOUS
<1>5. ASSUME NEW i \in 1 .. Len(g)
      PROVE  g[i] = i
  <2>1. CASE i <= Len(a)
    <3>1. i \in 1 .. Len(a)
      BY <1>4, <2>1
    <3> QED BY <1>3, <2>1, <3>1
  <2>2. CASE i > Len(a)
    <3>1. i - Len(a) \in 1 .. k
      BY <1>3, <1>4, <2>2
    <3>2. i - Len(a) \in 1 .. Len(o)
      BY <1>4, <3>1
    <3>3. x[i - Len(a)] = o[i - Len(a)]
      BY <1>1, <3>1
    <3>4. o[i - Len(a)] = Len(a) + (i - Len(a))
      BY <3>2
    <3>5. g[i] = x[i - Len(a)]
      BY <1>3, <1>4, <2>2
    <3> QED BY <1>4, <3>3, <3>4, <3>5
  <2> QED BY <1>4, <2>1, <2>2
<1>6. ASSUME NEW i \in 1 .. Len(rest)
      PROVE  rest[i] = Len(g) + i
  <2>1. k + i \in 1 .. Len(o)
    BY <1>2, <1>4
  <2>2. o[k + i] = Len(a) + (k + i)
    BY <2>1
  <2>3. rest[i] = o[k + i]
    BY <1>2
  <2> QED BY <1>3, <1>4, <2>2, <2>3
<1>7. Len(g) + Len(rest) = Len(a) + Len(o)
  BY <1>2, <1>3, <1>4
<1> QED BY <1>2, <1>3, <1>5, <1>6, <1>7 DEF g, x, rest

LEMMA PullTcpIInv ==
  ASSUME IInv, NEW e \in End, PullTcp(e)
  PROVE  IInv' /\ \A d \in End : Received(d)' = Received(d)
<1> DEFINE s == stream[e]
           w == written[e]
           p == Peer(e)
           o == s.tcp_out
<1>1. p \in End /\ Peer(p) = e
  BY Peers
<1>2. /\ s \in Stream(Nat) /\ w \in Nat /\ app[e] \in Seq(Nat)
      /\ SenderOK(s, w, Received(p), stream[p].reorder)
      /\ ReceiverOK(s, app[e], Segmented(p))
      /\ Received(e) = Len(app[e]) + Len(o) /\ Segmented(e) = w - Len(s.tcp_in)
      /\ Received(e) \in Nat /\ Segmented(e) \in Int
  BY <1>1, EndFacts DEF EndOK, Count
<1>3. PICK k \in 1 .. Len(o) :
        /\ app' = [app EXCEPT ![e] = app[e] \o SubSeq(o, 1, k)]
        /\ stream' = [stream EXCEPT ![e] =
                         [s EXCEPT !.tcp_out = SubSeq(o, k + 1, Len(o))]]
        /\ air' = air /\ written' = written
  <2>1. stream \in [End -> Stream(Nat)]
    BY DEF IInv, TypeOK
  <2> QED BY <2>1 DEF PullTcp, Stream
<1> DEFINE g == app[e] \o SubSeq(o, 1, k)
           rest == SubSeq(o, k + 1, Len(o))
           t == [s EXCEPT !.tcp_out = rest]
<1>4. t = [s EXCEPT !.tcp_out = rest]
  OBVIOUS
<1>5. /\ g \in Seq(Nat) /\ rest \in Seq(Nat)
      /\ Len(g) + Len(rest) = Len(app[e]) + Len(o)
      /\ \A i \in 1 .. Len(g) : g[i] = i
      /\ \A i \in 1 .. Len(rest) : rest[i] = Len(g) + i
  <2> DEFINE a == app[e]
  <2>1. a \in Seq(Nat) /\ o \in Seq(Nat)
    BY <1>2 DEF Stream
  <2>2. \A i \in 1 .. Len(a) : a[i] = i
    BY <1>2 DEF ReceiverOK
  <2>3. \A i \in 1 .. Len(o) : o[i] = Len(a) + i
    BY <1>2 DEF ReceiverOK
  <2> HIDE DEF a, o
  <2> QED BY <2>1, <2>2, <2>3, PullSegments DEF a
<1>6. o # <<>>
  OBVIOUS
<1>7. /\ app' = [app EXCEPT ![e] = g]
      /\ stream' = [stream EXCEPT ![e] = t]
  BY <1>3
<1> HIDE DEF t, g, rest
<1>8. t = Record(s.local, s.peer_connect, s.peer_close, s.ack_pending, s.tx_seq,
                 s.rx_seq, s.tx_acked, s.tcp_in, rest, s.unacked, s.ctrlq, s.reorder)
  BY <1>2, <1>4 DEF Stream, Record
<1>9. t \in Stream(Nat)
  BY <1>2, <1>5, <1>8 DEF Stream, Record
<1>10. /\ SameSender(s, t) /\ t.tcp_out = rest /\ t.rx_seq = s.rx_seq
       /\ t.reorder = s.reorder /\ t.tcp_in = s.tcp_in
       /\ t.peer_connect = s.peer_connect
  BY <1>8 DEF Record, SameSender
<1>11. SenderOK(t, w, Received(p), stream[p].reorder)
  BY <1>2, <1>10, SenderUntouched
<1>12. Len(g) + Len(t.tcp_out) = Len(app[e]) + Len(s.tcp_out)
  BY <1>5, <1>10
<1>13. ReceiverOK(t, g, Segmented(p)) /\ Count(t, g) = Received(e)
  <2> DEFINE n == Segmented(p)
             r == Len(app[e]) + Len(s.tcp_out)
  <2>1. r <= n /\ s.rx_seq = r % MOD
    BY <1>2 DEF ReceiverOK
  <2>2. Ahead(s.reorder, r, n)
    BY <1>2 DEF ReceiverOK
  <2>3. s.peer_connect
    BY <1>2, <1>6 DEF ReceiverOK
  <2>4. Count(t, g) = r /\ Received(e) = r
    BY <1>2, <1>12 DEF Count
  <2>5. \A i \in 1 .. Len(t.tcp_out) : t.tcp_out[i] = Len(g) + i
    BY <1>5, <1>10
  <2> HIDE DEF n, r
  <2>6. ReceiverOK(t, g, n)
    BY <1>5, <1>10, <2>1, <2>2, <2>3, <2>4, <2>5 DEF ReceiverOK, Count
  <2> QED BY <2>4, <2>6 DEF n
<1>14. Segmented(e) <= w - Len(t.tcp_in)
  BY <1>2, <1>10
<1>15. Onward(Received(e), stream[e].reorder, Count(t, g), t.reorder)
  BY <1>2, <1>10, <1>13 DEF Onward
<1>16. /\ written' = [written EXCEPT ![e] = w]
       /\ air' \in [End -> SUBSET Message] /\ air' = air
  BY <1>3 DEF IInv, TypeOK
<1>17. g \in Seq(Nat)
  BY <1>5
<1>18. IInv' /\ Received(e)' = Count(t, g) /\ Received(p)' = Received(p)
  BY <1>2, <1>7, <1>9, <1>11, <1>13, <1>14, <1>15, <1>16, <1>17, EndMoves
<1> QED BY <1>13, <1>18, Peers

-----------------------------------------------------------------------------
(* The theorems.                                                           *)

LEMMA NextIInv == IInv /\ [Next]_vars => IInv'
<1> SUFFICES ASSUME IInv, [Next]_vars PROVE IInv'
  OBVIOUS
<1>1. ASSUME NEW e \in End, Write(e) PROVE IInv'
  BY <1>1, WriteIInv
<1>2. ASSUME NEW e \in End, Transmit(e) PROVE IInv'
  BY <1>2, TransmitIInv
<1>3. ASSUME NEW e \in End, Receive(e) PROVE IInv'
  BY <1>3, ReceiveIInv
<1>4. ASSUME NEW e \in End, Tick(e) PROVE IInv'
  BY <1>4, TickIInv
<1>5. ASSUME NEW e \in End, PullTcp(e) PROVE IInv'
  BY <1>5, PullTcpIInv
<1>7. ASSUME NEW e \in End, Up(e) PROVE IInv'
  BY <1>7, UpIInv
<1>6. CASE UNCHANGED vars
  BY <1>6 DEF vars, IInv, TypeOK, EndOK, Received, Segmented
<1> QED BY <1>1, <1>2, <1>3, <1>4, <1>5, <1>6, <1>7 DEF Next

\* IInv, which ties every sequence number in the streams and on the air to an
\* absolute segment number, holds in every reachable state.
THEOREM Invariance == Spec => []IInv
BY InitIInv, NextIInv, PTL DEF Spec

\* Both streams, the frames and what the applications wrote and read are well
\* formed: sequence numbers stay in uint16_t, the reorder map has no stray keys.
THEOREM TypeCorrect == Spec => []TypeOK
<1>1. IInv => TypeOK
  BY DEF IInv
<1> QED BY <1>1, Invariance, PTL

\* What the invariant says of the segments each end has received.
LEMMA InvInOrder == IInv => InOrder
<1>1. ASSUME IInv PROVE InOrder
  <2>1. ASSUME NEW e \in End
        PROVE  /\ Received(e) <= Segmented(Peer(e))
               /\ \A i \in 1 .. Received(e) : Got(e)[i] = i
    <3>1. Received(e) <= Segmented(Peer(e))
      BY <1>1, Window
    <3>2. ASSUME NEW i \in 1 .. Received(e)
          PROVE  Got(e)[i] = i
      <4> DEFINE a == app[e]
                 o == stream[e].tcp_out
      <4>1. stream[e] \in Stream(Nat) /\ a \in Seq(Nat)
            /\ ReceiverOK(stream[e], a, Segmented(Peer(e)))
        BY <1>1, EndFacts DEF EndOK
      <4>2. o \in Seq(Nat)
        BY <4>1 DEF Stream
      <4>3. \A j \in 1 .. Len(a) : a[j] = j
        BY <4>1 DEF ReceiverOK
      <4>4. \A j \in 1 .. Len(o) : o[j] = Len(a) + j
        BY <4>1 DEF ReceiverOK
      <4>5. Got(e) = a \o o /\ Received(e) = Len(a) + Len(o)
        BY DEF Got, Received
      <4> HIDE DEF a, o
      <4>6. Len(a) \in Nat /\ Len(o) \in Nat
        BY <4>1, <4>2
      <4>7. (a \o o)[i] = IF i <= Len(a) THEN a[i] ELSE o[i - Len(a)]
        BY <4>1, <4>2, <4>5
      <4>8. CASE i <= Len(a)
        <5>1. i \in 1 .. Len(a)
          BY <4>5, <4>6, <4>8
        <5> QED BY <4>3, <4>5, <4>7, <4>8, <5>1
      <4>9. CASE i > Len(a)
        <5>1. i - Len(a) \in 1 .. Len(o)
          BY <4>5, <4>6, <4>9
        <5>2. o[i - Len(a)] = Len(a) + (i - Len(a))
          BY <4>4, <5>1
        <5>3. Got(e)[i] = o[i - Len(a)]
          BY <4>5, <4>6, <4>7, <4>9
        <5> QED BY <4>6, <5>2, <5>3
      <4>10. i <= Len(a) \/ i > Len(a)
        BY <4>5, <4>6
      <4> QED BY <4>8, <4>9, <4>10
    <3> QED BY <3>1, <3>2
  <2> QED BY <2>1 DEF InOrder
<1> QED BY <1>1

\* Whatever the radio loses, repeats or reorders, each end receives the other's
\* segments in order, none missing and none twice.
THEOREM Ordered == Spec => []InOrder
BY InvInOrder, Invariance, PTL

\* No stale, repeated or wrapped ACK ever takes a segment out of unacked that
\* the peer has not delivered.
THEOREM AcksAreTrue == Spec => []AckedWasDelivered
<1>1. ASSUME IInv PROVE AckedWasDelivered
  <2>1. ASSUME NEW e \in End
        PROVE  Acked(e) <= Received(Peer(e))
    <3>1. SenderOK(stream[e], written[e], Received(Peer(e)), stream[Peer(e)].reorder)
      BY <1>1, EndFacts DEF EndOK
    <3>2. Acked(e) \in 0 .. Received(Peer(e))
      BY <3>1 DEF SenderOK, Acked, Segmented
    <3>3. Received(Peer(e)) \in Nat
      BY <1>1, Peers, EndFacts
    <3> QED BY <3>2, <3>3
  <2> QED BY <2>1 DEF AckedWasDelivered
<1> QED BY <1>1, Invariance, PTL

\* The unacked segment number i of e, and the sacked ones among them.
LEMMA Unacked ==
  ASSUME IInv, NEW e \in End, NEW i \in DOMAIN stream[e].unacked
  PROVE  LET seg == stream[e].unacked[i]
         IN /\ seg.pay = Acked(e) + i /\ seg.seq \in SeqNum
            /\ seg.sacked => \/ seg.pay <= Received(Peer(e))
                             \/ stream[Peer(e)].reorder[seg.seq] = seg.pay
<1> DEFINE p == Peer(e)
           r == Received(p)
           h == stream[p].reorder
<1>1. SenderOK(stream[e], written[e], r, h)
  BY EndFacts DEF EndOK
<1>2. PICK u \in Seq(Segment(Nat)) : u = stream[e].unacked
  <2>1. stream[e] \in Stream(Nat)
    BY EndFacts
  <2> QED BY <2>1 DEF Stream
<1>3. i \in 1 .. Len(u) /\ u[i] \in Segment(Nat)
  BY <1>2
<1>4. Numbered(u, Acked(e))
  BY <1>1, <1>2 DEF SenderOK, Acked, Segmented
<1>5. \A j \in 1 .. Len(u) :
        u[j].sacked => Acked(e) + j <= r \/ h[u[j].seq] = Acked(e) + j
  BY <1>1, <1>2 DEF SenderOK, Acked, Segmented
<1> HIDE DEF r, h
<1>6. u[i].pay = Acked(e) + i
  BY <1>3, <1>4 DEF Numbered
<1>7. u[i].seq \in SeqNum
  BY <1>3 DEF Segment
<1>8. u[i].sacked => u[i].pay <= r \/ h[u[i].seq] = u[i].pay
  BY <1>3, <1>5, <1>6
<1> QED BY <1>2, <1>6, <1>7, <1>8 DEF r, h

\* A segment that a SACK took out of retransmission is at the peer.
THEOREM SacksAreTrue == Spec => []SackedIsHeld
<1>1. IInv => SackedIsHeld
  BY Unacked DEF SackedIsHeld
<1> QED BY <1>1, Invariance, PTL

\* No history wedges the stream: the segment the peer waits for is in unacked
\* and still to be sent again.
THEOREM NeverWedged == Spec => []HoleIsRetransmitted
<1>1. ASSUME IInv PROVE HoleIsRetransmitted
  <2>1. ASSUME NEW e \in End, Received(Peer(e)) < Segmented(e)
        PROVE  \E i \in DOMAIN stream[e].unacked :
                 /\ stream[e].unacked[i].pay = Received(Peer(e)) + 1
                 /\ ~stream[e].unacked[i].sacked
    <3> DEFINE p == Peer(e)
               u == stream[e].unacked
               r == Received(p)
               h == stream[p].reorder
               i == (r + 1) - Acked(e)
    <3>1. p \in End /\ Peer(p) = e
      BY Peers
    <3>2. SenderOK(stream[e], written[e], r, h)
      BY <1>1, EndFacts DEF EndOK
    <3>3. ReceiverOK(stream[p], app[p], Segmented(e))
      BY <1>1, <3>1, EndFacts DEF EndOK
    <3>4. u \in Seq(Segment(Nat))
      <4>1. stream[e] \in Stream(Nat)
        BY <1>1, EndFacts
      <4> QED BY <4>1 DEF Stream
    <3>5. r \in Nat /\ Segmented(e) \in Int
      BY <1>1, <3>1, EndFacts
    <3>6. Acked(e) \in 0 .. r
      BY <3>2 DEF SenderOK, Acked, Segmented
    <3>7. Len(u) \in Nat /\ Acked(e) = Segmented(e) - Len(u)
      BY <3>4 DEF Acked
    <3>8. i \in DOMAIN u
      <4>1. i \in 1 .. Len(u)
        BY <2>1, <3>5, <3>6, <3>7
      <4> QED BY <3>4, <4>1
    <3>9. Acked(e) + i = r + 1
      BY <3>5, <3>6
    <3>10. Ahead(h, r, Segmented(e))
      BY <3>3 DEF ReceiverOK, Received
    <3> HIDE DEF i
    <3>11. /\ u[i].pay = r + 1 /\ u[i].seq \in SeqNum
           /\ u[i].sacked => u[i].pay <= r \/ h[u[i].seq] = u[i].pay
      BY <1>1, <3>8, <3>9, Unacked
    <3>12. ~u[i].sacked
      <4>1. SUFFICES ASSUME u[i].sacked PROVE FALSE
        OBVIOUS
      <4> DEFINE x == u[i].seq
      <4>2. ~(r + 1 <= r) /\ r + 1 \in Nat
        BY <3>5
      <4>3. h[x] = r + 1 /\ x \in SeqNum
        BY <3>11, <4>1, <4>2
      <4> HIDE DEF x, h, r
      <4>4. h[x] # NONE
        BY <4>2, <4>3, SessionAssumption DEF SessionAssumption
      <4>5. h[x] \in r + 2 .. r + WINDOW
        BY <3>10, <4>3, <4>4 DEF Ahead
      <4> QED BY <3>5, <4>3, <4>5, ModPositive
    <3> QED BY <3>8, <3>11, <3>12
  <2> QED BY <2>1 DEF HoleIsRetransmitted
<1> QED BY <1>1, Invariance, PTL

-----------------------------------------------------------------------------
(* The oldest unacknowledged segment.  When the peer holds segment k out of *)
(* order, it has received fewer than k - 1 segments; once it receives the    *)
(* hole it has k as well.  So no frame carries the ACK number k - 1 after a  *)
(* SACK of k, nor did one before, and apply_ack() never stops right before a *)
(* segment that apply_sack() has marked.                                    *)

\* The segments of s that a SACK has taken out of retransmission.
Marks(s) == {s.unacked[i].pay : i \in {j \in DOMAIN s.unacked : s.unacked[j].sacked}}

\* What is written and not yet acknowledged, cut or not.
Queued(s) == Len(s.tcp_in) + Len(s.unacked)

\* The SACK blocks of m name the segment k.
Names(m, k) ==
  /\ m.frame.type = "ACK"
  /\ k \in m.received + 2 .. m.received + WINDOW
  /\ (k - 1) % MOD \in m.frame.sack

AckCarried(e) == Acked(e) = 0 \/ \E m \in air[e] : m.received = Acked(e)

NamedSkipped(e) ==
  \A m \in air[e], n \in air[e], k \in Nat : Names(m, k) => n.received + 1 # k

MarkedSkipped(e) ==
  \A k \in Marks(stream[e]) : k >= 2 /\ \A n \in air[e] : n.received + 1 # k

OldestInv ==
  IInv /\ \A e \in End : AckCarried(e) /\ NamedSkipped(e) /\ MarkedSkipped(e)

LEMMA StreamQueues ==
  ASSUME NEW s \in Stream(Nat)
  PROVE  /\ s.tcp_in \in Seq(Nat) /\ s.unacked \in Seq(Segment(Nat))
         /\ Len(s.tcp_in) \in Nat /\ Len(s.unacked) \in Nat /\ Queued(s) \in Nat
         /\ DOMAIN s.unacked = 1 .. Len(s.unacked)
         /\ \A i \in 1 .. Len(s.unacked) : s.unacked[i] \in Segment(Nat)
<1>1. s.tcp_in \in Seq(Nat) /\ s.unacked \in Seq(Segment(Nat))
  BY DEF Stream
<1>2. PICK u \in Seq(Segment(Nat)) : u = s.unacked
  BY <1>1
<1>3. /\ Len(u) \in Nat /\ DOMAIN u = 1 .. Len(u)
      /\ \A i \in 1 .. Len(u) : u[i] \in Segment(Nat)
  OBVIOUS
<1>4. Len(s.tcp_in) \in Nat
  BY <1>1
<1>5. Queued(s) \in Nat
  <2>1. PICK a \in Nat, b \in Nat : a = Len(s.tcp_in) /\ b = Len(s.unacked)
    BY <1>2, <1>3, <1>4
  <2>2. Queued(s) = a + b
    BY <2>1 DEF Queued
  <2> QED BY <2>2
<1> QED BY <1>1, <1>2, <1>3, <1>4, <1>5

LEMMA MarksAt ==
  ASSUME NEW s \in Stream(Nat), NEW k
  PROVE  k \in Marks(s) <=>
           \E i \in 1 .. Len(s.unacked) : s.unacked[i].sacked /\ s.unacked[i].pay = k
BY StreamQueues DEF Marks

\* What none of the methods but apply_ack() and apply_sack() changes.
SameMarks(s, t) == Queued(t) = Queued(s) /\ Marks(t) \subseteq Marks(s)

\* Equal queues up to in_flight.
LEMMA MarksOfEqual ==
  ASSUME NEW s \in Stream(Nat), NEW t \in Stream(Nat),
         t.tcp_in = s.tcp_in, Len(t.unacked) = Len(s.unacked),
         \A i \in 1 .. Len(s.unacked) : /\ t.unacked[i].pay = s.unacked[i].pay
                                        /\ t.unacked[i].sacked = s.unacked[i].sacked
  PROVE  SameMarks(s, t)
<1>1. ASSUME NEW k \in Marks(t) PROVE k \in Marks(s)
  BY <1>1, MarksAt
<1> QED BY <1>1 DEF SameMarks, Queued

\* queue_data() moves segments from tcp_in to unacked; none is marked.
LEMMA CutMarks ==
  ASSUME NEW s \in Stream(Nat), NEW t \in Stream(Nat), t = Cut(s),
         Len(s.unacked) <= WINDOW
  PROVE  SameMarks(s, t)
<1> DEFINE ti == s.tcp_in
           u == s.unacked
           room == WINDOW - Len(u)
           n == IF Len(ti) < room THEN Len(ti) ELSE room
           new == [i \in 1 .. n |-> [seq |-> SeqAdd(s.tx_seq, i - 1), pay |-> ti[i],
                                     in_flight |-> FALSE, sacked |-> FALSE]]
<1>1. t.unacked = u \o new /\ t.tcp_in = SubSeq(ti, n + 1, Len(ti))
  BY DEF Cut, Stream
<1>2. ti \in Seq(Nat) /\ Len(ti) \in Nat /\ u \in Seq(Segment(Nat)) /\ Len(u) \in Nat
  BY StreamQueues
<1>3. n \in Nat /\ n <= Len(ti)
  BY <1>2, ModPositive
<1>n. \A i \in 1 .. n : ~new[i].sacked
  OBVIOUS
<1> DEFINE T == Segment(Nat) \cup {new[i] : i \in 1 .. n}
<1>4. new \in Seq(T) /\ Len(new) = n /\ u \in Seq(T)
  <2>1. new \in Seq(T) /\ Len(new) = n
    <3>1. new = [i \in 1 .. n |-> new[i]] /\ \A i \in 1 .. n : new[i] \in T
      OBVIOUS
    <3> HIDE DEF n, new, T
    <3> QED BY <1>3, <3>1
  <2>2. \A i \in 1 .. Len(u) : u[i] \in T
    BY <1>2
  <2> HIDE DEF T, u, new
  <2> QED BY <1>2, <2>1, <2>2
<1> HIDE DEF ti, u, n, new, T
<1>5. Len(u \o new) = Len(u) + n
      /\ \A i \in 1 .. Len(u) + n : (u \o new)[i] = IF i <= Len(u) THEN u[i] ELSE new[i - Len(u)]
  BY <1>4, Joins
<1>6. Len(SubSeq(ti, n + 1, Len(ti))) = Len(ti) - n
  BY <1>2, <1>3
<1>7. Queued(t) = Queued(s)
  <2>1. Len(t.unacked) = Len(u) + n /\ Len(t.tcp_in) = Len(ti) - n
    BY <1>1, <1>5, <1>6
  <2>2. Queued(t) = Len(ti) - n + (Len(u) + n) /\ Queued(s) = Len(ti) + Len(u)
    BY <2>1 DEF Queued, ti, u
  <2> QED BY <1>2, <1>3, <2>2
<1>8. ASSUME NEW k \in Marks(t) PROVE k \in Marks(s)
  <2>1. PICK i \in 1 .. Len(t.unacked) : t.unacked[i].sacked /\ t.unacked[i].pay = k
    BY <1>8, MarksAt
  <2>2. i \in 1 .. Len(u) + n /\ (u \o new)[i].sacked /\ (u \o new)[i].pay = k
    BY <1>1, <1>5, <2>1
  <2>3. CASE i <= Len(u)
    <3>1. i \in 1 .. Len(u) /\ u[i].sacked /\ u[i].pay = k
      BY <1>2, <1>5, <2>2, <2>3
    <3> QED BY <3>1, MarksAt DEF u
  <2>4. CASE i > Len(u)
    <3>1. i - Len(u) \in 1 .. n /\ (u \o new)[i] = new[i - Len(u)]
      BY <1>2, <1>3, <1>5, <2>2, <2>4
    <3> QED BY <1>n, <2>2, <3>1
  <2> QED BY <1>2, <2>2, <2>3, <2>4
<1> QED BY <1>7, <1>8 DEF SameMarks

LEMMA QueueMarks ==
  ASSUME NEW s \in Stream(Nat), NEW t \in Stream(Nat), t = QueueData(s),
         Len(s.unacked) <= WINDOW
  PROVE  SameMarks(s, t)
<1>1. CASE Established(s)
  BY <1>1, CutMarks DEF QueueData
<1>2. CASE ~Established(s)
  BY <1>2 DEF QueueData, SameMarks
<1> QED BY <1>1, <1>2

\* local_up() and the repeated CONNECT; deliver_data() and the handshake.
LEMMA UntouchedMarks ==
  ASSUME NEW s, NEW t, t.tcp_in = s.tcp_in, t.unacked = s.unacked
  PROVE  SameMarks(s, t)
BY DEF SameMarks, Queued, Marks

LEMMA ExpireMarks ==
  ASSUME NEW s \in Stream(Nat), NEW due, NEW t \in Stream(Nat), t = Expire(s, due)
  PROVE  SameMarks(s, t)
<1>1. /\ DOMAIN s.unacked = 1 .. Len(s.unacked)
      /\ \A i \in 1 .. Len(s.unacked) : s.unacked[i] \in Segment(Nat)
      /\ Len(s.unacked) \in Nat
  BY StreamQueues
<1> DEFINE u == s.unacked
           v == [i \in DOMAIN u |->
                   IF i \in due /\ ~u[i].sacked THEN [u[i] EXCEPT !.in_flight = FALSE]
                   ELSE u[i]]
<1>2. t.unacked = v /\ t.tcp_in = s.tcp_in
  BY DEF Expire, Stream
<1>3. Len(v) = Len(u)
  <2>1. DOMAIN v = 1 .. Len(u)
    BY <1>1
  <2>2. DOMAIN t.unacked = 1 .. Len(t.unacked) /\ Len(t.unacked) \in Nat
    BY StreamQueues
  <2> HIDE DEF u, v
  <2> QED BY <1>1, <1>2, <2>1, <2>2 DEF u
<1>4. ASSUME NEW i \in 1 .. Len(u)
      PROVE  v[i].pay = u[i].pay /\ v[i].sacked = u[i].sacked
  <2>1. u[i] \in Segment(Nat) /\ i \in DOMAIN u
    BY <1>1
  <2>2. v[i] = IF i \in due /\ ~u[i].sacked THEN [u[i] EXCEPT !.in_flight = FALSE]
               ELSE u[i]
    BY <2>1
  <2> HIDE DEF u, v
  <2> QED BY <2>1, <2>2, MarkSegment
<1> HIDE DEF v
<1> QED BY <1>2, <1>3, <1>4, MarksOfEqual

LEMMA SendMarks ==
  ASSUME NEW s \in Stream(Nat), NEW i \in 1 .. Len(s.unacked), NEW t \in Stream(Nat)
  PROVE  t = [s EXCEPT !.unacked[i].in_flight = TRUE] => SameMarks(s, t)
<1> SUFFICES ASSUME t = [s EXCEPT !.unacked[i].in_flight = TRUE] PROVE SameMarks(s, t)
  OBVIOUS
<1>1. /\ DOMAIN s.unacked = 1 .. Len(s.unacked)
      /\ \A j \in 1 .. Len(s.unacked) : s.unacked[j] \in Segment(Nat)
      /\ Len(s.unacked) \in Nat
  BY StreamQueues
<1> DEFINE u == s.unacked
           v == [u EXCEPT ![i] = [u[i] EXCEPT !.in_flight = TRUE]]
<1>2. t.unacked = v /\ t.tcp_in = s.tcp_in
  BY DEF Stream
<1>3. Len(v) = Len(u)
  <2>1. DOMAIN v = 1 .. Len(u)
    BY <1>1
  <2>2. DOMAIN t.unacked = 1 .. Len(t.unacked) /\ Len(t.unacked) \in Nat
    BY StreamQueues
  <2> HIDE DEF u, v
  <2> QED BY <1>1, <1>2, <2>1, <2>2 DEF u
<1>4. ASSUME NEW j \in 1 .. Len(u)
      PROVE  v[j].pay = u[j].pay /\ v[j].sacked = u[j].sacked
  <2>1. u[j] \in Segment(Nat) /\ j \in DOMAIN u
    BY <1>1
  <2>2. v[j] = IF j = i THEN [u[j] EXCEPT !.in_flight = TRUE] ELSE u[j]
    BY <2>1
  <2> HIDE DEF u, v
  <2> QED BY <2>1, <2>2, MarkSegment
<1> HIDE DEF v
<1> QED BY <1>2, <1>3, <1>4, MarksOfEqual

\* apply_ack() moves on to the ACK number or not at all.
LEMMA AckMarks ==
  ASSUME NEW s \in Stream(Nat), NEW w \in Nat, NEW r \in Nat, NEW held \in Map,
         SenderOK(s, w, r, held), NEW m \in 0 .. r, r <= w - Len(s.tcp_in),
         w - Queued(s) - m < MOD - WINDOW,
         NEW t \in Stream(Nat), t = ApplyAck(s, m % MOD)
  PROVE  /\ Marks(t) \subseteq Marks(s)
         /\ w - Queued(t) = w - Queued(s) \/ w - Queued(t) = m
<1> DEFINE u == s.unacked
           a == w - Queued(s)
           delta == SeqDiff(m % MOD, s.tx_acked)
<1>1. u \in Seq(Segment(Nat)) /\ Len(u) \in Nat /\ Len(s.tcp_in) \in Nat
  BY StreamQueues
<1>2. Len(u) <= WINDOW /\ a \in 0 .. r /\ s.tx_acked = a % MOD
  <2>1. w - Len(s.tcp_in) - Len(s.unacked) = a
    BY <1>1 DEF Queued
  <2> QED BY <2>1 DEF SenderOK
<1>3. t = IF delta = 0 \/ delta > Len(u) \/ delta > WINDOW THEN s
          ELSE [s EXCEPT !.unacked = SubSeq(u, delta + 1, Len(u)),
                         !.tx_acked = SeqAdd(@, delta)]
  BY DEF ApplyAck
<1>4. delta = IF m >= a THEN m - a ELSE (m - a) + MOD
  <2>1. m - a < MOD /\ a - m < MOD /\ m \in Int /\ a \in Int
    <3>1. PICK x \in Nat, y \in Nat : x = Len(s.tcp_in) /\ y = Len(u)
      BY <1>1
    <3>2. Queued(s) = x + y /\ a = w - (x + y) /\ r <= w - x /\ y <= WINDOW
      BY <1>2, <3>1 DEF Queued
    <3>3. a - m < MOD - WINDOW
      OBVIOUS
    <3> HIDE DEF a
    <3> QED BY <1>2, <3>2, <3>3, ModPositive
  <2>2. SeqDiff(m % MOD, a % MOD) = IF m >= a THEN m - a ELSE m - a + MOD
    <3> HIDE DEF a
    <3> QED BY <2>1, SeqDiffAbs
  <2> QED BY <1>2, <2>1, <2>2, ModPositive
<1> HIDE DEF delta
<1>5. CASE delta = 0 \/ delta > Len(u) \/ delta > WINDOW
  BY <1>3, <1>5
<1>6. CASE ~(delta = 0 \/ delta > Len(u) \/ delta > WINDOW)
  <2>1. delta = m - a /\ delta \in 1 .. Len(u)
    <3>1. delta \in Int /\ (m < a => delta > WINDOW)
      BY <1>2, <1>4, ModPositive
    <3> QED BY <1>1, <1>2, <1>4, <1>6, <3>1
  <2> DEFINE v == SubSeq(u, delta + 1, Len(u))
  <2>2. t.unacked = v /\ t.tcp_in = s.tcp_in
    BY <1>3, <1>6 DEF Stream
  <2>3. Len(v) = Len(u) - delta /\ \A i \in 1 .. Len(v) : v[i] = u[delta + i]
    <3>1. delta \in 0 .. Len(u)
      BY <2>1
    <3> HIDE DEF u, v
    <3>2. v = SubSeq(u, delta + 1, Len(u))
      BY DEF v
    <3> QED BY ONLY <1>1, <3>1, <3>2, Drops
  <2> HIDE DEF v
  <2>4. ASSUME NEW k \in Marks(t) PROVE k \in Marks(s)
    <3>1. PICK i \in 1 .. Len(v) : v[i].sacked /\ v[i].pay = k
      BY <2>2, <2>4, MarksAt
    <3>2. PICK j \in 1 .. Len(u) : j = delta + i
      <4> HIDE DEF u
      <4> QED BY <1>1, <2>1, <2>3
    <3>3. u[j].sacked /\ u[j].pay = k
      BY <2>3, <3>1, <3>2
    <3> QED BY <3>3, MarksAt
  <2>5. w - Queued(t) = m
    <3>1. Queued(t) = Len(s.tcp_in) + (Len(u) - delta) /\ Queued(s) = Len(s.tcp_in) + Len(u)
      BY <2>2, <2>3 DEF Queued
    <3> HIDE DEF u, v
    <3> QED BY <1>1, <1>2, <2>1, <3>1
  <2> QED BY <2>4, <2>5
<1> QED BY <1>5, <1>6

\* apply_sack() marks the segments it names.
LEMMA SackMarks ==
  ASSUME NEW s \in Stream(Nat), NEW sns, NEW t \in Stream(Nat), t = ApplySack(s, sns)
  PROVE  /\ Queued(t) = Queued(s)
         /\ \A k \in Marks(t) :
              k \in Marks(s) \/ \E i \in 1 .. Len(s.unacked) :
                                  s.unacked[i].seq \in sns /\ s.unacked[i].pay = k
<1>1. /\ DOMAIN s.unacked = 1 .. Len(s.unacked)
      /\ \A i \in 1 .. Len(s.unacked) : s.unacked[i] \in Segment(Nat)
      /\ Len(s.unacked) \in Nat
  BY StreamQueues
<1> DEFINE u == s.unacked
           v == [i \in DOMAIN u |->
                   IF u[i].seq \in sns THEN [u[i] EXCEPT !.sacked = TRUE] ELSE u[i]]
<1>2. t.unacked = v /\ t.tcp_in = s.tcp_in
  BY DEF ApplySack, Stream
<1>3. Len(v) = Len(u)
  <2>1. DOMAIN v = 1 .. Len(u)
    BY <1>1
  <2>2. DOMAIN t.unacked = 1 .. Len(t.unacked) /\ Len(t.unacked) \in Nat
    BY StreamQueues
  <2> HIDE DEF u, v
  <2> QED BY <1>1, <1>2, <2>1, <2>2 DEF u
<1>4. ASSUME NEW i \in 1 .. Len(u)
      PROVE  v[i].pay = u[i].pay /\ (v[i].sacked => u[i].sacked \/ u[i].seq \in sns)
  <2>1. u[i] \in Segment(Nat) /\ i \in DOMAIN u
    BY <1>1
  <2>2. v[i] = IF u[i].seq \in sns THEN [u[i] EXCEPT !.sacked = TRUE] ELSE u[i]
    BY <2>1
  <2> HIDE DEF u, v
  <2> QED BY <2>1, <2>2, MarkSegment
<1> HIDE DEF v
<1>5. Queued(t) = Queued(s)
  BY <1>2, <1>3 DEF Queued
<1>6. ASSUME NEW k \in Marks(t)
      PROVE  k \in Marks(s) \/ \E i \in 1 .. Len(u) : u[i].seq \in sns /\ u[i].pay = k
  <2>1. PICK i \in 1 .. Len(u) : v[i].sacked /\ v[i].pay = k
    BY <1>2, <1>3, <1>6, MarksAt
  <2>2. u[i].pay = k /\ (u[i].sacked \/ u[i].seq \in sns)
    BY <1>4, <2>1
  <2>3. CASE u[i].sacked
    BY <2>2, <2>3, MarksAt
  <2> QED BY <2>2, <2>3
<1> QED BY <1>5, <1>6

\* The sequence number of a SACK block names the segment it was meant for.
LEMMA NamesMeant ==
  ASSUME NEW s \in Stream(Nat), NEW w \in Nat, NEW r \in Nat, NEW held,
         SenderOK(s, w, r, held), NEW m \in Nat,
         (w - Queued(s)) - m \in 0 .. MOD - WINDOW, NEW sns,
         \A x \in sns : \E k \in m + 2 .. m + WINDOW :
            k <= w - Len(s.tcp_in) /\ x = (k - 1) % MOD,
         NEW i \in 1 .. Len(s.unacked), s.unacked[i].seq \in sns
  PROVE  /\ s.unacked[i].pay \in m + 2 .. m + WINDOW
         /\ (s.unacked[i].pay - 1) % MOD \in sns
<1> DEFINE u == s.unacked
           cut == w - Len(s.tcp_in)
           acked == cut - Len(u)
<1>1. Len(u) \in Nat /\ Len(s.tcp_in) \in Nat
  BY StreamQueues
<1>2. PICK x \in Nat, y \in Nat : x = Len(s.tcp_in) /\ y = Len(u)
  BY <1>1
<1>3. cut = w - x /\ acked = cut - y /\ Queued(s) = x + y
  BY <1>2 DEF Queued
<1>4. y <= WINDOW /\ Numbered(u, acked)
  BY <1>2 DEF SenderOK
<1>5. acked - m \in 0 .. MOD - WINDOW /\ cut \in Int /\ acked \in Int /\ i \in 1 .. y
  <2>1. i \in 1 .. y
    BY <1>2
  <2>2. w - (x + y) - m \in 0 .. MOD - WINDOW
    BY <1>3
  <2>3. cut = w - x /\ acked = w - x - y
    BY <1>3
  <2> HIDE DEF cut, acked, u
  <2> QED BY <2>1, <2>2, <2>3
<1>6. u[i].pay = acked + i /\ u[i].seq = (acked + i - 1) % MOD
  BY <1>4 DEF Numbered
<1>7. PICK k \in m + 2 .. m + WINDOW : k <= cut /\ u[i].seq = (k - 1) % MOD
  OBVIOUS
<1> HIDE DEF u, cut, acked
<1>8. /\ i \in Int /\ k \in Int /\ m \in Int
      /\ 1 <= i /\ acked + i <= cut /\ m + 2 <= k
      /\ acked - m <= MOD - WINDOW /\ cut <= acked + WINDOW
  BY <1>3, <1>4, <1>5, <1>7, ModPositive
<1>9. k = acked + i
  BY <1>5, <1>6, <1>7, <1>8, SameSegment
<1> QED BY <1>6, <1>7, <1>9 DEF u

\* What a received frame marks are the segments its SACK blocks name, and what
\* it acknowledges is what its sender had received.
LEMMA ReceiveMarks ==
  ASSUME NEW s \in Stream(Nat), NEW w \in Nat, NEW r \in Nat, NEW held \in Map,
         NEW g \in Seq(Nat), NEW n \in Nat, NEW m \in Message,
         MayReceive(s, w, g, r, n, held, m),
         NEW t, t = OnRadioRx(s, m.frame)
  PROVE  /\ \A k \in Marks(t) : k \in Marks(s) \/ Names(m, k)
         /\ w - Queued(t) = w - Queued(s) \/ w - Queued(t) = m.received
<1>t. t \in Stream(Nat)
  BY ReceiveStream
<1> USE DEF MayReceive
<1> DEFINE f == m.frame
           a == m.received
           z == ApplyAck(s, a % MOD)
<1>1. a \in 0 .. r /\ f.ack = a % MOD /\ f.type \in {"CONNECT", "DATA", "ACK"}
  BY DEF FrameOK, Message
<1>2. /\ z \in Stream(Nat) /\ SenderOK(z, w, r, held) /\ SameReceiver(s, z)
      /\ z.tcp_in = s.tcp_in
      /\ ((w - Len(z.tcp_in)) - Len(z.unacked)) - a \in 0 .. MOD - WINDOW
  <2> HIDE DEF a
  <2> QED BY <1>1, AckSender DEF a
<1>3. /\ Marks(z) \subseteq Marks(s)
      /\ w - Queued(z) = w - Queued(s) \/ w - Queued(z) = a
  <2>1. w - Queued(s) - a < MOD - WINDOW
    <3>1. PICK x \in Nat, y \in Nat : x = Len(s.tcp_in) /\ y = Len(s.unacked)
      BY StreamQueues
    <3>2. ((w - Len(s.tcp_in)) - Len(s.unacked)) - a < MOD - WINDOW
      OBVIOUS
    <3>3. Queued(s) = x + y /\ a \in Nat
      BY <1>1, <3>1 DEF Queued
    <3> HIDE DEF a, MayReceive
    <3>4. w - x - y - a < MOD - WINDOW
      BY <3>1, <3>2
    <3> QED BY <3>3, <3>4
  <2>2. r <= w - Len(s.tcp_in)
    OBVIOUS
  <2> HIDE DEF a, MayReceive
  <2>3. SenderOK(s, w, r, held)
    BY DEF MayReceive
  <2> QED BY <1>1, <1>2, <2>1, <2>2, <2>3, AckMarks
<1>4. t = QueueData(CASE f.type = "ACK" -> ApplySack(z, f.sack)
                      [] f.type = "DATA" -> DeliverData(z, f.seq, f.pay)
                      [] f.type = "CONNECT" -> OnConnect(z)
                      [] f.type \in {"CLOSE", "ABORT"} -> OnClose(z))
  BY <1>1 DEF OnRadioRx, ParseRadio
<1>5. ReceiverOK(z, g, n) /\ Count(z, g) = Count(s, g)
  BY <1>2, ReceiverUntouched DEF SameReceiver, Count
<1> HIDE DEF z
<1>6. ASSUME NEW y \in Stream(Nat), t = QueueData(y), SenderOK(y, w, r, held),
             Queued(y) = Queued(z), \A k \in Marks(y) : k \in Marks(z) \/ Names(m, k)
      PROVE  /\ \A k \in Marks(t) : k \in Marks(s) \/ Names(m, k)
             /\ w - Queued(t) = w - Queued(s) \/ w - Queued(t) = a
  <2>1. Len(y.unacked) <= WINDOW
    BY <1>6 DEF SenderOK
  <2>2. SameMarks(y, t)
    BY <1>6, <1>t, <2>1, QueueMarks
  <2> QED BY <1>3, <1>6, <2>2 DEF SameMarks
<1>7. CASE f.type = "ACK"
  <2> DEFINE y == ApplySack(z, f.sack)
  <2>1. TrueSack(f.sack, a, w - Len(z.tcp_in), r, held)
    BY <1>2, <1>7 DEF FrameOK, TrueSack
  <2>2. NamedAreHeld(z.unacked, f.sack, r, held)
    <3>1. a \in 0 .. r
      BY <1>1
    <3>2. w \in Nat /\ r \in Nat /\ held \in Map
      OBVIOUS
    <3>3. /\ z \in Stream(Nat) /\ SenderOK(z, w, r, held)
          /\ ((w - Len(z.tcp_in)) - Len(z.unacked)) - a \in 0 .. MOD - WINDOW
      BY <1>2
    <3> HIDE DEF f, a, z
    <3> QED BY ONLY <2>1, <3>1, <3>2, <3>3, SackNames
  <2>3. y \in Stream(Nat) /\ SenderOK(y, w, r, held)
    <3>1. PICK sns : sns = f.sack
      OBVIOUS
    <3>2. NamedAreHeld(z.unacked, sns, r, held)
      BY <2>2, <3>1
    <3>3. y = ApplySack(z, sns)
      BY <3>1
    <3>4. /\ z \in Stream(Nat) /\ SenderOK(z, w, r, held)
          /\ w \in Nat /\ r \in Nat /\ held \in Map
      BY <1>2
    <3> HIDE DEF y
    <3> QED BY ONLY <3>2, <3>3, <3>4, SackSender DEF NamedAreHeld
  <2>4. t = QueueData(y)
    BY <1>4, <1>7
  <2>5. (w - Queued(z)) - a \in 0 .. MOD - WINDOW
    <3>1. PICK x \in Nat, v \in Nat : x = Len(z.tcp_in) /\ v = Len(z.unacked)
      BY <1>2, StreamQueues
    <3>2. w - x - v - a \in 0 .. MOD - WINDOW /\ Queued(z) = x + v
      BY <1>2, <3>1 DEF Queued
    <3>3. w - (x + v) = w - x - v
      OBVIOUS
    <3> QED BY <3>2, <3>3
  <2>6. ASSUME NEW k, \E i \in 1 .. Len(z.unacked) :
                        z.unacked[i].seq \in f.sack /\ z.unacked[i].pay = k
        PROVE  Names(m, k)
    <3>1. PICK i \in 1 .. Len(z.unacked) :
            z.unacked[i].seq \in f.sack /\ z.unacked[i].pay = k
      BY <2>6
    <3> DEFINE sns == f.sack
    <3>2. \A x \in sns : \E j \in a + 2 .. a + WINDOW :
            j <= w - Len(z.tcp_in) /\ x = (j - 1) % MOD
      BY <2>1 DEF TrueSack
    <3>3. z.unacked[i].seq \in sns /\ a \in Nat
      BY <1>1, <3>1
    <3> HIDE DEF sns, a
    <3>4. /\ z.unacked[i].pay \in a + 2 .. a + WINDOW
          /\ (z.unacked[i].pay - 1) % MOD \in sns
      BY <1>2, <2>5, <3>2, <3>3, NamesMeant
    <3> QED BY <1>7, <3>1, <3>4 DEF Names, sns, a
  <2>7. /\ Queued(y) = Queued(z)
        /\ \A k \in Marks(y) : k \in Marks(z) \/ Names(m, k)
    <3>1. PICK sns : sns = f.sack
      OBVIOUS
    <3>2. /\ Queued(y) = Queued(z)
          /\ \A k \in Marks(y) :
               k \in Marks(z) \/ \E i \in 1 .. Len(z.unacked) :
                                   z.unacked[i].seq \in sns /\ z.unacked[i].pay = k
      <4>1. y = ApplySack(z, sns) /\ z \in Stream(Nat) /\ y \in Stream(Nat)
        BY <1>2, <2>3, <3>1
      <4> HIDE DEF y
      <4> QED BY ONLY <4>1, SackMarks
    <3> HIDE DEF y
    <3> QED BY <2>6, <3>1, <3>2
  <2> HIDE DEF y
  <2> QED BY <1>6, <2>3, <2>4, <2>7
<1>8. ASSUME NEW y \in Stream(Nat), t = QueueData(y), SameSender(z, y)
      PROVE  /\ \A k \in Marks(t) : k \in Marks(s) \/ Names(m, k)
             /\ w - Queued(t) = w - Queued(s) \/ w - Queued(t) = a
  <2>1. SenderOK(y, w, r, held)
    BY <1>2, <1>8, SenderUntouched
  <2>2. SameMarks(z, y)
    BY <1>8, UntouchedMarks DEF SameSender
  <2> QED BY <1>6, <1>8, <2>1, <2>2 DEF SameMarks
<1>9. CASE f.type = "DATA"
  <2> DEFINE y == DeliverData(z, f.seq, f.pay)
  <2>1. f.pay \in 1 .. n /\ f.seq = (f.pay - 1) % MOD
    BY <1>9 DEF FrameOK
  <2>2. Count(z, g) - (f.pay - 1) <= MOD - WINDOW /\ n <= Count(z, g) + WINDOW
    BY <1>5, <1>9
  <2>3. y \in Stream(Nat) /\ SameSender(z, y)
    <3> HIDE DEF f
    <3> QED BY <1>2, <1>5, <2>1, <2>2, DataReceiver
  <2>4. t = QueueData(y)
    BY <1>4, <1>9
  <2> HIDE DEF y
  <2> QED BY <1>8, <2>3, <2>4
<1>10. CASE f.type = "CONNECT"
  <2> DEFINE y == OnConnect(z)
  <2>1. y \in Stream(Nat) /\ SameSender(z, y)
    BY <1>2, <1>5, ConnectReceiver
  <2>2. t = QueueData(y)
    BY <1>4, <1>10
  <2> HIDE DEF y
  <2> QED BY <1>8, <2>1, <2>2
<1> QED BY <1>1, <1>7, <1>9, <1>10

LEMMA AckedQueued ==
  ASSUME IInv, NEW e \in End
  PROVE  Acked(e) = written[e] - Queued(stream[e]) /\ Acked(e) \in Nat
<1>1. stream[e] \in Stream(Nat) /\ written[e] \in Nat
  BY EndFacts
<1>2. PICK x \in Nat, y \in Nat : x = Len(stream[e].tcp_in) /\ y = Len(stream[e].unacked)
  BY <1>1, StreamQueues
<1>3. Acked(e) = written[e] - x - y /\ Queued(stream[e]) = x + y
  BY <1>2 DEF Acked, Segmented, Queued
<1>4. SenderOK(stream[e], written[e], Received(Peer(e)), stream[Peer(e)].reorder)
  BY EndFacts DEF EndOK
<1>5. Acked(e) \in 0 .. Received(Peer(e))
  BY <1>4 DEF SenderOK, Acked, Segmented
<1>6. Acked(e) \in Nat
  BY <1>5
<1> QED BY <1>1, <1>3, <1>6

\* An end takes a frame, or does something of its own.
LEMMA OldestKept ==
  ASSUME OldestInv, NEW e \in End, air'[e] = air[e], IInv',
         \/ Acked(e)' = Acked(e)
         \/ \E m \in air[e] : Acked(e)' = m.received,
         \A k \in Marks(stream'[e]) :
           k \in Marks(stream[e]) \/ (k \in Nat /\ \E m \in air[e] : Names(m, k))
  PROVE  AckCarried(e)' /\ NamedSkipped(e)' /\ MarkedSkipped(e)'
<1>1. AckCarried(e) /\ NamedSkipped(e) /\ MarkedSkipped(e)
  BY DEF OldestInv
<1>2. AckCarried(e)'
  BY <1>1 DEF AckCarried
<1>3. NamedSkipped(e)'
  BY <1>1 DEF NamedSkipped, Names
<1>4. ASSUME NEW k \in Marks(stream'[e])
      PROVE  k >= 2 /\ \A n \in air'[e] : n.received + 1 # k
  <2>1. CASE k \in Marks(stream[e])
    BY <1>1, <2>1 DEF MarkedSkipped
  <2>2. CASE k \in Nat /\ \E m \in air[e] : Names(m, k)
    <3>1. PICK m \in air[e] : Names(m, k)
      BY <2>2
    <3>2. m.received \in Nat
      <4>1. air[e] \in SUBSET Message
        BY EndFacts DEF OldestInv
      <4> QED BY <4>1 DEF Message
    <3>3. k >= 2
      BY <3>1, <3>2, <2>2, ModPositive DEF Names
    <3>4. \A n \in air[e] : n.received + 1 # k
      BY <1>1, <2>2, <3>1 DEF NamedSkipped
    <3> QED BY <3>3, <3>4
  <2> QED BY <1>4, <2>1, <2>2
<1> QED BY <1>2, <1>3, <1>4 DEF MarkedSkipped

\* A segment that the peer has, delivered or not, is not the hole's.
LEMMA NotTheHole ==
  ASSUME IInv, NEW e \in End, NEW k \in Nat, NEW x \in SeqNum,
         k <= Received(Peer(e)) \/ stream[Peer(e)].reorder[x] = k
  PROVE  Received(Peer(e)) + 1 # k
<1> DEFINE p == Peer(e)
           r == Received(p)
           h == stream[p].reorder
<1>1. p \in End /\ Peer(p) = e
  BY Peers
<1>2. r \in Nat
  BY <1>1, EndFacts
<1>3. Ahead(h, r, Segmented(e))
  <2>1. ReceiverOK(stream[p], app[p], Segmented(e))
    BY <1>1, EndFacts DEF EndOK
  <2> QED BY <2>1 DEF ReceiverOK, Received
<1> HIDE DEF h, r
<1>4. CASE k <= r
  BY <1>2, <1>4 DEF r
<1>5. CASE h[x] = k
  <2>1. h[x] # NONE
    BY <1>5, SessionAssumption DEF SessionAssumption
  <2>2. k \in r + 2 .. r + WINDOW
    BY <1>3, <1>5, <2>1 DEF Ahead
  <2> QED BY <1>2, <2>2, ModPositive DEF r
<1> QED BY <1>4, <1>5 DEF h, r

\* Two segments within one window have different sequence numbers.
LEMMA SameName ==
  ASSUME NEW m \in Nat, NEW k \in m + 2 .. m + WINDOW, NEW j \in m + 2 .. m + WINDOW,
         (k - 1) % MOD = (j - 1) % MOD
  PROVE  k = j
<1>1. k - 1 \in Int /\ j - 1 \in Int /\ (k - 1) - (j - 1) < MOD /\ (j - 1) - (k - 1) < MOD
  BY ModPositive
<1>2. PICK x \in Int, y \in Int : x = k - 1 /\ y = j - 1
  BY <1>1
<1>3. x = y
  BY <1>1, <1>2, ModPositive, ModInjective
<1> QED BY <1>2, <1>3, ModPositive

\* The peer sends: its receive count is new on the air.
LEMMA OldestSent ==
  ASSUME OldestInv, NEW e \in End, NEW q \in Message,
         air'[e] = air[e] \cup {q}, stream'[e] = stream[e], written'[e] = written[e],
         q.received = Received(Peer(e)), Received(Peer(e)) \in Nat
  PROVE  AckCarried(e)' /\ NamedSkipped(e)' /\ MarkedSkipped(e)'
<1> DEFINE p == Peer(e)
           r == Received(p)
<1>1. AckCarried(e) /\ NamedSkipped(e) /\ MarkedSkipped(e) /\ IInv
  BY DEF OldestInv
<1>2. Acked(e)' = Acked(e)
  BY DEF Acked, Segmented
<1>3. AckCarried(e)'
  BY <1>1, <1>2 DEF AckCarried
<1>4. /\ air[e] \in SUBSET Message
      /\ \A m \in air[e] : FrameOK(m, r, Segmented(p), stream[p].reorder, Segmented(e))
      /\ r \in Nat
  BY <1>1, EndFacts DEF EndOK
<1>5. \A m \in air[e] : m.received \in Nat /\ m.received <= r
  BY <1>4 DEF FrameOK, Message
<1>6. ASSUME NEW m \in air'[e], NEW n \in air'[e], NEW k \in Nat, Names(m, k)
      PROVE  n.received + 1 # k
  <2>1. k \in m.received + 2 .. m.received + WINDOW
    BY <1>6 DEF Names
  <2>2. CASE m = q
    <3>1. n.received \in Nat /\ n.received <= r
      BY <1>4, <1>5
    <3> QED BY <1>4, <2>1, <2>2, <3>1
  <2>3. CASE m \in air[e] /\ n \in air[e]
    BY <1>1, <1>6, <2>3 DEF NamedSkipped
  <2>4. CASE m \in air[e] /\ n = q
    <3>1. m.frame.type = "ACK" /\ (k - 1) % MOD \in m.frame.sack
      BY <1>6 DEF Names
    <3> DEFINE x == (k - 1) % MOD
    <3>2. PICK j \in m.received + 2 .. m.received + WINDOW :
            x = (j - 1) % MOD /\ (j <= r \/ stream[p].reorder[x] = j)
      BY <1>4, <2>4, <3>1 DEF FrameOK
    <3>3. m.received \in Nat
      BY <1>5, <2>4
    <3>4. k = j
      <4>1. (k - 1) % MOD = (j - 1) % MOD
        BY <3>2
      <4> QED BY <2>1, <3>2, <3>3, <4>1, SameName
    <3>5. x \in SeqNum
      <4>1. k - 1 \in Int
        OBVIOUS
      <4> QED BY <4>1, SeqNumType
    <3> HIDE DEF x
    <3>6. k <= Received(Peer(e)) \/ stream[Peer(e)].reorder[x] = k
      BY <3>2, <3>4
    <3>7. Received(Peer(e)) + 1 # k
      BY <1>1, <3>5, <3>6, NotTheHole
    <3> QED BY <2>4, <3>7
  <2> QED BY <2>2, <2>3, <2>4
<1>7. NamedSkipped(e)'
  BY <1>6 DEF NamedSkipped, Names
<1>8. ASSUME NEW k \in Marks(stream[e])
      PROVE  k >= 2 /\ \A n \in air'[e] : n.received + 1 # k
  <2>1. k >= 2 /\ \A n \in air[e] : n.received + 1 # k
    BY <1>1, <1>8 DEF MarkedSkipped
  <2>2. stream[e] \in Stream(Nat)
    BY <1>1, EndFacts
  <2>3. PICK i \in 1 .. Len(stream[e].unacked) :
          stream[e].unacked[i].sacked /\ stream[e].unacked[i].pay = k
    BY <1>8, <2>2, MarksAt
  <2> DEFINE x == stream[e].unacked[i].seq
  <2>4. i \in DOMAIN stream[e].unacked /\ k \in Nat
    BY <2>2, <2>3, StreamQueues DEF Segment
  <2>5. x \in SeqNum /\ (k <= Received(Peer(e)) \/ stream[Peer(e)].reorder[x] = k)
    BY <1>1, <2>3, <2>4, Unacked
  <2> HIDE DEF x
  <2>6. Received(Peer(e)) + 1 # k
    BY <1>1, <2>4, <2>5, NotTheHole
  <2> QED BY <2>1, <2>6
<1>9. MarkedSkipped(e)'
  BY <1>8 DEF MarkedSkipped
<1> QED BY <1>3, <1>7, <1>9

LEMMA AckedNext ==
  ASSUME IInv', NEW e \in End
  PROVE  Acked(e)' = written'[e] - Queued(stream'[e]) /\ stream'[e] \in Stream(Nat)
<1>1. stream'[e] \in Stream(Nat) /\ written'[e] \in Nat
  BY DEF IInv, TypeOK
<1>2. PICK t \in Stream(Nat), w \in Nat : t = stream'[e] /\ w = written'[e]
  BY <1>1
<1>3. PICK x \in Nat, y \in Nat : x = Len(t.tcp_in) /\ y = Len(t.unacked)
  BY StreamQueues
<1>4. Acked(e)' = w - x - y /\ Queued(t) = x + y
  BY <1>2, <1>3 DEF Acked, Segmented, Queued
<1>5. w - x - y = w - (x + y)
  OBVIOUS
<1> QED BY <1>1, <1>2, <1>4, <1>5

\* A step of the end e that puts nothing on the air.
LEMMA OldestOwn ==
  ASSUME OldestInv, IInv', NEW e \in End, NEW t, stream' = [stream EXCEPT ![e] = t],
         air' = air, \A d \in End : d # e => written'[d] = written[d],
         \/ written'[e] - Queued(t) = written[e] - Queued(stream[e])
         \/ \E m \in air[e] : written'[e] - Queued(t) = m.received,
         \A k \in Marks(t) :
           k \in Marks(stream[e]) \/ (k \in Nat /\ \E m \in air[e] : Names(m, k))
  PROVE  OldestInv'
<1>1. IInv
  BY DEF OldestInv
<1>2. stream'[e] = t /\ \A d \in End : d # e => stream'[d] = stream[d]
  BY <1>1 DEF IInv, TypeOK
<1>3. ASSUME NEW d \in End
      PROVE  AckCarried(d)' /\ NamedSkipped(d)' /\ MarkedSkipped(d)'
  <2>1. Acked(d) = written[d] - Queued(stream[d])
        /\ Acked(d)' = written'[d] - Queued(stream'[d])
    BY <1>1, AckedQueued, AckedNext
  <2>2. \/ Acked(d)' = Acked(d)
        \/ \E m \in air[d] : Acked(d)' = m.received
    BY <1>2, <2>1
  <2>3. \A k \in Marks(stream'[d]) :
          k \in Marks(stream[d]) \/ (k \in Nat /\ \E m \in air[d] : Names(m, k))
    BY <1>2
  <2> QED BY <2>2, <2>3, OldestKept
<1> QED BY <1>3 DEF OldestInv

LEMMA OldestTransmit ==
  ASSUME OldestInv, IInv', NEW e \in End, Transmit(e)
  PROVE  OldestInv'
<1> DEFINE s == stream[e]
           p == Peer(e)
<1>1. /\ p \in End /\ Peer(p) = e /\ p # e /\ End = {e, p} /\ IInv
  BY Peers DEF OldestInv
<1>2. /\ s \in Stream(Nat) /\ Received(e) \in Nat /\ air \in [End -> SUBSET Message]
      /\ stream \in [End -> Stream(Nat)]
  BY <1>1, EndFacts DEF IInv, TypeOK
<1>3. PICK q \in PullTx(s) :
        /\ stream' = [stream EXCEPT ![e] = q.left]
        /\ air' = [air EXCEPT ![p] =
                     air[p] \cup {[frame |-> q.frame, received |-> Received(e)]}]
        /\ written' = written
  BY DEF Transmit
<1> DEFINE m == [frame |-> q.frame, received |-> Received(e)]
           t == q.left
<1>4. /\ stream'[e] = t /\ stream'[p] = stream[p]
      /\ air'[e] = air[e] /\ air'[p] = air[p] \cup {m} /\ written' = written
  BY <1>1, <1>2, <1>3
<1>5. t \in Stream(Nat) /\ m \in Message
  <2>1. stream'[e] \in Stream(Nat) /\ air'[p] \in SUBSET Message
    BY <1>1 DEF IInv, TypeOK
  <2> QED BY <1>4, <2>1
<1>6. SameMarks(s, t)
  <2>1. q \in PullCtrl(s) \/ q \in PullAck(s) \/ q \in PullData(s)
    BY DEF PullTx
  <2> HIDE DEF s
  <2>2. CASE q \in PullCtrl(s)
    <3>1. t.tcp_in = s.tcp_in /\ t.unacked = s.unacked
      BY <1>2, <2>2 DEF PullCtrl, Stream
    <3> QED BY <3>1, UntouchedMarks
  <2>3. CASE q \in PullAck(s)
    <3>1. t.tcp_in = s.tcp_in /\ t.unacked = s.unacked
      BY <1>2, <2>3 DEF PullAck, Stream
    <3> QED BY <3>1, UntouchedMarks
  <2>4. CASE q \in PullData(s)
    <3>1. PICK i \in Sendable(s) :
            q = [left |-> [s EXCEPT !.unacked[i].in_flight = TRUE],
                 frame |-> DataFrame(s.unacked[i].seq, s.rx_seq, s.unacked[i].pay)]
      BY <2>4 DEF PullData
    <3>2. i \in 1 .. Len(s.unacked)
      BY <1>2, StreamQueues DEF Sendable
    <3> HIDE DEF m
    <3>3. t = [s EXCEPT !.unacked[i].in_flight = TRUE] => SameMarks(s, t)
      <4> HIDE DEF t
      <4> QED BY <1>2, <1>5, <3>2, SendMarks
    <3> QED BY <3>1, <3>3
  <2> QED BY <2>1, <2>2, <2>3, <2>4
<1> HIDE DEF m, t
<1>7. AckCarried(e)' /\ NamedSkipped(e)' /\ MarkedSkipped(e)'
  <2>1. Acked(e)' = Acked(e)
    <3>1. Acked(e) = written[e] - Queued(stream[e])
          /\ Acked(e)' = written'[e] - Queued(stream'[e])
      BY <1>1, AckedQueued, AckedNext
    <3> QED BY <1>4, <1>6, <3>1 DEF SameMarks
  <2>2. \A k \in Marks(stream'[e]) : k \in Marks(stream[e])
    BY <1>4, <1>6 DEF SameMarks
  <2> QED BY <1>4, <2>1, <2>2, OldestKept
<1>8. AckCarried(p)' /\ NamedSkipped(p)' /\ MarkedSkipped(p)'
  <2>1. m.received = Received(Peer(p)) /\ Received(Peer(p)) \in Nat
    BY <1>1, <1>2 DEF m
  <2>2. written'[p] = written[p]
    BY <1>4
  <2> HIDE DEF p
  <2> QED BY <1>1, <1>4, <1>5, <2>1, <2>2, OldestSent
<1> QED BY <1>1, <1>7, <1>8 DEF OldestInv

LEMMA OldestReceive ==
  ASSUME OldestInv, IInv', NEW e \in End, Receive(e)
  PROVE  OldestInv'
<1> DEFINE s == stream[e]
           w == written[e]
           g == app[e]
           p == Peer(e)
           n == Segmented(p)
           r == Received(p)
           h == stream[p].reorder
<1>0. IInv
  BY DEF OldestInv
<1>1. p \in End /\ Peer(p) = e /\ p # e
  BY Peers
<1>2. /\ s \in Stream(Nat) /\ w \in Nat /\ g \in Seq(Nat)
      /\ r \in Nat /\ h \in Map
      /\ SenderOK(s, w, r, h)
      /\ ReceiverOK(s, g, n)
  BY <1>0, <1>1, EndFacts DEF EndOK
<1>3. Received(e) = Count(s, g) /\ Segmented(e) = w - Len(s.tcp_in)
  BY <1>0, EndFacts
<1>4. n \in Nat /\ n <= Count(s, g) + WINDOW /\ r <= w - Len(s.tcp_in)
  <2>1. Received(e) \in Nat /\ Received(e) <= n /\ n \in Int
    BY <1>0, <1>1, EndFacts, Window
  <2>2. n <= Received(e) + WINDOW /\ r <= Segmented(e)
    BY <1>0, <1>1, Window
  <2>3. n \in Nat
    <3> HIDE DEF n
    <3> QED BY <2>1
  <2> QED BY <1>3, <2>2, <2>3
<1>5. PICK m \in air[e] :
        /\ Alive(e, m)
        /\ stream' = [stream EXCEPT ![e] = OnRadioRx(s, m.frame)]
        /\ air' = air /\ written' = written
  BY DEF Receive
<1>6. m \in Message /\ FrameOK(m, r, n, h, w - Len(s.tcp_in))
  BY <1>0, <1>1, <1>3, EndFacts DEF EndOK
<1>7. /\ m.frame.type = "DATA" => Count(s, g) - (m.frame.pay - 1) <= MOD - WINDOW
      /\ ((w - Len(s.tcp_in)) - Len(s.unacked)) - m.received < MOD - WINDOW
  BY <1>3, <1>5 DEF Alive, Acked
<1> DEFINE t == OnRadioRx(s, m.frame)
<1>8. /\ \A k \in Marks(t) : k \in Marks(s) \/ Names(m, k)
      /\ w - Queued(t) = w - Queued(s) \/ w - Queued(t) = m.received
  <2>1. MayReceive(s, w, g, r, n, h, m)
    BY <1>2, <1>4, <1>6, <1>7 DEF MayReceive
  <2> HIDE DEF s, p, w, g, n, r, h
  <2> QED BY <1>2, <1>4, <1>6, <2>1, ReceiveMarks
<1>9. stream' = [stream EXCEPT ![e] = t]
  BY <1>5
<1> HIDE DEF t
<1>10. \A k \in Marks(t) : k \in Marks(s) \/ (k \in Nat /\ Names(m, k))
  <2>1. ASSUME NEW k, Names(m, k) PROVE k \in Nat
    <3>1. m.received \in Nat /\ k \in m.received + 2 .. m.received + WINDOW
      BY <1>6, <2>1 DEF Message, Names
    <3> QED BY <3>1, ModPositive
  <2> QED BY <1>8, <2>1
<1>11. \/ written'[e] - Queued(t) = written[e] - Queued(stream[e])
       \/ \E q \in air[e] : written'[e] - Queued(t) = q.received
  BY <1>5, <1>8
<1> QED BY <1>5, <1>9, <1>10, <1>11, OldestOwn

\* Steps of the sending side that neither mark nor acknowledge.
LEMMA OldestSame ==
  ASSUME OldestInv, IInv', NEW e \in End, NEW t, stream' = [stream EXCEPT ![e] = t],
         air' = air, written' = written, SameMarks(stream[e], t)
  PROVE  OldestInv'
<1>1. written'[e] - Queued(t) = written[e] - Queued(stream[e])
  BY DEF SameMarks
<1>2. \A k \in Marks(t) : k \in Marks(stream[e])
  BY DEF SameMarks
<1> QED BY <1>1, <1>2, OldestOwn

LEMMA SenderRoom ==
  ASSUME IInv, NEW e \in End
  PROVE  stream[e] \in Stream(Nat) /\ Len(stream[e].unacked) <= WINDOW
<1>1. SenderOK(stream[e], written[e], Received(Peer(e)), stream[Peer(e)].reorder)
  BY EndFacts DEF EndOK
<1> QED BY <1>1, EndFacts DEF SenderOK

LEMMA OldestUp == ASSUME OldestInv, IInv', NEW e \in End, Up(e) PROVE OldestInv'
<1> DEFINE s == stream[e]
           t == LocalUp(s)
<1>1. s \in Stream(Nat)
  BY SenderRoom DEF OldestInv
<1>2. stream' = [stream EXCEPT ![e] = t] /\ air' = air /\ written' = written
  BY DEF Up
<1>3. t.tcp_in = s.tcp_in /\ t.unacked = s.unacked
  BY <1>1 DEF LocalUp, Stream
<1>4. SameMarks(s, t)
  <2> HIDE DEF s, t
  <2> QED BY <1>3, UntouchedMarks
<1> HIDE DEF t
<1> QED BY <1>2, <1>4, OldestSame

LEMMA OldestPull == ASSUME OldestInv, IInv', NEW e \in End, PullTcp(e) PROVE OldestInv'
<1> DEFINE s == stream[e]
<1>1. s \in Stream(Nat)
  BY SenderRoom DEF OldestInv
<1>2. PICK o : /\ stream' = [stream EXCEPT ![e] = [s EXCEPT !.tcp_out = o]]
               /\ air' = air /\ written' = written
  BY <1>1 DEF PullTcp, Stream
<1> DEFINE t == [s EXCEPT !.tcp_out = o]
<1>3. t.tcp_in = s.tcp_in /\ t.unacked = s.unacked
  BY <1>1 DEF Stream
<1>4. SameMarks(s, t)
  <2> HIDE DEF s, t
  <2> QED BY <1>3, UntouchedMarks
<1>5. stream' = [stream EXCEPT ![e] = t]
  BY <1>2
<1> HIDE DEF t
<1> QED BY <1>2, <1>4, <1>5, OldestSame

LEMMA OldestTick == ASSUME OldestInv, IInv', NEW e \in End, Tick(e) PROVE OldestInv'
<1> DEFINE s == stream[e]
           w == written[e]
           r == Received(Peer(e))
           h == stream[Peer(e)].reorder
<1>1. /\ s \in Stream(Nat) /\ w \in Nat /\ r \in Nat /\ h \in Map
      /\ SenderOK(s, w, r, h)
  BY Peers, EndFacts DEF EndOK, OldestInv
<1>2. PICK due \in SUBSET DOMAIN s.unacked, reconnect \in BOOLEAN :
        /\ stream' = [stream EXCEPT ![e] = OnTick(s, due, reconnect)]
        /\ air' = air /\ written' = written
  BY DEF Tick
<1> DEFINE z == Expire(s, due)
           y == Reconnect(z, reconnect)
           t == QueueData(y)
<1>3. stream' = [stream EXCEPT ![e] = t]
  BY <1>2 DEF OnTick
<1>4. z \in Stream(Nat) /\ SenderOK(z, w, r, h)
  <2> HIDE DEF s, w, r, h
  <2> QED BY <1>1, ExpireSender
<1>5. SameMarks(s, z)
  <2> HIDE DEF s
  <2> QED BY <1>1, <1>4, ExpireMarks
<1> HIDE DEF z
<1>6. y \in Stream(Nat) /\ y.tcp_in = z.tcp_in /\ y.unacked = z.unacked
  <2>1. "CONNECT" \in CtrlType
    BY DEF CtrlType
  <2>2. PICK c \in Seq(CtrlType) : c = z.ctrlq
    BY <1>4 DEF Stream
  <2>q. Append(c, "CONNECT") \in Seq(CtrlType)
    BY <2>1
  <2>3. PICK q \in Seq(CtrlType) : q = Append(z.ctrlq, "CONNECT")
    BY <2>q, <2>2
  <2>4. CASE y = z
    BY <1>4, <2>4
  <2>5. CASE y = [z EXCEPT !.ctrlq = q]
    <3>1. y = Record(z.local, z.peer_connect, z.peer_close, z.ack_pending, z.tx_seq,
                     z.rx_seq, z.tx_acked, z.tcp_in, z.tcp_out, z.unacked, q, z.reorder)
      BY <1>4, <2>5 DEF Stream, Record
    <3> HIDE DEF y
    <3>2. y \in Stream(Nat)
      BY <1>4, <3>1 DEF Stream, Record
    <3>3. y.tcp_in = z.tcp_in /\ y.unacked = z.unacked
      BY <3>1 DEF Record
    <3> QED BY <3>2, <3>3
  <2> QED BY <2>3, <2>4, <2>5 DEF Reconnect
<1>7. SameMarks(z, y)
  <2> HIDE DEF y
  <2> QED BY <1>6, UntouchedMarks
<1> HIDE DEF y
<1>8. t \in Stream(Nat)
  BY <1>3, SenderRoom DEF OldestInv, IInv, TypeOK
<1>9. Len(y.unacked) <= WINDOW
  BY <1>4, <1>6 DEF SenderOK
<1>10. SameMarks(y, t)
  BY <1>6, <1>8, <1>9, QueueMarks
<1>11. SameMarks(s, t)
  BY <1>5, <1>7, <1>10 DEF SameMarks
<1> HIDE DEF t
<1> QED BY <1>2, <1>3, <1>11, OldestSame

LEMMA OldestWrite == ASSUME OldestInv, IInv', NEW e \in End, Write(e) PROVE OldestInv'
<1> DEFINE s == stream[e]
           w == written[e] + 1
           more == Append(s.tcp_in, w)
           z == [s EXCEPT !.tcp_in = more]
           t == Cut(z)
<1>1. s \in Stream(Nat) /\ Len(s.unacked) <= WINDOW /\ written[e] \in Nat
  BY SenderRoom, EndFacts DEF OldestInv
<1>2. /\ stream' = [stream EXCEPT ![e] = t]
      /\ written' = [written EXCEPT ![e] = w] /\ air' = air
  BY DEF Write, AcceptsTcp, OnTcpBytes
<1>3. more \in Seq(Nat) /\ Len(more) = Len(s.tcp_in) + 1
  <2>1. s.tcp_in \in Seq(Nat)
    BY <1>1, StreamQueues
  <2> QED BY <1>1, <2>1
<1>z. z = [s EXCEPT !.tcp_in = more]
  OBVIOUS
<1> HIDE DEF more, z, s
<1>4. z = Record(s.local, s.peer_connect, s.peer_close, s.ack_pending, s.tx_seq,
                 s.rx_seq, s.tx_acked, more, s.tcp_out, s.unacked, s.ctrlq, s.reorder)
  BY <1>1, <1>z DEF Stream, Record
<1>5. z \in Stream(Nat)
  BY <1>1, <1>3, <1>4 DEF Stream, Record
<1>6. z.tcp_in = more /\ z.unacked = s.unacked
  BY <1>4 DEF Record
<1>7. Queued(z) = Queued(s) + 1 /\ Marks(z) = Marks(s)
  <2>1. PICK x \in Nat, y \in Nat : x = Len(s.tcp_in) /\ y = Len(s.unacked)
    BY <1>1, StreamQueues
  <2>2. Queued(z) = x + 1 + y /\ Queued(s) = x + y
    BY <1>3, <1>6, <2>1 DEF Queued
  <2>3. Marks(z) = Marks(s)
    BY <1>6 DEF Marks
  <2> QED BY <2>2, <2>3
<1>8. t \in Stream(Nat)
  BY <1>2 DEF OldestInv, IInv, TypeOK, s
<1>9. SameMarks(z, t)
  BY <1>1, <1>5, <1>6, <1>8, CutMarks
<1> HIDE DEF t
<1>10. written' \in [End -> Nat] /\ written \in [End -> Nat]
  BY DEF OldestInv, IInv, TypeOK
<1>11. /\ written'[e] = written[e] + 1
       /\ \A d \in End : d # e => written'[d] = written[d]
  BY <1>2, <1>10
<1>12. written'[e] - Queued(t) = written[e] - Queued(stream[e])
  <2>1. Queued(s) \in Nat /\ Queued(t) = Queued(s) + 1
    BY <1>1, <1>7, <1>9, StreamQueues DEF SameMarks
  <2> QED BY <1>1, <1>11, <2>1 DEF s
<1>13. \A k \in Marks(t) : k \in Marks(stream[e])
  BY <1>7, <1>9 DEF SameMarks, s
<1> QED BY <1>2, <1>11, <1>12, <1>13, OldestOwn

LEMMA OldestNext == OldestInv /\ [Next]_vars => OldestInv'
<1> SUFFICES ASSUME OldestInv, [Next]_vars PROVE OldestInv'
  OBVIOUS
<1>1. IInv'
  BY NextIInv DEF OldestInv
<1>2. ASSUME NEW e \in End, Up(e) PROVE OldestInv'
  BY <1>1, <1>2, OldestUp
<1>3. ASSUME NEW e \in End, Write(e) PROVE OldestInv'
  BY <1>1, <1>3, OldestWrite
<1>4. ASSUME NEW e \in End, Transmit(e) PROVE OldestInv'
  BY <1>1, <1>4, OldestTransmit
<1>5. ASSUME NEW e \in End, Receive(e) PROVE OldestInv'
  BY <1>1, <1>5, OldestReceive
<1>6. ASSUME NEW e \in End, Tick(e) PROVE OldestInv'
  BY <1>1, <1>6, OldestTick
<1>7. ASSUME NEW e \in End, PullTcp(e) PROVE OldestInv'
  BY <1>1, <1>7, OldestPull
<1>8. CASE UNCHANGED vars
  BY <1>1, <1>8 DEF vars, OldestInv, AckCarried, NamedSkipped, MarkedSkipped, Names,
                    Acked, Segmented
<1> QED BY <1>2, <1>3, <1>4, <1>5, <1>6, <1>7, <1>8 DEF Next

LEMMA OldestInit == Init => OldestInv
<1> SUFFICES ASSUME Init PROVE OldestInv
  OBVIOUS
<1>1. IInv
  BY InitIInv
<1>2. ASSUME NEW e \in End
      PROVE  AckCarried(e) /\ NamedSkipped(e) /\ MarkedSkipped(e)
  <2>1. stream[e] = Fresh /\ air[e] = {} /\ written[e] = 0
    BY DEF Init
  <2>2. stream[e].tcp_in = <<>> /\ stream[e].unacked = <<>>
    BY <2>1 DEF Fresh
  <2>3. Len(stream[e].tcp_in) = 0 /\ Len(stream[e].unacked) = 0
    BY <2>2
  <2>4. Acked(e) = 0
    BY <2>1, <2>3 DEF Acked, Segmented
  <2>5. Marks(stream[e]) = {}
    BY <2>2 DEF Marks
  <2> QED BY <2>1, <2>4, <2>5 DEF AckCarried, NamedSkipped, MarkedSkipped
<1> QED BY <1>1, <1>2 DEF OldestInv

\* The oldest unacknowledged segment is always sent again until it is
\* acknowledged: SACK blocks never take it out of retransmission (apply_sack).
THEOREM OldestIsSent == Spec => []OldestIsRetransmitted
<1>1. ASSUME OldestInv PROVE OldestIsRetransmitted
  <2>1. ASSUME NEW e \in End, stream[e].unacked # <<>>, stream[e].unacked[1].sacked
        PROVE  FALSE
    <3>1. stream[e] \in Stream(Nat) /\ IInv /\ AckCarried(e) /\ MarkedSkipped(e)
      BY <1>1, EndFacts DEF OldestInv
    <3>2. 1 \in 1 .. Len(stream[e].unacked)
      <4>1. PICK u \in Seq(Segment(Nat)) : u = stream[e].unacked
        BY <3>1, StreamQueues
      <4>2. 1 \in 1 .. Len(u)
        BY <2>1, <4>1
      <4> QED BY <4>1, <4>2
    <3>3. stream[e].unacked[1].pay = Acked(e) + 1
      <4>1. 1 \in DOMAIN stream[e].unacked
        BY <3>1, <3>2, StreamQueues
      <4> QED BY <3>1, <4>1, Unacked
    <3>4. Acked(e) + 1 \in Marks(stream[e])
      BY <2>1, <3>1, <3>2, <3>3, MarksAt
    <3>5. Acked(e) + 1 >= 2 /\ \A n \in air[e] : n.received + 1 # Acked(e) + 1
      BY <3>1, <3>4 DEF MarkedSkipped
    <3>6. Acked(e) \in Nat
      BY <3>1, AckedQueued
    <3> QED BY <3>1, <3>5, <3>6 DEF AckCarried
  <2> QED BY <2>1 DEF OldestIsRetransmitted
<1> QED BY <1>1, OldestInit, OldestNext, PTL DEF Spec

-----------------------------------------------------------------------------
(* The refinement of ReliablePipe.                                         *)

\* What an end received is 1 .. Received, and no more than its peer wrote.
Prefixes ==
  \A e \in End :
    /\ Received(e) \in Nat /\ written[e] \in Nat
    /\ Got(e) = [i \in 1 .. Received(e) |-> i] /\ Len(Got(e)) = Received(e)
    /\ Received(e) <= written[Peer(e)]

LEMMA GotPrefix == IInv => Prefixes
<1> SUFFICES ASSUME IInv, NEW e \in End
             PROVE  /\ Received(e) \in Nat /\ written[e] \in Nat
                    /\ Got(e) = [i \in 1 .. Received(e) |-> i]
                    /\ Len(Got(e)) = Received(e)
                    /\ Received(e) <= written[Peer(e)]
  BY DEF Prefixes
<1> DEFINE a == app[e]
           o == stream[e].tcp_out
           g == Got(e)
           r == Received(e)
<1>1. InOrder
  BY InvInOrder
<1>2. r <= Segmented(Peer(e)) /\ \A i \in 1 .. r : g[i] = i
  BY <1>1 DEF InOrder
<1>3. a \in Seq(Nat) /\ o \in Seq(Nat)
  <2>1. stream[e] \in Stream(Nat)
    BY EndFacts
  <2> QED BY <2>1, EndFacts DEF Stream
<1>4. g = a \o o /\ r = Len(a) + Len(o)
  BY DEF Got, Received
<1>5. r \in Nat /\ written[e] \in Nat
  BY EndFacts
<1> HIDE DEF a, o, g, r
<1>6. g \in Seq(Nat) /\ Len(g) = r
  BY <1>3, <1>4
<1>7. g = [i \in 1 .. r |-> g[i]]
  BY <1>6
<1>8. g = [i \in 1 .. r |-> i]
  BY <1>2, <1>7
<1>9. r <= written[Peer(e)]
  <2>1. Peer(e) \in End
    BY Peers
  <2>2. stream[Peer(e)] \in Stream(Nat) /\ written[Peer(e)] \in Nat
        /\ Segmented(Peer(e)) = written[Peer(e)] - Len(stream[Peer(e)].tcp_in)
    BY <2>1, EndFacts
  <2>3. stream[Peer(e)].tcp_in \in Seq(Nat)
    BY <2>2 DEF Stream
  <2>4. Len(stream[Peer(e)].tcp_in) \in Nat
    BY <2>3
  <2> QED BY <1>2, <1>5, <2>2, <2>4
<1> QED BY <1>5, <1>6, <1>8, <1>9 DEF g, r

LEMMA GotPrefixNext == IInv' => Prefixes'
BY GotPrefix, PTL

\* An end whose count has not moved has received nothing new.
LEMMA GotStays ==
  ASSUME IInv, IInv', NEW e \in End, Received(e)' = Received(e)
  PROVE  Got(e)' = Got(e)
<1>1. Got(e) = [i \in 1 .. Received(e) |-> i]
  BY GotPrefix DEF Prefixes
<1>2. Got(e)' = [i \in 1 .. Received(e)' |-> i]
  BY GotPrefixNext DEF Prefixes
<1> QED BY <1>1, <1>2

\* A step of the two streams is a step of the pipe, or none.
LEMMA PipeStep == IInv /\ [Next]_vars => [Pipe!Next]_(Pipe!vars)
<1> SUFFICES ASSUME IInv, [Next]_vars PROVE [Pipe!Next]_(Pipe!vars)
  OBVIOUS
<1> DEFINE got == [e \in End |-> Got(e)]
<1>0. IInv'
  BY NextIInv
<1>1. ASSUME \A d \in End : Received(d)' = Received(d)
      PROVE  got' = got
  <2>1. \A d \in End : Got(d)' = Got(d)
    BY <1>0, <1>1, GotStays
  <2> QED BY <2>1
<1>2. ASSUME NEW e \in End, Write(e) PROVE Pipe!Next
  <2>1. got' = got
    BY <1>1, <1>2, WriteIInv
  <2>2. written' = [written EXCEPT ![e] = @ + 1]
    BY <1>2 DEF Write
  <2>3. Pipe!Write(e)
    BY <2>1, <2>2 DEF Pipe!Write
  <2> QED BY <2>3 DEF Pipe!Next
<1>3. ASSUME NEW e \in End, Transmit(e) PROVE UNCHANGED Pipe!vars
  <2>1. got' = got
    BY <1>1, <1>3, TransmitIInv
  <2>2. written' = written
    BY <1>3 DEF Transmit
  <2> QED BY <2>1, <2>2 DEF Pipe!vars
<1>4. ASSUME NEW e \in End, Tick(e) PROVE UNCHANGED Pipe!vars
  <2>1. got' = got
    BY <1>1, <1>4, TickIInv
  <2>2. written' = written
    BY <1>4 DEF Tick
  <2> QED BY <2>1, <2>2 DEF Pipe!vars
<1>8. ASSUME NEW e \in End, Up(e) PROVE UNCHANGED Pipe!vars
  <2>1. got' = got
    BY <1>1, <1>8, UpIInv
  <2>2. written' = written
    BY <1>8 DEF Up
  <2> QED BY <2>1, <2>2 DEF Pipe!vars
<1>5. ASSUME NEW e \in End, PullTcp(e) PROVE UNCHANGED Pipe!vars
  <2>1. got' = got
    BY <1>1, <1>5, PullTcpIInv
  <2>2. written' = written
    BY <1>5 DEF PullTcp
  <2> QED BY <2>1, <2>2 DEF Pipe!vars
<1>6. ASSUME NEW e \in End, Receive(e) PROVE Pipe!Next \/ UNCHANGED Pipe!vars
  <2> DEFINE p == Peer(e)
             k == Received(e)'
  <2>1. p \in End /\ p # e /\ End = {e, p}
    BY Peers
  <2>2. Received(e) <= k /\ Received(p)' = Received(p)
    BY <1>6, ReceiveIInv
  <2>3. written' = written
    BY <1>6 DEF Receive
  <2>4. CASE k = Received(e)
    <3>1. \A d \in End : Received(d)' = Received(d)
      BY <2>1, <2>2, <2>4
    <3> QED BY <1>1, <2>3, <3>1 DEF Pipe!vars
  <2>5. CASE k # Received(e)
    <3>1. /\ Received(e) \in Nat /\ Len(Got(e)) = Received(e)
          /\ k \in Nat /\ k <= written[p] /\ written[p] \in Nat
          /\ Got(e)' = [i \in 1 .. k |-> i]
      BY <1>0, <2>1, <2>3, GotPrefix, GotPrefixNext DEF Prefixes
    <3>2. k \in Len(Got(e)) + 1 .. written[p]
      BY <2>2, <2>5, <3>1
    <3>3. Got(p)' = Got(p)
      BY <1>0, <2>1, <2>2, GotStays
    <3>4. got' = [got EXCEPT ![e] = [i \in 1 .. k |-> i]]
      <4>1. got' = [d \in End |-> Got(d)']
        OBVIOUS
      <4>2. \A d \in End : Got(d)' = IF d = e THEN [i \in 1 .. k |-> i] ELSE Got(d)
        BY <2>1, <3>1, <3>3
      <4> HIDE DEF k
      <4> QED BY <4>1, <4>2
    <3>5. got[e] = Got(e) /\ p \in End \ {e}
      BY <2>1
    <3> HIDE DEF k
    <3>6. \E q \in End \ {e} : \E j \in Len(got[e]) + 1 .. written[q] :
            got' = [got EXCEPT ![e] = [i \in 1 .. j |-> i]]
      BY <3>2, <3>4, <3>5
    <3>7. Pipe!Deliver(e)
      BY <2>3, <3>6 DEF Pipe!Deliver
    <3> QED BY <3>7 DEF Pipe!Next
  <2> QED BY <2>4, <2>5
<1>7. CASE UNCHANGED vars
  BY <1>7 DEF vars, Pipe!vars, Got
<1> QED BY <1>2, <1>3, <1>4, <1>5, <1>6, <1>7, <1>8 DEF Next

\* Both streams start as empty pipes.
LEMMA PipeInit == Init => Pipe!Init
<1> SUFFICES ASSUME Init PROVE Pipe!Init
  OBVIOUS
<1>1. \A e \in End : Got(e) = <<>>
  <2>1. ASSUME NEW e \in End PROVE Got(e) = <<>>
    <3>1. app[e] = <<>> /\ stream[e] = Fresh
      BY DEF Init
    <3>2. stream[e].tcp_out = <<>>
      BY <3>1 DEF Fresh
    <3> QED BY <3>1, <3>2 DEF Got
  <2> QED BY <2>1
<1>2. written = [e \in End |-> 0]
  BY DEF Init
<1> QED BY <1>1, <1>2 DEF Pipe!Init

\* Two tcp_streams joined by a radio that loses, repeats and reorders frames are
\* a reliable byte pipe in each direction.
THEOREM Refinement == Spec => PipeSpec
BY PipeInit, PipeStep, Invariance, PTL DEF Spec, PipeSpec, Pipe!Spec
=============================================================================

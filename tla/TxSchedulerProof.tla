-------------------------- MODULE TxSchedulerProof --------------------------
(***************************************************************************)
(* Proofs about TxScheduler, for any number of streams and any values of   *)
(* the sizes and limits: a pass keeps within the budgets, the tokens, the  *)
(* data limit and the burst size; it ends with no ACK left; and a PDU      *)
(* leaves the queue of its endpoint only into an MPDU that was sent.       *)
(*                                                                         *)
(* Packing and totals are recursive functions over the streams.  What they *)
(* compute is proved by induction in the form of UpTo: about a set of      *)
(* numbers, not about a predicate.                                         *)
(***************************************************************************)
EXTENDS TxScheduler, WellFoundedInduction, TLAPS

-----------------------------------------------------------------------------
(***************************************************************************)
(* Induction up to a bound, and totals.                                    *)
(***************************************************************************)

(* A set that has 0 and with each n < N also n + 1 has all of 0..N. *)
LEMMA UpTo ==
  ASSUME NEW N \in Nat, NEW S \in SUBSET Nat, 0 \in S,
         \A n \in 0..N - 1 : n \in S => n + 1 \in S
  PROVE  0..N \subseteq S
<1> DEFINE Lt == {p \in Nat \X Nat : p[1] < p[2]}
           T == {n \in 0..N : n \notin S}
<1>1. IsWellFoundedOn(Lt, Nat)
  BY NatLessThanWellFounded DEF OpToRel
<1>2. SUFFICES ASSUME T # {} PROVE FALSE
  OBVIOUS
<1>3. PICK x \in T : \A y \in T : ~(<<y, x>> \in Lt)
  BY <1>1, <1>2, WFMin
<1>4. x \in Nat /\ x # 0 /\ x - 1 \in 0..N - 1
  OBVIOUS
<1>5. x - 1 \in S
  <2>1. <<x - 1, x>> \in Nat \X Nat /\ <<x - 1, x>>[1] < <<x - 1, x>>[2]
    BY <1>4
  <2>. QED BY <2>1, <1>3, <1>4
<1>. QED BY <1>4, <1>5

LEMMA Streams == STREAMS \in Nat /\ STREAMS > 0 /\ Stream = 0..STREAMS - 1
BY TxSchedulerAssumption DEF Stream

(* The recursive function in Total exists. *)
LEMMA TotalDefined ==
  ASSUME NEW f
  PROVE  \E sum : /\ sum = [n \in 0..STREAMS |-> IF n = 0 THEN 0 ELSE sum[n - 1] + f[n - 1]]
                  /\ Total(f) = sum[STREAMS]
<1> DEFINE Sums(n, g) == g = [i \in 0..n |-> IF i = 0 THEN 0 ELSE g[i - 1] + f[i - 1]]
           S == {n \in 0..STREAMS : \E g : Sums(n, g)}
<1>1. 0 \in S
  <2> DEFINE z == [i \in 0..0 |-> 0]
  <2>1. z = [i \in 0..0 |-> IF i = 0 THEN 0 ELSE z[i - 1] + f[i - 1]]
    OBVIOUS
  <2>2. \E k : Sums(0, k)
    BY <2>1, Zenon
  <2>. QED BY <2>2, Streams
<1>2. ASSUME NEW n \in 0..STREAMS - 1, n \in S PROVE n + 1 \in S
  <2>1. PICK g : Sums(n, g)
    BY <1>2
  <2> DEFINE h == [i \in 0..n + 1 |-> IF i <= n THEN g[i] ELSE g[n] + f[n]]
  <2>2. ASSUME NEW i \in 0..n + 1 PROVE h[i] = IF i = 0 THEN 0 ELSE h[i - 1] + f[i - 1]
    BY <2>1, Streams
  <2>3. h = [i \in 0..n + 1 |-> IF i = 0 THEN 0 ELSE h[i - 1] + f[i - 1]]
    BY <2>2
  <2>4. \E k : Sums(n + 1, k)
    BY <2>3, Zenon
  <2>. QED BY <2>4, Streams
<1>3. STREAMS \in S
  <2>1. S \in SUBSET Nat /\ \A n \in 0..STREAMS - 1 : n \in S => n + 1 \in S
    BY <1>2, Streams
  <2> HIDE DEF S
  <2>. QED BY <1>1, <2>1, UpTo, Streams
<1>4. \E g : Sums(STREAMS, g)
  BY <1>3
<1> DEFINE sum == CHOOSE g : Sums(STREAMS, g)
<1>5. Sums(STREAMS, sum)
  BY <1>4
<1>6. Total(f) = sum[STREAMS]
  BY DEF Total
<1>. QED BY <1>5, <1>6

(* The partial sums of numbers. *)
LEMMA TotalSteps ==
  ASSUME NEW f \in [Stream -> Nat]
  PROVE  \E sum \in [0..STREAMS -> Nat] :
           /\ sum[0] = 0 /\ Total(f) = sum[STREAMS]
           /\ \A n \in 0..STREAMS - 1 : sum[n + 1] = sum[n] + f[n]
<1>1. PICK sum : /\ sum = [n \in 0..STREAMS |-> IF n = 0 THEN 0 ELSE sum[n - 1] + f[n - 1]]
                 /\ Total(f) = sum[STREAMS]
  BY TotalDefined
<1>2. sum[0] = 0 /\ \A n \in 0..STREAMS - 1 : sum[n + 1] = sum[n] + f[n]
  BY <1>1, Streams
<1> DEFINE S == {n \in 0..STREAMS : sum[n] \in Nat}
<1>3. S \in SUBSET Nat /\ 0 \in S /\ \A n \in 0..STREAMS - 1 : n \in S => n + 1 \in S
  BY <1>2, Streams
<1>4. 0..STREAMS \subseteq S
  <2> HIDE DEF S
  <2>. QED BY <1>3, UpTo, Streams
<1>5. sum \in [0..STREAMS -> Nat]
  BY <1>1, <1>4
<1>. QED BY <1>1, <1>2, <1>5

LEMMA TotalType == ASSUME NEW f \in [Stream -> Nat] PROVE Total(f) \in Nat
BY TotalSteps, Streams

(* The total of sums is the sum of the totals. *)
LEMMA TotalOfSums ==
  ASSUME NEW f \in [Stream -> Nat], NEW g \in [Stream -> Nat]
  PROVE  Total([i \in Stream |-> f[i] + g[i]]) = Total(f) + Total(g)
<1> DEFINE h == [i \in Stream |-> f[i] + g[i]]
<1>1. h \in [Stream -> Nat] /\ \A n \in Stream : h[n] = f[n] + g[n]
  OBVIOUS
<1> HIDE DEF h
<1>2. PICK a \in [0..STREAMS -> Nat] :
           /\ a[0] = 0 /\ Total(f) = a[STREAMS]
           /\ \A n \in 0..STREAMS - 1 : a[n + 1] = a[n] + f[n]
  BY TotalSteps
<1>3. PICK b \in [0..STREAMS -> Nat] :
           /\ b[0] = 0 /\ Total(g) = b[STREAMS]
           /\ \A n \in 0..STREAMS - 1 : b[n + 1] = b[n] + g[n]
  BY TotalSteps
<1>4. PICK c \in [0..STREAMS -> Nat] :
           /\ c[0] = 0 /\ Total(h) = c[STREAMS]
           /\ \A n \in 0..STREAMS - 1 : c[n + 1] = c[n] + h[n]
  BY <1>1, TotalSteps
<1> DEFINE S == {n \in 0..STREAMS : c[n] = a[n] + b[n]}
<1>5. S \in SUBSET Nat /\ 0 \in S
  BY <1>2, <1>3, <1>4, Streams
<1>6. ASSUME NEW n \in 0..STREAMS - 1, n \in S PROVE n + 1 \in S
  <2>1. n \in Stream /\ n + 1 \in 0..STREAMS
    BY Streams
  <2>2. c[n] = a[n] + b[n] /\ h[n] = f[n] + g[n]
    BY <1>1, <1>6, <2>1
  <2>3. /\ a[n + 1] = a[n] + f[n] /\ b[n + 1] = b[n] + g[n]
        /\ c[n + 1] = c[n] + h[n]
    BY <1>2, <1>3, <1>4
  <2>4. {a[n], b[n], f[n], g[n]} \subseteq Nat
    BY <2>1, Streams
  <2>5. c[n + 1] = a[n + 1] + b[n + 1]
    BY <2>2, <2>3, <2>4
  <2>. QED BY <2>1, <2>5
<1>7. STREAMS \in S
  <2>1. S \in SUBSET Nat /\ 0 \in S /\ \A n \in 0..STREAMS - 1 : n \in S => n + 1 \in S
    BY <1>5, <1>6
  <2>2. 0..STREAMS \subseteq S
    <3> HIDE DEF S
    <3>. QED BY <2>1, UpTo, Streams
  <2>. QED BY <2>2, Streams
<1>. QED BY <1>2, <1>3, <1>4, <1>7 DEF h

(* The total when only one stream has something. *)
LEMMA TotalOfOne ==
  ASSUME NEW k \in Stream, NEW d \in Nat
  PROVE  Total([i \in Stream |-> IF i = k THEN d ELSE 0]) = d
<1> DEFINE f == [i \in Stream |-> IF i = k THEN d ELSE 0]
<1>1. f \in [Stream -> Nat] /\ \A n \in Stream : f[n] = IF n = k THEN d ELSE 0
  OBVIOUS
<1> HIDE DEF f
<1>2. PICK a \in [0..STREAMS -> Nat] :
           /\ a[0] = 0 /\ Total(f) = a[STREAMS]
           /\ \A n \in 0..STREAMS - 1 : a[n + 1] = a[n] + f[n]
  BY <1>1, TotalSteps
<1> DEFINE S == {n \in 0..STREAMS : a[n] = IF n <= k THEN 0 ELSE d}
<1>3. S \in SUBSET Nat /\ 0 \in S
  BY <1>2, Streams
<1>4. ASSUME NEW n \in 0..STREAMS - 1, n \in S PROVE n + 1 \in S
  <2>1. n \in Stream /\ n + 1 \in 0..STREAMS
    BY Streams
  <2>2. a[n + 1] = a[n] + f[n] /\ f[n] = (IF n = k THEN d ELSE 0)
        /\ a[n] = (IF n <= k THEN 0 ELSE d)
    BY <2>1, <1>1, <1>2, <1>4
  <2>3. a[n + 1] = IF n + 1 <= k THEN 0 ELSE d
    BY <2>1, <2>2, Streams
  <2>. QED BY <2>1, <2>3
<1>5. STREAMS \in S
  <2>1. S \in SUBSET Nat /\ 0 \in S /\ \A n \in 0..STREAMS - 1 : n \in S => n + 1 \in S
    BY <1>3, <1>4
  <2>2. 0..STREAMS \subseteq S
    <3> HIDE DEF S
    <3>. QED BY <2>1, UpTo, Streams
  <2>. QED BY <2>2, Streams
<1>. QED BY <1>2, <1>5, Streams DEF f

(* One stream has d more. *)
LEMMA TotalOfMore ==
  ASSUME NEW f \in [Stream -> Nat], NEW g \in [Stream -> Nat],
         NEW k \in Stream, NEW d \in Nat,
         \A i \in Stream : g[i] = IF i = k THEN f[i] + d ELSE f[i]
  PROVE  Total(g) = Total(f) + d
<1> DEFINE e == [i \in Stream |-> IF i = k THEN d ELSE 0]
<1>1. e \in [Stream -> Nat] /\ g = [i \in Stream |-> f[i] + e[i]]
  OBVIOUS
<1>2. Total(e) = d
  BY TotalOfOne
<1> HIDE DEF e
<1>. QED BY <1>1, <1>2, TotalOfSums

LEMMA TotalOfNone ==
  ASSUME NEW f \in [Stream -> Nat], \A i \in Stream : f[i] = 0
  PROVE  Total(f) = 0
<1>1. 0 \in Stream /\ f = [i \in Stream |-> IF i = 0 THEN 0 ELSE 0]
  BY Streams
<1>. QED BY <1>1, TotalOfOne

-----------------------------------------------------------------------------
(***************************************************************************)
(* The MPDU being packed.                                                  *)
(***************************************************************************)

Entry   == [stream : Stream, ack : BOOLEAN]
Waiting == [data : Nat, acks : Nat]
Mpdus   == [streams : [Stream -> Waiting], tokens : Nat, remain : [Stream -> Nat],
            body : Nat, pdus : Seq(Entry)]

Framed == DATA_SIZE + SEQ_LEN

Data(m)       == [i \in Stream |-> DataOf(m, i)]
Bytes(counts) == [i \in Stream |-> counts[i] * Framed]

(* What a stream whose budget is b has sent, t PDUs, when r is left of it. *)
Budgeted(b, r, t) ==
    /\ r <= b
    /\ r = b => t = 0
    /\ \/ r + t * Framed <= b
       \/ r = 0 /\ (t <= 1 \/ t * Framed <= b + SEQ_LEN)

(* What all streams have sent, when tok is left of the tokens of the start. *)
Covered(start, tok, bytes) ==
    \/ tok + bytes <= start
    \/ tok = 0 /\ bytes <= start + SEQ_LEN

MpduOK(m, acksOnly) ==
    /\ m \in Mpdus
    /\ \A i \in Stream : /\ m.streams[i].acks <= streams[i].acks
                         /\ i \in UDP => m.streams[i] = streams[i]
    /\ \A p \in ToSet(m.pdus) :
          /\ p.ack => p.stream \notin UDP
          /\ ~p.ack /\ p.stream \in UDP => streams[p.stream].data > 0
          /\ acksOnly => p.ack
    /\ Len(m.pdus) <= SLOTS_MAX
    /\ Total(Data(m)) <= Len(m.pdus)
    /\ \A i \in Stream :
          Budgeted(limits.budget[i], m.remain[i], pass.taken[i] + DataOf(m, i))
    /\ Covered(pass.start, m.tokens, Total(Bytes(pass.taken)) + Total(Bytes(Data(m))))

-----------------------------------------------------------------------------
(***************************************************************************)
(* The inductive invariant.                                                *)
(***************************************************************************)

Passes == [at : {"acks", "data"}, n : Nat, progress : BOOLEAN, data_sent : Nat,
           remain : [Stream -> Nat], passes : {1, 2}, refused : BOOLEAN,
           start : Nat, taken : [Stream -> Nat]]

TypeInv ==
    /\ streams \in [Stream -> Waiting]
    /\ tokens \in Nat
    /\ burst \in [sent : Nat, cooling : BOOLEAN]
    /\ next \in Stream
    /\ pass \in Passes \cup {NoPass}
    /\ limits \in Limits

(* A UDP endpoint has no ACKs. *)
UdpInv == \A i \in UDP : streams[i].acks = 0

LimitInv ==
    /\ burst.sent < limits.burst
    /\ ~Idle =>
         /\ \A i \in Stream : Budgeted(limits.budget[i], pass.remain[i], pass.taken[i])
         /\ Covered(pass.start, tokens, Total(Bytes(pass.taken)))
         /\ pass.data_sent <= limits.data
         /\ Total(pass.taken) <= pass.data_sent * SLOTS_MAX

(* A round of ACKs in which nothing was sent is the first, or is over.  Data *)
(* has its turn when no ACK is left.                                       *)
AckInv ==
    pass.at # "idle" /\ ~pass.refused =>
      /\ pass.at = "acks" /\ ~pass.progress => pass.n = 0
      /\ pass.at = "data" => \A i \in Stream : ~HasAck(streams[i])

IInv == TypeInv /\ UdpInv /\ LimitInv /\ AckInv

-----------------------------------------------------------------------------
(***************************************************************************)
(* Packing.                                                                *)
(***************************************************************************)

LEMMA Sizes ==
  /\ {SEQ_LEN, PAYLOAD_MAX, STREAM_PAYLOAD_MAX, ACK_SIZE, DATA_SIZE, Framed} \subseteq Nat
  /\ STREAM_PAYLOAD_MAX = PAYLOAD_MAX - SEQ_LEN /\ Framed = DATA_SIZE + SEQ_LEN
  /\ ACK_SIZE > 0 /\ DATA_SIZE > 0
  /\ ACK_SIZE <= STREAM_PAYLOAD_MAX /\ DATA_SIZE <= STREAM_PAYLOAD_MAX
BY TxSchedulerAssumption DEF STREAM_PAYLOAD_MAX, Framed

LEMMA BudgetSize == SLOTS_MAX \in Nat /\ \A b \in BUDGETS : b \in Nat /\ b > 0
<1>1. BUDGETS \subseteq Nat \ {0} /\ SLOTS_MAX \in Nat
  BY TxSchedulerAssumption
<1>. QED BY <1>1

LEMMA OneMore ==
  ASSUME NEW t \in Nat
  PROVE  t * Framed \in Nat /\ (t + 1) * Framed = t * Framed + Framed
<1>1. Framed \in Nat
  BY Sizes
<1>. QED BY <1>1

(* A PDU more, the first of the pass or one for which the budget lasts. *)
LEMMA TakeOne ==
  ASSUME NEW b \in Nat, b > 0, NEW r \in Nat, NEW t \in Nat, Budgeted(b, r, t),
         r = b \/ DATA_SIZE <= r
  PROVE  Budgeted(b, Less(r, Framed), t + 1)
<1>1. PICK x \in Nat : x = t * Framed /\ (t + 1) * Framed = x + Framed
  BY OneMore
<1>2. t = 0 => x = 0
  BY <1>1, Sizes
<1>3. /\ {DATA_SIZE, SEQ_LEN, Framed} \subseteq Nat /\ DATA_SIZE > 0
      /\ Framed = DATA_SIZE + SEQ_LEN
  BY Sizes
<1>4. /\ r <= b /\ (r = b => t = 0)
      /\ r + x <= b \/ (r = 0 /\ (t <= 1 \/ x <= b + SEQ_LEN))
  BY <1>1 DEF Budgeted
<1>5. /\ Less(r, Framed) <= b /\ Less(r, Framed) # b
      /\ \/ Less(r, Framed) + (x + Framed) <= b
         \/ Less(r, Framed) = 0 /\ (t + 1 <= 1 \/ x + Framed <= b + SEQ_LEN)
  BY <1>2, <1>3, <1>4 DEF Less
<1>. QED BY <1>1, <1>5 DEF Budgeted

(* A PDU that does not count: of a refused MPDU. *)
LEMMA TakeNone ==
  ASSUME NEW b \in Nat, NEW r \in Nat, NEW t \in Nat, NEW d \in {0, 1},
         Budgeted(b, r, t + d)
  PROVE  Budgeted(b, r, t)
<1>1. PICK x \in Nat : x = t * Framed /\ (t + 1) * Framed = x + Framed
  BY OneMore
<1>2. {SEQ_LEN, Framed} \subseteq Nat
  BY Sizes
<1>3. CASE d = 1
  <2>1. /\ r <= b /\ (r = b => t + 1 = 0)
        /\ r + (x + Framed) <= b \/ (r = 0 /\ (t + 1 <= 1 \/ x + Framed <= b + SEQ_LEN))
    BY <1>1, <1>3 DEF Budgeted
  <2>. QED BY <2>1, <1>1, <1>2 DEF Budgeted
<1>. QED BY <1>3

LEMMA LessOfBudget ==
  ASSUME NEW b \in Nat, b > 0, NEW r \in Nat, NEW t \in Nat, t > 0, Budgeted(b, r, t)
  PROVE  Budgeted(b, Less(r, Framed), t)
<1>1. PICK x \in Nat : x = t * Framed
  BY OneMore
<1>2. {SEQ_LEN, Framed} \subseteq Nat /\ Framed > 0
  BY Sizes
<1>. QED BY <1>1, <1>2 DEF Budgeted, Less

LEMMA UseTokens ==
  ASSUME NEW s \in Nat, NEW k \in Nat, NEW x \in Nat, Covered(s, k, x), DATA_SIZE <= k
  PROVE  Covered(s, Less(k, Framed), x + Framed) /\ Covered(s, Less(k, Framed), x)
BY Sizes DEF Covered, Less

LEMMA AppendSet ==
  ASSUME NEW T, NEW s \in Seq(T), NEW e \in T
  PROVE  /\ Append(s, e) \in Seq(T) /\ Len(Append(s, e)) = Len(s) + 1
         /\ \A p : p \in ToSet(Append(s, e)) <=> p \in ToSet(s) \/ p = e
<1> DEFINE u == Append(s, e)
<1>1. /\ u \in Seq(T) /\ Len(u) = Len(s) + 1 /\ u[Len(s) + 1] = e
      /\ \A i \in 1..Len(s) : u[i] = s[i]
  OBVIOUS
<1>2. Len(s) \in Nat /\ DOMAIN s = 1..Len(s) /\ DOMAIN u = 1..Len(s) + 1
  BY <1>1
<1> HIDE DEF u
<1>3. ASSUME NEW p, p \in ToSet(s) \/ p = e PROVE p \in ToSet(u)
  <2>1. CASE p = e
    BY <2>1, <1>1, <1>2 DEF ToSet
  <2>2. CASE p \in ToSet(s)
    <3>1. PICK i \in 1..Len(s) : s[i] = p
      BY <2>2, <1>2 DEF ToSet
    <3>. QED BY <3>1, <1>1, <1>2 DEF ToSet
  <2>. QED BY <1>3, <2>1, <2>2
<1>4. ASSUME NEW p, p \in ToSet(u) PROVE p \in ToSet(s) \/ p = e
  <2>1. PICK i \in 1..Len(s) + 1 : u[i] = p
    BY <1>4, <1>2 DEF ToSet
  <2>. QED BY <2>1, <1>1, <1>2 DEF ToSet
<1>. QED BY <1>1, <1>3, <1>4 DEF u

LEMMA DataType == ASSUME NEW m PROVE Data(m) \in [Stream -> {0, 1}] /\ Data(m) \in [Stream -> Nat]
BY DEF Data, DataOf

LEMMA BytesType ==
  ASSUME NEW c \in [Stream -> Nat]
  PROVE  Bytes(c) \in [Stream -> Nat] /\ \A i \in Stream : Bytes(c)[i] = c[i] * Framed
<1>1. Framed \in Nat
  BY Sizes
<1>. QED BY <1>1 DEF Bytes

(* One more stream has data in the MPDU, or none. *)
LEMMA DataGrows ==
  ASSUME NEW m \in Mpdus, NEW n \in Mpdus, NEW i \in Stream, NEW ack \in BOOLEAN,
         n.pdus = Append(m.pdus, [stream |-> i, ack |-> ack])
  PROVE  /\ \A j \in Stream : DataOf(n, j) = IF j = i /\ ~ack THEN 1 ELSE DataOf(m, j)
         /\ \/ /\ ~ack /\ DataOf(m, i) = 0 /\ Total(Data(n)) = Total(Data(m)) + 1
               /\ Total(Bytes(Data(n))) = Total(Bytes(Data(m))) + Framed
            \/ /\ ack \/ DataOf(m, i) = 1
               /\ Data(n) = Data(m)
<1>1. m.pdus \in Seq(Entry) /\ [stream |-> i, ack |-> ack] \in Entry
  BY DEF Mpdus, Entry
<1>2. \A p : p \in ToSet(n.pdus) <=> p \in ToSet(m.pdus) \/ p = [stream |-> i, ack |-> ack]
  BY <1>1, AppendSet
<1>3. ASSUME NEW j \in Stream
      PROVE  DataOf(n, j) = IF j = i /\ ~ack THEN 1 ELSE DataOf(m, j)
  <2>1. [stream |-> j, ack |-> FALSE] = [stream |-> i, ack |-> ack] <=> j = i /\ ~ack
    OBVIOUS
  <2>2. [stream |-> j, ack |-> FALSE] \in ToSet(n.pdus)
          <=> [stream |-> j, ack |-> FALSE] \in ToSet(m.pdus) \/ (j = i /\ ~ack)
    BY <1>2, <2>1
  <2>. QED BY <2>2 DEF DataOf
<1>4. CASE ack \/ DataOf(m, i) = 1
  <2>1. Data(n) = Data(m)
    BY <1>3, <1>4 DEF Data
  <2>. QED BY <1>3, <1>4, <2>1
<1>5. CASE ~ack /\ DataOf(m, i) # 1
  <2>1. DataOf(m, i) = 0
    BY <1>5 DEF DataOf
  <2>2. \A j \in Stream : Data(n)[j] = IF j = i THEN Data(m)[j] + 1 ELSE Data(m)[j]
    BY <1>3, <1>5, <2>1 DEF Data
  <2>3. Data(m) \in [Stream -> Nat] /\ Data(n) \in [Stream -> Nat]
    BY DataType
  <2>4. Total(Data(n)) = Total(Data(m)) + 1
    BY <2>2, <2>3, TotalOfMore
  <2>5. Data(m)[i] = 0 /\ Data(n)[i] = 1
    BY <2>1, <2>2 DEF Data
  <2>6. \A j \in Stream : Bytes(Data(n))[j] = IF j = i THEN Bytes(Data(m))[j] + Framed
                                               ELSE Bytes(Data(m))[j]
    <3>1. Framed \in Nat /\ 0 * Framed = 0 /\ 1 * Framed = Framed
      BY Sizes
    <3>. QED BY <2>2, <2>3, <2>5, <3>1, BytesType
  <2>7. Total(Bytes(Data(n))) = Total(Bytes(Data(m))) + Framed
    <3>1. Bytes(Data(m)) \in [Stream -> Nat] /\ Bytes(Data(n)) \in [Stream -> Nat] /\ Framed \in Nat
      BY <2>3, BytesType, Sizes
    <3>. QED BY <2>6, <3>1, TotalOfMore
  <2>. QED BY <1>3, <1>5, <2>1, <2>4, <2>7
<1>. QED BY <1>4, <1>5

(* try_pull() keeps the MPDU within the limits. *)
LEMMA TryPullKeeps ==
  ASSUME TypeInv, UdpInv, ~Idle, NEW acksOnly \in BOOLEAN, NEW m, MpduOK(m, acksOnly),
         NEW i \in Stream
  PROVE  /\ MpduOK(TryPull(m, i, acksOnly), acksOnly)
         /\ Len(m.pdus) <= Len(TryPull(m, i, acksOnly).pdus)
<1> DEFINE s      == m.streams[i]
           ack    == HasAck(s)
           after  == IF ack THEN [s EXCEPT !.acks = @ - 1]
                     ELSE IF i \in UDP THEN s
                     ELSE [s EXCEPT !.data = @ - 1]
           entry  == [stream |-> i, ack |-> ack]
           packed == [m EXCEPT !.streams[i] = after, !.body = @ + (Size(ack) + SEQ_LEN),
                               !.pdus = Append(@, entry)]
           taken  == [packed EXCEPT !.tokens    = Less(@, Size(ack) + SEQ_LEN),
                                    !.remain[i] = Less(@, Size(ack) + SEQ_LEN)]
           refuse == \/ Len(m.pdus) = SLOTS_MAX
                     \/ ~(IF acksOnly THEN HasAck(s) ELSE HasTx(s))
                     \/ Size(ack) > Limit(m, i, acksOnly)
           n      == TryPull(m, i, acksOnly)
<1>1. n = IF refuse THEN m ELSE IF ack THEN packed ELSE taken
  BY DEF TryPull
<1>m. /\ m \in Mpdus /\ m.pdus \in Seq(Entry) /\ Len(m.pdus) \in Nat
      /\ m.streams \in [Stream -> Waiting] /\ m.tokens \in Nat
      /\ m.remain \in [Stream -> Nat] /\ m.body \in Nat
      /\ s \in Waiting /\ s.acks \in Nat /\ s.data \in Nat
  BY DEF MpduOK, Mpdus, Waiting
<1>p. /\ pass \in Passes /\ limits.budget[i] \in Nat /\ limits.budget[i] > 0
      /\ pass.taken \in [Stream -> Nat] /\ pass.start \in Nat
      /\ streams[i] \in Waiting /\ SLOTS_MAX \in Nat
  <2>1. pass \in Passes
    BY DEF TypeInv, Idle, NoPass
  <2>2. limits.budget[i] \in BUDGETS
    BY DEF TypeInv, Limits
  <2>3. limits.budget[i] \in Nat /\ limits.budget[i] > 0 /\ SLOTS_MAX \in Nat
    BY ONLY <2>2, BudgetSize
  <2>4. pass.taken \in [Stream -> Nat] /\ pass.start \in Nat
    BY <2>1 DEF Passes
  <2>5. streams[i] \in Waiting
    BY DEF TypeInv
  <2>. QED BY <2>1, <2>3, <2>4, <2>5
<1>a. ack \in BOOLEAN /\ (ack <=> s.acks > 0) /\ entry \in Entry
  BY DEF HasAck, Entry
<1>u. ack => i \notin UDP
  <2>1. i \in UDP => s = streams[i] /\ streams[i].acks = 0
    BY DEF MpduOK, UdpInv
  <2>. QED BY <2>1, <1>a
<1>2. CASE refuse
  BY <1>1, <1>2, <1>m
<1>3. CASE ~refuse
  <2> DEFINE k == IF ack THEN ACK_SIZE + SEQ_LEN ELSE Framed
  <2>1. /\ Size(ack) + SEQ_LEN = k /\ k \in Nat
        /\ Len(m.pdus) < SLOTS_MAX /\ (acksOnly => ack) /\ (~ack => s.data > 0)
    <3>1. Size(ack) + SEQ_LEN = k /\ k \in Nat
      BY <1>a, Sizes DEF Size, Framed
    <3>2. Len(m.pdus) <= SLOTS_MAX
      BY DEF MpduOK
    <3>3. Len(m.pdus) < SLOTS_MAX
      <4>1. Len(m.pdus) # SLOTS_MAX
        BY <1>3
      <4>. QED BY ONLY <4>1, <3>2, <1>m, <1>p
    <3>4. (acksOnly => HasAck(s)) /\ (~acksOnly => HasTx(s))
      BY <1>3
    <3>5. acksOnly => ack
      BY <3>4
    <3>6. ~ack => s.data > 0
      BY <3>4, <3>5, <1>m, <1>a DEF HasTx
    <3>. QED BY <3>1, <3>3, <3>5, <3>6
  <2>2. ~ack => DATA_SIZE <= m.tokens
                /\ (m.remain[i] = limits.budget[i] \/ DATA_SIZE <= m.remain[i])
    <3>1. PAYLOAD_MAX - m.body - SEQ_LEN \in Int /\ STREAM_PAYLOAD_MAX \in Nat
          /\ DATA_SIZE \in Nat
      BY <1>m, Sizes
    <3>2. m.remain[i] \in Nat /\ m.tokens \in Nat
      BY <1>m
    <3>. QED BY <1>3, <2>1, <3>1, <3>2, <1>p DEF Limit, Size, AtMost
  <2>3. after \in Waiting /\ after.acks <= s.acks /\ (i \in UDP => after = s)
    BY <1>m, <1>a, <1>u, <2>1 DEF Waiting
  <2>4. /\ n.streams = [m.streams EXCEPT ![i] = after] /\ n.body = m.body + k
        /\ n.pdus = Append(m.pdus, entry)
        /\ n.tokens = IF ack THEN m.tokens ELSE Less(m.tokens, Framed)
        /\ n.remain = IF ack THEN m.remain
                      ELSE [m.remain EXCEPT ![i] = Less(m.remain[i], Framed)]
        /\ n = [streams |-> n.streams, tokens |-> n.tokens, remain |-> n.remain,
                body |-> n.body, pdus |-> n.pdus]
    <3> HIDE DEF after, entry, k, s, ack
    <3>1. n = IF ack THEN packed ELSE taken
      BY <1>1, <1>3
    <3>2. m = [streams |-> m.streams, tokens |-> m.tokens, remain |-> m.remain,
               body |-> m.body, pdus |-> m.pdus]
      BY <1>m DEF Mpdus
    <3> HIDE DEF refuse, n
    <3>3. CASE ack
      BY <3>1, <3>2, <3>3, <2>1, <1>m
    <3>4. CASE ~ack
      <4>1. k = Framed
        BY <3>4 DEF k
      <4>. QED BY <3>1, <3>2, <3>4, <4>1, <2>1, <1>m
    <3>. QED BY <3>3, <3>4
  <2> HIDE DEF n, refuse, packed, taken, after, k
  <2>5. /\ n.pdus \in Seq(Entry) /\ Len(n.pdus) = Len(m.pdus) + 1
        /\ \A p : p \in ToSet(n.pdus) <=> p \in ToSet(m.pdus) \/ p = entry
    <3> HIDE DEF entry
    <3>. QED BY <2>4, <1>m, <1>a, AppendSet
  <2>6. n \in Mpdus
    <3>1. m.tokens \in Nat /\ m.remain[i] \in Nat /\ Framed \in Nat
      BY <1>m, Sizes
    <3>2. Less(m.tokens, Framed) \in Nat /\ Less(m.remain[i], Framed) \in Nat
      BY <3>1 DEF Less
    <3>3. /\ n.streams \in [Stream -> Waiting] /\ n.tokens \in Nat
          /\ n.remain \in [Stream -> Nat] /\ n.body \in Nat
      BY <1>m, <2>1, <2>3, <2>4, <3>2
    <3>. QED BY <2>4, <2>5, <3>3 DEF Mpdus
  <2>7. ASSUME NEW j \in Stream
        PROVE  /\ n.streams[j].acks <= streams[j].acks
               /\ j \in UDP => n.streams[j] = streams[j]
    <3>1. /\ m.streams[j].acks <= streams[j].acks
          /\ j \in UDP => m.streams[j] = streams[j]
      BY DEF MpduOK
    <3>2. n.streams[j] = IF j = i THEN after ELSE m.streams[j]
      BY <2>4, <1>m
    <3>3. {streams[j].acks, after.acks, s.acks} \subseteq Nat
      BY <2>3, <1>m DEF TypeInv, Waiting
    <3>. QED BY <2>3, <3>1, <3>2, <3>3
  <2>8. ASSUME NEW p \in ToSet(n.pdus)
        PROVE  /\ p.ack => p.stream \notin UDP
               /\ ~p.ack /\ p.stream \in UDP => streams[p.stream].data > 0
               /\ acksOnly => p.ack
    <3>1. CASE p \in ToSet(m.pdus)
      BY <3>1 DEF MpduOK
    <3>2. CASE p = entry
      <4>1. p.stream = i /\ p.ack = ack
        BY <3>2
      <4>2. ~ack /\ i \in UDP => streams[i].data > 0
        BY <2>1 DEF MpduOK
      <4>. QED BY <4>1, <4>2, <1>u, <2>1
    <3>. QED BY <2>5, <3>1, <3>2
  <2>9. /\ \A j \in Stream : DataOf(n, j) = IF j = i /\ ~ack THEN 1 ELSE DataOf(m, j)
        /\ \/ /\ ~ack /\ DataOf(m, i) = 0 /\ Total(Data(n)) = Total(Data(m)) + 1
              /\ Total(Bytes(Data(n))) = Total(Bytes(Data(m))) + Framed
           \/ (ack \/ DataOf(m, i) = 1) /\ Data(n) = Data(m)
    <3>1. n.pdus = Append(m.pdus, [stream |-> i, ack |-> ack])
      BY <2>4
    <3> HIDE DEF ack, entry
    <3>. QED BY <1>m, <1>a, <2>6, <3>1, DataGrows
  <2>10. Total(Data(n)) <= Len(n.pdus)
    <3>1. Total(Data(m)) <= Len(m.pdus) /\ Total(Data(m)) \in Nat
      BY DataType, TotalType DEF MpduOK
    <3>. QED BY <3>1, <2>5, <2>9, <1>m
  <2>11. ASSUME NEW j \in Stream
         PROVE  Budgeted(limits.budget[j], n.remain[j], pass.taken[j] + DataOf(n, j))
    <3>1. Budgeted(limits.budget[j], m.remain[j], pass.taken[j] + DataOf(m, j))
      BY DEF MpduOK
    <3>2. CASE j # i \/ ack
      <4>1. n.remain[j] = m.remain[j] /\ DataOf(n, j) = DataOf(m, j)
        BY <3>2, <2>4, <2>9, <1>m
      <4>. QED BY <3>1, <4>1
    <3>3. CASE j = i /\ ~ack
      <4>1. n.remain[j] = Less(m.remain[i], Framed) /\ DataOf(n, j) = 1
        BY <3>3, <2>4, <2>9, <1>m
      <4>2. m.remain[i] \in Nat /\ pass.taken[i] \in Nat
        BY <1>m, <1>p
      <4>3. CASE DataOf(m, i) = 0
        <5>1. Budgeted(limits.budget[i], m.remain[i], pass.taken[i])
          BY <3>1, <3>3, <4>2, <4>3
        <5>. QED BY <5>1, <4>1, <4>2, <3>3, <2>2, <1>p, TakeOne
      <4>4. CASE DataOf(m, i) = 1
        <5>1. Budgeted(limits.budget[i], m.remain[i], pass.taken[i] + 1)
          BY <3>1, <3>3, <4>4
        <5>2. pass.taken[i] + 1 \in Nat /\ pass.taken[i] + 1 > 0
          BY <4>2
        <5>. QED BY <5>1, <5>2, <4>1, <4>2, <3>3, <1>p, LessOfBudget
      <4>. QED BY <4>3, <4>4 DEF DataOf
    <3>. QED BY <3>2, <3>3
  <2>12. Covered(pass.start, n.tokens, Total(Bytes(pass.taken)) + Total(Bytes(Data(n))))
    <3>1. Covered(pass.start, m.tokens, Total(Bytes(pass.taken)) + Total(Bytes(Data(m))))
      BY DEF MpduOK
    <3>2. Total(Bytes(pass.taken)) \in Nat /\ Total(Bytes(Data(m))) \in Nat
      BY <1>p, BytesType, DataType, TotalType
    <3>3. PICK x \in Nat : x = Total(Bytes(pass.taken)) + Total(Bytes(Data(m)))
      BY <3>2
    <3>4. ~ack => Covered(pass.start, n.tokens, x) /\ Covered(pass.start, n.tokens, x + Framed)
      <4>1. Covered(pass.start, m.tokens, x) /\ m.tokens \in Nat /\ pass.start \in Nat
        BY <3>1, <3>3, <1>m, <1>p
      <4>2. ~ack => DATA_SIZE <= m.tokens /\ n.tokens = Less(m.tokens, Framed)
        BY <2>2, <2>4
      <4>. QED BY <4>1, <4>2, UseTokens
    <3>5. ack => n.tokens = m.tokens /\ Data(n) = Data(m)
      BY <2>4, <2>9
    <3>6. ack \/ Data(n) = Data(m)
          \/ Total(Bytes(pass.taken)) + Total(Bytes(Data(n))) = x + Framed
      BY <2>9, <3>2, <3>3, Sizes
    <3>. QED BY <3>1, <3>3, <3>4, <3>5, <3>6
  <2>13. Len(n.pdus) <= SLOTS_MAX /\ Len(m.pdus) <= Len(n.pdus)
    BY <2>1, <2>5, <1>m, <1>p
  <2>. QED BY <2>6, <2>7, <2>8, <2>10, <2>11, <2>12, <2>13 DEF MpduOK, n
<1>. QED BY <1>2, <1>3

Nothing == [streams |-> streams, tokens |-> tokens, remain |-> pass.remain,
            body |-> 0, pdus |-> <<>>]

LEMMA NothingOK ==
  ASSUME IInv, ~Idle, NEW acksOnly \in BOOLEAN
  PROVE  MpduOK(Nothing, acksOnly)
<1>1. TypeInv /\ pass \in Passes
  BY DEF IInv, TypeInv, Idle, NoPass
<1>2. Nothing \in Mpdus /\ ToSet(Nothing.pdus) = {} /\ Len(Nothing.pdus) = 0
  BY <1>1 DEF Nothing, Mpdus, TypeInv, Passes, ToSet
<1>3. \A i \in Stream : DataOf(Nothing, i) = 0
  BY <1>2 DEF DataOf
<1>4. \A i \in Stream : Data(Nothing)[i] = 0 /\ Bytes(Data(Nothing))[i] = 0
  BY <1>3, DataType, BytesType, Sizes DEF Data
<1>5. Total(Data(Nothing)) = 0 /\ Total(Bytes(Data(Nothing))) = 0
  BY <1>4, DataType, BytesType, TotalOfNone
<1>6. Total(Bytes(pass.taken)) \in Nat /\ pass.taken \in [Stream -> Nat]
  BY <1>1, BytesType, TotalType DEF Passes
<1>7. Covered(pass.start, tokens, Total(Bytes(pass.taken)) + Total(Bytes(Data(Nothing))))
  BY <1>5, <1>6 DEF IInv, LimitInv
<1>8. ASSUME NEW i \in Stream
      PROVE  Budgeted(limits.budget[i], pass.remain[i], pass.taken[i] + DataOf(Nothing, i))
  <2>1. Budgeted(limits.budget[i], pass.remain[i], pass.taken[i]) /\ pass.taken[i] \in Nat
    BY <1>6 DEF IInv, LimitInv
  <2>2. pass.taken[i] + DataOf(Nothing, i) = pass.taken[i]
    BY <1>3, <2>1
  <2>. QED BY <2>1, <2>2
<1>9. /\ Nothing.streams = streams /\ Nothing.tokens = tokens /\ Nothing.remain = pass.remain
      /\ \A i \in Stream : streams[i].acks <= streams[i].acks
      /\ SLOTS_MAX \in Nat
  BY <1>1, BudgetSize DEF Nothing, TypeInv, Waiting
<1>. QED BY <1>2, <1>5, <1>7, <1>8, <1>9 DEF MpduOK

(* The recursive function in AskOthers exists. *)
LEMMA AskOthersDefined ==
  ASSUME NEW start, NEW i, NEW acksOnly
  PROVE  \E packed :
           /\ packed = [step \in 0..STREAMS - 1 |->
                         IF step = 0 THEN start
                         ELSE TryPull(packed[step - 1], (i + step) % STREAMS, acksOnly)]
           /\ AskOthers(start, i, acksOnly) = packed[STREAMS - 1]
<1> DEFINE Next1(m, step) == TryPull(m, (i + step) % STREAMS, acksOnly)
           Asks(n, g) == g = [step \in 0..n |-> IF step = 0 THEN start
                                               ELSE Next1(g[step - 1], step)]
           S == {n \in 0..STREAMS - 1 : \E g : Asks(n, g)}
<1> HIDE DEF Next1
<1>1. 0 \in S
  <2> DEFINE z == [step \in 0..0 |-> start]
  <2>1. z = [step \in 0..0 |-> IF step = 0 THEN start ELSE Next1(z[step - 1], step)]
    OBVIOUS
  <2>2. \E k : Asks(0, k)
    BY <2>1, Zenon
  <2>. QED BY <2>2, Streams
<1>2. ASSUME NEW n \in 0..STREAMS - 2, n \in S PROVE n + 1 \in S
  <2>1. PICK g : Asks(n, g)
    BY <1>2
  <2> DEFINE h == [step \in 0..n + 1 |-> IF step <= n THEN g[step] ELSE Next1(g[n], n + 1)]
  <2>2. ASSUME NEW step \in 0..n + 1
        PROVE  h[step] = IF step = 0 THEN start ELSE Next1(h[step - 1], step)
    <3>1. CASE step <= n
      BY <2>1, <3>1, Streams
    <3>2. CASE step = n + 1
      BY <2>1, <3>2, Streams
    <3>. QED BY <3>1, <3>2, Streams
  <2>3. h = [step \in 0..n + 1 |-> IF step = 0 THEN start ELSE Next1(h[step - 1], step)]
    BY <2>2
  <2>4. \E k : Asks(n + 1, k)
    BY <2>3, Zenon
  <2>. QED BY <2>4, Streams
<1>3. STREAMS - 1 \in S
  <2>1. /\ S \in SUBSET Nat /\ 0 \in S /\ STREAMS - 1 \in Nat
        /\ \A n \in 0..(STREAMS - 1) - 1 : n \in S => n + 1 \in S
    BY <1>1, <1>2, Streams
  <2>2. 0..STREAMS - 1 \subseteq S
    <3> HIDE DEF S
    <3>. QED BY <2>1, UpTo
  <2>. QED BY <2>1, <2>2
<1>4. \E g : Asks(STREAMS - 1, g)
  BY <1>3
<1> DEFINE packed == CHOOSE g : Asks(STREAMS - 1, g)
<1>5. Asks(STREAMS - 1, packed)
  BY <1>4
<1>6. AskOthers(start, i, acksOnly) = packed[STREAMS - 1]
  BY DEF AskOthers, Next1
<1>. QED BY <1>5, <1>6 DEF Next1

LEMMA AskOthersKeeps ==
  ASSUME TypeInv, UdpInv, ~Idle, NEW acksOnly \in BOOLEAN, NEW m, MpduOK(m, acksOnly),
         NEW i \in Stream
  PROVE  /\ MpduOK(AskOthers(m, i, acksOnly), acksOnly)
         /\ Len(m.pdus) <= Len(AskOthers(m, i, acksOnly).pdus)
<1>1. PICK packed :
         /\ packed = [step \in 0..STREAMS - 1 |->
                       IF step = 0 THEN m
                       ELSE TryPull(packed[step - 1], (i + step) % STREAMS, acksOnly)]
         /\ AskOthers(m, i, acksOnly) = packed[STREAMS - 1]
  BY AskOthersDefined
<1> DEFINE Kept(n) == MpduOK(n, acksOnly) /\ Len(m.pdus) <= Len(n.pdus)
           S == {step \in 0..STREAMS - 1 : Kept(packed[step])}
<1>2. Len(m.pdus) \in Nat
  BY DEF MpduOK, Mpdus
<1>3. packed[0] = m
  BY <1>1, Streams
<1>4. 0 \in S
  BY <1>2, <1>3, Streams
<1>5. ASSUME NEW n \in 0..(STREAMS - 1) - 1, n \in S PROVE n + 1 \in S
  <2>1. n + 1 \in 0..STREAMS - 1 /\ n + 1 # 0 /\ (n + 1) - 1 = n
    BY Streams
  <2>2. packed[n + 1] = TryPull(packed[n], (i + (n + 1)) % STREAMS, acksOnly)
    BY <1>1, <2>1
  <2>3. (i + (n + 1)) % STREAMS \in Stream
    BY <2>1, Streams
  <2>4. Kept(packed[n])
    BY <1>5
  <2>5. /\ MpduOK(packed[n + 1], acksOnly)
        /\ Len(packed[n].pdus) <= Len(packed[n + 1].pdus)
    BY <2>2, <2>3, <2>4, TryPullKeeps
  <2>6. Len(packed[n].pdus) \in Nat /\ Len(packed[n + 1].pdus) \in Nat
    BY <2>4, <2>5 DEF MpduOK, Mpdus
  <2>7. Kept(packed[n + 1])
    BY <1>2, <2>4, <2>5, <2>6
  <2>. QED BY <2>1, <2>7
<1>6. STREAMS - 1 \in S
  <2>1. /\ S \in SUBSET Nat /\ 0 \in S /\ STREAMS - 1 \in Nat
        /\ \A n \in 0..(STREAMS - 1) - 1 : n \in S => n + 1 \in S
    BY <1>4, <1>5, Streams
  <2>2. 0..STREAMS - 1 \subseteq S
    <3> HIDE DEF S
    <3>. QED BY <2>1, UpTo
  <2>. QED BY <2>1, <2>2
<1>. QED BY <1>1, <1>6

(* emit_mpdu() packs within the limits. *)
LEMMA PackKeeps ==
  ASSUME IInv, ~Idle, NEW acksOnly \in BOOLEAN, NEW i \in Stream
  PROVE  /\ MpduOK(Pack(i, acksOnly), acksOnly)
         /\ TryPull(Nothing, i, acksOnly).pdus # <<>> => Pack(i, acksOnly).pdus # <<>>
<1> DEFINE start == TryPull(Nothing, i, acksOnly)
<1>1. Pack(i, acksOnly) = IF start.pdus = <<>> THEN start ELSE AskOthers(start, i, acksOnly)
  BY DEF Pack, Nothing
<1>2. TypeInv /\ UdpInv
  BY DEF IInv
<1>3. MpduOK(start, acksOnly)
  BY <1>2, NothingOK, TryPullKeeps
<1> HIDE DEF start
<1>4. MpduOK(AskOthers(start, i, acksOnly), acksOnly)
      /\ Len(start.pdus) <= Len(AskOthers(start, i, acksOnly).pdus)
  BY <1>2, <1>3, AskOthersKeeps
<1>5. start.pdus # <<>> => AskOthers(start, i, acksOnly).pdus # <<>>
  <2>1. start.pdus \in Seq(Entry) /\ AskOthers(start, i, acksOnly).pdus \in Seq(Entry)
    BY <1>3, <1>4 DEF MpduOK, Mpdus
  <2>. QED BY <1>4, <2>1
<1>. QED BY <1>1, <1>3, <1>4, <1>5 DEF start

(* An ACK always finds room in an empty MPDU. *)
LEMMA AckIsPacked ==
  ASSUME IInv, ~Idle, NEW i \in Stream, HasAck(streams[i])
  PROVE  Emits(i, TRUE)
<1>1. Nothing.pdus = <<>> /\ Nothing.body = 0 /\ Nothing.streams = streams
  BY DEF Nothing
<1>2. Limit(Nothing, i, TRUE) = STREAM_PAYLOAD_MAX
  BY <1>1, Sizes DEF Limit, AtMost
<1>3. Len(Nothing.pdus) # SLOTS_MAX /\ ACK_SIZE <= STREAM_PAYLOAD_MAX
      /\ {ACK_SIZE, STREAM_PAYLOAD_MAX} \subseteq Nat
  <2>1. Len(Nothing.pdus) = 0
    BY <1>1
  <2>2. SLOTS_MAX # 0
    BY TxSchedulerAssumption
  <2>. QED BY <2>1, <2>2, Sizes
<1> DEFINE s      == Nothing.streams[i]
           ack    == HasAck(s)
           refuse == \/ Len(Nothing.pdus) = SLOTS_MAX
                     \/ ~HasAck(s)
                     \/ Size(ack) > Limit(Nothing, i, TRUE)
           n      == TryPull(Nothing, i, TRUE)
<1>4. ack /\ ~refuse
  <2>1. s.acks > 0
    BY <1>1 DEF HasAck
  <2>2. ack
    BY <2>1 DEF HasAck
  <2>3. Size(ack) = ACK_SIZE
    BY <2>2 DEF Size
  <2>4. ~(Size(ack) > Limit(Nothing, i, TRUE))
    <3>1. \A x, y : x = ACK_SIZE /\ y = STREAM_PAYLOAD_MAX => ~(x > y)
      BY <1>3
    <3>. QED BY ONLY <3>1, <2>3, <1>2, Zenon
  <2>. QED BY <2>2, <2>4, <1>3
<1>5. n.pdus # <<>>
  <2>2. ~refuse => n.pdus = Append(Nothing.pdus, [stream |-> i, ack |-> ack])
    BY <1>4 DEF TryPull, Nothing
  <2> HIDE DEF n, refuse
  <2>3. n.pdus = Append(<<>>, [stream |-> i, ack |-> ack])
    BY <1>1, <1>4, <2>2
  <2>4. <<>> \in Seq(Entry) /\ [stream |-> i, ack |-> ack] \in Entry
    BY DEF Entry, HasAck
  <2> HIDE DEF ack
  <2>5. Len(n.pdus) = Len(<<>>) + 1
    BY <2>3, <2>4, AppendSet
  <2>. QED BY <2>5
<1>6. Pack(i, TRUE).pdus # <<>>
  BY <1>5, PackKeeps
<1>. QED BY <1>6 DEF Emits, Asked, MayEmit

-----------------------------------------------------------------------------
(***************************************************************************)
(* A step that sends, or tries to.                                         *)
(***************************************************************************)

LEMMA LimitTypes ==
  ASSUME TypeInv
  PROVE  /\ limits.budget \in [Stream -> Nat] /\ \A i \in Stream : limits.budget[i] > 0
         /\ limits.data \in Nat /\ limits.data > 0
         /\ limits.burst \in Nat /\ limits.burst > 0
         /\ limits = [budget |-> limits.budget, data |-> limits.data, burst |-> limits.burst]
<1>1. /\ limits.budget \in [Stream -> BUDGETS] /\ limits.data \in MAX_DATA
      /\ limits.burst \in BURST_SIZES
      /\ limits = [budget |-> limits.budget, data |-> limits.data, burst |-> limits.burst]
  BY DEF TypeInv, Limits
<1>2. limits.data \in 1..32 /\ limits.burst \in 1..20
  BY <1>1, TxSchedulerAssumption
<1>3. limits.budget \in [Stream -> Nat] /\ \A i \in Stream : limits.budget[i] > 0
  BY <1>1, BudgetSize
<1>. QED BY <1>1, <1>2, <1>3

(* The MPDU brings each stream's count what it carries of it. *)
LEMMA TakenTotals ==
  ASSUME NEW taken \in [Stream -> Nat], NEW m
  PROVE  LET more == [i \in Stream |-> taken[i] + DataOf(m, i)]
         IN  /\ more \in [Stream -> Nat]
             /\ Total(more) = Total(taken) + Total(Data(m))
             /\ Total(Bytes(more)) = Total(Bytes(taken)) + Total(Bytes(Data(m)))
             /\ {Total(taken), Total(Data(m)), Total(Bytes(taken)), Total(Bytes(Data(m)))}
                   \subseteq Nat
<1> DEFINE more == [i \in Stream |-> taken[i] + DataOf(m, i)]
<1>1. /\ Data(m) \in [Stream -> {0, 1}] /\ Data(m) \in [Stream -> Nat]
      /\ \A i \in Stream : Data(m)[i] = DataOf(m, i)
  BY DataType DEF Data
<1>2. /\ more \in [Stream -> Nat]
      /\ more = [i \in Stream |-> taken[i] + Data(m)[i]]
  BY <1>1
<1>3. \A i \in Stream : more[i] = taken[i] + Data(m)[i]
  BY <1>2
<1> HIDE DEF more
<1>4. Total(more) = Total(taken) + Total(Data(m))
  BY <1>1, <1>2, TotalOfSums
<1>5. ASSUME NEW i \in Stream
      PROVE  Bytes(more)[i] = Bytes(taken)[i] + Bytes(Data(m))[i]
  <2>1. /\ Bytes(more)[i] = more[i] * Framed /\ Bytes(taken)[i] = taken[i] * Framed
        /\ Bytes(Data(m))[i] = Data(m)[i] * Framed
    BY <1>1, <1>2, BytesType
  <2>2. taken[i] * Framed \in Nat /\ (taken[i] + 1) * Framed = taken[i] * Framed + Framed
    BY OneMore
  <2>3. Framed \in Nat /\ 0 * Framed = 0 /\ 1 * Framed = Framed
    BY Sizes
  <2>4. CASE Data(m)[i] = 0
    BY <2>1, <2>2, <2>3, <2>4, <1>3
  <2>5. CASE Data(m)[i] = 1
    BY <2>1, <2>2, <2>3, <2>5, <1>3
  <2>. QED BY <1>1, <2>4, <2>5
<1>6. /\ Bytes(more) = [i \in Stream |-> Bytes(taken)[i] + Bytes(Data(m))[i]]
      /\ Bytes(taken) \in [Stream -> Nat] /\ Bytes(Data(m)) \in [Stream -> Nat]
  <2>1. Bytes(more) = [i \in Stream |-> Bytes(more)[i]]
    BY DEF Bytes
  <2>. QED BY <2>1, <1>1, <1>5, BytesType
<1>7. Total(Bytes(more)) = Total(Bytes(taken)) + Total(Bytes(Data(m)))
  BY <1>6, TotalOfSums
<1>. QED BY <1>1, <1>2, <1>4, <1>6, <1>7, TotalType DEF more

LEMMA SendKeeps ==
  ASSUME IInv, ~Idle, NEW acksOnly \in BOOLEAN, NEW sent \in BOOLEAN,
         NEW m, MpduOK(m, acksOnly),
         ~acksOnly => burst.sent < limits.burst /\ pass.data_sent < limits.data,
         NEW at \in {"acks", "data"}, NEW n \in Nat, NEW progress \in BOOLEAN,
         SendMpdu(m, sent, [pass EXCEPT !.at = at, !.n = n, !.progress = progress]),
         next' \in Stream
  PROVE  /\ TypeInv' /\ UdpInv' /\ LimitInv'
         /\ pass'.at = at /\ pass'.n = n /\ pass'.progress = progress
         /\ pass'.refused = (pass.refused \/ ~sent)
         /\ \A i \in Stream : streams'[i].acks <= streams[i].acks
<1> DEFINE more == [i \in Stream |-> pass.taken[i] + DataOf(m, i)]
           counts == IF sent THEN more ELSE pass.taken
           data == sent /\ CarriesData(m)
<1>1. /\ TypeInv /\ UdpInv /\ LimitInv /\ pass \in Passes /\ limits' = limits
      /\ pass.taken \in [Stream -> Nat] /\ pass.start \in Nat /\ pass.data_sent \in Nat
  BY DEF IInv, TypeInv, Idle, NoPass, Passes, SendMpdu
<1>2. /\ m \in Mpdus /\ m.streams \in [Stream -> Waiting] /\ m.tokens \in Nat
      /\ m.remain \in [Stream -> Nat] /\ m.pdus \in Seq(Entry) /\ Len(m.pdus) \in Nat
  BY DEF MpduOK, Mpdus
<1>3. ASSUME NEW i \in Stream
      PROVE  /\ streams'[i] \in Waiting
             /\ streams'[i].acks = m.streams[i].acks
  <2>1. streams'[i] = IF sent /\ i \in UDP /\ Carries(m, i)
                      THEN [m.streams[i] EXCEPT !.data = @ - 1] ELSE m.streams[i]
    BY DEF SendMpdu, AfterSend
  <2>2. m.streams[i] \in Waiting
    BY <1>2
  <2>3. ASSUME i \in UDP, Carries(m, i) PROVE m.streams[i].data > 0
    <3>1. PICK p \in ToSet(m.pdus) : p.stream = i
      BY <2>3 DEF Carries
    <3>2. \E k \in 1..Len(m.pdus) : p = m.pdus[k]
      BY <1>2 DEF ToSet
    <3>3. p \in Entry
      BY <1>2, <3>2
    <3>4. ~p.ack
      BY <2>3, <3>1 DEF MpduOK
    <3>. QED BY <2>3, <3>1, <3>4 DEF MpduOK
  <2>. QED BY <2>1, <2>2, <2>3 DEF Waiting
<1>4. streams' \in [Stream -> Waiting]
  <2>1. streams' = [i \in Stream |-> streams'[i]]
    BY DEF SendMpdu, AfterSend
  <2>. QED BY <1>3, <2>1
<1>5. \A i \in Stream : streams'[i].acks <= streams[i].acks
  BY <1>3 DEF MpduOK
<1>6. UdpInv'
  <2>1. ASSUME NEW i \in UDP PROVE streams'[i].acks = 0
    <3>1. i \in Stream
      BY TxSchedulerAssumption
    <3>2. m.streams[i] = streams[i] /\ streams[i].acks = 0
      BY <1>1, <3>1 DEF MpduOK, UdpInv
    <3>. QED BY <1>3, <3>1, <3>2
  <2>. QED BY <2>1 DEF UdpInv
<1>7. /\ more \in [Stream -> Nat] /\ Total(more) = Total(pass.taken) + Total(Data(m))
      /\ Total(Bytes(more)) = Total(Bytes(pass.taken)) + Total(Bytes(Data(m)))
      /\ {Total(pass.taken), Total(Data(m)), Total(Bytes(pass.taken)),
          Total(Bytes(Data(m)))} \subseteq Nat
  BY <1>1, TakenTotals
<1>8. /\ \A i \in Stream : more[i] = pass.taken[i] + DataOf(m, i)
      /\ counts \in [Stream -> Nat]
  BY <1>1, <1>7
<1>9. /\ pass' = [pass EXCEPT !.at = at, !.n = n, !.progress = progress,
                  !.remain = m.remain, !.refused = @ \/ ~sent,
                  !.data_sent = IF data THEN @ + 1 ELSE @, !.taken = counts]
      /\ tokens' = m.tokens /\ burst' = IF data THEN AfterBurst ELSE burst
  BY <1>1 DEF SendMpdu, Passes
<1> HIDE DEF more, counts, data
<1>10. data \in BOOLEAN
  BY DEF data
<1>11. /\ pass' \in Passes /\ pass'.at = at /\ pass'.n = n /\ pass'.progress = progress
       /\ pass'.refused = (pass.refused \/ ~sent) /\ pass'.remain = m.remain
       /\ pass'.start = pass.start /\ pass'.taken = counts
       /\ pass'.data_sent = (IF data THEN pass.data_sent + 1 ELSE pass.data_sent)
  <2>1. pass = [at |-> pass.at, n |-> pass.n, progress |-> pass.progress,
                data_sent |-> pass.data_sent, remain |-> pass.remain,
                passes |-> pass.passes, refused |-> pass.refused,
                start |-> pass.start, taken |-> pass.taken]
    BY <1>1 DEF Passes
  <2>2. pass' = [at |-> at, n |-> n, progress |-> progress,
                 data_sent |-> IF data THEN pass.data_sent + 1 ELSE pass.data_sent,
                 remain |-> m.remain, passes |-> pass.passes,
                 refused |-> pass.refused \/ ~sent,
                 start |-> pass.start, taken |-> counts]
    BY <1>9, <2>1
  <2>3. /\ pass.passes \in {1, 2} /\ (pass.refused \/ ~sent) \in BOOLEAN
        /\ pass.start \in Nat
        /\ (IF data THEN pass.data_sent + 1 ELSE pass.data_sent) \in Nat
    BY <1>1 DEF Passes
  <2>. QED BY <2>2, <2>3, <1>2, <1>8 DEF Passes
<1>12. data => ~acksOnly
  <2>1. ASSUME acksOnly PROVE ~CarriesData(m)
    BY <2>1 DEF MpduOK, CarriesData
  <2>. QED BY <2>1 DEF data
<1>13. sent /\ ~data => Total(Data(m)) = 0
  <2>1. ASSUME ~CarriesData(m), NEW i \in Stream PROVE Data(m)[i] = 0
    <3>1. [stream |-> i, ack |-> FALSE] \notin ToSet(m.pdus)
      BY <2>1 DEF CarriesData
    <3>. QED BY <3>1 DEF Data, DataOf
  <2>. QED BY <2>1, DataType, TotalOfNone DEF data
<1>14. burst' \in [sent : Nat, cooling : BOOLEAN] /\ burst'.sent < limits.burst
  <2>1. burst \in [sent : Nat, cooling : BOOLEAN] /\ burst.sent < limits.burst
        /\ limits.burst \in Nat /\ limits.burst > 0
    BY <1>1, LimitTypes DEF TypeInv, LimitInv
  <2>. QED BY <1>9, <2>1 DEF AfterBurst
<1>15. ASSUME NEW i \in Stream
       PROVE  Budgeted(limits.budget[i], m.remain[i], counts[i])
  <2>1. Budgeted(limits.budget[i], m.remain[i], pass.taken[i] + DataOf(m, i))
    BY DEF MpduOK
  <2>2. CASE sent
    <3>1. counts[i] = pass.taken[i] + DataOf(m, i)
      BY <1>8, <2>2 DEF counts
    <3>. QED BY <2>1, <3>1
  <2>3. CASE ~sent
    <3>1. limits.budget[i] \in Nat /\ m.remain[i] \in Nat /\ pass.taken[i] \in Nat
          /\ DataOf(m, i) \in {0, 1} /\ counts[i] = pass.taken[i]
      BY <1>1, <1>2, <2>3, LimitTypes DEF DataOf, counts
    <3>. QED BY <2>1, <3>1, TakeNone
  <2>. QED BY <2>2, <2>3
<1>16. Covered(pass.start, m.tokens, Total(Bytes(counts)))
  <2>1. Covered(pass.start, m.tokens, Total(Bytes(pass.taken)) + Total(Bytes(Data(m))))
    BY DEF MpduOK
  <2>2. CASE sent
    BY <2>1, <2>2, <1>7 DEF counts
  <2>3. CASE ~sent
    <3>1. counts = pass.taken
      BY <2>3 DEF counts
    <3>2. ASSUME NEW a \in Nat, NEW b \in Nat, NEW tok \in Nat, NEW start \in Nat,
                 Covered(start, tok, a + b)
          PROVE  Covered(start, tok, a)
      BY <3>2, Sizes DEF Covered
    <3>3. /\ Total(Bytes(pass.taken)) \in Nat /\ Total(Bytes(Data(m))) \in Nat
          /\ m.tokens \in Nat /\ pass.start \in Nat
      BY <1>1, <1>2, <1>7
    <3>4. Covered(pass.start, m.tokens, Total(Bytes(pass.taken)))
      BY <2>1, <3>2, <3>3
    <3>. QED BY <3>1, <3>4
  <2>. QED BY <2>2, <2>3
<1>17. /\ pass'.data_sent <= limits.data
       /\ Total(counts) <= pass'.data_sent * SLOTS_MAX
  <2>1. /\ pass.data_sent <= limits.data /\ limits.data \in Nat
        /\ Total(pass.taken) <= pass.data_sent * SLOTS_MAX
    BY <1>1, LimitTypes DEF LimitInv
  <2>2. /\ SLOTS_MAX \in Nat /\ pass.data_sent * SLOTS_MAX \in Nat
        /\ (pass.data_sent + 1) * SLOTS_MAX = pass.data_sent * SLOTS_MAX + SLOTS_MAX
    <3>1. SLOTS_MAX \in Nat
      BY BudgetSize
    <3>. QED BY <1>1, <3>1
  <2>3. Total(Data(m)) <= SLOTS_MAX
    BY <2>2, <1>2, <1>7 DEF MpduOK
  <2>4. CASE ~sent
    <3>1. ~data /\ counts = pass.taken
      BY <2>4 DEF data, counts
    <3>. QED BY <3>1, <2>1, <1>11
  <2>5. CASE sent
    <3>1. Total(counts) = Total(pass.taken) + Total(Data(m))
      BY <2>5, <1>7 DEF counts
    <3>2. CASE data
      <4>1. pass'.data_sent = pass.data_sent + 1 /\ pass.data_sent < limits.data
        BY <3>2, <1>11, <1>12
      <4>2. pass'.data_sent * SLOTS_MAX = pass.data_sent * SLOTS_MAX + SLOTS_MAX
        BY <4>1, <2>2
      <4>. QED BY <4>1, <4>2, <3>1, <2>1, <2>2, <2>3, <1>1, <1>7
    <3>3. CASE ~data
      BY <3>1, <3>3, <2>1, <2>5, <1>7, <1>11, <1>13
    <3>. QED BY <3>2, <3>3
  <2>. QED BY <2>4, <2>5
<1>18. LimitInv'
  BY <1>1, <1>9, <1>11, <1>14, <1>15, <1>16, <1>17 DEF LimitInv
<1>19. TypeInv'
  BY <1>1, <1>2, <1>4, <1>9, <1>11, <1>14 DEF TypeInv
<1>. QED BY <1>5, <1>6, <1>11, <1>18, <1>19

(* What leaves the queue of a UDP endpoint is in an MPDU that was sent. *)
LEMMA SendTakes ==
  ASSUME IInv, ~Idle, NEW acksOnly \in BOOLEAN, NEW sent \in BOOLEAN,
         NEW m, MpduOK(m, acksOnly),
         NEW at, NEW n, NEW progress,
         SendMpdu(m, sent, [pass EXCEPT !.at = at, !.n = n, !.progress = progress]),
         NEW i \in UDP, streams'[i].data < streams[i].data
  PROVE  pass'.taken[i] = pass.taken[i] + 1
<1>1. i \in Stream /\ pass \in Passes /\ streams[i] \in Waiting
  BY TxSchedulerAssumption DEF IInv, TypeInv, Idle, NoPass
<1>2. m.streams[i] = streams[i] /\ m.pdus \in Seq(Entry)
  BY <1>1 DEF MpduOK, Mpdus
<1>3. sent /\ Carries(m, i)
  <2>1. streams'[i] = IF sent /\ Carries(m, i)
                      THEN [m.streams[i] EXCEPT !.data = @ - 1] ELSE m.streams[i]
    BY <1>1 DEF SendMpdu, AfterSend
  <2>2. streams[i].data \in Nat
    BY <1>1 DEF Waiting
  <2>. QED BY <2>1, <2>2, <1>2
<1>4. DataOf(m, i) = 1
  <2>1. PICK p \in ToSet(m.pdus) : p.stream = i
    BY <1>3 DEF Carries
  <2>2. p \in Entry
    BY <1>2, <2>1 DEF ToSet
  <2>3. ~p.ack
    BY <2>1 DEF MpduOK
  <2>4. p = [stream |-> i, ack |-> FALSE]
    BY <2>1, <2>2, <2>3 DEF Entry
  <2>. QED BY <2>1, <2>4 DEF DataOf
<1>5. pass'.taken = [j \in Stream |-> pass.taken[j] + DataOf(m, j)]
  BY <1>1, <1>3 DEF SendMpdu, Passes
<1>. QED BY <1>1, <1>4, <1>5

-----------------------------------------------------------------------------
(***************************************************************************)
(* Turns.                                                                  *)
(***************************************************************************)

LEMMA FirstTurn ==
  ASSUME NEW turns, turns # {}, \A t \in turns : t.n \in Nat
  PROVE  First(turns) \in turns
<1> DEFINE Lt == {p \in Nat \X Nat : p[1] < p[2]}
           numbers == {t.n : t \in turns}
<1>1. IsWellFoundedOn(Lt, Nat)
  BY NatLessThanWellFounded DEF OpToRel
<1>2. numbers \subseteq Nat /\ numbers # {}
  OBVIOUS
<1>3. PICK x \in numbers : \A y \in numbers : ~(<<y, x>> \in Lt)
  BY <1>1, <1>2, WFMin
<1>4. \A y \in numbers : x <= y
  <2>1. ASSUME NEW y \in numbers, ~(x <= y) PROVE FALSE
    <3>1. y \in Nat /\ x \in Nat /\ y < x
      BY <1>2, <2>1
    <3>2. <<y, x>> \in Nat \X Nat /\ <<y, x>>[1] < <<y, x>>[2]
      BY <3>1
    <3>. QED BY <3>2, <1>3
  <2>. QED BY <2>1
<1>5. \E t \in turns : \A u \in turns : t.n <= u.n
  BY <1>3, <1>4
<1>. QED BY <1>5 DEF First

LEMMA TurnsType ==
  ASSUME NEW p, p.progress \in BOOLEAN, NEW acksOnly, NEW t \in Turns(p, acksOnly)
  PROVE  t.n \in Stream /\ t.progress \in BOOLEAN /\ Emits(t.n, acksOnly)
BY DEF Turns

(* No stream has an ACK when the loop over ACKs is over, unless the radio's *)
(* socket refused something.                                               *)
LEMMA NoAckLeft ==
  ASSUME IInv, ~Idle, ~pass.refused, AcksOver
  PROVE  \A i \in Stream : ~HasAck(streams[i])
<1>1. TypeInv /\ AckInv /\ pass \in Passes
  BY DEF IInv, TypeInv, Idle, NoPass
<1>2. CASE pass.at = "data"
  BY <1>1, <1>2 DEF AckInv
<1>3. ASSUME pass.at = "acks", Turns(pass, TRUE) = {},
             NEW i \in Stream, HasAck(streams[i])
      PROVE  FALSE
  <2>1. Emits(i, TRUE)
    BY <1>3, AckIsPacked
  <2>2. pass.progress \in BOOLEAN
    BY <1>1 DEF Passes
  <2>3. CASE pass.progress
    <3>1. [n |-> i, progress |-> FALSE] \in
             {t \in [n : Stream, progress : {FALSE}] : Emits(t.n, TRUE)}
      BY <2>1
    <3>. QED BY <3>1, <2>3, <1>3 DEF Turns
  <2>4. CASE ~pass.progress
    <3>1. pass.n = 0 /\ i >= pass.n
      BY <1>1, <1>3, <2>4, Streams DEF AckInv
    <3>2. [n |-> i, progress |-> pass.progress] \in
             {t \in [n : Stream, progress : {pass.progress}] :
                 t.n >= pass.n /\ Emits(t.n, TRUE)}
      BY <2>1, <3>1
    <3>. QED BY <3>2, <2>4, <1>3 DEF Turns
  <2>. QED BY <2>2, <2>3, <2>4
<1>. QED BY <1>2, <1>3 DEF AcksOver

(* An emit_mpdu() of either loop. *)
LEMMA EmitKeeps ==
  ASSUME IInv, ~Idle, NEW acksOnly \in BOOLEAN, NEW sent \in BOOLEAN,
         NEW p, p.at \in {"acks", "data"}, p.progress \in BOOLEAN,
         Emit(p, acksOnly, sent)
  PROVE  /\ TypeInv' /\ UdpInv' /\ LimitInv'
         /\ pass'.at = p.at
         /\ pass'.refused = (pass.refused \/ ~sent)
         /\ sent => pass'.progress
         /\ \A i \in Stream : streams'[i].acks <= streams[i].acks
         /\ \A i \in UDP : streams'[i].data < streams[i].data
                               => pass'.taken[i] = pass.taken[i] + 1
<1> DEFINE turn == First(Turns(p, acksOnly))
           i == Asked(turn.n, acksOnly)
           m == Pack(i, acksOnly)
<1>1. turn \in Turns(p, acksOnly)
  <2>1. \A t \in Turns(p, acksOnly) : t.n \in Nat
    BY TurnsType, Streams
  <2>. QED BY <2>1, FirstTurn DEF Emit
<1>2. turn.n \in Stream /\ turn.n + 1 \in Nat /\ turn.progress \in BOOLEAN
      /\ (turn.progress \/ sent) \in BOOLEAN /\ Emits(turn.n, acksOnly)
  BY <1>1, TurnsType, Streams
<1>3. /\ SendMpdu(m, sent, [pass EXCEPT !.at = p.at, !.n = turn.n + 1,
                                        !.progress = turn.progress \/ sent])
      /\ next' = IF sent /\ ~acksOnly THEN (i + 1) % STREAMS ELSE next
  BY DEF Emit
<1>4. next \in Stream
  BY DEF IInv, TypeInv
<1>5. i \in Stream
  BY <1>2, <1>4, Streams DEF Asked
<1>6. next' \in Stream
  BY <1>3, <1>4, <1>5, Streams
<1>7. ~acksOnly => burst.sent < limits.burst /\ pass.data_sent < limits.data
  BY <1>2 DEF Emits, MayEmit
<1>8. MpduOK(m, acksOnly)
  BY <1>5, PackKeeps
<1> HIDE DEF turn, i, m
<1>9. /\ TypeInv' /\ UdpInv' /\ LimitInv'
      /\ pass'.at = p.at /\ (sent => pass'.progress)
      /\ pass'.refused = (pass.refused \/ ~sent)
      /\ \A j \in Stream : streams'[j].acks <= streams[j].acks
  <2>1. PICK progress \in BOOLEAN : progress = (turn.progress \/ sent)
    BY <1>2
  <2>2. PICK n \in Nat : n = turn.n + 1
    BY <1>2
  <2>3. SendMpdu(m, sent, [pass EXCEPT !.at = p.at, !.n = n, !.progress = progress])
    BY <2>1, <2>2, <1>3
  <2>4. /\ TypeInv' /\ UdpInv' /\ LimitInv'
        /\ pass'.at = p.at /\ pass'.n = n /\ pass'.progress = progress
        /\ pass'.refused = (pass.refused \/ ~sent)
        /\ \A j \in Stream : streams'[j].acks <= streams[j].acks
    BY ONLY <2>3, <1>6, <1>7, <1>8, SendKeeps, IInv, ~Idle, acksOnly \in BOOLEAN,
            sent \in BOOLEAN, p.at \in {"acks", "data"}, n \in Nat, progress \in BOOLEAN
  <2>. QED BY <2>1, <2>4
<1>10. ASSUME NEW j \in UDP, streams'[j].data < streams[j].data
       PROVE  pass'.taken[j] = pass.taken[j] + 1
  <2>1. PICK n, progress :
          SendMpdu(m, sent, [pass EXCEPT !.at = p.at, !.n = n, !.progress = progress])
    BY <1>3
  <2>. QED BY ONLY <2>1, <1>8, <1>10, IInv, ~Idle, acksOnly \in BOOLEAN, sent \in BOOLEAN,
                   SendTakes
<1>. QED BY <1>9, <1>10

-----------------------------------------------------------------------------
(***************************************************************************)
(* The invariant, action by action.                                        *)
(***************************************************************************)

LEMMA NothingTaken ==
  LET none == [i \in Stream |-> 0]
  IN  none \in [Stream -> Nat] /\ Total(none) = 0 /\ Total(Bytes(none)) = 0
<1> DEFINE none == [i \in Stream |-> 0]
<1>1. none \in [Stream -> Nat] /\ \A i \in Stream : none[i] = 0
  OBVIOUS
<1> HIDE DEF none
<1>2. Bytes(none) \in [Stream -> Nat] /\ \A i \in Stream : Bytes(none)[i] = 0
  <2>1. 0 * Framed = 0
    BY Sizes
  <2>2. \A i \in Stream : Bytes(none)[i] = none[i] * Framed
    BY DEF Bytes
  <2>. QED BY <2>1, <2>2, <1>1, BytesType
<1>3. Total(none) = 0 /\ Total(Bytes(none)) = 0
  BY <1>1, <1>2, TotalOfNone
<1>. QED BY <1>1, <1>3 DEF none

LEMMA InitInv == Init => IInv
<1> SUFFICES ASSUME Init PROVE IInv
  OBVIOUS
<1>1. TypeInv
  <2>1. BURST \in Nat /\ 0 \in Stream
    BY Sizes, Streams DEF BURST
  <2>. QED BY <2>1 DEF Init, TypeInv, Waiting
<1>2. Idle /\ burst.sent = 0
  BY DEF Init, Idle, NoPass
<1>3. LimitInv
  BY <1>1, <1>2, LimitTypes DEF LimitInv
<1>4. UdpInv /\ AckInv
  BY <1>2, TxSchedulerAssumption DEF Init, UdpInv, AckInv, Idle
<1>. QED BY <1>1, <1>3, <1>4 DEF IInv

LEMMA BeginKeeps ==
  ASSUME IInv, NEW passes \in {1, 2}, NEW due \in SUBSET Stream, BeginPass(passes, due)
  PROVE  /\ IInv'
         /\ \A i \in Stream : ~(streams'[i].data < streams[i].data)
<1>1. /\ TypeInv /\ UdpInv /\ LimitInv /\ streams \in [Stream -> Waiting] /\ tokens \in Nat
      /\ limits' = limits /\ burst' = burst /\ next' = next
  BY DEF IInv, TypeInv, BeginPass
<1>2. ASSUME NEW i \in Stream
      PROVE  /\ streams'[i] \in Waiting /\ streams'[i].acks = streams[i].acks
             /\ ~(streams'[i].data < streams[i].data)
  <2>1. streams[i] \in Waiting
    BY <1>1
  <2>2. streams'[i] = [streams[i] EXCEPT !.data = IF i \in due THEN @ + 1 ELSE @]
    BY DEF BeginPass
  <2>. QED BY <2>1, <2>2 DEF Waiting
<1>3. streams' \in [Stream -> Waiting]
  <2>1. streams' = [i \in Stream |-> streams'[i]]
    BY DEF BeginPass
  <2>. QED BY <2>1, <1>2
<1>4. tokens' \in Nat
  <2>1. PICK r \in REFILLS : tokens' = Refilled(r)
    BY DEF BeginPass
  <2>2. r \in Nat /\ BURST \in Nat
    BY TxSchedulerAssumption, Sizes DEF BURST
  <2>. QED BY <1>1, <2>1, <2>2 DEF Refilled, AtMost
<1> DEFINE none == [i \in Stream |-> 0]
<1>5. pass' = [at |-> "acks", n |-> 0, progress |-> FALSE, data_sent |-> 0,
               remain |-> limits.budget, passes |-> passes, refused |-> FALSE,
               start |-> tokens', taken |-> none]
  BY DEF BeginPass
<1>6. none \in [Stream -> Nat] /\ Total(none) = 0 /\ Total(Bytes(none)) = 0
  BY NothingTaken
<1>7. \A i \in Stream : none[i] = 0
  OBVIOUS
<1> HIDE DEF none
<1>8. limits.budget \in [Stream -> Nat] /\ limits.data \in Nat
      /\ \A i \in Stream : limits.budget[i] > 0
  BY <1>1, LimitTypes
<1>9. pass' \in Passes
  BY <1>4, <1>5, <1>6, <1>8 DEF Passes
<1>10. TypeInv'
  BY <1>1, <1>3, <1>4, <1>9 DEF TypeInv
<1>11. UdpInv'
  <2>1. ASSUME NEW i \in UDP PROVE streams'[i].acks = 0
    BY <1>1, <1>2, TxSchedulerAssumption DEF UdpInv
  <2>. QED BY <2>1 DEF UdpInv
<1>12. LimitInv'
  <2>1. ASSUME NEW i \in Stream
        PROVE  Budgeted(limits.budget[i], pass'.remain[i], pass'.taken[i])
    <3>1. pass'.remain[i] = limits.budget[i] /\ pass'.taken[i] = 0
      BY <1>5, <1>7
    <3>2. 0 * Framed = 0
      BY Sizes
    <3>3. limits.budget[i] \in Nat
      BY <1>8
    <3>. QED BY <3>1, <3>2, <3>3 DEF Budgeted
  <2>2. Covered(pass'.start, tokens', Total(Bytes(pass'.taken)))
    <3>1. pass'.start = tokens' /\ Total(Bytes(pass'.taken)) = 0
      BY <1>5, <1>6
    <3>2. ASSUME NEW t \in Nat PROVE Covered(t, t, 0)
      BY <3>2 DEF Covered
    <3>. QED BY <3>1, <3>2, <1>4
  <2>3. pass'.data_sent <= limits.data /\ Total(pass'.taken) <= pass'.data_sent * SLOTS_MAX
    <3>1. 0 * SLOTS_MAX = 0
      BY BudgetSize
    <3>. QED BY <3>1, <1>5, <1>6, <1>8
  <2>. QED BY <1>1, <2>1, <2>2, <2>3 DEF LimitInv
<1>13. AckInv'
  BY <1>5 DEF AckInv
<1>. QED BY <1>2, <1>10, <1>11, <1>12, <1>13 DEF IInv

LEMMA AckSent ==
  ASSUME IInv, NEW sent \in BOOLEAN, EmitAcks(sent)
  PROVE  /\ TypeInv' /\ UdpInv' /\ LimitInv' /\ pass'.at = "acks"
         /\ pass'.refused = (pass.refused \/ ~sent) /\ (sent => pass'.progress)
         /\ \A i \in UDP : streams'[i].data < streams[i].data
                               => pass'.taken[i] = pass.taken[i] + 1
<1>1. /\ ~Idle /\ pass.at \in {"acks", "data"} /\ pass.at = "acks"
      /\ Emit(pass, TRUE, sent)
  BY DEF EmitAcks, Idle
<1>2. pass.progress \in BOOLEAN
  BY <1>1 DEF IInv, TypeInv, Passes, Idle, NoPass
<1>3. PICK acksOnly \in BOOLEAN : acksOnly = TRUE
  OBVIOUS
<1>4. Emit(pass, acksOnly, sent)
  BY <1>1, <1>3
<1>. QED BY <1>1, <1>2, <1>4, EmitKeeps

LEMMA DataSent ==
  ASSUME IInv, NEW sent \in BOOLEAN, EmitData(sent)
  PROVE  /\ TypeInv' /\ UdpInv' /\ LimitInv' /\ pass'.at = "data"
         /\ pass'.refused = (pass.refused \/ ~sent)
         /\ \A i \in Stream : streams'[i].acks <= streams[i].acks
         /\ \A i \in UDP : streams'[i].data < streams[i].data
                               => pass'.taken[i] = pass.taken[i] + 1
<1>1. ~Idle /\ Emit(DataLoop, FALSE, sent)
  BY DEF EmitData, AcksOver, Idle
<1>2. pass \in Passes
  BY <1>1 DEF IInv, TypeInv, Idle, NoPass
<1>3. /\ DataLoop.at = "data" /\ DataLoop.at \in {"acks", "data"}
      /\ DataLoop.progress \in BOOLEAN
  BY <1>2 DEF DataLoop, Passes
<1>4. PICK acksOnly \in BOOLEAN : acksOnly = FALSE
  OBVIOUS
<1>5. Emit(DataLoop, acksOnly, sent)
  BY <1>1, <1>4
<1>. QED BY <1>1, <1>3, <1>5, EmitKeeps

(* A step keeps the invariant; a UDP queue gets shorter only by a PDU that *)
(* the pass counts as sent.                                                *)
LEMMA StepInv ==
  ASSUME IInv, [Next]_vars
  PROVE  /\ IInv'
         /\ \A i \in UDP : streams'[i].data < streams[i].data
                               => pass'.taken[i] = pass.taken[i] + 1
<1>1. /\ TypeInv /\ UdpInv /\ LimitInv /\ AckInv /\ streams \in [Stream -> Waiting]
      /\ UDP \subseteq Stream
  BY TxSchedulerAssumption DEF IInv, TypeInv
<1>2. \A i \in Stream : streams[i].data \in Nat /\ streams[i].acks \in Nat
  BY <1>1 DEF Waiting
<1> DEFINE Kept == \A i \in Stream : ~(streams'[i].data < streams[i].data)
           Counted == \A i \in UDP : streams'[i].data < streams[i].data
                                        => pass'.taken[i] = pass.taken[i] + 1
<1>3. Kept => Counted
  BY <1>1
<1>4. UNCHANGED streams => Kept
  BY <1>2
<1> HIDE DEF Kept
<1>5. ASSUME UNCHANGED vars PROVE IInv' /\ Counted
  <2>1. IInv'
    BY <1>5 DEF vars, IInv, TypeInv, UdpInv, LimitInv, AckInv, Idle
  <2>. QED BY <2>1, <1>5, <1>3, <1>4 DEF vars
<1>6. ASSUME NEW i \in Stream, Arrive(i) PROVE IInv' /\ Counted
  <2>1. /\ streams' = [streams EXCEPT ![i].data = @ + 1] /\ Idle /\ Idle'
        /\ tokens' = tokens /\ burst' = burst /\ next' = next
        /\ pass' = pass /\ limits' = limits
    BY <1>6 DEF Arrive, Idle
  <2>2. ASSUME NEW j \in Stream
        PROVE  /\ streams'[j] \in Waiting /\ streams'[j].acks = streams[j].acks
               /\ ~(streams'[j].data < streams[j].data)
    <3>1. streams'[j] = IF j = i THEN [streams[j] EXCEPT !.data = @ + 1] ELSE streams[j]
      BY <2>1, <1>1
    <3>2. streams[j] \in Waiting
      BY <1>1
    <3>. QED BY <3>1, <3>2 DEF Waiting
  <2>3. TypeInv'
    BY <2>1, <2>2, <1>1 DEF TypeInv
  <2>4. UdpInv' /\ LimitInv' /\ AckInv'
    BY <2>1, <2>2, <1>1 DEF UdpInv, LimitInv, AckInv, Idle
  <2>. QED BY <2>2, <2>3, <2>4, <1>3 DEF IInv, Kept
<1>7. ASSUME NEW i \in Stream, ArriveAck(i) PROVE IInv' /\ Counted
  <2>1. /\ streams' = [streams EXCEPT ![i].acks = @ + 1] /\ Idle /\ Idle' /\ i \notin UDP
        /\ tokens' = tokens /\ burst' = burst /\ next' = next
        /\ pass' = pass /\ limits' = limits
    BY <1>7 DEF ArriveAck, Idle
  <2>2. ASSUME NEW j \in Stream
        PROVE  /\ streams'[j] \in Waiting
               /\ j # i => streams'[j].acks = streams[j].acks
               /\ ~(streams'[j].data < streams[j].data)
    <3>1. streams'[j] = IF j = i THEN [streams[j] EXCEPT !.acks = @ + 1] ELSE streams[j]
      BY <2>1, <1>1
    <3>2. streams[j] \in Waiting
      BY <1>1
    <3>. QED BY <3>1, <3>2 DEF Waiting
  <2>3. TypeInv'
    BY <2>1, <2>2, <1>1 DEF TypeInv
  <2>4. UdpInv' /\ LimitInv' /\ AckInv'
    BY <2>1, <2>2, <1>1 DEF UdpInv, LimitInv, AckInv, Idle
  <2>. QED BY <2>2, <2>3, <2>4, <1>3 DEF IInv, Kept
<1>8. ASSUME NEW passes \in {1, 2}, NEW due \in SUBSET Stream, BeginPass(passes, due)
      PROVE  IInv' /\ Counted
  BY <1>8, <1>3, BeginKeeps DEF Kept
<1>9. CASE Tick
  BY <1>8, <1>9 DEF Tick
<1>10. CASE Again
  BY <1>8, <1>10 DEF Again
<1>11. CASE EndTick
  <2>1. /\ pass' = NoPass /\ Idle'
        /\ UNCHANGED <<streams, tokens, burst, next, limits>>
    BY <1>11 DEF EndTick, Idle, NoPass
  <2>2. TypeInv' /\ UdpInv' /\ LimitInv' /\ AckInv'
    BY <2>1, <1>1 DEF TypeInv, UdpInv, LimitInv, AckInv, Idle
  <2>. QED BY <2>1, <2>2, <1>3, <1>4 DEF IInv
<1>12. CASE CoolDown
  <2>1. /\ burst' = [burst EXCEPT !.cooling = FALSE]
        /\ UNCHANGED <<streams, tokens, next, pass, limits>>
    BY <1>12 DEF CoolDown
  <2>2. burst' \in [sent : Nat, cooling : BOOLEAN] /\ burst'.sent = burst.sent
    BY <2>1, <1>1 DEF TypeInv
  <2>3. TypeInv' /\ UdpInv' /\ LimitInv' /\ AckInv'
    BY <2>1, <2>2, <1>1 DEF TypeInv, UdpInv, LimitInv, AckInv, Idle
  <2>. QED BY <2>1, <2>3, <1>3, <1>4 DEF IInv
<1>13. ASSUME NEW i \in Stream, SetBudget(i) PROVE IInv' /\ Counted
  <2>1. PICK b \in BUDGETS : limits' = [limits EXCEPT !.budget[i] = b]
    BY <1>13 DEF SetBudget
  <2>2. Idle /\ Idle' /\ UNCHANGED <<streams, tokens, burst, next, pass>>
    BY <1>13 DEF SetBudget, Idle
  <2>3. limits' \in Limits /\ limits'.burst = limits.burst
    BY <2>1, <1>1 DEF TypeInv, Limits
  <2>4. TypeInv' /\ UdpInv' /\ LimitInv' /\ AckInv'
    BY <2>2, <2>3, <1>1 DEF TypeInv, UdpInv, LimitInv, AckInv, Idle
  <2>. QED BY <2>2, <2>4, <1>3, <1>4 DEF IInv
<1>14. CASE SetMaxDataPerTick
  <2>1. PICK d \in MAX_DATA : limits' = [limits EXCEPT !.data = d]
    BY <1>14 DEF SetMaxDataPerTick
  <2>2. Idle /\ Idle' /\ UNCHANGED <<streams, tokens, burst, next, pass>>
    BY <1>14 DEF SetMaxDataPerTick, Idle
  <2>3. limits' \in Limits /\ limits'.burst = limits.burst
    BY <2>1, <1>1 DEF TypeInv, Limits
  <2>4. TypeInv' /\ UdpInv' /\ LimitInv' /\ AckInv'
    BY <2>2, <2>3, <1>1 DEF TypeInv, UdpInv, LimitInv, AckInv, Idle
  <2>. QED BY <2>2, <2>4, <1>3, <1>4 DEF IInv
<1>15. CASE SetTxBurstPacing
  <2>1. PICK size \in BURST_SIZES : limits' = [limits EXCEPT !.burst = size]
    BY <1>15 DEF SetTxBurstPacing
  <2>2. /\ Idle /\ Idle' /\ UNCHANGED <<streams, tokens, next, pass>>
        /\ burst' = [sent |-> 0, cooling |-> FALSE]
    BY <1>15 DEF SetTxBurstPacing, Idle
  <2>3. limits' \in Limits
    BY <2>1, <1>1 DEF TypeInv, Limits
  <2>4. limits'.burst \in Nat /\ limits'.burst > 0
    <3>1. limits'.burst \in 1..20
      BY <2>3, TxSchedulerAssumption DEF Limits
    <3>. QED BY <3>1
  <2>5. TypeInv' /\ UdpInv' /\ LimitInv' /\ AckInv'
    BY <2>2, <2>3, <2>4, <1>1 DEF TypeInv, UdpInv, LimitInv, AckInv, Idle
  <2>. QED BY <2>2, <2>5, <1>3, <1>4 DEF IInv
<1>16. ASSUME NEW sent \in BOOLEAN, EmitAcks(sent) PROVE IInv' /\ Counted
  <2>1. /\ TypeInv' /\ UdpInv' /\ LimitInv' /\ pass'.at = "acks"
        /\ pass'.refused = (pass.refused \/ ~sent) /\ (sent => pass'.progress)
        /\ Counted
    BY <1>16, AckSent
  <2>2. AckInv'
    BY <2>1 DEF AckInv
  <2>. QED BY <2>1, <2>2 DEF IInv
<1>17. ASSUME NEW sent \in BOOLEAN, EmitData(sent) PROVE IInv' /\ Counted
  <2>1. /\ TypeInv' /\ UdpInv' /\ LimitInv' /\ pass'.at = "data"
        /\ pass'.refused = (pass.refused \/ ~sent)
        /\ \A i \in Stream : streams'[i].acks <= streams[i].acks
        /\ Counted
    BY <1>17, DataSent
  <2>2. ~Idle /\ AcksOver
    BY <1>17 DEF EmitData, AcksOver, Idle
  <2>3. ASSUME ~pass'.refused, NEW i \in Stream PROVE ~HasAck(streams'[i])
    <3>1. ~HasAck(streams[i])
      BY <2>1, <2>2, <2>3, NoAckLeft
    <3>2. streams'[i].acks \in Nat /\ streams'[i].acks <= streams[i].acks
      BY <2>1 DEF TypeInv, Waiting
    <3>. QED BY <3>1, <3>2, <1>2 DEF HasAck
  <2>4. AckInv'
    BY <2>1, <2>3 DEF AckInv
  <2>. QED BY <2>1, <2>4 DEF IInv
<1>18. CASE Next
  BY <1>6, <1>7, <1>9, <1>10, <1>11, <1>12, <1>13, <1>14, <1>15, <1>16, <1>17, <1>18
  DEF Next
<1>. QED BY <1>5, <1>18

LEMMA Invariant == Spec => []IInv
<1>1. IInv /\ [Next]_vars => IInv'
  BY StepInv
<1>. QED BY <1>1, InitInv, PTL DEF Spec

(* tx_scheduler keeps to its limits: whatever the console sets and the     *)
(* radio's socket refuses, a pass sends of a stream no more than its budget *)
(* and one number's length or a single PDU, of all streams no more than    *)
(* the tokens and one number's length, and no burst is longer than         *)
(* tx_burst_size_ without the gap.                                         *)
THEOREM LimitsKept == Spec => []WithinLimits
<1>1. IInv => WithinLimits
  <2> SUFFICES ASSUME IInv PROVE WithinLimits
    OBVIOUS
  <2>1. TypeInv /\ LimitInv
    BY DEF IInv
  <2>2. burst.sent < limits.burst
    BY <2>1 DEF LimitInv
  <2>3. SUFFICES ASSUME ~Idle
                 PROVE  /\ \A i \in Stream : \/ pass.taken[i] <= 1
                                             \/ Bytes(pass.taken)[i] <= limits.budget[i] + SEQ_LEN
                        /\ Total(Bytes(pass.taken)) <= pass.start + SEQ_LEN
                        /\ Total(pass.taken) <= limits.data * SLOTS_MAX
    BY <2>2 DEF WithinLimits, Bytes, Framed
  <2>4. pass \in Passes /\ pass.taken \in [Stream -> Nat] /\ pass.start \in Nat
        /\ pass.data_sent \in Nat /\ tokens \in Nat
    BY <2>1, <2>3 DEF TypeInv, Idle, NoPass, Passes
  <2>5. SEQ_LEN \in Nat /\ Framed \in Nat /\ SLOTS_MAX \in Nat
    BY Sizes, BudgetSize
  <2>6. ASSUME NEW i \in Stream
        PROVE  \/ pass.taken[i] <= 1
               \/ Bytes(pass.taken)[i] <= limits.budget[i] + SEQ_LEN
    <3>1. Budgeted(limits.budget[i], pass.remain[i], pass.taken[i])
      BY <2>1, <2>3 DEF LimitInv
    <3>2. PICK x \in Nat : x = pass.taken[i] * Framed
      BY <2>4, OneMore
    <3>3. pass.remain[i] \in Nat /\ limits.budget[i] \in Nat
      BY <2>1, <2>4, LimitTypes DEF TypeInv, Passes
    <3>4. \/ pass.remain[i] + x <= limits.budget[i]
          \/ pass.taken[i] <= 1 \/ x <= limits.budget[i] + SEQ_LEN
      BY <3>1, <3>2 DEF Budgeted
    <3>5. Bytes(pass.taken)[i] = x
      BY <3>2 DEF Bytes
    <3>. QED BY <3>3, <3>4, <3>5, <2>5
  <2>7. Total(Bytes(pass.taken)) <= pass.start + SEQ_LEN
    <3>1. Covered(pass.start, tokens, Total(Bytes(pass.taken)))
      BY <2>1, <2>3 DEF LimitInv
    <3>2. Total(Bytes(pass.taken)) \in Nat
      BY <2>4, BytesType, TotalType
    <3>. QED BY <3>1, <3>2, <2>4, <2>5 DEF Covered
  <2>8. Total(pass.taken) <= limits.data * SLOTS_MAX
    <3>1. /\ pass.data_sent <= limits.data
          /\ Total(pass.taken) <= pass.data_sent * SLOTS_MAX
      BY <2>1, <2>3 DEF LimitInv
    <3>2. limits.data \in Nat
      BY <2>1, LimitTypes DEF TypeInv
    <3>3. pass.data_sent * SLOTS_MAX <= limits.data * SLOTS_MAX
      BY <3>1, <3>2, <2>4, <2>5
    <3>4. Total(pass.taken) \in Nat
      BY <2>4, TotalType
    <3>5. pass.data_sent * SLOTS_MAX \in Nat /\ limits.data * SLOTS_MAX \in Nat
      BY <3>2, <2>4, <2>5
    <3>. QED BY <3>1, <3>3, <3>4, <3>5
  <2>. QED BY <2>6, <2>7, <2>8
<1>. QED BY <1>1, Invariant, PTL

(* tick() does not end a pass while an ACK waits, unless the radio's socket *)
(* refused something: the loop over ACKs knows no limit but room, and an   *)
(* empty MPDU has room for any ACK.                                        *)
THEOREM AcksAreSent == Spec => AcksDontWait
<1>1. ASSUME IInv, [Next]_vars, pass.at # "idle", pass'.at = "idle"
      PROVE  pass.refused \/ \A i \in Stream : ~HasAck(streams[i])
  <2>1. CASE EndTick
    BY <1>1, <2>1, NoAckLeft DEF EndTick, PassOver, Idle
  <2>2. CASE \E sent \in BOOLEAN : EmitAcks(sent) \/ EmitData(sent)
    <3>1. pass'.at \in {"acks", "data"}
      BY <1>1, <2>2, AckSent, DataSent
    <3>. QED BY <1>1, <3>1
  <2>3. ASSUME NEW passes, NEW due, BeginPass(passes, due) PROVE FALSE
    BY <1>1, <2>3 DEF BeginPass
  <2>4. CASE Tick \/ Again
    BY <2>3, <2>4 DEF Tick, Again
  <2>5. CASE UNCHANGED pass
    BY <1>1, <2>5
  <2>6. CASE CoolDown \/ SetMaxDataPerTick \/ SetTxBurstPacing
    BY <2>5, <2>6 DEF CoolDown, SetMaxDataPerTick, SetTxBurstPacing
  <2>7. CASE \E i \in Stream : Arrive(i) \/ ArriveAck(i) \/ SetBudget(i)
    BY <2>5, <2>7 DEF Arrive, ArriveAck, SetBudget
  <2>. QED BY <1>1, <2>1, <2>2, <2>4, <2>5, <2>6, <2>7 DEF Next, vars
<1>2. IInv /\ [Next]_vars
        => [pass.at # "idle" /\ pass'.at = "idle"
              => pass.refused \/ \A i \in Stream : ~HasAck(streams[i])]_vars
  BY <1>1
<1>. QED BY <1>2, Invariant, PTL DEF Spec, AcksDontWait

(* What peek_tx() copied leaves its UDP queue by commit_tx() only, after   *)
(* the radio's socket took the MPDU that carries it.                       *)
THEOREM NothingLost == Spec => NothingVanishes
<1>1. IInv /\ [Next]_vars
        => [\A i \in UDP : streams'[i].data < streams[i].data
                              => pass'.taken[i] = pass.taken[i] + 1]_vars
  BY StepInv
<1>. QED BY <1>1, Invariant, PTL DEF Spec, NothingVanishes
=============================================================================

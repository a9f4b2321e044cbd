---------------------------- MODULE UdpLinkProof ----------------------------
(***************************************************************************)
(* Proofs about UdpLink, for every size of the number space, of the queue  *)
(* and of the FEC blocks, and any number of datagrams, losses, repeated    *)
(* PDUs, refused sends and changes of the FEC mode: the count of lost PDUs *)
(* is exact; nothing leaves the queue but into the air or because the      *)
(* queue is full; and, as long as no block gets a number still in use,     *)
(* datagrams are delivered as they were sent, and any k shards of a block  *)
(* restore it.                                                             *)
(***************************************************************************)
EXTENDS UdpLink, WellFoundedInduction, FiniteSetTheorems, TLAPS

-----------------------------------------------------------------------------
(***************************************************************************)
(* The numbers.  history has them before they were cut to the number       *)
(* space: what is on the way is stamped, and not older than the last PDU   *)
(* that was received.                                                      *)
(***************************************************************************)
HistoryFields == {"sent", "fails", "inits", "apps", "twice", "stamped", "first",
                  "last", "count", "shards", "delivered"}

NumbersType ==
    /\ DOMAIN history = HistoryFields /\ history = [f \in HistoryFields |-> history[f]]
    /\ {history.stamped, history.first, history.last, history.count} \subseteq Nat
    /\ seq \in AirSeqs
    /\ peer = [seq |-> peer.seq, fec |-> peer.fec, dest |-> peer.dest]
    /\ peer.seq \in AirSeqs

OnTheWay ==
    \/ air = <<>>
    \/ /\ air = <<air[1]>>
       /\ air[1].num \in Nat /\ air[1].num < history.stamped
       /\ air[1].seq = air[1].num % SEQ_MOD
       /\ history.count > 0 => history.last <= air[1].num

NumbersOK ==
    /\ NumbersType
    /\ seq.tx = history.stamped % SEQ_MOD
    /\ peer.seq.have_rx <=> history.count > 0
    /\ history.count > 0 =>
          peer.seq.rx = history.last % SEQ_MOD /\ history.last < history.stamped
    /\ OnTheWay
    /\ LostIsLost

LEMMA DivMod ==
  ASSUME NEW m \in Nat \ {0}, NEW a \in Int
  PROVE  \E q \in Int, r \in 0..m - 1 : a = m * q + r /\ a % m = r
<1>1. a = m * (a \div m) + (a % m) /\ (a \div m) \in Int /\ (a % m) \in 0..m - 1
  OBVIOUS
<1>. QED BY <1>1

LEMMA ModUnique ==
  ASSUME NEW m \in Nat \ {0}, NEW q \in Int, NEW r \in 0..m - 1, NEW a \in Int, a = m * q + r
  PROVE  a % m = r
OBVIOUS

(* The number after the one with remainder a % m. *)
LEMMA NextMod ==
  ASSUME NEW m \in Nat \ {0}, NEW a \in Int
  PROVE  ((a % m) + 1) % m = (a + 1) % m
<1>1. PICK q \in Int, r \in 0..m - 1 : a = m * q + r /\ a % m = r
  BY DivMod
<1>2. PICK c \in Int, d \in Int : c = a + 1 /\ d = r + 1
  BY <1>1
<1>3. PICK p \in Int, s \in 0..m - 1 : c = m * p + s /\ c % m = s
  BY DivMod
<1>4. p - q \in Int /\ d = m * (p - q) + s
  BY <1>1, <1>2, <1>3
<1>5. d % m = s
  BY <1>4, ModUnique
<1>. QED BY <1>1, <1>2, <1>3, <1>5

LEMMA ModNat == ASSUME NEW n \in Int PROVE n % SEQ_MOD \in 0..(SEQ_MOD - 1)
BY AirSeqAssumption

LEMMA HalfSpace == SEQ_MOD \div 2 \in Nat /\ SEQ_MOD \div 2 < SEQ_MOD
BY AirSeqAssumption

(* A number that follows the last one at most half the space behind is that *)
(* many ahead, less one.                                                    *)
LEMMA AheadOfLast ==
  ASSUME NEW q \in AirSeqs, NEW last \in Nat, NEW num \in Nat,
         q.rx = last % SEQ_MOD, last < num, num - last <= SEQ_MOD \div 2
  PROVE  Ahead(q, num % SEQ_MOD) = num - last - 1
<1>1. SEQ_MOD \in Nat \ {0} /\ num \in Int /\ last \in Int
  BY AirSeqAssumption
<1>2. PICK p \in Int, n \in 0..SEQ_MOD - 1 : num = SEQ_MOD * p + n /\ num % SEQ_MOD = n
  BY <1>1, DivMod
<1>3. PICK k \in Int, l \in 0..SEQ_MOD - 1 : last = SEQ_MOD * k + l /\ last % SEQ_MOD = l
  BY <1>1, DivMod
<1>4. PICK d \in 0..SEQ_MOD - 1 : d = num - last - 1
  BY <1>1, HalfSpace
<1>5. k - p \in Int /\ n - (l + 1) \in Int /\ n - (l + 1) = SEQ_MOD * (k - p) + d
  BY <1>1, <1>2, <1>3, <1>4
<1>6. (n - (l + 1)) % SEQ_MOD = d
  BY <1>1, <1>5, ModUnique
<1>. QED BY <1>2, <1>3, <1>4, <1>6 DEF Ahead

(* NoteRx counts the numbers between the last one received and this one. *)
LEMMA NotedNumber ==
  ASSUME NEW q \in AirSeqs, NEW last \in Nat, NEW num \in Nat,
         q.have_rx, q.rx = last % SEQ_MOD, last <= num,
         num - last <= SEQ_MOD \div 2, num % SEQ_MOD # q.rx
  PROVE  /\ NoteRx(q, num % SEQ_MOD) \in AirSeqs
         /\ NoteRx(q, num % SEQ_MOD).have_rx
         /\ NoteRx(q, num % SEQ_MOD).rx = num % SEQ_MOD
         /\ NoteRx(q, num % SEQ_MOD).lost = q.lost + (num - last - 1)
<1>1. last < num
  BY DEF AirSeqs
<1>2. Ahead(q, num % SEQ_MOD) = num - last - 1
  BY <1>1, AheadOfLast
<1>3. Ahead(q, num % SEQ_MOD) < SEQ_MOD \div 2 /\ Ahead(q, num % SEQ_MOD) \in Nat
  BY <1>1, <1>2, HalfSpace
<1>4. num % SEQ_MOD \in 0..(SEQ_MOD - 1)
  BY ModNat
<1>. DEFINE n == num % SEQ_MOD
            a == Ahead(q, num % SEQ_MOD)
<1>5. NoteRx(q, n) = [q EXCEPT !.rx = n, !.lost = @ + a]
  BY <1>3 DEF NoteRx
<1>6. a = num - last - 1 /\ a \in Nat /\ n \in 0..(SEQ_MOD - 1)
  BY <1>2, <1>3, <1>4
<1>. HIDE DEF n, a
<1>7. q.lost + a \in Nat
  BY <1>6 DEF AirSeqs
<1>8. /\ NoteRx(q, n) \in AirSeqs /\ NoteRx(q, n).have_rx
      /\ NoteRx(q, n).rx = n /\ NoteRx(q, n).lost = q.lost + a
  BY ONLY <1>5, <1>6, <1>7, q \in AirSeqs, q.have_rx DEF AirSeqs
<1>. QED BY <1>6, <1>8 DEF n

LEMMA FirstNumber ==
  ASSUME NEW q \in AirSeqs, ~q.have_rx, NEW n \in 0..(SEQ_MOD - 1)
  PROVE  /\ NoteRx(q, n) \in AirSeqs /\ NoteRx(q, n).have_rx
         /\ NoteRx(q, n).rx = n /\ NoteRx(q, n).lost = q.lost
BY DEF NoteRx, AirSeqs

LEMMA NumbersInit == Init => NumbersOK
<1>1. SUFFICES ASSUME Init PROVE NumbersOK
  OBVIOUS
<1>2. 0 % SEQ_MOD = 0 /\ 0 \in 0..(SEQ_MOD - 1)
  BY AirSeqAssumption
<1>3. NewSeq \in AirSeqs
  BY <1>2 DEF NewSeq, AirSeqs
<1>. QED BY <1>1, <1>2, <1>3 DEF Init, NumbersOK, NumbersType, HistoryFields, OnTheWay,
                               LostIsLost, NewSeq

(* A step that leaves the numbers alone. *)
LEMMA OtherNumbers ==
  ASSUME NumbersOK, NumbersType', UNCHANGED seq, peer'.seq = peer.seq,
         air' \in {air, <<>>}, history'.stamped = history.stamped,
         history'.first = history.first, history'.last = history.last,
         history'.count = history.count
  PROVE  NumbersOK'
BY DEF NumbersOK, OnTheWay, LostIsLost

(* What happens to a PDU that is not the repetition of the last one. *)
IsShard == peer.dest /\ air[1].pdu.kind = "shard"

FreshPdu(again, b, e) ==
    LET rx == OnRadioRx(air[1].pdu, b, e)
    IN  /\ IF IsShard THEN MayExpire(b, e) ELSE b + e = 0
        /\ peer' = [peer EXCEPT !.seq = NoteRx(@, air[1].seq), !.fec = rx.fec]
        /\ history' = [history EXCEPT
             !.twice     = IF again THEN @ + 1 ELSE @,
             !.delivered = @ \o rx.out,
             !.shards    = IF IsShard
                           THEN (@ \ GivenUp(b, air[1].pdu.body)) \cup {air[1].pdu.body}
                           ELSE @,
             !.first     = IF history.count = 0 THEN air[1].num ELSE @,
             !.last      = air[1].num,
             !.count     = @ + 1]

LEMMA FreshReceived ==
  ASSUME NEW again, Receive(again), Accepts(peer.seq, air[1].seq)
  PROVE  \E b \in 0..BLOCK_MAX, e \in 0..DONE_MAX : FreshPdu(again, b, e)
<1> DEFINE fresh == Accepts(peer.seq, air[1].seq)
           shard == fresh /\ peer.dest /\ air[1].pdu.kind = "shard"
           Outcome(b, e) ==
             LET pdu == air[1].pdu
             IN
             /\ IF shard THEN MayExpire(b, e) ELSE b + e = 0
             /\ LET rx == OnRadioRx(pdu, b, e)
                IN  /\ peer' = [peer EXCEPT !.seq = NoteRx(@, air[1].seq),
                                            !.fec = rx.fec]
                    /\ history' = [history EXCEPT
                         !.twice     = IF again THEN @ + 1 ELSE @,
                         !.delivered = @ \o rx.out,
                         !.shards    = IF shard
                                       THEN (@ \ GivenUp(b, pdu.body)) \cup {pdu.body}
                                       ELSE @,
                         !.first     = IF history.count = 0 THEN air[1].num ELSE @,
                         !.last      = air[1].num,
                         !.count     = @ + 1]
<1>1. \E b \in 0..BLOCK_MAX, e \in 0..DONE_MAX : Outcome(b, e)
  BY Zenon DEF Receive
<1>2. shard = IsShard
  BY DEF IsShard
<1>3. ASSUME NEW b, NEW e, Outcome(b, e) PROVE FreshPdu(again, b, e)
  <2> HIDE DEF shard
  <2>. QED BY ONLY <1>2, <1>3 DEF FreshPdu
<1> HIDE DEF Outcome
<1>. QED BY ONLY <1>1, <1>3

LEMMA FreshSent ==
  ASSUME NumbersType, NEW again, NEW b, NEW e, FreshPdu(again, b, e)
  PROVE  history'.sent = history.sent
<1> DEFINE twice == IF again THEN history.twice + 1 ELSE history.twice
           delivered == history.delivered \o OnRadioRx(air[1].pdu, b, e).out
           shards == IF IsShard
                     THEN (history.shards \ GivenUp(b, air[1].pdu.body)) \cup {air[1].pdu.body}
                     ELSE history.shards
           first == IF history.count = 0 THEN air[1].num ELSE history.first
<1>1. history' = [history EXCEPT !.twice = twice, !.delivered = delivered, !.shards = shards,
                                 !.first = first, !.last = air[1].num, !.count = @ + 1]
  BY DEF FreshPdu
<1> HIDE DEF twice, delivered, shards, first
<1>. QED BY <1>1 DEF NumbersType, HistoryFields

LEMMA NumbersNext == NumbersOK /\ [Next]_vars => NumbersOK'
<1>. SUFFICES ASSUME NumbersOK, [Next]_vars PROVE NumbersOK'
  OBVIOUS
<1>. USE DEF NumbersOK
<1>1. CASE OnApp
  <2>1. history' = [history EXCEPT !.sent = history.sent + 1] /\ UNCHANGED <<seq, air, peer>>
    BY <1>1 DEF OnApp
  <2>2. NumbersType'
    BY <2>1 DEF NumbersType, HistoryFields
  <2>. QED BY <2>1, <2>2, OtherNumbers DEF NumbersType, HistoryFields
<1>2. CASE OnTick
  <2>1. UNCHANGED <<seq, air, peer, history>>
    BY <1>2 DEF OnTick
  <2>2. NumbersType'
    BY <2>1 DEF NumbersType
  <2>. QED BY <2>1, <2>2, OtherNumbers
<1>3. CASE SetFec
  <2>1. /\ history' \in {history, [history EXCEPT !.inits = @ + 1]}
        /\ UNCHANGED <<seq, air, peer>>
    BY <1>3 DEF SetFec
  <2>2. NumbersType'
    BY <2>1 DEF NumbersType, HistoryFields
  <2>. QED BY <2>1, <2>2, OtherNumbers DEF NumbersType, HistoryFields
<1>4. ASSUME NEW done \in BOOLEAN, Send(done) PROVE NumbersOK'
  <2>1. /\ UNCHANGED peer /\ seq' = [seq EXCEPT !.tx = (@ + 1) % SEQ_MOD]
        /\ history' = [history EXCEPT !.fails = IF done THEN @ ELSE @ + 1,
                                      !.stamped = @ + 1]
        /\ air' = <<>> \/ air' = <<[num |-> history.stamped, seq |-> seq.tx,
                                    pdu |-> Head(queue)]>>
    BY <1>4 DEF Send, Stamp
  <2>2. seq.tx + 1 \in Int /\ ((history.stamped % SEQ_MOD) + 1) % SEQ_MOD
                               = (history.stamped + 1) % SEQ_MOD
    <3>1. history.stamped \in Int /\ SEQ_MOD \in Nat \ {0} /\ seq.tx + 1 \in Int
      BY AirSeqAssumption DEF NumbersType, AirSeqs
    <3>. QED BY ONLY <3>1, NextMod
  <2>3. (seq.tx + 1) % SEQ_MOD \in 0..(SEQ_MOD - 1)
    BY <2>2, ModNat
  <2>t. {history.stamped, history.first, history.last, history.count} \subseteq Nat
    BY DEF NumbersType
  <2>4. /\ history'.stamped = history.stamped + 1 /\ history'.first = history.first
        /\ history'.last = history.last /\ history'.count = history.count
        /\ DOMAIN history' = HistoryFields
        /\ history' = [f \in HistoryFields |-> history'[f]]
    BY <2>1 DEF NumbersType, HistoryFields
  <2>5. seq' \in AirSeqs /\ seq'.tx = (seq.tx + 1) % SEQ_MOD
    BY <2>1, <2>3 DEF NumbersType, AirSeqs
  <2>6. NumbersType'
    <3>1. {history'.stamped, history'.first, history'.last, history'.count} \subseteq Nat
      BY <2>t, <2>4
    <3>. QED BY <2>1, <2>4, <2>5, <3>1 DEF NumbersType
  <2>7. OnTheWay'
    <3>1. CASE air' = <<>>
      BY <3>1 DEF OnTheWay
    <3>2. CASE air' # <<>>
      <4>1. /\ air' = <<air'[1]>> /\ air'[1].num = history.stamped /\ air'[1].seq = seq.tx
        BY <2>1, <3>2
      <4>2. history.count > 0 => history.last < history.stamped
        OBVIOUS
      <4>. QED BY <2>t, <2>4, <4>1, <4>2 DEF OnTheWay
    <3>. QED BY <3>1, <3>2
  <2>8. LostIsLost'
    BY <2>1, <2>4 DEF LostIsLost
  <2>. QED BY <2>t, <2>1, <2>2, <2>4, <2>5, <2>6, <2>7, <2>8
<1>5. ASSUME NEW again \in BOOLEAN, Receive(again) PROVE NumbersOK'
  <2>1. /\ air # <<>> /\ WithinHalf /\ air' \in {air, <<>>} /\ UNCHANGED seq
        /\ air = <<air[1]>> /\ air[1].num \in Nat /\ air[1].num < history.stamped
        /\ air[1].seq = air[1].num % SEQ_MOD
        /\ history.count > 0 => history.last <= air[1].num
    BY <1>5, Zenon DEF Receive, Quiet, OnTheWay
  <2>2. CASE ~Accepts(peer.seq, air[1].seq)
    <3>1. /\ history' = [history EXCEPT !.twice = IF again THEN @ + 1 ELSE @]
          /\ UNCHANGED peer
      BY <1>5, <2>2 DEF Receive
    <3>2. NumbersType'
      BY <2>1, <3>1 DEF NumbersType, HistoryFields
    <3>. QED BY <2>1, <3>1, <3>2, OtherNumbers DEF NumbersType, HistoryFields
  <2>3. CASE Accepts(peer.seq, air[1].seq)
    <3>1. PICK b \in 0..BLOCK_MAX, e \in 0..DONE_MAX : FreshPdu(again, b, e)
      BY <1>5, <2>3, FreshReceived
    <3>. DEFINE fecAfter == OnRadioRx(air[1].pdu, b, e).fec
                delivered == history.delivered \o OnRadioRx(air[1].pdu, b, e).out
                shards == IF IsShard
                          THEN (history.shards \ GivenUp(b, air[1].pdu.body))
                                   \cup {air[1].pdu.body}
                          ELSE history.shards
    <3>0. /\ peer' = [peer EXCEPT !.seq = NoteRx(@, air[1].seq), !.fec = fecAfter]
          /\ history' = [history EXCEPT
                  !.twice     = IF again THEN @ + 1 ELSE @,
                  !.delivered = delivered,
                  !.shards    = shards,
                  !.first     = IF history.count = 0 THEN air[1].num ELSE @,
                  !.last      = air[1].num,
                  !.count     = @ + 1]
      BY ONLY <3>1 DEF FreshPdu
    <3>. HIDE DEF fecAfter, delivered, shards
    <3>2. /\ peer'.seq = NoteRx(peer.seq, air[1].seq)
          /\ peer' = [seq |-> peer'.seq, fec |-> peer'.fec, dest |-> peer'.dest]
      BY <3>0 DEF NumbersType
    <3>3. /\ history'.stamped = history.stamped
          /\ history'.first = IF history.count = 0 THEN air[1].num ELSE history.first
          /\ history'.last = air[1].num /\ history'.count = history.count + 1
          /\ DOMAIN history' = HistoryFields
          /\ history' = [f \in HistoryFields |-> history'[f]]
      BY <3>0 DEF NumbersType, HistoryFields
    <3>4. /\ peer'.seq \in AirSeqs /\ peer'.seq.have_rx
          /\ peer'.seq.rx = air[1].num % SEQ_MOD
          /\ peer'.seq.lost = peer.seq.lost + IF history.count = 0 THEN 0
                                              ELSE air[1].num - history.last - 1
      <4>1. CASE history.count = 0
        <5>1. /\ ~peer.seq.have_rx /\ peer.seq \in AirSeqs /\ peer.seq.lost \in Nat
              /\ air[1].seq \in 0..(SEQ_MOD - 1)
          BY <2>1, <4>1, ModNat DEF NumbersType, AirSeqs
        <5>. QED BY <2>1, <3>2, <4>1, <5>1, FirstNumber
      <4>2. CASE history.count # 0
        <5>1. /\ peer.seq.have_rx /\ peer.seq \in AirSeqs
              /\ peer.seq.rx = history.last % SEQ_MOD
              /\ history.last \in Nat /\ history.last <= air[1].num
              /\ air[1].num - history.last <= SEQ_MOD \div 2
          BY <2>1, <4>2 DEF NumbersType, WithinHalf
        <5>2. air[1].num % SEQ_MOD # peer.seq.rx
          BY <2>1, <2>3, <5>1 DEF Accepts
        <5>. QED BY <2>1, <3>2, <4>2, <5>1, <5>2, NotedNumber
      <4>. QED BY <4>1, <4>2
    <3>5. NumbersType'
      BY <2>1, <3>2, <3>3, <3>4 DEF NumbersType
    <3>6. OnTheWay'
      BY <2>1, <3>3 DEF OnTheWay, NumbersType
    <3>7. LostIsLost'
      <4>1. /\ {history.first, history.last, history.count, air[1].num} \subseteq Nat
            /\ history.count + 1 # 0
        BY <2>1 DEF NumbersType
      <4>2. peer'.seq.lost = history'.last - history'.first + 1 - history'.count
        <5>1. CASE history.count = 0
          BY <3>3, <3>4, <4>1, <5>1 DEF LostIsLost
        <5>2. CASE history.count # 0
          <6>1. peer.seq.lost = history.last - history.first + 1 - history.count
            BY <5>2 DEF LostIsLost
          <6>. QED BY <3>3, <3>4, <4>1, <5>2, <6>1
        <5>. QED BY <5>1, <5>2
      <4>. QED BY <3>3, <4>1, <4>2 DEF LostIsLost
    <3>. QED BY <2>1, <3>3, <3>4, <3>5, <3>6, <3>7 DEF NumbersType
  <2>. QED BY ONLY <2>2, <2>3
<1>6. CASE Lose
  <2>1. air' = <<>> /\ UNCHANGED <<queue, fec, seq, peer, history>>
    BY <1>6 DEF Lose
  <2>2. NumbersType'
    BY <2>1 DEF NumbersType
  <2>. QED BY <2>1, <2>2, OtherNumbers
<1>7. CASE PeerTick
  <2>1. PICK x, s : /\ peer' = [peer EXCEPT !.fec = x]
                    /\ history' = [history EXCEPT !.shards = s]
                    /\ UNCHANGED <<seq, air>>
    BY <1>7 DEF PeerTick
  <2>2. NumbersType' /\ peer'.seq = peer.seq
    BY <2>1 DEF NumbersType, HistoryFields
  <2>. QED BY <2>1, <2>2, OtherNumbers DEF NumbersType, HistoryFields
<1>8. CASE PeerApp
  <2>1. /\ peer' = [peer EXCEPT !.dest = ~@] /\ UNCHANGED <<seq, air>>
        /\ history' = [history EXCEPT !.apps = @ + 1]
    BY <1>8 DEF PeerApp
  <2>2. NumbersType' /\ peer'.seq = peer.seq
    BY <2>1 DEF NumbersType, HistoryFields
  <2>. QED BY <2>1, <2>2, OtherNumbers DEF NumbersType, HistoryFields
<1>9. CASE UNCHANGED vars
  BY <1>9 DEF vars, NumbersType, OnTheWay, LostIsLost
<1>. QED BY <1>1, <1>2, <1>3, <1>4, <1>5, <1>6, <1>7, <1>8, <1>9 DEF Next

(* rx_pkt_loss counts the numbers that never came, for every size of the   *)
(* number space and any losses, refused sends and repetitions: note_rx()   *)
(* and stamp() of air_seq.cpp.                                             *)
THEOREM LossIsCounted == Spec => []LostIsLost
<1>1. NumbersOK => LostIsLost
  BY DEF NumbersOK
<1>2. QED
  BY <1>1, NumbersInit, NumbersNext, PTL DEF Spec

-----------------------------------------------------------------------------
(***************************************************************************)
(* The queue.                                                              *)
(***************************************************************************)
ShardType == [id : Nat, index : Nat, k : Nat, n : Nat, rows : Seq(Nat \cup {EMPTY})]
Pdus   == [kind : {"plain"}, body : [data : Nat]] \cup [kind : {"shard"}, body : ShardType]

(* The sending object decodes nothing. *)
Encoders == [k : Nat, n : Nat, pending : Seq(Nat), block_id : Nat,
             blocks : {<<>>}, done : {<<>>}]

QueueType == queue \in Seq(Pdus) /\ fec \in Encoders /\ history.sent \in Nat

LEMMA EncoderChanged ==
  ASSUME NEW f \in Encoders, NEW p \in Seq(Nat), NEW i \in Nat
  PROVE  /\ [f EXCEPT !.pending = p] \in Encoders
         /\ [f EXCEPT !.block_id = i] \in Encoders
         /\ [f EXCEPT !.pending = p, !.block_id = i] \in Encoders
BY DEF Encoders

LEMMA EncoderStarted ==
  ASSUME NEW f \in Encoders, NEW k \in Nat, NEW n \in Nat
  PROVE  [f EXCEPT !.k = k, !.n = n] \in Encoders
BY DEF Encoders

LEMMA NoEncoder == NoFec \in Encoders
<1>1. <<>> \in Seq(Nat)
  OBVIOUS
<1>. QED BY <1>1 DEF NoFec, Encoders

LEMMA EncodedBlock ==
  ASSUME NEW f \in Encoders
  PROVE  EncodeBlock(f) \in Seq(ShardType)
<1>1. f.k \in Nat /\ f.n \in Nat /\ f.block_id \in Nat /\ f.pending \in Seq(Nat)
  BY DEF Encoders
<1>2. Rows(f) \in [1..f.k -> Nat \cup {EMPTY}]
  BY <1>1 DEF Rows
<1>3. Rows(f) \in Seq(Nat \cup {EMPTY})
  BY <1>1, <1>2
<1>4. EncodeBlock(f) \in [1..f.n -> ShardType]
  BY <1>1, <1>3 DEF EncodeBlock, ShardType
<1>. QED BY <1>1, <1>4

LEMMA Flushed ==
  ASSUME NEW f \in Encoders
  PROVE  Flush(f).fec \in Encoders /\ Flush(f).out \in Seq(ShardType)
<1>1. EncodeBlock(f) \in Seq(ShardType) /\ <<>> \in Seq(ShardType) /\ <<>> \in Seq(Nat)
  BY EncodedBlock
<1>2. (f.block_id + 1) % BLOCK_MOD \in Nat
  BY BasicFecAssumption DEF Encoders
<1>3. [f EXCEPT !.pending = <<>>, !.block_id = (f.block_id + 1) % BLOCK_MOD] \in Encoders
  BY ONLY <1>1, <1>2, f \in Encoders, EncoderChanged
<1>. QED BY <1>1, <1>3 DEF Flush

LEMMA Pushed ==
  ASSUME NEW f \in Encoders, NEW d \in Nat
  PROVE  PushApp(f, d).fec \in Encoders /\ PushApp(f, d).out \in Seq(ShardType)
<1>. DEFINE more == [f EXCEPT !.pending = Append(@, d)]
<1>1. Append(f.pending, d) \in Seq(Nat) /\ <<>> \in Seq(ShardType)
  BY DEF Encoders
<1>2. more \in Encoders
  BY ONLY <1>1, f \in Encoders, EncoderChanged
<1>3. \/ PushApp(f, d) = Flush(more)
      \/ PushApp(f, d).fec = more /\ PushApp(f, d).out = <<>>
  BY DEF PushApp
<1>. HIDE DEF more
<1>4. Flush(more).fec \in Encoders /\ Flush(more).out \in Seq(ShardType)
  BY <1>2, Flushed
<1>. QED BY <1>1, <1>2, <1>3, <1>4

LEMMA Stopped == ASSUME NEW f \in Encoders PROVE Disable(f) \in Encoders
<1>1. f.block_id \in Nat /\ <<>> \in Seq(Nat)
  BY DEF Encoders
<1>2. [NoFec EXCEPT !.block_id = f.block_id] \in Encoders
  BY ONLY <1>1, NoEncoder, EncoderChanged
<1>. QED BY <1>2 DEF Disable

LEMMA Started ==
  ASSUME NEW m \in MODES
  PROVE  InitFec(m.k, m.n) \in Encoders
<1>1. m.k \in Nat /\ m.n \in Nat
  BY UdpLinkAssumption
<1>2. [NoFec EXCEPT !.k = m.k, !.n = m.n] \in Encoders
  BY ONLY <1>1, NoEncoder, EncoderStarted
<1>. QED BY <1>2 DEF InitFec

LEMMA ShardsArePdus ==
  ASSUME NEW s \in Seq(ShardType)
  PROVE  Shards(s) \in Seq(Pdus)
<1>1. Shards(s) \in [1..Len(s) -> Pdus]
  BY DEF Shards, Pdus
<1>. QED BY <1>1

(* What was queued stays queued, or the queue is full. *)
StaysOrFull(old, new) ==
    \A q \in ToSet(old) : q \in ToSet(new) \/ Len(new) = TXQ_MAX

LEMMA EnqueuedOutcome ==
  ASSUME queue \in Seq(Pdus), NEW pdus \in Seq(Pdus)
  PROVE  Enqueued(pdus) \in Seq(Pdus) /\ StaysOrFull(queue, Enqueued(pdus))
<1>. DEFINE all == queue \o pdus
            n == Len(all) - TXQ_MAX
<1>1. /\ all \in Seq(Pdus) /\ Len(all) \in Nat /\ TXQ_MAX \in Nat
      /\ Len(queue) \in Nat /\ Len(all) = Len(queue) + Len(pdus)
      /\ \A i \in 1..Len(queue) : all[i] = queue[i]
  BY UdpLinkAssumption
<1>2. CASE Len(all) > TXQ_MAX
  <2>1. Enqueued(pdus) = SubSeq(all, n + 1, Len(all))
    BY <1>2 DEF Enqueued, DropOldest
  <2>2. n \in Nat /\ n + 1 <= Len(all) + 1 /\ n + 1 >= 1
    BY <1>1, <1>2
  <2>. HIDE DEF all
  <2>3. Enqueued(pdus) \in Seq(Pdus) /\ Len(Enqueued(pdus)) = TXQ_MAX
    BY <1>1, <2>1, <2>2
  <2>. QED BY <2>3 DEF StaysOrFull
<1>3. CASE ~(Len(all) > TXQ_MAX)
  <2>1. Enqueued(pdus) = all
    BY <1>3 DEF Enqueued
  <2>2. ASSUME NEW q \in ToSet(queue) PROVE q \in ToSet(all)
    <3>1. PICK i \in 1..Len(queue) : q = queue[i]
      BY DEF ToSet
    <3>2. i \in DOMAIN all /\ all[i] = q
      BY <1>1, <3>1
    <3>. QED BY <3>2 DEF ToSet
  <2>. QED BY <1>1, <2>1, <2>2 DEF StaysOrFull
<1>. QED BY <1>2, <1>3

Keeps ==
    \A q \in ToSet(queue) :
        \/ q \in ToSet(queue')
        \/ \E a \in ToSet(air') : a.pdu = q
        \/ Len(queue') = TXQ_MAX

LEMMA QueueNext ==
  ASSUME QueueType, NumbersType, [Next]_vars
  PROVE  QueueType' /\ Keeps
<1>. USE DEF QueueType
<1>1. CASE OnApp
  <2>. DEFINE d == history.sent + 1
  <2>1. /\ history' = [history EXCEPT !.sent = d] /\ d \in Nat
        /\ history'.sent = d
    BY <1>1 DEF OnApp, NumbersType, HistoryFields
  <2>2. CASE Enabled(fec)
    <3>1. fec' = PushApp(fec, d).fec /\ queue' = Enqueued(Shards(PushApp(fec, d).out))
      BY <1>1, <2>2 DEF OnApp, QueueShards
    <3>. QED BY <2>1, <3>1, Pushed, ShardsArePdus, EnqueuedOutcome DEF StaysOrFull, Keeps
  <2>3. CASE ~Enabled(fec)
    <3>1. fec' = fec /\ queue' = Enqueued(<<Plain(d)>>)
      BY <1>1, <2>3 DEF OnApp
    <3>2. <<Plain(d)>> \in Seq(Pdus)
      BY <2>1 DEF Plain, Pdus
    <3>. QED BY <2>1, <3>1, <3>2, EnqueuedOutcome DEF StaysOrFull, Keeps
  <2>. QED BY <2>2, <2>3
<1>2. CASE OnTick
  <2>1. /\ history' = history
        /\ fec' = Flush(fec).fec /\ queue' = Enqueued(Shards(Flush(fec).out))
    BY <1>2 DEF OnTick, QueueShards
  <2>. QED BY <2>1, Flushed, ShardsArePdus, EnqueuedOutcome DEF StaysOrFull, Keeps
<1>3. CASE SetFec
  <2>1. /\ history' \in {history, [history EXCEPT !.inits = @ + 1]}
        /\ queue' = Enqueued(Shards(Flush(fec).out))
        /\ \/ fec' = Disable(Flush(fec).fec)
           \/ \E m \in MODES : fec' = InitFec(m.k, m.n)
    BY <1>3 DEF SetFec, QueueShards, Flush
  <2>2. history'.sent = history.sent
    BY <2>1 DEF NumbersType, HistoryFields
  <2>3. fec' \in Encoders
    BY <2>1, Flushed, Started, Stopped
  <2>. QED BY <2>1, <2>2, <2>3, Flushed, ShardsArePdus, EnqueuedOutcome DEF StaysOrFull, Keeps
<1>4. ASSUME NEW done \in BOOLEAN, Send(done) PROVE QueueType' /\ Keeps
  <2>1. history'.sent = history.sent /\ fec' = fec /\ queue # <<>>
        /\ queue' = IF done THEN Tail(queue) ELSE queue
    BY <1>4 DEF Send, AfterSend, NumbersType, HistoryFields
  <2>2. CASE ~done
    BY <2>1, <2>2 DEF Keeps
  <2>3. CASE done
    <3>1. queue' = Tail(queue) /\ air' = <<[num |-> history.stamped, seq |-> seq.tx,
                                           pdu |-> Head(queue)]>>
      BY <1>4, <2>1, <2>3 DEF Send
    <3>2. Tail(queue) \in Seq(Pdus) /\ Len(Tail(queue)) = Len(queue) - 1 /\ Len(queue) \in Nat
          /\ Head(queue) = queue[1]
          /\ \A i \in 1..(Len(queue) - 1) : Tail(queue)[i] = queue[i + 1]
      BY <2>1
    <3>3. ASSUME NEW q \in ToSet(queue), q # Head(queue) PROVE q \in ToSet(Tail(queue))
      <4>1. PICK i \in 1..Len(queue) : q = queue[i]
        BY DEF ToSet
      <4>2. i - 1 \in 1..(Len(queue) - 1) /\ (i - 1) + 1 = i
        BY <3>2, <3>3, <4>1
      <4>3. i - 1 \in DOMAIN Tail(queue) /\ Tail(queue)[i - 1] = q
        BY <3>2, <4>1, <4>2
      <4>. QED BY <4>3 DEF ToSet
    <3>4. \E a \in ToSet(air') : a.pdu = Head(queue)
      BY <3>1 DEF ToSet
    <3>. QED BY <2>1, <3>1, <3>2, <3>3, <3>4 DEF Keeps
  <2>. QED BY <2>2, <2>3
<1>5. CASE UNCHANGED <<queue, fec>> /\ history'.sent = history.sent
  <2>1. QueueType'
    BY <1>5
  <2>2. \A q \in ToSet(queue) : q \in ToSet(queue')
    BY ONLY <1>5
  <2>. QED BY ONLY <2>1, <2>2 DEF Keeps
<1>6. ASSUME NEW again \in BOOLEAN, Receive(again)
      PROVE  UNCHANGED <<queue, fec>> /\ history'.sent = history.sent
  <2>1. UNCHANGED <<queue, fec>>
    BY ONLY <1>6, Zenon DEF Receive
  <2>2. CASE Accepts(peer.seq, air[1].seq)
    <3>1. PICK b \in 0..BLOCK_MAX, e \in 0..DONE_MAX : FreshPdu(again, b, e)
      BY ONLY <1>6, <2>2, FreshReceived
    <3>. QED BY <2>1, <3>1, FreshSent
  <2>3. CASE ~Accepts(peer.seq, air[1].seq)
    <3>1. PICK t : history' = [history EXCEPT !.twice = t]
      BY ONLY <1>6, <2>3, Zenon DEF Receive
    <3>. QED BY <2>1, <3>1 DEF NumbersType, HistoryFields
  <2>. QED BY <2>2, <2>3
<1>7. Lose \/ PeerTick \/ PeerApp \/ UNCHANGED vars
      => UNCHANGED <<queue, fec>> /\ history'.sent = history.sent
  BY DEF Lose, PeerTick, PeerApp, vars, NumbersType, HistoryFields
<1>. QED BY <1>1, <1>2, <1>3, <1>4, <1>5, <1>6, <1>7 DEF Next

(* A datagram or shard leaves the queue only into a PDU that the radio's   *)
(* socket took, or as the oldest of a full queue: on_app(), set_fec() and  *)
(* commit_tx() after the send.                                             *)
THEOREM NothingLost == Spec => NothingVanishes
<1>1. Init => QueueType
  <2>1. <<>> \in Seq(Pdus)
    OBVIOUS
  <2>. QED BY <2>1, NoEncoder DEF Init, QueueType
<1>2. QueueType /\ NumbersOK /\ [Next]_vars => QueueType'
  BY QueueNext DEF NumbersOK
<1>3. QueueType /\ NumbersOK /\ [Next]_vars
      => [\A q \in ToSet(queue) :
            \/ q \in ToSet(queue')
            \/ \E a \in ToSet(air') : a.pdu = q
            \/ Len(queue') = TXQ_MAX]_vars
  BY QueueNext DEF NumbersOK, Keeps
<1>4. QED
  BY <1>1, <1>2, <1>3, NumbersInit, NumbersNext, PTL DEF Spec, NothingVanishes

-----------------------------------------------------------------------------
(***************************************************************************)
(* What decoding yields.                                                   *)
(***************************************************************************)

(* The datagrams among the rows of a block. *)
DataOf(rows) == ToSet(rows) \ {EMPTY}

(* Rows hold datagrams in the order of sending, and padding. *)
Ascending(rows) ==
    \A i, j \in DOMAIN rows :
        i < j /\ rows[i] # EMPTY /\ rows[j] # EMPTY => rows[i] < rows[j]

Increasing(s) == \A i, j \in DOMAIN s : i < j => s[i] < s[j]

(* A set that has 0 and with each n < N also n + 1 has all of 0..N. *)
LEMMA UpTo ==
  ASSUME NEW N \in Nat, NEW S \in SUBSET Nat, 0 \in S,
         \A n \in 0..N - 1 : n \in S => n + 1 \in S
  PROVE  0..N \subseteq S
<1> DEFINE Lt == {p \in Nat \X Nat : p[1] < p[2]}
           T == {n \in 0..N : n \notin S}
<1>1. IsWellFoundedOn(Lt, Nat)
  BY NatLessThanWellFounded DEF OpToRel
<1>2. SUFFICES ASSUME T # {} PROVE FALSE
  OBVIOUS
<1>3. PICK x \in T : \A y \in T : ~(<<y, x>> \in Lt)
  BY <1>1, <1>2, WFMin
<1>4. x \in Nat /\ x # 0 /\ x - 1 \in 0..N - 1
  OBVIOUS
<1>5. x - 1 \in S
  <2>1. <<x - 1, x>> \in Nat \X Nat /\ <<x - 1, x>>[1] < <<x - 1, x>>[2]
    BY <1>4
  <2>. QED BY <2>1, <1>3, <1>4
<1>. QED BY <1>4, <1>5

(* The recursive function in Datagrams exists. *)
LEMMA DatagramsDefined ==
  ASSUME NEW rows, NEW N \in Nat, Len(rows) = N
  PROVE  \E u : /\ u = [i \in 0..N |-> IF i = 0 THEN <<>>
                                       ELSE IF rows[i] = EMPTY THEN u[i - 1]
                                       ELSE Append(u[i - 1], rows[i])]
                /\ Datagrams(rows) = u[N]
<1> DEFINE Step(g, i) == IF rows[i] = EMPTY THEN g[i - 1] ELSE Append(g[i - 1], rows[i])
           Upto(n, g) == g = [i \in 0..n |-> IF i = 0 THEN <<>>
                                             ELSE IF rows[i] = EMPTY THEN g[i - 1]
                                             ELSE Append(g[i - 1], rows[i])]
           S == {n \in 0..N : \E g : Upto(n, g)}
<1>1. 0 \in S
  <2> DEFINE z == [i \in 0..0 |-> <<>>]
  <2>1. Upto(0, z)
    OBVIOUS
  <2>2. \E g : Upto(0, g)
    BY <2>1, Zenon
  <2>. QED BY <2>2
<1>2. ASSUME NEW n \in 0..N - 1, n \in S PROVE n + 1 \in S
  <2>1. PICK g : Upto(n, g)
    BY <1>2
  <2> DEFINE new == IF rows[n + 1] = EMPTY THEN g[n] ELSE Append(g[n], rows[n + 1])
             h == [i \in 0..n + 1 |-> IF i <= n THEN g[i] ELSE new]
  <2>2. ASSUME NEW i \in 0..n + 1
        PROVE  h[i] = IF i = 0 THEN <<>> ELSE IF rows[i] = EMPTY THEN h[i - 1]
                                         ELSE Append(h[i - 1], rows[i])
    <3>1. CASE i = 0
      BY <2>1, <3>1
    <3>2. CASE i # 0 /\ i <= n
      <4>1. h[i] = g[i] /\ h[i - 1] = g[i - 1] /\ i \in 0..n
        BY <3>2
      <4>2. g[i] = IF rows[i] = EMPTY THEN g[i - 1] ELSE Append(g[i - 1], rows[i])
        BY <2>1, <3>2, <4>1
      <4>. QED BY <4>1, <4>2, <3>2
    <3>3. CASE i = n + 1
      <4>1. h[i] = new /\ h[i - 1] = g[n] /\ i # 0
        BY <3>3
      <4>. QED BY <4>1, <3>3
    <3>. QED BY <3>1, <3>2, <3>3
  <2>3. Upto(n + 1, h)
    <3> HIDE DEF h
    <3>1. h = [i \in 0..n + 1 |-> h[i]]
      BY DEF h
    <3>. QED BY <2>2, <3>1
  <2>4. \E k : Upto(n + 1, k)
    <3> HIDE DEF h, Upto
    <3>. QED BY <2>3
  <2>5. n + 1 \in 0..N
    OBVIOUS
  <2> HIDE DEF Upto
  <2>. QED BY <2>4, <2>5
<1>3. N \in S
  <2>1. S \in SUBSET Nat /\ \A n \in 0..N - 1 : n \in S => n + 1 \in S
    <3>1. S \in SUBSET Nat
      OBVIOUS
    <3> HIDE DEF S
    <3>. QED BY <1>2, <3>1
  <2> HIDE DEF S
  <2>2. N \in Nat
    OBVIOUS
  <2>3. 0..N \subseteq S
    BY ONLY <1>1, <2>1, <2>2, UpTo
  <2>. QED BY ONLY <2>2, <2>3
<1>4. \E g : Upto(N, g)
  BY <1>3
<1> DEFINE u == CHOOSE g : Upto(N, g)
<1>5. Upto(N, u)
  BY <1>4, Zenon
<1>6. Datagrams(rows) = u[N]
  BY Zenon DEF Datagrams
<1>. QED BY <1>5, <1>6

(* Decoding yields the datagrams of the block, in order. *)
LEMMA DatagramsAre ==
  ASSUME NEW rows \in Seq(Nat \cup {EMPTY}), Ascending(rows)
  PROVE  /\ Datagrams(rows) \in Seq(Nat)
         /\ ToSet(Datagrams(rows)) = DataOf(rows)
         /\ Increasing(Datagrams(rows))
<1> DEFINE N == Len(rows)
<1>1. N \in Nat /\ DOMAIN rows = 1..N
  OBVIOUS
<1>2. PICK u : /\ u = [i \in 0..N |-> IF i = 0 THEN <<>>
                                      ELSE IF rows[i] = EMPTY THEN u[i - 1]
                                      ELSE Append(u[i - 1], rows[i])]
               /\ Datagrams(rows) = u[N]
  BY <1>1, DatagramsDefined
<1> DEFINE Good(n) ==
             /\ u[n] \in Seq(Nat)
             /\ \A j \in 1..Len(u[n]) : \E i \in 1..n : rows[i] # EMPTY /\ u[n][j] = rows[i]
             /\ \A i \in 1..n : rows[i] # EMPTY => \E j \in 1..Len(u[n]) : u[n][j] = rows[i]
             /\ \A i, j \in 1..Len(u[n]) : i < j => u[n][i] < u[n][j]
           S == {n \in 0..N : Good(n)}
<1> HIDE DEF N
<1>3. 0 \in S
  <2>1. u[0] = <<>>
    BY <1>1, <1>2
  <2>2. Good(0)
    BY <2>1
  <2> HIDE DEF Good
  <2>. QED BY <1>1, <2>2
<1>4. ASSUME NEW n \in 0..N - 1, n \in S PROVE n + 1 \in S
  <2>1. n \in Nat /\ n + 1 \in 1..N /\ Good(n)
    BY <1>1, <1>4
  <2>2. u[n + 1] = IF rows[n + 1] = EMPTY THEN u[n] ELSE Append(u[n], rows[n + 1])
    <3>1. n + 1 \in 0..N /\ n + 1 # 0 /\ (n + 1) - 1 = n
      BY <1>1, <2>1
    <3>. QED BY <1>2, <3>1
  <2>3. CASE rows[n + 1] = EMPTY
    <3>1. u[n + 1] = u[n]
      BY <2>2, <2>3
    <3>2. \A i \in 1..n + 1 : rows[i] # EMPTY => i \in 1..n
      BY <2>1, <2>3
    <3>3. \A i \in 1..n : i \in 1..n + 1
      BY <2>1
    <3>4. Good(n + 1)
      BY <2>1, <3>1, <3>2, <3>3
    <3>. QED BY <2>1, <3>4
  <2>4. CASE rows[n + 1] # EMPTY
    <3> DEFINE s == u[n]
               x == rows[n + 1]
               t == Append(s, x)
    <3>1. u[n + 1] = t
      BY <2>2, <2>4
    <3>2. x \in Nat /\ s \in Seq(Nat) /\ Len(s) \in Nat
      BY <1>1, <2>1, <2>4
    <3>3. /\ t \in Seq(Nat) /\ Len(t) = Len(s) + 1 /\ t[Len(s) + 1] = x
          /\ \A j \in 1..Len(s) : t[j] = s[j]
      BY <3>2
    <3>4. \A j \in 1..Len(s) : s[j] < x
      <4>1. TAKE j \in 1..Len(s)
      <4>2. PICK i \in 1..n : rows[i] # EMPTY /\ s[j] = rows[i]
        BY <2>1
      <4>3. i \in DOMAIN rows /\ n + 1 \in DOMAIN rows /\ i < n + 1
        BY <1>1, <2>1
      <4>4. rows[i] < rows[n + 1]
        BY <2>4, <4>2, <4>3 DEF Ascending
      <4>. QED BY <4>2, <4>4
    <3> HIDE DEF t
    <3>5. \A j \in 1..Len(t) : \E i \in 1..n + 1 : rows[i] # EMPTY /\ t[j] = rows[i]
      <4>1. TAKE j \in 1..Len(t)
      <4>2. CASE j \in 1..Len(s)
        <5>1. PICK i \in 1..n : rows[i] # EMPTY /\ s[j] = rows[i]
          BY <2>1, <4>2
        <5>2. i \in 1..n + 1
          BY <2>1
        <5>. QED BY <3>3, <4>2, <5>1, <5>2
      <4>3. CASE j = Len(s) + 1
        <5>1. n + 1 \in 1..n + 1
          BY <2>1
        <5>. QED BY <2>4, <3>3, <4>3, <5>1
      <4>. QED BY <3>2, <3>3, <4>2, <4>3
    <3>6. \A i \in 1..n + 1 : rows[i] # EMPTY => \E j \in 1..Len(t) : t[j] = rows[i]
      <4>1. TAKE i \in 1..n + 1
      <4>2. HAVE rows[i] # EMPTY
      <4>3. CASE i = n + 1
        <5>1. Len(s) + 1 \in 1..Len(t)
          BY <3>2, <3>3
        <5>. QED BY <3>3, <4>3, <5>1
      <4>4. CASE i # n + 1
        <5>1. i \in 1..n
          BY <2>1, <4>4
        <5>2. PICK j \in 1..Len(s) : s[j] = rows[i]
          BY <2>1, <4>2, <5>1
        <5>3. j \in 1..Len(t)
          BY <3>2, <3>3
        <5>. QED BY <3>3, <5>2, <5>3
      <4>. QED BY <4>3, <4>4
    <3>7. \A i, j \in 1..Len(t) : i < j => t[i] < t[j]
      <4>1. TAKE i, j \in 1..Len(t)
      <4>2. HAVE i < j
      <4>n. i \in 1..Len(s)
        BY ONLY <3>2, <3>3, <4>2, i \in 1..Len(t), j \in 1..Len(t)
      <4>3. i \in 1..Len(s) /\ t[i] = s[i]
        BY ONLY <3>3, <4>n
      <4>4. CASE j \in 1..Len(s)
        BY <2>1, <3>3, <4>2, <4>3, <4>4
      <4>5. CASE j = Len(s) + 1
        BY <3>3, <3>4, <4>3, <4>5
      <4>. QED BY <3>2, <3>3, <4>4, <4>5
    <3>8. Good(n + 1)
      BY <3>1, <3>3, <3>5, <3>6, <3>7
    <3>. QED BY <2>1, <3>8
  <2>. QED BY <2>3, <2>4
<1>5. Good(N)
  <2>1. S \in SUBSET Nat
    BY <1>1
  <2>2. N \in S
    <3> HIDE DEF S
    <3>1. 0..N \subseteq S
      BY <1>1, <1>3, <1>4, <2>1, UpTo
    <3>. QED BY <1>1, <3>1
  <2> HIDE DEF Good
  <2>. QED BY <2>2
<1> DEFINE d == u[N]
<1>6. d = Datagrams(rows) /\ d \in Seq(Nat) /\ DOMAIN d = 1..Len(d)
  BY <1>2, <1>5
<1>7. ToSet(d) = DataOf(rows)
  <2>1. ASSUME NEW x \in ToSet(d) PROVE x \in DataOf(rows)
    <3>1. PICK j \in 1..Len(d) : x = d[j]
      BY <1>6 DEF ToSet
    <3>2. PICK i \in 1..N : rows[i] # EMPTY /\ d[j] = rows[i]
      BY <1>5
    <3>. QED BY <1>1, <3>1, <3>2 DEF DataOf, ToSet
  <2>2. ASSUME NEW x \in DataOf(rows) PROVE x \in ToSet(d)
    <3>1. PICK i \in 1..N : x = rows[i] /\ rows[i] # EMPTY
      BY <1>1 DEF DataOf, ToSet
    <3>2. PICK j \in 1..Len(d) : d[j] = rows[i]
      BY <1>5, <3>1
    <3>. QED BY <1>6, <3>1, <3>2 DEF ToSet
  <2>. QED BY <2>1, <2>2
<1>8. Increasing(d)
  BY <1>5, <1>6 DEF Increasing
<1>. QED BY <1>6, <1>7, <1>8

-----------------------------------------------------------------------------
(***************************************************************************)
(* Sequences and the sets of their elements.                               *)
(***************************************************************************)
LEMMA SetOfAppend ==
  ASSUME NEW T, NEW s \in Seq(T), NEW x \in T
  PROVE  ToSet(Append(s, x)) = ToSet(s) \cup {x}
<1> DEFINE t == Append(s, x)
<1>1. /\ t \in Seq(T) /\ Len(s) \in Nat /\ Len(t) = Len(s) + 1 /\ t[Len(s) + 1] = x
      /\ \A i \in 1..Len(s) : t[i] = s[i]
      /\ DOMAIN s = 1..Len(s) /\ DOMAIN t = 1..(Len(s) + 1)
  OBVIOUS
<1> HIDE DEF t
<1>2. ASSUME NEW y \in ToSet(t) PROVE y \in ToSet(s) \cup {x}
  BY <1>1 DEF ToSet
<1>3. ASSUME NEW y \in ToSet(s) PROVE y \in ToSet(t)
  <2>1. PICK i \in 1..Len(s) : y = s[i]
    BY <1>1 DEF ToSet
  <2>2. i \in 1..(Len(s) + 1)
    BY <1>1
  <2>. QED BY <1>1, <2>1, <2>2 DEF ToSet
<1>4. x \in ToSet(t)
  BY <1>1 DEF ToSet
<1>. QED BY <1>2, <1>3, <1>4 DEF t

LEMMA SetOfConcat ==
  ASSUME NEW T, NEW s \in Seq(T), NEW r \in Seq(T)
  PROVE  ToSet(s \o r) = ToSet(s) \cup ToSet(r)
<1> DEFINE t == s \o r
<1>1. /\ t \in Seq(T) /\ Len(s) \in Nat /\ Len(r) \in Nat /\ Len(t) = Len(s) + Len(r)
      /\ \A i \in 1..Len(t) : t[i] = IF i <= Len(s) THEN s[i] ELSE r[i - Len(s)]
      /\ DOMAIN s = 1..Len(s) /\ DOMAIN t = 1..Len(t) /\ DOMAIN r = 1..Len(r)
  OBVIOUS
<1> HIDE DEF t
<1>2. ASSUME NEW y \in ToSet(t) PROVE y \in ToSet(s) \cup ToSet(r)
  <2>1. PICK i \in 1..Len(t) : y = t[i]
    BY <1>1 DEF ToSet
  <2>2. CASE i <= Len(s)
    <3>1. i \in 1..Len(s) /\ y = s[i]
      BY <1>1, <2>1, <2>2
    <3>. QED BY <1>1, <3>1 DEF ToSet
  <2>3. CASE ~(i <= Len(s))
    <3>1. i - Len(s) \in 1..Len(r) /\ y = r[i - Len(s)]
      BY <1>1, <2>1, <2>3
    <3>. QED BY <1>1, <3>1 DEF ToSet
  <2>. QED BY <2>2, <2>3
<1>3. ASSUME NEW y \in ToSet(s) PROVE y \in ToSet(t)
  <2>1. PICK i \in 1..Len(s) : y = s[i]
    BY <1>1 DEF ToSet
  <2>2. i \in 1..Len(t) /\ t[i] = y
    BY <1>1, <2>1
  <2>. QED BY <1>1, <2>2 DEF ToSet
<1>4. ASSUME NEW y \in ToSet(r) PROVE y \in ToSet(t)
  <2>1. PICK i \in 1..Len(r) : y = r[i]
    BY <1>1 DEF ToSet
  <2>2. i + Len(s) \in 1..Len(t) /\ ~(i + Len(s) <= Len(s)) /\ (i + Len(s)) - Len(s) = i
    BY <1>1
  <2>3. t[i + Len(s)] = y
    BY <1>1, <2>1, <2>2
  <2>. QED BY <1>1, <2>2, <2>3 DEF ToSet
<1>. QED BY <1>2, <1>3, <1>4 DEF t

(* What remains when the oldest n are dropped. *)
LEMMA Dropped ==
  ASSUME NEW T, NEW s \in Seq(T), NEW n \in 0..Len(s)
  PROVE  /\ DropOldest(s, n) \in Seq(T)
         /\ Len(DropOldest(s, n)) = Len(s) - n
         /\ \A i \in 1..(Len(s) - n) : DropOldest(s, n)[i] = s[i + n]
         /\ \A y : y \in ToSet(DropOldest(s, n)) <=> \E i \in (n + 1)..Len(s) : y = s[i]
         /\ ToSet(DropOldest(s, n)) \subseteq ToSet(s)
<1> DEFINE t == DropOldest(s, n)
<1>1. /\ t \in Seq(T) /\ Len(s) \in Nat /\ n \in Nat /\ Len(t) = Len(s) - n
      /\ \A i \in 1..(Len(s) - n) : t[i] = s[i + n]
  BY DEF DropOldest
<1>2. DOMAIN t = 1..(Len(s) - n) /\ DOMAIN s = 1..Len(s)
  BY <1>1
<1> HIDE DEF t
<1>3. ASSUME NEW y \in ToSet(t) PROVE \E i \in (n + 1)..Len(s) : y = s[i]
  <2>1. PICK i \in 1..(Len(s) - n) : y = t[i]
    BY <1>2 DEF ToSet
  <2>2. i + n \in (n + 1)..Len(s) /\ y = s[i + n]
    BY <1>1, <2>1
  <2>. QED BY <2>2
<1>4. ASSUME NEW j \in (n + 1)..Len(s) PROVE s[j] \in ToSet(t)
  <2>1. j - n \in 1..(Len(s) - n) /\ (j - n) + n = j
    BY <1>1
  <2>2. t[j - n] = s[j]
    BY <1>1, <2>1
  <2>. QED BY <1>2, <2>1, <2>2 DEF ToSet
<1>5. \A i \in (n + 1)..Len(s) : s[i] \in ToSet(s)
  BY <1>1, <1>2 DEF ToSet
<1>6. \A y : y \in ToSet(t) <=> \E i \in (n + 1)..Len(s) : y = s[i]
  BY <1>3, <1>4
<1>7. ToSet(t) \subseteq ToSet(s)
  BY <1>5, <1>6
<1>. QED BY <1>1, <1>6, <1>7 DEF t

LEMMA TailDrops ==
  ASSUME NEW T, NEW s \in Seq(T), s # <<>>
  PROVE  Tail(s) = DropOldest(s, 1) /\ 1 \in 0..Len(s)
<1>1. Len(s) \in Nat /\ Len(s) >= 1
  OBVIOUS
<1>2. Tail(s) \in Seq(T) /\ Len(Tail(s)) = Len(s) - 1
      /\ \A i \in 1..(Len(s) - 1) : Tail(s)[i] = s[i + 1]
  BY <1>1
<1> DEFINE a == Tail(s)
           b == DropOldest(s, 1)
<1>3. 1 \in 0..Len(s)
  BY <1>1
<1>4. b \in Seq(T) /\ Len(b) = Len(s) - 1 /\ \A i \in 1..(Len(s) - 1) : b[i] = s[i + 1]
  BY <1>3, Dropped
<1>t. a \in Seq(T) /\ Len(a) = Len(s) - 1 /\ \A i \in 1..(Len(s) - 1) : a[i] = s[i + 1]
  BY <1>2
<1> HIDE DEF a, b
<1>5. a = [i \in 1..(Len(s) - 1) |-> s[i + 1]]
  BY <1>1, <1>t
<1>6. b = [i \in 1..(Len(s) - 1) |-> s[i + 1]]
  BY <1>1, <1>4
<1>. QED BY <1>3, <1>5, <1>6 DEF a, b

(* What remains when one is taken out. *)
LEMMA Removed ==
  ASSUME NEW T, NEW s \in Seq(T), NEW k \in 1..Len(s)
  PROVE  /\ RemoveAt(s, k) \in Seq(T) /\ Len(RemoveAt(s, k)) = Len(s) - 1
         /\ \A i \in 1..(Len(s) - 1) : RemoveAt(s, k)[i] = IF i < k THEN s[i] ELSE s[i + 1]
<1> DEFINE a == SubSeq(s, 1, k - 1)
           b == SubSeq(s, k + 1, Len(s))
<1>1. Len(s) \in Nat /\ k \in Nat /\ k >= 1 /\ k <= Len(s)
  OBVIOUS
<1>2. a \in Seq(T) /\ Len(a) = k - 1 /\ \A i \in 1..(k - 1) : a[i] = s[i]
  BY <1>1
<1>3. b \in Seq(T) /\ Len(b) = Len(s) - k /\ \A i \in 1..(Len(s) - k) : b[i] = s[i + k]
  BY <1>1
<1>4. RemoveAt(s, k) = a \o b
  BY DEF RemoveAt
<1> HIDE DEF a, b
<1>5. a \o b \in Seq(T) /\ Len(a \o b) = Len(s) - 1
  <2>1. a \in Seq(T) /\ b \in Seq(T)
    BY <1>2, <1>3
  <2>2. a \o b \in Seq(T) /\ Len(a \o b) = Len(a) + Len(b)
    BY ONLY <2>1
  <2>. QED BY <1>1, <1>2, <1>3, <2>2
<1>6. ASSUME NEW i \in 1..(Len(s) - 1) PROVE (a \o b)[i] = IF i < k THEN s[i] ELSE s[i + 1]
  <2>1. (a \o b)[i] = IF i <= Len(a) THEN a[i] ELSE b[i - Len(a)]
    BY <1>1, <1>2, <1>3, <1>5
  <2>2. CASE i < k
    BY <1>1, <1>2, <2>1, <2>2
  <2>3. CASE ~(i < k)
    <3>1. i - (k - 1) \in 1..(Len(s) - k) /\ (i - (k - 1)) + k = i + 1
      BY <1>1, <2>3
    <3>2. ~(i <= k - 1)
      BY <1>1, <2>3
    <3>. QED BY <1>2, <1>3, <2>1, <2>3, <3>1, <3>2
  <2>. QED BY <2>2, <2>3
<1>. QED BY <1>4, <1>5, <1>6

-----------------------------------------------------------------------------
(***************************************************************************)
(* The receiving object: unfinished blocks, and one shard more.            *)
(***************************************************************************)
SameBlock(s, t) == s.id = t.id /\ s.k = t.k /\ s.n = t.n /\ s.rows = t.rows

OpenBlocks == [id : Nat, k : Nat, n : Nat, frags : SUBSET ShardType]
DoneBlocks == [id : Nat, rows : Seq(Nat \cup {EMPTY})]
Decoders   == [k : Nat, n : Nat, pending : {<<>>}, block_id : {0},
               blocks : Seq(OpenBlocks), done : Seq(DoneBlocks)]

(* Unfinished blocks have some shards of one block each, not enough to     *)
(* decode it, and numbers of their own.                                    *)
Collecting(b) ==
    /\ b.frags # {} /\ IsFiniteSet(b.frags) /\ Cardinality(b.frags) < b.k
    /\ \A t \in b.frags : t.id = b.id /\ t.k = b.k /\ t.n = b.n

BlocksOK(blocks) ==
    /\ Len(blocks) <= BLOCK_MAX
    /\ \A i \in DOMAIN blocks : Collecting(blocks[i])
    /\ \A i, j \in DOMAIN blocks : blocks[i].id = blocks[j].id => i = j

HeldIn(blocks) == UNION {b.frags : b \in ToSet(blocks)}

LEMMA HeldMember ==
  ASSUME NEW T, NEW blocks \in Seq(T), NEW t
  PROVE  t \in HeldIn(blocks) <=> \E i \in 1..Len(blocks) : t \in blocks[i].frags
<1>1. DOMAIN blocks = 1..Len(blocks)
  OBVIOUS
<1>. QED BY <1>1 DEF HeldIn, ToSet

(* The oldest blocks are given up. *)
LEMMA BlocksDropped ==
  ASSUME NEW blocks \in Seq(OpenBlocks), BlocksOK(blocks), NEW n \in 0..Len(blocks)
  PROVE  LET rest == DropOldest(blocks, n)
         IN  /\ rest \in Seq(OpenBlocks) /\ BlocksOK(rest)
             /\ HeldIn(rest) \subseteq HeldIn(blocks)
             /\ \A t \in HeldIn(blocks) : \/ t \in HeldIn(rest)
                                          \/ \E i \in 1..n : t \in blocks[i].frags
<1> DEFINE rest == DropOldest(blocks, n)
<1>1. /\ rest \in Seq(OpenBlocks) /\ Len(rest) = Len(blocks) - n
      /\ \A i \in 1..(Len(blocks) - n) : rest[i] = blocks[i + n]
      /\ Len(blocks) \in Nat /\ n \in Nat
  <2>1. Len(blocks) \in Nat /\ n \in Nat
    OBVIOUS
  <2>2. PICK T : T = OpenBlocks
    OBVIOUS
  <2>. QED BY ONLY <2>1, <2>2, blocks \in Seq(OpenBlocks), n \in 0..Len(blocks), Dropped
<1>2. DOMAIN rest = 1..(Len(blocks) - n) /\ DOMAIN blocks = 1..Len(blocks)
  BY <1>1
<1> HIDE DEF rest
<1>3. \A i \in DOMAIN rest : i + n \in DOMAIN blocks /\ rest[i] = blocks[i + n] /\ i \in Nat
  BY <1>1, <1>2
<1>4. BLOCK_MAX \in Nat
  BY BasicFecAssumption
<1>5. BlocksOK(rest)
  <2>1. Len(rest) <= BLOCK_MAX
    BY <1>1, <1>4 DEF BlocksOK
  <2>2. \A i \in DOMAIN rest : Collecting(rest[i])
    BY <1>3 DEF BlocksOK
  <2>3. ASSUME NEW i \in DOMAIN rest, NEW j \in DOMAIN rest, rest[i].id = rest[j].id
        PROVE  i = j
    <3>1. i + n = j + n
      BY <1>3, <2>3 DEF BlocksOK
    <3>. QED BY <1>1, <1>3, <3>1
  <2>. QED BY <2>1, <2>2, <2>3 DEF BlocksOK
<1>6. HeldIn(rest) \subseteq HeldIn(blocks)
  <2>1. ASSUME NEW t \in HeldIn(rest) PROVE t \in HeldIn(blocks)
    <3>1. PICK i \in 1..Len(rest) : t \in rest[i].frags
      BY <1>1, HeldMember
    <3>2. i + n \in 1..Len(blocks) /\ t \in blocks[i + n].frags
      BY <1>1, <1>2, <1>3, <3>1
    <3>. QED BY <3>2, HeldMember
  <2>. QED BY <2>1
<1>7. ASSUME NEW t \in HeldIn(blocks), t \notin HeldIn(rest)
      PROVE  \E i \in 1..n : t \in blocks[i].frags
  <2>1. PICK i \in 1..Len(blocks) : t \in blocks[i].frags
    BY HeldMember
  <2>2. CASE i > n
    <3>1. i - n \in 1..(Len(blocks) - n) /\ (i - n) + n = i
      BY <1>1, <2>2
    <3>2. i - n \in 1..Len(rest) /\ t \in rest[i - n].frags
      BY <1>1, <2>1, <3>1
    <3>. QED BY <1>1, <1>7, <3>2, HeldMember
  <2>3. CASE ~(i > n)
    <3>1. i \in 1..n
      BY <1>1, <2>3
    <3>. QED BY <2>1, <3>1
  <2>. QED BY <2>2, <2>3
<1>. QED BY <1>1, <1>5, <1>6, <1>7 DEF rest

-----------------------------------------------------------------------------

(* A block that has enough shards is decoded to its datagrams. *)
LEMMA BlockDecoded ==
  ASSUME NEW s \in ShardType, Len(s.rows) = s.k, NEW frags, s \in frags,
         \A t \in frags : SameBlock(t, s)
  PROVE  DecodeBlock(s.k, frags) = Datagrams(s.rows)
<1>1. ASSUME NEW i \in 1..s.k PROVE Row(frags, i - 1) = s.rows[i]
  <2>0. i \in Nat /\ (i - 1) + 1 = i
    BY DEF ShardType
  <2>1. CASE \E t \in frags : t.index = i - 1
    <3>1. PICK c : c = CHOOSE t \in frags : t.index = i - 1
      OBVIOUS
    <3>2. c \in frags
      BY <2>1, <3>1
    <3>3. Row(frags, i - 1) = c.rows[(i - 1) + 1]
      BY <2>1, <3>1 DEF Row
    <3>. QED BY <2>0, <3>2, <3>3 DEF SameBlock
  <2>2. CASE ~\E t \in frags : t.index = i - 1
    <3>1. PICK c : c = CHOOSE t \in frags : TRUE
      OBVIOUS
    <3>2. c \in frags
      BY <3>1
    <3>3. \A t, u \in frags : t.rows = u.rows
      BY DEF SameBlock
    <3>4. Row(frags, i - 1) = c.rows[(i - 1) + 1]
      BY <2>2, <3>1, <3>3 DEF Row
    <3>. QED BY <2>0, <3>2, <3>4 DEF SameBlock
  <2>. QED BY <2>1, <2>2
<1>2. s.rows \in Seq(Nat \cup {EMPTY}) /\ s.k \in Nat
  BY DEF ShardType
<1>3. s.rows = [i \in 1..s.k |-> s.rows[i]]
  BY <1>2
<1>4. [i \in 1..s.k |-> Row(frags, i - 1)] = s.rows
  BY <1>1, <1>3
<1>. QED BY <1>4 DEF DecodeBlock

(* mark_done() *)
DoneAfter(f, s) ==
    LET all == Append(f.done, [id |-> s.id, rows |-> s.rows])
    IN  IF Len(all) > DONE_MAX THEN Tail(all) ELSE all

LEMMA Marked ==
  ASSUME NEW f \in Decoders, NEW s \in ShardType, NEW blocks \in Seq(OpenBlocks)
  PROVE  LET g == MarkDone([f EXCEPT !.blocks = blocks], s)
         IN  g \in Decoders /\ g.blocks = blocks /\ g.done = DoneAfter(f, s)
<1> DEFINE all == Append(f.done, [id |-> s.id, rows |-> s.rows])
<1>1. f.done \in Seq(DoneBlocks) /\ [id |-> s.id, rows |-> s.rows] \in DoneBlocks
  BY DEF Decoders, ShardType, DoneBlocks
<1>2. all \in Seq(DoneBlocks) /\ all # <<>>
  BY <1>1
<1>3. DoneAfter(f, s) \in Seq(DoneBlocks)
  BY <1>2 DEF DoneAfter
<1>4. MarkDone([f EXCEPT !.blocks = blocks], s)
        = [f EXCEPT !.blocks = blocks, !.done = DoneAfter(f, s)]
  BY DEF MarkDone, DoneAfter, Decoders
<1>. QED BY <1>3, <1>4 DEF Decoders

(* One shard more for block number i. *)
LEMMA ShardAdded ==
  ASSUME NEW f \in Decoders, NEW s \in ShardType, Len(s.rows) = s.k,
         NEW i \in DOMAIN f.blocks, f.blocks[i].k = s.k, f.blocks[i].n = s.n,
         \A t \in f.blocks[i].frags : SameBlock(t, s)
  PROVE  LET more == f.blocks[i].frags \cup {s}
         IN  \/ /\ s \in f.blocks[i].frags
                /\ AddShard(f, i, s) = [fec |-> f, out |-> <<>>]
             \/ /\ Cardinality(more) < s.k
                /\ AddShard(f, i, s) =
                     [fec |-> [f EXCEPT !.blocks = [@ EXCEPT ![i].frags = more]], out |-> <<>>]
             \/ AddShard(f, i, s) =
                  [fec |-> MarkDone([f EXCEPT !.blocks = RemoveAt(@, i)], s),
                   out |-> Datagrams(s.rows)]
<1> DEFINE b == f.blocks[i]
           more == b.frags \cup {s}
<1>1. b \in OpenBlocks
  BY DEF Decoders
<1>2. CASE \E t \in b.frags : t.index = s.index
  <2>1. PICK t \in b.frags : t.index = s.index
    BY <1>2
  <2>2. t \in ShardType
    BY <1>1 DEF OpenBlocks
  <2>3. t = s
    BY <2>1, <2>2 DEF SameBlock, ShardType
  <2>. QED BY <1>2, <2>1, <2>3 DEF AddShard
<1>3. CASE ~\E t \in b.frags : t.index = s.index
  <2>1. DecodeBlock(s.k, more) = Datagrams(s.rows)
    BY BlockDecoded DEF SameBlock
  <2>. QED BY <1>3, <2>1 DEF AddShard
<1>. QED BY <1>2, <1>3

(* push_air() of a shard: it is known, kept, or the one that was missing. *)
Known(f, s, r) == IsDone(f, s.id) /\ r.fec = f /\ r.out = <<>>

Kept(f, s, r) ==
    /\ ~IsDone(f, s.id) /\ r.out = <<>> /\ r.fec.done = f.done
    /\ s \in HeldIn(r.fec.blocks)

Completed(f, s, r) ==
    /\ ~IsDone(f, s.id) /\ r.out = Datagrams(s.rows) /\ r.fec.done = DoneAfter(f, s)

(* The oldest block is squeezed out. *)
Squeezed(f, s, t) ==
    /\ Len(f.blocks) = BLOCK_MAX /\ ~IsOpen(f, s.id) /\ ~IsDone(f, s.id)
    /\ t \in f.blocks[1].frags

PushOutcome(f, s, r) ==
    /\ r.fec \in Decoders /\ BlocksOK(r.fec.blocks)
    /\ HeldIn(r.fec.blocks) \subseteq HeldIn(f.blocks) \cup {s}
    /\ \A t \in HeldIn(f.blocks) :
          \/ t \in HeldIn(r.fec.blocks)
          \/ Squeezed(f, s, t)
          \/ Completed(f, s, r) /\ t.rows = s.rows
    /\ Known(f, s, r) \/ Kept(f, s, r) \/ Completed(f, s, r)

Fits(f, s) ==
    /\ f \in Decoders /\ BlocksOK(f.blocks)
    /\ s \in ShardType /\ s.k >= 1 /\ Len(s.rows) = s.k
    /\ \A t \in HeldIn(f.blocks) : t.id = s.id => SameBlock(t, s)

LEMMA BlockType ==
  ASSUME NEW f \in Decoders, NEW i \in DOMAIN f.blocks
  PROVE  /\ f.blocks[i] \in OpenBlocks /\ f.blocks[i].frags \subseteq ShardType
         /\ \A t \in f.blocks[i].frags : t \in HeldIn(f.blocks)
<1>1. f.blocks \in Seq(OpenBlocks)
  BY DEF Decoders
<1>2. DOMAIN f.blocks = 1..Len(f.blocks)
  BY <1>1
<1>3. f.blocks[i] \in OpenBlocks
  BY <1>1
<1>. QED BY <1>1, <1>2, <1>3, HeldMember DEF OpenBlocks

LEMMA BlocksReplaced ==
  ASSUME NEW f \in Decoders, NEW blocks \in Seq(OpenBlocks)
  PROVE  /\ [f EXCEPT !.blocks = blocks] \in Decoders
         /\ [f EXCEPT !.blocks = blocks].blocks = blocks
         /\ [f EXCEPT !.blocks = blocks].done = f.done
BY DEF Decoders

(* A shard more of an unfinished block that still lacks some. *)
LEMMA BlockGrows ==
  ASSUME NEW B \in Seq(OpenBlocks), BlocksOK(B), NEW i \in DOMAIN B, NEW s \in ShardType,
         B[i].id = s.id, B[i].k = s.k, B[i].n = s.n,
         Cardinality(B[i].frags \cup {s}) < s.k
  PROVE  LET C == [B EXCEPT ![i].frags = B[i].frags \cup {s}]
         IN  /\ C \in Seq(OpenBlocks) /\ BlocksOK(C)
             /\ HeldIn(C) = HeldIn(B) \cup {s}
<1> DEFINE more == B[i].frags \cup {s}
           b == [B[i] EXCEPT !.frags = more]
           C == [B EXCEPT ![i] = b]
<1>1. Len(B) \in Nat /\ DOMAIN B = 1..Len(B) /\ B[i] \in OpenBlocks
  OBVIOUS
<1>2. more \subseteq ShardType /\ IsFiniteSet(more) /\ Cardinality(more) < s.k /\ s \in more
  BY <1>1, FS_AddElement DEF OpenBlocks, BlocksOK, Collecting
<1>3. /\ b \in OpenBlocks /\ b.frags = more /\ b.id = s.id /\ b.k = s.k /\ b.n = s.n
  BY <1>1, <1>2 DEF OpenBlocks
<1>4. Collecting(b)
  BY <1>1, <1>2, <1>3 DEF BlocksOK, Collecting
<1> HIDE DEF b, more
<1>5. C \in Seq(OpenBlocks) /\ Len(C) = Len(B) /\ DOMAIN C = 1..Len(B)
  BY <1>1, <1>3
<1>6. \A j \in 1..Len(B) : C[j] = IF j = i THEN b ELSE B[j]
  BY <1>1
<1> HIDE DEF C
<1>7. BlocksOK(C)
  BY <1>1, <1>3, <1>4, <1>5, <1>6 DEF BlocksOK
<1>8. ASSUME NEW t PROVE t \in HeldIn(C) <=> t \in HeldIn(B) \cup {s}
  <2>1. t \in HeldIn(C) <=> \E j \in 1..Len(B) : t \in C[j].frags
    BY <1>5, HeldMember
  <2>2. t \in HeldIn(B) <=> \E j \in 1..Len(B) : t \in B[j].frags
    BY HeldMember
  <2>3. \A j \in 1..Len(B) : t \in C[j].frags <=> t \in B[j].frags \/ (j = i /\ t = s)
    BY <1>3, <1>6 DEF more
  <2>. QED BY <1>1, <2>1, <2>2, <2>3
<1>9. HeldIn(C) = HeldIn(B) \cup {s}
  BY <1>8
<1>. QED BY <1>5, <1>7, <1>9 DEF C, b, more

(* The block that was completed is taken out. *)
LEMMA BlockGone ==
  ASSUME NEW B \in Seq(OpenBlocks), BlocksOK(B), NEW i \in DOMAIN B
  PROVE  /\ RemoveAt(B, i) \in Seq(OpenBlocks) /\ BlocksOK(RemoveAt(B, i))
         /\ HeldIn(RemoveAt(B, i)) \subseteq HeldIn(B)
         /\ \A t \in HeldIn(B) : t \in HeldIn(RemoveAt(B, i)) \/ t \in B[i].frags
<1> DEFINE C == RemoveAt(B, i)
<1>0. BLOCK_MAX \in Nat
  BY BasicFecAssumption
<1>1. Len(B) \in Nat /\ DOMAIN B = 1..Len(B) /\ i \in 1..Len(B) /\ BLOCK_MAX \in Nat
  BY ONLY <1>0, B \in Seq(OpenBlocks), i \in DOMAIN B
<1>2. /\ C \in Seq(OpenBlocks) /\ Len(C) = Len(B) - 1
      /\ \A j \in 1..(Len(B) - 1) : C[j] = IF j < i THEN B[j] ELSE B[j + 1]
  BY ONLY <1>1, B \in Seq(OpenBlocks), Removed, ZenonT(40)
<1> HIDE DEF C
<1>3. DOMAIN C = 1..(Len(B) - 1)
  BY <1>1, <1>2
<1> DEFINE at(j) == IF j < i THEN j ELSE j + 1
<1>4. \A j \in 1..(Len(B) - 1) : at(j) \in 1..Len(B) /\ C[j] = B[at(j)]
  BY <1>1, <1>2
<1>5. \A j, l \in 1..(Len(B) - 1) : at(j) = at(l) => j = l
  BY <1>1
<1>6. \A j \in 1..Len(B) : j = i \/ \E l \in 1..(Len(B) - 1) : at(l) = j
  <2>1. TAKE j \in 1..Len(B)
  <2>2. CASE j < i
    <3>1. j \in 1..(Len(B) - 1) /\ at(j) = j
      BY <1>1, <2>2
    <3>. QED BY <3>1
  <2>3. CASE j > i
    <3>1. j - 1 \in 1..(Len(B) - 1) /\ at(j - 1) = j
      BY <1>1, <2>3
    <3>. QED BY <3>1
  <2>. QED BY <1>1, <2>2, <2>3
<1> HIDE DEF at
<1>7. BlocksOK(C)
  <2>1. Len(C) <= BLOCK_MAX
    BY <1>1, <1>2 DEF BlocksOK
  <2>2. \A j \in DOMAIN C : Collecting(C[j])
    BY <1>1, <1>3, <1>4 DEF BlocksOK
  <2>3. ASSUME NEW j \in DOMAIN C, NEW l \in DOMAIN C, C[j].id = C[l].id PROVE j = l
    BY <1>1, <1>3, <1>4, <1>5, <2>3 DEF BlocksOK
  <2>. QED BY <2>1, <2>2, <2>3 DEF BlocksOK
<1>8. ASSUME NEW t \in HeldIn(C) PROVE t \in HeldIn(B)
  BY <1>2, <1>3, <1>4, HeldMember
<1>9. ASSUME NEW t \in HeldIn(B), t \notin B[i].frags PROVE t \in HeldIn(C)
  <2>1. PICK j \in 1..Len(B) : t \in B[j].frags
    BY HeldMember
  <2>2. PICK l \in 1..(Len(B) - 1) : at(l) = j
    BY <1>6, <1>9, <2>1
  <2>3. l \in 1..Len(C) /\ t \in C[l].frags
    BY <1>2, <1>4, <2>1, <2>2
  <2>. QED BY <1>2, <2>3, HeldMember
<1>. QED BY <1>2, <1>7, <1>8, <1>9 DEF C

-----------------------------------------------------------------------------
LEMMA OpenShards ==
  ASSUME NEW f, NEW s, Fits(f, s), NEW i \in DOMAIN f.blocks, f.blocks[i].id = s.id
  PROVE  /\ f.blocks[i].k = s.k /\ f.blocks[i].n = s.n
         /\ \A t \in f.blocks[i].frags : SameBlock(t, s)
<1>1. Collecting(f.blocks[i]) /\ \A t \in f.blocks[i].frags : t \in HeldIn(f.blocks)
  BY BlockType DEF Fits, BlocksOK
<1>2. \A t \in f.blocks[i].frags : SameBlock(t, s) /\ t.k = f.blocks[i].k /\ t.n = f.blocks[i].n
  BY <1>1 DEF Collecting, Fits
<1>3. PICK t : t \in f.blocks[i].frags
  BY <1>1 DEF Collecting
<1>. QED BY <1>2, <1>3 DEF SameBlock

LEMMA PushOfOpen ==
  ASSUME NEW f, NEW s, Fits(f, s), ~IsDone(f, s.id), IsOpen(f, s.id)
  PROVE  PushOutcome(f, s, PushAir(f, s))
<1> DEFINE i == IndexOf(f, s.id)
           r == PushAir(f, s)
           more == f.blocks[i].frags \cup {s}
<1>1. i \in DOMAIN f.blocks /\ f.blocks[i].id = s.id
  <2>1. \E j \in DOMAIN f.blocks : f.blocks[j].id = s.id
    BY DEF IsOpen
  <2>. QED BY <2>1 DEF IndexOf
<1>2. r = AddShard(f, i, s)
  BY DEF PushAir
<1> HIDE DEF i
<1>3. /\ f \in Decoders /\ f.blocks \in Seq(OpenBlocks) /\ BlocksOK(f.blocks)
      /\ s \in ShardType /\ Len(s.rows) = s.k
  BY DEF Fits, Decoders
<1>4. /\ f.blocks[i].k = s.k /\ f.blocks[i].n = s.n
      /\ \A t \in f.blocks[i].frags : SameBlock(t, s) /\ t \in HeldIn(f.blocks)
  BY <1>1, <1>3, OpenShards, BlockType
<1>5. CASE s \in f.blocks[i].frags /\ r = [fec |-> f, out |-> <<>>]
  <2>1. Kept(f, s, r)
    BY <1>4, <1>5 DEF Kept
  <2>. QED BY <1>3, <1>5, <2>1 DEF PushOutcome
<1>6. CASE /\ Cardinality(more) < s.k
           /\ r = [fec |-> [f EXCEPT !.blocks = [@ EXCEPT ![i].frags = more]], out |-> <<>>]
  <2> DEFINE C == [f.blocks EXCEPT ![i].frags = more]
  <2>1. C \in Seq(OpenBlocks) /\ BlocksOK(C) /\ HeldIn(C) = HeldIn(f.blocks) \cup {s}
    BY <1>1, <1>3, <1>4, <1>6, BlockGrows
  <2> HIDE DEF C
  <2>2. r.fec = [f EXCEPT !.blocks = C] /\ r.out = <<>>
    BY <1>6 DEF C
  <2>3. r.fec \in Decoders /\ r.fec.blocks = C /\ r.fec.done = f.done
    BY <1>3, <2>1, <2>2, BlocksReplaced
  <2> HIDE DEF r
  <2>4. Kept(f, s, r)
    BY <2>1, <2>2, <2>3 DEF Kept
  <2>9. PushOutcome(f, s, r)
    BY <2>1, <2>3, <2>4 DEF PushOutcome
  <2>. QED BY <2>9 DEF r
<1>7. CASE r = [fec |-> MarkDone([f EXCEPT !.blocks = RemoveAt(@, i)], s),
                out |-> Datagrams(s.rows)]
  <2> DEFINE C == RemoveAt(f.blocks, i)
  <2>1. /\ C \in Seq(OpenBlocks) /\ BlocksOK(C) /\ HeldIn(C) \subseteq HeldIn(f.blocks)
        /\ \A t \in HeldIn(f.blocks) : t \in HeldIn(C) \/ t \in f.blocks[i].frags
    BY <1>1, <1>3, BlockGone
  <2> HIDE DEF C
  <2>2. r.fec = MarkDone([f EXCEPT !.blocks = C], s) /\ r.out = Datagrams(s.rows)
    BY <1>7 DEF C
  <2>3. r.fec \in Decoders /\ r.fec.blocks = C /\ r.fec.done = DoneAfter(f, s)
    BY <1>3, <2>1, <2>2, Marked
  <2> HIDE DEF r
  <2>4. Completed(f, s, r)
    BY <2>2, <2>3 DEF Completed
  <2>5. \A t \in HeldIn(f.blocks) : t \in HeldIn(C) \/ t.rows = s.rows
    BY <1>4, <2>1 DEF SameBlock
  <2>9. PushOutcome(f, s, r)
    BY <2>1, <2>3, <2>4, <2>5 DEF PushOutcome
  <2>. QED BY <2>9 DEF r
<1>. QED BY <1>1, <1>2, <1>3, <1>4, <1>5, <1>6, <1>7, ShardAdded

LEMMA RoomMade ==
  ASSUME NEW f \in Decoders, BlocksOK(f.blocks), NEW s, ~IsOpen(f, s.id), ~IsDone(f, s.id)
  PROVE  /\ Room(f.blocks) \in Seq(OpenBlocks) /\ BlocksOK(Room(f.blocks))
         /\ Len(Room(f.blocks)) < BLOCK_MAX
         /\ HeldIn(Room(f.blocks)) \subseteq HeldIn(f.blocks)
         /\ \A i \in DOMAIN Room(f.blocks) : Room(f.blocks)[i].id # s.id
         /\ \A t \in HeldIn(f.blocks) : t \in HeldIn(Room(f.blocks)) \/ Squeezed(f, s, t)
<1> DEFINE B == f.blocks
<1>1. B \in Seq(OpenBlocks) /\ Len(B) \in Nat /\ DOMAIN B = 1..Len(B)
      /\ BLOCK_MAX \in Nat \ {0} /\ Len(B) <= BLOCK_MAX
  BY BasicFecAssumption DEF Decoders, BlocksOK
<1>2. \A i \in DOMAIN B : B[i].id # s.id
  BY DEF IsOpen
<1>3. CASE Len(B) < BLOCK_MAX
  BY <1>1, <1>2, <1>3 DEF Room
<1>4. CASE ~(Len(B) < BLOCK_MAX)
  <2>1. Len(B) = BLOCK_MAX /\ B # <<>> /\ Room(B) = Tail(B)
    BY <1>1, <1>4 DEF Room
  <2>2. Room(B) = DropOldest(B, 1) /\ 1 \in 0..Len(B)
    BY <1>1, <2>1, TailDrops
  <2>3. /\ Room(B) \in Seq(OpenBlocks) /\ BlocksOK(Room(B))
        /\ HeldIn(Room(B)) \subseteq HeldIn(B)
        /\ \A t \in HeldIn(B) : \/ t \in HeldIn(Room(B))
                                \/ \E i \in 1..1 : t \in B[i].frags
    BY <1>1, <2>2, BlocksDropped
  <2>4. /\ Len(Room(B)) = Len(B) - 1
        /\ \A i \in 1..(Len(B) - 1) : Room(B)[i] = B[i + 1]
    <3>1. B \in Seq(OpenBlocks) /\ 1 \in 0..Len(B)
      BY <1>1, <2>2
    <3>2. /\ Len(DropOldest(B, 1)) = Len(B) - 1
          /\ \A i \in 1..(Len(B) - 1) : DropOldest(B, 1)[i] = B[i + 1]
      BY ONLY <3>1, Dropped, ZenonT(40)
    <3>. QED BY ONLY <2>2, <3>2
  <2>5. \A i \in DOMAIN Room(B) : Room(B)[i].id # s.id
    <3>1. DOMAIN Room(B) = 1..(Len(B) - 1)
      BY <2>3, <2>4
    <3>2. \A i \in 1..(Len(B) - 1) : i + 1 \in DOMAIN B
      BY <1>1
    <3>. QED BY <1>2, <2>4, <3>1, <3>2
  <2>6. \A t \in HeldIn(B) : t \in HeldIn(Room(B)) \/ Squeezed(f, s, t)
    <3>1. \A i \in 1..1 : i = 1
      OBVIOUS
    <3>. QED BY <2>1, <2>3, <3>1 DEF Squeezed
  <2>. QED BY <1>1, <2>1, <2>3, <2>4, <2>5, <2>6
<1>. QED BY <1>3, <1>4

(* A block begins with the first of its shards. *)
LEMMA BlockBegun ==
  ASSUME NEW B \in Seq(OpenBlocks), BlocksOK(B), Len(B) < BLOCK_MAX, NEW s \in ShardType,
         \A i \in DOMAIN B : B[i].id # s.id, 1 < s.k
  PROVE  LET C == Append(B, [id |-> s.id, k |-> s.k, n |-> s.n, frags |-> {s}])
         IN  C \in Seq(OpenBlocks) /\ BlocksOK(C) /\ HeldIn(C) = HeldIn(B) \cup {s}
<1> DEFINE b == [id |-> s.id, k |-> s.k, n |-> s.n, frags |-> {s}]
           C == Append(B, b)
<1>1. b \in OpenBlocks /\ b.id = s.id /\ b.frags = {s}
  BY DEF OpenBlocks, ShardType
<1>2. Collecting(b)
  <2>1. IsFiniteSet({s}) /\ Cardinality({s}) = 1
    BY FS_Singleton
  <2>. QED BY <2>1 DEF Collecting
<1>3. Len(B) \in Nat /\ DOMAIN B = 1..Len(B) /\ BLOCK_MAX \in Nat
  BY BasicFecAssumption
<1> HIDE DEF b
<1>4. /\ C \in Seq(OpenBlocks) /\ Len(C) = Len(B) + 1 /\ C[Len(B) + 1] = b
      /\ \A i \in 1..Len(B) : C[i] = B[i]
      /\ DOMAIN C = 1..(Len(B) + 1)
  BY <1>1
<1>5. ToSet(C) = ToSet(B) \cup {b}
  BY <1>1, SetOfAppend
<1> HIDE DEF C
<1>6. BlocksOK(C)
  <2>1. \A i \in DOMAIN C : (i \in DOMAIN B /\ C[i] = B[i]) \/ (i = Len(B) + 1 /\ C[i] = b)
    BY <1>3, <1>4
  <2>2. Len(C) <= BLOCK_MAX
    BY <1>3, <1>4
  <2>. QED BY <1>1, <1>2, <2>1, <2>2 DEF BlocksOK
<1>7. HeldIn(C) = HeldIn(B) \cup {s}
  BY <1>1, <1>5 DEF HeldIn
<1>. QED BY <1>4, <1>6, <1>7 DEF C, b

LEMMA PushOfNew ==
  ASSUME NEW f, NEW s, Fits(f, s), ~IsDone(f, s.id), ~IsOpen(f, s.id)
  PROVE  PushOutcome(f, s, PushAir(f, s))
<1> DEFINE B == Room(f.blocks)
           empty == NewBlock(s)
           A == Append(B, empty)
           g == [f EXCEPT !.blocks = Append(Room(@), empty)]
           r == PushAir(f, s)
<1>1. /\ f \in Decoders /\ BlocksOK(f.blocks) /\ f.blocks \in Seq(OpenBlocks)
      /\ s \in ShardType /\ Len(s.rows) = s.k /\ s.k >= 1 /\ s.k \in Nat
  BY DEF Fits, ShardType, Decoders
<1>2. /\ B \in Seq(OpenBlocks) /\ BlocksOK(B) /\ Len(B) < BLOCK_MAX
      /\ HeldIn(B) \subseteq HeldIn(f.blocks)
      /\ \A i \in DOMAIN B : B[i].id # s.id
      /\ \A t \in HeldIn(f.blocks) : t \in HeldIn(B) \/ Squeezed(f, s, t)
  BY <1>1, RoomMade
<1>3. empty \in OpenBlocks /\ empty.k = s.k /\ empty.n = s.n /\ empty.frags = {}
      /\ empty.id = s.id
  BY <1>1 DEF NewBlock, OpenBlocks, ShardType
<1> HIDE DEF B, empty
<1>4. /\ A \in Seq(OpenBlocks) /\ Len(A) = Len(B) + 1 /\ A[Len(B) + 1] = empty
      /\ Len(B) \in Nat /\ DOMAIN A = 1..(Len(B) + 1)
      /\ \A i \in 1..Len(B) : A[i] = B[i]
  BY <1>2, <1>3
<1> HIDE DEF A
<1>5. g = [f EXCEPT !.blocks = A]
  BY DEF A, B, g
<1> HIDE DEF g
<1>6. g \in Decoders /\ g.blocks = A /\ g.done = f.done
  BY <1>1, <1>4, <1>5, BlocksReplaced
<1> DEFINE l == Len(A)
<1>7. r = AddShard(g, l, s)
  BY <1>6 DEF PushAir, g, empty
<1>8. l \in DOMAIN A /\ A[l] = empty /\ l = Len(B) + 1
  BY <1>4
<1> HIDE DEF l, r
<1>9. \/ s \in {} /\ r = [fec |-> g, out |-> <<>>]
      \/ /\ Cardinality({s}) < s.k
         /\ r = [fec |-> [g EXCEPT !.blocks = [@ EXCEPT ![l].frags = {} \cup {s}]], out |-> <<>>]
      \/ r = [fec |-> MarkDone([g EXCEPT !.blocks = RemoveAt(@, l)], s),
              out |-> Datagrams(s.rows)]
  BY <1>1, <1>3, <1>6, <1>7, <1>8, ShardAdded
<1>10. CASE /\ Cardinality({s}) < s.k
            /\ r = [fec |-> [g EXCEPT !.blocks = [@ EXCEPT ![l].frags = {} \cup {s}]],
                    out |-> <<>>]
  <2> DEFINE b == [id |-> s.id, k |-> s.k, n |-> s.n, frags |-> {s}]
             C == Append(B, b)
  <2>1. 1 < s.k
    BY <1>10, FS_Singleton
  <2>2. C \in Seq(OpenBlocks) /\ BlocksOK(C) /\ HeldIn(C) = HeldIn(B) \cup {s}
    BY <1>1, <1>2, <2>1, BlockBegun
  <2>3. [A EXCEPT ![l].frags = {} \cup {s}] = C
    <3>1. [empty EXCEPT !.frags = {} \cup {s}] = b
      BY DEF empty, NewBlock
    <3> HIDE DEF b
    <3>2. [A EXCEPT ![l].frags = {} \cup {s}] = [A EXCEPT ![l] = b]
      BY <1>8, <3>1
    <3>3. b \in OpenBlocks
      BY <1>1 DEF b, OpenBlocks, ShardType
    <3>4. A = [i \in 1..(Len(B) + 1) |-> A[i]]
      BY <1>4
    <3>5. /\ C \in Seq(OpenBlocks) /\ Len(C) = Len(B) + 1 /\ C[Len(B) + 1] = b
          /\ \A i \in 1..Len(B) : C[i] = B[i]
      BY <1>2, <3>3
    <3> HIDE DEF C
    <3>6. C = [i \in 1..(Len(B) + 1) |-> C[i]]
      BY <3>5
    <3>7. \A i \in 1..(Len(B) + 1) : C[i] = IF i = l THEN b ELSE A[i]
      BY <1>4, <1>8, <3>5
    <3>8. [A EXCEPT ![l] = b] = [i \in 1..(Len(B) + 1) |-> IF i = l THEN b ELSE A[i]]
      BY <3>4, <1>4
    <3>. QED BY <3>2, <3>6, <3>7, <3>8
  <2> HIDE DEF C
  <2>4. r.fec = [f EXCEPT !.blocks = C] /\ r.out = <<>>
    <3>1. [g EXCEPT !.blocks = [@ EXCEPT ![l].frags = {} \cup {s}]] = [g EXCEPT !.blocks = C]
      BY <1>6, <2>3
    <3>2. [g EXCEPT !.blocks = C] = [f EXCEPT !.blocks = C]
      BY <1>5, <1>1 DEF Decoders
    <3>. QED BY <1>10, <3>1, <3>2
  <2>5. r.fec \in Decoders /\ r.fec.blocks = C /\ r.fec.done = f.done
    BY <1>1, <2>2, <2>4, BlocksReplaced
  <2>6. Kept(f, s, r)
    BY <2>2, <2>4, <2>5 DEF Kept
  <2>9. PushOutcome(f, s, r)
    BY <1>2, <2>2, <2>5, <2>6 DEF PushOutcome
  <2>. QED BY <2>9 DEF r
<1>11. CASE r = [fec |-> MarkDone([g EXCEPT !.blocks = RemoveAt(@, l)], s),
                 out |-> Datagrams(s.rows)]
  <2>1. RemoveAt(A, l) = B
    <3>1. /\ RemoveAt(A, l) \in Seq(OpenBlocks) /\ Len(RemoveAt(A, l)) = Len(B)
          /\ \A i \in 1..Len(B) : RemoveAt(A, l)[i] = IF i < l THEN A[i] ELSE A[i + 1]
      BY <1>4, <1>8, Removed
    <3>2. \A i \in 1..Len(B) : RemoveAt(A, l)[i] = B[i]
      BY <1>4, <1>8, <3>1
    <3> DEFINE R == RemoveAt(A, l)
    <3> HIDE DEF R
    <3>3. R = [i \in 1..Len(B) |-> R[i]]
      BY <3>1 DEF R
    <3>4. B = [i \in 1..Len(B) |-> B[i]]
      BY <1>2
    <3>5. \A i \in 1..Len(B) : R[i] = B[i]
      BY <3>2 DEF R
    <3>6. R = B
      BY <3>3, <3>4, <3>5
    <3>. QED BY <3>6 DEF R
  <2>2. [g EXCEPT !.blocks = RemoveAt(@, l)] = [f EXCEPT !.blocks = B]
    <3>1. [g EXCEPT !.blocks = RemoveAt(@, l)] = [g EXCEPT !.blocks = B]
      BY <1>6, <2>1
    <3>2. [g EXCEPT !.blocks = B] = [f EXCEPT !.blocks = B]
      BY <1>5, <1>1 DEF Decoders
    <3>. QED BY <3>1, <3>2
  <2>3. r.fec = MarkDone([f EXCEPT !.blocks = B], s) /\ r.out = Datagrams(s.rows)
    BY <1>11, <2>2
  <2>4. r.fec \in Decoders /\ r.fec.blocks = B /\ r.fec.done = DoneAfter(f, s)
    BY <1>1, <1>2, <2>3, Marked
  <2>5. Completed(f, s, r)
    BY <2>3, <2>4 DEF Completed
  <2>9. PushOutcome(f, s, r)
    BY <1>2, <2>4, <2>5 DEF PushOutcome
  <2>. QED BY <2>9 DEF r
<1>. QED BY <1>9, <1>10, <1>11

LEMMA PushAirOutcome ==
  ASSUME NEW f, NEW s, Fits(f, s)
  PROVE  PushOutcome(f, s, PushAir(f, s))
<1>1. CASE IsDone(f, s.id)
  <2>1. PushAir(f, s) = [fec |-> f, out |-> <<>>]
    BY <1>1 DEF PushAir
  <2>. QED BY <1>1, <2>1 DEF PushOutcome, Known, Fits
<1>. QED BY <1>1, PushOfOpen, PushOfNew

-----------------------------------------------------------------------------
(***************************************************************************)
(* The stream.  Whatever is under way -- delivered, held in unfinished     *)
(* blocks, in the air, queued, pending -- is in the order of sending.      *)
(***************************************************************************)
DataIn(p) == IF p.kind = "plain" THEN {p.body.data} ELSE DataOf(p.body.rows)

Below(X, Y) == \A x \in X, y \in Y : x < y

(* PDU q is later than p, or both are shards of one block. *)
Follows(p, q) ==
    \/ Below(DataIn(p), DataIn(q))
    \/ p.kind = "shard" /\ q.kind = "shard" /\ SameBlock(p.body, q.body)

InLine(pdus) == \A i, j \in DOMAIN pdus : i < j => Follows(pdus[i], pdus[j])

(* The PDU in the air is not one that is received again. *)
Coming == air # <<>> /\ (history.count > 0 => air[1].num # history.last)

Waiting       == ToSet(queue) \cup {p \in {air[1].pdu} : Coming}
WaitingShards == {p.body : p \in {q \in Waiting : q.kind = "shard"}}
Held          == HeldIn(peer.fec.blocks)
Live          == WaitingShards \cup Held

WaitingData == UNION {DataIn(p) : p \in Waiting}
HeldData    == UNION {DataOf(s.rows) : s \in Held}

Old == ToSet(history.delivered) \cup WaitingData \cup HeldData

ShardOK(s) ==
    /\ s \in ShardType /\ s.k >= 1 /\ Len(s.rows) = s.k
    /\ Ascending(s.rows) /\ s.rows[1] # EMPTY

StreamType ==
    /\ peer.fec \in Decoders
    /\ history.delivered \in Seq(Nat)
    /\ air # <<>> => air[1].pdu \in Pdus

LineOK ==
    /\ InLine(queue)
    /\ Coming => \A q \in ToSet(queue) : Follows(air[1].pdu, q)

(* Shards with one number are of one block. *)
LiveOK ==
    \A s \in Live :
        /\ ShardOK(s)
        /\ \A t \in Live : s.id = t.id \/ s.rows = t.rows => SameBlock(s, t)

PendingOK ==
    /\ Old \subseteq 1..history.sent
    /\ ToSet(fec.pending) \subseteq 1..history.sent
    /\ Below(Old, ToSet(fec.pending))
    /\ Increasing(fec.pending)
    /\ fec.pending = <<>> \/ Len(fec.pending) < fec.k

(* What is remembered as finished was delivered. *)
DoneOK ==
    \A d \in ToSet(peer.fec.done) :
        /\ DataOf(d.rows) # {} /\ DataOf(d.rows) \subseteq ToSet(history.delivered)
        /\ \A s \in WaitingShards : s.id = d.id => s.rows = d.rows

(* What is still to come is later than what was delivered, or a shard of a *)
(* finished block.                                                         *)
Decoded(p) == p.kind = "shard" /\ IsDone(peer.fec, p.body.id)

NewOK == \A p \in Waiting : Decoded(p) \/ Below(ToSet(history.delivered), DataIn(p))

RecoverOK ==
    \A s \in history.shards :
        DataOf(s.rows) \subseteq ToSet(history.delivered) \/ s \in Held

StreamInv ==
    /\ StreamType /\ LineOK /\ LiveOK /\ PendingOK /\ BlocksOK(peer.fec.blocks)
    /\ DoneOK /\ NewOK /\ RecoverOK
    /\ Increasing(history.delivered)

LEMMA ShardData ==
  ASSUME NEW s, ShardOK(s)
  PROVE  DataOf(s.rows) # {}
<1>1. s.rows \in Seq(Nat \cup {EMPTY}) /\ Len(s.rows) >= 1
  BY DEF ShardOK, ShardType
<1>2. 1 \in DOMAIN s.rows
  BY <1>1
<1>. QED BY <1>2 DEF ShardOK, DataOf, ToSet

LEMMA IsDoneSet ==
  ASSUME NEW f, NEW i
  PROVE  IsDone(f, i) <=> \E d \in ToSet(f.done) : d.id = i
BY DEF IsDone, ToSet

LEMMA WaitingShardLive == WaitingShards \subseteq Live /\ Held \subseteq Live
BY DEF Live

LEMMA OldMembers ==
  \A x : x \in Old <=> \/ x \in ToSet(history.delivered)
                       \/ \E p \in Waiting : x \in DataIn(p)
                       \/ \E s \in Held : x \in DataOf(s.rows)
<1>1. \A x : x \in WaitingData <=> \E p \in Waiting : x \in DataIn(p)
  BY DEF WaitingData
<1>2. \A x : x \in HeldData <=> \E s \in Held : x \in DataOf(s.rows)
  BY DEF HeldData
<1>. QED BY <1>1, <1>2 DEF Old

LEMMA WaitingOld == \A p \in Waiting : DataIn(p) \subseteq Old
BY OldMembers

-----------------------------------------------------------------------------
(***************************************************************************)
(* Encoding.                                                               *)
(***************************************************************************)

(* The rows of a block hold what was pending. *)
LEMMA RowsHoldPending ==
  ASSUME NEW f \in Encoders, f.pending # <<>>, Len(f.pending) <= f.k,
         NEW m \in Nat, ToSet(f.pending) \subseteq 1..m, Increasing(f.pending)
  PROVE  /\ Rows(f) \in Seq(Nat \cup {EMPTY}) /\ Len(Rows(f)) = f.k /\ f.k >= 1
         /\ DataOf(Rows(f)) = ToSet(f.pending) /\ Ascending(Rows(f)) /\ Rows(f)[1] # EMPTY
<1> DEFINE p == f.pending
           l == Len(p)
<1>1. f.k \in Nat /\ p \in Seq(Nat) /\ l \in Nat /\ l >= 1 /\ DOMAIN p = 1..l
  BY DEF Encoders
<1>2. f.k >= 1 /\ l <= f.k
  BY <1>1
<1>3. Rows(f) = [i \in 1..f.k |-> IF i <= l THEN p[i] ELSE EMPTY]
  BY DEF Rows
<1> HIDE DEF l
<1>4. \A i \in 1..l : p[i] \in Nat /\ p[i] # EMPTY
  <2>1. \A i \in 1..l : p[i] \in ToSet(p)
    BY <1>1 DEF ToSet
  <2>2. \A x \in 1..m : x \in Nat \ {0}
    OBVIOUS
  <2>. QED BY <2>1, <2>2, UdpLinkAssumption
<1> DEFINE R == Rows(f)
<1>5. R \in [1..f.k -> Nat \cup {EMPTY}] /\ DOMAIN R = 1..f.k
  BY <1>1, <1>3, <1>4
<1>6. R \in Seq(Nat \cup {EMPTY}) /\ Len(R) = f.k
  BY <1>1, <1>5
<1>7. \A i \in 1..l : i \in 1..f.k /\ R[i] = p[i]
  BY <1>1, <1>2, <1>3
<1>8. \A i \in 1..f.k : R[i] # EMPTY => i \in 1..l
  BY <1>1, <1>3
<1> HIDE DEF R
<1>9. DataOf(R) = ToSet(p)
  <2>1. ASSUME NEW x \in DataOf(R) PROVE x \in ToSet(p)
    <3>1. PICK i \in 1..f.k : x = R[i] /\ R[i] # EMPTY
      BY <1>5 DEF DataOf, ToSet
    <3>. QED BY <1>1, <1>7, <1>8, <3>1 DEF ToSet
  <2>2. ASSUME NEW x \in ToSet(p) PROVE x \in DataOf(R)
    <3>1. PICK i \in 1..l : x = p[i]
      BY <1>1 DEF ToSet
    <3>. QED BY <1>4, <1>5, <1>7, <3>1 DEF DataOf, ToSet
  <2>. QED BY <2>1, <2>2
<1>10. Ascending(R)
  BY <1>1, <1>5, <1>7, <1>8 DEF Ascending, Increasing
<1>11. R[1] # EMPTY
  BY <1>1, <1>4, <1>7
<1>. QED BY <1>2, <1>6, <1>9, <1>10, <1>11 DEF R

(* PDUs with new data. *)
Fresh(pdus, data) ==
    /\ pdus \in Seq(Pdus) /\ InLine(pdus)
    /\ \A p \in ToSet(pdus) : DataIn(p) = data /\ data # {} /\ (p.kind = "shard" => ShardOK(p.body))
    /\ \A p, q \in ToSet(pdus) : p.kind = "shard" /\ q.kind = "shard" => SameBlock(p.body, q.body)

LEMMA FlushIsFresh ==
  ASSUME NEW f \in Encoders, f.pending = <<>> \/ Len(f.pending) <= f.k,
         NEW m \in Nat, ToSet(f.pending) \subseteq 1..m, Increasing(f.pending)
  PROVE  /\ Fresh(Shards(Flush(f).out), ToSet(f.pending))
         /\ Flush(f).fec \in Encoders
         /\ Flush(f).fec.pending = <<>>
<1> DEFINE r == Flush(f)
           pdus == Shards(r.out)
           data == ToSet(f.pending)
<1>1. f.pending \in Seq(Nat) /\ f.k \in Nat /\ f.n \in Nat /\ f.block_id \in Nat
  BY DEF Encoders
<1>2. r.fec \in Encoders /\ r.out \in Seq(ShardType) /\ pdus \in Seq(Pdus)
  BY Flushed, ShardsArePdus
<1>3. CASE f.pending = <<>>
  <2>1. r.out = <<>> /\ r.fec = f
    BY <1>3 DEF Flush
  <2>2. DOMAIN pdus = {}
    BY <2>1 DEF Shards
  <2>3. ToSet(pdus) = {}
    BY <2>2 DEF ToSet
  <2>. QED BY <1>2, <1>3, <2>1, <2>2, <2>3 DEF Fresh, InLine
<1>4. CASE f.pending # <<>>
  <2>1. /\ Rows(f) \in Seq(Nat \cup {EMPTY}) /\ Len(Rows(f)) = f.k /\ f.k >= 1
        /\ DataOf(Rows(f)) = data /\ Ascending(Rows(f)) /\ Rows(f)[1] # EMPTY
    BY <1>4, RowsHoldPending
  <2>2. /\ r.out = EncodeBlock(f)
        /\ r.fec = [f EXCEPT !.pending = <<>>, !.block_id = (f.block_id + 1) % BLOCK_MOD]
    BY <1>1, <1>4, <2>1 DEF Flush, Enabled
  <2>3. r.fec.pending = <<>>
    BY <2>2 DEF Encoders
  <2>4. DOMAIN pdus = 1..f.n
    BY <2>2 DEF Shards, EncodeBlock
  <2>5. ASSUME NEW i \in 1..f.n
        PROVE  /\ pdus[i].kind = "shard" /\ pdus[i].body.rows = Rows(f)
               /\ pdus[i].body.id = f.block_id /\ pdus[i].body.k = f.k /\ pdus[i].body.n = f.n
               /\ pdus[i].body \in ShardType
    <3>1. pdus[i] = [kind |-> "shard", body |-> EncodeBlock(f)[i]]
      BY <2>2, <2>4 DEF Shards
    <3>2. EncodeBlock(f)[i] = [id |-> f.block_id, index |-> i - 1,
                               k |-> f.k, n |-> f.n, rows |-> Rows(f)]
      BY DEF EncodeBlock
    <3>3. i - 1 \in Nat
      BY <1>1
    <3>. QED BY <1>1, <2>1, <3>1, <3>2, <3>3 DEF ShardType
  <2>6. data # {}
    <3>1. 1 \in DOMAIN f.pending
      BY <1>1, <1>4
    <3>. QED BY <3>1 DEF ToSet
  <2> HIDE DEF pdus, data, r
  <2>7. ASSUME NEW p \in ToSet(pdus)
        PROVE  p.kind = "shard" /\ DataIn(p) = data /\ ShardOK(p.body)
    <3>1. PICK i \in 1..f.n : p = pdus[i]
      BY <2>4 DEF ToSet
    <3>2. p.kind = "shard" /\ p.body.rows = Rows(f) /\ p.body.k = f.k /\ p.body \in ShardType
      BY <2>5, <3>1
    <3>. QED BY <2>1, <3>2 DEF DataIn, ShardOK
  <2>8. \A p, q \in ToSet(pdus) : SameBlock(p.body, q.body)
    BY <2>4, <2>5 DEF ToSet, SameBlock
  <2>9. InLine(pdus)
    <3>1. \A i \in DOMAIN pdus : pdus[i] \in ToSet(pdus)
      BY DEF ToSet
    <3>. QED BY <2>7, <2>8, <3>1 DEF InLine, Follows
  <2>10. Fresh(pdus, data)
    BY <1>2, <2>6, <2>7, <2>8, <2>9 DEF Fresh, pdus, r
  <2>. QED BY <1>2, <2>3, <2>10 DEF pdus, data, r
<1>. QED BY <1>3, <1>4

-----------------------------------------------------------------------------
(***************************************************************************)
(* PDUs are queued.                                                        *)
(***************************************************************************)
LEMMA LineConcat ==
  ASSUME NEW a \in Seq(Pdus), NEW b \in Seq(Pdus), InLine(a), InLine(b),
         \A p \in ToSet(a), q \in ToSet(b) : Follows(p, q)
  PROVE  InLine(a \o b)
<1> DEFINE c == a \o b
<1>1. /\ Len(a) \in Nat /\ Len(b) \in Nat /\ DOMAIN a = 1..Len(a) /\ DOMAIN b = 1..Len(b)
      /\ DOMAIN c = 1..(Len(a) + Len(b))
      /\ \A i \in 1..(Len(a) + Len(b)) : c[i] = IF i <= Len(a) THEN a[i] ELSE b[i - Len(a)]
  OBVIOUS
<1> HIDE DEF c
<1>2. ASSUME NEW i \in DOMAIN c, NEW j \in DOMAIN c, i < j PROVE Follows(c[i], c[j])
  <2>1. CASE j <= Len(a)
    <3>1. i \in DOMAIN a /\ j \in DOMAIN a /\ c[i] = a[i] /\ c[j] = a[j]
      BY <1>1, <1>2, <2>1
    <3>. QED BY <1>2, <3>1 DEF InLine
  <2>2. CASE i <= Len(a) /\ ~(j <= Len(a))
    <3>1. i \in DOMAIN a /\ j - Len(a) \in DOMAIN b /\ c[i] = a[i] /\ c[j] = b[j - Len(a)]
      BY <1>1, <1>2, <2>2
    <3>2. a[i] \in ToSet(a) /\ b[j - Len(a)] \in ToSet(b)
      BY <3>1 DEF ToSet
    <3>. QED BY <3>1, <3>2
  <2>3. CASE ~(i <= Len(a))
    <3>1. /\ i - Len(a) \in DOMAIN b /\ j - Len(a) \in DOMAIN b /\ i - Len(a) < j - Len(a)
          /\ c[i] = b[i - Len(a)] /\ c[j] = b[j - Len(a)]
      BY <1>1, <1>2, <2>3
    <3>. QED BY <3>1 DEF InLine
  <2>. QED BY <1>1, <1>2, <2>1, <2>2, <2>3
<1>. QED BY <1>2 DEF InLine, c

LEMMA LineDropped ==
  ASSUME NEW a \in Seq(Pdus), InLine(a), NEW n \in 0..Len(a)
  PROVE  InLine(DropOldest(a, n))
<1> DEFINE c == DropOldest(a, n)
<1>1. /\ Len(a) \in Nat /\ n \in Nat /\ DOMAIN a = 1..Len(a)
      /\ c \in Seq(Pdus) /\ Len(c) = Len(a) - n
      /\ \A i \in 1..(Len(a) - n) : c[i] = a[i + n]
  BY Dropped
<1> HIDE DEF c
<1>2. DOMAIN c = 1..(Len(a) - n)
  BY <1>1
<1>3. ASSUME NEW i \in DOMAIN c, NEW j \in DOMAIN c, i < j PROVE Follows(c[i], c[j])
  <2>1. i + n \in DOMAIN a /\ j + n \in DOMAIN a /\ i + n < j + n
        /\ c[i] = a[i + n] /\ c[j] = a[j + n]
    BY <1>1, <1>2, <1>3
  <2>. QED BY <2>1 DEF InLine
<1>. QED BY <1>3 DEF InLine, c

LEMMA LineEnqueued ==
  ASSUME queue \in Seq(Pdus), InLine(queue), NEW pdus \in Seq(Pdus), InLine(pdus),
         \A p \in ToSet(queue), q \in ToSet(pdus) : Follows(p, q)
  PROVE  InLine(Enqueued(pdus)) /\ ToSet(Enqueued(pdus)) \subseteq ToSet(queue) \cup ToSet(pdus)
<1> DEFINE all == queue \o pdus
<1>1. all \in Seq(Pdus) /\ Len(all) \in Nat /\ TXQ_MAX \in Nat
  BY UdpLinkAssumption
<1>2. InLine(all) /\ ToSet(all) = ToSet(queue) \cup ToSet(pdus)
  BY LineConcat, SetOfConcat
<1>3. \/ Enqueued(pdus) = all
      \/ Len(all) > TXQ_MAX /\ Enqueued(pdus) = DropOldest(all, Len(all) - TXQ_MAX)
  BY DEF Enqueued
<1> HIDE DEF all
<1>4. CASE Len(all) > TXQ_MAX /\ Enqueued(pdus) = DropOldest(all, Len(all) - TXQ_MAX)
  <2>1. Len(all) - TXQ_MAX \in 0..Len(all)
    BY <1>1, <1>4
  <2>. QED BY <1>1, <1>2, <1>4, <2>1, LineDropped, Dropped
<1>. QED BY <1>2, <1>3, <1>4

LEMMA HeldNumbers ==
  ASSUME StreamInv, NEW t \in Held
  PROVE  \E b \in ToSet(peer.fec.blocks) : b.id = t.id
<1>1. peer.fec.blocks \in Seq(OpenBlocks)
  BY DEF StreamInv, StreamType, Decoders
<1>2. PICK i \in 1..Len(peer.fec.blocks) : t \in peer.fec.blocks[i].frags
  BY <1>1, HeldMember DEF Held
<1>3. i \in DOMAIN peer.fec.blocks
  BY <1>1
<1>4. t.id = peer.fec.blocks[i].id
  BY <1>2, <1>3 DEF StreamInv, BlocksOK, Collecting
<1>. QED BY <1>3, <1>4 DEF ToSet

(* New data at the end of the line, under a number that is free. *)
LEMMA EnqueueKeeps ==
  ASSUME StreamInv, QueueType, air = <<>>, air' = <<>>, UNCHANGED peer,
         history'.delivered = history.delivered, history'.shards = history.shards,
         history'.sent \in Nat, history.sent <= history'.sent,
         NEW pdus, NEW data, Fresh(pdus, data), queue' = Enqueued(pdus), NumberFree,
         data \subseteq 1..history'.sent, Below(Old, data),
         ToSet(fec'.pending) \subseteq 1..history'.sent,
         Below(Old \cup data, ToSet(fec'.pending)),
         Increasing(fec'.pending),
         fec'.pending = <<>> \/ Len(fec'.pending) < fec'.k
  PROVE  StreamInv'
<1>1. ~Coming /\ ~Coming'
  BY DEF Coming
<1>2. Waiting = ToSet(queue) /\ Waiting' = ToSet(queue')
  BY <1>1 DEF Waiting
<1>3. Held' = Held
  BY DEF Held
<1>4. \A p \in ToSet(queue), q \in ToSet(pdus) : Follows(p, q)
  BY <1>2, WaitingOld DEF Follows, Fresh, Below
<1>5. InLine(queue') /\ ToSet(queue') \subseteq ToSet(queue) \cup ToSet(pdus)
  BY <1>4, LineEnqueued DEF Fresh, QueueType, StreamInv, LineOK
<1>6. ASSUME NEW s \in WaitingShards'
      PROVE  \/ s \in WaitingShards
             \/ /\ ShardOK(s) /\ DataOf(s.rows) = data /\ s.id \notin Taken
                /\ \E p \in ToSet(pdus) : p.kind = "shard" /\ p.body = s
  <2>1. PICK p \in ToSet(queue') : p.kind = "shard" /\ p.body = s
    BY <1>2 DEF WaitingShards
  <2>2. CASE p \in ToSet(queue)
    BY <1>2, <2>1, <2>2 DEF WaitingShards
  <2>3. CASE p \notin ToSet(queue)
    <3>1. p \in ToSet(pdus) /\ p \in ToSet(queue') \ ToSet(queue)
      BY <1>5, <2>3
    <3>2. DataIn(p) = DataOf(s.rows)
      BY <2>1 DEF DataIn
    <3>3. s.id \notin Taken
      BY <2>1, <3>1 DEF NumberFree
    <3>. QED BY <2>1, <3>1, <3>2, <3>3 DEF Fresh
  <2>. QED BY <2>2, <2>3
<1>7. \A t \in Live : t.id \in Taken
  <2>1. \A t \in WaitingShards : t.id \in Taken
    BY <1>2 DEF WaitingShards, Taken
  <2>2. \A t \in Held : t.id \in Taken
    BY HeldNumbers DEF Taken
  <2>. QED BY <2>1, <2>2 DEF Live
<1>8. \A t \in Live : DataOf(t.rows) \subseteq Old /\ DataOf(t.rows) # {}
  <2>1. \A t \in Live : DataOf(t.rows) # {}
    BY ShardData DEF StreamInv, LiveOK
  <2>2. \A t \in WaitingShards : DataOf(t.rows) \subseteq Old
    <3>1. TAKE t \in WaitingShards
    <3>2. PICK p \in Waiting : p.kind = "shard" /\ p.body = t
      BY DEF WaitingShards
    <3>3. DataIn(p) = DataOf(t.rows)
      BY <3>2 DEF DataIn
    <3>. QED BY <3>2, <3>3, WaitingOld
  <2>3. \A t \in Held : DataOf(t.rows) \subseteq Old
    BY OldMembers
  <2>. QED BY <2>1, <2>2, <2>3 DEF Live
<1>9. \A t \in Live : DataOf(t.rows) # data
  <2>1. TAKE t \in Live
  <2>2. PICK x \in DataOf(t.rows) : x \in Old
    BY <1>8
  <2>3. x \notin data
    <3>1. ASSUME x \in data PROVE FALSE
      <4>1. x < x /\ x \in Nat
        BY <2>2, <3>1 DEF Below
      <4>. QED BY <4>1
    <3>. QED BY <3>1
  <2>. QED BY <2>3
<1>10. Old' \subseteq Old \cup data
  <2>1. ASSUME NEW p \in Waiting' PROVE DataIn(p) \subseteq Old \cup data
    <3>1. CASE p \in ToSet(queue)
      BY <1>2, <3>1, WaitingOld
    <3>2. CASE p \in ToSet(pdus)
      BY <3>2 DEF Fresh
    <3>. QED BY <1>2, <1>5, <2>1, <3>1, <3>2
  <2>2. ToSet(history'.delivered) \subseteq Old /\ \A s \in Held' : DataOf(s.rows) \subseteq Old
    BY <1>3, OldMembers
  <2>3. \A x : x \in HeldData' <=> \E s \in Held' : x \in DataOf(s.rows)
    BY DEF HeldData
  <2>4. \A x : x \in WaitingData' <=> \E p \in Waiting' : x \in DataIn(p)
    BY DEF WaitingData
  <2>. QED BY <2>1, <2>2, <2>3, <2>4 DEF Old
<1>11. StreamType'
  BY DEF StreamInv, StreamType
<1>12. LineOK'
  BY <1>1, <1>5 DEF LineOK
<1>13. LiveOK'
  <2>1. ASSUME NEW s \in Live'
        PROVE  \/ s \in Live
               \/ /\ ShardOK(s) /\ DataOf(s.rows) = data /\ s.id \notin Taken
                  /\ \E p \in ToSet(pdus) : p.kind = "shard" /\ p.body = s
    BY <1>3, <1>6 DEF Live
  <2>2. ASSUME NEW s \in Live', NEW t \in Live', s.id = t.id \/ s.rows = t.rows
        PROVE  SameBlock(s, t)
    <3>1. CASE s \in Live /\ t \in Live
      BY <2>2, <3>1 DEF StreamInv, LiveOK
    <3>2. CASE s \notin Live /\ t \notin Live
      BY <2>1, <3>2 DEF Fresh
    <3>3. CASE s \in Live /\ t \notin Live
      BY <1>7, <1>9, <2>1, <2>2, <3>3
    <3>4. CASE s \notin Live /\ t \in Live
      BY <1>7, <1>9, <2>1, <2>2, <3>4
    <3>. QED BY <3>1, <3>2, <3>3, <3>4
  <2>3. \A s \in Live' : ShardOK(s)
    BY <2>1 DEF StreamInv, LiveOK
  <2>. QED BY <2>2, <2>3 DEF LiveOK
<1>14. PendingOK'
  <2>1. history.sent \in Nat
    BY DEF QueueType
  <2>2. Old \subseteq 1..history'.sent
    BY <2>1 DEF StreamInv, PendingOK
  <2>. QED BY <1>10, <2>2 DEF PendingOK, Below
<1>15. BlocksOK(peer'.fec.blocks)
  BY DEF StreamInv
<1>16. DoneOK'
  <2>1. ASSUME NEW d \in ToSet(peer.fec.done), NEW s \in WaitingShards', s.id = d.id
        PROVE  s.rows = d.rows
    <3>1. d.id \in Taken
      BY DEF Taken
    <3>. QED BY <1>6, <2>1, <3>1 DEF StreamInv, DoneOK
  <2>. QED BY <2>1 DEF StreamInv, DoneOK
<1>17. NewOK'
  <2>1. ASSUME NEW p \in Waiting'
        PROVE  Decoded(p) \/ Below(ToSet(history.delivered), DataIn(p))
    <3>1. CASE p \in ToSet(queue)
      BY <1>2, <3>1 DEF StreamInv, NewOK
    <3>2. CASE p \in ToSet(pdus)
      <4>1. DataIn(p) = data /\ ToSet(history.delivered) \subseteq Old
        BY <3>2 DEF Fresh, Old
      <4>. QED BY <4>1 DEF Below
    <3>. QED BY <1>2, <1>5, <3>1, <3>2
  <2>. QED BY <2>1 DEF NewOK, Decoded
<1>18. RecoverOK'
  BY <1>3 DEF StreamInv, RecoverOK
<1>19. Increasing(history'.delivered)
  BY DEF StreamInv
<1>. QED BY <1>11, <1>12, <1>13, <1>14, <1>15, <1>16, <1>17, <1>18, <1>19 DEF StreamInv

-----------------------------------------------------------------------------
(***************************************************************************)
(* The sending endpoint.                                                   *)
(***************************************************************************)
LEMMA NothingFresh == Fresh(<<>>, {}) /\ Shards(<<>>) = <<>>
<1>1. <<>> \in Seq(Pdus) /\ DOMAIN <<>> = {}
  OBVIOUS
<1>2. ToSet(<<>>) = {}
  BY <1>1 DEF ToSet
<1>3. Shards(<<>>) = <<>>
  BY <1>1 DEF Shards
<1>. QED BY <1>1, <1>2, <1>3 DEF Fresh, InLine

(* One datagram more is pending. *)
LEMMA MorePending ==
  ASSUME StreamInv, QueueType, NEW d, d = history.sent + 1
  PROVE  LET p == Append(fec.pending, d)
         IN  /\ p \in Seq(Nat) /\ p # <<>> /\ Len(p) = Len(fec.pending) + 1
             /\ ToSet(p) = ToSet(fec.pending) \cup {d} /\ ToSet(p) \subseteq 1..d
             /\ Increasing(p) /\ Below(Old, ToSet(p))
<1> DEFINE q == fec.pending
           p == Append(q, d)
<1>1. q \in Seq(Nat) /\ d \in Nat /\ history.sent \in Nat /\ d >= 1
  BY DEF QueueType, Encoders
<1>2. p \in Seq(Nat) /\ p # <<>> /\ ToSet(p) = ToSet(q) \cup {d}
  <2> HIDE DEF q
  <2>. QED BY ONLY <1>1, SetOfAppend
<1>3. /\ Len(q) \in Nat /\ Len(p) = Len(q) + 1 /\ p[Len(q) + 1] = d
      /\ \A i \in 1..Len(q) : p[i] = q[i]
      /\ DOMAIN q = 1..Len(q) /\ DOMAIN p = 1..(Len(q) + 1)
  BY <1>1
<1>4. /\ ToSet(q) \subseteq 1..history.sent /\ Old \subseteq 1..history.sent
      /\ Below(Old, ToSet(q)) /\ Increasing(q)
  BY DEF StreamInv, PendingOK
<1> HIDE DEF p, q
<1>5. ToSet(p) \subseteq 1..d
  BY <1>1, <1>2, <1>4
<1>6. Increasing(p)
  <2>1. \A i \in 1..Len(q) : q[i] \in ToSet(q)
    BY <1>3 DEF ToSet
  <2>2. \A i \in 1..Len(q) : q[i] < d
    BY <1>1, <1>4, <2>1
  <2>3. ASSUME NEW i \in DOMAIN p, NEW j \in DOMAIN p, i < j PROVE p[i] < p[j]
    <3>1. i \in 1..Len(q) /\ p[i] = q[i]
      BY <1>3, <2>3
    <3>2. CASE j \in 1..Len(q)
      BY <1>3, <1>4, <2>3, <3>1, <3>2 DEF Increasing
    <3>3. CASE j = Len(q) + 1
      BY <1>3, <2>2, <3>1, <3>3
    <3>. QED BY <1>3, <3>2, <3>3
  <2>. QED BY <2>3 DEF Increasing
<1>7. Below(Old, ToSet(p))
  BY <1>1, <1>2, <1>4 DEF Below
<1>. QED BY <1>2, <1>3, <1>5, <1>6, <1>7 DEF p, q

LEMMA OnAppKeeps ==
  ASSUME StreamInv, QueueType, NumbersType, OnApp, NumberFree
  PROVE  StreamInv'
<1> DEFINE d == history.sent + 1
           p == Append(fec.pending, d)
           more == [fec EXCEPT !.pending = p]
<1>1. /\ air = <<>> /\ air' = <<>> /\ UNCHANGED peer
      /\ history' = [history EXCEPT !.sent = d]
  BY DEF OnApp, Quiet
<1>2. /\ history'.delivered = history.delivered /\ history'.shards = history.shards
      /\ history'.sent = d /\ d \in Nat /\ history.sent <= d /\ history.sent \in Nat
  BY <1>1 DEF NumbersType, HistoryFields, QueueType
<1>3. /\ fec \in Encoders /\ fec.k \in Nat /\ Len(fec.pending) \in Nat
      /\ fec.pending = <<>> \/ Len(fec.pending) < fec.k
      /\ ToSet(fec.pending) \subseteq 1..history.sent
      /\ Old \subseteq 1..history.sent /\ Below(Old, ToSet(fec.pending))
      /\ Increasing(fec.pending)
  BY DEF QueueType, Encoders, StreamInv, PendingOK
<1>4. /\ p \in Seq(Nat) /\ p # <<>> /\ Len(p) = Len(fec.pending) + 1
      /\ ToSet(p) \subseteq 1..d /\ Increasing(p) /\ Below(Old, ToSet(p))
  BY MorePending
<1>5. more \in Encoders /\ more.pending = p /\ more.k = fec.k
  BY <1>3, <1>4, EncoderChanged DEF Encoders
<1>6. CASE Enabled(fec)
  <2>1. fec' = PushApp(fec, d).fec /\ queue' = Enqueued(Shards(PushApp(fec, d).out))
    BY <1>6 DEF OnApp, QueueShards
  <2>2. Len(p) <= fec.k
    BY <1>3, <1>4, <1>6 DEF Enabled
  <2>3. CASE Len(p) >= fec.k
    <3>1. PushApp(fec, d) = Flush(more)
      BY <1>5, <2>3 DEF PushApp
    <3> HIDE DEF p, more, d
    <3>2. /\ Fresh(Shards(Flush(more).out), ToSet(p))
          /\ Flush(more).fec.pending = <<>>
      BY <1>2, <1>4, <1>5, <2>2, FlushIsFresh
    <3>3. ToSet(<<>>) = {} /\ Increasing(<<>>)
      BY DEF ToSet, Increasing
    <3>4. /\ ToSet(fec'.pending) \subseteq 1..history'.sent
          /\ Below(Old \cup ToSet(p), ToSet(fec'.pending))
          /\ Increasing(fec'.pending) /\ fec'.pending = <<>>
      BY <2>1, <3>1, <3>2, <3>3 DEF Below
    <3>5. Shards(PushApp(fec, d).out) = Shards(Flush(more).out)
      BY <3>1
    <3>. QED BY <1>1, <1>2, <1>4, <2>1, <3>2, <3>4, <3>5, EnqueueKeeps
  <2>4. CASE ~(Len(p) >= fec.k)
    <3>1. PushApp(fec, d) = [fec |-> more, out |-> <<>>]
      BY <1>5, <2>4 DEF PushApp
    <3> HIDE DEF p, more, d
    <3>2. fec' = more /\ queue' = Enqueued(<<>>) /\ Len(p) < fec.k
      BY <1>3, <1>4, <2>1, <2>4, <3>1, NothingFresh
    <3>3. Below(Old, {}) /\ Below(Old \cup {}, ToSet(p))
      BY <1>4 DEF Below
    <3>. QED BY <1>1, <1>2, <1>4, <1>5, <3>2, <3>3, NothingFresh, EnqueueKeeps
  <2>. QED BY <2>3, <2>4
<1>7. CASE ~Enabled(fec)
  <2>1. fec' = fec /\ queue' = Enqueued(<<Plain(d)>>)
    BY <1>7 DEF OnApp
  <2>2. fec.pending = <<>>
    BY <1>3, <1>7 DEF Enabled
  <2> HIDE DEF d
  <2>3. Plain(d) \in Pdus /\ DataIn(Plain(d)) = {d} /\ Plain(d).kind = "plain"
    BY <1>2 DEF Plain, Pdus, DataIn
  <2>4. <<Plain(d)>> \in Seq(Pdus) /\ ToSet(<<Plain(d)>>) = {Plain(d)}
    <3>1. <<Plain(d)>> \in Seq(Pdus) /\ DOMAIN <<Plain(d)>> = {1} /\ <<Plain(d)>>[1] = Plain(d)
      BY <2>3
    <3>. QED BY <3>1 DEF ToSet
  <2>5. Fresh(<<Plain(d)>>, {d})
    <3>1. InLine(<<Plain(d)>>)
      <4>1. DOMAIN <<Plain(d)>> = {1}
        OBVIOUS
      <4>. QED BY <4>1 DEF InLine
    <3>. QED BY <2>3, <2>4, <3>1 DEF Fresh
  <2>6. {d} \subseteq 1..history'.sent /\ Below(Old, {d})
    <3>1. d = history.sent + 1 /\ history.sent \in Nat /\ Old \subseteq 1..history.sent
          /\ history'.sent = d
      BY <1>2, <1>3 DEF d
    <3>2. d \in 1..d /\ \A x \in 1..history.sent : x < d
      BY <3>1
    <3>. QED BY <3>1, <3>2 DEF Below
  <2>7. ToSet(<<>>) = {} /\ Increasing(<<>>)
    BY DEF ToSet, Increasing
  <2>8. /\ ToSet(fec'.pending) \subseteq 1..history'.sent
        /\ Below(Old \cup {d}, ToSet(fec'.pending))
        /\ Increasing(fec'.pending) /\ fec'.pending = <<>>
    BY <2>1, <2>2, <2>7 DEF Below
  <2>. QED BY <1>1, <1>2, <2>1, <2>5, <2>6, <2>8, EnqueueKeeps
<1>. QED BY <1>6, <1>7

(* What is pending becomes a block. *)
LEMMA FlushKeeps ==
  ASSUME StreamInv, QueueType, air = <<>>, air' = <<>>, UNCHANGED peer,
         history'.delivered = history.delivered, history'.shards = history.shards,
         history'.sent = history.sent,
         queue' = Enqueued(Shards(Flush(fec).out)), fec'.pending = <<>>, NumberFree
  PROVE  StreamInv'
<1>1. /\ fec \in Encoders /\ fec.k \in Nat /\ Len(fec.pending) \in Nat
      /\ fec.pending = <<>> \/ Len(fec.pending) <= fec.k
      /\ ToSet(fec.pending) \subseteq 1..history.sent /\ Below(Old, ToSet(fec.pending))
      /\ Increasing(fec.pending) /\ history.sent \in Nat
  BY DEF QueueType, Encoders, StreamInv, PendingOK
<1>2. Fresh(Shards(Flush(fec).out), ToSet(fec.pending))
  BY <1>1, FlushIsFresh
<1>3. ToSet(<<>>) = {} /\ Increasing(<<>>)
  BY DEF ToSet, Increasing
<1>4. /\ ToSet(fec'.pending) \subseteq 1..history'.sent
      /\ Below(Old \cup ToSet(fec.pending), ToSet(fec'.pending))
      /\ Increasing(fec'.pending)
  BY <1>3 DEF Below
<1>. QED BY <1>1, <1>2, <1>4, EnqueueKeeps

LEMMA OnTickKeeps ==
  ASSUME StreamInv, QueueType, OnTick, NumberFree
  PROVE  StreamInv'
<1>1. /\ air = <<>> /\ air' = <<>> /\ UNCHANGED <<peer, history>>
      /\ fec' = Flush(fec).fec /\ queue' = Enqueued(Shards(Flush(fec).out))
  BY DEF OnTick, Quiet, QueueShards
<1>2. /\ fec \in Encoders /\ fec.k \in Nat /\ Len(fec.pending) \in Nat
      /\ fec.pending = <<>> \/ Len(fec.pending) <= fec.k
      /\ ToSet(fec.pending) \subseteq 1..history.sent
      /\ Increasing(fec.pending) /\ history.sent \in Nat
  BY DEF QueueType, Encoders, StreamInv, PendingOK
<1>3. Flush(fec).fec.pending = <<>>
  BY <1>2, FlushIsFresh
<1>4. /\ history'.delivered = history.delivered /\ history'.shards = history.shards
      /\ history'.sent = history.sent
  BY <1>1
<1>. QED BY <1>1, <1>3, <1>4, FlushKeeps

LEMMA SetFecKeeps ==
  ASSUME StreamInv, QueueType, NumbersType, SetFec, NumberFree
  PROVE  StreamInv'
<1>1. /\ air = <<>> /\ air' = <<>> /\ UNCHANGED peer
      /\ history' \in {history, [history EXCEPT !.inits = @ + 1]}
      /\ queue' = Enqueued(Shards(Flush(fec).out))
      /\ \/ fec' = Disable(Flush(fec).fec)
         \/ \E m \in MODES : fec' = InitFec(m.k, m.n)
  BY DEF SetFec, QueueShards, Flush, Quiet
<1>2. /\ history'.delivered = history.delivered /\ history'.shards = history.shards
      /\ history'.sent = history.sent
  BY <1>1 DEF NumbersType, HistoryFields
<1>3. fec'.pending = <<>>
  BY <1>1 DEF Disable, InitFec, NoFec
<1>. QED BY <1>1, <1>2, <1>3, FlushKeeps

-----------------------------------------------------------------------------
(***************************************************************************)
(* The air and the peer: nothing new comes into the line.                  *)
(***************************************************************************)
LEMMA OldLess ==
  ASSUME ToSet(history'.delivered) \subseteq Old,
         \A p \in Waiting' : DataIn(p) \subseteq Old,
         \A s \in Held' : DataOf(s.rows) \subseteq Old
  PROVE  Old' \subseteq Old
<1>1. \A x : x \in HeldData' <=> \E s \in Held' : x \in DataOf(s.rows)
  BY DEF HeldData
<1>2. \A x : x \in WaitingData' <=> \E p \in Waiting' : x \in DataIn(p)
  BY DEF WaitingData
<1>. QED BY <1>1, <1>2 DEF Old

LEMMA LiveIsOld == \A s \in Live : DataOf(s.rows) \subseteq Old
<1>1. \A s \in WaitingShards : DataOf(s.rows) \subseteq Old
  <2>1. TAKE s \in WaitingShards
  <2>2. PICK p \in Waiting : p.kind = "shard" /\ p.body = s
    BY DEF WaitingShards
  <2>3. DataIn(p) = DataOf(s.rows)
    BY <2>2 DEF DataIn
  <2>. QED BY <2>2, <2>3, WaitingOld
<1>2. \A s \in Held : DataOf(s.rows) \subseteq Old
  BY OldMembers
<1>. QED BY <1>1, <1>2 DEF Live

LEMMA StreamLess ==
  ASSUME StreamInv, StreamType', LineOK', BlocksOK(peer'.fec.blocks),
         DoneOK', NewOK', RecoverOK', Increasing(history'.delivered),
         Waiting' \subseteq Waiting, Held' \subseteq Live,
         ToSet(history'.delivered) \subseteq Old,
         UNCHANGED fec, history'.sent = history.sent
  PROVE  StreamInv'
<1>1. WaitingShards' \subseteq WaitingShards
  BY DEF WaitingShards
<1>2. Live' \subseteq Live
  BY <1>1 DEF Live
<1>3. LiveOK'
  BY <1>2 DEF StreamInv, LiveOK
<1>4. Old' \subseteq Old
  <2>1. \A p \in Waiting' : DataIn(p) \subseteq Old
    BY WaitingOld
  <2>2. \A s \in Held' : DataOf(s.rows) \subseteq Old
    BY LiveIsOld
  <2>. QED BY <2>1, <2>2, OldLess
<1>5. PendingOK'
  BY <1>4 DEF StreamInv, PendingOK, Below
<1>. QED BY <1>3, <1>5 DEF StreamInv

LEMMA WaitingLess ==
  ASSUME StreamInv, StreamType', LineOK', Waiting' \subseteq Waiting,
         UNCHANGED fec, peer'.fec = peer.fec, history'.sent = history.sent,
         history'.delivered = history.delivered, history'.shards = history.shards
  PROVE  StreamInv'
<1>1. WaitingShards' \subseteq WaitingShards /\ Held' = Held
  BY DEF WaitingShards, Held
<1>2. BlocksOK(peer'.fec.blocks) /\ Increasing(history'.delivered)
  BY DEF StreamInv
<1>3. DoneOK'
  BY <1>1 DEF StreamInv, DoneOK
<1>4. NewOK'
  BY DEF StreamInv, NewOK, Decoded
<1>5. RecoverOK'
  BY <1>1 DEF StreamInv, RecoverOK
<1>6. Held' \subseteq Live /\ ToSet(history'.delivered) \subseteq Old
  BY <1>1 DEF Live, Old
<1>. QED BY <1>2, <1>3, <1>4, <1>5, <1>6, StreamLess

LEMMA AirLess ==
  ASSUME StreamInv, UNCHANGED <<queue, fec>>, air' \in {air, <<>>}, peer'.fec = peer.fec,
         history'.sent = history.sent, history'.delivered = history.delivered,
         history'.shards = history.shards, history'.last = history.last,
         history'.count = history.count
  PROVE  StreamInv'
<1>1. Coming' => Coming /\ air' = air
  BY DEF Coming
<1>2. Waiting' \subseteq Waiting
  BY <1>1 DEF Waiting
<1>3. LineOK'
  BY <1>1 DEF StreamInv, LineOK
<1>4. StreamType'
  BY DEF StreamInv, StreamType
<1>. QED BY <1>2, <1>3, <1>4, WaitingLess

LEMMA SendKeeps ==
  ASSUME StreamInv, QueueType, NumbersType, NEW done \in BOOLEAN, Send(done)
  PROVE  StreamInv'
<1>1. /\ air = <<>> /\ UNCHANGED <<fec, peer>> /\ queue # <<>> /\ queue \in Seq(Pdus)
      /\ history'.sent = history.sent /\ history'.delivered = history.delivered
      /\ history'.shards = history.shards
      /\ \/ queue' = queue /\ air' = <<>>
         \/ queue' = Tail(queue) /\ air' = <<[num |-> history.stamped, seq |-> seq.tx,
                                              pdu |-> Head(queue)]>>
  BY DEF Send, AfterSend, Quiet, NumbersType, HistoryFields, QueueType
<1>2. CASE queue' = queue /\ air' = <<>>
  <2>1. ~Coming'
    BY <1>2 DEF Coming
  <2>2. Waiting' \subseteq Waiting
    BY <1>2, <2>1 DEF Waiting
  <2>3. LineOK'
    BY <1>2, <2>1 DEF StreamInv, LineOK
  <2>4. StreamType'
    BY <1>1, <1>2 DEF StreamInv, StreamType
  <2>. QED BY <1>1, <2>2, <2>3, <2>4, WaitingLess
<1>3. CASE queue' = Tail(queue) /\ air' = <<[num |-> history.stamped, seq |-> seq.tx,
                                             pdu |-> Head(queue)]>>
  <2>1. air' # <<>> /\ air'[1].pdu = Head(queue)
    BY <1>3
  <2>2. /\ Tail(queue) = DropOldest(queue, 1) /\ 1 \in 0..Len(queue)
        /\ Len(queue) \in Nat /\ Head(queue) = queue[1] /\ 1 \in DOMAIN queue
        /\ DOMAIN queue = 1..Len(queue)
    BY <1>1, TailDrops
  <2>3. /\ \A y : y \in ToSet(Tail(queue)) <=> \E i \in (1 + 1)..Len(queue) : y = queue[i]
        /\ ToSet(Tail(queue)) \subseteq ToSet(queue)
    <3>1. queue \in Seq(Pdus) /\ 1 \in 0..Len(queue)
      BY <1>1, <2>2
    <3>2. /\ \A y : y \in ToSet(DropOldest(queue, 1))
                 <=> \E i \in (1 + 1)..Len(queue) : y = queue[i]
          /\ ToSet(DropOldest(queue, 1)) \subseteq ToSet(queue)
      BY ONLY <3>1, Dropped
    <3>. QED BY <2>2, <3>2
  <2>4. Head(queue) \in ToSet(queue) /\ Head(queue) \in Pdus
    BY <1>1, <2>2 DEF ToSet
  <2>5. Waiting' \subseteq Waiting
    BY <1>3, <2>1, <2>3, <2>4 DEF Waiting
  <2>6. InLine(Tail(queue))
    BY <1>1, <2>2, LineDropped DEF StreamInv, LineOK
  <2>7. ASSUME NEW q \in ToSet(Tail(queue)) PROVE Follows(Head(queue), q)
    <3>1. PICK i \in (1 + 1)..Len(queue) : q = queue[i]
      BY <2>3
    <3>2. i \in DOMAIN queue /\ 1 < i
      BY <2>2
    <3>. QED BY <2>2, <3>1, <3>2 DEF StreamInv, LineOK, InLine
  <2>8. LineOK'
    BY <1>3, <2>1, <2>6, <2>7 DEF LineOK
  <2>9. StreamType'
    BY <1>1, <2>1, <2>4 DEF StreamInv, StreamType
  <2>. QED BY <1>1, <2>5, <2>8, <2>9, WaitingLess
<1>. QED BY <1>1, <1>2, <1>3

-----------------------------------------------------------------------------
(***************************************************************************)
(* Holding times.                                                          *)
(***************************************************************************)
LEMMA Expired ==
  ASSUME StreamInv, OnTheWay, NEW b \in Nat, NEW e \in Nat, MayExpire(b, e)
  PROVE  LET f == ExpireRx(peer.fec, b, e)
         IN  /\ f \in Decoders /\ BlocksOK(f.blocks)
             /\ f.blocks = DropOldest(peer.fec.blocks, b) /\ HeldIn(f.blocks) \subseteq Held
             /\ \A t \in Held : \/ t \in HeldIn(f.blocks)
                                \/ \E i \in 1..b : t \in peer.fec.blocks[i].frags
             /\ ToSet(f.done) \subseteq ToSet(peer.fec.done)
             /\ \A s \in WaitingShards : IsDone(f, s.id) <=> IsDone(peer.fec, s.id)
<1> DEFINE B == peer.fec.blocks
           D == peer.fec.done
           f == ExpireRx(peer.fec, b, e)
<1>1. /\ peer.fec \in Decoders /\ B \in Seq(OpenBlocks) /\ D \in Seq(DoneBlocks)
      /\ BlocksOK(B) /\ Len(B) \in Nat /\ Len(D) \in Nat
  BY DEF StreamInv, StreamType, Decoders
<1>2. b \in 0..Len(B) /\ e \in 0..Len(D)
  BY <1>1 DEF MayExpire
<1>3. /\ DropOldest(B, b) \in Seq(OpenBlocks) /\ BlocksOK(DropOldest(B, b))
      /\ HeldIn(DropOldest(B, b)) \subseteq HeldIn(B)
      /\ \A t \in HeldIn(B) : \/ t \in HeldIn(DropOldest(B, b))
                              \/ \E i \in 1..b : t \in B[i].frags
  BY <1>1, <1>2, BlocksDropped
<1>4. /\ DropOldest(D, e) \in Seq(DoneBlocks)
      /\ \A y : y \in ToSet(DropOldest(D, e)) <=> \E i \in (e + 1)..Len(D) : y = D[i]
      /\ ToSet(DropOldest(D, e)) \subseteq ToSet(D)
  BY <1>1, <1>2, Dropped
<1>5. /\ f \in Decoders /\ f.blocks = DropOldest(B, b) /\ f.done = DropOldest(D, e)
  BY <1>1, <1>3, <1>4 DEF ExpireRx, Decoders
<1>6. ASSUME NEW s \in WaitingShards PROVE IsDone(f, s.id) <=> IsDone(peer.fec, s.id)
  <2>1. ASSUME IsDone(f, s.id) PROVE IsDone(peer.fec, s.id)
    BY <1>4, <1>5, <2>1, IsDoneSet
  <2>2. ASSUME IsDone(peer.fec, s.id) PROVE IsDone(f, s.id)
    <3>1. PICK j \in 1..Len(D) : D[j].id = s.id
      BY <1>1, <2>2 DEF IsDone
    <3>2. s.rows = D[j].rows
      <4>1. D[j] \in ToSet(D)
        BY <1>1, <3>1 DEF ToSet
      <4>. QED BY <3>1, <4>1 DEF StreamInv, DoneOK
    <3>3. j \notin 1..e
      <4>1. PICK p \in Waiting : p.kind = "shard" /\ p.body = s
        BY DEF WaitingShards
      <4>2. p \in ToSet(queue) \/ p \in {a.pdu : a \in ToSet(air)}
        <5>1. Coming => air[1] \in ToSet(air)
          <6>1. air = <<air[1]>> => DOMAIN air = {1}
            OBVIOUS
          <6>. QED BY <6>1 DEF Coming, OnTheWay, ToSet
        <5>. QED BY <4>1, <5>1 DEF Waiting
      <4>3. s \in {q.body : q \in {r \in ToSet(queue) \cup {a.pdu : a \in ToSet(air)} :
                                     r.kind = "shard"}}
        BY <4>1, <4>2
      <4>. QED BY <3>1, <3>2, <4>3 DEF MayExpire
    <3>4. j \in (e + 1)..Len(D)
      BY <1>1, <3>1, <3>3
    <3>. QED BY <1>4, <1>5, <3>1, <3>4, IsDoneSet
  <2>. QED BY <2>1, <2>2
<1>. QED BY <1>3, <1>4, <1>5, <1>6 DEF Held

LEMMA PeerTickKeeps ==
  ASSUME StreamInv, NumbersOK, PeerTick
  PROVE  StreamInv'
<1>1. PICK b \in 0..BLOCK_MAX, e \in 0..DONE_MAX :
        /\ MayExpire(b, e)
        /\ peer' = [peer EXCEPT !.fec = ExpireRx(@, b, e)]
        /\ history' = [history EXCEPT !.shards = @ \ UNION
                         {peer.fec.blocks[j].frags : j \in 1..b}]
  BY DEF PeerTick
<1>2. air = <<>> /\ UNCHANGED <<queue, fec, air>>
  BY DEF PeerTick, Quiet
<1> DEFINE f == ExpireRx(peer.fec, b, e)
           given == UNION {peer.fec.blocks[j].frags : j \in 1..b}
<1>3. /\ peer'.fec = f /\ history'.shards = history.shards \ given
      /\ history'.sent = history.sent /\ history'.delivered = history.delivered
  BY <1>1 DEF NumbersOK, NumbersType, HistoryFields
<1>4. b \in Nat /\ e \in Nat /\ OnTheWay
  BY BasicFecAssumption DEF NumbersOK
<1>5. /\ f \in Decoders /\ BlocksOK(f.blocks) /\ HeldIn(f.blocks) \subseteq Held
      /\ \A t \in Held : t \in HeldIn(f.blocks) \/ \E i \in 1..b : t \in peer.fec.blocks[i].frags
      /\ ToSet(f.done) \subseteq ToSet(peer.fec.done)
      /\ \A s \in WaitingShards : IsDone(f, s.id) <=> IsDone(peer.fec, s.id)
  BY <1>1, <1>4, Expired
<1>6. \A t : (\E i \in 1..b : t \in peer.fec.blocks[i].frags) => t \in given
  OBVIOUS
<1> HIDE DEF f, given
<1>7. ~Coming /\ ~Coming'
  BY <1>2 DEF Coming
<1>8. Waiting' = Waiting /\ Held' = HeldIn(f.blocks)
  BY <1>2, <1>3, <1>7 DEF Waiting, Held
<1>9. WaitingShards' = WaitingShards
  BY <1>8 DEF WaitingShards
<1>10. StreamType' /\ LineOK'
  BY <1>2, <1>3, <1>5, <1>7 DEF StreamInv, StreamType, LineOK
<1>11. DoneOK'
  BY <1>3, <1>5, <1>9 DEF StreamInv, DoneOK
<1>12. NewOK'
  <2>1. ASSUME NEW p \in Waiting, Decoded(p) PROVE Decoded(p)'
    <3>1. p.kind = "shard" /\ p.body \in WaitingShards
      BY <2>1 DEF Decoded, WaitingShards
    <3>. QED BY <1>3, <1>5, <2>1, <3>1 DEF Decoded
  <2>. QED BY <1>3, <1>8, <2>1 DEF StreamInv, NewOK
<1>13. RecoverOK'
  BY <1>3, <1>5, <1>6, <1>8 DEF StreamInv, RecoverOK
<1>14. Held' \subseteq Live /\ ToSet(history'.delivered) \subseteq Old
       /\ BlocksOK(peer'.fec.blocks) /\ Increasing(history'.delivered)
  BY <1>3, <1>5, <1>8 DEF Live, Old, StreamInv
<1>. QED BY <1>2, <1>3, <1>8, <1>10, <1>11, <1>12, <1>13, <1>14, StreamLess

-----------------------------------------------------------------------------
(***************************************************************************)
(* A PDU is received for the first time.                                   *)
(***************************************************************************)
Arrival(p, r) ==
    /\ Coming /\ ~Coming' /\ air[1].pdu = p /\ UNCHANGED <<queue, fec>>
    /\ air' \in {air, <<>>}
    /\ peer'.fec = r.fec /\ history'.sent = history.sent
    /\ history'.delivered = history.delivered \o r.out

LEMMA Arrives ==
  ASSUME StreamInv, NumbersOK, NEW again \in BOOLEAN, Receive(again),
         Accepts(peer.seq, air[1].seq)
  PROVE  \E b \in Nat, e \in Nat :
            LET p == air[1].pdu
                shard == peer.dest /\ p.kind = "shard"
            IN  /\ Arrival(p, OnRadioRx(p, b, e))
                /\ IF shard THEN MayExpire(b, e) ELSE b = 0 /\ e = 0
                /\ history'.shards = IF shard
                                     THEN (history.shards \ GivenUp(b, p.body)) \cup {p.body}
                                     ELSE history.shards
<1> DEFINE p == air[1].pdu
           shard == peer.dest /\ p.kind = "shard"
<1>1. PICK b \in 0..BLOCK_MAX, e \in 0..DONE_MAX : FreshPdu(again, b, e)
  BY FreshReceived
<1> DEFINE rxFec  == OnRadioRx(p, b, e).fec
           rxData == history.delivered \o OnRadioRx(p, b, e).out
           after == IF shard THEN (history.shards \ GivenUp(b, p.body)) \cup {p.body}
                             ELSE history.shards
           may == MayExpire(b, e)
<1>a. /\ IF shard THEN may ELSE b + e = 0
      /\ peer' = [peer EXCEPT !.seq = NoteRx(@, air[1].seq), !.fec = rxFec]
      /\ history' = [history EXCEPT
              !.twice     = IF again THEN @ + 1 ELSE @,
              !.delivered = rxData,
              !.shards    = after,
              !.first     = IF history.count = 0 THEN air[1].num ELSE @,
              !.last      = air[1].num,
              !.count     = @ + 1]
  BY ONLY <1>1 DEF FreshPdu, IsShard
<1>2. /\ air # <<>> /\ air' \in {air, <<>>} /\ UNCHANGED <<queue, fec>>
  BY DEF Receive, Quiet
<1> HIDE DEF shard, rxFec, rxData, after, may
<1>3. /\ peer'.fec = rxFec /\ history'.sent = history.sent
      /\ history'.delivered = rxData /\ history'.shards = after
      /\ history'.last = air[1].num /\ history'.count = history.count + 1
      /\ history.count \in Nat
  BY <1>a DEF NumbersOK, NumbersType, HistoryFields
<1>4. b \in Nat /\ e \in Nat /\ (b + e = 0 => b = 0 /\ e = 0)
  BY BasicFecAssumption
<1>5. Coming
  <2>1. history.count > 0 => air[1].num # history.last
    <3>1. ASSUME history.count > 0, air[1].num = history.last PROVE FALSE
      <4>1. peer.seq.have_rx /\ peer.seq.rx = history.last % SEQ_MOD
        BY <3>1 DEF NumbersOK
      <4>2. air[1].seq = air[1].num % SEQ_MOD
        BY <1>2 DEF NumbersOK, OnTheWay
      <4>. QED BY <3>1, <4>1, <4>2 DEF Accepts
    <3>. QED BY <3>1
  <2>. QED BY <1>2, <2>1 DEF Coming
<1>6. ~Coming'
  <2>1. history'.count > 0
    BY <1>3
  <2>. QED BY <1>2, <1>3, <2>1 DEF Coming
<1>7. Arrival(p, OnRadioRx(p, b, e))
  BY <1>2, <1>3, <1>5, <1>6 DEF Arrival, rxFec, rxData
<1>. QED BY <1>a, <1>3, <1>4, <1>7 DEF shard, after, may

(* What is left of the line. *)
LEMMA ArrivalLeaves ==
  ASSUME StreamInv, QueueType, NEW p, NEW r, Arrival(p, r),
         r.fec \in Decoders, r.out \in Seq(Nat)
  PROVE  /\ p \in Waiting /\ p \in Pdus /\ Waiting' = ToSet(queue) /\ Waiting' \subseteq Waiting
         /\ WaitingShards' \subseteq WaitingShards
         /\ \A q \in Waiting' : Follows(p, q)
         /\ StreamType' /\ LineOK'
         /\ ToSet(history'.delivered) = ToSet(history.delivered) \cup ToSet(r.out)
<1>1. p \in Waiting /\ p \in Pdus
  BY DEF Arrival, Waiting, StreamInv, StreamType, Coming
<1>2. Waiting' = ToSet(queue) /\ ToSet(queue) \subseteq Waiting
  BY DEF Arrival, Waiting
<1>3. WaitingShards' \subseteq WaitingShards
  BY <1>2 DEF WaitingShards
<1>4. \A q \in Waiting' : Follows(p, q)
  BY <1>2 DEF Arrival, StreamInv, LineOK
<1>5. history.delivered \in Seq(Nat)
  BY DEF StreamInv, StreamType
<1>6. history.delivered \o r.out \in Seq(Nat)
      /\ ToSet(history.delivered \o r.out) = ToSet(history.delivered) \cup ToSet(r.out)
  BY <1>5, SetOfConcat
<1>7. StreamType'
  BY <1>6 DEF StreamInv, StreamType, Arrival
<1>8. LineOK'
  BY DEF StreamInv, LineOK, Arrival
<1>. QED BY <1>1, <1>2, <1>3, <1>4, <1>6, <1>7, <1>8 DEF Arrival

(* What follows a PDU that brings something new is later than everything   *)
(* delivered, or of the same block.                                        *)
LEMMA LaterThanNew ==
  ASSUME StreamInv, NEW p \in Waiting, ~Decoded(p), DataIn(p) # {},
         NEW q \in Waiting, Follows(p, q)
  PROVE  \/ p.kind = "shard" /\ q.kind = "shard" /\ SameBlock(p.body, q.body)
         \/ Below(ToSet(history.delivered) \cup DataIn(p), DataIn(q))
<1> DEFINE D == ToSet(history.delivered)
<1>1. SUFFICES ASSUME Below(DataIn(p), DataIn(q))
               PROVE  Below(D \cup DataIn(p), DataIn(q))
  BY DEF Follows
<1>2. Below(D, DataIn(p))
  BY DEF StreamInv, NewOK
<1>3. CASE Below(D, DataIn(q))
  BY <1>1, <1>3 DEF Below
<1>4. CASE Decoded(q)
  <2>1. q.kind = "shard" /\ q.body \in WaitingShards
    BY <1>4 DEF Decoded, WaitingShards
  <2>2. PICK d \in ToSet(peer.fec.done) : d.id = q.body.id
    BY <1>4, IsDoneSet DEF Decoded
  <2>3. DataOf(d.rows) # {} /\ DataOf(d.rows) \subseteq D /\ d.rows = q.body.rows
    BY <2>1, <2>2 DEF StreamInv, DoneOK
  <2>4. DataIn(q) = DataOf(d.rows)
    BY <2>1, <2>3 DEF DataIn
  <2>5. PICK x \in DataIn(q), y \in DataIn(p) : x \in D
    BY <2>3, <2>4
  <2>6. x < y /\ y < x
    BY <1>1, <1>2, <2>5 DEF Below
  <2>7. x \in Old /\ y \in Old
    BY <2>5, WaitingOld
  <2>8. Old \subseteq Int
    BY DEF StreamInv, PendingOK
  <2>. QED BY <2>6, <2>7, <2>8
<1>. QED BY <1>3, <1>4 DEF StreamInv, NewOK

LEMMA Lengthened ==
  ASSUME NEW a \in Seq(Nat), NEW b \in Seq(Nat), Increasing(a), Increasing(b),
         Below(ToSet(a), ToSet(b))
  PROVE  Increasing(a \o b)
<1> DEFINE c == a \o b
<1>1. /\ Len(a) \in Nat /\ Len(b) \in Nat /\ DOMAIN a = 1..Len(a) /\ DOMAIN b = 1..Len(b)
      /\ DOMAIN c = 1..(Len(a) + Len(b))
      /\ \A i \in 1..(Len(a) + Len(b)) : c[i] = IF i <= Len(a) THEN a[i] ELSE b[i - Len(a)]
  OBVIOUS
<1> HIDE DEF c
<1>2. ASSUME NEW i \in DOMAIN c, NEW j \in DOMAIN c, i < j PROVE c[i] < c[j]
  <2>1. CASE j <= Len(a)
    <3>1. i \in DOMAIN a /\ j \in DOMAIN a /\ c[i] = a[i] /\ c[j] = a[j]
      BY <1>1, <1>2, <2>1
    <3>. QED BY <1>2, <3>1 DEF Increasing
  <2>2. CASE i <= Len(a) /\ ~(j <= Len(a))
    <3>1. i \in DOMAIN a /\ j - Len(a) \in DOMAIN b /\ c[i] = a[i] /\ c[j] = b[j - Len(a)]
      BY <1>1, <1>2, <2>2
    <3>2. a[i] \in ToSet(a) /\ b[j - Len(a)] \in ToSet(b)
      BY <3>1 DEF ToSet
    <3>. QED BY <3>1, <3>2 DEF Below
  <2>3. CASE ~(i <= Len(a))
    <3>1. /\ i - Len(a) \in DOMAIN b /\ j - Len(a) \in DOMAIN b /\ i - Len(a) < j - Len(a)
          /\ c[i] = b[i - Len(a)] /\ c[j] = b[j - Len(a)]
      BY <1>1, <1>2, <2>3
    <3>. QED BY <3>1 DEF Increasing
  <2>. QED BY <1>1, <1>2, <2>1, <2>2, <2>3
<1>. QED BY <1>2 DEF Increasing, c

(* Nothing is passed on: the stream knows no application yet. *)
LEMMA IgnoredKeeps ==
  ASSUME StreamInv, QueueType, NEW p, NEW r, Arrival(p, r),
         r.fec = peer.fec, r.out = <<>>, history'.shards = history.shards
  PROVE  StreamInv'
<1>1. r.fec \in Decoders /\ r.out \in Seq(Nat)
  BY DEF StreamInv, StreamType
<1>2. StreamType' /\ LineOK' /\ Waiting' \subseteq Waiting
  BY <1>1, ArrivalLeaves
<1>3. history.delivered \o <<>> = history.delivered
  BY DEF StreamInv, StreamType
<1>. QED BY <1>2, <1>3, WaitingLess DEF Arrival

(* A datagram that was sent without FEC. *)
LEMMA PlainKeeps ==
  ASSUME StreamInv, QueueType, NEW p, NEW r, Arrival(p, r), p.kind = "plain",
         r.fec = peer.fec, r.out = <<p.body.data>>, history'.shards = history.shards
  PROVE  StreamInv'
<1> DEFINE x == p.body.data
           D == ToSet(history.delivered)
<1>1. p \in Pdus /\ p \in Waiting
  BY DEF Arrival, Waiting, StreamInv, StreamType, Coming
<1>2. x \in Nat /\ DataIn(p) = {x}
  BY <1>1 DEF Pdus, DataIn
<1>3. <<x>> \in Seq(Nat) /\ ToSet(<<x>>) = {x} /\ Increasing(<<x>>)
  <2>1. <<x>> \in Seq(Nat) /\ DOMAIN <<x>> = {1} /\ <<x>>[1] = x
    BY <1>2
  <2>. QED BY <2>1 DEF ToSet, Increasing
<1>4. r.fec \in Decoders /\ r.out \in Seq(Nat) /\ ToSet(r.out) = {x}
  BY <1>3 DEF StreamInv, StreamType
<1> HIDE DEF x, D
<1>5. /\ Waiting' \subseteq Waiting /\ WaitingShards' \subseteq WaitingShards
      /\ \A q \in Waiting' : Follows(p, q)
      /\ StreamType' /\ LineOK' /\ ToSet(history'.delivered) = D \cup {x}
  BY <1>4, ArrivalLeaves DEF D
<1>6. ~Decoded(p) /\ Below(D, {x})
  BY <1>1, <1>2 DEF Decoded, StreamInv, NewOK, D
<1>7. Held' = Held
  BY DEF Held, Arrival
<1>8. Increasing(history'.delivered)
  <2>1. history.delivered \in Seq(Nat) /\ Increasing(history.delivered)
    BY DEF StreamInv, StreamType
  <2>2. history'.delivered = history.delivered \o <<x>>
    BY DEF Arrival, x
  <2>. QED BY <1>3, <1>6, <2>1, <2>2, Lengthened DEF D
<1>9. DoneOK'
  BY <1>5 DEF Arrival, StreamInv, DoneOK, D
<1>10. NewOK'
  <2>1. ASSUME NEW q \in Waiting' PROVE Below(D \cup {x}, DataIn(q))
    BY <1>1, <1>2, <1>5, <1>6, <2>1, LaterThanNew DEF D
  <2>. QED BY <1>5, <2>1 DEF NewOK
<1>11. RecoverOK'
  BY <1>5, <1>7 DEF StreamInv, RecoverOK, D
<1>12. /\ Held' \subseteq Live /\ BlocksOK(peer'.fec.blocks)
       /\ UNCHANGED fec /\ history'.sent = history.sent
  BY <1>7 DEF Live, Arrival, StreamInv
<1>13. ToSet(history'.delivered) \subseteq Old
  BY <1>1, <1>2, <1>5, WaitingOld DEF Old, D
<1>. QED BY <1>5, <1>8, <1>9, <1>10, <1>11, <1>12, <1>13, StreamLess

(* GivenUp has every shard that the receiver drops without a decoded block. *)
LEMMA GivenUpHas ==
  ASSUME StreamInv, OnTheWay, NEW b \in Nat, NEW e \in Nat, MayExpire(b, e),
         NEW s \in WaitingShards
  PROVE  LET f == ExpireRx(peer.fec, b, e)
         IN  /\ \A t : (\E i \in 1..b : t \in peer.fec.blocks[i].frags) => t \in GivenUp(b, s)
             /\ \A t : Squeezed(f, s, t) => t \in GivenUp(b, s)
<1> DEFINE B == peer.fec.blocks
           D == peer.fec.done
           f == ExpireRx(peer.fec, b, e)
           g == ExpireRx(peer.fec, b, 0)
           full == Len(g.blocks) = BLOCK_MAX /\ ~IsOpen(g, s.id) /\ ~IsDone(g, s.id)
           n == b + IF full THEN 1 ELSE 0
<1>1. /\ peer.fec \in Decoders /\ B \in Seq(OpenBlocks) /\ D \in Seq(DoneBlocks)
      /\ Len(B) \in Nat /\ Len(D) \in Nat
  BY DEF StreamInv, StreamType, Decoders
<1>2. /\ f.blocks = DropOldest(B, b)
      /\ IsDone(f, s.id) <=> IsDone(peer.fec, s.id)
  BY Expired
<1>3. b \in 0..Len(B)
  BY <1>1 DEF MayExpire
<1>4. g.blocks = DropOldest(B, b) /\ g.done = DropOldest(D, 0)
  BY <1>1 DEF ExpireRx, Decoders
<1>5. IsDone(g, s.id) <=> IsDone(peer.fec, s.id)
  <2>1. 0 \in 0..Len(D) /\ (0 + 1)..Len(D) = 1..Len(D) /\ DOMAIN D = 1..Len(D)
    BY <1>1
  <2>2. \A y : y \in ToSet(DropOldest(D, 0)) <=> \E i \in (0 + 1)..Len(D) : y = D[i]
    BY ONLY <1>1, <2>1, Dropped
  <2>3. \A y : y \in ToSet(D) <=> \E i \in 1..Len(D) : y = D[i]
    BY <2>1 DEF ToSet
  <2>. QED BY <1>4, <2>1, <2>2, <2>3, IsDoneSet
<1>6. GivenUp(b, s) = UNION {B[j].frags : j \in 1..n}
  BY DEF GivenUp
<1>7. \A t, i : i \in 1..n /\ t \in B[i].frags => t \in GivenUp(b, s)
  BY <1>6
<1>8. n \in Nat /\ n >= b
  OBVIOUS
<1>9. IsOpen(g, s.id) <=> IsOpen(f, s.id)
  BY <1>2, <1>4 DEF IsOpen
<1>10. BLOCK_MAX \in Nat /\ BLOCK_MAX >= 1
  BY BasicFecAssumption
<1>11. ASSUME NEW t, Squeezed(f, s, t) PROVE t \in GivenUp(b, s)
  <2>1. full
    BY <1>2, <1>4, <1>5, <1>9, <1>11 DEF Squeezed
  <2>2. n = b + 1 /\ b + 1 \in 1..n
    BY <2>1
  <2>3. Len(DropOldest(B, b)) = BLOCK_MAX /\ t \in DropOldest(B, b)[1].frags
    BY <1>2, <1>11 DEF Squeezed
  <2> HIDE DEF n, full, f, g, B, D
  <2>4. /\ Len(DropOldest(B, b)) = Len(B) - b
        /\ \A i \in 1..(Len(B) - b) : DropOldest(B, b)[i] = B[i + b]
    <3>1. B \in Seq(OpenBlocks) /\ b \in 0..Len(B)
      BY <1>1, <1>3
    <3>2. /\ Len(DropOldest(B, b)) = Len(B) - b
          /\ \A i \in 1..(Len(B) - b) : DropOldest(B, b)[i] = B[i + b]
      BY ONLY <3>1, Dropped
    <3>. QED BY ONLY <3>2
  <2>5. 1 \in 1..(Len(B) - b) /\ 1 + b = b + 1
    BY <1>1, <1>10, <2>3, <2>4
  <2>6. DropOldest(B, b)[1] = B[b + 1]
    BY <2>4, <2>5
  <2>. QED BY <1>7, <2>2, <2>3, <2>6
<1>12. ASSUME NEW t, NEW i \in 1..b, t \in B[i].frags PROVE t \in GivenUp(b, s)
  <2>1. i \in 1..n
    BY <1>8
  <2>. QED BY <1>7, <1>12, <2>1
<1>. QED BY <1>11, <1>12

LEMMA MarkedSet ==
  ASSUME NEW f \in Decoders, NEW s \in ShardType
  PROVE  LET d == [id |-> s.id, rows |-> s.rows]
         IN  d \in ToSet(DoneAfter(f, s)) /\ ToSet(DoneAfter(f, s)) \subseteq ToSet(f.done) \cup {d}
<1> DEFINE d == [id |-> s.id, rows |-> s.rows]
           all == Append(f.done, d)
<1>1. f.done \in Seq(DoneBlocks) /\ d \in DoneBlocks
  BY DEF Decoders, ShardType, DoneBlocks
<1>2. DoneAfter(f, s) = IF Len(all) > DONE_MAX THEN Tail(all) ELSE all
  BY DEF DoneAfter
<1> HIDE DEF d
<1>3. /\ all \in Seq(DoneBlocks) /\ all # <<>> /\ Len(all) \in Nat /\ Len(all) >= 1
      /\ all[Len(all)] = d /\ DOMAIN all = 1..Len(all)
  BY <1>1
<1>4. ToSet(all) = ToSet(f.done) \cup {d} /\ d \in ToSet(all)
  BY <1>1, SetOfAppend
<1> HIDE DEF all
<1>5. CASE Len(all) > DONE_MAX
  <2>1. DONE_MAX \in Nat /\ DONE_MAX >= 1
    BY BasicFecAssumption
  <2>2. Len(all) \in (1 + 1)..Len(all)
    BY <1>3, <1>5, <2>1
  <2>3. Tail(all) = DropOldest(all, 1) /\ 1 \in 0..Len(all)
    BY ONLY <1>3, TailDrops
  <2>4. /\ \A y : y \in ToSet(DropOldest(all, 1)) <=> \E i \in (1 + 1)..Len(all) : y = all[i]
        /\ ToSet(DropOldest(all, 1)) \subseteq ToSet(all)
    BY ONLY <1>3, <2>3, Dropped
  <2>. QED BY <1>2, <1>3, <1>4, <1>5, <2>2, <2>3, <2>4 DEF d
<1>. QED BY <1>2, <1>4, <1>5 DEF d

(* A shard, with blocks that are given up at the same time. *)
LEMMA ShardKeeps ==
  ASSUME StreamInv, QueueType, OnTheWay, NEW b \in Nat, NEW e \in Nat, MayExpire(b, e),
         NEW p, p.kind = "shard", NEW r, r = PushAir(ExpireRx(peer.fec, b, e), p.body),
         Arrival(p, r),
         history'.shards = (history.shards \ GivenUp(b, p.body)) \cup {p.body}
  PROVE  StreamInv'
<1> DEFINE s == p.body
           f == ExpireRx(peer.fec, b, e)
           D == ToSet(history.delivered)
<1>1. p \in Waiting /\ s \in WaitingShards
  BY DEF Arrival, Waiting, WaitingShards, Coming
<1>2. ShardOK(s) /\ s \in Live /\ DataOf(s.rows) # {} /\ DataIn(p) = DataOf(s.rows)
  BY <1>1, WaitingShardLive, ShardData DEF StreamInv, LiveOK, DataIn
<1>3. /\ f \in Decoders /\ BlocksOK(f.blocks) /\ HeldIn(f.blocks) \subseteq Held
      /\ \A t \in Held : \/ t \in HeldIn(f.blocks)
                         \/ \E i \in 1..b : t \in peer.fec.blocks[i].frags
      /\ ToSet(f.done) \subseteq ToSet(peer.fec.done)
      /\ \A t \in WaitingShards : IsDone(f, t.id) <=> IsDone(peer.fec, t.id)
  BY Expired
<1>4. /\ \A t : (\E i \in 1..b : t \in peer.fec.blocks[i].frags) => t \in GivenUp(b, s)
      /\ \A t : Squeezed(f, s, t) => t \in GivenUp(b, s)
  BY <1>1, GivenUpHas
<1>5. r = PushAir(f, s) /\ history'.shards = (history.shards \ GivenUp(b, s)) \cup {s}
  OBVIOUS
<1> HIDE DEF f, s, D
<1>6. Fits(f, s)
  <2>1. \A t \in HeldIn(f.blocks) : t.id = s.id => SameBlock(t, s)
    BY <1>2, <1>3, WaitingShardLive DEF StreamInv, LiveOK
  <2>. QED BY <1>2, <1>3, <2>1 DEF Fits, ShardOK
<1>7. PushOutcome(f, s, r)
  BY <1>5, <1>6, PushAirOutcome
<1>8. /\ Datagrams(s.rows) \in Seq(Nat) /\ ToSet(Datagrams(s.rows)) = DataOf(s.rows)
      /\ Increasing(Datagrams(s.rows))
  <2>1. s.rows \in Seq(Nat \cup {EMPTY}) /\ Ascending(s.rows)
    BY <1>2 DEF ShardOK, ShardType
  <2>. QED BY <2>1, DatagramsAre
<1>9. <<>> \in Seq(Nat) /\ ToSet(<<>>) = {}
  BY DEF ToSet
<1>10. r.fec \in Decoders /\ r.out \in Seq(Nat)
  BY <1>7, <1>8, <1>9 DEF PushOutcome, Known, Kept, Completed
<1>11. /\ Waiting' = ToSet(queue) /\ Waiting' \subseteq Waiting
       /\ WaitingShards' \subseteq WaitingShards
       /\ \A q \in Waiting' : Follows(p, q)
       /\ StreamType' /\ LineOK' /\ ToSet(history'.delivered) = D \cup ToSet(r.out)
  BY <1>10, ArrivalLeaves DEF D
<1>12. /\ peer'.fec = r.fec /\ UNCHANGED fec /\ history'.sent = history.sent
       /\ history'.delivered = history.delivered \o r.out
       /\ BlocksOK(peer'.fec.blocks)
  BY <1>7 DEF Arrival, PushOutcome
<1>13. Held' = HeldIn(r.fec.blocks) /\ Held' \subseteq Live
  <2>1. Held' = HeldIn(r.fec.blocks)
    BY <1>12 DEF Held
  <2>. QED BY <1>2, <1>3, <1>7, <2>1 DEF PushOutcome, Live
<1>14. D \subseteq Old /\ DataOf(s.rows) \subseteq Old
  BY <1>1, <1>2, WaitingOld DEF Old, D
<1>15. \A t \in Held : \/ t \in Held'
                       \/ t \in GivenUp(b, s)
                       \/ Completed(f, s, r) /\ t.rows = s.rows
  BY <1>3, <1>4, <1>7, <1>13 DEF PushOutcome
<1>16. CASE ~Completed(f, s, r)
  <2>1. r.out = <<>> /\ r.fec.done = f.done
    BY <1>7, <1>16 DEF PushOutcome, Known, Kept
  <2>2. history'.delivered = history.delivered
    BY <1>12, <2>1 DEF StreamInv, StreamType
  <2>3. DoneOK'
    BY <1>3, <1>11, <1>12, <2>1, <2>2 DEF StreamInv, DoneOK
  <2>4. NewOK'
    <3>1. ASSUME NEW q \in Waiting, Decoded(q) PROVE Decoded(q)'
      <4>1. q.kind = "shard" /\ q.body \in WaitingShards
        BY <3>1 DEF Decoded, WaitingShards
      <4>2. IsDone(r.fec, q.body.id)
        BY <1>3, <2>1, <3>1, <4>1, IsDoneSet DEF Decoded
      <4>. QED BY <1>12, <4>1, <4>2 DEF Decoded
    <3>. QED BY <1>11, <2>2, <3>1 DEF StreamInv, NewOK
  <2>5. RecoverOK'
    <3>1. DataOf(s.rows) \subseteq D \/ s \in Held'
      <4>1. CASE IsDone(f, s.id)
        <5>1. PICK d \in ToSet(peer.fec.done) : d.id = s.id
          BY <1>3, <4>1, IsDoneSet
        <5>. QED BY <1>1, <5>1 DEF StreamInv, DoneOK, D
      <4>2. CASE ~IsDone(f, s.id)
        BY <1>7, <1>13, <1>16, <4>2 DEF PushOutcome, Known, Kept
      <4>. QED BY <4>1, <4>2
    <3>2. ASSUME NEW t \in history.shards, t \notin GivenUp(b, s)
          PROVE  DataOf(t.rows) \subseteq D \/ t \in Held'
      BY <1>15, <1>16, <3>2 DEF StreamInv, RecoverOK, D
    <3>. QED BY <1>5, <2>2, <3>1, <3>2 DEF RecoverOK, D
  <2>6. Increasing(history'.delivered) /\ ToSet(history'.delivered) \subseteq Old
    BY <1>14, <2>2 DEF StreamInv, D
  <2>. QED BY <1>11, <1>12, <1>13, <2>3, <2>4, <2>5, <2>6, StreamLess
<1>17. CASE Completed(f, s, r)
  <2>1. r.out = Datagrams(s.rows) /\ r.fec.done = DoneAfter(f, s) /\ ~IsDone(f, s.id)
    BY <1>17 DEF Completed
  <2>2. ToSet(history'.delivered) = D \cup DataOf(s.rows)
    BY <1>8, <1>11, <2>1
  <2>3. ~Decoded(p) /\ DataIn(p) # {} /\ Below(D, DataOf(s.rows))
    BY <1>1, <1>2, <1>3, <2>1 DEF Decoded, s, StreamInv, NewOK, D
  <2> DEFINE d == [id |-> s.id, rows |-> s.rows]
  <2>4. d \in ToSet(r.fec.done) /\ ToSet(r.fec.done) \subseteq ToSet(peer.fec.done) \cup {d}
    BY <1>2, <1>3, <2>1, MarkedSet DEF ShardOK
  <2>5. d.id = s.id /\ d.rows = s.rows
    OBVIOUS
  <2> HIDE DEF d
  <2>6. DoneOK'
    <3>1. ASSUME NEW t \in WaitingShards', t.id = d.id PROVE t.rows = d.rows
      BY <1>2, <1>11, <2>5, <3>1, WaitingShardLive DEF StreamInv, LiveOK, SameBlock
    <3>2. ASSUME NEW x \in ToSet(peer.fec.done)
          PROVE  /\ DataOf(x.rows) # {} /\ DataOf(x.rows) \subseteq ToSet(history'.delivered)
                 /\ \A t \in WaitingShards' : t.id = x.id => t.rows = x.rows
      BY <1>11, <2>2 DEF StreamInv, DoneOK, D
    <3>. QED BY <1>2, <1>12, <2>2, <2>4, <2>5, <3>1, <3>2 DEF DoneOK
  <2>7. NewOK'
    <3>1. ASSUME NEW q \in Waiting'
          PROVE  Decoded(q)' \/ Below(D \cup DataOf(s.rows), DataIn(q))
      <4>1. \/ q.kind = "shard" /\ SameBlock(s, q.body)
            \/ Below(D \cup DataOf(s.rows), DataIn(q))
        BY <1>1, <1>2, <1>11, <2>3, LaterThanNew DEF s, D
      <4>2. CASE q.kind = "shard" /\ SameBlock(s, q.body)
        <5>1. IsDone(r.fec, q.body.id)
          BY <2>4, <2>5, <4>2, IsDoneSet DEF SameBlock
        <5>. QED BY <1>12, <4>2, <5>1 DEF Decoded
      <4>. QED BY <4>1, <4>2
    <3>. QED BY <2>2, <3>1 DEF NewOK
  <2>8. RecoverOK'
    <3>1. ASSUME NEW t \in history.shards, t \notin GivenUp(b, s)
          PROVE  DataOf(t.rows) \subseteq D \cup DataOf(s.rows) \/ t \in Held'
      BY <1>15, <3>1 DEF StreamInv, RecoverOK, D
    <3>. QED BY <1>5, <2>2, <3>1 DEF RecoverOK
  <2>9. Increasing(history'.delivered)
    <3>1. history.delivered \in Seq(Nat) /\ Increasing(history.delivered)
      BY DEF StreamInv, StreamType
    <3>. QED BY <1>8, <1>12, <2>1, <2>3, <3>1, Lengthened DEF D
  <2>10. ToSet(history'.delivered) \subseteq Old
    BY <1>14, <2>2
  <2>. QED BY <1>11, <1>12, <1>13, <2>6, <2>7, <2>8, <2>9, <2>10, StreamLess
<1>. QED BY <1>16, <1>17

LEMMA ReceiveKeeps ==
  ASSUME StreamInv, QueueType, NumbersOK, NEW again \in BOOLEAN, Receive(again)
  PROVE  StreamInv'
<1>1. CASE ~Accepts(peer.seq, air[1].seq)
  <2>1. /\ history' = [history EXCEPT !.twice = IF again THEN @ + 1 ELSE @]
        /\ UNCHANGED <<queue, fec, peer>> /\ air' \in {air, <<>>}
    BY <1>1 DEF Receive
  <2>2. /\ history'.sent = history.sent /\ history'.delivered = history.delivered
        /\ history'.shards = history.shards /\ history'.last = history.last
        /\ history'.count = history.count
    BY <2>1 DEF NumbersOK, NumbersType, HistoryFields
  <2>. QED BY <2>1, <2>2, AirLess
<1>2. CASE Accepts(peer.seq, air[1].seq)
  <2> DEFINE p == air[1].pdu
             shard == peer.dest /\ p.kind = "shard"
  <2>1. PICK b \in Nat, e \in Nat :
          /\ Arrival(p, OnRadioRx(p, b, e))
          /\ IF shard THEN MayExpire(b, e) ELSE b = 0 /\ e = 0
          /\ history'.shards = IF shard
                               THEN (history.shards \ GivenUp(b, p.body)) \cup {p.body}
                               ELSE history.shards
    BY <1>2, Arrives
  <2>2. p \in Pdus
    BY <2>1 DEF Arrival, Coming, StreamInv, StreamType
  <2>3. p.kind = "plain" \/ p.kind = "shard"
    BY <2>2 DEF Pdus
  <2>4. OnTheWay
    BY DEF NumbersOK
  <2> HIDE DEF p
  <2>5. CASE ~peer.dest
    <3>1. OnRadioRx(p, b, e).fec = peer.fec /\ OnRadioRx(p, b, e).out = <<>>
      BY <2>5 DEF OnRadioRx
    <3>. QED BY <2>1, <2>5, <3>1, IgnoredKeeps
  <2>6. CASE peer.dest /\ p.kind = "plain"
    <3>1. OnRadioRx(p, b, e).fec = peer.fec /\ OnRadioRx(p, b, e).out = <<p.body.data>>
      BY <2>6 DEF OnRadioRx
    <3>. QED BY <2>1, <2>6, <3>1, PlainKeeps
  <2>7. CASE peer.dest /\ p.kind = "shard"
    <3>1. OnRadioRx(p, b, e) = PushAir(ExpireRx(peer.fec, b, e), p.body)
      BY <2>7 DEF OnRadioRx
    <3>2. MayExpire(b, e) /\ history'.shards = (history.shards \ GivenUp(b, p.body)) \cup {p.body}
      BY <2>1, <2>7
    <3>. QED BY <2>1, <2>4, <2>7, <3>1, <3>2, ShardKeeps
  <2>. QED BY <2>3, <2>5, <2>6, <2>7
<1>. QED BY <1>1, <1>2

LEMMA StreamInit == Init => StreamInv
<1> SUFFICES ASSUME Init PROVE StreamInv
  OBVIOUS
<1>1. /\ queue = <<>> /\ fec = NoFec /\ air = <<>> /\ peer.fec = NoFec
      /\ history.delivered = <<>> /\ history.shards = {} /\ history.sent = 0
  BY DEF Init
<1>2. /\ NoFec.pending = <<>> /\ NoFec.blocks = <<>> /\ NoFec.done = <<>>
      /\ NoFec.k = 0 /\ NoFec.n = 0 /\ NoFec.block_id = 0
      /\ NoFec = [k |-> 0, n |-> 0, pending |-> <<>>, block_id |-> 0,
                  blocks |-> <<>>, done |-> <<>>]
  BY DEF NoFec
<1>3. DOMAIN <<>> = {} /\ Len(<<>>) = 0 /\ ToSet(<<>>) = {} /\ \A T : <<>> \in Seq(T)
  BY DEF ToSet
<1>4. ~Coming
  BY <1>1 DEF Coming
<1>5. Waiting = {} /\ WaitingShards = {} /\ Held = {} /\ Live = {}
  <2>1. Waiting = {}
    BY <1>1, <1>3, <1>4 DEF Waiting
  <2>2. WaitingShards = {}
    BY <2>1 DEF WaitingShards
  <2>3. Held = {}
    BY <1>1, <1>2, <1>3 DEF Held, HeldIn
  <2>. QED BY <2>1, <2>2, <2>3 DEF Live
<1>6. Old = {}
  <2>1. \A x : x \notin Old
    BY <1>1, <1>3, <1>5, OldMembers
  <2>. QED BY <2>1
<1>7. StreamType
  <2>1. NoFec \in Decoders
    BY <1>2, <1>3 DEF Decoders
  <2>. QED BY <1>1, <1>3, <2>1 DEF StreamType
<1>8. LineOK /\ LiveOK
  BY <1>1, <1>3, <1>4, <1>5 DEF LineOK, InLine, LiveOK
<1>9. PendingOK
  BY <1>1, <1>2, <1>3, <1>6 DEF PendingOK, Below, Increasing
<1>10. BlocksOK(peer.fec.blocks)
  BY <1>1, <1>2, <1>3, BasicFecAssumption DEF BlocksOK
<1>11. DoneOK /\ NewOK /\ RecoverOK
  BY <1>1, <1>2, <1>3, <1>5 DEF DoneOK, NewOK, RecoverOK
<1>12. Increasing(history.delivered)
  BY <1>1, <1>3 DEF Increasing
<1>. QED BY <1>7, <1>8, <1>9, <1>10, <1>11, <1>12 DEF StreamInv

LEMMA StreamNext ==
  ASSUME StreamInv, QueueType, NumbersOK, [Next /\ NumberFree]_vars
  PROVE  StreamInv'
<1> USE DEF NumbersOK
<1>1. CASE OnApp /\ NumberFree
  BY <1>1, OnAppKeeps
<1>2. CASE OnTick /\ NumberFree
  BY <1>2, OnTickKeeps
<1>3. CASE SetFec /\ NumberFree
  BY <1>3, SetFecKeeps
<1>4. ASSUME NEW done \in BOOLEAN, Send(done) PROVE StreamInv'
  BY <1>4, SendKeeps
<1>5. ASSUME NEW again \in BOOLEAN, Receive(again) PROVE StreamInv'
  BY <1>5, ReceiveKeeps
<1>6. CASE Lose
  <2>1. air' = <<>> /\ UNCHANGED <<queue, fec, peer, history>>
    BY <1>6 DEF Lose
  <2>. QED BY <2>1, AirLess
<1>7. CASE PeerTick
  BY <1>7, PeerTickKeeps
<1>8. CASE PeerApp
  <2>1. /\ peer' = [peer EXCEPT !.dest = ~@] /\ UNCHANGED <<queue, fec, air>>
        /\ history' = [history EXCEPT !.apps = @ + 1]
    BY <1>8 DEF PeerApp
  <2>2. /\ peer'.fec = peer.fec
        /\ history'.sent = history.sent /\ history'.delivered = history.delivered
        /\ history'.shards = history.shards /\ history'.last = history.last
        /\ history'.count = history.count
    BY <2>1 DEF NumbersType, HistoryFields
  <2>. QED BY <2>1, <2>2, AirLess
<1>9. CASE UNCHANGED vars
  BY <1>9, AirLess DEF vars
<1>. QED BY <1>1, <1>2, <1>3, <1>4, <1>5, <1>6, <1>7, <1>8, <1>9 DEF Next

LEMMA StreamInvInvariant == SpecNumberFree => []StreamInv
<1> DEFINE IInv == NumbersOK /\ QueueType /\ StreamInv
<1>1. Init => IInv
  <2>1. <<>> \in Seq(Pdus)
    OBVIOUS
  <2>2. Init => QueueType
    BY <2>1, NoEncoder DEF Init, QueueType
  <2>. QED BY <2>2, NumbersInit, StreamInit
<1>2. IInv /\ [Next /\ NumberFree]_vars => IInv'
  <2> SUFFICES ASSUME NumbersOK, QueueType, StreamInv, [Next /\ NumberFree]_vars
               PROVE  NumbersOK' /\ QueueType' /\ StreamInv'
    OBVIOUS
  <2>1. [Next]_vars
    OBVIOUS
  <2>2. NumbersOK'
    BY <2>1, NumbersNext
  <2>3. QueueType'
    BY <2>1, QueueNext DEF NumbersOK
  <2>. QED BY <2>2, <2>3, StreamNext
<1>. QED BY <1>1, <1>2, PTL DEF SpecNumberFree

(* What the peer's application gets are datagrams of the local one, each   *)
(* at most once and in the order of sending: on_app() and on_radio_rx() of *)
(* udp_endpoint.cpp, push_air() and decode_block() of basic_fec.cpp.       *)
THEOREM DeliveredInOrder == SpecNumberFree => []DeliveredAsSent
<1>1. StreamInv => DeliveredAsSent
  BY DEF StreamInv, PendingOK, Old, DeliveredAsSent, Increasing
<1>. QED BY <1>1, StreamInvInvariant, PTL

(* Any k shards of a block that was not given up have brought it back:     *)
(* push_air(), decode_block() and mark_done() of basic_fec.cpp.            *)
THEOREM AnyKOfN == SpecNumberFree => []AnyKRecover
<1>1. StreamInv => AnyKRecover
  <2> SUFFICES ASSUME StreamInv, NEW s \in history.shards,
                      Cardinality({t \in history.shards : t.rows = s.rows}) >= s.k,
                      ~(DataOf(s.rows) \subseteq ToSet(history.delivered))
               PROVE  FALSE
    BY DEF AnyKRecover, DataOf
  <2> DEFINE S == {t \in history.shards : t.rows = s.rows}
             B == peer.fec.blocks
  <2>1. s \in Held /\ \A t \in S : t \in Held
    BY DEF StreamInv, RecoverOK
  <2>2. \A t \in S : t.id = s.id /\ t.k = s.k
    BY <2>1, WaitingShardLive DEF StreamInv, LiveOK, SameBlock
  <2>3. B \in Seq(OpenBlocks)
    BY DEF StreamInv, StreamType, Decoders
  <2>4. DOMAIN B = 1..Len(B)
    BY <2>3
  <2>5. \A t \in Held : \E j \in 1..Len(B) : t \in B[j].frags
    BY <2>3, HeldMember DEF Held
  <2>6. PICK i \in 1..Len(B) : s \in B[i].frags
    BY <2>1, <2>5
  <2>7. /\ \A j \in 1..Len(B) : Collecting(B[j])
        /\ \A j, l \in 1..Len(B) : B[j].id = B[l].id => j = l
    BY <2>4 DEF StreamInv, BlocksOK
  <2>8. S \subseteq B[i].frags
    <3>1. ASSUME NEW t \in S PROVE t \in B[i].frags
      <4>1. PICK j \in 1..Len(B) : t \in B[j].frags
        BY <2>1, <2>5
      <4>2. B[j].id = t.id /\ B[i].id = s.id
        BY <2>6, <2>7, <4>1 DEF Collecting
      <4>. QED BY <2>2, <2>7, <4>1, <4>2
    <3>. QED BY <3>1
  <2>9. IsFiniteSet(B[i].frags) /\ Cardinality(B[i].frags) < s.k
    BY <2>6, <2>7 DEF Collecting
  <2>10. Cardinality(S) <= Cardinality(B[i].frags)
         /\ Cardinality(S) \in Nat /\ Cardinality(B[i].frags) \in Nat
    BY <2>8, <2>9, FS_Subset, FS_CardinalityType
  <2>11. s.k \in Nat /\ Cardinality(S) >= s.k
    BY <2>1, WaitingShardLive DEF StreamInv, LiveOK, ShardOK, ShardType
  <2>. QED BY <2>9, <2>10, <2>11
<1>. QED BY <1>1, StreamInvInvariant, PTL
=============================================================================

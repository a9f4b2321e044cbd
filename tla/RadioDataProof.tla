--------------------------- MODULE RadioDataProof ---------------------------
(***************************************************************************)
(* Proofs about RadioData, for any buffers, slots, destinations, sequence  *)
(* numbers, tries, frames and commands: a reader that is sure has read one *)
(* mode's rules; every slot and every buffer is in one place; a frame that *)
(* has a buffer finds a slot; both queues of slots implement the bounded   *)
(* first-in-first-out queue; the manager gets the frames once and in       *)
(* order, at the destination that was set; and no Ethernet buffer is lost  *)
(* on its way to the inject task.                                          *)
(***************************************************************************)
EXTENDS RadioData, FiniteSets, FunctionTheorems, FiniteSetTheorems, TLAPS

-----------------------------------------------------------------------------
(***************************************************************************)
(* The operators of SlotQueue, for every number of slots and any elements: *)
(* each keeps every slot in one place, and the contents of the queue       *)
(* change as those of a first-in-first-out queue when a slot is published  *)
(* or taken, and otherwise not at all.                                     *)
(***************************************************************************)
(* The queue q has the slots S and holds elements of E; the tasks hold H. *)
QueueOK(q, S, E, H) ==
    /\ q \in [free : Seq(S), filled : Seq(S), slots : [S -> E \cup {Nothing}]]
    /\ IsInjective(q.free) /\ IsInjective(q.filled)
    /\ Range(q.free) \cap Range(q.filled) = {}
    /\ (Range(q.free) \cup Range(q.filled)) \cap H = {}
    /\ Range(q.free) \cup Range(q.filled) \cup H = S
    /\ \A i \in Range(q.free) : q.slots[i] = Nothing
    /\ \A i \in Range(q.filled) : q.slots[i] # Nothing

-----------------------------------------------------------------------------
(***************************************************************************)
(* Sequences without repetition.                                           *)
(***************************************************************************)
LEMMA InjectiveTail ==
  ASSUME NEW S, NEW s \in Seq(S), s # <<>>, IsInjective(s)
  PROVE  /\ Head(s) \in Range(s) /\ Head(s) \in S
         /\ Tail(s) \in Seq(S) /\ IsInjective(Tail(s))
         /\ Range(Tail(s)) = Range(s) \ {Head(s)}
<1>1. /\ Len(s) \in Nat \ {0} /\ DOMAIN s = 1..Len(s) /\ Head(s) = s[1]
      /\ Tail(s) \in Seq(S) /\ Len(Tail(s)) = Len(s) - 1
      /\ DOMAIN Tail(s) = 1..(Len(s) - 1)
      /\ \A i \in 1..(Len(s) - 1) : Tail(s)[i] = s[i + 1]
  OBVIOUS
<1>2. Head(s) \in Range(s) /\ Head(s) \in S
  BY <1>1 DEF Range
<1>3. IsInjective(Tail(s))
  <2>1. SUFFICES ASSUME NEW a \in 1..(Len(s) - 1), NEW b \in 1..(Len(s) - 1),
                        s[a + 1] = s[b + 1]
                 PROVE  a = b
    BY <1>1 DEF IsInjective
  <2>2. a + 1 \in DOMAIN s /\ b + 1 \in DOMAIN s
    BY <1>1
  <2>3. a + 1 = b + 1
    BY <2>1, <2>2 DEF IsInjective
  <2>4. QED
    BY <2>3
<1>4. ASSUME NEW x \in Range(Tail(s)) PROVE x \in Range(s) \ {Head(s)}
  <2>1. PICK a \in 1..(Len(s) - 1) : x = s[a + 1]
    BY <1>1 DEF Range
  <2>2. a + 1 \in DOMAIN s /\ 1 \in DOMAIN s /\ a + 1 # 1
    BY <1>1
  <2>3. QED
    BY <1>1, <2>1, <2>2 DEF Range, IsInjective
<1>5. ASSUME NEW x \in Range(s) \ {Head(s)} PROVE x \in Range(Tail(s))
  <2>1. PICK a \in 1..Len(s) : x = s[a]
    BY <1>1 DEF Range
  <2>2. a # 1 /\ a - 1 \in 1..(Len(s) - 1)
    BY <1>1, <2>1
  <2>3. Tail(s)[a - 1] = x
    BY <1>1, <2>1, <2>2
  <2>4. QED
    BY <1>1, <2>2, <2>3 DEF Range
<1>6. QED
  BY <1>1, <1>2, <1>3, <1>4, <1>5

LEMMA InjectiveAppend ==
  ASSUME NEW S, NEW s \in Seq(S), IsInjective(s), NEW e \in S, e \notin Range(s)
  PROVE  /\ Append(s, e) \in Seq(S) /\ IsInjective(Append(s, e))
         /\ Range(Append(s, e)) = Range(s) \cup {e}
<1>1. /\ Len(s) \in Nat /\ DOMAIN s = 1..Len(s)
      /\ Append(s, e) \in Seq(S)
      /\ DOMAIN Append(s, e) = 1..(Len(s) + 1)
      /\ Append(s, e)[Len(s) + 1] = e
      /\ \A i \in 1..Len(s) : Append(s, e)[i] = s[i]
  OBVIOUS
<1>2. IsInjective(Append(s, e))
  <2>1. SUFFICES ASSUME NEW a \in 1..(Len(s) + 1), NEW b \in 1..(Len(s) + 1),
                        Append(s, e)[a] = Append(s, e)[b]
                 PROVE  a = b
    BY <1>1 DEF IsInjective
  <2>2. \A i \in 1..Len(s) : s[i] # e
    BY <1>1 DEF Range
  <2>3. CASE a \in 1..Len(s) /\ b \in 1..Len(s)
    BY <1>1, <2>1, <2>3 DEF IsInjective
  <2>4. CASE a = Len(s) + 1 \/ b = Len(s) + 1
    BY <1>1, <2>1, <2>2, <2>4
  <2>5. QED
    BY <1>1, <2>3, <2>4
<1>3. ASSUME NEW x \in Range(Append(s, e)) PROVE x \in Range(s) \cup {e}
  <2>1. PICK a \in 1..(Len(s) + 1) : x = Append(s, e)[a]
    BY <1>1 DEF Range
  <2>2. CASE a \in 1..Len(s)
    BY <1>1, <2>1, <2>2 DEF Range
  <2>3. CASE a = Len(s) + 1
    BY <1>1, <2>1, <2>3
  <2>4. QED
    BY <1>1, <2>2, <2>3
<1>4. ASSUME NEW x \in Range(s) \cup {e} PROVE x \in Range(Append(s, e))
  <2>1. CASE x = e
    <3>1. Len(s) + 1 \in 1..(Len(s) + 1)
      BY <1>1
    <3>2. QED
      BY <1>1, <2>1, <3>1 DEF Range
  <2>2. CASE x \in Range(s)
    <3>1. PICK a \in 1..Len(s) : x = s[a]
      BY <1>1, <2>2 DEF Range
    <3>2. a \in 1..(Len(s) + 1)
      BY <1>1
    <3>3. QED
      BY <1>1, <3>1, <3>2 DEF Range
  <2>3. QED
    BY <2>1, <2>2
<1>5. QED
  BY <1>1, <1>2, <1>3, <1>4

-----------------------------------------------------------------------------
(***************************************************************************)
(* The operators keep every slot in one place.                             *)
(***************************************************************************)
LEMMA NewQueueOK ==
  ASSUME NEW cap \in Nat, NEW E
  PROVE  /\ QueueOK(NewQueue(cap), 1..cap, E, {})
         /\ Contents(NewQueue(cap)) = <<>>
<1> DEFINE q == NewQueue(cap)
           all == [i \in 1..cap |-> i]
<1>1. q = [free |-> all, filled |-> <<>>, slots |-> [i \in 1..cap |-> Nothing]]
  BY DEF NewQueue
<1>2. /\ all \in Seq(1..cap) /\ DOMAIN all = 1..cap
      /\ \A i \in 1..cap : all[i] = i
  OBVIOUS
<1>3. IsInjective(all) /\ Range(all) = 1..cap
  BY <1>2 DEF IsInjective, Range
<1>4. <<>> \in Seq(1..cap) /\ IsInjective(<<>>) /\ Range(<<>>) = {}
  BY DEF IsInjective, Range
<1>5. q.free = all /\ q.filled = <<>> /\ q.slots = [i \in 1..cap |-> Nothing]
  BY <1>1
<1>6. [i \in 1..cap |-> Nothing] \in [1..cap -> E \cup {Nothing}]
  OBVIOUS
<1>7. q \in [free : Seq(1..cap), filled : Seq(1..cap), slots : [1..cap -> E \cup {Nothing}]]
  <2> HIDE DEF all
  <2>1. QED
    BY <1>1, <1>2, <1>4, <1>6
<1>8. \A i \in Range(q.free) : q.slots[i] = Nothing
  BY <1>3, <1>5
<1>9. Contents(q) = <<>>
  BY <1>5 DEF Contents
<1>10. QueueOK(q, 1..cap, E, {})
  <2> HIDE DEF all, q
  <2>1. QED
    BY <1>3, <1>4, <1>5, <1>7, <1>8 DEF QueueOK
<1>11. QED
  BY <1>9, <1>10

LEMMA QueueParts ==
  ASSUME NEW S, NEW E, NEW H, NEW q, QueueOK(q, S, E, H)
  PROVE  /\ q.free \in Seq(S) /\ q.filled \in Seq(S)
         /\ q.slots \in [S -> E \cup {Nothing}]
         /\ IsInjective(q.free) /\ IsInjective(q.filled)
         /\ H \subseteq S
BY DEF QueueOK

(* Contents depends on the filled slots only. *)
LEMMA SameContents ==
  ASSUME NEW q, NEW r, r.filled = q.filled,
         \A i \in Range(q.filled) : r.slots[i] = q.slots[i]
  PROVE  Contents(r) = Contents(q)
<1>1. \A k \in DOMAIN q.filled : r.slots[q.filled[k]] = q.slots[q.filled[k]]
  BY DEF Range
<1>2. QED
  BY <1>1 DEF Contents

LEMMA ContentsSeq ==
  ASSUME NEW S, NEW E, NEW H, NEW q, QueueOK(q, S, E, H)
  PROVE  /\ Contents(q) \in Seq(E) /\ Len(Contents(q)) = Len(q.filled)
         /\ \A k \in 1..Len(q.filled) : Contents(q)[k] = q.slots[q.filled[k]]
<1>1. DOMAIN q.filled = 1..Len(q.filled) /\ Len(q.filled) \in Nat
  BY QueueParts
<1>2. ASSUME NEW k \in 1..Len(q.filled) PROVE q.slots[q.filled[k]] \in E
  <2>1. q.filled[k] \in Range(q.filled) /\ q.filled[k] \in S
    BY <1>1, QueueParts DEF Range
  <2>2. q.slots[q.filled[k]] # Nothing
    BY <2>1 DEF QueueOK
  <2>3. QED
    BY <2>1, <2>2, QueueParts
<1>3. QED
  BY <1>1, <1>2 DEF Contents

LEMMA ClaimOK ==
  ASSUME NEW S, NEW E, NEW H, NEW q, QueueOK(q, S, E, H), CanClaim(q)
  PROVE  /\ QueueOK(Claim(q), S, E, H \cup {Claimed(q)})
         /\ Claimed(q) \in S \ H /\ q.slots[Claimed(q)] = Nothing
         /\ Claim(q).slots = q.slots /\ Claim(q).filled = q.filled
         /\ Contents(Claim(q)) = Contents(q)
<1> DEFINE i == Head(q.free)
<1>1. /\ i \in Range(q.free) /\ i \in S
      /\ Tail(q.free) \in Seq(S) /\ IsInjective(Tail(q.free))
      /\ Range(Tail(q.free)) = Range(q.free) \ {i}
  BY InjectiveTail, QueueParts DEF CanClaim
<1>2. /\ Claim(q).free = Tail(q.free) /\ Claim(q).filled = q.filled
      /\ Claim(q).slots = q.slots
      /\ Claim(q) \in [free : Seq(S), filled : Seq(S), slots : [S -> E \cup {Nothing}]]
  BY <1>1 DEF Claim, QueueOK
<1>3. Claimed(q) = i
  BY DEF Claimed
<1>4. Contents(Claim(q)) = Contents(q)
  BY <1>2, SameContents
<1>5. QED
  <2> HIDE DEF i
  <2>1. QED
    BY <1>1, <1>2, <1>3, <1>4 DEF QueueOK

LEMMA StoreOK ==
  ASSUME NEW S, NEW E, NEW H, NEW q, QueueOK(q, S, E, H),
         NEW i \in H, NEW x \in E \cup {Nothing}
  PROVE  /\ QueueOK(Store(q, i, x), S, E, H)
         /\ Store(q, i, x).slots = [q.slots EXCEPT ![i] = x]
         /\ Store(q, i, x).free = q.free /\ Store(q, i, x).filled = q.filled
         /\ Contents(Store(q, i, x)) = Contents(q)
<1> DEFINE r == Store(q, i, x)
<1>1. /\ r.free = q.free /\ r.filled = q.filled /\ r.slots = [q.slots EXCEPT ![i] = x]
      /\ r \in [free : Seq(S), filled : Seq(S), slots : [S -> E \cup {Nothing}]]
  BY DEF Store, QueueOK
<1>2. \A j \in S : j # i => r.slots[j] = q.slots[j]
  BY <1>1, QueueParts
<1>3. i \notin Range(q.free) /\ i \notin Range(q.filled)
      /\ Range(q.free) \subseteq S /\ Range(q.filled) \subseteq S
  BY DEF QueueOK
<1>4. Contents(r) = Contents(q)
  BY <1>1, <1>2, <1>3, SameContents
<1>5. QED
  <2> HIDE DEF r
  <2>1. QueueOK(r, S, E, H)
    BY <1>1, <1>2, <1>3 DEF QueueOK
  <2>2. QED
    BY <1>1, <1>4, <2>1 DEF r

LEMMA MoveOutOK ==
  ASSUME NEW S, NEW E, NEW H, NEW q, QueueOK(q, S, E, H), NEW i \in H
  PROVE  /\ QueueOK(MoveOut(q, i), S, E, H)
         /\ MoveOut(q, i).slots = [q.slots EXCEPT ![i] = Nothing]
         /\ MoveOut(q, i).free = q.free /\ MoveOut(q, i).filled = q.filled
         /\ Contents(MoveOut(q, i)) = Contents(q)
<1>1. MoveOut(q, i) = Store(q, i, Nothing)
  BY DEF MoveOut, Store
<1>2. QED
  BY <1>1, StoreOK

LEMMA GiveBackOK ==
  ASSUME NEW S, NEW E, NEW H, NEW q, QueueOK(q, S, E, H),
         NEW i \in H, q.slots[i] = Nothing
  PROVE  /\ QueueOK(GiveBack(q, i), S, E, H \ {i})
         /\ GiveBack(q, i).slots = q.slots /\ GiveBack(q, i).filled = q.filled
         /\ Contents(GiveBack(q, i)) = Contents(q)
<1> DEFINE r == GiveBack(q, i)
<1>1. i \in S /\ i \notin Range(q.free) /\ i \notin Range(q.filled)
  BY DEF QueueOK
<1>2. /\ Append(q.free, i) \in Seq(S) /\ IsInjective(Append(q.free, i))
      /\ Range(Append(q.free, i)) = Range(q.free) \cup {i}
  BY <1>1, QueueParts, InjectiveAppend
<1>3. /\ r.free = Append(q.free, i) /\ r.filled = q.filled /\ r.slots = q.slots
      /\ r \in [free : Seq(S), filled : Seq(S), slots : [S -> E \cup {Nothing}]]
  BY <1>2 DEF GiveBack, QueueOK
<1>4. Contents(r) = Contents(q)
  BY <1>3, SameContents
<1>5. QED
  <2> HIDE DEF r
  <2>1. QueueOK(r, S, E, H \ {i})
    BY <1>1, <1>2, <1>3 DEF QueueOK
  <2>2. QED
    BY <1>3, <1>4, <2>1 DEF r

-----------------------------------------------------------------------------
(***************************************************************************)
(* Publishing is a put and taking a get of a first-in-first-out queue.     *)
(***************************************************************************)
LEMMA PublishOK ==
  ASSUME NEW S, NEW E, NEW H, NEW q, QueueOK(q, S, E, H),
         NEW i \in H, q.slots[i] # Nothing
  PROVE  /\ QueueOK(Publish(q, i), S, E, H \ {i})
         /\ Publish(q, i).slots = q.slots /\ Publish(q, i).free = q.free
         /\ Publish(q, i).filled = Append(q.filled, i)
         /\ Contents(Publish(q, i)) = Append(Contents(q), q.slots[i])
         /\ q.slots[i] \in E
<1> DEFINE r == Publish(q, i)
<1>1. i \in S /\ i \notin Range(q.free) /\ i \notin Range(q.filled) /\ q.slots[i] \in E
  BY DEF QueueOK
<1>2. /\ Append(q.filled, i) \in Seq(S) /\ IsInjective(Append(q.filled, i))
      /\ Range(Append(q.filled, i)) = Range(q.filled) \cup {i}
  BY <1>1, QueueParts, InjectiveAppend
<1>3. /\ r.free = q.free /\ r.filled = Append(q.filled, i) /\ r.slots = q.slots
      /\ r \in [free : Seq(S), filled : Seq(S), slots : [S -> E \cup {Nothing}]]
  BY <1>2 DEF Publish, QueueOK
<1>4. QueueOK(r, S, E, H \ {i})
  <2> HIDE DEF r
  <2>1. QED
    BY <1>1, <1>2, <1>3 DEF QueueOK
<1>5. Contents(r) = Append(Contents(q), q.slots[i])
  <2>1. /\ Contents(q) \in Seq(E) /\ Len(Contents(q)) = Len(q.filled)
        /\ \A k \in 1..Len(q.filled) : Contents(q)[k] = q.slots[q.filled[k]]
    BY ContentsSeq
  <2>2. /\ Contents(r) \in Seq(E) /\ Len(Contents(r)) = Len(r.filled)
        /\ \A k \in 1..Len(r.filled) : Contents(r)[k] = r.slots[r.filled[k]]
    <3> HIDE DEF r
    <3>1. QED
      BY <1>4, ContentsSeq
  <2>3. /\ Len(q.filled) \in Nat /\ Len(r.filled) = Len(q.filled) + 1
        /\ r.filled[Len(q.filled) + 1] = i
        /\ \A k \in 1..Len(q.filled) : r.filled[k] = q.filled[k]
    <3>1. q.filled \in Seq(S)
      BY QueueParts
    <3> HIDE DEF r
    <3>2. QED
      BY <1>1, <1>3, <3>1
  <2> HIDE DEF r
  <2> DEFINE c == Contents(q)
             d == Contents(r)
  <2>4. Len(d) = Len(c) + 1 /\ \A k \in 1..Len(c) : d[k] = c[k]
    BY <1>3, <2>1, <2>2, <2>3
  <2>5. d[Len(c) + 1] = q.slots[i]
    <3>1. Len(c) + 1 \in 1..Len(r.filled)
      BY <2>1, <2>3
    <3>2. QED
      BY <1>3, <2>1, <2>2, <2>3, <3>1
  <2> HIDE DEF c, d
  <2>6. QED
    <3>1. c \in Seq(E) /\ d \in Seq(E) /\ q.slots[i] \in E
      BY <1>1, <2>1, <2>2 DEF c, d
    <3>2. d = Append(c, q.slots[i])
      BY <2>4, <2>5, <3>1
    <3>3. QED
      BY <3>2 DEF c, d
<1>6. QED
  BY <1>1, <1>3, <1>4, <1>5

LEMMA TakeOK ==
  ASSUME NEW S, NEW E, NEW H, NEW q, QueueOK(q, S, E, H), CanTake(q)
  PROVE  /\ QueueOK(Take(q), S, E, H \cup {Taken(q)})
         /\ Taken(q) \in S \ H /\ q.slots[Taken(q)] = Head(Contents(q))
         /\ q.slots[Taken(q)] \in E
         /\ Take(q).slots = q.slots /\ Take(q).free = q.free
         /\ Contents(q) # <<>> /\ Contents(Take(q)) = Tail(Contents(q))
<1> DEFINE i == Head(q.filled)
           r == Take(q)
<1>1. /\ i \in Range(q.filled) /\ i \in S
      /\ Tail(q.filled) \in Seq(S) /\ IsInjective(Tail(q.filled))
      /\ Range(Tail(q.filled)) = Range(q.filled) \ {i}
  BY InjectiveTail, QueueParts DEF CanTake
<1>2. /\ r.filled = Tail(q.filled) /\ r.free = q.free /\ r.slots = q.slots
      /\ r \in [free : Seq(S), filled : Seq(S), slots : [S -> E \cup {Nothing}]]
  BY <1>1 DEF Take, QueueOK
<1>3. Taken(q) = i
  BY DEF Taken
<1>4. QueueOK(r, S, E, H \cup {i}) /\ i \in S \ H /\ q.slots[i] \in E
  <2> HIDE DEF i, r
  <2>1. QED
    BY <1>1, <1>2 DEF QueueOK
<1>5. Contents(q) # <<>> /\ Contents(r) = Tail(Contents(q)) /\ q.slots[i] = Head(Contents(q))
  <2>1. /\ Contents(q) \in Seq(E) /\ Len(Contents(q)) = Len(q.filled)
        /\ \A k \in 1..Len(q.filled) : Contents(q)[k] = q.slots[q.filled[k]]
    BY ContentsSeq
  <2>2. /\ Contents(r) \in Seq(E) /\ Len(Contents(r)) = Len(r.filled)
        /\ \A k \in 1..Len(r.filled) : Contents(r)[k] = r.slots[r.filled[k]]
    <3> HIDE DEF r
    <3>1. QED
      BY <1>4, ContentsSeq
  <2>3. /\ Len(q.filled) \in Nat \ {0} /\ Len(r.filled) = Len(q.filled) - 1
        /\ i = q.filled[1]
        /\ \A k \in 1..(Len(q.filled) - 1) : r.filled[k] = q.filled[k + 1]
    <3>1. q.filled \in Seq(S) /\ q.filled # <<>>
      BY QueueParts DEF CanTake
    <3> HIDE DEF r
    <3>2. QED
      BY <1>2, <3>1
  <2> HIDE DEF r, i
  <2> DEFINE c == Contents(q)
             d == Contents(r)
  <2>4. /\ Len(d) = Len(c) - 1 /\ Len(c) \in Nat \ {0}
        /\ \A k \in 1..Len(d) : d[k] = c[k + 1]
    <3>1. Len(d) = Len(c) - 1 /\ Len(c) \in Nat \ {0}
      BY <2>1, <2>2, <2>3
    <3>2. ASSUME NEW k \in 1..Len(d) PROVE d[k] = c[k + 1]
      <4>1. k \in 1..(Len(q.filled) - 1) /\ k + 1 \in 1..Len(q.filled)
        BY <2>1, <2>3, <3>1
      <4>2. d[k] = r.slots[r.filled[k]]
        BY <2>2
      <4>3. QED
        BY <1>2, <2>1, <2>3, <4>1, <4>2
    <3>3. QED
      BY <3>1, <3>2
  <2>5. c[1] = q.slots[i]
    BY <2>1, <2>3
  <2> HIDE DEF c, d
  <2>6. c \in Seq(E) /\ d \in Seq(E)
    BY <2>1, <2>2 DEF c, d
  <2>7. c # <<>> /\ d = Tail(c) /\ q.slots[i] = Head(c)
    BY <2>4, <2>5, <2>6
  <2>8. QED
    BY <2>7 DEF c, d
<1>6. QED
  BY <1>2, <1>3, <1>4, <1>5

(* What is filled fits, and while a task holds a slot one more does. *)
LEMMA FilledFits ==
  ASSUME NEW cap \in Nat, NEW E, NEW H, NEW q, QueueOK(q, 1..cap, E, H), H # {}
  PROVE  Len(Contents(q)) < cap
<1>1. PICK i \in H : i \in 1..cap /\ i \notin Range(q.filled)
  BY DEF QueueOK
<1> DEFINE f == Append(q.filled, i)
<1>2. f \in Seq(1..cap) /\ IsInjective(f)
  BY <1>1, QueueParts, InjectiveAppend
<1>3. Len(q.filled) \in Nat /\ DOMAIN f = 1..(Len(q.filled) + 1)
  BY QueueParts
<1> HIDE DEF f
<1>4. f \in Injection(1..(Len(q.filled) + 1), 1..cap)
  <2>1. f \in [1..(Len(q.filled) + 1) -> 1..cap]
    BY <1>2, <1>3
  <2>2. QED
    BY <1>2, <1>3, <2>1, Fun_IsInj DEF IsInjective
<1>5. Len(q.filled) + 1 <= cap
  BY <1>3, <1>4, Fun_NatInjLeq DEF ExistsInjection
<1>6. QED
  BY <1>3, <1>5, ContentsSeq

-----------------------------------------------------------------------------
(***************************************************************************)
(* QueueOK says what SlotsInOnePlace says.                                 *)
(***************************************************************************)
LEMMA InjectiveConcat ==
  ASSUME NEW S, NEW s \in Seq(S), NEW t \in Seq(S), IsInjective(s), IsInjective(t),
         Range(s) \cap Range(t) = {}
  PROVE  /\ s \o t \in Seq(S) /\ IsInjective(s \o t)
         /\ Range(s \o t) = Range(s) \cup Range(t)
<1> DEFINE m == Len(s)
           n == Len(t)
           c == s \o t
<1>1. /\ m \in Nat /\ n \in Nat /\ DOMAIN s = 1..m /\ DOMAIN t = 1..n
      /\ c \in Seq(S) /\ DOMAIN c = 1..(m + n)
      /\ \A i \in 1..(m + n) : c[i] = IF i <= m THEN s[i] ELSE t[i - m]
  OBVIOUS
<1> HIDE DEF m, n, c
<1>2. ASSUME NEW i \in 1..(m + n)
      PROVE  \/ i \in 1..m /\ c[i] = s[i] /\ c[i] \in Range(s)
             \/ i - m \in 1..n /\ c[i] = t[i - m] /\ c[i] \in Range(t)
  <2>1. CASE i <= m
    <3>1. i \in 1..m /\ c[i] = s[i]
      BY <1>1, <2>1
    <3>2. QED
      BY <1>1, <3>1 DEF Range
  <2>2. CASE i > m
    <3>1. i - m \in 1..n /\ c[i] = t[i - m]
      BY <1>1, <2>2
    <3>2. QED
      BY <1>1, <3>1 DEF Range
  <2>3. QED
    BY <1>1, <2>1, <2>2
<1>3. IsInjective(c)
  <2>1. SUFFICES ASSUME NEW i \in 1..(m + n), NEW j \in 1..(m + n), c[i] = c[j]
                 PROVE  i = j
    BY <1>1 DEF IsInjective
  <2>2. CASE i \in 1..m /\ c[i] = s[i] /\ c[i] \in Range(s)
    <3>1. j \in 1..m /\ c[j] = s[j]
      BY <1>2, <2>1, <2>2
    <3>2. QED
      BY <1>1, <2>1, <2>2, <3>1 DEF IsInjective
  <2>3. CASE i - m \in 1..n /\ c[i] = t[i - m] /\ c[i] \in Range(t)
    <3>1. j - m \in 1..n /\ c[j] = t[j - m]
      BY <1>2, <2>1, <2>3
    <3>2. i - m = j - m
      BY <1>1, <2>1, <2>3, <3>1 DEF IsInjective
    <3>3. QED
      BY <1>1, <3>2
  <2>4. QED
    BY <1>2, <2>2, <2>3
<1>4. Range(c) \subseteq Range(s) \cup Range(t)
  BY <1>1, <1>2 DEF Range
<1>5. ASSUME NEW x \in Range(s) PROVE x \in Range(c)
  <2>1. PICK i \in 1..m : x = s[i]
    BY <1>1 DEF Range
  <2>2. i \in 1..(m + n) /\ c[i] = x
    BY <1>1, <2>1
  <2>3. QED
    BY <1>1, <2>2 DEF Range
<1>6. ASSUME NEW x \in Range(t) PROVE x \in Range(c)
  <2>1. PICK i \in 1..n : x = t[i]
    BY <1>1 DEF Range
  <2>2. m + i \in 1..(m + n) /\ c[m + i] = x
    BY <1>1, <2>1
  <2>3. QED
    BY <1>1, <2>2 DEF Range
<1>7. QED
  BY <1>1, <1>3, <1>4, <1>5, <1>6 DEF c

LEMMA EachSlotInOnePlace ==
  ASSUME NEW S, NEW E, NEW q, NEW held \in Seq(S), IsInjective(held),
         QueueOK(q, S, E, Range(held))
  PROVE  SlotsInOnePlace(q, held)
<1>1. /\ q.free \in Seq(S) /\ q.filled \in Seq(S)
      /\ IsInjective(q.free) /\ IsInjective(q.filled) /\ DOMAIN q.slots = S
  BY QueueParts
<1> DEFINE two == q.free \o q.filled
<1>2. two \in Seq(S) /\ IsInjective(two) /\ Range(two) = Range(q.free) \cup Range(q.filled)
  <2>1. Range(q.free) \cap Range(q.filled) = {}
    BY DEF QueueOK
  <2>2. QED
    BY <1>1, <2>1, InjectiveConcat
<1> HIDE DEF two
<1>3. /\ IsInjective(two \o held)
      /\ Range(two \o held) = Range(two) \cup Range(held)
  <2>1. Range(two) \cap Range(held) = {}
    BY <1>2 DEF QueueOK
  <2>2. QED
    BY <1>2, <2>1, InjectiveConcat
<1>4. Range(two \o held) = DOMAIN q.slots
  BY <1>1, <1>2, <1>3 DEF QueueOK
<1>5. /\ \A i \in Range(q.free) : q.slots[i] = Nothing
      /\ \A i \in Range(q.filled) : q.slots[i] # Nothing
  BY DEF QueueOK
<1>6. QED
  BY <1>3, <1>4, <1>5 DEF SlotsInOnePlace, two

(* What the tasks hold, at most one slot each, 0 standing for none. *)
Held(i) == IF i # 0 THEN <<i>> ELSE <<>>

LEMMA HeldOne ==
  ASSUME NEW S, 0 \notin S, NEW i \in S \cup {0}
  PROVE  /\ Held(i) \in Seq(S) /\ IsInjective(Held(i))
         /\ Range(Held(i)) = {i} \ {0}
<1>1. CASE i = 0
  <2>1. Held(i) = <<>>
    BY <1>1 DEF Held
  <2>2. <<>> \in Seq(S) /\ IsInjective(<<>>) /\ Range(<<>>) = {}
    BY DEF IsInjective, Range
  <2>3. QED
    BY <1>1, <2>1, <2>2
<1>2. CASE i # 0
  <2>1. Held(i) = <<i>> /\ i \in S
    BY <1>2 DEF Held
  <2>2. <<i>> \in Seq(S) /\ DOMAIN <<i>> = {1} /\ <<i>>[1] = i
    BY <2>1
  <2>3. QED
    BY <1>2, <2>1, <2>2 DEF IsInjective, Range
<1>3. QED
  BY <1>1, <1>2

LEMMA NewPoolOK ==
  ASSUME NEW B, IsFiniteSet(B)
  PROVE  /\ NewPool(B) \in Seq(B) /\ IsInjective(NewPool(B))
         /\ Range(NewPool(B)) = B
<1> DEFINE n == Cardinality(B)
           f == NewPool(B)
<1>1. n \in Nat
  BY FS_CardinalityType
<1>2. PICK g \in Bijection(1..n, B) : TRUE
  BY FS_CardinalityType DEF ExistsBijection
<1>3. g \in [1..n -> B] /\ IsInjective(g)
  BY <1>2 DEF Bijection, Injection, IsInjective
<1>4. f \in [1..n -> B] /\ IsInjective(f)
  BY <1>3 DEF NewPool, SetToSeq
<1> HIDE DEF n, f
<1>5. f \in Injection(1..n, B)
  BY <1>4, Fun_IsInj DEF IsInjective
<1>6. f \in Surjection(1..n, B)
  <2>1. Cardinality(1..n) = n
    BY <1>1, FS_Interval
  <2>2. QED
    BY <1>5, <2>1, FS_Injection DEF n
<1>7. f \in Seq(B) /\ DOMAIN f = 1..n
  BY <1>1, <1>4
<1>8. Range(f) = B
  <2>1. \A b \in B : \E i \in 1..n : f[i] = b
    BY <1>6 DEF Surjection
  <2>2. QED
    BY <1>4, <1>7, <2>1 DEF Range
<1>9. QED
  BY <1>4, <1>7, <1>8 DEF f

-----------------------------------------------------------------------------
(***************************************************************************)
(* The steps of a queue are those of a bounded first-in-first-out queue.   *)
(***************************************************************************)
QueueStep(q, r, E, H) ==
    \/ r = q
    \/ CanClaim(q) /\ r = Claim(q)
    \/ \E i \in H : \E x \in E : r = Store(q, i, x)
    \/ \E i \in H : q.slots[i] # Nothing /\ r = Publish(q, i)
    \/ CanTake(q) /\ r = Take(q)
    \/ \E i \in H : r = MoveOut(q, i)
    \/ \E i \in H : q.slots[i] = Nothing /\ r = GiveBack(q, i)

LEMMA FifoStep ==
  ASSUME NEW cap \in Nat, NEW E, NEW H, NEW q, NEW r,
         QueueOK(q, 1..cap, E, H), QueueStep(q, r, E, H)
  PROVE  \/ Contents(r) = Contents(q)
         \/ Contents(q) # <<>> /\ Contents(r) = Tail(Contents(q))
         \/ \E e \in E : Len(Contents(q)) < cap /\ Contents(r) = Append(Contents(q), e)
<1>1. CASE r = q
  BY <1>1
<1>2. CASE CanClaim(q) /\ r = Claim(q)
  <2>1. QueueOK(r, 1..cap, E, H \cup {Claimed(q)}) /\ Contents(r) = Contents(q)
    BY <1>2, ClaimOK
  <2>2. QED
    BY <2>1
<1>3. CASE \E i \in H : \E x \in E : r = Store(q, i, x)
  <2>1. PICK i \in H, x \in E : r = Store(q, i, x)
    BY <1>3
  <2>2. /\ r.filled = q.filled /\ i \notin Range(q.filled) /\ Range(q.filled) \subseteq 1..cap
        /\ \A j \in 1..cap : j # i => r.slots[j] = q.slots[j]
    BY <2>1 DEF Store, QueueOK
  <2>3. QED
    BY <2>2, SameContents
<1>4. CASE \E i \in H : q.slots[i] # Nothing /\ r = Publish(q, i)
  <2>1. PICK i \in H : q.slots[i] # Nothing /\ r = Publish(q, i)
    BY <1>4
  <2>2. QueueOK(Publish(q, i), 1..cap, E, H \ {i})
    BY <2>1, PublishOK
  <2>3. Contents(Publish(q, i)) = Append(Contents(q), q.slots[i])
    BY <2>1, <2>2, PublishOK
  <2>4. q.slots[i] \in E
    BY <2>1, <2>2, PublishOK
  <2>5. Len(Contents(q)) < cap
    BY FilledFits
  <2>6. QED
    BY <2>1, <2>3, <2>4, <2>5
<1>5. CASE CanTake(q) /\ r = Take(q)
  <2>1. QueueOK(Take(q), 1..cap, E, H \cup {Taken(q)})
    BY <1>5, TakeOK
  <2>2. Contents(q) # <<>> /\ Contents(Take(q)) = Tail(Contents(q))
    BY <1>5, <2>1, TakeOK
  <2>3. QED
    BY <1>5, <2>2
<1>6. CASE \E i \in H : r = MoveOut(q, i)
  <2>1. PICK i \in H : r = MoveOut(q, i)
    BY <1>6
  <2>2. /\ r.filled = q.filled /\ i \notin Range(q.filled) /\ Range(q.filled) \subseteq 1..cap
        /\ \A j \in 1..cap : j # i => r.slots[j] = q.slots[j]
    BY <2>1 DEF MoveOut, QueueOK
  <2>3. QED
    BY <2>2, SameContents
<1>7. CASE \E i \in H : q.slots[i] = Nothing /\ r = GiveBack(q, i)
  <2>1. PICK i \in H : q.slots[i] = Nothing /\ r = GiveBack(q, i)
    BY <1>7
  <2>2. QueueOK(GiveBack(q, i), 1..cap, E, H \ {i}) /\ Contents(GiveBack(q, i)) = Contents(q)
    BY <2>1, GiveBackOK
  <2>3. QED
    BY <2>1, <2>2
<1>8. QED
  BY <1>1, <1>2, <1>3, <1>4, <1>5, <1>6, <1>7 DEF QueueStep

-----------------------------------------------------------------------------
(***************************************************************************)
(* The seqlock of the bus rules.                                           *)
(***************************************************************************)
Reading == {"seq", "half1", "half2", "recheck", "last1", "last2"}
Halves  == [1..2 -> LiveModes]
Readers == [at : Reading \cup {"none", "sure", "unsure"}, tries : Nat, seq : Nat,
            half : Halves]

WifiFields == {"at", "frame", "mode", "round", "read", "buf", "slot"}

SeqlockTypeOK ==
    /\ rules \in [seq : Nat, half : Halves]
    /\ DOMAIN wifi = WifiFields
    /\ wifi.read \in Readers
    /\ WifiAt("rules") => wifi.read.at # "none"

Whole == rules.seq % 2 = 0 /\ rules.half[1] = rules.half[2]

(* What the console has still to write, and what the rules are meanwhile: *)
(* the number is odd from the first write of a change to its last one.    *)
DestWrite == [what : {"host", "port", "active"}, value : Nat \cup BOOLEAN]

OpenWrite       == [what |-> "open"]
HalfWrite(i, mode) == [what |-> "half", i |-> i, mode |-> mode]
CloseWrite      == [what |-> "close"]

UnderWay(mode) ==
    \/ /\ console = <<OpenWrite, HalfWrite(1, mode), HalfWrite(2, mode), CloseWrite>>
       /\ Whole
    \/ /\ console = <<HalfWrite(1, mode), HalfWrite(2, mode), CloseWrite>>
       /\ rules.seq % 2 = 1
    \/ /\ console = <<HalfWrite(2, mode), CloseWrite>>
       /\ rules.seq % 2 = 1 /\ rules.half[1] = mode
    \/ /\ console = <<CloseWrite>>
       /\ rules.seq % 2 = 1 /\ rules.half[1] = mode /\ rules.half[2] = mode

WriterOK ==
    \/ console \in Seq(DestWrite) /\ Whole
    \/ \E mode \in LiveModes : UnderWay(mode)

(* What a reader has copied is what the rules hold, as long as their number *)
(* is the one it has loaded.                                                *)
ReaderOK ==
    LET r == wifi.read
    IN  /\ r.at \in {"half1", "half2", "recheck"} => r.seq % 2 = 0 /\ r.seq <= rules.seq
        /\ r.at = "half2" /\ r.seq = rules.seq => r.half[1] = rules.half[1]
        /\ r.at = "recheck" /\ r.seq = rules.seq
              => r.half[1] = rules.half[1] /\ r.half[2] = rules.half[2]
        /\ r.at = "sure" => r.half[1] = r.half[2]

SeqlockInv == SeqlockTypeOK /\ WriterOK /\ ReaderOK

-----------------------------------------------------------------------------
LEMMA HeadTail4 ==
  ASSUME NEW a, NEW b, NEW c, NEW d
  PROVE  Head(<<a, b, c, d>>) = a /\ Tail(<<a, b, c, d>>) = <<b, c, d>>
OBVIOUS

LEMMA HeadTail3 ==
  ASSUME NEW a, NEW b, NEW c
  PROVE  Head(<<a, b, c>>) = a /\ Tail(<<a, b, c>>) = <<b, c>>
OBVIOUS

LEMMA HeadTail2 ==
  ASSUME NEW a, NEW b
  PROVE  Head(<<a, b>>) = a /\ Tail(<<a, b>>) = <<b>>
OBVIOUS

LEMMA HeadTail1 == ASSUME NEW a PROVE Head(<<a>>) = a /\ Tail(<<a>>) = <<>>
OBVIOUS

LEMMA FirstHalves == \A mode \in LiveModes : <<mode, mode>> \in Halves
BY DEF Halves, LiveModes

LEMMA NewReaders ==
  /\ NotReading \in Readers /\ NotReading.at = "none"
  /\ StartRead \in Readers /\ StartRead.at = "seq"
<1>1. <<"TUNNEL", "TUNNEL">> \in Halves
  BY FirstHalves DEF LiveModes
<1>2. NotReading \in Readers /\ NotReading.at = "none"
  BY <1>1 DEF NotReading, Readers
<1>3. StartRead \in Readers /\ StartRead.at = "seq"
  BY <1>2 DEF StartRead, Readers, Reading
<1>4. QED
  BY <1>2, <1>3

LEMMA NewReadersOK ==
  ASSUME wifi'.read \in {NotReading, StartRead} PROVE ReaderOK'
BY NewReaders DEF ReaderOK

(* Where neither the rules nor the read changes, nothing else matters. *)
LEMMA Untouched ==
  ASSUME SeqlockInv, UNCHANGED <<rules, console>>,
         DOMAIN wifi' = DOMAIN wifi, wifi'.read = wifi.read,
         wifi'.at = "rules" => wifi.at = "rules"
  PROVE  SeqlockInv'
BY DEF SeqlockInv, SeqlockTypeOK, WriterOK, UnderWay, Whole, ReaderOK, WifiAt

LEMMA Restarted ==
  ASSUME SeqlockInv, UNCHANGED <<rules, console>>, DOMAIN wifi' = WifiFields,
         \/ wifi'.read = NotReading /\ wifi'.at # "rules"
         \/ wifi'.read = StartRead
  PROVE  SeqlockInv'
<1>1. SeqlockTypeOK'
  BY NewReaders DEF SeqlockInv, SeqlockTypeOK, WifiAt
<1>2. ReaderOK'
  BY NewReadersOK
<1>3. WriterOK'
  BY DEF SeqlockInv, WriterOK, UnderWay, Whole
<1>4. QED
  BY <1>1, <1>2, <1>3 DEF SeqlockInv

LEMMA Idle == DOMAIN RxIdle = WifiFields /\ RxIdle.read = NotReading /\ RxIdle.at = "idle"
BY DEF RxIdle, WifiFields

-----------------------------------------------------------------------------
(***************************************************************************)
(* The steps of a reader.                                                  *)
(***************************************************************************)
LEMMA AgainRead ==
  ASSUME NEW r \in Readers
  PROVE  /\ Again(r) \in Readers
         /\ Again(r).at \in {"seq", "last1"}
<1>1. PICK at \in {"seq", "last1"} : Again(r) = [r EXCEPT !.tries = @ + 1, !.at = at]
  BY DEF Again
<1>2. r.tries + 1 \in Nat /\ at \in Reading
  BY DEF Readers, Reading
<1>3. QED
  BY <1>1, <1>2 DEF Readers

LEMMA ReaderSteps ==
  ASSUME SeqlockInv, ReadRules PROVE SeqlockInv'
<1> DEFINE r == wifi.read
           n == ReadStep(r, rules)
<1>1. /\ r \in Readers /\ r.at \in Reading
      /\ rules.seq \in Nat /\ rules.half \in [1..2 -> LiveModes]
      /\ r.half \in [1..2 -> LiveModes] /\ r.seq \in Nat
  BY DEF SeqlockInv, SeqlockTypeOK, ReadRules, HasRead, Readers, Halves
<1>2. /\ DOMAIN wifi' = WifiFields /\ wifi'.read = n /\ wifi'.at = "rules"
      /\ rules' = rules /\ console' = console
  BY DEF SeqlockInv, SeqlockTypeOK, WifiFields, ReadRules, WifiStep, WifiAt
<1>3. SUFFICES n \in Readers /\ n.at # "none" /\ ReaderOK'
  BY <1>2 DEF SeqlockInv, SeqlockTypeOK, WriterOK, UnderWay, Whole
<1>4. rules.seq % 2 = 0 => rules.half[1] = rules.half[2]
  BY <1>1 DEF SeqlockInv, WriterOK, UnderWay, Whole
<1>5. CASE \/ r.at = "seq" /\ rules.seq % 2 = 1
           \/ r.at = "recheck" /\ rules.seq # r.seq
  <2>1. n = Again(r)
    BY <1>1, <1>5 DEF ReadStep
  <2>2. QED
    BY <1>1, <1>2, <2>1, AgainRead DEF ReaderOK
<1>6. CASE r.at = "seq" /\ rules.seq % 2 # 1
  <2>1. n = [r EXCEPT !.seq = rules.seq, !.at = "half1"]
    BY <1>6 DEF ReadStep
  <2>2. n \in Readers /\ n.at = "half1" /\ n.seq = rules.seq
    BY <1>1, <2>1 DEF Readers, Reading
  <2>3. QED
    BY <1>1, <1>2, <1>6, <2>2 DEF ReaderOK
<1>7. CASE r.at = "half1"
  <2> DEFINE half == [r.half EXCEPT ![1] = rules.half[1]]
             new  == [r EXCEPT !.half = half, !.at = "half2"]
  <2>1. n = new
    BY <1>1, <1>7 DEF ReadStep, Readers
  <2>2. half \in Halves /\ half[1] = rules.half[1]
    BY <1>1 DEF Halves
  <2>3. new \in Readers /\ new.at = "half2" /\ new.seq = r.seq /\ new.half = half
    <3> HIDE DEF half
    <3>1. QED
      BY <1>1, <2>2 DEF Readers, Reading
  <2>4. r.seq % 2 = 0 /\ r.seq <= rules.seq
    BY <1>7 DEF SeqlockInv, ReaderOK
  <2>5. QED
    <3> HIDE DEF half, new
    <3>1. QED
      BY <1>2, <2>1, <2>2, <2>3, <2>4 DEF ReaderOK
<1>8. CASE r.at = "half2"
  <2> DEFINE half == [r.half EXCEPT ![2] = rules.half[2]]
             new  == [r EXCEPT !.half = half, !.at = "recheck"]
  <2>1. n = new
    BY <1>1, <1>8 DEF ReadStep, Readers
  <2>2. half \in Halves /\ half[2] = rules.half[2] /\ half[1] = r.half[1]
    BY <1>1 DEF Halves
  <2>3. new \in Readers /\ new.at = "recheck" /\ new.seq = r.seq /\ new.half = half
    <3> HIDE DEF half
    <3>1. QED
      BY <1>1, <2>2 DEF Readers, Reading
  <2>4. /\ r.seq % 2 = 0 /\ r.seq <= rules.seq
        /\ r.seq = rules.seq => r.half[1] = rules.half[1]
    BY <1>8 DEF SeqlockInv, ReaderOK
  <2>5. QED
    <3> HIDE DEF half, new
    <3>1. QED
      BY <1>2, <2>1, <2>2, <2>3, <2>4 DEF ReaderOK
<1>9. CASE r.at = "recheck" /\ rules.seq = r.seq
  <2>1. n = [r EXCEPT !.at = "sure"]
    BY <1>9 DEF ReadStep
  <2>2. n \in Readers /\ n.at = "sure" /\ n.half = r.half
    BY <1>1, <2>1 DEF Readers
  <2>3. /\ r.seq % 2 = 0
        /\ r.half[1] = rules.half[1] /\ r.half[2] = rules.half[2]
    BY <1>9 DEF SeqlockInv, ReaderOK
  <2>4. r.half[1] = r.half[2]
    BY <1>4, <1>9, <2>3
  <2>5. QED
    BY <1>2, <2>2, <2>4 DEF ReaderOK
<1>10. CASE r.at \in {"last1", "last2"}
  <2>1. PICK i \in 1..2, at \in {"last2", "unsure"} :
           n = [r EXCEPT !.half[i] = rules.half[i], !.at = at]
    BY <1>10 DEF ReadStep
  <2> DEFINE half == [r.half EXCEPT ![i] = rules.half[i]]
             new  == [r EXCEPT !.half = half, !.at = at]
  <2>2. n = new
    BY <1>1, <2>1 DEF Readers
  <2>3. half \in Halves
    BY <1>1 DEF Halves
  <2>4. new \in Readers /\ new.at = at
    <3> HIDE DEF half
    <3>1. QED
      BY <1>1, <2>3 DEF Readers, Reading
  <2>5. QED
    <3> HIDE DEF half, new
    <3>1. QED
      BY <1>2, <2>2, <2>4 DEF ReaderOK
<1>11. QED
  BY <1>1, <1>5, <1>6, <1>7, <1>8, <1>9, <1>10 DEF Reading

-----------------------------------------------------------------------------
(***************************************************************************)
(* The steps of the writer.                                                *)
(***************************************************************************)

(* A command starts when nothing is left to write. *)
LEMMA Commands ==
  ASSUME SeqlockInv, NEW kind, RxCommand(kind),
         \/ console' \in Seq(DestWrite)
         \/ \E mode \in LiveModes : console' = ModeWrites(mode)
  PROVE  SeqlockInv'
<1>1. UNCHANGED <<rules, wifi>> /\ console = <<>>
  BY DEF RxCommand
<1>2. Whole
  <2>1. ASSUME NEW mode \in LiveModes, UnderWay(mode) PROVE FALSE
    BY <1>1, <2>1 DEF UnderWay
  <2>2. QED
    BY <2>1 DEF SeqlockInv, WriterOK
<1>3. WriterOK'
  <2>1. Whole'
    BY <1>1, <1>2 DEF Whole
  <2>2. CASE console' \in Seq(DestWrite)
    BY <2>1, <2>2 DEF WriterOK
  <2>3. ASSUME NEW mode \in LiveModes, console' = ModeWrites(mode) PROVE UnderWay(mode)'
    BY <2>1, <2>3 DEF UnderWay, ModeWrites, OpenWrite, HalfWrite, CloseWrite
  <2>4. QED
    BY <2>2, <2>3 DEF WriterOK
<1>4. QED
  BY <1>1, <1>3 DEF SeqlockInv, SeqlockTypeOK, ReaderOK, WifiAt

LEMMA DestWrites ==
  ASSUME NEW what \in {"host", "port", "active"}, NEW value \in Nat \cup BOOLEAN
  PROVE  Dest(what, value) \in DestWrite
BY DEF Dest, DestWrite

LEMMA Triple ==
  ASSUME NEW S, NEW a \in S, NEW b \in S, NEW c \in S
  PROVE  <<a, b, c>> \in Seq(S)
OBVIOUS

LEMMA SetWritesDest == \A d \in DESTINATIONS : SetWrites(d) \in Seq(DestWrite)
<1> TAKE d \in DESTINATIONS
<1>1. d[1] \in Nat /\ d[2] \in Nat
  BY RadioReceiveAssumption
<1>2. /\ Dest("host", d[1]) \in DestWrite /\ Dest("port", d[2]) \in DestWrite
      /\ Dest("active", TRUE) \in DestWrite
  BY <1>1, DestWrites
<1>3. QED
  BY <1>2, Triple DEF SetWrites

LEMMA ClearWritesDest == ClearWrites \in Seq(DestWrite)
<1>1. /\ Dest("host", 0) \in DestWrite /\ Dest("port", 0) \in DestWrite
      /\ Dest("active", FALSE) \in DestWrite
  BY DestWrites
<1>2. QED
  BY <1>1, Triple DEF ClearWrites

(* A write to the destination. *)
LEMMA DestStep ==
  ASSUME SeqlockInv, ConsoleWrite, console \in Seq(DestWrite), Whole
  PROVE  SeqlockInv'
<1>1. Head(console) \in DestWrite /\ Tail(console) \in Seq(DestWrite)
  BY DEF ConsoleWrite
<1>2. UNCHANGED <<rules, wifi>> /\ console' \in Seq(DestWrite)
  BY <1>1 DEF ConsoleWrite, DestWrite
<1>3. QED
  BY <1>2 DEF SeqlockInv, SeqlockTypeOK, WriterOK, Whole, ReaderOK, WifiAt

(* A write to the rules: the number goes up, or it is odd and a half of the *)
(* prefix changes.                                                          *)
LEMMA RuleWrite ==
  ASSUME SeqlockInv, ConsoleWrite, NEW w, w = Head(console)
  PROVE  /\ w \in {OpenWrite, CloseWrite} =>
              /\ rules'.seq = rules.seq + 1 /\ rules'.half = rules.half
              /\ rules' \in [seq : Nat, half : Halves]
         /\ \A i \in 1..2, mode \in LiveModes : w = HalfWrite(i, mode) =>
              /\ rules'.seq = rules.seq /\ rules'.half[i] = mode
              /\ \A j \in 1..2 : j # i => rules'.half[j] = rules.half[j]
              /\ rules' \in [seq : Nat, half : Halves]
         /\ wifi' = wifi /\ console' = Tail(console)
<1>1. rules \in [seq : Nat, half : [1..2 -> LiveModes]]
  BY DEF SeqlockInv, SeqlockTypeOK, Halves
<1>2. ASSUME w \in {OpenWrite, CloseWrite}
      PROVE  rules' = [rules EXCEPT !.seq = @ + 1]
  BY <1>2 DEF OpenWrite, CloseWrite, ConsoleWrite, Written
<1>3. ASSUME NEW i \in 1..2, NEW mode \in LiveModes, w = HalfWrite(i, mode)
      PROVE  rules' = [rules EXCEPT !.half[i] = mode]
  BY <1>3 DEF HalfWrite, ConsoleWrite, Written
<1>4. wifi' = wifi /\ console' = Tail(console)
  BY DEF ConsoleWrite
<1>5. QED
  BY <1>1, <1>2, <1>3, <1>4 DEF Halves

LEMMA ModeStep ==
  ASSUME SeqlockInv, ConsoleWrite, NEW mode \in LiveModes, UnderWay(mode)
  PROVE  SeqlockInv'
<1> DEFINE w == Head(console)
           r == wifi.read
<1>1. /\ rules.seq \in Nat /\ r.seq \in Nat
      /\ r.at \in {"half1", "half2", "recheck"} => r.seq % 2 = 0 /\ r.seq <= rules.seq
      /\ r.at = "sure" => r.half[1] = r.half[2]
  BY DEF SeqlockInv, SeqlockTypeOK, Readers, ReaderOK
<1>2. ASSUME rules' \in [seq : Nat, half : Halves],
             UnderWay(mode)' \/ (console' = <<>> /\ Whole'),
             \/ rules'.seq = rules.seq + 1
             \/ rules'.seq = rules.seq /\ rules.seq % 2 = 1
      PROVE  SeqlockInv'
  <2>1. wifi' = wifi
    BY DEF ConsoleWrite
  <2>2. ReaderOK'
    BY <1>1, <1>2, <2>1 DEF ReaderOK
  <2>3. WriterOK'
    <3>1. <<>> \in Seq(DestWrite)
      OBVIOUS
    <3>2. CASE UnderWay(mode)'
      BY <3>2 DEF WriterOK
    <3>3. CASE console' = <<>> /\ Whole'
      BY <3>1, <3>3 DEF WriterOK
    <3>4. QED
      BY <1>2, <3>2, <3>3
  <2>4. QED
    BY <1>2, <2>1, <2>2, <2>3 DEF SeqlockInv, SeqlockTypeOK, WifiAt
<1>3. CASE console = <<OpenWrite, HalfWrite(1, mode), HalfWrite(2, mode), CloseWrite>> /\ Whole
  <2>1. w = OpenWrite /\ console' = <<HalfWrite(1, mode), HalfWrite(2, mode), CloseWrite>>
    BY <1>3, HeadTail4 DEF ConsoleWrite
  <2>2. rules'.seq = rules.seq + 1 /\ rules' \in [seq : Nat, half : Halves]
    BY <2>1, RuleWrite
  <2>3. rules'.seq % 2 = 1
    BY <1>1, <1>3, <2>2 DEF Whole
  <2>4. UnderWay(mode)'
    BY <2>1, <2>3 DEF UnderWay, OpenWrite, HalfWrite, CloseWrite
  <2>5. QED
    BY <1>2, <2>2, <2>4
<1>4. CASE console = <<HalfWrite(1, mode), HalfWrite(2, mode), CloseWrite>> /\ rules.seq % 2 = 1
  <2>1. w = HalfWrite(1, mode) /\ console' = <<HalfWrite(2, mode), CloseWrite>>
    BY <1>4, HeadTail3 DEF ConsoleWrite
  <2>2. rules'.seq = rules.seq /\ rules'.half[1] = mode /\ rules' \in [seq : Nat, half : Halves]
    BY <2>1, RuleWrite
  <2>3. UnderWay(mode)'
    BY <1>4, <2>1, <2>2 DEF UnderWay, OpenWrite, HalfWrite, CloseWrite
  <2>4. QED
    BY <1>2, <1>4, <2>2, <2>3
<1>5. CASE /\ console = <<HalfWrite(2, mode), CloseWrite>>
           /\ rules.seq % 2 = 1 /\ rules.half[1] = mode
  <2>1. w = HalfWrite(2, mode) /\ console' = <<CloseWrite>>
    BY <1>5, HeadTail2 DEF ConsoleWrite
  <2>2. /\ rules'.seq = rules.seq /\ rules'.half[2] = mode /\ rules'.half[1] = mode
        /\ rules' \in [seq : Nat, half : Halves]
    BY <1>5, <2>1, RuleWrite
  <2>3. UnderWay(mode)'
    BY <1>5, <2>1, <2>2 DEF UnderWay, OpenWrite, HalfWrite, CloseWrite
  <2>4. QED
    BY <1>2, <1>5, <2>2, <2>3
<1>6. CASE /\ console = <<CloseWrite>>
           /\ rules.seq % 2 = 1 /\ rules.half[1] = mode /\ rules.half[2] = mode
  <2>1. w = CloseWrite /\ console' = <<>>
    BY <1>6, HeadTail1 DEF ConsoleWrite
  <2>2. /\ rules'.seq = rules.seq + 1 /\ rules'.half = rules.half
        /\ rules' \in [seq : Nat, half : Halves]
    BY <2>1, RuleWrite
  <2>3. Whole'
    BY <1>1, <1>6, <2>2 DEF Whole
  <2>4. QED
    BY <1>2, <2>1, <2>2, <2>3
<1>7. QED
  BY <1>3, <1>4, <1>5, <1>6 DEF UnderWay

-----------------------------------------------------------------------------
(***************************************************************************)
(* All steps.                                                              *)
(***************************************************************************)
LEMMA SeqlockInit == Init => SeqlockInv
<1> SUFFICES ASSUME Init PROVE SeqlockInv
  OBVIOUS
<1>1. rules = FirstRules /\ wifi = RxIdle /\ console = <<>>
  BY DEF Init, RxInit
<1>2. <<"TUNNEL", "TUNNEL">> \in Halves
  BY FirstHalves DEF LiveModes
<1>3. rules \in [seq : Nat, half : Halves] /\ Whole
  BY <1>1, <1>2 DEF FirstRules, Whole
<1>4. SeqlockTypeOK
  BY <1>1, <1>3, Idle, NewReaders DEF SeqlockTypeOK, WifiAt
<1>5. WriterOK
  BY <1>1, <1>3 DEF WriterOK
<1>6. ReaderOK
  BY <1>1, Idle, NewReaders DEF ReaderOK
<1>7. QED
  BY <1>4, <1>5, <1>6 DEF SeqlockInv

LEMMA WifiSteps ==
  ASSUME SeqlockInv,
         \/ \E n \in 1..FRAMES, mode \in LiveModes : Hear(n, mode)
         \/ Filter \/ DropRepeat \/ DropNoBuffer \/ Allocate
         \/ RxClaim \/ RxStore \/ RxPublish
  PROVE  SeqlockInv'
<1>1. DOMAIN wifi = WifiFields
  BY DEF SeqlockInv, SeqlockTypeOK
<1>2. ASSUME NEW n \in 1..FRAMES, NEW mode \in LiveModes, Hear(n, mode)
      PROVE  SeqlockInv'
  <2>1. DOMAIN wifi' = WifiFields /\ wifi'.read = StartRead
    BY <1>2 DEF Hear, RxIdle, WifiFields
  <2>2. QED
    BY <1>2, <2>1, Restarted DEF Hear, WifiStep
<1>3. CASE Filter
  <2>1. UNCHANGED <<rules, console>>
    BY <1>3 DEF Filter, WifiStep
  <2>2. CASE wifi' = RxIdle
    BY <2>1, <2>2, Idle, Restarted
  <2>3. CASE wifi' = [wifi EXCEPT !.round = 2, !.read = StartRead]
    <3>1. DOMAIN wifi' = WifiFields /\ wifi'.read = StartRead
      BY <1>1, <2>3 DEF WifiFields
    <3>2. QED
      BY <2>1, <3>1, Restarted
  <2>4. CASE wifi' = [wifi EXCEPT !.at = "accepted", !.read = NotReading]
    <3>1. DOMAIN wifi' = WifiFields /\ wifi'.read = NotReading /\ wifi'.at # "rules"
      BY <1>1, <2>4 DEF WifiFields
    <3>2. QED
      BY <2>1, <3>1, Restarted
  <2>5. QED
    BY <1>3, <2>2, <2>3, <2>4 DEF Filter
<1>4. CASE DropRepeat \/ DropNoBuffer \/ RxPublish
  <2>1. UNCHANGED <<rules, console>> /\ wifi' = RxIdle
    BY <1>4 DEF DropRepeat, DropNoBuffer, RxPublish, WifiStep
  <2>2. QED
    BY <2>1, Idle, Restarted
<1>5. CASE Allocate \/ RxClaim \/ RxStore
  <2>1. UNCHANGED <<rules, console>>
    BY <1>5 DEF Allocate, RxClaim, RxStore, WifiStep
  <2>2. \/ \E b : wifi' = [wifi EXCEPT !.at = "claim", !.buf = b]
        \/ \E i : wifi' = [wifi EXCEPT !.at = "store", !.slot = i]
        \/ wifi' = [wifi EXCEPT !.at = "publish", !.buf = Nothing]
    BY <1>5 DEF Allocate, RxClaim, RxStore
  <2>3. DOMAIN wifi' = DOMAIN wifi /\ wifi'.read = wifi.read /\ wifi'.at # "rules"
    BY <1>1, <2>2 DEF WifiFields
  <2>4. QED
    BY <2>1, <2>3, Untouched
<1>6. QED
  BY <1>2, <1>3, <1>4, <1>5

LEMMA DrainSteps ==
  ASSUME SeqlockInv,
         \/ DrainTake \/ DrainMove \/ DrainGive \/ DrainUnset
         \/ DrainActive \/ DrainHost \/ DrainSend \/ DrainFail
  PROVE  SeqlockInv'
<1>1. UNCHANGED <<rules, console, wifi>>
  BY DEF DrainTake, DrainMove, DrainGive, DrainUnset, DrainActive, DrainHost,
         DrainSend, DrainFail, DrainStep
<1>2. QED
  BY <1>1, Untouched

LEMMA ConsoleSteps ==
  ASSUME SeqlockInv,
         \/ \E d \in DESTINATIONS : SetUpstreamRx(d)
         \/ ClearUpstreamRx \/ ResetPromiscStats \/ ConsoleWrite
         \/ \E mode \in LiveModes : SetMode(mode)
  PROVE  SeqlockInv'
<1>1. CASE \E d \in DESTINATIONS : SetUpstreamRx(d)
  BY <1>1, SetWritesDest, Commands DEF SetUpstreamRx
<1>2. CASE ClearUpstreamRx
  BY <1>2, ClearWritesDest, Commands DEF ClearUpstreamRx
<1>3. CASE ResetPromiscStats
  <2>1. UNCHANGED <<rules, console, wifi>>
    BY <1>3 DEF ResetPromiscStats, RxCommand
  <2>2. QED
    BY <2>1, Untouched
<1>4. CASE ConsoleWrite
  BY <1>4, DestStep, ModeStep DEF SeqlockInv, WriterOK
<1>5. CASE \E mode \in LiveModes : SetMode(mode)
  BY <1>5, Commands DEF SetMode
<1>6. QED
  BY <1>1, <1>2, <1>3, <1>4, <1>5

LEMMA SeqlockNext == SeqlockInv /\ [Next]_vars => SeqlockInv'
<1> SUFFICES ASSUME SeqlockInv, [Next]_vars PROVE SeqlockInv'
  OBVIOUS
<1>1. CASE Receive
  BY <1>1, WifiSteps, ReaderSteps, DrainSteps, ConsoleSteps DEF Receive, RxNext
<1>2. CASE Inject \/ UNCHANGED vars
  <2>1. UNCHANGED <<rules, console, wifi>>
    BY <1>2 DEF Inject, vars, rxVars
  <2>2. QED
    BY <2>1, Untouched
<1>3. QED
  BY <1>1, <1>2 DEF Next

(* A reader of the bus rules that is sure of what it read has read one   *)
(* mode's prefix, however often the mode is changed meanwhile.           *)
THEOREM RulesWhole == Spec => []RulesReadWhole
<1>1. SeqlockInv => RulesReadWhole
  BY DEF SeqlockInv, ReaderOK, RulesReadWhole, ReadsWhole
<1>2. QED
  BY <1>1, SeqlockInit, SeqlockNext, PTL DEF Spec

-----------------------------------------------------------------------------
(***************************************************************************)
(* Receiving: where the slots and the buffers are.                         *)
(***************************************************************************)
RxSlots == 1..CAP
RxHeld  == {wifi.slot, drain.slot} \ {0}

RxTypeOK ==
    /\ heard \in Nat /\ sent \in Nat
    /\ DOMAIN wifi = WifiFields
    /\ wifi.at \in {"idle", "rules", "accepted", "claim", "store", "publish"}
    /\ wifi.frame \in Nat
    /\ wifi.buf \in BUFFERS \cup {Nothing} /\ wifi.slot \in RxSlots \cup {0}
    /\ drain \in [at : {"pop", "move", "give", "active", "host", "port"},
                  slot : RxSlots \cup {0}, buf : BUFFERS \cup {Nothing},
                  host : Nat, clean : BOOLEAN]
    /\ pool \in [free : Seq(BUFFERS), data : [BUFFERS -> Nat]]

(* What a task has in hand follows from the step it is at. *)
RxHands ==
    /\ wifi.slot # 0 <=> wifi.at \in {"store", "publish"}
    /\ wifi.buf # Nothing <=> wifi.at \in {"claim", "store"}
    /\ drain.slot # 0 <=> drain.at \in {"move", "give"}
    /\ drain.buf # Nothing <=> drain.at \in {"give", "active", "host", "port"}
    /\ wifi.slot = drain.slot => wifi.slot = 0
    /\ wifi.at = "store" => rxq.slots[wifi.slot] = Nothing
    /\ wifi.at = "publish" => rxq.slots[wifi.slot] # Nothing
    /\ drain.at = "move" => rxq.slots[drain.slot] # Nothing
    /\ drain.at = "give" => rxq.slots[drain.slot] = Nothing

(* A buffer is free, with a task or in a slot, and in one of these only. *)
RxInSlot(b) == \E i \in RxSlots : rxq.slots[i] = b

RxBuffers ==
    /\ IsInjective(pool.free)
    /\ \A b \in Range(pool.free) : b \notin {wifi.buf, drain.buf} /\ ~RxInSlot(b)
    /\ \A b \in BUFFERS : b \in Range(pool.free) \cup {wifi.buf, drain.buf} \/ RxInSlot(b)
    /\ \A i, j \in RxSlots : rxq.slots[i] = rxq.slots[j] /\ rxq.slots[i] # Nothing => i = j
    /\ \A i \in RxSlots : rxq.slots[i] # Nothing => rxq.slots[i] \notin {wifi.buf, drain.buf}
    /\ wifi.buf = drain.buf => wifi.buf = Nothing

RxPlaces ==
    /\ RxTypeOK /\ RxHands /\ RxBuffers
    /\ QueueOK(rxq, RxSlots, BUFFERS, RxHeld)

-----------------------------------------------------------------------------
(***************************************************************************)
(* Receiving: the order of the frames.  Between the pool and the manager a *)
(* buffer is with the Wi-Fi task, queued or with the drain task.           *)
(***************************************************************************)
Entering == IF wifi.at = "publish" THEN rxq.slots[wifi.slot] ELSE wifi.buf
Leaving  == IF drain.at = "move" THEN rxq.slots[drain.slot] ELSE drain.buf
Queued   == Contents(rxq)

Number(b) == pool.data[b]

(* A reset of the statistics lets the last frame in a second time. *)
Before(m, n) == m < n \/ (rxSpent.resets > 0 /\ m = n)

Remembered == dedup.valid /\ dedup.seq = Seq12(heard)

InFlight == ({Entering, Leaving} \cup Range(Queued)) \ {Nothing}

(* What is in flight was heard, and is newer than what was sent; the last *)
(* frame heard is remembered from when it got a buffer.                   *)
InFlightOK ==
    \A b \in InFlight :
        /\ b \in BUFFERS
        /\ Before(sent, Number(b)) /\ Number(b) <= heard
        /\ Number(b) = heard /\ rxSpent.resets = 0 => Remembered

RxOrder ==
    /\ rxSpent \in [all : Nat, clears : Nat, resets : Nat]
    /\ \A j, k \in DOMAIN Queued : j < k => Before(Number(Queued[j]), Number(Queued[k]))
    /\ Leaving # Nothing =>
          \A k \in DOMAIN Queued : Before(Number(Leaving), Number(Queued[k]))
    /\ Entering # Nothing =>
          \A k \in DOMAIN Queued : Before(Number(Queued[k]), Number(Entering))
    /\ Leaving # Nothing /\ Entering # Nothing => Before(Number(Leaving), Number(Entering))
    /\ InFlightOK
    /\ sent <= heard
    /\ sent = heard /\ heard > 0 /\ rxSpent.resets = 0 => Remembered
    /\ wifi.at # "idle" => wifi.frame = heard /\ heard > 0

-----------------------------------------------------------------------------
(***************************************************************************)
(* Receiving: the destination.  What the console has written of it, and    *)
(* what it has still to write.                                             *)
(***************************************************************************)
HostOf(d) == Dest("host", d[1])
PortOf(d) == Dest("port", d[2])
Active(b) == Dest("active", b)

IsSet == asked # None

Writing ==
    \/ console = <<HostOf(asked), PortOf(asked), Active(IsSet)>>
    \/ console = <<PortOf(asked), Active(IsSet)>> /\ dest.host = asked[1]
    \/ console = <<Active(IsSet)>> /\ dest.host = asked[1] /\ dest.port = asked[2]

RuleWrites == {OpenWrite, CloseWrite} \cup {HalfWrite(i, mode) : i \in 1..2, mode \in LiveModes}

Wrote ==
    /\ console \in Seq(RuleWrites)
    /\ dest.active = IsSet
    /\ dest.host = asked[1] /\ dest.port = asked[2]

DestOK ==
    /\ asked \in DESTINATIONS \cup {None}
    /\ dest \in [host : Nat, port : Nat, active : BOOLEAN]
    /\ rxSpent \in [all : Nat, clears : Nat, resets : Nat]
    /\ Writing \/ Wrote
    /\ rxSpent.clears = 0 =>
          /\ dest.active => dest.host # 0 /\ dest.port # 0
          /\ drain.at \in {"host", "port"} => dest.host # 0 /\ dest.port # 0
          /\ drain.at = "port" => drain.host # 0
          /\ Writing => IsSet
    /\ drain.clean =>
          /\ drain.at \in {"host", "port"} /\ console = <<>> /\ IsSet
          /\ drain.at = "port" => drain.host = dest.host

RxInv == RxPlaces /\ RxOrder /\ DestOK

-----------------------------------------------------------------------------
(***************************************************************************)
(* Injecting: where the slots and the buffers are.  A buffer of the heap   *)
(* that is not allocated is nowhere, or, once a frame was refused, where   *)
(* the driver's task goes on with it.                                      *)
(***************************************************************************)
TxSlots == 1..TX_SLOTS
TxBufs  == FRAME_BUFFERS \cup BENCH_BUFFERS
TxHeld  == {eth.slot, bench.slot, inject.slot} \ {0}

TxTypeOK ==
    /\ live \subseteq FRAME_BUFFERS /\ lwip \subseteq FRAME_BUFFERS
    /\ eth \in [at : {"idle", "pass", "accept", "store", "publish"},
                buf : FRAME_BUFFERS \cup {Nothing}, slot : TxSlots \cup {0}]
    /\ bench \in [at : {"idle", "claim", "store", "publish"},
                  buf : BENCH_BUFFERS \cup {Nothing}, slot : TxSlots \cup {0}]
    /\ inject \in [at : {"idle", "move", "give", "send"},
                   buf : TxBufs \cup {Nothing}, slot : TxSlots \cup {0}]
    /\ txPool \in Seq(BENCH_BUFFERS)

TxHands ==
    /\ eth.slot # 0 <=> eth.at \in {"store", "publish"}
    /\ eth.buf # Nothing <=> eth.at \in {"pass", "accept", "store"}
    /\ bench.slot # 0 <=> bench.at \in {"store", "publish"}
    /\ bench.buf # Nothing <=> bench.at \in {"claim", "store"}
    /\ inject.slot # 0 <=> inject.at \in {"move", "give"}
    /\ inject.buf # Nothing <=> inject.at \in {"give", "send"}
    /\ eth.slot = bench.slot => eth.slot = 0
    /\ eth.slot = inject.slot => eth.slot = 0
    /\ bench.slot = inject.slot => bench.slot = 0

(* What the slot in hand holds. *)
TxInHand ==
    /\ eth.at = "store" => txq.slots[eth.slot] = Nothing
    /\ eth.at = "publish" => txq.slots[eth.slot] # Nothing
    /\ bench.at = "store" => txq.slots[bench.slot] = Nothing
    /\ bench.at = "publish" => txq.slots[bench.slot] # Nothing
    /\ inject.at = "move" => txq.slots[inject.slot] # Nothing
    /\ inject.at = "give" => txq.slots[inject.slot] = Nothing

TxInSlot(b) == \E i \in TxSlots : txq.slots[i] = b

(* Every buffer of the TX pool is somewhere, and every allocated one. *)
TxNoneLost ==
    /\ \A b \in BENCH_BUFFERS :
          b \in Range(txPool) \cup {bench.buf, inject.buf} \/ TxInSlot(b)
    /\ \A b \in live : b \in lwip \cup {eth.buf, inject.buf} \/ TxInSlot(b)

(* And in one place only. *)
TxApart ==
    /\ IsInjective(txPool)
    /\ \A b \in Range(txPool) : b \notin {bench.buf, inject.buf} /\ ~TxInSlot(b)
    /\ \A b \in lwip : b \notin {eth.buf, inject.buf} /\ ~TxInSlot(b)
    /\ \A i, j \in TxSlots : txq.slots[i] = txq.slots[j] /\ txq.slots[i] # Nothing => i = j
    /\ \A i \in TxSlots :
          txq.slots[i] # Nothing => txq.slots[i] \notin {eth.buf, bench.buf, inject.buf}
    /\ inject.buf \in {eth.buf, bench.buf} => inject.buf = Nothing

(* What is not allocated. *)
TxFreed ==
    /\ eth.at \in {"accept", "store"} => eth.buf \in live
    /\ \A b \in FRAME_BUFFERS \ live :
          b # inject.buf /\ ~TxInSlot(b) /\ (b \in lwip \cup {eth.buf} => refused)

TxPlaces ==
    /\ TxTypeOK /\ TxHands /\ TxInHand /\ TxNoneLost /\ TxApart /\ TxFreed
    /\ QueueOK(txq, TxSlots, TxBufs, TxHeld)

-----------------------------------------------------------------------------
(***************************************************************************)
(* RxPlaces is inductive.                                                  *)
(***************************************************************************)
LEMMA Slots == CAP \in Nat /\ 0 \notin RxSlots
BY RadioReceiveAssumption, FS_CardinalityType DEF CAP, RxSlots

LEMMA FramesHeard == \A n \in 1..FRAMES : n \in Nat /\ n > 0
BY RadioReceiveAssumption

LEMMA IdleHands ==
  /\ DOMAIN RxIdle = WifiFields /\ RxIdle.at = "idle" /\ RxIdle.frame = 0
  /\ RxIdle.buf = Nothing /\ RxIdle.slot = 0
BY DEF RxIdle, WifiFields

LEMMA RxPlacesInit == ASSUME RxInit PROVE RxPlaces
<1>1. /\ wifi.at = "idle" /\ wifi.frame = 0 /\ wifi.buf = Nothing /\ wifi.slot = 0
      /\ DOMAIN wifi = WifiFields
  BY IdleHands DEF RxInit
<1>2. drain = [at |-> "pop", slot |-> 0, buf |-> Nothing, host |-> 0, clean |-> FALSE]
  BY DEF RxInit, DrainIdle
<1>3. /\ pool.free = NewPool(BUFFERS) /\ pool.data = [b \in BUFFERS |-> 0]
      /\ pool = [free |-> NewPool(BUFFERS), data |-> [b \in BUFFERS |-> 0]]
  BY DEF RxInit
<1>4. /\ NewPool(BUFFERS) \in Seq(BUFFERS) /\ IsInjective(NewPool(BUFFERS))
      /\ Range(NewPool(BUFFERS)) = BUFFERS
  BY RadioReceiveAssumption, NewPoolOK
<1>5. QueueOK(rxq, RxSlots, BUFFERS, {}) /\ rxq.slots = [i \in RxSlots |-> Nothing]
  <2>1. rxq = NewQueue(CAP)
    BY DEF RxInit
  <2>2. QED
    BY <2>1, Slots, NewQueueOK DEF RxSlots, NewQueue
<1>6. RxHeld = {}
  BY <1>1, <1>2 DEF RxHeld
<1>7. RxTypeOK
  BY <1>1, <1>2, <1>3, <1>4 DEF RxTypeOK, RxInit
<1>8. RxHands
  BY <1>1, <1>2 DEF RxHands
<1>9. RxBuffers
  BY <1>1, <1>2, <1>3, <1>4, <1>5, RadioReceiveAssumption DEF RxBuffers, RxInSlot
<1>10. QED
  BY <1>5, <1>6, <1>7, <1>8, <1>9 DEF RxPlaces

(* Where no task takes or gives a slot or a buffer, all stays in place. *)
LEMMA RxHandsFull ==
  ASSUME RxPlaces, RxTypeOK', UNCHANGED <<rxq, pool>>,
         wifi'.buf = wifi.buf, wifi'.slot = wifi.slot,
         drain'.buf = drain.buf, drain'.slot = drain.slot,
         wifi'.at = wifi.at \/ {wifi.at, wifi'.at} \subseteq {"idle", "rules", "accepted"},
         drain'.at = drain.at \/ {drain.at, drain'.at} \subseteq {"active", "host", "port"}
  PROVE  RxPlaces'
<1>1. RxHeld' = RxHeld
  BY DEF RxHeld
<1>2. QueueOK(rxq, RxSlots, BUFFERS, RxHeld)'
  BY <1>1 DEF RxPlaces, RxSlots
<1>3. RxHands'
  BY DEF RxPlaces, RxHands
<1>4. RxBuffers'
  BY DEF RxPlaces, RxBuffers, RxInSlot, RxSlots
<1>5. QED
  BY <1>2, <1>3, <1>4 DEF RxPlaces

LEMMA RxFiltering ==
  ASSUME RxPlaces,
         \/ \E n \in 1..FRAMES, mode \in LiveModes : Hear(n, mode)
         \/ ReadRules \/ Filter \/ DropRepeat \/ DropNoBuffer
  PROVE  RxPlaces'
<1>1. DOMAIN wifi = WifiFields /\ wifi.frame \in Nat
  BY DEF RxPlaces, RxTypeOK
<1>2. /\ UNCHANGED <<pool, rxq, drain, sent>> /\ heard' \in Nat
  <2>1. heard \in Nat /\ \A n \in 1..FRAMES : n \in Nat
    BY FramesHeard DEF RxPlaces, RxTypeOK
  <2>2. CASE \E n \in 1..FRAMES, mode \in LiveModes : Hear(n, mode)
    BY <2>1, <2>2 DEF Hear, WifiStep
  <2>3. CASE ReadRules \/ Filter \/ DropRepeat \/ DropNoBuffer
    BY <2>1, <2>3 DEF ReadRules, Filter, DropRepeat, DropNoBuffer, WifiStep
  <2>4. QED
    BY <2>2, <2>3
<1>3. /\ DOMAIN wifi' = WifiFields /\ wifi'.frame \in Nat
      /\ wifi.at \in {"idle", "rules", "accepted"} /\ wifi'.at \in {"idle", "rules", "accepted"}
      /\ \/ wifi'.buf = Nothing /\ wifi'.slot = 0
         \/ wifi'.buf = wifi.buf /\ wifi'.slot = wifi.slot
  <2>1. CASE \E n \in 1..FRAMES, mode \in LiveModes : Hear(n, mode)
    <3>. PICK n \in 1..FRAMES, mode \in LiveModes : Hear(n, mode)
      BY <2>1
    <3>1. wifi.at = "idle" /\ n \in Nat
      BY FramesHeard DEF Hear, WifiAt
    <3>2. wifi' = [RxIdle EXCEPT !.at = "rules", !.frame = n, !.mode = mode,
                                 !.round = 1, !.read = StartRead]
      BY DEF Hear
    <3>3. /\ DOMAIN wifi' = WifiFields /\ wifi'.frame = n /\ wifi'.at = "rules"
          /\ wifi'.buf = Nothing /\ wifi'.slot = 0
      BY <3>2 DEF RxIdle, WifiFields
    <3>4. QED
      BY <3>1, <3>3
  <2>2. CASE ReadRules
    BY <1>1, <2>2 DEF ReadRules, WifiAt, WifiFields
  <2>3. CASE Filter
    <3>1. \/ wifi' = RxIdle
          \/ wifi' = [wifi EXCEPT !.round = 2, !.read = StartRead]
          \/ wifi' = [wifi EXCEPT !.at = "accepted", !.read = NotReading]
      BY <2>3 DEF Filter
    <3>2. wifi.at = "rules"
      BY <2>3 DEF Filter, WifiAt
    <3>3. CASE wifi' = RxIdle
      BY <3>2, <3>3, IdleHands
    <3>4. CASE wifi' = [wifi EXCEPT !.round = 2, !.read = StartRead]
      BY <1>1, <3>2, <3>4 DEF WifiFields
    <3>5. CASE wifi' = [wifi EXCEPT !.at = "accepted", !.read = NotReading]
      BY <1>1, <3>2, <3>5 DEF WifiFields
    <3>6. QED
      BY <3>1, <3>3, <3>4, <3>5
  <2>4. CASE DropRepeat \/ DropNoBuffer
    BY <1>1, <2>4, IdleHands DEF DropRepeat, DropNoBuffer, WifiAt
  <2>5. QED
    BY <2>1, <2>2, <2>3, <2>4
<1>4. wifi.buf = Nothing /\ wifi.slot = 0
  BY <1>3 DEF RxPlaces, RxHands
<1>5. RxTypeOK'
  BY <1>2, <1>3, <1>4 DEF RxPlaces, RxTypeOK, RxSlots
<1>6. QED
  BY <1>2, <1>3, <1>4, <1>5, RxHandsFull

LEMMA AllocatePlaces == ASSUME RxPlaces, Allocate PROVE RxPlaces'
<1> DEFINE b == Head(pool.free)
<1>1. /\ DOMAIN wifi = WifiFields /\ wifi.at = "accepted" /\ wifi.frame \in Nat
      /\ wifi.buf = Nothing /\ wifi.slot = 0
      /\ UNCHANGED <<heard, rxq, drain, sent>>
  BY DEF RxPlaces, RxTypeOK, RxHands, Allocate, WifiAt, WifiStep
<1>2. /\ pool.free \in Seq(BUFFERS) /\ IsInjective(pool.free)
      /\ pool.data \in [BUFFERS -> Nat]
  BY DEF RxPlaces, RxTypeOK, RxBuffers
<1>3. /\ b \in Range(pool.free) /\ b \in BUFFERS
      /\ Tail(pool.free) \in Seq(BUFFERS) /\ IsInjective(Tail(pool.free))
      /\ Range(Tail(pool.free)) = Range(pool.free) \ {b}
  BY <1>2, InjectiveTail DEF Allocate
<1>4. /\ pool' = [free |-> Tail(pool.free), data |-> [pool.data EXCEPT ![b] = wifi.frame]]
      /\ wifi' = [wifi EXCEPT !.at = "claim", !.buf = b]
  BY DEF Allocate
<1>5. b # Nothing
  BY <1>3, RadioReceiveAssumption
<1> HIDE DEF b
<1>6. /\ DOMAIN wifi' = WifiFields /\ wifi'.at = "claim" /\ wifi'.frame = wifi.frame
      /\ wifi'.buf = b /\ wifi'.slot = 0
  BY <1>1, <1>4 DEF WifiFields
<1>7. RxTypeOK'
  BY <1>1, <1>2, <1>3, <1>4, <1>6 DEF RxPlaces, RxTypeOK, RxSlots
<1>8. RxHands'
  BY <1>1, <1>5, <1>6 DEF RxPlaces, RxHands
<1>9. RxBuffers'
  <2>1. /\ pool'.free = Tail(pool.free) /\ rxq' = rxq /\ drain' = drain
        /\ RxSlots' = RxSlots /\ BUFFERS' = BUFFERS
    BY <1>1, <1>4 DEF RxSlots
  <2>2. /\ \A c \in Range(pool.free) : c \notin {wifi.buf, drain.buf} /\ ~RxInSlot(c)
        /\ \A c : RxInSlot(c)' <=> RxInSlot(c)
    BY <2>1 DEF RxPlaces, RxBuffers, RxInSlot
  <2>3. /\ IsInjective(pool'.free)
        /\ \A c \in Range(pool'.free) : c \notin {b, drain.buf} /\ ~RxInSlot(c)
        /\ \A c \in BUFFERS : c \in Range(pool'.free) \cup {b, drain.buf} \/ RxInSlot(c)
    BY <1>1, <1>3, <2>1, <2>2, RadioReceiveAssumption DEF RxPlaces, RxBuffers
  <2>4. /\ \A j \in RxSlots : rxq.slots[j] # Nothing => rxq.slots[j] \notin {b, drain.buf}
        /\ b # drain.buf
    BY <1>3, <2>2 DEF RxPlaces, RxBuffers, RxInSlot
  <2>5. QED
    BY <1>1, <1>6, <2>1, <2>2, <2>3, <2>4 DEF RxPlaces, RxBuffers
<1>10. QueueOK(rxq, RxSlots, BUFFERS, RxHeld)'
  <2>1. RxHeld' = RxHeld
    BY <1>1, <1>6 DEF RxHeld
  <2>2. QED
    BY <1>1, <2>1 DEF RxPlaces, RxSlots
<1>11. QED
  BY <1>7, <1>8, <1>9, <1>10 DEF RxPlaces

LEMMA ClaimPlaces == ASSUME RxPlaces, RxClaim PROVE RxPlaces'
<1> DEFINE i == Claimed(rxq)
<1>1. /\ DOMAIN wifi = WifiFields /\ wifi.at = "claim" /\ wifi.slot = 0
      /\ UNCHANGED <<heard, pool, drain, sent>>
      /\ rxq' = Claim(rxq) /\ CanClaim(rxq)
      /\ wifi' = [wifi EXCEPT !.at = "store", !.slot = i]
  BY DEF RxPlaces, RxTypeOK, RxHands, RxClaim, WifiAt, WifiStep
<1>2. /\ QueueOK(rxq', RxSlots, BUFFERS, RxHeld \cup {i})
      /\ i \in RxSlots \ RxHeld /\ rxq.slots[i] = Nothing
      /\ rxq'.slots = rxq.slots
  BY <1>1, ClaimOK DEF RxPlaces
<1> HIDE DEF i
<1>3. /\ DOMAIN wifi' = WifiFields /\ wifi'.at = "store" /\ wifi'.slot = i
      /\ wifi'.buf = wifi.buf /\ wifi'.frame = wifi.frame
  BY <1>1 DEF WifiFields
<1>4. i # 0 /\ i # drain.slot /\ RxHeld' = RxHeld \cup {i}
  BY <1>1, <1>2, <1>3, Slots DEF RxHeld
<1>5. RxTypeOK'
  BY <1>1, <1>2, <1>3 DEF RxPlaces, RxTypeOK, RxSlots
<1>6. RxHands'
  BY <1>1, <1>2, <1>3, <1>4 DEF RxPlaces, RxHands
<1>7. RxBuffers'
  BY <1>1, <1>2, <1>3 DEF RxPlaces, RxBuffers, RxInSlot, RxSlots
<1>8. QED
  BY <1>2, <1>4, <1>5, <1>6, <1>7 DEF RxPlaces, RxSlots

LEMMA StorePlaces == ASSUME RxPlaces, RxStore PROVE RxPlaces'
<1> DEFINE i == wifi.slot
           b == wifi.buf
<1>1. /\ DOMAIN wifi = WifiFields /\ wifi.at = "store"
      /\ UNCHANGED <<heard, pool, drain, sent>>
      /\ rxq' = Store(rxq, i, b)
      /\ wifi' = [wifi EXCEPT !.at = "publish", !.buf = Nothing]
  BY DEF RxPlaces, RxTypeOK, RxStore, WifiAt, WifiStep
<1>2. /\ i \in RxHeld /\ i \in RxSlots /\ i # drain.slot
      /\ b \in BUFFERS /\ b # Nothing /\ b # drain.buf
  BY <1>1 DEF RxPlaces, RxTypeOK, RxHands, RxBuffers, RxHeld
<1>3. /\ QueueOK(rxq', RxSlots, BUFFERS, RxHeld)
      /\ rxq'.slots = [rxq.slots EXCEPT ![i] = b]
      /\ rxq.slots \in [RxSlots -> BUFFERS \cup {Nothing}]
  BY <1>1, <1>2, StoreOK, QueueParts DEF RxPlaces
<1>4. /\ DOMAIN wifi' = WifiFields /\ wifi'.at = "publish" /\ wifi'.slot = i
      /\ wifi'.buf = Nothing /\ wifi'.frame = wifi.frame
  BY <1>1 DEF WifiFields
<1> HIDE DEF i, b
<1>5. rxq'.slots[i] = b /\ \A j \in RxSlots : j # i => rxq'.slots[j] = rxq.slots[j]
  BY <1>2, <1>3
<1>6. RxHeld' = RxHeld
  BY <1>1, <1>4 DEF RxHeld, i
<1>7. RxTypeOK'
  BY <1>1, <1>4 DEF RxPlaces, RxTypeOK, RxSlots, i
<1>8. RxHands'
  BY <1>1, <1>2, <1>4, <1>5 DEF RxPlaces, RxTypeOK, RxHands, i
<1>9. RxBuffers'
  <2>1. /\ pool' = pool /\ drain' = drain /\ RxSlots' = RxSlots /\ BUFFERS' = BUFFERS
        /\ rxq.slots[i] = Nothing
    BY <1>1 DEF RxPlaces, RxHands, RxSlots, i
  <2>2. \A c \in BUFFERS : RxInSlot(c)' <=> RxInSlot(c) \/ c = b
    BY <1>2, <1>5, <2>1, RadioReceiveAssumption DEF RxInSlot
  <2>3. Range(pool.free) \subseteq BUFFERS
    BY DEF RxPlaces, RxTypeOK, Range
  <2>4. /\ \A c \in Range(pool.free) : c \notin {Nothing, drain.buf} /\ ~RxInSlot(c)'
        /\ \A c \in BUFFERS : c \in Range(pool.free) \cup {Nothing, drain.buf} \/ RxInSlot(c)'
    BY <2>2, <2>3, RadioReceiveAssumption DEF RxPlaces, RxBuffers, b
  <2>5. /\ \A j \in RxSlots : rxq.slots[j] # b
        /\ \A j, k \in RxSlots : rxq.slots[j] = rxq.slots[k] /\ rxq.slots[j] # Nothing => j = k
        /\ \A j \in RxSlots : rxq.slots[j] # Nothing => rxq.slots[j] # drain.buf
    BY <1>2 DEF RxPlaces, RxBuffers, b
  <2>6. /\ \A j, k \in RxSlots :
              rxq'.slots[j] = rxq'.slots[k] /\ rxq'.slots[j] # Nothing => j = k
        /\ \A j \in RxSlots : rxq'.slots[j] # Nothing => rxq'.slots[j] \notin {Nothing, drain.buf}
    BY <1>2, <1>5, <2>5
  <2>7. QED
    BY <1>4, <2>1, <2>4, <2>6 DEF RxPlaces, RxBuffers
<1>10. QED
  BY <1>3, <1>6, <1>7, <1>8, <1>9 DEF RxPlaces, RxSlots

LEMMA PublishPlaces == ASSUME RxPlaces, RxPublish PROVE RxPlaces'
<1> DEFINE i == wifi.slot
<1>1. /\ wifi.at = "publish" /\ wifi.buf = Nothing
      /\ UNCHANGED <<heard, pool, drain, sent>>
      /\ rxq' = Publish(rxq, i) /\ wifi' = RxIdle
  BY DEF RxPlaces, RxHands, RxPublish, WifiAt, WifiStep
<1>2. /\ i \in RxHeld /\ i \in RxSlots /\ i # 0 /\ i # drain.slot
      /\ rxq.slots[i] # Nothing
  BY <1>1 DEF RxPlaces, RxTypeOK, RxHands, RxHeld
<1>3. QueueOK(rxq', RxSlots, BUFFERS, RxHeld \ {i}) /\ rxq'.slots = rxq.slots
  <2>1. QueueOK(rxq, RxSlots, BUFFERS, RxHeld)
    BY DEF RxPlaces
  <2> HIDE DEF i
  <2>2. /\ QueueOK(Publish(rxq, i), RxSlots, BUFFERS, RxHeld \ {i})
        /\ Publish(rxq, i).slots = rxq.slots
    BY <1>2, <2>1, PublishOK
  <2>3. QED
    BY <1>1, <2>2
<1>4. /\ DOMAIN wifi' = WifiFields /\ wifi'.at = "idle" /\ wifi'.slot = 0
      /\ wifi'.buf = Nothing /\ wifi'.frame = 0
  BY <1>1, IdleHands
<1>5. RxHeld' = RxHeld \ {i}
  BY <1>1, <1>2, <1>4 DEF RxHeld
<1>6. RxTypeOK'
  BY <1>1, <1>4 DEF RxPlaces, RxTypeOK, RxSlots
<1>7. RxHands'
  BY <1>1, <1>2, <1>3, <1>4 DEF RxPlaces, RxHands
<1>8. RxBuffers'
  BY <1>1, <1>3, <1>4 DEF RxPlaces, RxBuffers, RxInSlot, RxSlots
<1>9. QED
  BY <1>3, <1>5, <1>6, <1>7, <1>8 DEF RxPlaces, RxSlots

-----------------------------------------------------------------------------
LEMMA TakePlaces == ASSUME RxPlaces, DrainTake PROVE RxPlaces'
<1> DEFINE i == Taken(rxq)
<1>1. /\ drain.at = "pop" /\ drain.slot = 0 /\ drain.buf = Nothing
      /\ UNCHANGED <<heard, pool, wifi, sent>>
      /\ rxq' = Take(rxq) /\ CanTake(rxq)
      /\ drain' = [DrainIdle EXCEPT !.at = "move", !.slot = i]
  BY DEF RxPlaces, RxHands, DrainTake, DrainAt, DrainStep
<1>2. /\ QueueOK(rxq', RxSlots, BUFFERS, RxHeld \cup {i})
      /\ i \in RxSlots \ RxHeld /\ rxq.slots[i] # Nothing
      /\ rxq'.slots = rxq.slots
  <2>1. QueueOK(rxq, RxSlots, BUFFERS, RxHeld)
    BY DEF RxPlaces
  <2>2. /\ QueueOK(Take(rxq), RxSlots, BUFFERS, RxHeld \cup {i})
        /\ i \in RxSlots \ RxHeld /\ rxq.slots[i] \in BUFFERS
        /\ Take(rxq).slots = rxq.slots
    <3>1. CanTake(rxq)
      BY <1>1
    <3>2. QED
      BY <2>1, <3>1, TakeOK
  <2>3. QED
    BY <1>1, <2>2, RadioReceiveAssumption
<1> HIDE DEF i
<1>3. /\ drain' = [at |-> "move", slot |-> i, buf |-> Nothing, host |-> 0, clean |-> FALSE]
  BY <1>1 DEF DrainIdle
<1>4. i # 0 /\ i # wifi.slot /\ RxHeld' = RxHeld \cup {i}
  BY <1>1, <1>2, <1>3, Slots DEF RxHeld
<1>5. RxTypeOK'
  <2>1. drain' \in [at : {"pop", "move", "give", "active", "host", "port"},
                    slot : RxSlots \cup {0}, buf : BUFFERS \cup {Nothing},
                    host : Nat, clean : BOOLEAN]
    BY <1>2, <1>3
  <2>2. QED
    BY <1>1, <2>1 DEF RxPlaces, RxTypeOK, RxSlots
<1>6. /\ drain'.at = "move" /\ drain'.slot = i /\ drain'.buf = Nothing
      /\ wifi' = wifi /\ pool' = pool
  <2>1. wifi' = wifi /\ pool' = pool
    BY <1>1
  <2>2. QED
    BY <1>3, <2>1
<1>7. RxHands'
  BY <1>1, <1>2, <1>4, <1>6 DEF RxPlaces, RxHands
<1>8. RxBuffers'
  BY <1>1, <1>2, <1>6 DEF RxPlaces, RxBuffers, RxInSlot, RxSlots
<1>9. QED
  BY <1>2, <1>4, <1>5, <1>7, <1>8 DEF RxPlaces, RxSlots

LEMMA MovePlaces == ASSUME RxPlaces, DrainMove PROVE RxPlaces'
<1> DEFINE i == drain.slot
           b == rxq.slots[i]
<1>1. /\ drain.at = "move" /\ drain.buf = Nothing
      /\ UNCHANGED <<heard, pool, wifi, sent>>
      /\ rxq' = MoveOut(rxq, i)
      /\ drain' = [drain EXCEPT !.at = "give", !.buf = b]
  BY DEF RxPlaces, RxHands, DrainMove, DrainAt, DrainStep
<1>2. /\ i \in RxHeld /\ i \in RxSlots /\ i # wifi.slot /\ i # 0 /\ b # Nothing
  BY <1>1 DEF RxPlaces, RxTypeOK, RxHands, RxHeld
<1>3. /\ QueueOK(rxq', RxSlots, BUFFERS, RxHeld)
      /\ rxq'.slots = [rxq.slots EXCEPT ![i] = Nothing]
      /\ rxq.slots \in [RxSlots -> BUFFERS \cup {Nothing}]
  BY <1>1, <1>2, MoveOutOK, QueueParts DEF RxPlaces
<1>4. b \in BUFFERS
  BY <1>2, <1>3
<1>5. drain' = [at |-> "give", slot |-> i, buf |-> b, host |-> drain.host, clean |-> drain.clean]
  BY <1>1 DEF RxPlaces, RxTypeOK
<1> HIDE DEF i, b
<1>6. rxq'.slots[i] = Nothing /\ \A j \in RxSlots : j # i => rxq'.slots[j] = rxq.slots[j]
  BY <1>2, <1>3
<1>7. RxHeld' = RxHeld
  BY <1>1, <1>5 DEF RxHeld, i
<1>8. RxTypeOK'
  <2>1. drain.host \in Nat /\ drain.clean \in BOOLEAN
    BY DEF RxPlaces, RxTypeOK
  <2>2. QED
    BY <1>1, <1>2, <1>4, <1>5, <2>1 DEF RxPlaces, RxTypeOK, RxSlots
<1>9. RxHands'
  <2>1. wifi.slot # 0 => wifi.slot \in RxSlots /\ wifi.slot # i
    BY <1>2 DEF RxPlaces, RxTypeOK
  <2>2. wifi.at \in {"store", "publish"} => rxq'.slots[wifi.slot] = rxq.slots[wifi.slot]
    BY <1>6, <2>1 DEF RxPlaces, RxHands
  <2>3. /\ drain'.at = "give" /\ drain'.slot = i /\ drain'.buf = b /\ wifi' = wifi
        /\ drain.slot = i /\ b # Nothing
    BY <1>1, <1>2, <1>5 DEF i
  <2>4. QED
    BY <1>2, <1>6, <2>2, <2>3 DEF RxPlaces, RxHands
<1>10. RxBuffers'
  <2>1. /\ pool' = pool /\ wifi' = wifi /\ RxSlots' = RxSlots /\ BUFFERS' = BUFFERS
        /\ rxq.slots[i] = b /\ drain.buf = Nothing
    BY <1>1 DEF RxSlots, b
  <2>2. /\ Range(pool.free) \subseteq BUFFERS
        /\ \A j, k \in RxSlots : rxq.slots[j] = rxq.slots[k] /\ rxq.slots[j] # Nothing => j = k
        /\ \A j \in RxSlots : rxq.slots[j] # Nothing => rxq.slots[j] # wifi.buf
    BY DEF RxPlaces, RxTypeOK, RxBuffers, Range
  <2>3. \A c \in BUFFERS : RxInSlot(c)' <=> RxInSlot(c) /\ c # b
    BY <1>2, <1>6, <2>1, <2>2, RadioReceiveAssumption DEF RxInSlot
  <2>4. /\ RxInSlot(b) /\ b # wifi.buf
    BY <1>2, <2>1, <2>2 DEF RxInSlot
  <2>5. /\ \A c \in Range(pool.free) : c \notin {wifi.buf, b} /\ ~RxInSlot(c)'
        /\ \A c \in BUFFERS : c \in Range(pool.free) \cup {wifi.buf, b} \/ RxInSlot(c)'
    BY <2>1, <2>2, <2>3, <2>4, RadioReceiveAssumption DEF RxPlaces, RxBuffers
  <2>6. /\ \A j, k \in RxSlots :
              rxq'.slots[j] = rxq'.slots[k] /\ rxq'.slots[j] # Nothing => j = k
        /\ \A j \in RxSlots : rxq'.slots[j] # Nothing => rxq'.slots[j] \notin {wifi.buf, b}
    BY <1>2, <1>6, <2>1, <2>2
  <2>7. QED
    BY <1>5, <2>1, <2>4, <2>5, <2>6 DEF RxPlaces, RxBuffers
<1>11. QED
  BY <1>3, <1>7, <1>8, <1>9, <1>10 DEF RxPlaces, RxSlots

LEMMA GivePlaces == ASSUME RxPlaces, DrainGive PROVE RxPlaces'
<1> DEFINE i == drain.slot
<1>1. /\ drain.at = "give"
      /\ UNCHANGED <<heard, pool, wifi, sent>>
      /\ rxq' = GiveBack(rxq, i)
      /\ drain' = [drain EXCEPT !.at = "active", !.slot = 0]
  BY DEF DrainGive, DrainAt, DrainStep
<1>2. /\ i \in RxHeld /\ i \in RxSlots /\ i # wifi.slot /\ i # 0
      /\ rxq.slots[i] = Nothing
  BY <1>1 DEF RxPlaces, RxTypeOK, RxHands, RxHeld
<1>3. QueueOK(rxq', RxSlots, BUFFERS, RxHeld \ {i}) /\ rxq'.slots = rxq.slots
  BY <1>1, <1>2, GiveBackOK DEF RxPlaces
<1>4. drain' = [at |-> "active", slot |-> 0, buf |-> drain.buf, host |-> drain.host,
                clean |-> drain.clean]
  BY <1>1 DEF RxPlaces, RxTypeOK
<1>5. RxHeld' = RxHeld \ {i}
  BY <1>1, <1>2, <1>4 DEF RxHeld
<1>6. RxTypeOK'
  BY <1>1, <1>4 DEF RxPlaces, RxTypeOK, RxSlots
<1>7. RxHands'
  BY <1>1, <1>2, <1>3, <1>4 DEF RxPlaces, RxHands
<1>8. RxBuffers'
  BY <1>1, <1>3, <1>4 DEF RxPlaces, RxBuffers, RxInSlot, RxSlots
<1>9. QED
  BY <1>3, <1>5, <1>6, <1>7, <1>8 DEF RxPlaces, RxSlots

LEMMA ReleasePlaces ==
  ASSUME RxPlaces, DrainUnset \/ DrainSend \/ DrainFail
  PROVE  RxPlaces'
<1> DEFINE b == drain.buf
<1>1. /\ drain.at \in {"active", "port"} /\ drain.slot = 0 /\ b # Nothing /\ b \in BUFFERS
      /\ UNCHANGED <<heard, wifi, rxq>>
      /\ pool' = [pool EXCEPT !.free = Append(@, b)]
      /\ drain' = DrainIdle
      /\ sent' \in {sent, pool.data[b]}
  BY DEF RxPlaces, RxHands, RxTypeOK, DrainUnset, DrainSend, DrainFail, Release,
         DrainAt, DrainStep
<1>2. /\ pool.free \in Seq(BUFFERS) /\ IsInjective(pool.free)
      /\ pool.data \in [BUFFERS -> Nat] /\ b \notin Range(pool.free)
  BY <1>1 DEF RxPlaces, RxTypeOK, RxBuffers
<1>3. /\ Append(pool.free, b) \in Seq(BUFFERS) /\ IsInjective(Append(pool.free, b))
      /\ Range(Append(pool.free, b)) = Range(pool.free) \cup {b}
  BY <1>1, <1>2, InjectiveAppend
<1>4. pool' = [free |-> Append(pool.free, b), data |-> pool.data]
  BY <1>1 DEF RxPlaces, RxTypeOK
<1>5. drain' = [at |-> "pop", slot |-> 0, buf |-> Nothing, host |-> 0, clean |-> FALSE]
  BY <1>1 DEF DrainIdle
<1> HIDE DEF b
<1>6. RxHeld' = RxHeld
  BY <1>1, <1>5 DEF RxHeld
<1>7. RxTypeOK'
  <2>1. sent' \in Nat
    BY <1>1, <1>2 DEF RxPlaces, RxTypeOK
  <2>2. pool' \in [free : Seq(BUFFERS), data : [BUFFERS -> Nat]]
    BY <1>2, <1>3, <1>4
  <2>3. drain' \in [at : {"pop", "move", "give", "active", "host", "port"},
                    slot : RxSlots \cup {0}, buf : BUFFERS \cup {Nothing},
                    host : Nat, clean : BOOLEAN]
    BY <1>5
  <2>4. QED
    BY <1>1, <2>1, <2>2, <2>3 DEF RxPlaces, RxTypeOK, RxSlots
<1>8. RxHands'
  BY <1>1, <1>5 DEF RxPlaces, RxHands
<1>9. RxBuffers'
  <2>1. /\ rxq' = rxq /\ wifi' = wifi /\ RxSlots' = RxSlots /\ BUFFERS' = BUFFERS
        /\ pool'.free = Append(pool.free, b) /\ drain'.buf = Nothing
    BY <1>1, <1>4, <1>5 DEF RxSlots
  <2>2. /\ \A c \in BUFFERS : RxInSlot(c)' <=> RxInSlot(c)
        /\ Range(pool.free) \subseteq BUFFERS /\ ~RxInSlot(b) /\ b # wifi.buf
    BY <1>1, <2>1 DEF RxPlaces, RxTypeOK, RxBuffers, RxInSlot, Range, b
  <2>3. /\ \A c \in Range(pool'.free) : c \notin {wifi.buf, Nothing} /\ ~RxInSlot(c)'
        /\ \A c \in BUFFERS : c \in Range(pool'.free) \cup {wifi.buf, Nothing} \/ RxInSlot(c)'
    BY <1>1, <1>3, <2>1, <2>2, RadioReceiveAssumption DEF RxPlaces, RxBuffers, b
  <2>4. QED
    BY <1>3, <2>1, <2>3 DEF RxPlaces, RxBuffers
<1>10. QED
  BY <1>1, <1>6, <1>7, <1>8, <1>9 DEF RxPlaces, RxSlots

LEMMA SamePlaces ==
  ASSUME RxPlaces, UNCHANGED <<heard, sent, wifi, pool, rxq>>,
         drain' = [drain EXCEPT !.clean = FALSE] \/ drain' = drain
  PROVE  RxPlaces'
<1>1. drain \in [at : {"pop", "move", "give", "active", "host", "port"},
                 slot : RxSlots \cup {0}, buf : BUFFERS \cup {Nothing},
                 host : Nat, clean : BOOLEAN]
  BY DEF RxPlaces, RxTypeOK
<1>2. /\ drain'.buf = drain.buf /\ drain'.slot = drain.slot /\ drain'.at = drain.at
      /\ drain' \in [at : {"pop", "move", "give", "active", "host", "port"},
                     slot : RxSlots \cup {0}, buf : BUFFERS \cup {Nothing},
                     host : Nat, clean : BOOLEAN]
  BY <1>1
<1>3. RxTypeOK'
  BY <1>2 DEF RxPlaces, RxTypeOK, RxSlots
<1>4. QED
  BY <1>2, <1>3, RxHandsFull

LEMMA LookUpPlaces == ASSUME RxPlaces, DestOK, DrainActive \/ DrainHost PROVE RxPlaces'
<1>1. drain \in [at : {"pop", "move", "give", "active", "host", "port"},
                 slot : RxSlots \cup {0}, buf : BUFFERS \cup {Nothing},
                 host : Nat, clean : BOOLEAN]
  BY DEF RxPlaces, RxTypeOK
<1>2. UNCHANGED <<heard, sent, wifi, pool, rxq>>
  BY DEF DrainActive, DrainHost, DrainStep
<1>3. /\ drain'.buf = drain.buf /\ drain'.slot = drain.slot
      /\ {drain.at, drain'.at} \subseteq {"active", "host", "port"}
      /\ drain' \in [at : {"pop", "move", "give", "active", "host", "port"},
                     slot : RxSlots \cup {0}, buf : BUFFERS \cup {Nothing},
                     host : Nat, clean : BOOLEAN]
  <2>1. CASE DrainActive
    <3>1. PICK c \in BOOLEAN : drain' = [drain EXCEPT !.at = "host", !.clean = c]
      BY <2>1 DEF DrainActive
    <3>2. drain.at = "active"
      BY <2>1 DEF DrainActive, DrainAt
    <3>3. QED
      BY <1>1, <3>1, <3>2
  <2>2. CASE DrainHost
    <3>1. dest.host \in Nat
      BY DEF DestOK
    <3>2. drain' = [drain EXCEPT !.at = "port", !.host = dest.host] /\ drain.at = "host"
      BY <2>2 DEF DrainHost, DrainAt
    <3>3. QED
      BY <1>1, <3>1, <3>2
  <2>3. QED
    BY <2>1, <2>2
<1>4. RxTypeOK'
  BY <1>2, <1>3 DEF RxPlaces, RxTypeOK, RxSlots
<1>5. QED
  BY <1>2, <1>3, <1>4, RxHandsFull

LEMMA RxPlacesNext == ASSUME RxPlaces, DestOK, [Next]_vars PROVE RxPlaces'
<1>1. CASE Receive
  <2>1. CASE \/ \E n \in 1..FRAMES, mode \in LiveModes : Hear(n, mode)
             \/ ReadRules \/ Filter \/ DropRepeat \/ DropNoBuffer
    BY <2>1, RxFiltering
  <2>2. CASE Allocate \/ RxClaim \/ RxStore \/ RxPublish
    BY <2>2, AllocatePlaces, ClaimPlaces, StorePlaces, PublishPlaces
  <2>3. CASE \/ DrainTake \/ DrainMove \/ DrainGive
             \/ DrainUnset \/ DrainSend \/ DrainFail
             \/ DrainActive \/ DrainHost
    BY <2>3, TakePlaces, MovePlaces, GivePlaces, ReleasePlaces, LookUpPlaces
  <2>4. CASE \/ \E d \in DESTINATIONS : SetUpstreamRx(d)
             \/ ClearUpstreamRx \/ ResetPromiscStats \/ ConsoleWrite
             \/ \E mode \in LiveModes : SetMode(mode)
    <3>1. /\ UNCHANGED <<heard, sent, wifi, pool, rxq>>
          /\ drain' = [drain EXCEPT !.clean = FALSE] \/ drain' = drain
      BY <2>4 DEF SetUpstreamRx, ClearUpstreamRx, ResetPromiscStats, ConsoleWrite,
                  SetMode, RxCommand
    <3>2. QED
      BY <3>1, SamePlaces
  <2>5. QED
    BY <1>1, <2>1, <2>2, <2>3, <2>4 DEF Receive, RxNext
<1>2. CASE Inject \/ UNCHANGED vars
  <2>1. UNCHANGED <<heard, sent, wifi, pool, rxq, drain>>
    BY <1>2 DEF Inject, vars, rxVars
  <2>2. QED
    BY <2>1, SamePlaces
<1>3. QED
  BY <1>1, <1>2 DEF Next

-----------------------------------------------------------------------------
(***************************************************************************)
(* What follows from RxPlaces.                                             *)
(***************************************************************************)
LEMMA RxPlacesShown == ASSUME RxPlaces PROVE RxInOnePlace
<1> DEFINE w == Held(wifi.slot)
           d == Held(drain.slot)
<1>1. /\ w \in Seq(RxSlots) /\ IsInjective(w) /\ Range(w) = {wifi.slot} \ {0}
      /\ d \in Seq(RxSlots) /\ IsInjective(d) /\ Range(d) = {drain.slot} \ {0}
  <2>1. wifi.slot \in RxSlots \cup {0} /\ drain.slot \in RxSlots \cup {0}
    BY DEF RxPlaces, RxTypeOK
  <2>2. QED
    BY <2>1, Slots, HeldOne
<1>2. RxSlotsHeld = w \o d
  BY DEF RxSlotsHeld, Held
<1> HIDE DEF w, d
<1>3. /\ w \o d \in Seq(RxSlots) /\ IsInjective(w \o d)
      /\ Range(w \o d) = RxHeld
  <2>1. Range(w) \cap Range(d) = {} /\ Range(w) \cup Range(d) = RxHeld
    BY <1>1 DEF RxPlaces, RxHands, RxHeld
  <2>2. /\ w \in Seq(RxSlots) /\ d \in Seq(RxSlots)
        /\ IsInjective(w) /\ IsInjective(d)
    BY <1>1
  <2> HIDE DEF RxSlots
  <2>3. /\ w \o d \in Seq(RxSlots) /\ IsInjective(w \o d)
        /\ Range(w \o d) = Range(w) \cup Range(d)
    BY <2>1, <2>2, InjectiveConcat
  <2>4. QED
    BY <2>1, <2>3
<1>4. SlotsInOnePlace(rxq, RxSlotsHeld)
  BY <1>2, <1>3, EachSlotInOnePlace DEF RxPlaces
<1>5. /\ rxq.slots \in [RxSlots -> BUFFERS \cup {Nothing}] /\ DOMAIN rxq.slots = RxSlots
      /\ Range(pool.free) \subseteq BUFFERS
      /\ wifi.buf \in BUFFERS \cup {Nothing} /\ drain.buf \in BUFFERS \cup {Nothing}
  BY QueueParts DEF RxPlaces, RxTypeOK, Range
<1>6. \A b : b \in Range(rxq.slots) <=> RxInSlot(b)
  BY <1>5 DEF Range, RxInSlot
<1>7. /\ Range(pool.free) \cap RxBuffersHeld = {}
      /\ Range(pool.free) \cup RxBuffersHeld = BUFFERS
  <2>1. \A b : b \in RxBuffersHeld <=>
                 b # Nothing /\ (b \in {wifi.buf, drain.buf} \/ RxInSlot(b))
    BY <1>6 DEF RxBuffersHeld
  <2>2. \A b : RxInSlot(b) => b \in BUFFERS \cup {Nothing}
    BY <1>5 DEF RxInSlot
  <2>3. QED
    BY <1>5, <2>1, <2>2, RadioReceiveAssumption DEF RxPlaces, RxBuffers
<1>8. /\ \A i, j \in DOMAIN rxq.slots :
            rxq.slots[i] = rxq.slots[j] /\ rxq.slots[i] # Nothing => i = j
      /\ {wifi.buf, drain.buf} \cap Range(rxq.slots) \subseteq {Nothing}
      /\ wifi.buf = drain.buf => wifi.buf = Nothing
      /\ IsInjective(pool.free)
  BY <1>5, <1>6 DEF RxPlaces, RxBuffers, RxInSlot
<1>9. QED
  BY <1>4, <1>7, <1>8 DEF RxInOnePlace

(* Were no slot free, every slot would hold a buffer or have just given it *)
(* to the drain task, and with the one of the Wi-Fi task there would be    *)
(* more buffers than there are.                                            *)
LEMMA RoomShown == ASSUME RxPlaces PROVE RoomForBuffers
<1> SUFFICES ASSUME wifi.at = "claim", rxq.free = <<>> PROVE FALSE
  BY DEF RoomForBuffers, WifiAt, CanClaim
<1> DEFINE f == [i \in RxSlots |-> IF rxq.slots[i] = Nothing THEN drain.buf ELSE rxq.slots[i]]
<1>1. /\ wifi.slot = 0 /\ wifi.buf \in BUFFERS /\ wifi.buf # Nothing
      /\ rxq.slots \in [RxSlots -> BUFFERS \cup {Nothing}]
      /\ drain.buf \in BUFFERS \cup {Nothing}
  BY QueueParts DEF RxPlaces, RxTypeOK, RxHands
<1>2. ASSUME NEW i \in RxSlots, rxq.slots[i] = Nothing
      PROVE  i = drain.slot /\ drain.buf # Nothing
  <2>1. i \notin Range(rxq.free) /\ i \notin Range(rxq.filled)
    BY <1>2 DEF RxPlaces, QueueOK, Range
  <2>2. i \in RxHeld
    BY <2>1 DEF RxPlaces, QueueOK
  <2>3. i = drain.slot /\ i # 0
    BY <1>1, <2>2 DEF RxHeld
  <2>4. drain.at = "give"
    BY <1>2, <2>3 DEF RxPlaces, RxHands
  <2>5. QED
    BY <2>3, <2>4 DEF RxPlaces, RxHands
<1>3. f \in [RxSlots -> BUFFERS \ {wifi.buf}]
  <2>1. SUFFICES ASSUME NEW i \in RxSlots PROVE f[i] \in BUFFERS \ {wifi.buf}
    OBVIOUS
  <2>2. CASE rxq.slots[i] = Nothing
    BY <1>1, <1>2, <2>2 DEF RxPlaces, RxBuffers
  <2>3. CASE rxq.slots[i] # Nothing
    BY <1>1, <2>3 DEF RxPlaces, RxBuffers
  <2>4. QED
    BY <2>2, <2>3
<1>4. ASSUME NEW i \in RxSlots, NEW j \in RxSlots, f[i] = f[j] PROVE i = j
  <2>1. CASE rxq.slots[i] = Nothing /\ rxq.slots[j] = Nothing
    BY <1>2, <2>1
  <2>2. CASE rxq.slots[i] # Nothing /\ rxq.slots[j] # Nothing
    BY <1>4, <2>2 DEF RxPlaces, RxBuffers
  <2>3. CASE (rxq.slots[i] = Nothing) # (rxq.slots[j] = Nothing)
    BY <1>4, <2>3 DEF RxPlaces, RxBuffers
  <2>4. QED
    BY <2>1, <2>2, <2>3
<1> HIDE DEF f
<1>5. f \in Injection(RxSlots, BUFFERS \ {wifi.buf})
  BY <1>3, <1>4, Fun_IsInj
<1>6. /\ IsFiniteSet(BUFFERS \ {wifi.buf})
      /\ Cardinality(BUFFERS \ {wifi.buf}) = CAP - 1
  BY <1>1, RadioReceiveAssumption, FS_RemoveElement DEF CAP
<1>7. Cardinality(RxSlots) = CAP
  BY Slots, FS_Interval DEF RxSlots
<1>8. CAP <= CAP - 1
  BY <1>5, <1>6, <1>7, FS_Injection
<1>9. QED
  BY <1>8, Slots

-----------------------------------------------------------------------------
(***************************************************************************)
(* RxOrder is inductive.                                                   *)
(***************************************************************************)
LEMMA FlightParts ==
  ASSUME RxPlaces
  PROVE  /\ Queued \in Seq(BUFFERS) /\ DOMAIN Queued = 1..Len(Queued)
         /\ Entering \in BUFFERS \cup {Nothing} /\ Leaving \in BUFFERS \cup {Nothing}
         /\ pool.data \in [BUFFERS -> Nat] /\ heard \in Nat /\ sent \in Nat
         /\ \A b \in InFlight : b \in BUFFERS \ Range(pool.free)
<1>1. /\ Queued \in Seq(BUFFERS) /\ Len(Queued) = Len(rxq.filled)
      /\ \A k \in 1..Len(rxq.filled) : Queued[k] = rxq.slots[rxq.filled[k]]
      /\ rxq.filled \in Seq(RxSlots)
      /\ rxq.slots \in [RxSlots -> BUFFERS \cup {Nothing}]
  BY ContentsSeq, QueueParts DEF RxPlaces, Queued
<1>2. DOMAIN Queued = 1..Len(Queued)
  BY <1>1
<1>3. /\ pool.data \in [BUFFERS -> Nat] /\ heard \in Nat /\ sent \in Nat
      /\ wifi.buf \in BUFFERS \cup {Nothing} /\ drain.buf \in BUFFERS \cup {Nothing}
  BY DEF RxPlaces, RxTypeOK
<1>4. wifi.at = "publish" => wifi.slot \in RxSlots
  BY DEF RxPlaces, RxTypeOK, RxHands
<1>5. drain.at = "move" => drain.slot \in RxSlots
  BY DEF RxPlaces, RxTypeOK, RxHands
<1>6. Entering \in BUFFERS \cup {Nothing} /\ Leaving \in BUFFERS \cup {Nothing}
  BY <1>1, <1>3, <1>4, <1>5 DEF Entering, Leaving
<1>7. ASSUME NEW b \in InFlight PROVE b \in BUFFERS \ Range(pool.free)
  <2>1. b \in {wifi.buf, drain.buf} \/ RxInSlot(b)
    <3>1. CASE b = Entering
      BY <1>4, <3>1 DEF Entering, RxInSlot
    <3>2. CASE b = Leaving
      BY <1>5, <3>2 DEF Leaving, RxInSlot
    <3>3. CASE b \in Range(Queued)
      <4>1. PICK k \in 1..Len(rxq.filled) : b = rxq.slots[rxq.filled[k]]
        BY <1>1, <1>2, <3>3 DEF Range
      <4>2. rxq.filled[k] \in RxSlots
        BY <1>1
      <4>3. QED
        BY <4>1, <4>2 DEF RxInSlot
    <3>4. QED
      BY <3>1, <3>2, <3>3 DEF InFlight
  <2>2. b \in BUFFERS
    <3>1. Range(Queued) \subseteq BUFFERS
      BY <1>1 DEF Range
    <3>2. QED
      BY <1>6, <3>1 DEF InFlight
  <2>3. QED
    BY <2>1, <2>2 DEF RxPlaces, RxBuffers
<1>8. QED
  BY <1>1, <1>2, <1>3, <1>6, <1>7

LEMMA RxOrderInit == ASSUME RxInit PROVE RxOrder
<1>1. /\ wifi.at = "idle" /\ wifi.buf = Nothing
  BY IdleHands DEF RxInit
<1>2. drain.at = "pop" /\ drain.buf = Nothing
  BY DEF RxInit, DrainIdle
<1>3. Queued = <<>>
  BY Slots, NewQueueOK DEF RxInit, Queued
<1>4. Entering = Nothing /\ Leaving = Nothing
  BY <1>1, <1>2 DEF Entering, Leaving
<1>5. DOMAIN Queued = {} /\ InFlight = {}
  BY <1>3, <1>4 DEF InFlight, Range
<1>6. rxSpent \in [all : Nat, clears : Nat, resets : Nat] /\ heard = 0 /\ sent = 0
  BY DEF RxInit
<1>7. QED
  BY <1>1, <1>4, <1>5, <1>6 DEF RxOrder, InFlightOK

(* Nothing enters or leaves the line. *)
LEMMA SameOrder ==
  ASSUME RxOrder, UNCHANGED <<Entering, Leaving, Queued, heard, sent, dedup, rxSpent>>,
         pool'.data = pool.data,
         wifi'.at # "idle" => wifi.at # "idle" /\ wifi'.frame = wifi.frame
  PROVE  RxOrder'
<1>1. InFlight' = InFlight
  BY DEF InFlight
<1>2. InFlightOK'
  BY <1>1 DEF RxOrder, InFlightOK, Before, Remembered, Seq12, Number
<1>3. QED
  BY <1>2 DEF RxOrder, Before, Remembered, Seq12, Number

LEMMA HearOrder ==
  ASSUME RxPlaces, RxOrder, NEW n \in 1..FRAMES, NEW mode \in LiveModes, Hear(n, mode)
  PROVE  RxOrder'
<1>1. /\ n \in Nat /\ n > 0 /\ heard \in Nat /\ sent \in Nat /\ heard' = n /\ n >= heard
  <2>1. MISSED \in Nat /\ heard \in Nat
    BY RadioReceiveAssumption DEF RxPlaces, RxTypeOK
  <2>2. QED
    BY <2>1, FramesHeard DEF RxPlaces, RxTypeOK, Hear
<1>2. /\ wifi.at = "idle" /\ wifi.buf = Nothing
      /\ UNCHANGED <<pool, rxq, drain, sent, dedup, rxSpent>>
  BY DEF RxPlaces, RxHands, Hear, WifiAt, WifiStep
<1>3. wifi'.at = "rules" /\ wifi'.frame = n /\ wifi'.buf = Nothing
  BY DEF Hear, RxIdle
<1>4. UNCHANGED <<Entering, Leaving, Queued>>
  BY <1>2, <1>3 DEF Entering, Leaving, Queued
<1>5. InFlight' = InFlight
  BY <1>4 DEF InFlight
<1>6. \A b \in InFlight : Number(b) \in Nat /\ Number(b) <= heard
  BY FlightParts DEF Number, RxOrder, InFlightOK
<1>7. n = heard \/ (n > heard /\ n # sent /\ \A b \in InFlight : Number(b) < n)
  BY <1>1, <1>6 DEF RxOrder
<1>8. InFlightOK'
  BY <1>1, <1>2, <1>5, <1>6, <1>7 DEF RxOrder, InFlightOK, Before, Remembered, Seq12, Number
<1>9. sent' <= heard' /\ (sent' = heard' /\ heard' > 0 /\ rxSpent'.resets = 0 => Remembered')
  BY <1>1, <1>2, <1>7 DEF RxOrder, Remembered, Seq12
<1>10. QED
  BY <1>1, <1>2, <1>3, <1>4, <1>8, <1>9 DEF RxOrder, Before, Number

LEMMA FilterOrder ==
  ASSUME RxPlaces, RxOrder, ReadRules \/ Filter \/ DropRepeat
  PROVE  RxOrder'
<1>1. /\ UNCHANGED <<pool, rxq, drain, sent, heard, dedup, rxSpent>>
      /\ wifi.at \in {"rules", "accepted"} /\ wifi.buf = Nothing /\ DOMAIN wifi = WifiFields
  BY DEF RxPlaces, RxTypeOK, RxHands, ReadRules, Filter, DropRepeat, WifiAt, WifiStep
<1>2. /\ wifi'.at = "idle" \/ wifi'.frame = wifi.frame
      /\ wifi'.at # "publish" /\ wifi'.buf = Nothing
  <2>1. \/ wifi' = RxIdle
        \/ \E r : wifi' = [wifi EXCEPT !.read = r]
        \/ wifi' = [wifi EXCEPT !.round = 2, !.read = StartRead]
        \/ wifi' = [wifi EXCEPT !.at = "accepted", !.read = NotReading]
    BY DEF ReadRules, Filter, DropRepeat
  <2>2. CASE wifi' = RxIdle
    BY <2>2, IdleHands
  <2>3. CASE \E r : wifi' = [wifi EXCEPT !.read = r]
    BY <1>1, <2>3 DEF WifiFields
  <2>4. CASE wifi' = [wifi EXCEPT !.round = 2, !.read = StartRead]
    BY <1>1, <2>4 DEF WifiFields
  <2>5. CASE wifi' = [wifi EXCEPT !.at = "accepted", !.read = NotReading]
    BY <1>1, <2>5 DEF WifiFields
  <2>6. QED
    BY <2>1, <2>2, <2>3, <2>4, <2>5
<1>3. UNCHANGED <<Entering, Leaving, Queued>>
  BY <1>1, <1>2 DEF Entering, Leaving, Queued
<1>4. QED
  BY <1>1, <1>2, <1>3, SameOrder

(* The frame is remembered, with a buffer or without. *)
LEMMA RememberOrder ==
  ASSUME RxOrder, wifi.at = "accepted", Remember(wifi.frame), heard' = heard
  PROVE  Remembered'
BY DEF RxOrder, Remember, Remembered, Seq12

LEMMA DropOrder == ASSUME RxPlaces, RxOrder, DropNoBuffer PROVE RxOrder'
<1>1. /\ UNCHANGED <<pool, rxq, drain, sent, heard, rxSpent>>
      /\ wifi.at = "accepted" /\ wifi.buf = Nothing /\ wifi'.at = "idle" /\ wifi'.buf = Nothing
  BY IdleHands DEF RxPlaces, RxHands, DropNoBuffer, WifiAt, WifiStep
<1>2. Remembered'
  BY <1>1, RememberOrder DEF DropNoBuffer
<1>3. UNCHANGED <<Entering, Leaving, Queued>>
  BY <1>1 DEF Entering, Leaving, Queued
<1>4. InFlight' = InFlight
  BY <1>3 DEF InFlight
<1>5. InFlightOK'
  BY <1>1, <1>2, <1>4 DEF RxOrder, InFlightOK, Before, Number
<1>6. QED
  BY <1>1, <1>2, <1>3, <1>5 DEF RxOrder, Before, Number

LEMMA AllocateOrder == ASSUME RxPlaces, RxOrder, Allocate PROVE RxOrder'
<1> DEFINE b == Head(pool.free)
<1>1. /\ UNCHANGED <<rxq, drain, sent, heard, rxSpent>> /\ pool.free # <<>>
      /\ wifi.at = "accepted" /\ wifi.buf = Nothing /\ DOMAIN wifi = WifiFields
      /\ pool' = [free |-> Tail(pool.free), data |-> [pool.data EXCEPT ![b] = wifi.frame]]
      /\ wifi' = [wifi EXCEPT !.at = "claim", !.buf = b]
      /\ ~Repeated(wifi.frame)
  BY DEF RxPlaces, RxTypeOK, RxHands, Allocate, WifiAt, WifiStep
<1>2. Remembered'
  BY <1>1, RememberOrder DEF Allocate
<1>3. b \in Range(pool.free) /\ b \in BUFFERS /\ b # Nothing
  <2>1. pool.free \in Seq(BUFFERS) /\ IsInjective(pool.free)
    BY DEF RxPlaces, RxTypeOK, RxBuffers
  <2>2. QED
    BY <1>1, <2>1, InjectiveTail, RadioReceiveAssumption
<1>4. wifi.frame = heard /\ heard > 0 /\ heard \in Nat /\ sent \in Nat
  BY <1>1, FlightParts DEF RxOrder
<1> HIDE DEF b
<1>5. wifi'.at = "claim" /\ wifi'.frame = heard /\ wifi'.buf = b
  BY <1>1, <1>4 DEF WifiFields
<1>6. /\ Entering' = b /\ Leaving' = Leaving /\ Queued' = Queued /\ Entering = Nothing
  BY <1>1, <1>5 DEF Entering, Leaving, Queued
<1>7. /\ pool'.data[b] = heard
      /\ \A x \in InFlight : pool'.data[x] = Number(x) /\ Number(x) \in Nat
  <2>1. pool.data \in [BUFFERS -> Nat] /\ \A x \in InFlight : x \in BUFFERS /\ x # b
    BY <1>3, FlightParts
  <2>2. pool'.data = [pool.data EXCEPT ![b] = heard]
    BY <1>1, <1>4
  <2>3. QED
    BY <1>3, <2>1, <2>2 DEF Number
<1>8. ~(dedup.valid /\ dedup.seq = Seq12(heard))
  BY <1>1, <1>4 DEF Repeated
<1>9. ASSUME NEW x \in InFlight PROVE Before(Number(x), heard)
  <2>1. /\ Number(x) <= heard
        /\ Number(x) = heard /\ rxSpent.resets = 0 => Remembered
    BY DEF RxOrder, InFlightOK
  <2>2. rxSpent.resets \in Nat
    BY DEF RxOrder
  <2>3. QED
    BY <1>4, <1>7, <1>8, <2>1, <2>2 DEF Before, Remembered
<1>10. Before(sent, heard)
  <2>1. rxSpent.resets \in Nat
    BY DEF RxOrder
  <2>2. QED
    BY <1>4, <1>8, <2>1 DEF RxOrder, Before, Remembered
<1>11. InFlight' = InFlight \cup {b}
  BY <1>3, <1>6 DEF InFlight
<1>12. InFlightOK'
  <2>1. SUFFICES ASSUME NEW x \in InFlight \cup {b}
                 PROVE  /\ x \in BUFFERS
                        /\ Before(sent, pool'.data[x]) /\ pool'.data[x] <= heard
    BY <1>1, <1>2, <1>11 DEF InFlightOK, Before, Number
  <2>2. CASE x = b
    BY <1>3, <1>4, <1>7, <1>10, <2>2
  <2>3. CASE x \in InFlight
    BY <1>7, <2>3 DEF RxOrder, InFlightOK
  <2>4. QED
    BY <2>2, <2>3
<1>13. /\ \A k \in DOMAIN Queued : Queued[k] \in InFlight
       /\ Leaving # Nothing => Leaving \in InFlight
  <2>1. \A k \in DOMAIN Queued : Queued[k] \in BUFFERS
    BY FlightParts
  <2>2. QED
    BY <2>1, RadioReceiveAssumption DEF InFlight, Range
<1>14. /\ \A j, k \in DOMAIN Queued' :
              j < k => Before(Number(Queued[j]), Number(Queued[k]))'
       /\ Leaving' # Nothing =>
              \A k \in DOMAIN Queued' : Before(Number(Leaving), Number(Queued[k]))'
  BY <1>1, <1>6, <1>7, <1>13 DEF RxOrder, Before, Number
<1>15. /\ \A k \in DOMAIN Queued' : Before(Number(Queued[k]), Number(Entering))'
       /\ Leaving' # Nothing => Before(Number(Leaving), Number(Entering))'
  BY <1>1, <1>6, <1>7, <1>9, <1>13 DEF Before, Number
<1>16. QED
  BY <1>1, <1>2, <1>4, <1>5, <1>12, <1>14, <1>15 DEF RxOrder

LEMMA ClaimStoreOrder == ASSUME RxPlaces, RxOrder, RxClaim \/ RxStore PROVE RxOrder'
<1>1. UNCHANGED <<pool, drain, sent, heard, dedup, rxSpent>> /\ DOMAIN wifi = WifiFields
  BY DEF RxPlaces, RxTypeOK, RxClaim, RxStore, WifiStep
<1>2. QueueOK(rxq, RxSlots, BUFFERS, RxHeld)
  BY DEF RxPlaces
<1>3. /\ Entering' = Entering /\ Queued' = Queued /\ wifi'.frame = wifi.frame
      /\ wifi.at # "idle"
      /\ \A i \in RxSlots : i # wifi.slot => rxq'.slots[i] = rxq.slots[i]
  <2>1. CASE RxClaim
    <3>1. /\ wifi.at = "claim" /\ CanClaim(rxq) /\ rxq' = Claim(rxq)
          /\ wifi' = [wifi EXCEPT !.at = "store", !.slot = Claimed(rxq)]
      BY <2>1 DEF RxClaim, WifiAt
    <3>2. Contents(rxq') = Contents(rxq)
      <4>1. Claim(rxq).slots = rxq.slots /\ Claim(rxq).filled = rxq.filled
        BY <1>2 DEF Claim, QueueOK
      <4>2. QED
        BY <3>1, <4>1 DEF Contents
    <3>3. rxq'.slots = rxq.slots
      BY <1>2, <3>1 DEF Claim, QueueOK
    <3>4. wifi'.at = "store" /\ wifi'.buf = wifi.buf /\ wifi'.frame = wifi.frame
      BY <1>1, <3>1 DEF WifiFields
    <3>5. QED
      BY <3>1, <3>2, <3>3, <3>4 DEF Entering, Queued
  <2>2. CASE RxStore
    <3>1. /\ wifi.at = "store" /\ rxq' = Store(rxq, wifi.slot, wifi.buf)
          /\ wifi' = [wifi EXCEPT !.at = "publish", !.buf = Nothing]
      BY <2>2 DEF RxStore, WifiAt
    <3>2. wifi.slot \in RxHeld /\ wifi.slot \in RxSlots /\ wifi.buf \in BUFFERS
      BY <3>1 DEF RxPlaces, RxTypeOK, RxHands, RxHeld
    <3>3. /\ Contents(Store(rxq, wifi.slot, wifi.buf)) = Contents(rxq)
          /\ Store(rxq, wifi.slot, wifi.buf).slots = [rxq.slots EXCEPT ![wifi.slot] = wifi.buf]
          /\ rxq.slots \in [RxSlots -> BUFFERS \cup {Nothing}]
      BY <1>2, <3>2, StoreOK, QueueParts
    <3>4. wifi'.at = "publish" /\ wifi'.slot = wifi.slot /\ wifi'.frame = wifi.frame
      BY <1>1, <3>1 DEF WifiFields
    <3>5. QED
      BY <3>1, <3>2, <3>3, <3>4 DEF Entering, Queued
  <2>3. QED
    BY <2>1, <2>2
<1>4. Leaving' = Leaving
  <2>1. drain.at = "move" => drain.slot \in RxSlots /\ drain.slot # wifi.slot
    BY DEF RxPlaces, RxTypeOK, RxHands
  <2>2. QED
    BY <1>1, <1>3, <2>1 DEF Leaving
<1>5. QED
  BY <1>1, <1>3, <1>4, SameOrder

LEMMA PublishOrder == ASSUME RxPlaces, RxOrder, RxPublish PROVE RxOrder'
<1> DEFINE c == Queued
           e == Entering
<1>1. /\ UNCHANGED <<pool, drain, sent, heard, dedup, rxSpent>>
      /\ wifi.at = "publish" /\ rxq' = Publish(rxq, wifi.slot) /\ wifi' = RxIdle
      /\ e = rxq.slots[wifi.slot]
  BY DEF RxPublish, WifiStep, WifiAt, Entering
<1>2. wifi.slot \in RxHeld /\ rxq.slots[wifi.slot] # Nothing
  BY <1>1 DEF RxPlaces, RxHands, RxHeld
<1>3. /\ rxq'.slots = rxq.slots /\ Queued' = Append(c, e)
  <2>1. QueueOK(rxq, RxSlots, BUFFERS, RxHeld)
    BY DEF RxPlaces
  <2>2. Contents(rxq') = Append(Contents(rxq), rxq.slots[wifi.slot])
    <3>1. /\ QueueOK(Publish(rxq, wifi.slot), RxSlots, BUFFERS, RxHeld \ {wifi.slot})
          /\ Contents(Publish(rxq, wifi.slot)) = Append(Contents(rxq), rxq.slots[wifi.slot])
      <4>1. QueueOK(Publish(rxq, wifi.slot), RxSlots, BUFFERS, RxHeld \ {wifi.slot})
        BY <1>2, <2>1, PublishOK
      <4>2. Contents(Publish(rxq, wifi.slot)) = Append(Contents(rxq), rxq.slots[wifi.slot])
        BY <1>2, <2>1, <4>1, PublishOK
      <4>3. QED
        BY <4>1, <4>2
    <3>2. QED
      BY <1>1, <3>1
  <2>3. rxq'.slots = rxq.slots
    BY <1>1, <2>1 DEF Publish, QueueOK
  <2>4. QED
    BY <1>1, <2>2, <2>3 DEF Queued
<1>4. Leaving' = Leaving /\ Entering' = Nothing /\ e # Nothing
  BY <1>1, <1>2, <1>3, IdleHands DEF Leaving, Entering
<1>5. c \in Seq(BUFFERS) /\ e \in BUFFERS /\ DOMAIN c = 1..Len(c) /\ Len(c) \in Nat
  BY <1>4, FlightParts
<1>6. /\ DOMAIN Queued' = 1..(Len(c) + 1) /\ Queued'[Len(c) + 1] = e
      /\ \A k \in 1..Len(c) : Queued'[k] = c[k]
  BY <1>3, <1>5
<1> HIDE DEF c, e
<1>7. InFlight' = InFlight
  <2>1. Range(Queued') = Range(c) \cup {e}
    <3>1. Len(c) + 1 \in 1..(Len(c) + 1) /\ 1..Len(c) \subseteq 1..(Len(c) + 1)
          /\ \A k \in 1..(Len(c) + 1) : k = Len(c) + 1 \/ k \in 1..Len(c)
      BY <1>5
    <3>2. QED
      BY <1>5, <1>6, <3>1 DEF Range
  <2>2. QED
    BY <1>4, <2>1 DEF InFlight, c, e
<1>8. InFlightOK'
  BY <1>1, <1>7 DEF RxOrder, InFlightOK, Before, Remembered, Seq12, Number
<1>9. /\ \A j, k \in 1..Len(c) : j < k => Before(Number(c[j]), Number(c[k]))
      /\ \A k \in 1..Len(c) : Before(Number(c[k]), Number(e))
      /\ Leaving # Nothing => \A k \in 1..Len(c) : Before(Number(Leaving), Number(c[k]))
      /\ Leaving # Nothing => Before(Number(Leaving), Number(e))
  BY <1>4, <1>5 DEF RxOrder, c, e
<1>10. /\ \A j, k \in DOMAIN Queued' :
             j < k => Before(Number(Queued[j]), Number(Queued[k]))'
  <2>1. SUFFICES ASSUME NEW j \in 1..(Len(c) + 1), NEW k \in 1..(Len(c) + 1), j < k
                 PROVE  Before(pool.data[Queued'[j]], pool.data[Queued'[k]])
    BY <1>1, <1>6 DEF Before, Number
  <2>2. j \in 1..Len(c)
    BY <1>5, <2>1
  <2>3. CASE k \in 1..Len(c)
    BY <1>6, <1>9, <2>1, <2>2, <2>3 DEF Number
  <2>4. CASE k = Len(c) + 1
    BY <1>6, <1>9, <2>2, <2>4 DEF Number
  <2>5. QED
    BY <1>5, <2>3, <2>4
<1>11. Leaving' # Nothing => \A k \in DOMAIN Queued' : Before(Number(Leaving), Number(Queued[k]))'
  <2>1. SUFFICES ASSUME Leaving # Nothing, NEW k \in 1..(Len(c) + 1)
                 PROVE  Before(pool.data[Leaving], pool.data[Queued'[k]])
    BY <1>1, <1>4, <1>6 DEF Before, Number
  <2>2. k \in 1..Len(c) \/ k = Len(c) + 1
    BY <1>5
  <2>3. QED
    BY <1>6, <1>9, <2>1, <2>2 DEF Number
<1>12. wifi'.at = "idle"
  BY <1>1, IdleHands
<1>13. QED
  BY <1>1, <1>4, <1>8, <1>10, <1>11, <1>12 DEF RxOrder, Remembered, Seq12

LEMMA TakeOrder == ASSUME RxPlaces, RxOrder, DrainTake PROVE RxOrder'
<1> DEFINE c == Queued
<1>1. /\ UNCHANGED <<pool, wifi, sent, heard, dedup, rxSpent>>
      /\ drain.at = "pop" /\ drain.buf = Nothing /\ CanTake(rxq) /\ rxq' = Take(rxq)
      /\ drain' = [DrainIdle EXCEPT !.at = "move", !.slot = Taken(rxq)]
  BY DEF RxPlaces, RxHands, DrainTake, DrainAt, DrainStep
<1>2. drain'.at = "move" /\ drain'.slot = Taken(rxq)
  BY <1>1 DEF DrainIdle
<1>3. /\ rxq'.slots = rxq.slots /\ c # <<>> /\ Queued' = Tail(c)
      /\ rxq.slots[Taken(rxq)] = Head(c)
  <2>1. QueueOK(rxq, RxSlots, BUFFERS, RxHeld) /\ CanTake(rxq)
    BY <1>1 DEF RxPlaces
  <2>2. /\ rxq.slots[Taken(rxq)] = Head(Contents(rxq))
        /\ Contents(rxq) # <<>> /\ Contents(rxq') = Tail(Contents(rxq))
    <3>1. CanTake(rxq)
      BY <1>1
    <3>2. /\ QueueOK(Take(rxq), RxSlots, BUFFERS, RxHeld \cup {Taken(rxq)})
          /\ rxq.slots[Taken(rxq)] = Head(Contents(rxq))
          /\ Contents(rxq) # <<>> /\ Contents(Take(rxq)) = Tail(Contents(rxq))
      <4>1. QueueOK(Take(rxq), RxSlots, BUFFERS, RxHeld \cup {Taken(rxq)})
        BY <2>1, <3>1, TakeOK
      <4>2. rxq.slots[Taken(rxq)] = Head(Contents(rxq)) /\ Contents(rxq) # <<>>
        BY <2>1, <3>1, <4>1, TakeOK
      <4>3. Contents(Take(rxq)) = Tail(Contents(rxq))
        BY <2>1, <3>1, <4>1, TakeOK
      <4>4. QED
        BY <4>1, <4>2, <4>3
    <3>3. QED
      BY <1>1, <3>2
  <2>3. rxq'.slots = rxq.slots
    BY <1>1, <2>1 DEF Take, QueueOK
  <2>4. QED
    BY <1>1, <2>2, <2>3 DEF Queued
<1>4. Entering' = Entering /\ Leaving' = c[1] /\ Leaving = Nothing
  <2>1. c \in Seq(BUFFERS)
    BY FlightParts
  <2>2. QED
    BY <1>1, <1>2, <1>3, <2>1 DEF Entering, Leaving
<1>5. c \in Seq(BUFFERS) /\ DOMAIN c = 1..Len(c) /\ Len(c) \in Nat \ {0}
  BY <1>3, FlightParts
<1>6. /\ DOMAIN Queued' = 1..(Len(c) - 1)
      /\ \A k \in 1..(Len(c) - 1) : Queued'[k] = c[k + 1] /\ k + 1 \in 1..Len(c)
  BY <1>3, <1>5
<1> HIDE DEF c
<1>7. 1 \in 1..Len(c) /\ c[1] \in BUFFERS
  BY <1>5
<1>8. InFlight' = InFlight
  <2>1. Range(Queued') \cup {c[1]} = Range(c)
    <3>1. ASSUME NEW x \in Range(c), x # c[1] PROVE x \in Range(Queued')
      <4>1. PICK k \in 1..Len(c) : x = c[k]
        BY <1>5, <3>1 DEF Range
      <4>2. k - 1 \in 1..(Len(c) - 1) /\ (k - 1) + 1 = k
        BY <1>5, <3>1, <4>1
      <4>3. Queued'[k - 1] = c[k]
        BY <1>6, <4>2
      <4>4. QED
        BY <1>6, <4>1, <4>2, <4>3 DEF Range
    <3>2. Range(Queued') \subseteq Range(c)
      BY <1>5, <1>6 DEF Range
    <3>3. c[1] \in Range(c)
      BY <1>5, <1>7 DEF Range
    <3>4. QED
      BY <3>1, <3>2, <3>3
  <2>2. QED
    BY <1>4, <2>1 DEF InFlight, c
<1>9. InFlightOK'
  BY <1>1, <1>8 DEF RxOrder, InFlightOK, Before, Remembered, Seq12, Number
<1>10. /\ \A j, k \in 1..Len(c) : j < k => Before(Number(c[j]), Number(c[k]))
       /\ Entering # Nothing => \A k \in 1..Len(c) : Before(Number(c[k]), Number(Entering))
  BY <1>5 DEF RxOrder, c
<1>11. /\ \A j, k \in DOMAIN Queued' : j < k => Before(Number(Queued[j]), Number(Queued[k]))'
       /\ \A k \in DOMAIN Queued' : Before(Number(Leaving), Number(Queued[k]))'
  <2>1. ASSUME NEW j \in 1..(Len(c) - 1), NEW k \in 1..(Len(c) - 1), j < k
        PROVE  Before(pool.data[Queued'[j]], pool.data[Queued'[k]])
    <3>1. j + 1 < k + 1
      BY <1>5, <2>1
    <3>2. QED
      BY <1>6, <1>10, <3>1 DEF Number
  <2>2. ASSUME NEW k \in 1..(Len(c) - 1)
        PROVE  Before(pool.data[c[1]], pool.data[Queued'[k]])
    <3>1. 1 < k + 1
      BY <1>5
    <3>2. QED
      BY <1>6, <1>7, <1>10, <3>1 DEF Number
  <2>3. QED
    BY <1>1, <1>4, <1>6, <2>1, <2>2 DEF Before, Number
<1>12. Entering' # Nothing =>
         /\ \A k \in DOMAIN Queued' : Before(Number(Queued[k]), Number(Entering))'
         /\ Before(Number(Leaving), Number(Entering))'
  BY <1>1, <1>4, <1>6, <1>7, <1>10 DEF Before, Number
<1>13. QED
  BY <1>1, <1>9, <1>11, <1>12 DEF RxOrder, Remembered, Seq12

LEMMA HandsOrder ==
  ASSUME RxPlaces, RxOrder, DrainMove \/ DrainGive \/ DrainActive \/ DrainHost
  PROVE  RxOrder'
<1>1. /\ UNCHANGED <<pool, wifi, sent, heard, dedup, rxSpent>>
      /\ drain \in [at : {"pop", "move", "give", "active", "host", "port"},
                    slot : RxSlots \cup {0}, buf : BUFFERS \cup {Nothing},
                    host : Nat, clean : BOOLEAN]
  BY DEF RxPlaces, RxTypeOK, DrainMove, DrainGive, DrainActive, DrainHost, DrainStep
<1>2. QueueOK(rxq, RxSlots, BUFFERS, RxHeld)
  BY DEF RxPlaces
<1>3. drain.at \in {"move", "give"} =>
        /\ drain.slot \in RxHeld /\ drain.slot \in RxSlots /\ drain.slot # wifi.slot
        /\ drain.at = "give" => rxq.slots[drain.slot] = Nothing
  BY <1>1 DEF RxPlaces, RxHands, RxHeld
<1>4. /\ Leaving' = Leaving /\ Queued' = Queued
      /\ \A i \in RxSlots : i # drain.slot => rxq'.slots[i] = rxq.slots[i]
  <2>1. CASE DrainMove
    <3>1. /\ drain.at = "move" /\ rxq' = MoveOut(rxq, drain.slot)
          /\ drain' = [drain EXCEPT !.at = "give", !.buf = rxq.slots[drain.slot]]
      BY <2>1 DEF DrainMove, DrainAt
    <3>2. /\ Contents(MoveOut(rxq, drain.slot)) = Contents(rxq)
          /\ MoveOut(rxq, drain.slot).slots = [rxq.slots EXCEPT ![drain.slot] = Nothing]
          /\ rxq.slots \in [RxSlots -> BUFFERS \cup {Nothing}]
      BY <1>2, <1>3, <3>1, MoveOutOK, QueueParts
    <3>3. drain'.at = "give" /\ drain'.buf = rxq.slots[drain.slot]
      BY <1>1, <3>1
    <3>4. QED
      BY <3>1, <3>2, <3>3 DEF Leaving, Queued
  <2>2. CASE DrainGive
    <3>1. /\ drain.at = "give" /\ rxq' = GiveBack(rxq, drain.slot)
          /\ drain' = [drain EXCEPT !.at = "active", !.slot = 0]
      BY <2>2 DEF DrainGive, DrainAt
    <3>2. Contents(rxq') = Contents(rxq)
      <4>1. drain.slot \in RxHeld /\ rxq.slots[drain.slot] = Nothing
        BY <1>3, <3>1
      <4>2. /\ QueueOK(GiveBack(rxq, drain.slot), RxSlots, BUFFERS, RxHeld \ {drain.slot})
            /\ Contents(GiveBack(rxq, drain.slot)) = Contents(rxq)
        BY <1>2, <4>1, GiveBackOK
      <4>3. QED
        BY <3>1, <4>2
    <3>3. rxq'.slots = rxq.slots
      BY <1>2, <3>1 DEF GiveBack, QueueOK
    <3>4. drain'.at = "active" /\ drain'.buf = drain.buf
      BY <1>1, <3>1
    <3>5. QED
      BY <3>1, <3>2, <3>3, <3>4 DEF Leaving, Queued
  <2>3. CASE DrainActive \/ DrainHost
    <3>1. /\ drain'.buf = drain.buf /\ drain'.at # "move" /\ drain.at # "move" /\ rxq' = rxq
      BY <1>1, <2>3 DEF DrainActive, DrainHost, DrainAt
    <3>2. QED
      BY <3>1 DEF Leaving, Queued
  <2>4. QED
    BY <2>1, <2>2, <2>3
<1>5. Entering' = Entering
  <2>1. wifi.at = "publish" => wifi.slot \in RxSlots /\ wifi.slot # drain.slot
    BY DEF RxPlaces, RxTypeOK, RxHands
  <2>2. QED
    BY <1>1, <1>4, <2>1 DEF Entering
<1>6. QED
  BY <1>1, <1>4, <1>5, SameOrder

LEMMA ReleaseOrder ==
  ASSUME RxPlaces, RxOrder, DrainUnset \/ DrainSend \/ DrainFail
  PROVE  RxOrder'
<1> DEFINE b == Leaving
<1>1. /\ UNCHANGED <<wifi, rxq, heard, dedup, rxSpent>>
      /\ drain.at \in {"active", "port"} /\ b = drain.buf /\ b # Nothing
      /\ drain' = DrainIdle /\ pool'.data = pool.data
      /\ sent' \in {sent, Number(b)}
  <2>1. pool \in [free : Seq(BUFFERS), data : [BUFFERS -> Nat]]
    BY DEF RxPlaces, RxTypeOK
  <2>2. drain.at \in {"active", "port"} /\ pool' = [pool EXCEPT !.free = Append(@, drain.buf)]
    BY DEF DrainUnset, DrainSend, DrainFail, DrainAt, Release
  <2>3. b = drain.buf /\ b # Nothing
    BY <2>2 DEF Leaving, RxPlaces, RxHands
  <2>4. /\ UNCHANGED <<wifi, rxq, heard, dedup, rxSpent>> /\ drain' = DrainIdle
        /\ sent' \in {sent, pool.data[drain.buf]}
    BY DEF DrainUnset, DrainSend, DrainFail, DrainStep
  <2>5. QED
    BY <2>1, <2>2, <2>3, <2>4 DEF Number
<1>2. /\ Entering' = Entering /\ Queued' = Queued /\ Leaving' = Nothing
  BY <1>1 DEF Entering, Leaving, Queued, DrainIdle
<1>3. InFlight' \subseteq InFlight /\ b \in InFlight
  BY <1>1, <1>2 DEF InFlight
<1>4. b \in BUFFERS /\ Number(b) <= heard /\ sent <= heard
      /\ (Number(b) = heard /\ rxSpent.resets = 0 => Remembered)
  BY <1>3 DEF RxOrder, InFlightOK
<1>5. ASSUME NEW x \in InFlight' PROVE x \in InFlight /\ Before(Number(b), Number(x))
  <2>1. CASE x = Entering
    BY <1>1, <1>2, <1>3, <1>5, <2>1 DEF RxOrder, InFlight
  <2>2. CASE x \in Range(Queued)
    <3>1. PICK k \in DOMAIN Queued : x = Queued[k]
      BY <2>2 DEF Range
    <3>2. QED
      BY <1>1, <1>3, <1>5, <3>1 DEF RxOrder
  <2>3. QED
    BY <1>2, <1>5, <2>1, <2>2 DEF InFlight
<1> HIDE DEF b
<1>6. InFlightOK'
  <2>1. SUFFICES ASSUME NEW x \in InFlight'
                 PROVE  /\ x \in BUFFERS
                        /\ Before(sent', Number(x)) /\ Number(x) <= heard
                        /\ Number(x) = heard /\ rxSpent.resets = 0 => Remembered
    BY <1>1 DEF InFlightOK, Before, Remembered, Seq12, Number
  <2>2. QED
    BY <1>1, <1>5 DEF RxOrder, InFlightOK
<1>7. sent' <= heard' /\ (sent' = heard' /\ heard' > 0 /\ rxSpent'.resets = 0 => Remembered')
  BY <1>1, <1>4 DEF RxOrder, Remembered, Seq12
<1>8. QED
  BY <1>1, <1>2, <1>6, <1>7 DEF RxOrder, Before, Number

(* A command may reset the filter, and is then counted. *)
LEMMA CommandOrder ==
  ASSUME RxPlaces, RxOrder,
         \/ \E d \in DESTINATIONS : SetUpstreamRx(d)
         \/ ClearUpstreamRx \/ ResetPromiscStats
         \/ \E mode \in LiveModes : SetMode(mode)
  PROVE  RxOrder'
<1>1. PICK kind \in {"set", "clear", "mode", "reset"} :
         RxCommand(kind) /\ (kind = "reset" \/ dedup' = dedup)
  BY DEF SetUpstreamRx, ClearUpstreamRx, ResetPromiscStats, SetMode
<1>2. /\ UNCHANGED <<heard, wifi, pool, rxq, sent>>
      /\ drain' = [drain EXCEPT !.clean = FALSE]
      /\ rxSpent' = [all    |-> rxSpent.all + 1,
                     clears |-> rxSpent.clears + IF kind = "clear" THEN 1 ELSE 0,
                     resets |-> rxSpent.resets + IF kind = "reset" THEN 1 ELSE 0]
  BY <1>1 DEF RxCommand
<1>3. rxSpent \in [all : Nat, clears : Nat, resets : Nat]
  BY DEF RxOrder
<1>4. /\ rxSpent' \in [all : Nat, clears : Nat, resets : Nat]
      /\ rxSpent.resets > 0 => rxSpent'.resets > 0
      /\ rxSpent'.resets = 0 => rxSpent.resets = 0 /\ dedup' = dedup
  BY <1>1, <1>2, <1>3
<1>5. drain'.at = drain.at /\ drain'.slot = drain.slot /\ drain'.buf = drain.buf
  BY <1>2 DEF RxPlaces, RxTypeOK
<1>6. UNCHANGED <<Entering, Leaving, Queued>>
  BY <1>2, <1>5 DEF Entering, Leaving, Queued
<1>7. InFlight' = InFlight
  BY <1>6 DEF InFlight
<1>8. \A m, n : Before(m, n) => Before(m, n)'
  BY <1>4 DEF Before
<1>9. Remembered /\ rxSpent'.resets = 0 => Remembered'
  BY <1>2, <1>4 DEF Remembered, Seq12
<1>10. InFlightOK'
  BY <1>2, <1>4, <1>7, <1>8, <1>9 DEF RxOrder, InFlightOK, Number, Before
<1>11. QED
  BY <1>2, <1>4, <1>6, <1>8, <1>9, <1>10 DEF RxOrder, Number, Before

LEMMA RxOrderNext == ASSUME RxPlaces, RxOrder, [Next]_vars PROVE RxOrder'
<1>1. CASE Receive
  <2>1. CASE \E n \in 1..FRAMES, mode \in LiveModes : Hear(n, mode)
    BY <2>1, HearOrder
  <2>2. CASE \/ ReadRules \/ Filter \/ DropRepeat \/ DropNoBuffer
             \/ Allocate \/ RxClaim \/ RxStore \/ RxPublish
    BY <2>2, FilterOrder, DropOrder, AllocateOrder, ClaimStoreOrder, PublishOrder
  <2>3. CASE \/ DrainTake \/ DrainMove \/ DrainGive
             \/ DrainUnset \/ DrainSend \/ DrainFail
             \/ DrainActive \/ DrainHost
    BY <2>3, TakeOrder, HandsOrder, ReleaseOrder
  <2>4. CASE \/ \E d \in DESTINATIONS : SetUpstreamRx(d)
             \/ ClearUpstreamRx \/ ResetPromiscStats
             \/ \E mode \in LiveModes : SetMode(mode)
    BY <2>4, CommandOrder
  <2>5. CASE ConsoleWrite
    <3>1. UNCHANGED <<heard, sent, wifi, pool, rxq, drain, dedup, rxSpent>>
      BY <2>5 DEF ConsoleWrite
    <3>2. QED
      BY <3>1, SameOrder DEF Entering, Leaving, Queued
  <2>6. QED
    BY <1>1, <2>1, <2>2, <2>3, <2>4, <2>5 DEF Receive, RxNext
<1>2. CASE Inject \/ UNCHANGED vars
  <2>1. UNCHANGED <<heard, sent, wifi, pool, rxq, drain, dedup, rxSpent>>
    BY <1>2 DEF Inject, vars, rxVars
  <2>2. QED
    BY <2>1, SameOrder DEF Entering, Leaving, Queued
<1>3. QED
  BY <1>1, <1>2 DEF Next

-----------------------------------------------------------------------------
(***************************************************************************)
(* DestOK is inductive.                                                    *)
(***************************************************************************)
LEMMA Destinations ==
  ASSUME NEW d \in DESTINATIONS
  PROVE  /\ d[1] \in Nat /\ d[1] # 0 /\ d[2] \in Nat /\ d[2] # 0 /\ d # None
BY RadioReceiveAssumption DEF None

LEMMA NoDestination == None[1] = 0 /\ None[2] = 0 /\ None # <<>>
BY DEF None

(* What is to be written is of the destination or of the rules. *)
LEMMA WritesApart == console \in Seq(RuleWrites) => ~Writing
<1> SUFFICES ASSUME console \in Seq(RuleWrites), Writing PROVE FALSE
  OBVIOUS
<1>1. /\ console # <<>>
      /\ \E what \in {"host", "port", "active"} : \E v : Head(console) = Dest(what, v)
  <2> DEFINE h == HostOf(asked)
             p == PortOf(asked)
             a == Active(IsSet)
  <2>1. \A x \in {h, p, a} :
           \E what \in {"host", "port", "active"} : \E v : x = Dest(what, v)
    BY DEF HostOf, PortOf, Active
  <2>2. console \in {<<h, p, a>>, <<p, a>>, <<a>>}
    BY DEF Writing
  <2> HIDE DEF h, p, a
  <2>3. console # <<>> /\ Head(console) \in {h, p, a}
    BY <2>2, HeadTail3, HeadTail2, HeadTail1
  <2>4. QED
    BY <2>1, <2>3
<1>2. Head(console) \in RuleWrites
  BY <1>1
<1>3. Head(console).what \in {"open", "close", "half"}
  BY <1>2 DEF RuleWrites, OpenWrite, CloseWrite, HalfWrite
<1>4. QED
  BY <1>1, <1>3 DEF Dest

LEMMA DestInit == ASSUME RxInit PROVE DestOK
<1>1. /\ asked = None /\ console = <<>> /\ dest = [host |-> 0, port |-> 0, active |-> FALSE]
      /\ rxSpent = [all |-> 0, clears |-> 0, resets |-> 0]
      /\ drain.at = "pop" /\ drain.clean = FALSE
  BY DEF RxInit, DrainIdle
<1>2. Wrote
  <2>1. IsSet = FALSE
    BY <1>1 DEF IsSet
  <2>2. dest.host = asked[1] /\ dest.port = asked[2]
    BY <1>1, NoDestination
  <2>3. dest.active = FALSE
    BY <1>1
  <2>4. console \in Seq(RuleWrites)
    BY <1>1
  <2>5. QED
    BY <2>1, <2>2, <2>3, <2>4 DEF Wrote
<1>3. ~Writing
  BY <1>2, WritesApart DEF Wrote
<1>4. QED
  BY <1>1, <1>2, <1>3 DEF DestOK

LEMMA DestSame ==
  ASSUME DestOK, UNCHANGED <<asked, console, dest, rxSpent>>,
         \/ UNCHANGED drain
         \/ drain'.at \notin {"host", "port"} /\ ~drain'.clean
  PROVE  DestOK'
BY DEF DestOK, Writing, Wrote, IsSet

LEMMA DrainDest ==
  ASSUME RxPlaces, DestOK,
         \/ DrainTake \/ DrainMove \/ DrainGive \/ DrainUnset
         \/ DrainActive \/ DrainHost \/ DrainSend \/ DrainFail
  PROVE  DestOK'
<1>1. UNCHANGED <<asked, console, dest, rxSpent>>
  BY DEF DrainTake, DrainMove, DrainGive, DrainUnset, DrainActive, DrainHost,
         DrainSend, DrainFail, DrainStep
<1>2. drain \in [at : {"pop", "move", "give", "active", "host", "port"},
                 slot : RxSlots \cup {0}, buf : BUFFERS \cup {Nothing},
                 host : Nat, clean : BOOLEAN]
  BY DEF RxPlaces, RxTypeOK
<1>3. CASE DrainTake \/ DrainUnset \/ DrainSend \/ DrainFail
  <2>1. \/ drain' = DrainIdle
        \/ drain' = [DrainIdle EXCEPT !.at = "move", !.slot = Taken(rxq)]
    BY <1>3 DEF DrainTake, DrainUnset, DrainSend, DrainFail
  <2>2. drain'.at \in {"move", "pop"} /\ ~drain'.clean
    <3>1. CASE drain' = DrainIdle
      BY <3>1 DEF DrainIdle
    <3>2. CASE drain' = [DrainIdle EXCEPT !.at = "move", !.slot = Taken(rxq)]
      BY <3>2 DEF DrainIdle
    <3>3. QED
      BY <2>1, <3>1, <3>2
  <2>3. QED
    BY <1>1, <2>2, DestSame
<1>4. CASE DrainMove \/ DrainGive
  <2>1. drain.at \in {"move", "give"}
    BY <1>4 DEF DrainMove, DrainGive, DrainAt
  <2>2. ~drain.clean
    BY <2>1 DEF DestOK
  <2>3. drain'.at \in {"give", "active"} /\ drain'.clean = drain.clean
    BY <1>2, <1>4 DEF DrainMove, DrainGive
  <2>4. QED
    BY <1>1, <2>2, <2>3, DestSame
<1>5. CASE DrainActive
  <2>1. /\ dest.active /\ drain' = [drain EXCEPT !.at = "host", !.clean = console = <<>>]
    BY <1>5 DEF DrainActive
  <2>2. drain'.at = "host" /\ (drain'.clean => console = <<>>)
    BY <1>2, <2>1
  <2>3. console = <<>> => IsSet
    <3>1. SUFFICES ASSUME console = <<>> PROVE IsSet
      OBVIOUS
    <3>2. Wrote
      BY <3>1 DEF DestOK, Writing
    <3>3. dest.active = IsSet
      BY <3>2 DEF Wrote
    <3>4. QED
      BY <2>1, <3>3
  <2>4. QED
    BY <1>1, <2>1, <2>2, <2>3 DEF DestOK, Writing, Wrote, IsSet
<1>6. CASE DrainHost
  <2>1. drain.at = "host" /\ drain' = [drain EXCEPT !.at = "port", !.host = dest.host]
    BY <1>6 DEF DrainHost, DrainAt
  <2>2. drain'.at = "port" /\ drain'.host = dest.host /\ drain'.clean = drain.clean
    BY <1>2, <2>1
  <2>3. QED
    BY <1>1, <2>1, <2>2 DEF DestOK, Writing, Wrote, IsSet
<1>7. QED
  BY <1>3, <1>4, <1>5, <1>6

LEMMA CommandDest ==
  ASSUME RxPlaces, DestOK,
         \/ \E d \in DESTINATIONS : SetUpstreamRx(d)
         \/ ClearUpstreamRx \/ ResetPromiscStats
         \/ \E mode \in LiveModes : SetMode(mode)
  PROVE  DestOK'
<1>1. PICK kind \in {"set", "clear", "mode", "reset"} :
         /\ RxCommand(kind)
         /\ \/ kind = "set" /\ \E d \in DESTINATIONS : asked' = d /\ console' = SetWrites(d)
            \/ kind = "clear" /\ asked' = None /\ console' = ClearWrites
            \/ kind = "reset" /\ UNCHANGED <<asked, console>>
            \/ /\ kind = "mode" /\ asked' = asked
               /\ \E mode \in LiveModes : console' = ModeWrites(mode)
  BY DEF SetUpstreamRx, ClearUpstreamRx, ResetPromiscStats, SetMode
<1>2. /\ console = <<>> /\ dest' = dest
      /\ drain' = [drain EXCEPT !.clean = FALSE]
      /\ rxSpent' = [all    |-> rxSpent.all + 1,
                     clears |-> rxSpent.clears + IF kind = "clear" THEN 1 ELSE 0,
                     resets |-> rxSpent.resets + IF kind = "reset" THEN 1 ELSE 0]
  BY <1>1 DEF RxCommand
<1>3. rxSpent \in [all : Nat, clears : Nat, resets : Nat]
  BY DEF DestOK
<1>4. /\ rxSpent' \in [all : Nat, clears : Nat, resets : Nat]
      /\ rxSpent'.clears = 0 => rxSpent.clears = 0 /\ kind # "clear"
  BY <1>2, <1>3
<1>5. drain'.at = drain.at /\ drain'.host = drain.host /\ drain'.clean = FALSE
  BY <1>2 DEF RxPlaces, RxTypeOK
<1>6. Wrote
  BY <1>2 DEF DestOK, Writing
<1>7. /\ asked' \in DESTINATIONS \cup {None} /\ (Writing \/ Wrote)'
      /\ (Writing => IsSet \/ kind = "clear")'
  <2>1. CASE kind = "set"
    <3>1. PICK d \in DESTINATIONS : asked' = d /\ console' = SetWrites(d)
      BY <1>1, <2>1
    <3>2. d # None
      BY Destinations
    <3>3. console' = <<HostOf(d), PortOf(d), Active(TRUE)>>
      BY <3>1 DEF SetWrites, HostOf, PortOf, Active
    <3>4. QED
      BY <3>1, <3>2, <3>3 DEF Writing, IsSet, HostOf, PortOf, Active, None
  <2>2. CASE kind = "clear"
    <3>1. asked' = None /\ console' = ClearWrites
      BY <1>1, <2>2
    <3>2. console' = <<HostOf(None), PortOf(None), Active(FALSE)>>
      BY <3>1, NoDestination DEF ClearWrites, HostOf, PortOf, Active
    <3>3. QED
      BY <2>2, <3>1, <3>2 DEF Writing, IsSet, HostOf, PortOf, Active, None
  <2>3. CASE kind = "reset"
    BY <1>1, <1>2, <1>6, <2>3 DEF Wrote, Writing, IsSet, DestOK
  <2>4. CASE kind = "mode"
    <3>1. PICK mode \in LiveModes : asked' = asked /\ console' = ModeWrites(mode)
      BY <1>1, <2>4
    <3>2. console' = <<OpenWrite, HalfWrite(1, mode), HalfWrite(2, mode), CloseWrite>>
      BY <3>1 DEF ModeWrites, OpenWrite, HalfWrite, CloseWrite
    <3>3. {OpenWrite, HalfWrite(1, mode), HalfWrite(2, mode), CloseWrite} \subseteq RuleWrites
      BY DEF RuleWrites
    <3>4. console' \in Seq(RuleWrites)
      BY <3>2, <3>3
    <3>5. Wrote'
      BY <1>2, <1>6, <3>1, <3>4 DEF Wrote, IsSet, RuleWrites
    <3>6. ~Writing'
      <4>1. Head(console') = OpenWrite
        BY <3>2, HeadTail4
      <4>2. /\ Head(<<HostOf(asked'), PortOf(asked'), Active(IsSet')>>) = HostOf(asked')
            /\ Head(<<PortOf(asked'), Active(IsSet')>>) = PortOf(asked')
            /\ Head(<<Active(IsSet')>>) = Active(IsSet')
        BY HeadTail3, HeadTail2, HeadTail1
      <4>3. OpenWrite \notin {HostOf(asked'), PortOf(asked'), Active(IsSet')}
        BY DEF OpenWrite, HostOf, PortOf, Active, Dest
      <4>4. QED
        BY <4>1, <4>2, <4>3 DEF Writing
    <3>7. QED
      BY <3>1, <3>5, <3>6 DEF DestOK
  <2>5. QED
    BY <2>1, <2>2, <2>3, <2>4
<1>8. QED
  BY <1>2, <1>4, <1>5, <1>7 DEF DestOK

LEMMA WriteDest == ASSUME DestOK, ConsoleWrite PROVE DestOK'
<1>1. /\ console # <<>> /\ console' = Tail(console)
      /\ UNCHANGED <<asked, drain, rxSpent>>
  BY DEF ConsoleWrite
<1>2. dest \in [host : Nat, port : Nat, active : BOOLEAN] /\ asked \in DESTINATIONS \cup {None}
  BY DEF DestOK
<1>3. asked[1] \in Nat /\ asked[2] \in Nat /\ (IsSet => asked[1] # 0 /\ asked[2] # 0)
  BY <1>2, Destinations, NoDestination DEF IsSet
<1>4. ~drain.clean
  BY <1>1 DEF DestOK
<1>5. ASSUME NEW what \in {"host", "port", "active"}, NEW value, Head(console) = Dest(what, value)
      PROVE  dest' = [dest EXCEPT ![what] = value]
  BY <1>5 DEF ConsoleWrite, Dest
<1>6. IsSet \in BOOLEAN /\ IsSet' = IsSet
  BY <1>1 DEF IsSet
<1>7. CASE console = <<HostOf(asked), PortOf(asked), Active(IsSet)>> /\ Writing
  <2>1. /\ Head(console) = Dest("host", asked[1])
        /\ console' = <<PortOf(asked), Active(IsSet)>>
    BY <1>1, <1>7, HeadTail3 DEF HostOf
  <2>2. dest' = [dest EXCEPT !.host = asked[1]]
    BY <1>5, <2>1
  <2>3. /\ dest'.host = asked[1] /\ dest'.port = dest.port /\ dest'.active = dest.active
        /\ dest' \in [host : Nat, port : Nat, active : BOOLEAN]
    BY <1>2, <1>3, <2>2
  <2>4. Writing'
    BY <1>1, <1>6, <2>1, <2>3 DEF Writing, PortOf, Active
  <2>5. QED
    BY <1>1, <1>3, <1>4, <1>6, <1>7, <2>3, <2>4 DEF DestOK
<1>8. CASE console = <<PortOf(asked), Active(IsSet)>> /\ dest.host = asked[1] /\ Writing
  <2>1. Head(console) = Dest("port", asked[2]) /\ console' = <<Active(IsSet)>>
    BY <1>1, <1>8, HeadTail2 DEF PortOf
  <2>2. dest' = [dest EXCEPT !.port = asked[2]]
    BY <1>5, <2>1
  <2>3. /\ dest'.host = dest.host /\ dest'.port = asked[2] /\ dest'.active = dest.active
        /\ dest' \in [host : Nat, port : Nat, active : BOOLEAN]
    BY <1>2, <1>3, <2>2
  <2>4. Writing'
    BY <1>1, <1>6, <1>8, <2>1, <2>3 DEF Writing, Active
  <2>5. QED
    BY <1>1, <1>3, <1>4, <1>6, <1>8, <2>3, <2>4 DEF DestOK
<1>9. CASE /\ console = <<Active(IsSet)>> /\ Writing
           /\ dest.host = asked[1] /\ dest.port = asked[2]
  <2>1. Head(console) = Dest("active", IsSet) /\ console' = <<>>
    BY <1>1, <1>9, HeadTail1 DEF Active
  <2>2. dest' = [dest EXCEPT !.active = IsSet]
    BY <1>5, <2>1
  <2>3. /\ dest'.host = asked[1] /\ dest'.port = asked[2] /\ dest'.active = IsSet
        /\ dest' \in [host : Nat, port : Nat, active : BOOLEAN]
    BY <1>2, <1>6, <1>9, <2>2
  <2>4. Wrote' /\ ~Writing'
    <3>1. console' \in Seq(RuleWrites')
      BY <2>1
    <3>2. Wrote'
      BY <1>1, <1>6, <2>3, <3>1 DEF Wrote
    <3>3. ~Writing'
      BY <2>1 DEF Writing
    <3>4. QED
      BY <3>2, <3>3
  <2>5. QED
    BY <1>1, <1>3, <1>4, <1>6, <1>9, <2>3, <2>4 DEF DestOK
<1>10. CASE Wrote
  <2>1. Head(console) \in RuleWrites /\ console' \in Seq(RuleWrites)
    BY <1>1, <1>10 DEF Wrote
  <2>2. Head(console).what \in {"open", "close", "half"}
    BY <2>1 DEF RuleWrites, OpenWrite, CloseWrite, HalfWrite
  <2>3. dest' = dest
    BY <2>2 DEF ConsoleWrite
  <2>4. Wrote'
    BY <1>1, <1>6, <1>10, <2>1, <2>3 DEF Wrote, RuleWrites
  <2>5. ~Writing'
    <3>1. (console \in Seq(RuleWrites) => ~Writing)'
      BY WritesApart, PTL
    <3>2. QED
      BY <2>1, <3>1 DEF RuleWrites
  <2>6. QED
    BY <1>1, <1>4, <1>6, <2>3, <2>4, <2>5 DEF DestOK
<1>11. QED
  BY <1>7, <1>8, <1>9, <1>10 DEF DestOK, Writing

LEMMA DestNext == ASSUME RxPlaces, DestOK, [Next]_vars PROVE DestOK'
<1>1. CASE Receive
  <2>1. CASE \/ \E n \in 1..FRAMES, mode \in LiveModes : Hear(n, mode)
             \/ ReadRules \/ Filter \/ DropRepeat \/ DropNoBuffer
             \/ Allocate \/ RxClaim \/ RxStore \/ RxPublish
    <3>1. UNCHANGED <<asked, console, dest, rxSpent, drain>>
      BY <2>1 DEF Hear, ReadRules, Filter, DropRepeat, DropNoBuffer, Allocate, RxClaim,
                  RxStore, RxPublish, WifiStep
    <3>2. QED
      BY <3>1, DestSame
  <2>2. CASE \/ DrainTake \/ DrainMove \/ DrainGive
             \/ DrainUnset \/ DrainSend \/ DrainFail
             \/ DrainActive \/ DrainHost
    BY <2>2, DrainDest
  <2>3. CASE \/ \E d \in DESTINATIONS : SetUpstreamRx(d)
             \/ ClearUpstreamRx \/ ResetPromiscStats
             \/ \E mode \in LiveModes : SetMode(mode)
    BY <2>3, CommandDest
  <2>4. CASE ConsoleWrite
    BY <2>4, WriteDest
  <2>5. QED
    BY <1>1, <2>1, <2>2, <2>3, <2>4 DEF Receive, RxNext
<1>2. CASE Inject \/ UNCHANGED vars
  <2>1. UNCHANGED <<asked, console, dest, rxSpent, drain>>
    BY <1>2 DEF Inject, vars, rxVars
  <2>2. QED
    BY <2>1, DestSame
<1>3. QED
  BY <1>1, <1>2 DEF Next

-----------------------------------------------------------------------------
(***************************************************************************)
(* What a datagram carries and where it goes.                              *)
(***************************************************************************)
LEMMA RxInvariant == Spec => []RxInv
<1>1. Init => RxInv
  BY RxPlacesInit, RxOrderInit, DestInit DEF Init, RxInv
<1>2. RxInv /\ [Next]_vars => RxInv'
  BY RxPlacesNext, RxOrderNext, DestNext DEF RxInv
<1>3. QED
  BY <1>1, <1>2, PTL DEF Spec

(* No frame is sent to the manager twice, and none after a later one:      *)
(* accept_mpdu() remembers the last frame only, and run_drain() sends what *)
(* it takes.                                                               *)
THEOREM SentInOrder == Spec => ForwardedOnce
<1>1. RxInv /\ [Next]_vars =>
        [DrainSend => \/ sent' > sent
                      \/ rxSpent.resets > 0 /\ sent' = sent]_rxVars
  <2>1. SUFFICES ASSUME RxPlaces, RxOrder, DrainSend
                 PROVE  sent' > sent \/ (rxSpent.resets > 0 /\ sent' = sent)
    BY DEF RxInv
  <2>2. Leaving = drain.buf /\ drain.buf # Nothing
    BY <2>1 DEF DrainSend, DrainAt, Leaving, RxPlaces, RxHands
  <2>3. Leaving \in InFlight
    BY <2>2 DEF InFlight
  <2>4. Before(sent, Number(Leaving)) /\ sent' = Number(Leaving)
    BY <2>1, <2>2, <2>3 DEF RxOrder, InFlightOK, DrainSend, Number
  <2>5. sent \in Nat /\ Number(Leaving) \in Nat
    BY <2>1, <2>3, FlightParts DEF Number
  <2>6. QED
    BY <2>4, <2>5 DEF Before
<1>2. QED
  BY <1>1, RxInvariant, PTL DEF Spec, ForwardedOnce

(* A datagram goes to the destination that was set, if no command was      *)
(* under way when it was looked up; to half of one only after a clear:     *)
(* the order of the stores in set_endpoint() and the loads in run_drain(). *)
THEOREM DestinationWhole == Spec => SentAsSet
<1>1. RxInv /\ [Next]_vars =>
        [DrainSend =>
          LET to == <<drain.host, dest.port>>
          IN /\ drain.clean => to = asked /\ asked # None
             /\ rxSpent.clears = 0 => 0 \notin {to[1], to[2]}]_rxVars
  <2>1. SUFFICES ASSUME DestOK, DrainSend
                 PROVE  /\ drain.clean => <<drain.host, dest.port>> = asked /\ asked # None
                        /\ rxSpent.clears = 0 => drain.host # 0 /\ dest.port # 0
    BY DEF RxInv
  <2>2. drain.at = "port"
    BY <2>1 DEF DrainSend, DrainAt
  <2>3. ASSUME drain.clean PROVE <<drain.host, dest.port>> = asked /\ asked # None
    <3>1. console = <<>> /\ IsSet /\ drain.host = dest.host
      BY <2>1, <2>2, <2>3 DEF DestOK
    <3>2. dest.host = asked[1] /\ dest.port = asked[2]
      BY <2>1, <3>1 DEF DestOK, Writing, Wrote
    <3>3. asked \in Nat \X Nat
      BY <2>1, RadioReceiveAssumption DEF DestOK, None
    <3>4. QED
      BY <3>1, <3>2, <3>3 DEF IsSet
  <2>4. QED
    BY <2>1, <2>2, <2>3 DEF DestOK
<1>2. QED
  BY <1>1, RxInvariant, PTL DEF Spec, SentAsSet

(* A frame for which there is a buffer finds a slot, for any number of *)
(* buffers: the try_push() of accept_mpdu() is never refused.          *)
THEOREM BufferFindsSlot == Spec => []RoomForBuffers
<1>1. RxInv => RoomForBuffers
  BY RoomShown DEF RxInv
<1>2. QED
  BY <1>1, RxInvariant, PTL

-----------------------------------------------------------------------------
(***************************************************************************)
(* TxPlaces is inductive.                                                  *)
(***************************************************************************)
LEMMA TxPlacesInit == ASSUME TxInit PROVE TxPlaces
<1>1. /\ live = {} /\ lwip = {}
      /\ eth = Producing /\ bench = Producing /\ inject = Producing
      /\ txPool = NewPool(BENCH_BUFFERS) /\ txq = NewQueue(TX_SLOTS)
  BY DEF TxInit
<1>2. /\ txPool \in Seq(BENCH_BUFFERS) /\ IsInjective(txPool) /\ Range(txPool) = BENCH_BUFFERS
  BY <1>1, RadioInjectAssumption, NewPoolOK
<1>3. QueueOK(txq, TxSlots, TxBufs, {}) /\ txq.slots = [i \in TxSlots |-> Nothing]
  BY <1>1, RadioInjectAssumption, NewQueueOK DEF TxSlots, NewQueue
<1>4. TxHeld = {}
  BY <1>1 DEF TxHeld, Producing
<1>5. TxTypeOK /\ TxHands /\ TxInHand
  <2>1. TxTypeOK
    BY <1>1, <1>2 DEF TxTypeOK, Producing
  <2>2. TxHands /\ TxInHand
    BY <1>1 DEF TxHands, TxInHand, Producing
  <2>3. QED
    BY <2>1, <2>2
<1>6. \A b \in TxBufs : ~TxInSlot(b)
  BY <1>3, RadioInjectAssumption DEF TxInSlot, TxBufs
<1>7. Nothing \notin BENCH_BUFFERS \cup FRAME_BUFFERS
  BY RadioInjectAssumption
<1>8. TxNoneLost
  BY <1>1, <1>2 DEF TxNoneLost
<1>9. TxApart
  BY <1>1, <1>2, <1>3, <1>6, <1>7 DEF TxApart, Producing, TxBufs
<1>10. TxFreed
  BY <1>1, <1>6, <1>7 DEF TxFreed, Producing, TxBufs
<1>11. QED
  BY <1>3, <1>4, <1>5, <1>8, <1>9, <1>10 DEF TxPlaces

(* A buffer is not a slot's nothing, and is of the heap or of the pool. *)
LEMMA TxBuffersApart ==
  /\ Nothing \notin FRAME_BUFFERS /\ Nothing \notin BENCH_BUFFERS
  /\ \A b \in FRAME_BUFFERS : b \notin BENCH_BUFFERS
BY RadioInjectAssumption

(* Where the queue and the slots in hand stay, its part of TxPlaces does. *)
LEMMA TxQueueKept ==
  ASSUME TxPlaces, TxTypeOK', UNCHANGED txq,
         UNCHANGED <<eth.slot, bench.slot, inject.slot>>,
         eth'.at = eth.at \/ {eth.at, eth'.at} \subseteq {"idle", "pass", "accept"},
         bench'.at = bench.at \/ {bench.at, bench'.at} \subseteq {"idle", "claim"},
         inject'.at = inject.at \/ {inject.at, inject'.at} \subseteq {"idle", "send"},
         eth'.buf # Nothing <=> eth'.at \in {"pass", "accept", "store"},
         bench'.buf # Nothing <=> bench'.at \in {"claim", "store"},
         inject'.buf # Nothing <=> inject'.at \in {"give", "send"},
         TxNoneLost', TxApart', TxFreed'
  PROVE  TxPlaces'
<1>1. TxHands'
  BY DEF TxPlaces, TxHands
<1>2. TxInHand'
  BY DEF TxPlaces, TxInHand
<1>3. QueueOK(txq, TxSlots, TxBufs, TxHeld)'
  BY DEF TxPlaces, TxHeld, TxSlots, TxBufs
<1>4. QED
  BY <1>1, <1>2, <1>3 DEF TxPlaces

LEMMA EthInputPlaces ==
  ASSUME TxPlaces, NEW b \in FRAME_BUFFERS, NEW kind \in KINDS,
         lwip \subseteq live, EthInput(b, kind)
  PROVE  TxPlaces'
<1>1. /\ eth.at = "idle" /\ b \notin live /\ eth.buf = Nothing
      /\ UNCHANGED <<lwip, bench, txPool, inject, txq>>
  BY DEF TxPlaces, TxHands, EthInput, EthStep
<1>2. PICK at \in {"pass", "accept"} :
        /\ eth' = [eth EXCEPT !.at = at, !.buf = b]
        /\ \/ live' = live \cup {b} /\ refused' = refused
           \/ live' = live /\ refused' = TRUE /\ at = "pass"
  BY DEF EthInput
<1>3. /\ eth'.at = at /\ eth'.buf = b /\ eth'.slot = eth.slot
      /\ eth' \in [at : {"idle", "pass", "accept", "store", "publish"},
                   buf : FRAME_BUFFERS \cup {Nothing}, slot : TxSlots \cup {0}]
  BY <1>2 DEF TxPlaces, TxTypeOK
<1>4. b # inject.buf /\ ~TxInSlot(b) /\ b \notin lwip /\ b # Nothing
      /\ b \notin BENCH_BUFFERS /\ b # bench.buf
  BY <1>1, TxBuffersApart DEF TxPlaces, TxFreed, TxTypeOK
<1>5. TxTypeOK'
  BY <1>1, <1>2, <1>3 DEF TxPlaces, TxTypeOK, TxSlots, TxBufs
<1>6. \A x : TxInSlot(x)' <=> TxInSlot(x)
  BY <1>1 DEF TxInSlot, TxSlots
<1>7. TxNoneLost'
  BY <1>1, <1>2, <1>3, <1>6, TxBuffersApart DEF TxPlaces, TxNoneLost, TxTypeOK
<1>8. TxApart'
  <2>1. \A i \in TxSlots : txq.slots[i] # b
    BY <1>4 DEF TxInSlot
  <2>2. QED
    BY <1>1, <1>3, <1>4, <1>6, <2>1 DEF TxPlaces, TxApart, TxSlots
<1>9. TxFreed'
  BY <1>1, <1>2, <1>3, <1>4, <1>6 DEF TxPlaces, TxFreed
<1>10. QED
  BY <1>1, <1>3, <1>4, <1>5, <1>7, <1>8, <1>9, TxQueueKept DEF TxPlaces, TxHands

(* The buffer is freed: by the null sink, or where the queue is full, and *)
(* then the driver's task goes on with it.                                *)
LEMMA EthFreesPlaces ==
  ASSUME TxPlaces, NullSink \/ EthRefused PROVE TxPlaces'
<1>1. /\ eth.at = "accept" /\ live' = live \ {eth.buf} /\ eth.buf \in live
      /\ UNCHANGED <<lwip, bench, txPool, inject, txq>>
      /\ \/ eth' = Producing /\ refused' = refused
         \/ eth' = [eth EXCEPT !.at = "pass"] /\ refused' = TRUE
  BY DEF TxPlaces, TxFreed, NullSink, EthRefused, EthStep
<1>2. eth.slot = 0 /\ eth.buf # Nothing /\ eth.buf \in FRAME_BUFFERS
  BY <1>1 DEF TxPlaces, TxHands, TxTypeOK
<1>3. /\ eth'.slot = 0
      /\ \/ eth'.at = "idle" /\ eth'.buf = Nothing
         \/ eth'.at = "pass" /\ eth'.buf = eth.buf /\ refused' = TRUE
      /\ refused => refused'
      /\ eth' \in [at : {"idle", "pass", "accept", "store", "publish"},
                   buf : FRAME_BUFFERS \cup {Nothing}, slot : TxSlots \cup {0}]
  <2>1. CASE eth' = Producing /\ refused' = refused
    BY <2>1 DEF Producing
  <2>2. CASE eth' = [eth EXCEPT !.at = "pass"] /\ refused' = TRUE
    BY <1>2, <2>2 DEF TxPlaces, TxTypeOK
  <2>3. QED
    BY <1>1, <2>1, <2>2
<1>4. /\ eth.buf \notin lwip /\ eth.buf # inject.buf /\ ~TxInSlot(eth.buf)
      /\ \A i \in TxSlots : txq.slots[i] # eth.buf
  BY <1>2 DEF TxPlaces, TxApart, TxInSlot
<1>5. TxTypeOK'
  BY <1>1, <1>3 DEF TxPlaces, TxTypeOK, TxSlots, TxBufs
<1>6. \A x : TxInSlot(x)' <=> TxInSlot(x)
  BY <1>1 DEF TxInSlot, TxSlots
<1>7. TxNoneLost'
  BY <1>1, <1>6 DEF TxPlaces, TxNoneLost
<1>8. TxApart'
  BY <1>1, <1>2, <1>3, <1>4, <1>6, TxBuffersApart DEF TxPlaces, TxApart, TxSlots, TxTypeOK
<1>9. TxFreed'
  BY <1>1, <1>2, <1>3, <1>4, <1>6, TxBuffersApart DEF TxPlaces, TxFreed
<1>10. QED
  BY <1>1, <1>2, <1>3, <1>5, <1>7, <1>8, <1>9, TxQueueKept DEF TxPlaces, TxHands

LEMMA PassOnPlaces == ASSUME TxPlaces, PassOn PROVE TxPlaces'
<1>1. /\ eth.at = "pass" /\ lwip' = lwip \cup {eth.buf} /\ eth' = Producing
      /\ UNCHANGED <<live, bench, txPool, txq, inject, refused>>
  BY DEF PassOn
<1>2. eth.slot = 0 /\ eth.buf # Nothing /\ eth.buf \in FRAME_BUFFERS
  BY <1>1 DEF TxPlaces, TxHands, TxTypeOK
<1>3. eth'.at = "idle" /\ eth'.buf = Nothing /\ eth'.slot = 0
  BY <1>1 DEF Producing
<1>4. /\ eth.buf # inject.buf /\ ~TxInSlot(eth.buf)
  BY <1>2 DEF TxPlaces, TxApart, TxInSlot
<1>5. TxTypeOK'
  BY <1>1, <1>2 DEF TxPlaces, TxTypeOK, TxSlots, TxBufs, Producing
<1>6. \A x : TxInSlot(x)' <=> TxInSlot(x)
  BY <1>1 DEF TxInSlot, TxSlots
<1>7. TxNoneLost'
  BY <1>1, <1>3, <1>6 DEF TxPlaces, TxNoneLost
<1>8. TxApart'
  BY <1>1, <1>2, <1>3, <1>4, <1>6, TxBuffersApart DEF TxPlaces, TxApart, TxSlots, TxTypeOK
<1>9. TxFreed'
  BY <1>1, <1>3, <1>6, TxBuffersApart DEF TxPlaces, TxFreed, TxTypeOK
<1>10. QED
  BY <1>1, <1>2, <1>3, <1>5, <1>7, <1>8, <1>9, TxQueueKept DEF TxPlaces, TxHands

LEMMA LwipFreesPlaces ==
  ASSUME TxPlaces, NEW b \in FRAME_BUFFERS, LwipFrees(b) PROVE TxPlaces'
<1>1. /\ b \in lwip /\ lwip' = lwip \ {b} /\ live' = live \ {b}
      /\ UNCHANGED <<eth, bench, txPool, txq, inject, refused>>
  BY DEF LwipFrees
<1>2. b \notin {eth.buf, inject.buf} /\ ~TxInSlot(b)
  BY <1>1 DEF TxPlaces, TxApart
<1>3. TxTypeOK'
  BY <1>1 DEF TxPlaces, TxTypeOK, TxSlots, TxBufs
<1>4. \A x : TxInSlot(x)' <=> TxInSlot(x)
  BY <1>1 DEF TxInSlot, TxSlots
<1>5. TxNoneLost'
  BY <1>1, <1>4 DEF TxPlaces, TxNoneLost
<1>6. TxApart'
  BY <1>1, <1>4 DEF TxPlaces, TxApart, TxSlots
<1>7. TxFreed'
  BY <1>1, <1>2, <1>4 DEF TxPlaces, TxFreed
<1>8. QED
  BY <1>1, <1>3, <1>5, <1>6, <1>7, TxQueueKept DEF TxPlaces, TxHands

LEMMA BenchAllocatePlaces == ASSUME TxPlaces, BenchAllocate PROVE TxPlaces'
<1> DEFINE b == Head(txPool)
<1>1. /\ bench.at = "idle" /\ txPool # <<>> /\ txPool' = Tail(txPool)
      /\ bench' = [bench EXCEPT !.at = "claim", !.buf = b]
      /\ UNCHANGED <<live, eth, lwip, inject, refused, txq>>
  BY DEF BenchAllocate, BenchStep
<1>2. txPool \in Seq(BENCH_BUFFERS) /\ IsInjective(txPool)
  BY DEF TxPlaces, TxTypeOK, TxApart
<1>3. /\ b \in Range(txPool) /\ b \in BENCH_BUFFERS
      /\ txPool' \in Seq(BENCH_BUFFERS) /\ IsInjective(txPool')
      /\ Range(txPool') = Range(txPool) \ {b}
  BY <1>1, <1>2, InjectiveTail
<1> HIDE DEF b
<1>4. bench.buf = Nothing /\ b # Nothing
  BY <1>1, <1>3, TxBuffersApart DEF TxPlaces, TxHands
<1>5. /\ bench'.at = "claim" /\ bench'.buf = b /\ bench'.slot = bench.slot
      /\ bench' \in [at : {"idle", "claim", "store", "publish"},
                     buf : BENCH_BUFFERS \cup {Nothing}, slot : TxSlots \cup {0}]
  BY <1>1, <1>3 DEF TxPlaces, TxTypeOK
<1>6. TxTypeOK'
  BY <1>1, <1>3, <1>5 DEF TxPlaces, TxTypeOK, TxSlots, TxBufs
<1>7. \A x : TxInSlot(x)' <=> TxInSlot(x)
  BY <1>1 DEF TxInSlot, TxSlots
<1>8. /\ b # inject.buf /\ ~TxInSlot(b) /\ \A i \in TxSlots : txq.slots[i] # b
  BY <1>3 DEF TxPlaces, TxApart, TxInSlot
<1>9. TxNoneLost'
  BY <1>1, <1>3, <1>4, <1>5, <1>7, TxBuffersApart DEF TxPlaces, TxNoneLost
<1>10. TxApart'
  BY <1>1, <1>3, <1>5, <1>7, <1>8 DEF TxPlaces, TxApart, TxSlots
<1>11. TxFreed'
  BY <1>1, <1>7 DEF TxPlaces, TxFreed
<1>12. QED
  BY <1>1, <1>4, <1>5, <1>6, <1>9, <1>10, <1>11, TxQueueKept DEF TxPlaces, TxHands

LEMMA TxPoolParts ==
  ASSUME TxPlaces
  PROVE  \A x \in Range(txPool) :
            /\ x \in BENCH_BUFFERS /\ x # Nothing
            /\ x # bench.buf /\ x # inject.buf /\ ~TxInSlot(x)
<1>1. txPool \in Seq(BENCH_BUFFERS)
  BY DEF TxPlaces, TxTypeOK
<1>2. Range(txPool) \subseteq BENCH_BUFFERS
  BY <1>1 DEF Range
<1>3. QED
  BY <1>2, TxBuffersApart DEF TxPlaces, TxApart

LEMMA BenchRefusedPlaces == ASSUME TxPlaces, BenchRefused PROVE TxPlaces'
<1> DEFINE b == bench.buf
<1>1. /\ bench.at = "claim" /\ txPool' = Append(txPool, b) /\ bench' = Producing
      /\ UNCHANGED <<live, eth, lwip, inject, refused, txq>>
  BY DEF BenchRefused, BenchStep
<1>2. /\ b \in BENCH_BUFFERS /\ b # Nothing /\ bench.slot = 0
      /\ txPool \in Seq(BENCH_BUFFERS) /\ IsInjective(txPool)
      /\ b \notin Range(txPool)
  BY <1>1 DEF TxPlaces, TxTypeOK, TxHands, TxApart
<1>3. /\ txPool' \in Seq(BENCH_BUFFERS) /\ IsInjective(txPool')
      /\ Range(txPool') = Range(txPool) \cup {b}
  BY <1>1, <1>2, InjectiveAppend
<1>4. bench'.at = "idle" /\ bench'.buf = Nothing /\ bench'.slot = 0
  BY <1>1 DEF Producing
<1>5. b # inject.buf /\ ~TxInSlot(b)
  BY <1>2 DEF TxPlaces, TxApart, TxInSlot
<1>6. TxTypeOK'
  BY <1>1, <1>3 DEF TxPlaces, TxTypeOK, TxSlots, TxBufs, Producing
<1>7. \A x : TxInSlot(x)' <=> TxInSlot(x)
  BY <1>1 DEF TxInSlot, TxSlots
<1> HIDE DEF b
<1>8. TxNoneLost'
  <2>1. \A x \in BENCH_BUFFERS :
          x \in Range(txPool) \cup {b, inject.buf} \/ TxInSlot(x)
    BY DEF TxPlaces, TxNoneLost, b
  <2>2. QED
    BY <1>1, <1>3, <1>7, <2>1 DEF TxPlaces, TxNoneLost
<1>9. TxApart'
  <2>1. \A x \in Range(txPool) : x # Nothing /\ x # inject.buf /\ ~TxInSlot(x)
    BY TxPoolParts
  <2>2. QED
    BY <1>1, <1>2, <1>3, <1>4, <1>5, <1>7, <2>1 DEF TxPlaces, TxApart, TxSlots
<1>10. TxFreed'
  BY <1>1, <1>7 DEF TxPlaces, TxFreed
<1>11. QED
  BY <1>1, <1>2, <1>4, <1>6, <1>8, <1>9, <1>10, TxQueueKept DEF TxPlaces, TxHands

LEMMA InjectDonePlaces == ASSUME TxPlaces, InjectDone PROVE TxPlaces'
<1> DEFINE b == inject.buf
<1>1. /\ inject.at = "send" /\ inject' = Producing
      /\ UNCHANGED <<eth, bench, lwip, refused, txq>>
      /\ \/ b \in BENCH_BUFFERS /\ txPool' = Append(txPool, b) /\ live' = live
         \/ b \in FRAME_BUFFERS /\ live' = live \ {b} /\ txPool' = txPool
  BY DEF InjectDone, InjectStep
<1>2. /\ b # Nothing /\ inject.slot = 0
      /\ txPool \in Seq(BENCH_BUFFERS) /\ IsInjective(txPool)
      /\ b \notin Range(txPool) /\ b \notin lwip
      /\ b # eth.buf /\ b # bench.buf
  BY <1>1 DEF TxPlaces, TxTypeOK, TxHands, TxApart
<1>3. /\ \/ b \in BENCH_BUFFERS /\ Range(txPool') = Range(txPool) \cup {b} /\ live' = live
         \/ b \in FRAME_BUFFERS /\ live' = live \ {b} /\ Range(txPool') = Range(txPool)
      /\ txPool' \in Seq(BENCH_BUFFERS) /\ IsInjective(txPool')
  <2>1. CASE b \in BENCH_BUFFERS /\ txPool' = Append(txPool, b) /\ live' = live
    BY <1>2, <2>1, InjectiveAppend
  <2>2. CASE b \in FRAME_BUFFERS /\ live' = live \ {b} /\ txPool' = txPool
    BY <1>2, <2>2
  <2>3. QED
    BY <1>1, <2>1, <2>2
<1>4. inject'.at = "idle" /\ inject'.buf = Nothing /\ inject'.slot = 0
  BY <1>1 DEF Producing
<1>5. ~TxInSlot(b)
  BY <1>2 DEF TxPlaces, TxApart, TxInSlot
<1>6. TxTypeOK'
  BY <1>1, <1>3 DEF TxPlaces, TxTypeOK, TxSlots, TxBufs, Producing
<1>7. \A x : TxInSlot(x)' <=> TxInSlot(x)
  BY <1>1 DEF TxInSlot, TxSlots
<1>8. /\ \A x \in BENCH_BUFFERS : x \in Range(txPool) \cup {bench.buf, b} \/ TxInSlot(x)
      /\ \A x \in live : x \in lwip \cup {eth.buf, b} \/ TxInSlot(x)
  BY DEF TxPlaces, TxNoneLost
<1>9. Nothing \notin lwip
  BY TxBuffersApart DEF TxPlaces, TxTypeOK
<1> HIDE DEF b
<1>10. TxNoneLost'
  <2>1. ASSUME NEW x \in BENCH_BUFFERS
        PROVE  x \in Range(txPool') \cup {bench.buf} \/ TxInSlot(x)
    BY <1>3, <1>8, TxBuffersApart
  <2>2. ASSUME NEW x \in live'
        PROVE  x \in lwip \cup {eth.buf} \/ TxInSlot(x)
    <3>1. x \in live /\ x # b
      BY <1>3, TxBuffersApart DEF TxPlaces, TxTypeOK
    <3>2. QED
      BY <1>8, <3>1
  <2>3. QED
    BY <1>1, <1>7, <2>1, <2>2 DEF TxNoneLost
<1>11. TxApart'
  <2>1. \A x \in Range(txPool) :
          x # Nothing /\ x # bench.buf /\ x # b /\ ~TxInSlot(x)
    BY TxPoolParts DEF b
  <2>2. QED
    BY <1>1, <1>2, <1>3, <1>4, <1>5, <1>7, <1>9, <2>1, TxBuffersApart
    DEF TxPlaces, TxApart, TxSlots, b
<1>12. TxFreed'
  BY <1>1, <1>2, <1>3, <1>4, <1>5, <1>7, TxBuffersApart DEF TxPlaces, TxFreed, b
<1>13. QED
  BY <1>1, <1>2, <1>4, <1>6, <1>10, <1>11, <1>12, TxQueueKept DEF TxPlaces, TxHands

LEMMA TxSame ==
  ASSUME TxPlaces, UNCHANGED <<live, eth, lwip, bench, txPool, txq, inject, refused>>
  PROVE  TxPlaces'
BY DEF TxPlaces, TxTypeOK, TxHands, TxInHand, TxNoneLost, TxApart, TxFreed, TxInSlot,
       TxSlots, TxBufs, TxHeld

(* A slot is claimed. *)
LEMMA EthClaimPlaces == ASSUME TxPlaces, EthClaim PROVE TxPlaces'
<1> DEFINE i == Claimed(txq)
<1>1. /\ eth.at = "accept" /\ CanClaim(txq) /\ txq' = Claim(txq)
      /\ eth' = [eth EXCEPT !.at = "store", !.slot = i]
      /\ UNCHANGED <<live, refused, lwip, bench, txPool, inject>>
  BY DEF EthClaim, EthStep
<1>2. /\ QueueOK(txq', TxSlots, TxBufs, TxHeld \cup {i})
      /\ i \in TxSlots \ TxHeld /\ txq.slots[i] = Nothing
      /\ txq'.slots = txq.slots
  BY <1>1, ClaimOK DEF TxPlaces
<1> HIDE DEF i
<1>3. /\ eth'.at = "store" /\ eth'.slot = i /\ eth'.buf = eth.buf
      /\ eth' \in [at : {"idle", "pass", "accept", "store", "publish"},
                   buf : FRAME_BUFFERS \cup {Nothing}, slot : TxSlots \cup {0}]
  BY <1>1, <1>2 DEF TxPlaces, TxTypeOK
<1>4. i # 0 /\ i # bench.slot /\ i # inject.slot
  BY <1>2 DEF TxHeld, TxSlots
<1>5. TxTypeOK'
  BY <1>1, <1>3 DEF TxPlaces, TxTypeOK, TxSlots, TxBufs
<1>6. TxHands' /\ TxInHand'
  <2>1. TxHands'
    BY <1>1, <1>3, <1>4 DEF TxPlaces, TxHands
  <2>2. TxInHand'
    BY <1>1, <1>2, <1>3 DEF TxPlaces, TxInHand
  <2>3. QED
    BY <2>1, <2>2
<1>7. \A x : TxInSlot(x)' <=> TxInSlot(x)
  BY <1>2 DEF TxInSlot, TxSlots
<1>8. TxNoneLost' /\ TxApart' /\ TxFreed'
  <2>1. TxNoneLost'
    BY <1>1, <1>3, <1>7 DEF TxPlaces, TxNoneLost
  <2>2. TxApart'
    BY <1>1, <1>2, <1>3, <1>7 DEF TxPlaces, TxApart, TxSlots
  <2>3. TxFreed'
    BY <1>1, <1>3, <1>7 DEF TxPlaces, TxFreed
  <2>4. QED
    BY <2>1, <2>2, <2>3
<1>9. TxHeld' = TxHeld \cup {i}
  <2>1. eth.slot = 0
    BY <1>1 DEF TxPlaces, TxHands
  <2>2. QED
    BY <1>1, <1>3, <1>4, <2>1 DEF TxHeld
<1>10. QED
  BY <1>2, <1>5, <1>6, <1>8, <1>9 DEF TxPlaces, TxSlots, TxBufs

LEMMA BenchClaimPlaces == ASSUME TxPlaces, BenchClaim PROVE TxPlaces'
<1> DEFINE i == Claimed(txq)
<1>1. /\ bench.at = "claim" /\ CanClaim(txq) /\ txq' = Claim(txq)
      /\ bench' = [bench EXCEPT !.at = "store", !.slot = i]
      /\ UNCHANGED <<live, refused, lwip, eth, txPool, inject>>
  BY DEF BenchClaim, BenchStep
<1>2. /\ QueueOK(txq', TxSlots, TxBufs, TxHeld \cup {i})
      /\ i \in TxSlots \ TxHeld /\ txq.slots[i] = Nothing
      /\ txq'.slots = txq.slots
  BY <1>1, ClaimOK DEF TxPlaces
<1> HIDE DEF i
<1>3. /\ bench'.at = "store" /\ bench'.slot = i /\ bench'.buf = bench.buf
      /\ bench' \in [at : {"idle", "claim", "store", "publish"},
                     buf : BENCH_BUFFERS \cup {Nothing}, slot : TxSlots \cup {0}]
  BY <1>1, <1>2 DEF TxPlaces, TxTypeOK
<1>4. i # 0 /\ i # eth.slot /\ i # inject.slot
  BY <1>2 DEF TxHeld, TxSlots
<1>5. TxTypeOK'
  BY <1>1, <1>3 DEF TxPlaces, TxTypeOK, TxSlots, TxBufs
<1>6. TxHands' /\ TxInHand'
  <2>1. TxHands'
    BY <1>1, <1>3, <1>4 DEF TxPlaces, TxHands
  <2>2. TxInHand'
    BY <1>1, <1>2, <1>3 DEF TxPlaces, TxInHand
  <2>3. QED
    BY <2>1, <2>2
<1>7. \A x : TxInSlot(x)' <=> TxInSlot(x)
  BY <1>2 DEF TxInSlot, TxSlots
<1>8. TxNoneLost' /\ TxApart' /\ TxFreed'
  <2>1. TxNoneLost'
    BY <1>1, <1>3, <1>7 DEF TxPlaces, TxNoneLost
  <2>2. TxApart'
    BY <1>1, <1>2, <1>3, <1>7 DEF TxPlaces, TxApart, TxSlots
  <2>3. TxFreed'
    BY <1>1, <1>7 DEF TxPlaces, TxFreed
  <2>4. QED
    BY <2>1, <2>2, <2>3
<1>9. TxHeld' = TxHeld \cup {i}
  <2>1. bench.slot = 0
    BY <1>1 DEF TxPlaces, TxHands
  <2>2. QED
    BY <1>1, <1>3, <1>4, <2>1 DEF TxHeld
<1>10. QED
  BY <1>2, <1>5, <1>6, <1>8, <1>9 DEF TxPlaces, TxSlots, TxBufs

LEMMA EthStorePlaces == ASSUME TxPlaces, EthStore PROVE TxPlaces'
<1> DEFINE i == eth.slot
           b == eth.buf
<1>1. /\ eth.at = "store" /\ txq' = Store(txq, i, b)
      /\ eth' = [eth EXCEPT !.at = "publish", !.buf = Nothing]
      /\ UNCHANGED <<live, refused, lwip, bench, txPool, inject>>
  BY DEF EthStore, EthStep
<1>2. /\ i \in TxHeld /\ i \in TxSlots /\ i # 0 /\ i # bench.slot /\ i # inject.slot
      /\ txq.slots[i] = Nothing
  BY <1>1 DEF TxPlaces, TxTypeOK, TxHands, TxInHand, TxHeld
<1>3. /\ b \in FRAME_BUFFERS /\ b \in TxBufs /\ b # Nothing /\ b \in live
      /\ b # bench.buf /\ b # inject.buf /\ b \notin lwip /\ b \notin Range(txPool)
      /\ \A j \in TxSlots : txq.slots[j] # b
  <2>1. b \in FRAME_BUFFERS /\ b # Nothing /\ b \in live
    BY <1>1 DEF TxPlaces, TxTypeOK, TxHands, TxFreed
  <2>2. QED
    BY <2>1, TxPoolParts, TxBuffersApart DEF TxPlaces, TxTypeOK, TxApart, TxBufs
<1>4. /\ QueueOK(txq', TxSlots, TxBufs, TxHeld)
      /\ txq'.slots = [txq.slots EXCEPT ![i] = b]
      /\ txq.slots \in [TxSlots -> TxBufs \cup {Nothing}]
  <2>1. QueueOK(txq, TxSlots, TxBufs, TxHeld)
    BY DEF TxPlaces
  <2>2. i \in TxHeld /\ b \in TxBufs \cup {Nothing}
    BY <1>2, <1>3
  <2>3. QueueOK(Store(txq, i, b), TxSlots, TxBufs, TxHeld)
    BY <2>1, <2>2, StoreOK
  <2>4. Store(txq, i, b).slots = [txq.slots EXCEPT ![i] = b]
    BY <2>1 DEF Store, QueueOK
  <2>5. QED
    BY <1>1, <2>1, <2>3, <2>4, QueueParts
<1> HIDE DEF i, b
<1>5. txq'.slots[i] = b /\ \A j \in TxSlots : j # i => txq'.slots[j] = txq.slots[j]
  BY <1>2, <1>4
<1>6. /\ eth'.at = "publish" /\ eth'.slot = i /\ eth'.buf = Nothing
      /\ eth.slot = i /\ eth.buf = b
      /\ eth' \in [at : {"idle", "pass", "accept", "store", "publish"},
                   buf : FRAME_BUFFERS \cup {Nothing}, slot : TxSlots \cup {0}]
  BY <1>1 DEF TxPlaces, TxTypeOK, i, b
<1>7. \A x : x # Nothing => (TxInSlot(x)' <=> TxInSlot(x) \/ x = b)
  BY <1>2, <1>5 DEF TxInSlot, TxSlots
<1>8. TxTypeOK'
  BY <1>1, <1>6 DEF TxPlaces, TxTypeOK, TxSlots, TxBufs
<1>9. TxHands'
  BY <1>1, <1>6 DEF TxPlaces, TxHands
<1>10. TxInHand'
  <2>1. /\ bench.at \in {"store", "publish"} => bench.slot \in TxSlots /\ bench.slot # i
        /\ inject.at \in {"move", "give"} => inject.slot \in TxSlots /\ inject.slot # i
    BY <1>2 DEF TxPlaces, TxTypeOK, TxHands
  <2>2. QED
    BY <1>1, <1>3, <1>5, <1>6, <2>1 DEF TxPlaces, TxInHand
<1>11. TxNoneLost'
  <2>1. ASSUME NEW x \in BENCH_BUFFERS
        PROVE  (x \in Range(txPool) \cup {bench.buf, inject.buf} \/ TxInSlot(x))'
    BY <1>1, <1>6, <1>7, TxBuffersApart DEF TxPlaces, TxNoneLost
  <2>2. ASSUME NEW x \in live
        PROVE  (x \in lwip \cup {eth.buf, inject.buf} \/ TxInSlot(x))'
    BY <1>1, <1>6, <1>7, TxBuffersApart DEF TxPlaces, TxNoneLost, TxTypeOK
  <2>3. QED
    BY <1>1, <2>1, <2>2 DEF TxNoneLost
<1>12. TxApart'
  <2>1. /\ \A x \in Range(txPool) : x # Nothing /\ x # inject.buf /\ x # bench.buf /\ ~TxInSlot(x)'
        /\ \A x \in lwip : x # Nothing /\ x \notin {eth.buf, inject.buf} /\ ~TxInSlot(x)'
    BY <1>3, <1>7, TxPoolParts, TxBuffersApart DEF TxPlaces, TxApart, TxTypeOK
  <2>2. /\ \A j, k \in TxSlots :
              txq'.slots[j] = txq'.slots[k] /\ txq'.slots[j] # Nothing => j = k
        /\ \A j \in TxSlots : txq'.slots[j] # Nothing =>
              txq'.slots[j] \notin {Nothing, bench.buf, inject.buf}
    BY <1>3, <1>5 DEF TxPlaces, TxApart
  <2>3. inject.buf \in {Nothing, bench.buf} => inject.buf = Nothing
    BY DEF TxPlaces, TxApart
  <2>4. QED
    BY <1>1, <1>6, <2>1, <2>2, <2>3 DEF TxPlaces, TxApart, TxSlots
<1>13. TxFreed'
  <2>1. \A x \in FRAME_BUFFERS \ live :
          x # Nothing /\ x # b /\ x # inject.buf /\ ~TxInSlot(x)
          /\ (x \in lwip \cup {eth.buf} => refused)
    BY <1>3, TxBuffersApart DEF TxPlaces, TxFreed
  <2>2. eth'.at \in {"accept", "store"} => eth'.buf \in live
    BY <1>1, <1>6 DEF TxPlaces, TxFreed
  <2>3. QED
    BY <1>1, <1>6, <1>7, <2>1, <2>2 DEF TxFreed
<1>14. TxHeld' = TxHeld
  BY <1>1, <1>6 DEF TxHeld
<1>15. QED
  BY <1>4, <1>8, <1>9, <1>10, <1>11, <1>12, <1>13, <1>14 DEF TxPlaces, TxSlots, TxBufs

LEMMA BenchStorePlaces == ASSUME TxPlaces, BenchStore PROVE TxPlaces'
<1> DEFINE i == bench.slot
           b == bench.buf
<1>1. /\ bench.at = "store" /\ txq' = Store(txq, i, b)
      /\ bench' = [bench EXCEPT !.at = "publish", !.buf = Nothing]
      /\ UNCHANGED <<live, refused, lwip, eth, txPool, inject>>
  BY DEF BenchStore, BenchStep
<1>2. /\ i \in TxHeld /\ i \in TxSlots /\ i # 0 /\ i # eth.slot /\ i # inject.slot
      /\ txq.slots[i] = Nothing
  BY <1>1 DEF TxPlaces, TxTypeOK, TxHands, TxInHand, TxHeld
<1>3. /\ b \in BENCH_BUFFERS /\ b \in TxBufs /\ b # Nothing
      /\ b # eth.buf /\ b # inject.buf /\ b \notin lwip /\ b \notin Range(txPool)
      /\ \A j \in TxSlots : txq.slots[j] # b
  <2>1. b \in BENCH_BUFFERS /\ b # Nothing
    BY <1>1 DEF TxPlaces, TxTypeOK, TxHands, TxFreed
  <2>2. QED
    BY <2>1, TxPoolParts, TxBuffersApart DEF TxPlaces, TxTypeOK, TxApart, TxBufs
<1>4. /\ QueueOK(txq', TxSlots, TxBufs, TxHeld)
      /\ txq'.slots = [txq.slots EXCEPT ![i] = b]
      /\ txq.slots \in [TxSlots -> TxBufs \cup {Nothing}]
  <2>1. QueueOK(txq, TxSlots, TxBufs, TxHeld)
    BY DEF TxPlaces
  <2>2. i \in TxHeld /\ b \in TxBufs \cup {Nothing}
    BY <1>2, <1>3
  <2>3. QueueOK(Store(txq, i, b), TxSlots, TxBufs, TxHeld)
    BY <2>1, <2>2, StoreOK
  <2>4. Store(txq, i, b).slots = [txq.slots EXCEPT ![i] = b]
    BY <2>1 DEF Store, QueueOK
  <2>5. QED
    BY <1>1, <2>1, <2>3, <2>4, QueueParts
<1> HIDE DEF i, b
<1>5. txq'.slots[i] = b /\ \A j \in TxSlots : j # i => txq'.slots[j] = txq.slots[j]
  BY <1>2, <1>4
<1>6. /\ bench'.at = "publish" /\ bench'.slot = i /\ bench'.buf = Nothing
      /\ bench.slot = i /\ bench.buf = b
      /\ bench' \in [at : {"idle", "claim", "store", "publish"},
                   buf : BENCH_BUFFERS \cup {Nothing}, slot : TxSlots \cup {0}]
  BY <1>1 DEF TxPlaces, TxTypeOK, i, b
<1>7. \A x : x # Nothing => (TxInSlot(x)' <=> TxInSlot(x) \/ x = b)
  BY <1>2, <1>5 DEF TxInSlot, TxSlots
<1>8. TxTypeOK'
  BY <1>1, <1>6 DEF TxPlaces, TxTypeOK, TxSlots, TxBufs
<1>9. TxHands'
  BY <1>1, <1>6 DEF TxPlaces, TxHands
<1>10. TxInHand'
  <2>1. /\ eth.at \in {"store", "publish"} => eth.slot \in TxSlots /\ eth.slot # i
        /\ inject.at \in {"move", "give"} => inject.slot \in TxSlots /\ inject.slot # i
    BY <1>2 DEF TxPlaces, TxTypeOK, TxHands
  <2>2. QED
    BY <1>1, <1>3, <1>5, <1>6, <2>1 DEF TxPlaces, TxInHand
<1>11. TxNoneLost'
  <2>1. ASSUME NEW x \in BENCH_BUFFERS
        PROVE  (x \in Range(txPool) \cup {bench.buf, inject.buf} \/ TxInSlot(x))'
    BY <1>1, <1>6, <1>7, TxBuffersApart DEF TxPlaces, TxNoneLost
  <2>2. ASSUME NEW x \in live
        PROVE  (x \in lwip \cup {eth.buf, inject.buf} \/ TxInSlot(x))'
    BY <1>1, <1>6, <1>7, TxBuffersApart DEF TxPlaces, TxNoneLost, TxTypeOK
  <2>3. QED
    BY <1>1, <2>1, <2>2 DEF TxNoneLost
<1>12. TxApart'
  <2>1. /\ \A x \in Range(txPool) : x # Nothing /\ x # inject.buf /\ x # bench.buf /\ ~TxInSlot(x)'
        /\ \A x \in lwip : x # Nothing /\ x \notin {eth.buf, inject.buf} /\ ~TxInSlot(x)'
    BY <1>3, <1>7, TxPoolParts, TxBuffersApart DEF TxPlaces, TxApart, TxTypeOK
  <2>2. /\ \A j, k \in TxSlots :
              txq'.slots[j] = txq'.slots[k] /\ txq'.slots[j] # Nothing => j = k
        /\ \A j \in TxSlots : txq'.slots[j] # Nothing =>
              txq'.slots[j] \notin {Nothing, eth.buf, inject.buf}
    BY <1>3, <1>5 DEF TxPlaces, TxApart
  <2>3. inject.buf \in {Nothing, eth.buf} => inject.buf = Nothing
    BY DEF TxPlaces, TxApart
  <2>4. QED
    BY <1>1, <1>6, <2>1, <2>2, <2>3 DEF TxPlaces, TxApart, TxSlots
<1>13. TxFreed'
  <2>1. \A x \in FRAME_BUFFERS \ live :
          x # Nothing /\ x # b /\ x # inject.buf /\ ~TxInSlot(x)
          /\ (x \in lwip \cup {eth.buf} => refused)
    BY <1>3, TxBuffersApart DEF TxPlaces, TxFreed
  <2>2. eth'.at \in {"accept", "store"} => eth'.buf \in live
    BY <1>1, <1>6 DEF TxPlaces, TxFreed
  <2>3. QED
    BY <1>1, <1>6, <1>7, <2>1, <2>2 DEF TxFreed
<1>14. TxHeld' = TxHeld
  BY <1>1, <1>6 DEF TxHeld
<1>15. QED
  BY <1>4, <1>8, <1>9, <1>10, <1>11, <1>12, <1>13, <1>14 DEF TxPlaces, TxSlots, TxBufs

LEMMA EthPublishPlaces == ASSUME TxPlaces, EthPublish PROVE TxPlaces'
<1> DEFINE i == eth.slot
<1>1. /\ eth.at = "publish" /\ txq' = Publish(txq, i) /\ eth' = Producing
      /\ UNCHANGED <<live, refused, lwip, bench, txPool, inject>>
  BY DEF EthPublish, EthStep
<1>2. /\ i \in TxHeld /\ i # 0 /\ i # bench.slot /\ i # inject.slot
      /\ txq.slots[i] # Nothing /\ eth.buf = Nothing
  BY <1>1 DEF TxPlaces, TxTypeOK, TxHands, TxInHand, TxHeld
<1>3. QueueOK(txq', TxSlots, TxBufs, TxHeld \ {i}) /\ txq'.slots = txq.slots
  <2>1. QueueOK(txq, TxSlots, TxBufs, TxHeld)
    BY DEF TxPlaces
  <2>2. QueueOK(Publish(txq, i), TxSlots, TxBufs, TxHeld \ {i})
    BY <1>2, <2>1, PublishOK
  <2>3. Publish(txq, i).slots = txq.slots
    BY <2>1 DEF Publish, QueueOK
  <2>4. QED
    BY <1>1, <2>2, <2>3
<1>4. eth'.at = "idle" /\ eth'.slot = 0 /\ eth'.buf = Nothing
  BY <1>1 DEF Producing
<1>5. TxTypeOK'
  BY <1>1 DEF TxPlaces, TxTypeOK, TxSlots, TxBufs, Producing
<1>6. TxHands'
  BY <1>1, <1>4 DEF TxPlaces, TxHands
<1>7. TxInHand'
  BY <1>1, <1>3, <1>4 DEF TxPlaces, TxInHand
<1>8. \A x : TxInSlot(x)' <=> TxInSlot(x)
  BY <1>3 DEF TxInSlot, TxSlots
<1>9. TxNoneLost'
  BY <1>1, <1>2, <1>4, <1>8 DEF TxPlaces, TxNoneLost
<1>10. TxApart'
  BY <1>1, <1>2, <1>3, <1>4, <1>8 DEF TxPlaces, TxApart, TxSlots
<1>11. TxFreed'
  BY <1>1, <1>2, <1>4, <1>8 DEF TxPlaces, TxFreed
<1>12. TxHeld' = TxHeld \ {i}
  BY <1>1, <1>2, <1>4 DEF TxHeld
<1>13. QED
  BY <1>3, <1>5, <1>6, <1>7, <1>9, <1>10, <1>11, <1>12 DEF TxPlaces, TxSlots, TxBufs

LEMMA BenchPublishPlaces == ASSUME TxPlaces, BenchPublish PROVE TxPlaces'
<1> DEFINE i == bench.slot
<1>1. /\ bench.at = "publish" /\ txq' = Publish(txq, i) /\ bench' = Producing
      /\ UNCHANGED <<live, refused, lwip, eth, txPool, inject>>
  BY DEF BenchPublish, BenchStep
<1>2. /\ i \in TxHeld /\ i # 0 /\ i # eth.slot /\ i # inject.slot
      /\ txq.slots[i] # Nothing /\ bench.buf = Nothing
  BY <1>1 DEF TxPlaces, TxTypeOK, TxHands, TxInHand, TxHeld
<1>3. QueueOK(txq', TxSlots, TxBufs, TxHeld \ {i}) /\ txq'.slots = txq.slots
  <2>1. QueueOK(txq, TxSlots, TxBufs, TxHeld)
    BY DEF TxPlaces
  <2>2. QueueOK(Publish(txq, i), TxSlots, TxBufs, TxHeld \ {i})
    BY <1>2, <2>1, PublishOK
  <2>3. Publish(txq, i).slots = txq.slots
    BY <2>1 DEF Publish, QueueOK
  <2>4. QED
    BY <1>1, <2>2, <2>3
<1>4. bench'.at = "idle" /\ bench'.slot = 0 /\ bench'.buf = Nothing
  BY <1>1 DEF Producing
<1>5. TxTypeOK'
  BY <1>1 DEF TxPlaces, TxTypeOK, TxSlots, TxBufs, Producing
<1>6. TxHands'
  BY <1>1, <1>4 DEF TxPlaces, TxHands
<1>7. TxInHand'
  BY <1>1, <1>3, <1>4 DEF TxPlaces, TxInHand
<1>8. \A x : TxInSlot(x)' <=> TxInSlot(x)
  BY <1>3 DEF TxInSlot, TxSlots
<1>9. TxNoneLost'
  BY <1>1, <1>2, <1>4, <1>8 DEF TxPlaces, TxNoneLost
<1>10. TxApart'
  BY <1>1, <1>2, <1>3, <1>4, <1>8 DEF TxPlaces, TxApart, TxSlots
<1>11. TxFreed'
  BY <1>1, <1>2, <1>4, <1>8 DEF TxPlaces, TxFreed
<1>12. TxHeld' = TxHeld \ {i}
  BY <1>1, <1>2, <1>4 DEF TxHeld
<1>13. QED
  BY <1>3, <1>5, <1>6, <1>7, <1>9, <1>10, <1>11, <1>12 DEF TxPlaces, TxSlots, TxBufs

LEMMA InjectTakePlaces == ASSUME TxPlaces, InjectTake PROVE TxPlaces'
<1> DEFINE i == Taken(txq)
<1>1. /\ inject.at = "idle" /\ CanTake(txq) /\ txq' = Take(txq)
      /\ inject' = [Producing EXCEPT !.at = "move", !.slot = i]
      /\ UNCHANGED <<live, refused, lwip, eth, bench, txPool>>
  BY DEF InjectTake, InjectStep
<1>2. /\ QueueOK(txq', TxSlots, TxBufs, TxHeld \cup {i})
      /\ i \in TxSlots \ TxHeld /\ txq.slots[i] # Nothing
      /\ txq'.slots = txq.slots
  <2>1. QueueOK(txq, TxSlots, TxBufs, TxHeld) /\ CanTake(txq)
    BY <1>1 DEF TxPlaces
  <2>2. QueueOK(Take(txq), TxSlots, TxBufs, TxHeld \cup {i})
    BY <2>1, TakeOK
  <2>3. i \in TxSlots \ TxHeld
    BY <2>1, <2>2, TakeOK
  <2>4. txq.slots[i] \in TxBufs
    BY <2>1, <2>2, TakeOK
  <2>5. Take(txq).slots = txq.slots
    BY <2>1 DEF Take, QueueOK
  <2>6. QED
    BY <1>1, <2>2, <2>3, <2>4, <2>5, TxBuffersApart DEF TxBufs
<1> HIDE DEF i
<1>3. /\ inject'.at = "move" /\ inject'.slot = i /\ inject'.buf = Nothing
      /\ inject' \in [at : {"idle", "move", "give", "send"},
                      buf : TxBufs \cup {Nothing}, slot : TxSlots \cup {0}]
  BY <1>1, <1>2 DEF Producing
<1>4. i # 0 /\ i # eth.slot /\ i # bench.slot /\ inject.buf = Nothing /\ inject.slot = 0
  BY <1>1, <1>2 DEF TxHeld, TxSlots, TxPlaces, TxHands
<1>5. TxTypeOK'
  BY <1>1, <1>3 DEF TxPlaces, TxTypeOK, TxSlots, TxBufs
<1>6. TxHands'
  BY <1>1, <1>3, <1>4 DEF TxPlaces, TxHands
<1>7. TxInHand'
  BY <1>1, <1>2, <1>3 DEF TxPlaces, TxInHand
<1>8. \A x : TxInSlot(x)' <=> TxInSlot(x)
  BY <1>2 DEF TxInSlot, TxSlots
<1>9. TxNoneLost'
  BY <1>1, <1>3, <1>4, <1>8 DEF TxPlaces, TxNoneLost
<1>10. TxApart'
  BY <1>1, <1>2, <1>3, <1>4, <1>8 DEF TxPlaces, TxApart, TxSlots
<1>11. TxFreed'
  BY <1>1, <1>3, <1>4, <1>8 DEF TxPlaces, TxFreed
<1>12. TxHeld' = TxHeld \cup {i}
  BY <1>1, <1>3, <1>4 DEF TxHeld
<1>13. QED
  BY <1>2, <1>5, <1>6, <1>7, <1>9, <1>10, <1>11, <1>12 DEF TxPlaces, TxSlots, TxBufs

LEMMA InjectMovePlaces == ASSUME TxPlaces, InjectMove PROVE TxPlaces'
<1> DEFINE i == inject.slot
           b == txq.slots[i]
<1>1. /\ inject.at = "move" /\ txq' = MoveOut(txq, i)
      /\ inject' = [inject EXCEPT !.at = "give", !.buf = b]
      /\ UNCHANGED <<live, refused, lwip, eth, bench, txPool>>
  BY DEF InjectMove, InjectStep
<1>2. /\ i \in TxHeld /\ i \in TxSlots /\ i # 0 /\ i # eth.slot /\ i # bench.slot
      /\ b # Nothing /\ inject.buf = Nothing
  BY <1>1 DEF TxPlaces, TxTypeOK, TxHands, TxInHand, TxHeld
<1>3. /\ QueueOK(txq', TxSlots, TxBufs, TxHeld)
      /\ txq'.slots = [txq.slots EXCEPT ![i] = Nothing]
      /\ txq.slots \in [TxSlots -> TxBufs \cup {Nothing}]
  <2>1. QueueOK(txq, TxSlots, TxBufs, TxHeld)
    BY DEF TxPlaces
  <2>2. QueueOK(MoveOut(txq, i), TxSlots, TxBufs, TxHeld)
    BY <1>2, <2>1, MoveOutOK
  <2>3. MoveOut(txq, i).slots = [txq.slots EXCEPT ![i] = Nothing]
    BY <2>1 DEF MoveOut, QueueOK
  <2>4. QED
    BY <1>1, <2>1, <2>2, <2>3, QueueParts
<1>4. b \in TxBufs
  BY <1>2, <1>3
<1>5. TxInSlot(b) /\ \A j \in TxSlots : txq.slots[j] = b => j = i
  BY <1>2 DEF TxInSlot, TxPlaces, TxApart
<1> HIDE DEF i, b
<1>6. txq'.slots[i] = Nothing /\ \A j \in TxSlots : j # i => txq'.slots[j] = txq.slots[j]
  BY <1>2, <1>3
<1>7. /\ inject'.at = "give" /\ inject'.slot = i /\ inject'.buf = b /\ inject.slot = i
      /\ inject' \in [at : {"idle", "move", "give", "send"},
                      buf : TxBufs \cup {Nothing}, slot : TxSlots \cup {0}]
  BY <1>1, <1>4 DEF TxPlaces, TxTypeOK, i
<1>8. \A x : x # Nothing => (TxInSlot(x)' <=> TxInSlot(x) /\ x # b)
  <2>1. txq.slots[i] = b
    BY DEF b
  <2>2. QED
    BY <1>2, <1>5, <1>6, <2>1 DEF TxInSlot, TxSlots
<1>9. /\ b \notin Range(txPool) /\ b \notin lwip /\ b # eth.buf /\ b # bench.buf
  <2>1. b # eth.buf /\ b # bench.buf
    BY <1>2 DEF TxPlaces, TxApart, b
  <2>2. QED
    BY <1>5, <2>1 DEF TxPlaces, TxApart
<1>10. TxTypeOK'
  BY <1>1, <1>7 DEF TxPlaces, TxTypeOK, TxSlots, TxBufs
<1>11. TxHands'
  BY <1>1, <1>2, <1>7 DEF TxPlaces, TxHands
<1>12. TxInHand'
  <2>1. /\ eth.at \in {"store", "publish"} => eth.slot \in TxSlots /\ eth.slot # i
        /\ bench.at \in {"store", "publish"} => bench.slot \in TxSlots /\ bench.slot # i
    BY <1>2 DEF TxPlaces, TxTypeOK, TxHands
  <2>2. QED
    BY <1>1, <1>6, <1>7, <2>1 DEF TxPlaces, TxInHand
<1>13. TxNoneLost'
  <2>1. ASSUME NEW x \in BENCH_BUFFERS
        PROVE  (x \in Range(txPool) \cup {bench.buf, inject.buf} \/ TxInSlot(x))'
    BY <1>1, <1>2, <1>7, <1>8, TxBuffersApart DEF TxPlaces, TxNoneLost
  <2>2. ASSUME NEW x \in live
        PROVE  (x \in lwip \cup {eth.buf, inject.buf} \/ TxInSlot(x))'
    BY <1>1, <1>2, <1>7, <1>8, TxBuffersApart DEF TxPlaces, TxNoneLost, TxTypeOK
  <2>3. QED
    BY <1>1, <2>1, <2>2 DEF TxNoneLost
<1>14. TxApart'
  <2>1. /\ \A x \in Range(txPool) : x # Nothing /\ x # b /\ x # bench.buf /\ ~TxInSlot(x)'
        /\ \A x \in lwip : x # Nothing /\ x \notin {eth.buf, b} /\ ~TxInSlot(x)'
    BY <1>8, <1>9, TxPoolParts, TxBuffersApart DEF TxPlaces, TxApart, TxTypeOK
  <2>2. /\ \A j, k \in TxSlots :
              txq'.slots[j] = txq'.slots[k] /\ txq'.slots[j] # Nothing => j = k
        /\ \A j \in TxSlots : txq'.slots[j] # Nothing =>
              txq'.slots[j] \notin {eth.buf, bench.buf, b}
    BY <1>5, <1>6 DEF TxPlaces, TxApart
  <2>3. QED
    BY <1>1, <1>7, <1>9, <2>1, <2>2 DEF TxPlaces, TxApart, TxSlots
<1>15. TxFreed'
  <2>1. \A x \in FRAME_BUFFERS \ live :
          x # Nothing /\ x # b /\ ~TxInSlot(x) /\ (x \in lwip \cup {eth.buf} => refused)
    BY <1>5, TxBuffersApart DEF TxPlaces, TxFreed
  <2>2. eth'.at \in {"accept", "store"} => eth'.buf \in live
    BY <1>1 DEF TxPlaces, TxFreed
  <2>3. QED
    BY <1>1, <1>7, <1>8, <2>1, <2>2 DEF TxFreed
<1>16. TxHeld' = TxHeld
  BY <1>1, <1>7 DEF TxHeld
<1>17. QED
  BY <1>3, <1>10, <1>11, <1>12, <1>13, <1>14, <1>15, <1>16 DEF TxPlaces, TxSlots, TxBufs

LEMMA InjectGivePlaces == ASSUME TxPlaces, InjectGive PROVE TxPlaces'
<1> DEFINE i == inject.slot
<1>1. /\ inject.at = "give" /\ txq' = GiveBack(txq, i)
      /\ inject' = [inject EXCEPT !.at = "send", !.slot = 0]
      /\ UNCHANGED <<live, refused, lwip, eth, bench, txPool>>
  BY DEF InjectGive, InjectStep
<1>2. /\ i \in TxHeld /\ i # 0 /\ i # eth.slot /\ i # bench.slot
      /\ txq.slots[i] = Nothing
  BY <1>1 DEF TxPlaces, TxTypeOK, TxHands, TxInHand, TxHeld
<1>3. QueueOK(txq', TxSlots, TxBufs, TxHeld \ {i}) /\ txq'.slots = txq.slots
  <2>1. QueueOK(txq, TxSlots, TxBufs, TxHeld)
    BY DEF TxPlaces
  <2>2. QueueOK(GiveBack(txq, i), TxSlots, TxBufs, TxHeld \ {i})
    BY <1>2, <2>1, GiveBackOK
  <2>3. GiveBack(txq, i).slots = txq.slots
    BY <2>1 DEF GiveBack, QueueOK
  <2>4. QED
    BY <1>1, <2>2, <2>3
<1>4. /\ inject'.at = "send" /\ inject'.slot = 0 /\ inject'.buf = inject.buf
      /\ inject' \in [at : {"idle", "move", "give", "send"},
                      buf : TxBufs \cup {Nothing}, slot : TxSlots \cup {0}]
  BY <1>1 DEF TxPlaces, TxTypeOK
<1>5. TxTypeOK'
  BY <1>1, <1>4 DEF TxPlaces, TxTypeOK, TxSlots, TxBufs
<1>6. TxHands'
  BY <1>1, <1>4 DEF TxPlaces, TxHands
<1>7. TxInHand'
  BY <1>1, <1>3, <1>4 DEF TxPlaces, TxInHand
<1>8. \A x : TxInSlot(x)' <=> TxInSlot(x)
  BY <1>3 DEF TxInSlot, TxSlots
<1>9. TxNoneLost'
  BY <1>1, <1>4, <1>8 DEF TxPlaces, TxNoneLost
<1>10. TxApart'
  BY <1>1, <1>3, <1>4, <1>8 DEF TxPlaces, TxApart, TxSlots
<1>11. TxFreed'
  BY <1>1, <1>4, <1>8 DEF TxPlaces, TxFreed
<1>12. TxHeld' = TxHeld \ {i}
  BY <1>1, <1>2, <1>4 DEF TxHeld
<1>13. QED
  BY <1>3, <1>5, <1>6, <1>7, <1>9, <1>10, <1>11, <1>12 DEF TxPlaces, TxSlots, TxBufs

LEMMA TxPlacesNext == ASSUME TxPlaces, [Next]_vars PROVE TxPlaces'
<1>1. CASE Inject
  <2>1. lwip \subseteq live
    BY <1>1 DEF Inject, TxNext, Undefined
  <2>2. CASE \E b \in FRAME_BUFFERS, kind \in KINDS : EthInput(b, kind)
    BY <2>1, <2>2, EthInputPlaces
  <2>3. CASE \/ NullSink \/ EthClaim \/ EthRefused \/ EthStore \/ EthPublish \/ PassOn
             \/ \E b \in FRAME_BUFFERS : LwipFrees(b)
    BY <2>3, EthFreesPlaces, EthClaimPlaces, EthStorePlaces, EthPublishPlaces,
       PassOnPlaces, LwipFreesPlaces
  <2>4. CASE BenchAllocate \/ BenchClaim \/ BenchRefused \/ BenchStore \/ BenchPublish
    BY <2>4, BenchAllocatePlaces, BenchClaimPlaces, BenchRefusedPlaces, BenchStorePlaces,
       BenchPublishPlaces
  <2>5. CASE InjectTake \/ InjectMove \/ InjectGive \/ InjectDone
    BY <2>5, InjectTakePlaces, InjectMovePlaces, InjectGivePlaces, InjectDonePlaces
  <2>6. CASE SetUpstreamTx \/ SetNullSink
    BY <2>6, TxSame DEF SetUpstreamTx, SetNullSink
  <2>7. QED
    BY <1>1, <2>2, <2>3, <2>4, <2>5, <2>6 DEF Inject, TxNext, TxStep
<1>2. CASE Receive \/ UNCHANGED vars
  BY <1>2, TxSame DEF Receive, vars, txVars
<1>3. QED
  BY <1>1, <1>2 DEF Next

LEMMA TxInvariant == Spec => []TxPlaces
<1>1. Init => TxPlaces
  BY TxPlacesInit DEF Init
<1>2. QED
  BY <1>1, TxPlacesNext, PTL DEF Spec

-----------------------------------------------------------------------------
(***************************************************************************)
(* What follows from TxPlaces.                                             *)
(***************************************************************************)
LEMMA HoldersCount ==
  ASSUME TxPlaces, NEW b \in TxBufs
  PROVE  Holders(b) = IF b \in {eth.buf, bench.buf, inject.buf} \/ TxInSlot(b) THEN 1 ELSE 0
<1> DEFINE task == [eth |-> eth, bench |-> bench, inject |-> inject]
           tasks == {t \in {"eth", "bench", "inject"} : b = task[t].buf}
           slots == {i \in DOMAIN txq.slots : txq.slots[i] = b}
<1>1. Holders(b) = Cardinality(tasks) + Cardinality(slots)
  BY DEF Holders, Quantify
<1>2. /\ b # Nothing
      /\ eth.buf = b => bench.buf # b /\ inject.buf # b
      /\ bench.buf = b => inject.buf # b
      /\ TxInSlot(b) => b \notin {eth.buf, bench.buf, inject.buf}
  BY TxBuffersApart DEF TxPlaces, TxTypeOK, TxApart, TxInSlot, TxBufs
<1>3. DOMAIN txq.slots = TxSlots
  BY QueueParts DEF TxPlaces
<1>4. slots = {} \/ \E i : slots = {i}
  <2>1. \A i, j \in slots : i = j
    BY <1>2, <1>3 DEF TxPlaces, TxApart
  <2>2. ASSUME NEW i \in slots PROVE slots = {i}
    <3>1. \A j \in slots : j = i
      BY <2>1
    <3> HIDE DEF slots
    <3>2. QED
      BY <3>1
  <2>3. QED
    BY <2>2
<1>5. TxInSlot(b) <=> slots # {}
  BY <1>3 DEF TxInSlot
<1>6. task["eth"] = eth /\ task["bench"] = bench /\ task["inject"] = inject
  OBVIOUS
<1>7. /\ "eth" \in tasks <=> b = eth.buf
      /\ "bench" \in tasks <=> b = bench.buf
      /\ "inject" \in tasks <=> b = inject.buf
      /\ tasks \subseteq {"eth", "bench", "inject"}
  BY <1>6
<1> HIDE DEF task, tasks, slots
<1>8. IF b \in {eth.buf, bench.buf, inject.buf} THEN \E t : tasks = {t} ELSE tasks = {}
  BY <1>2, <1>7
<1>9. /\ Cardinality({}) = 0
      /\ \A x : Cardinality({x}) = 1
  BY FS_EmptySet, FS_Singleton
<1>10. Cardinality(slots) = IF TxInSlot(b) THEN 1 ELSE 0
  BY <1>4, <1>5, <1>9
<1>11. Cardinality(tasks) = IF b \in {eth.buf, bench.buf, inject.buf} THEN 1 ELSE 0
  BY <1>8, <1>9
<1>12. QED
  BY <1>1, <1>2, <1>10, <1>11

LEMMA TxPlacesShown == ASSUME TxPlaces PROVE TxInOnePlace
<1> DEFINE e == Held(eth.slot)
           w == Held(bench.slot)
           t == Held(inject.slot)
           f == e \o w
<1>1. /\ eth.slot \in TxSlots \cup {0} /\ bench.slot \in TxSlots \cup {0}
      /\ inject.slot \in TxSlots \cup {0} /\ 0 \notin TxSlots
  BY DEF TxPlaces, TxTypeOK, TxSlots
<1>2. /\ e \in Seq(TxSlots) /\ IsInjective(e) /\ Range(e) = {eth.slot} \ {0}
      /\ w \in Seq(TxSlots) /\ IsInjective(w) /\ Range(w) = {bench.slot} \ {0}
      /\ t \in Seq(TxSlots) /\ IsInjective(t) /\ Range(t) = {inject.slot} \ {0}
  BY <1>1, HeldOne
<1>3. TxSlotsHeld = f \o t
  BY DEF TxSlotsHeld, Held
<1> HIDE DEF e, w, t
<1>4. /\ f \in Seq(TxSlots) /\ IsInjective(f)
      /\ Range(f) = {eth.slot, bench.slot} \ {0}
  <2>1. Range(e) \cap Range(w) = {} /\ Range(e) \cup Range(w) = {eth.slot, bench.slot} \ {0}
    BY <1>2 DEF TxPlaces, TxHands
  <2>2. QED
    BY <1>2, <2>1, InjectiveConcat
<1> HIDE DEF f
<1>5. /\ TxSlotsHeld \in Seq(TxSlots) /\ IsInjective(TxSlotsHeld)
      /\ Range(TxSlotsHeld) = TxHeld
  <2>1. /\ Range(f) \cap Range(t) = {}
        /\ Range(f) \cup Range(t) = TxHeld
    BY <1>2, <1>4 DEF TxPlaces, TxHands, TxHeld
  <2>2. /\ f \o t \in Seq(TxSlots) /\ IsInjective(f \o t)
        /\ Range(f \o t) = Range(f) \cup Range(t)
    BY <1>2, <1>4, <2>1, InjectiveConcat
  <2>3. QED
    BY <1>3, <2>1, <2>2
<1>6. SlotsInOnePlace(txq, TxSlotsHeld)
  BY <1>5, EachSlotInOnePlace DEF TxPlaces
<1>7. ASSUME NEW b \in BENCH_BUFFERS
      PROVE  Holders(b) = IF b \in Range(txPool) THEN 0 ELSE 1
  <2>1. b \in TxBufs /\ b # eth.buf
    BY TxBuffersApart DEF TxBufs, TxPlaces, TxTypeOK
  <2>2. b \in Range(txPool) <=> ~(b \in {eth.buf, bench.buf, inject.buf} \/ TxInSlot(b))
    BY <2>1, TxPoolParts DEF TxPlaces, TxNoneLost
  <2>3. QED
    BY <2>1, <2>2, HoldersCount
<1>8. QED
  BY <1>6, <1>7 DEF TxInOnePlace, TxPlaces, TxApart

LEMMA BuffersShown == ASSUME TxPlaces PROVE BuffersOwned
<1>1. live \subseteq FRAME_BUFFERS /\ lwip \subseteq FRAME_BUFFERS /\ FRAME_BUFFERS \subseteq TxBufs
  BY DEF TxPlaces, TxTypeOK, TxBufs
<1>2. NoBufferLost
  <2>1. SUFFICES ASSUME NEW b \in live, b \notin lwip PROVE Holders(b) > 0
    BY DEF NoBufferLost
  <2>2. b \in {eth.buf, inject.buf} \/ TxInSlot(b)
    BY <2>1 DEF TxPlaces, TxNoneLost
  <2>3. Holders(b) = 1
    BY <1>1, <2>2, HoldersCount
  <2>4. QED
    BY <2>3
<1>3. ASSUME ~refused PROVE BufferHasOneOwner
  <2>1. ASSUME NEW b \in live PROVE Holders(b) + (IF b \in lwip THEN 1 ELSE 0) = 1
    <3>1. Holders(b) = IF b \in {eth.buf, bench.buf, inject.buf} \/ TxInSlot(b) THEN 1 ELSE 0
      BY <1>1, HoldersCount
    <3>2. b # bench.buf
      BY <1>1, TxBuffersApart DEF TxPlaces, TxTypeOK
    <3>3. CASE b \in lwip
      <4>1. b \notin {eth.buf, inject.buf} /\ ~TxInSlot(b)
        BY <3>3 DEF TxPlaces, TxApart
      <4>2. QED
        BY <3>1, <3>2, <3>3, <4>1
    <3>4. CASE b \notin lwip
      <4>1. b \in {eth.buf, inject.buf} \/ TxInSlot(b)
        BY <3>4 DEF TxPlaces, TxNoneLost
      <4>2. QED
        BY <3>1, <3>4, <4>1
    <3>5. QED
      BY <3>3, <3>4
  <2>2. ASSUME NEW b \in FRAME_BUFFERS \ live
        PROVE  b \notin lwip \cup Range(txq.slots) \cup {inject.buf}
    <3>1. b \notin lwip /\ b # inject.buf /\ ~TxInSlot(b)
      BY <1>3 DEF TxPlaces, TxFreed
    <3>2. DOMAIN txq.slots = TxSlots
      BY QueueParts DEF TxPlaces
    <3>3. QED
      BY <3>1, <3>2 DEF TxInSlot, Range
  <2>3. QED
    BY <2>1, <2>2 DEF BufferHasOneOwner
<1>4. QED
  BY <1>2, <1>3 DEF BuffersOwned

(* Every slot and every buffer of both queues is in one place, with any    *)
(* number of them and in any order of the tasks: try_push() and pop() of   *)
(* wait_free_queue.hpp, packet_allocator.                                  *)
THEOREM OnePlaceEach == Spec => []InOnePlace
<1>1. RxInv /\ TxPlaces => InOnePlace
  BY RxPlacesShown, TxPlacesShown DEF InOnePlace, RxInv
<1>2. QED
  BY <1>1, RxInvariant, TxInvariant, PTL

(* No Ethernet buffer is lost, and, as long as every frame for the air     *)
(* could be queued, each has one owner: eth_input_cb(), accept_packet(),   *)
(* adopt_eth_frame(), run().                                               *)
THEOREM EveryBufferOwned == Spec => []BuffersOwned
<1>1. TxPlaces => BuffersOwned
  BY BuffersShown
<1>2. QED
  BY <1>1, TxInvariant, PTL

-----------------------------------------------------------------------------
(***************************************************************************)
(* The queues implement BoundedFifo.                                       *)
(***************************************************************************)
LEMMA RxQueueStep ==
  ASSUME RxPlaces, [Next]_vars PROVE QueueStep(rxq, rxq', BUFFERS, RxHeld)
<1>1. CASE Receive
  <2>1. CASE RxClaim
    BY <2>1 DEF RxClaim, QueueStep
  <2>2. CASE RxStore
    <3>1. wifi.slot \in RxHeld /\ wifi.buf \in BUFFERS /\ rxq' = Store(rxq, wifi.slot, wifi.buf)
      BY <2>2 DEF RxStore, WifiAt, RxPlaces, RxTypeOK, RxHands, RxHeld
    <3>2. QED
      BY <3>1 DEF QueueStep
  <2>3. CASE RxPublish
    <3>1. wifi.slot \in RxHeld /\ rxq.slots[wifi.slot] # Nothing /\ rxq' = Publish(rxq, wifi.slot)
      BY <2>3 DEF RxPublish, WifiAt, RxPlaces, RxHands, RxHeld
    <3>2. QED
      BY <3>1 DEF QueueStep
  <2>4. CASE DrainTake
    BY <2>4 DEF DrainTake, QueueStep
  <2>5. CASE DrainMove
    <3>1. drain.slot \in RxHeld /\ rxq' = MoveOut(rxq, drain.slot)
      BY <2>5 DEF DrainMove, DrainAt, RxPlaces, RxHands, RxHeld
    <3>2. QED
      BY <3>1 DEF QueueStep
  <2>6. CASE DrainGive
    <3>1. /\ drain.slot \in RxHeld /\ rxq.slots[drain.slot] = Nothing
          /\ rxq' = GiveBack(rxq, drain.slot)
      BY <2>6 DEF DrainGive, DrainAt, RxPlaces, RxHands, RxHeld
    <3>2. QED
      BY <3>1 DEF QueueStep
  <2>7. CASE \/ \E n \in 1..FRAMES, mode \in LiveModes : Hear(n, mode)
             \/ ReadRules \/ Filter \/ DropRepeat \/ DropNoBuffer \/ Allocate
             \/ DrainUnset \/ DrainActive \/ DrainHost \/ DrainSend \/ DrainFail
             \/ \E d \in DESTINATIONS : SetUpstreamRx(d)
             \/ ClearUpstreamRx \/ ResetPromiscStats \/ ConsoleWrite
             \/ \E mode \in LiveModes : SetMode(mode)
    <3>1. rxq' = rxq
      BY <2>7 DEF Hear, ReadRules, Filter, DropRepeat, DropNoBuffer, Allocate, DrainUnset,
                  DrainActive, DrainHost, DrainSend, DrainFail, SetUpstreamRx,
                  ClearUpstreamRx, ResetPromiscStats, ConsoleWrite, SetMode, RxCommand
    <3>2. QED
      BY <3>1 DEF QueueStep
  <2>8. QED
    BY <1>1, <2>1, <2>2, <2>3, <2>4, <2>5, <2>6, <2>7 DEF Receive, RxNext
<1>2. CASE Inject \/ UNCHANGED vars
  BY <1>2 DEF Inject, vars, rxVars, QueueStep
<1>3. QED
  BY <1>1, <1>2 DEF Next

LEMMA TxQueueStep ==
  ASSUME TxPlaces, [Next]_vars PROVE QueueStep(txq, txq', TxBufs, TxHeld)
<1>1. CASE Inject
  <2>1. CASE EthClaim \/ BenchClaim
    BY <2>1 DEF EthClaim, BenchClaim, QueueStep
  <2>2. CASE EthStore
    <3>1. eth.slot \in TxHeld /\ eth.buf \in TxBufs /\ txq' = Store(txq, eth.slot, eth.buf)
      BY <2>2 DEF EthStore, TxPlaces, TxTypeOK, TxHands, TxHeld, TxBufs
    <3>2. QED
      BY <3>1 DEF QueueStep
  <2>3. CASE BenchStore
    <3>1. /\ bench.slot \in TxHeld /\ bench.buf \in TxBufs
          /\ txq' = Store(txq, bench.slot, bench.buf)
      BY <2>3 DEF BenchStore, TxPlaces, TxTypeOK, TxHands, TxHeld, TxBufs
    <3>2. QED
      BY <3>1 DEF QueueStep
  <2>4. CASE EthPublish
    <3>1. eth.slot \in TxHeld /\ txq.slots[eth.slot] # Nothing /\ txq' = Publish(txq, eth.slot)
      BY <2>4 DEF EthPublish, TxPlaces, TxHands, TxInHand, TxHeld
    <3>2. QED
      BY <3>1 DEF QueueStep
  <2>5. CASE BenchPublish
    <3>1. /\ bench.slot \in TxHeld /\ txq.slots[bench.slot] # Nothing
          /\ txq' = Publish(txq, bench.slot)
      BY <2>5 DEF BenchPublish, TxPlaces, TxHands, TxInHand, TxHeld
    <3>2. QED
      BY <3>1 DEF QueueStep
  <2>6. CASE InjectTake
    BY <2>6 DEF InjectTake, QueueStep
  <2>7. CASE InjectMove
    <3>1. inject.slot \in TxHeld /\ txq' = MoveOut(txq, inject.slot)
      BY <2>7 DEF InjectMove, TxPlaces, TxHands, TxHeld
    <3>2. QED
      BY <3>1 DEF QueueStep
  <2>8. CASE InjectGive
    <3>1. /\ inject.slot \in TxHeld /\ txq.slots[inject.slot] = Nothing
          /\ txq' = GiveBack(txq, inject.slot)
      BY <2>8 DEF InjectGive, TxPlaces, TxHands, TxInHand, TxHeld
    <3>2. QED
      BY <3>1 DEF QueueStep
  <2>9. CASE \/ \E b \in FRAME_BUFFERS, kind \in KINDS : EthInput(b, kind)
             \/ NullSink \/ EthRefused \/ PassOn
             \/ \E b \in FRAME_BUFFERS : LwipFrees(b)
             \/ BenchAllocate \/ BenchRefused \/ InjectDone
             \/ SetUpstreamTx \/ SetNullSink
    <3>1. txq' = txq
      BY <2>9 DEF EthInput, NullSink, EthRefused, PassOn, LwipFrees, BenchAllocate,
                  BenchRefused, InjectDone, SetUpstreamTx, SetNullSink
    <3>2. QED
      BY <3>1 DEF QueueStep
  <2>10. QED
    BY <1>1, <2>1, <2>2, <2>3, <2>4, <2>5, <2>6, <2>7, <2>8, <2>9
    DEF Inject, TxNext, TxStep
<1>2. CASE Receive \/ UNCHANGED vars
  BY <1>2 DEF Receive, vars, txVars, QueueStep
<1>3. QED
  BY <1>1, <1>2 DEF Next

(* The elements of each queue leave in the order in which they entered,    *)
(* each once, and there are never more than fit: wait_free_queue.hpp, with *)
(* one producer and with two, for any capacity.                            *)
THEOREM QueuesAreFifos == Spec => FifoSpecs
<1>1. Init => RxFifo!Init /\ TxFifo!Init
  <2>1. SUFFICES ASSUME Init PROVE Contents(rxq) = <<>> /\ Contents(txq) = <<>>
    BY DEF RxFifo!Init, TxFifo!Init
  <2>2. rxq = NewQueue(CAP) /\ txq = NewQueue(TX_SLOTS) /\ CAP \in Nat /\ TX_SLOTS \in Nat
    BY <2>1, Slots, RadioInjectAssumption DEF Init, RxInit, TxInit
  <2>3. QueueOK(rxq, 1..CAP, {}, {}) /\ Contents(rxq) = <<>>
    BY <2>2, NewQueueOK
  <2>4. QueueOK(txq, 1..TX_SLOTS, {}, {}) /\ Contents(txq) = <<>>
    BY <2>2, NewQueueOK
  <2>5. QED
    BY <2>3, <2>4
<1>2. RxInv /\ [Next]_vars => [RxFifo!Next]_(Contents(rxq))
  <2>1. SUFFICES ASSUME RxPlaces, [Next]_vars, Contents(rxq)' # Contents(rxq)
                 PROVE  RxFifo!Next
    BY DEF RxInv
  <2>2. QueueOK(rxq, 1..CAP, BUFFERS, RxHeld) /\ QueueStep(rxq, rxq', BUFFERS, RxHeld)
    BY <2>1, RxQueueStep DEF RxPlaces, RxSlots
  <2>3. \/ Contents(rxq') = Contents(rxq)
        \/ Contents(rxq) # <<>> /\ Contents(rxq') = Tail(Contents(rxq))
        \/ \E e \in BUFFERS : /\ Len(Contents(rxq)) < CAP
                              /\ Contents(rxq') = Append(Contents(rxq), e)
    BY <2>2, Slots, FifoStep
  <2>4. Contents(rxq)' = Contents(rxq')
    BY DEF Contents
  <2>5. QED
    BY <2>1, <2>3, <2>4 DEF RxFifo!Next, RxFifo!Get, RxFifo!Put
<1>3. TxPlaces /\ [Next]_vars => [TxFifo!Next]_(Contents(txq))
  <2>1. SUFFICES ASSUME TxPlaces, [Next]_vars, Contents(txq)' # Contents(txq)
                 PROVE  TxFifo!Next
    OBVIOUS
  <2>2. QueueOK(txq, 1..TX_SLOTS, TxBufs, TxHeld) /\ QueueStep(txq, txq', TxBufs, TxHeld)
    BY <2>1, TxQueueStep DEF TxPlaces, TxSlots
  <2>3. \/ Contents(txq') = Contents(txq)
        \/ Contents(txq) # <<>> /\ Contents(txq') = Tail(Contents(txq))
        \/ \E e \in TxBufs : /\ Len(Contents(txq)) < TX_SLOTS
                             /\ Contents(txq') = Append(Contents(txq), e)
    <3>1. TX_SLOTS \in Nat
      BY RadioInjectAssumption
    <3>2. QED
      BY <2>2, <3>1, FifoStep
  <2>4. Contents(txq)' = Contents(txq')
    BY DEF Contents
  <2>5. QED
    BY <2>1, <2>3, <2>4 DEF TxFifo!Next, TxFifo!Get, TxFifo!Put, TxBufs
<1>4. QED
  BY <1>1, <1>2, <1>3, RxInvariant, TxInvariant, PTL
  DEF Spec, FifoSpecs, RxFifoSpec, TxFifoSpec, RxFifo!Spec, TxFifo!Spec
=============================================================================

------------------------------- MODULE BasicFec -------------------------------
(***************************************************************************)
(* The methods of rs_block_erasure (frames/basic_fec.cpp): k datagrams     *)
(* make a block, sent as n shards of which any k bring the datagrams back. *)
(* One object encodes what the local application sends and decodes what    *)
(* the peer sends.                                                         *)
(*                                                                         *)
(* A shard is the block's number, its index, k, n, and what its body was   *)
(* computed from: `rows', the k datagrams of the block (EMPTY pads a block *)
(* that was not full).  Shard i < k carries rows[i + 1] itself, the others *)
(* are linear combinations of all rows, independent of each other.  The    *)
(* Galois-field arithmetic of the library (ISA-L, external) is abstracted  *)
(* to just that: k shards of one block give back its rows, while shards of *)
(* different blocks give back something that nobody sent, GARBLED.         *)
(*                                                                         *)
(* Time: the holder of an object says how many of its oldest unfinished    *)
(* and finished blocks have outlived their hold times.                     *)
(***************************************************************************)
EXTENDS Integers, Sequences, FiniteSets, SequencesExt

CONSTANTS EMPTY,       \* a row without a datagram, length prefix 0
          GARBLED,     \* what decoding a mixture of two blocks yields
          BLOCK_MOD,   \* numbers of blocks, 65536 in the code
          BLOCK_MAX,   \* k_block_max, 64 in the code
          DONE_MAX     \* k_done_max, 128 in the code

ASSUME BasicFecAssumption ==
    /\ BLOCK_MOD \in Nat \ {0}
    /\ BLOCK_MAX \in Nat \ {0}
    /\ DONE_MAX \in Nat \ {0}
    /\ EMPTY # GARBLED

(* k = 0 means not enabled.  blocks: unfinished blocks of the peer in the  *)
(* order of their first shards.  done: finished blocks, the oldest first;  *)
(* the code keeps their numbers, `rows' is there for the assumptions about *)
(* time.  The deadline is set exactly while datagrams are pending.         *)
NoFec == [k |-> 0, n |-> 0, pending |-> <<>>, block_id |-> 0,
          blocks |-> <<>>, done |-> <<>>]

Enabled(f) == f.k > 0

(* init(): both directions start anew. *)
InitFec(k, n) == [NoFec EXCEPT !.k = k, !.n = n]

(* disable(): the number of the next block is the one thing that stays. *)
Disable(f) == [NoFec EXCEPT !.block_id = f.block_id]

-----------------------------------------------------------------------------
(* The way out.  The results are the object and the shards to send. *)

Rows(f) == [i \in 1..f.k |-> IF i <= Len(f.pending) THEN f.pending[i] ELSE EMPTY]

EncodeBlock(f) ==
    [i \in 1..f.n |-> [id |-> f.block_id, index |-> i - 1,
                       k |-> f.k, n |-> f.n, rows |-> Rows(f)]]

Flush(f) ==
    IF Enabled(f) /\ f.pending # <<>>
    THEN [fec |-> [f EXCEPT !.pending = <<>>,
                            !.block_id = (@ + 1) % BLOCK_MOD],
          out |-> EncodeBlock(f)]
    ELSE [fec |-> f, out |-> <<>>]

PushApp(f, d) ==
    LET more == [f EXCEPT !.pending = Append(@, d)]
    IN  IF Len(more.pending) >= f.k THEN Flush(more)
                                    ELSE [fec |-> more, out |-> <<>>]

-----------------------------------------------------------------------------
(* The way in. *)

DropOldest(s, n) == SubSeq(s, n + 1, Len(s))

(* expire_rx() and expire_done(): the oldest blocks have been held enough. *)
ExpireRx(f, oldBlocks, oldDone) ==
    [f EXCEPT !.blocks = DropOldest(@, oldBlocks),
              !.done   = DropOldest(@, oldDone)]

(* decode_block() *)
Row(frags, i) ==
    IF \E s \in frags : s.index = i
    THEN (CHOOSE s \in frags : s.index = i).rows[i + 1]
    ELSE IF \A s, t \in frags : s.rows = t.rows
    THEN (CHOOSE s \in frags : TRUE).rows[i + 1]
    ELSE GARBLED

(* The datagrams among rows: a row of length 0 is skipped. *)
Datagrams(rows) ==
    LET upTo[i \in 0..Len(rows)] ==
            IF i = 0 THEN <<>>
            ELSE IF rows[i] = EMPTY THEN upTo[i - 1] ELSE Append(upTo[i - 1], rows[i])
    IN  upTo[Len(rows)]

DecodeBlock(k, frags) == Datagrams([i \in 1..k |-> Row(frags, i - 1)])

(* Mutant of MarkDone: a finished block is forgotten at once. *)
MarkDoneNot(f, s) == f

MarkDone(f, s) ==
    LET all == Append(f.done, [id |-> s.id, rows |-> s.rows])
    IN  [f EXCEPT !.done = IF Len(all) > DONE_MAX THEN Tail(all) ELSE all]

(* An unfinished block more needs room: the oldest is given up. *)
Room(blocks) ==
    IF Len(blocks) < BLOCK_MAX THEN blocks ELSE Tail(blocks)

NewBlock(s) == [id |-> s.id, k |-> s.k, n |-> s.n, frags |-> {}]

IsDone(f, id)   == \E i \in DOMAIN f.done : f.done[i].id = id
IsOpen(f, id)   == \E i \in DOMAIN f.blocks : f.blocks[i].id = id
IndexOf(f, id)  == CHOOSE i \in DOMAIN f.blocks : f.blocks[i].id = id

(* Mutant of AddShard: a block is decoded only when it has a shard too many. *)
AddShardOneMore(f, i, s) ==
    LET b     == f.blocks[i]
        frags == b.frags \cup {s}
    IN  IF b.k # s.k \/ b.n # s.n \/ \E t \in b.frags : t.index = s.index
        THEN [fec |-> f, out |-> <<>>]
        ELSE IF Cardinality(frags) <= s.k
        THEN [fec |-> [f EXCEPT !.blocks[i].frags = frags], out |-> <<>>]
        ELSE [fec |-> MarkDone([f EXCEPT !.blocks = RemoveAt(@, i)], s),
              out |-> DecodeBlock(s.k, frags)]

(* One shard more for block number i of f.blocks. *)
AddShard(f, i, s) ==
    LET b     == f.blocks[i]
        frags == b.frags \cup {s}
    IN  IF b.k # s.k \/ b.n # s.n \/ \E t \in b.frags : t.index = s.index
        THEN [fec |-> f, out |-> <<>>]
        ELSE IF Cardinality(frags) < s.k
        THEN [fec |-> [f EXCEPT !.blocks[i].frags = frags], out |-> <<>>]
        ELSE [fec |-> MarkDone([f EXCEPT !.blocks = RemoveAt(@, i)], s),
              out |-> DecodeBlock(s.k, frags)]

(* push_air() of a shard, after expire_rx(). *)
PushAir(f, s) ==
    IF IsDone(f, s.id)
    THEN [fec |-> f, out |-> <<>>]
    ELSE IF IsOpen(f, s.id)
    THEN AddShard(f, IndexOf(f, s.id), s)
    ELSE LET g == [f EXCEPT !.blocks = Append(Room(@), NewBlock(s))]
         IN  AddShard(g, Len(g.blocks), s)
===============================================================================

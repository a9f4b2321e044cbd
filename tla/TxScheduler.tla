----------------------------- MODULE TxScheduler -----------------------------
(***************************************************************************)
(* How the manager packs what its streams have to send into MPDUs, within  *)
(* its limits: tx_scheduler::tick() and emit_mpdu().  A stream is either   *)
(* UDP, with a queue whose head is copied into the MPDU (peek_tx) and      *)
(* removed only after the radio's socket took it (commit_tx), or TCP,      *)
(* where pull_tx() hands over an ACK or a segment for good.                *)
(*                                                                         *)
(* PDUs are counted, not told apart: all data PDUs of the instance have    *)
(* one length.  Their contents and numbers are in UdpLink and TcpStream.   *)
(*                                                                         *)
(* The manager is one reactor thread.  Its handlers do not interleave, but *)
(* a pass of tick() sends many MPDUs, each of which the radio's socket may *)
(* refuse: every emit_mpdu() that packs something is a step, the calls     *)
(* that pack nothing change nothing and are none.                          *)
(***************************************************************************)
EXTENDS Integers, Sequences, FiniteSets, SequencesExt

CONSTANTS STREAMS,        \* number of streams
          UDP,            \* those that are UDP; the others are TCP
          SLOTS_MAX,      \* WIFI_PDU_SLOTS, 5 in the code
          PAYLOAD_MAX,    \* k_wifi_payload_max, 1476 in the code
          SEQ_LEN,        \* k_air_seq_len, 2 in the code
          ACK_SIZE,       \* an ACK or control frame of tcp_stream
          DATA_SIZE,      \* any other PDU
          BUDGETS,        \* values of scheduler_budget,
          MAX_DATA,       \*   max_data_per_tick
          BURST_SIZES,    \*   and tx_burst_size the console may set
          REFILLS,        \* what refill() adds, by the time that went by
          QUEUE_MAX,      \* bound: data PDUs that wait, per stream
          ACKS_MAX        \* bound: ACKs that wait, per stream

Stream == 0..(STREAMS - 1)

ASSUME TxSchedulerAssumption ==
    /\ STREAMS \in Nat \ {0}
    /\ UDP \subseteq Stream
    /\ SLOTS_MAX \in Nat \ {0}
    /\ SEQ_LEN \in Nat /\ PAYLOAD_MAX \in Nat /\ PAYLOAD_MAX > SEQ_LEN
    /\ {ACK_SIZE, DATA_SIZE} \subseteq 1..(PAYLOAD_MAX - SEQ_LEN)
    /\ BUDGETS \subseteq Nat \ {0}
    /\ MAX_DATA \subseteq 1..32
    /\ BURST_SIZES \subseteq 1..20
    /\ REFILLS \subseteq Nat
    /\ {QUEUE_MAX, ACKS_MAX} \subseteq Nat

VARIABLES streams,    \* what waits in each endpoint: [data, acks]
          tokens,     \* what may be sent now, in bytes
          burst,      \* burst_data_sent_, and whether the gate is cooling down
          next,       \* where the next data round begins
          pass,       \* the pass of tick() under way
          limits      \* each slot's budget, max_data_per_tick_, tx_burst_size_

vars == <<streams, tokens, burst, next, pass, limits>>

STREAM_PAYLOAD_MAX == PAYLOAD_MAX - SEQ_LEN
BURST == 2 * PAYLOAD_MAX

AtMost(x, y) == IF x < y THEN x ELSE y
Less(x, y)   == IF y < x THEN x - y ELSE 0

(* What the configuration and the console may set. *)
Limits == [budget : [Stream -> BUDGETS], data : MAX_DATA, burst : BURST_SIZES]

NoPass == [at |-> "idle"]
Idle   == pass.at = "idle"

Init ==
    /\ streams = [i \in Stream |-> [data |-> 0, acks |-> 0]]
    /\ tokens = BURST
    /\ burst = [sent |-> 0, cooling |-> FALSE]
    /\ next = 0
    /\ pass = NoPass
    /\ limits \in Limits

HasAck(s) == s.acks > 0
HasTx(s)  == HasAck(s) \/ s.data > 0

-----------------------------------------------------------------------------
(* The MPDU being packed: [streams, tokens, remain, body, pdus].  remain   *)
(* is what is left of each stream's budget in this pass, body the bytes    *)
(* packed, pdus what was packed: the stream and whether it is an ACK.      *)

(* Mutant of Limit: the rest of the budget is never looked at. *)
LimitIgnoresBudget(m, i, acksOnly) ==
    LET room == PAYLOAD_MAX - m.body - SEQ_LEN
    IN  IF acksOnly THEN AtMost(room, STREAM_PAYLOAD_MAX)
        ELSE AtMost(AtMost(STREAM_PAYLOAD_MAX, m.tokens), room)

(* How many bytes try_pull() lets a stream have.  A whole budget does not  *)
(* limit: the first PDU of a pass may be longer than it.                   *)
Limit(m, i, acksOnly) ==
    LET room  == PAYLOAD_MAX - m.body - SEQ_LEN
        first == m.remain[i] = limits.budget[i]
    IN  IF acksOnly THEN AtMost(room, STREAM_PAYLOAD_MAX)
        ELSE IF first THEN AtMost(AtMost(STREAM_PAYLOAD_MAX, m.tokens), room)
        ELSE AtMost(AtMost(m.remain[i], m.tokens), room)

Size(ack) == IF ack THEN ACK_SIZE ELSE DATA_SIZE

(* try_pull(i): the stream's next PDU, an ACK before data, is numbered and *)
(* packed if it fits.  A UDP queue is only copied from.                    *)
TryPull(m, i, acksOnly) ==
    LET s      == m.streams[i]
        ack    == HasAck(s)
        framed == Size(ack) + SEQ_LEN
        after  == IF ack THEN [s EXCEPT !.acks = @ - 1]
                  ELSE IF i \in UDP THEN s
                  ELSE [s EXCEPT !.data = @ - 1]
        packed == [m EXCEPT !.streams[i] = after,
                            !.body = @ + framed,
                            !.pdus = Append(@, [stream |-> i, ack |-> ack])]
    IN  IF \/ Len(m.pdus) = SLOTS_MAX
           \/ ~(IF acksOnly THEN HasAck(s) ELSE HasTx(s))
           \/ Size(ack) > Limit(m, i, acksOnly)
        THEN m
        ELSE IF ack THEN packed
        ELSE [packed EXCEPT !.tokens    = Less(@, framed),
                            !.remain[i] = Less(@, framed)]

(* The MPDU when the streams after the primary one have been asked too. *)
AskOthers(start, primary, acksOnly) ==
    LET packed[step \in 0..(STREAMS - 1)] ==
            IF step = 0 THEN start
            ELSE TryPull(packed[step - 1], (primary + step) % STREAMS, acksOnly)
    IN  packed[STREAMS - 1]

(* emit_mpdu() without the send: every stream is asked once, the primary   *)
(* one first; without a PDU of the primary there is no MPDU.               *)
Pack(primary, acksOnly) ==
    LET start == TryPull([streams |-> streams, tokens |-> tokens,
                          remain |-> pass.remain, body |-> 0, pdus |-> <<>>],
                         primary, acksOnly)
    IN  IF start.pdus = <<>> THEN start ELSE AskOthers(start, primary, acksOnly)

Carries(m, i)  == \E p \in ToSet(m.pdus) : p.stream = i
CarriesData(m) == \E p \in ToSet(m.pdus) : ~p.ack
DataOf(m, i)   == IF [stream |-> i, ack |-> FALSE] \in ToSet(m.pdus) THEN 1 ELSE 0

(* Mutant of AfterSend: the heads are removed although the send failed. *)
AfterSendAlways(m, sent) ==
    [i \in Stream |-> IF i \in UDP /\ Carries(m, i)
                      THEN [m.streams[i] EXCEPT !.data = @ - 1]
                      ELSE m.streams[i]]

(* The radio's socket took the MPDU, or it did not: then what was only     *)
(* copied is still there and what was pulled is gone.                      *)
AfterSend(m, sent) ==
    [i \in Stream |-> IF sent /\ i \in UDP /\ Carries(m, i)
                      THEN [m.streams[i] EXCEPT !.data = @ - 1]
                      ELSE m.streams[i]]

(* note_data_burst_emit() *)
AfterBurst ==
    IF burst.sent + 1 < limits.burst
    THEN [burst EXCEPT !.sent = @ + 1]
    ELSE [sent |-> 0, cooling |-> TRUE]

(* Tokens and budgets are used up whether or not the MPDU is sent. *)
SendMpdu(m, sent, where) ==
    /\ streams' = AfterSend(m, sent)
    /\ tokens' = m.tokens
    /\ burst' = IF sent /\ CarriesData(m) THEN AfterBurst ELSE burst
    /\ pass' = [where EXCEPT
                  !.remain    = m.remain,
                  !.refused   = @ \/ ~sent,
                  !.data_sent = IF sent /\ CarriesData(m) THEN @ + 1 ELSE @,
                  !.taken     = IF sent THEN [i \in Stream |-> @[i] + DataOf(m, i)]
                                ELSE @]
    /\ UNCHANGED limits

-----------------------------------------------------------------------------
(* What comes in between passes: datagrams, data of TCP applications, ACKs *)
(* to be sent.                                                             *)
Arrive(i) ==
    /\ Idle /\ streams[i].data < QUEUE_MAX
    /\ streams' = [streams EXCEPT ![i].data = @ + 1]
    /\ UNCHANGED <<tokens, burst, next, pass, limits>>

ArriveAck(i) ==
    /\ Idle /\ i \notin UDP /\ streams[i].acks < ACKS_MAX
    /\ streams' = [streams EXCEPT ![i].acks = @ + 1]
    /\ UNCHANGED <<tokens, burst, next, pass, limits>>

(* refill() by what the time that went by is worth. *)
Refilled(r) == AtMost(tokens + r, BURST)

(* The beginning of a pass: refill(), then on_tick() of every endpoint,    *)
(* which gives those in `due' another PDU.                                 *)
BeginPass(passes, due) ==
    /\ \A i \in due : streams[i].data < QUEUE_MAX
    /\ streams' = [i \in Stream |-> [streams[i] EXCEPT
                                       !.data = IF i \in due THEN @ + 1 ELSE @]]
    /\ \E r \in REFILLS : tokens' = Refilled(r)
    /\ pass' = [at |-> "acks", n |-> 0, progress |-> FALSE, data_sent |-> 0,
                remain |-> limits.budget, passes |-> passes, refused |-> FALSE,
                start |-> tokens', taken |-> [i \in Stream |-> 0]]
    /\ UNCHANGED <<burst, next, limits>>

Tick == Idle /\ \E due \in SUBSET Stream : BeginPass(1, due)

(* The gate opens again after tx_burst_interval_us. *)
CoolDown ==
    /\ burst.cooling
    /\ burst' = [burst EXCEPT !.cooling = FALSE]
    /\ UNCHANGED <<streams, tokens, next, pass, limits>>

(* The manager's console changes a limit, between two passes.  A burst that *)
(* is already longer than the new size must not keep the gate closed.       *)
SetBudget(i) ==
    /\ Idle
    /\ \E b \in BUDGETS : limits' = [limits EXCEPT !.budget[i] = b]
    /\ UNCHANGED <<streams, tokens, burst, next, pass>>

SetMaxDataPerTick ==
    /\ Idle
    /\ \E d \in MAX_DATA : limits' = [limits EXCEPT !.data = d]
    /\ UNCHANGED <<streams, tokens, burst, next, pass>>

SetTxBurstPacing ==
    /\ Idle
    /\ \E size \in BURST_SIZES : limits' = [limits EXCEPT !.burst = size]
    /\ burst' = [sent |-> 0, cooling |-> FALSE]
    /\ UNCHANGED <<streams, tokens, next, pass>>

MayEmit(i, acksOnly) ==
    IF acksOnly THEN HasAck(streams[i])
    ELSE /\ ~burst.cooling /\ burst.sent < limits.burst
         /\ tokens > 0 /\ pass.data_sent < limits.data
         /\ HasTx(streams[i])

(* Mutant of Asked: every data round begins at the first stream. *)
AskedFromFirst(n, acksOnly) == n

(* Who is number n of a round: data rounds begin at `next', which moves on *)
(* while n counts.                                                         *)
Asked(n, acksOnly) == IF acksOnly THEN n ELSE (next + n) % STREAMS

(* emit_mpdu() of number n of the round packs something. *)
Emits(n, acksOnly) ==
    LET i == Asked(n, acksOnly)
    IN  MayEmit(i, acksOnly) /\ Pack(i, acksOnly).pdus # <<>>

(* Mutant of Turns: a round in which something was sent is the last one. *)
TurnsOnce(p, acksOnly) ==
    {t \in [n : Stream, progress : {p.progress}] : t.n >= p.n /\ Emits(t.n, acksOnly)}

(* The turns left of a loop over the streams, which goes round again as    *)
(* long as a round has sent something.                                     *)
Turns(p, acksOnly) ==
    LET rest == {t \in [n : Stream, progress : {p.progress}] :
                    t.n >= p.n /\ Emits(t.n, acksOnly)}
    IN  IF rest = {} /\ p.progress
        THEN {t \in [n : Stream, progress : {FALSE}] : Emits(t.n, acksOnly)}
        ELSE rest

First(turns) == CHOOSE t \in turns : \A u \in turns : t.n <= u.n

(* One emit_mpdu() of that loop. *)
Emit(p, acksOnly, sent) ==
    /\ Turns(p, acksOnly) # {}
    /\ LET turn == First(Turns(p, acksOnly))
           i    == Asked(turn.n, acksOnly)
       IN  /\ SendMpdu(Pack(i, acksOnly), sent,
                       [pass EXCEPT !.at = p.at, !.n = turn.n + 1,
                                    !.progress = turn.progress \/ sent])
           /\ next' = IF sent /\ ~acksOnly THEN (i + 1) % STREAMS ELSE next

(* ACKs until a round brings none, ... *)
EmitAcks(sent) == pass.at = "acks" /\ Emit(pass, TRUE, sent)

(* ... then data until a round brings none or a limit is reached. *)
DataLoop ==
    IF pass.at = "data" THEN pass
    ELSE [pass EXCEPT !.at = "data", !.n = 0, !.progress = FALSE]

AcksOver == \/ pass.at = "data"
            \/ pass.at = "acks" /\ Turns(pass, TRUE) = {}
EmitData(sent) == AcksOver /\ Emit(DataLoop, FALSE, sent)
PassOver == AcksOver /\ Turns(DataLoop, FALSE) = {}

(* A TCP endpoint called tick() during the pass: one more pass, not more. *)
Again ==
    /\ PassOver /\ pass.passes < 2 /\ UDP # Stream
    /\ \E due \in SUBSET Stream : BeginPass(2, due)

EndTick ==
    /\ PassOver
    /\ pass' = NoPass
    /\ UNCHANGED <<streams, tokens, burst, next, limits>>

Next ==
    \/ \E i \in Stream : Arrive(i) \/ ArriveAck(i)
    \/ Tick \/ Again \/ EndTick \/ CoolDown
    \/ SetMaxDataPerTick \/ SetTxBurstPacing \/ \E i \in Stream : SetBudget(i)
    \/ \E sent \in BOOLEAN : EmitAcks(sent) \/ EmitData(sent)

Spec == Init /\ [][Next]_vars

(* The tick timer keeps firing and a pass runs to its end (stated without  *)
(* ENABLED, which is slow to evaluate over the packing), the gate opens    *)
(* again, and the radio's socket refuses for a while only.                 *)
Fairness ==
    /\ []<>~Idle /\ []<>Idle
    /\ WF_vars(CoolDown)
    /\ <>[](Idle \/ ~pass.refused)

FairSpec == Spec /\ Fairness

-----------------------------------------------------------------------------
Total(f) ==
    LET sum[n \in 0..STREAMS] == IF n = 0 THEN 0 ELSE sum[n - 1] + f[n - 1]
    IN  sum[STREAMS]

(* In one pass a stream sends no more than its budget and one number's     *)
(* length, or a single PDU; all streams together no more than the tokens   *)
(* there were and one number's length; no more MPDUs with data than        *)
(* max_data_per_tick, and not more than burst_size without the gap         *)
(* (tx_scheduler.cpp emit_mpdu, note_data_burst_emit).                     *)
WithinLimits ==
    /\ burst.sent < limits.burst
    /\ Idle \/ LET bytes == [i \in Stream |-> pass.taken[i] * (DATA_SIZE + SEQ_LEN)]
               IN  /\ \A i \in Stream : \/ pass.taken[i] <= 1
                                        \/ bytes[i] <= limits.budget[i] + SEQ_LEN
                   /\ Total(bytes) <= pass.start + SEQ_LEN
                   /\ Total(pass.taken) <= limits.data * SLOTS_MAX

(* docs/manager.md: ACKs "are not delayed a full tick".  When a pass ends, *)
(* whatever the limits on data were, no ACK is left, unless the radio's    *)
(* socket refused something in that pass (tx_scheduler.cpp tick).          *)
AcksDontWait ==
    [][pass.at # "idle" /\ pass'.at = "idle"
          => pass.refused \/ \A i \in Stream : ~HasAck(streams[i])]_vars

(* A PDU leaves the queue of its UDP endpoint only into an MPDU that the   *)
(* radio's socket took (stream.h: "copy without dequeue until commit_tx    *)
(* after air send").                                                       *)
NothingVanishes ==
    [][\A i \in UDP : streams'[i].data < streams[i].data
                        => pass'.taken[i] = pass.taken[i] + 1]_vars

(* A stream with something to send is served in the end, however much the  *)
(* other one sends: its data is taken, or was pulled for an MPDU that the  *)
(* radio's socket refused.                                                 *)
Served ==
    \A i \in Stream : streams[i].data > 0
                        ~> (\/ streams[i].data = 0
                            \/ ~Idle /\ pass.taken[i] > 0)
===============================================================================

----------------------------- MODULE ConsoleLink -----------------------------
(***************************************************************************)
(* The manager's hold on the radio's console: console_client.cpp and the   *)
(* part of app.cpp that connects, programs, pings, drops and reconnects,   *)
(* with the radio's console.cpp and the handlers of console_cmd.cpp it     *)
(* calls.  Commands and replies are UDP datagrams without a number; a      *)
(* command is sent up to three times, and whatever begins with "ok" is     *)
(* taken for its answer.                                                   *)
(*                                                                         *)
(* The manager is one thread: while it waits for an answer nothing else    *)
(* runs.  A reply is in the manager's socket as soon as the radio sends    *)
(* it; what takes time is the way to the radio and the radio itself.  A    *)
(* timeout passes when nothing is on its way any more, except for TARDY    *)
(* timeouts, which the radio's answer misses.                              *)
(***************************************************************************)
EXTENDS WifiPhy, Sequences, SequencesExt

CONSTANTS POWER,         \* transmit power of the configuration
          BOOTS,         \* settings [ch, mod, tx, rx] a radio may boot with
          MAX_LOSSES,    \* bounds: datagrams lost,
          MAX_RESTARTS,  \*   restarts of the radio,
          MAX_CHANGES,   \*   set_modulation on the manager's console,
          TARDY,         \*   answers later than the timeout,
          PHY_FAULTS     \*   refused driver calls

Ours   == "ours"    \* the manager's own ports and domain
Owners == {"none", Ours, "another"}

ASSUME ConsoleLinkAssumption ==
    /\ POWER \in TUNES
    /\ BOOTS \subseteq [ch : CHANNELS, mod : Modulations, tx : Owners, rx : Owners]
    /\ \A b \in BOOTS : ModulationOk(b.mod, b.ch)
    /\ {MAX_LOSSES, MAX_RESTARTS, MAX_CHANGES, TARDY, PHY_FAULTS} \subseteq Nat

ATTEMPTS == 3

VARIABLES mgr,    \* pc, commands todo, attempt, and what app.cpp knows
          sock,   \* datagrams in the manager's console socket
          wire,   \* datagrams on their way to the radio
          radio,  \* on, the wifi object, domain, the two endpoints
          spent   \* losses, restarts, changes, tardy answers so far

vars == <<mgr, sock, wire, radio, spent>>

Ops  == {"channel", "modulation", "power", "domain", "status", "unset",
         "upstream_tx", "upstream_rx", "ping"}

Command(op, arg) == [op |-> op, arg |-> arg]

(* Channel 14 takes the rate first, every other channel before the rate. *)
TuneIn(mod) ==
    LET rate    == Command("modulation", mod)
        channel == Command("channel", mgr.channel)
    IN IF mgr.channel = 14 THEN <<rate, channel>> ELSE <<channel, rate>>

(* A plausible mistake: always the rate first. *)
ProgramRateFirst(mod) ==
    <<Command("modulation", mod), Command("channel", mgr.channel),
      Command("power", POWER), Command("domain", Ours), Command("status", 0),
      Command("upstream_tx", Ours), Command("upstream_rx", Ours)>>

(* apply_radio() and apply_upstream(). *)
Program(mod) ==
    TuneIn(mod) \o
    <<Command("power", POWER), Command("domain", Ours), Command("status", 0),
      Command("upstream_tx", Ours), Command("upstream_rx", Ours)>>

Asks(op)  == mgr.pc \in {"applying", "changing"} /\ Head(mgr.todo).op = op
Busy      == mgr.pc \in {"applying", "changing"}
Held      == mgr.pc = "held"
Connected == mgr.pc # "down"

-----------------------------------------------------------------------------
(***************************************************************************)
(* The manager.                                                            *)
(***************************************************************************)

(* A new socket has a new port: what is asked of the old one stays unheard. *)
Orphaned == [i \in DOMAIN wire |-> [wire[i] EXCEPT !.mine = FALSE]]

Dropped == [mgr EXCEPT !.pc = "down", !.todo = <<>>, !.attempt = 1,
                       !.sent = FALSE, !.pinged = FALSE, !.pong = FALSE,
                       !.wanted = mgr.mod]

DropConsole == /\ mgr' = Dropped
               /\ sock' = <<>> /\ wire' = Orphaned

(* reconnect_tick(), begin_console(), and program() at the start. *)
Connect ==
    /\ mgr.pc = "down"
    /\ mgr' = [mgr EXCEPT !.pc = "applying", !.todo = Program(mgr.mod)]
    /\ radio' = [radio EXCEPT !.known = radio.on]
    /\ UNCHANGED <<sock, wire, spent>>

(* send_cmd() first drops what has come meanwhile; query_status() does not. *)
Send ==
    /\ Busy /\ ~mgr.sent
    /\ mgr' = [mgr EXCEPT !.sent = TRUE]
    /\ sock' = IF Asks("status") THEN sock ELSE <<>>
    /\ wire' = Append(wire, [cmd |-> Head(mgr.todo), mine |-> TRUE])
    /\ UNCHANGED <<radio, spent>>

(* hold_console(), or the end of set_modulation(). *)
AllDone(m) ==
    IF m.pc = "applying"
    THEN [m EXCEPT !.pc = "held", !.pinged = FALSE]
    ELSE [m EXCEPT !.pc = "held", !.mod = m.wanted, !.pinged = @ /\ ~m.pong,
                   !.pong = FALSE]

(* On to the next command; a stale upstream_tx on our port is unset first. *)
Proceed(reply) ==
    LET rest == Tail(mgr.todo)
        todo == IF Asks("status") /\ reply.tx = Ours
                THEN <<Command("unset", 0)>> \o rest ELSE rest
        m    == [mgr EXCEPT !.todo = todo, !.attempt = 1, !.sent = FALSE]
    IN IF todo = <<>> THEN AllDone(m) ELSE m

NoStatus == [kind |-> "ok", tx |-> "none"]

Answer(kind) ==
    /\ Busy /\ mgr.sent /\ sock # <<>> /\ Head(sock).kind = kind
    /\ UNCHANGED <<radio, spent>>

ReceivePong ==
    /\ Answer("pong")
    /\ mgr' = [mgr EXCEPT !.pong = TRUE]
    /\ sock' = Tail(sock) /\ UNCHANGED wire

ReceiveOk ==
    /\ Answer("ok")
    /\ mgr' = Proceed(Head(sock))
    /\ sock' = Tail(sock) /\ UNCHANGED wire

(* A plausible mistake: a failed set_modulation keeps the console. *)
FailKeeps ==
    /\ mgr' = IF mgr.pc = "changing"
              THEN [mgr EXCEPT !.pc = "held", !.todo = <<>>, !.attempt = 1,
                               !.sent = FALSE]
              ELSE Dropped
    /\ sock' = <<>> /\ wire' = Orphaned

(* A failed command ends program() and set_modulation(), and with it the *)
(* console.                                                              *)
Fail == DropConsole

(* A radio without status is programmed all the same. *)
ReceiveNok ==
    /\ Answer("nok")
    /\ IF Asks("status")
       THEN mgr' = Proceed(NoStatus) /\ sock' = Tail(sock) /\ UNCHANGED wire
       ELSE Fail

Overdue == /\ sock = <<>>
           /\ IF wire = <<>> THEN UNCHANGED spent
              ELSE /\ spent.tardy < TARDY
                   /\ spent' = [spent EXCEPT !.tardy = @ + 1]

LastAttempt == mgr.attempt >= ATTEMPTS

Timeout ==
    /\ Busy /\ mgr.sent /\ Overdue
    /\ \/ /\ Asks("status")
          /\ mgr' = Proceed(NoStatus) /\ UNCHANGED <<sock, wire>>
       \/ /\ ~Asks("status") /\ ~LastAttempt
          /\ mgr' = [mgr EXCEPT !.attempt = @ + 1, !.sent = FALSE]
          /\ UNCHANGED <<sock, wire>>
       \/ /\ ~Asks("status") /\ LastAttempt
          /\ Fail
    /\ UNCHANGED radio

(* The 802.11 rate asked for on the manager's own console. *)
SetModulationCmd(mod) ==
    /\ Held /\ ModulationOk(mod, mgr.channel)
    /\ spent.changes < MAX_CHANGES
    /\ spent' = [spent EXCEPT !.changes = @ + 1]
    /\ mgr' = [mgr EXCEPT !.pc = "changing", !.wanted = mod,
                          !.todo = <<Command("modulation", mod)>>]
    /\ UNCHANGED <<sock, wire, radio>>

(* on_console() looks for a pong and ignores the rest. *)
OnConsole ==
    /\ Held /\ sock # <<>>
    /\ mgr' = [mgr EXCEPT !.pinged = @ /\ \A i \in DOMAIN sock : sock[i].kind # "pong"]
    /\ sock' = <<>>
    /\ UNCHANGED <<wire, radio, spent>>

Ping ==
    /\ Held /\ ~mgr.pinged
    /\ mgr' = [mgr EXCEPT !.pinged = TRUE]
    /\ wire' = Append(wire, [cmd |-> Command("ping", 0), mine |-> TRUE])
    /\ UNCHANGED <<sock, radio, spent>>

PingTimeout == Held /\ mgr.pinged /\ Overdue /\ DropConsole /\ UNCHANGED radio

(* send() or recv() learns that nobody listens to what was sent. *)
Refused == /\ Connected /\ ~radio.on
           /\ mgr' = Dropped /\ sock' = <<>> /\ wire' = <<>>
           /\ UNCHANGED <<radio, spent>>

-----------------------------------------------------------------------------
(***************************************************************************)
(* The radio.                                                              *)
(***************************************************************************)

(* The radio after a command, and whether it says ok. *)
Obeyed(r, o) == [state |-> [r EXCEPT !.phy = o.state], ok |-> o.ok]

Obey(r, cmd) ==
    CASE cmd.op = "channel"    -> {Obeyed(r, o) : o \in SetChannel(r.phy, cmd.arg)}
      [] cmd.op = "modulation" -> {Obeyed(r, o) : o \in SetModulation(r.phy, cmd.arg)}
      [] cmd.op = "power"      -> {Obeyed(r, o) : o \in SetTune(r.phy, cmd.arg)}
      [] cmd.op = "domain"      -> Done([r EXCEPT !.domain = cmd.arg])
      [] cmd.op = "upstream_tx" -> Done([r EXCEPT !.tx = cmd.arg])
      [] cmd.op = "upstream_rx" -> Done([r EXCEPT !.rx = cmd.arg])
      [] cmd.op = "unset"       -> Done([r EXCEPT !.tx = "none"])
      [] OTHER                  -> Done(r)

Reply(r, op, ok) ==
    IF op = "ping" THEN [kind |-> "pong", tx |-> "none"]
    ELSE [kind |-> IF ok THEN "ok" ELSE "nok",
          tx   |-> IF op = "status" THEN r.tx ELSE "none"]

(* on_datagram(): the command is done before its reply is sent, and either *)
(* of the two datagrams may be lost.                                       *)
Lost == /\ spent.losses < MAX_LOSSES
        /\ spent' = [spent EXCEPT !.losses = @ + 1]

OnDatagram ==
    /\ radio.on /\ wire # <<>>
    /\ wire' = Tail(wire)
    /\ \E o \in Obey(radio, Head(wire).cmd) :
          /\ radio' = o.state
          /\ IF Head(wire).mine
             THEN \/ /\ sock' = Append(sock, Reply(o.state, Head(wire).cmd.op, o.ok))
                     /\ UNCHANGED spent
                  \/ Lost /\ UNCHANGED sock
             ELSE UNCHANGED <<sock, spent>>
    /\ UNCHANGED mgr

LoseRequest == /\ radio.on /\ wire # <<>> /\ Lost
               /\ wire' = Tail(wire)
               /\ UNCHANGED <<mgr, sock, radio>>

RadioDown ==
    /\ radio.on
    /\ spent.restarts < MAX_RESTARTS
    /\ spent' = [spent EXCEPT !.restarts = @ + 1]
    /\ radio' = [radio EXCEPT !.on = FALSE, !.missed = FALSE, !.known = FALSE]
    /\ wire' = <<>>
    /\ UNCHANGED <<mgr, sock>>

NobodyListens == /\ ~radio.on /\ wire # <<>>
                 /\ wire' = Tail(wire)
                 /\ radio' = [radio EXCEPT !.missed = TRUE]
                 /\ UNCHANGED <<mgr, sock, spent>>

Booted(b, faults) ==
    [on |-> TRUE, missed |-> FALSE, known |-> FALSE,
     phy |-> [Cold(faults) EXCEPT !.ready = TRUE, !.started = TRUE, !.ch = b.ch,
              !.drvCh = b.ch, !.mod = b.mod, !.rate = b.mod, !.mask = MaskFor(b.ch)],
     domain |-> "none", tx |-> b.tx, rx |-> b.rx]

(* A boot with its network is taken to outlast a ping and its timeout, and *)
(* the three attempts of a command (up to nine seconds).                   *)
RadioBoot ==
    /\ ~radio.on
    /\ \/ ~Connected
       \/ Held /\ mgr.pinged /\ radio.missed
    /\ \E b \in BOOTS : radio' = Booted(b, radio.phy.left)
    /\ UNCHANGED <<mgr, sock, wire, spent>>

-----------------------------------------------------------------------------
Init ==
    /\ \E channel \in CHANNELS, mod \in Modulations :
          /\ ModulationOk(mod, channel)
          /\ mgr = [channel |-> channel, pc |-> "down", todo |-> <<>>, attempt |-> 1,
                    sent |-> FALSE, pinged |-> FALSE, pong |-> FALSE, mod |-> mod, wanted |-> mod]
    /\ \E b \in BOOTS : radio = Booted(b, PHY_FAULTS)
    /\ sock = <<>> /\ wire = <<>>
    /\ spent = [losses |-> 0, restarts |-> 0, changes |-> 0, tardy |-> 0]

Manager == \/ Connect \/ Send \/ ReceivePong \/ ReceiveOk \/ ReceiveNok
           \/ Timeout \/ OnConsole \/ Ping \/ PingTimeout

Next == \/ Manager \/ Refused
        \/ \E mod \in Modulations : SetModulationCmd(mod)
        \/ OnDatagram \/ LoseRequest \/ NobodyListens
        \/ RadioDown \/ RadioBoot

(* The manager goes on, what is sent is handled, and a radio that went *)
(* down comes up again, whatever the manager is doing then.            *)
Fairness == /\ WF_vars(Manager)
            /\ WF_vars(OnDatagram) /\ WF_vars(NobodyListens)
            /\ SF_vars(RadioBoot)

Spec == Init /\ [][Next]_vars /\ Fairness

-----------------------------------------------------------------------------
(***************************************************************************)
(* Properties.                                                             *)
(***************************************************************************)

(* The radio is set to what the manager believes it is set to. *)
AsConfigured ==
    /\ radio.on
    /\ radio.phy.ch = mgr.channel /\ radio.phy.mod = mgr.mod
    /\ radio.phy.tune = POWER /\ radio.domain = Ours
    /\ radio.tx = Ours /\ radio.rx = Ours

(* As long as the manager holds the console of a radio that has not been   *)
(* restarted since it connected, the radio is set to all the manager       *)
(* believes it is set to, the rate last asked for among it, although       *)
(* commands and their answers are lost, repeated and refused.              *)
HeldAsConfigured == Held /\ radio.known => AsConfigured

(* Whatever was lost, refused or restarted, in the end the manager holds *)
(* the console and the radio is programmed, and it stays so.             *)
Converges == <>[](Held /\ AsConfigured)
=============================================================================

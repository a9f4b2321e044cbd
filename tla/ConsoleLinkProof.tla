-------------------------- MODULE ConsoleLinkProof --------------------------
(***************************************************************************)
(* Proofs about ConsoleLink, for every channel and power of the            *)
(* configuration, whatever a radio boots with, and any number of losses,   *)
(* restarts, changes of the rate and refused driver calls: what the        *)
(* manager believes of the radio whose console it holds is so.  TARDY is   *)
(* 0: an answer that misses its timeout is taken for that of the next      *)
(* command, and with one such answer the property is false.                *)
(***************************************************************************)
EXTENDS ConsoleLink, TLAPS

-----------------------------------------------------------------------------
(***************************************************************************)
(* The radio.  An external call succeeds, or is refused once more.         *)
(***************************************************************************)

PhyStates ==
  [ready : BOOLEAN, started : BOOLEAN, ch : CHANNELS, mod : Modulations,
   tune : TUNES, drvCh : CHANNELS, rate : Modulations, mask : Masks, left : Nat]

Sound(w) == w \in PhyStates /\ ModulationOk(w.mod, w.ch)

(* x is a state of the radio that stores what w stores. *)
Stores(w, x) ==
  x \in PhyStates /\ x.ch = w.ch /\ x.mod = w.mod /\ x.tune = w.tune

(* Whatever comes of it, the object stores what w stores. *)
Keeps(w, outcomes) ==
  \A o \in outcomes : Stores(w, o.state) /\ o = [state |-> o.state, ok |-> o.ok]

LEMMA CallKeeps ==
  ASSUME NEW w \in PhyStates, NEW t, Stores(w, t) PROVE Keeps(w, Call(w, t))
<1>1. CASE w.left > 0
  <2>1. Stores(w, [w EXCEPT !.left = @ - 1])
    BY <1>1 DEF Stores, PhyStates
  <2>. QED BY <1>1, <2>1 DEF Call, Done, Failed, Keeps
<1>2. CASE ~(w.left > 0)
  BY <1>2 DEF Call, Done, Failed, Keeps
<1>. QED BY <1>1, <1>2

(* A state that stores the same: keeping the one is keeping the other. *)
LEMMA KeepsOn ==
  ASSUME NEW w, NEW x, Stores(w, x), NEW outcomes, Keeps(x, outcomes) PROVE Keeps(w, outcomes)
BY DEF Keeps, Stores

LEMMA SetProtocolKeeps == ASSUME NEW w \in PhyStates PROVE Keeps(w, SetProtocol(w))
<1>1. PICK x : x = [w EXCEPT !.mask = MaskFor(w.ch)]
  OBVIOUS
<1>2. Stores(w, x)
  BY <1>1 DEF Stores, PhyStates, MaskFor, Masks
<1>. QED BY <1>1, <1>2, CallKeeps DEF SetProtocol

LEMMA ApplyChannelKeeps == ASSUME NEW w \in PhyStates PROVE Keeps(w, ApplyChannel(w))
<1>1. CASE w.started
  <2>1. PICK x : x = [w EXCEPT !.drvCh = w.ch]
    OBVIOUS
  <2>2. Stores(w, x)
    BY <2>1 DEF Stores, PhyStates
  <2>. QED BY <1>1, <2>1, <2>2, CallKeeps DEF ApplyChannel
<1>2. CASE ~w.started
  BY <1>2 DEF ApplyChannel, Failed, Keeps, Stores
<1>. QED BY <1>1, <1>2

LEMMA IgnoredKeeps == ASSUME NEW w, NEW S, Keeps(w, S) PROVE Keeps(w, Ignored(S))
<1>1. ASSUME NEW o \in Ignored(S) PROVE Stores(w, o.state) /\ o = [state |-> o.state, ok |-> o.ok]
  <2>1. PICK p \in S : o = [p EXCEPT !.ok = TRUE]
    BY DEF Ignored
  <2>2. PICK t, b : p = [state |-> t, ok |-> b] /\ Stores(w, t)
    BY <2>1 DEF Keeps
  <2>3. o = [state |-> t, ok |-> TRUE]
    BY <2>1, <2>2
  <2>. QED BY <2>2, <2>3
<1>. QED BY <1>1 DEF Keeps

LEMMA LoadRateKeeps == ASSUME NEW w \in PhyStates PROVE Keeps(w, LoadRate(w))
<1>1. PICK x : x = [w EXCEPT !.rate = w.mod, !.mask = "bg"]
  OBVIOUS
<1>2. Stores(w, x)
  BY <1>1 DEF Stores, PhyStates, Masks
<1>3. Keeps(w, Call(w, x))
  BY <1>2, CallKeeps
<1>4. ASSUME NEW p \in Call(w, x) PROVE Keeps(w, Ignored(SetProtocol(p.state)))
  <2>1. Stores(w, p.state) /\ p.state \in PhyStates
    BY <1>3 DEF Keeps, Stores
  <2>. QED BY <2>1, SetProtocolKeeps, KeepsOn, IgnoredKeeps
<1>5. LoadRate(w) = UNION {IF p.ok THEN Ignored(SetProtocol(p.state)) ELSE {p} : p \in Call(w, x)}
  BY <1>1 DEF LoadRate, Then
<1>. QED BY <1>3, <1>4, <1>5 DEF Keeps

LEMMA StartKeeps == ASSUME NEW w \in PhyStates PROVE Keeps(w, Start(w))
<1>1. PICK x : x = [w EXCEPT !.started = TRUE]
  OBVIOUS
<1>2. Stores(w, x)
  BY <1>1 DEF Stores, PhyStates
<1>. QED BY <1>1, <1>2, CallKeeps DEF Start

(* The same outcomes, told as failures. *)
LEMMA RefusedKeeps ==
  ASSUME NEW w, NEW S, Keeps(w, S) PROVE Keeps(w, {[s EXCEPT !.ok = FALSE] : s \in S})
<1>1. ASSUME NEW o \in {[s EXCEPT !.ok = FALSE] : s \in S}
      PROVE  Stores(w, o.state) /\ o = [state |-> o.state, ok |-> o.ok]
  <2>1. PICK p \in S : o = [p EXCEPT !.ok = FALSE]
    OBVIOUS
  <2>2. PICK t, b : p = [state |-> t, ok |-> b] /\ Stores(w, t)
    BY <2>1 DEF Keeps
  <2>3. o = [state |-> t, ok |-> FALSE]
    BY <2>1, <2>2
  <2>. QED BY <2>2, <2>3
<1>. QED BY <1>1 DEF Keeps

LEMMA LoadRateStoppedKeeps == ASSUME NEW w \in PhyStates PROVE Keeps(w, LoadRateStopped(w))
<1> DEFINE Restarted(q) == IF q.ok THEN Start(q.state)
                           ELSE {[s EXCEPT !.ok = FALSE] : s \in Start(q.state)}
<1>1. PICK x : x = [w EXCEPT !.started = FALSE]
  OBVIOUS
<1>2. Stores(w, x)
  BY <1>1 DEF Stores, PhyStates
<1>3. Keeps(w, Call(w, x))
  BY <1>2, CallKeeps
<1>4. ASSUME NEW p \in Call(w, x), NEW q \in LoadRate(p.state) PROVE Keeps(w, Restarted(q))
  <2>1. Stores(w, p.state) /\ p.state \in PhyStates
    BY <1>3 DEF Keeps, Stores
  <2>2. Keeps(w, LoadRate(p.state))
    BY <2>1, LoadRateKeeps, KeepsOn
  <2>3. Stores(w, q.state) /\ q.state \in PhyStates
    BY <2>2 DEF Keeps, Stores
  <2>4. Keeps(w, Start(q.state))
    BY <2>3, StartKeeps, KeepsOn
  <2>. QED BY <2>4, RefusedKeeps
<1>5. LoadRateStopped(w) =
        UNION {IF p.ok THEN UNION {Restarted(q) : q \in LoadRate(p.state)} ELSE {p}
               : p \in Call(w, x)}
  BY <1>1 DEF LoadRateStopped, Stop, Then
<1> HIDE DEF Restarted
<1>6. ASSUME NEW o \in LoadRateStopped(w)
      PROVE  Stores(w, o.state) /\ o = [state |-> o.state, ok |-> o.ok]
  <2>1. PICK p \in Call(w, x) :
          o \in IF p.ok THEN UNION {Restarted(q) : q \in LoadRate(p.state)} ELSE {p}
    BY <1>5
  <2>2. CASE p.ok
    <3>1. PICK q \in LoadRate(p.state) : o \in Restarted(q)
      BY <2>1, <2>2
    <3>. QED BY <1>4, <3>1 DEF Keeps
  <2>3. CASE ~p.ok
    BY <1>3, <2>1, <2>3 DEF Keeps
  <2>. QED BY <2>2, <2>3
<1>. QED BY <1>6 DEF Keeps

LEMMA ApplyModulationKeeps == ASSUME NEW w \in PhyStates PROVE Keeps(w, ApplyModulation(w))
<1>1. CASE ~ModulationOk(w.mod, w.ch)
  <2>1. ApplyModulation(w) = Failed(w)
    BY <1>1 DEF ApplyModulation
  <2>. QED BY <2>1 DEF Failed, Keeps, Stores
<1>2. CASE ModulationOk(w.mod, w.ch)
  <2> DEFINE Tried(q) == IF q.ok THEN {q} ELSE LoadRateStopped(q.state)
  <2>1. Keeps(w, SetProtocol(w))
    BY SetProtocolKeeps
  <2>2. ASSUME NEW p \in SetProtocol(w), NEW q \in LoadRate(p.state) PROVE Keeps(w, Tried(q))
    <3>1. Stores(w, p.state) /\ p.state \in PhyStates
      BY <2>1 DEF Keeps, Stores
    <3>2. Keeps(w, LoadRate(p.state))
      BY <3>1, LoadRateKeeps, KeepsOn
    <3>3. Stores(w, q.state) /\ q.state \in PhyStates
      BY <3>2 DEF Keeps, Stores
    <3>4. Keeps(w, LoadRateStopped(q.state))
      BY <3>3, LoadRateStoppedKeeps, KeepsOn
    <3>. QED BY <3>2, <3>4 DEF Keeps
  <2>3. ApplyModulation(w) =
          UNION {IF p.ok THEN UNION {Tried(q) : q \in LoadRate(p.state)} ELSE {p}
                 : p \in SetProtocol(w)}
    BY <1>2 DEF ApplyModulation, Then
  <2> HIDE DEF Tried
  <2>. QED BY <2>1, <2>2, <2>3 DEF Keeps
<1>. QED BY <1>1, <1>2

LEMMA ApplyMonitorKeeps == ASSUME NEW w \in PhyStates PROVE Keeps(w, ApplyMonitor(w))
<1>1. Keeps(w, Call(w, w))
  BY CallKeeps DEF Stores
<1>2. ASSUME NEW p \in Call(w, w) PROVE Keeps(w, Ignored(SetProtocol(p.state)))
  <2>1. Stores(w, p.state) /\ p.state \in PhyStates
    BY <1>1 DEF Keeps, Stores
  <2>. QED BY <2>1, SetProtocolKeeps, KeepsOn, IgnoredKeeps
<1>3. ApplyMonitor(w) =
        UNION {IF p.ok THEN Ignored(SetProtocol(p.state)) ELSE {p} : p \in Call(w, w)}
  BY DEF ApplyMonitor, Then
<1>. QED BY <1>1, <1>2, <1>3 DEF Keeps

(* One more method: after any outcome, or only when the last one succeeded. *)
LEMMA ThenChannelKeeps ==
  ASSUME NEW w, NEW S, Keeps(w, S)
  PROVE  Keeps(w, Then(S, ApplyChannel)) /\ Keeps(w, AndAlso(S, ApplyChannel))
<1>1. ASSUME NEW p \in S PROVE Keeps(w, ApplyChannel(p.state))
  <2>1. Stores(w, p.state) /\ p.state \in PhyStates
    BY DEF Keeps, Stores
  <2>. QED BY <2>1, ApplyChannelKeeps, KeepsOn
<1>2. /\ Then(S, ApplyChannel) = UNION {IF p.ok THEN ApplyChannel(p.state) ELSE {p} : p \in S}
      /\ AndAlso(S, ApplyChannel) = UNION {ApplyChannel(p.state) : p \in S}
  BY DEF Then, AndAlso
<1>. QED BY <1>1, <1>2 DEF Keeps

LEMMA ThenMonitorKeeps ==
  ASSUME NEW w, NEW S, Keeps(w, S)
  PROVE  Keeps(w, Then(S, ApplyMonitor)) /\ Keeps(w, AndAlso(S, ApplyMonitor))
<1>1. ASSUME NEW p \in S PROVE Keeps(w, ApplyMonitor(p.state))
  <2>1. Stores(w, p.state) /\ p.state \in PhyStates
    BY DEF Keeps, Stores
  <2>. QED BY <2>1, ApplyMonitorKeeps, KeepsOn
<1>2. /\ Then(S, ApplyMonitor) = UNION {IF p.ok THEN ApplyMonitor(p.state) ELSE {p} : p \in S}
      /\ AndAlso(S, ApplyMonitor) = UNION {ApplyMonitor(p.state) : p \in S}
  BY DEF Then, AndAlso
<1>. QED BY <1>1, <1>2 DEF Keeps

LEMMA RestoreChannelKeeps == ASSUME NEW w \in PhyStates PROVE Keeps(w, RestoreChannel(w))
<1>1. Keeps(w, AndAlso(ApplyModulation(w), ApplyChannel))
  BY ApplyModulationKeeps, ThenChannelKeeps
<1>. QED BY <1>1, RefusedKeeps DEF RestoreChannel

LEMMA RestoreKeeps == ASSUME NEW w \in PhyStates PROVE Keeps(w, Restore(w))
<1>1. Keeps(w, AndAlso(AndAlso(ApplyModulation(w), ApplyChannel), ApplyMonitor))
  BY ApplyModulationKeeps, ThenChannelKeeps, ThenMonitorKeeps
<1>. QED BY <1>1, RefusedKeeps DEF Restore

(* The setters: done, the radio stores the new value; refused, the old. *)
LEMMA SetChannelOutcome ==
  ASSUME NEW w, Sound(w), NEW ch \in CHANNELS, NEW o \in SetChannel(w, ch)
  PROVE  /\ Sound(o.state) /\ o.state.mod = w.mod /\ o.state.tune = w.tune
         /\ o.ok => o.state.ch = ch
<1>1. CASE ~w.ready \/ ~ModulationOk(w.mod, ch)
  <2>1. o = [state |-> w, ok |-> FALSE]
    BY <1>1 DEF SetChannel, Failed
  <2>2. o.state = w /\ ~o.ok
    BY <2>1
  <2>. QED BY <2>2
<1>2. CASE w.ready /\ ModulationOk(w.mod, ch)
  <2> DEFINE moved == [w EXCEPT !.ch = ch]
             told == IF ch = 14 THEN Then(ApplyModulation(moved), ApplyChannel)
                                ELSE ApplyChannel(moved)
  <2>1. PICK p \in told :
           o \in IF p.ok THEN {p} ELSE RestoreChannel([p.state EXCEPT !.ch = w.ch])
    BY <1>2 DEF SetChannel
  <2>2. /\ moved \in PhyStates /\ moved.ch = ch /\ moved.mod = w.mod /\ moved.tune = w.tune
        /\ w \in PhyStates
    BY DEF PhyStates, Sound
  <2> HIDE DEF moved
  <2>3. Keeps(moved, told)
    BY <2>2, ApplyModulationKeeps, ThenChannelKeeps, ApplyChannelKeeps
  <2> HIDE DEF told
  <2>4. Stores(moved, p.state)
    BY <2>3 DEF Keeps
  <2>5. CASE p.ok
    BY <1>2, <2>1, <2>2, <2>4, <2>5 DEF Stores, Sound
  <2>6. CASE ~p.ok
    <3>1. PICK back : back = [p.state EXCEPT !.ch = w.ch]
      OBVIOUS
    <3>2. back \in PhyStates /\ back.ch = w.ch /\ back.mod = w.mod /\ back.tune = w.tune
      BY <2>2, <2>4, <3>1 DEF Stores, PhyStates
    <3>3. Stores(back, o.state) /\ o \in RestoreChannel(back)
      BY <2>1, <2>6, <3>1, <3>2, RestoreChannelKeeps DEF Keeps
    <3>4. ~o.ok
      <4>1. PICK q \in AndAlso(ApplyModulation(back), ApplyChannel) : o = [q EXCEPT !.ok = FALSE]
        BY <3>3 DEF RestoreChannel
      <4>2. Keeps(back, AndAlso(ApplyModulation(back), ApplyChannel))
        BY <3>2, ApplyModulationKeeps, ThenChannelKeeps
      <4>3. PICK t, b : q = [state |-> t, ok |-> b]
        BY <4>1, <4>2 DEF Keeps
      <4>. QED BY <4>1, <4>3
    <3>. QED BY <3>2, <3>3, <3>4 DEF Stores, Sound
  <2>. QED BY <2>5, <2>6
<1>. QED BY <1>1, <1>2

LEMMA SetModulationOutcome ==
  ASSUME NEW w, Sound(w), NEW mod \in Modulations, NEW o \in SetModulation(w, mod)
  PROVE  /\ Sound(o.state) /\ o.state.ch = w.ch /\ o.state.tune = w.tune
         /\ o.ok => o.state.mod = mod
<1>1. CASE ~w.ready \/ ~ModulationOk(mod, w.ch)
  <2>1. o = [state |-> w, ok |-> FALSE]
    BY <1>1 DEF SetModulation, Failed
  <2>2. o.state = w /\ ~o.ok
    BY <2>1
  <2>. QED BY <2>2
<1>2. CASE w.ready /\ ModulationOk(mod, w.ch)
  <2> DEFINE turned == [w EXCEPT !.mod = mod]
             told == Then(Then(ApplyModulation(turned), ApplyChannel), ApplyMonitor)
  <2>1. PICK p \in told :
           o \in IF p.ok THEN {p} ELSE Restore([p.state EXCEPT !.mod = w.mod])
    BY <1>2 DEF SetModulation
  <2>2. /\ turned \in PhyStates /\ turned.ch = w.ch /\ turned.mod = mod /\ turned.tune = w.tune
        /\ w \in PhyStates
    BY DEF PhyStates, Sound
  <2> HIDE DEF turned
  <2>3. Keeps(turned, told)
    BY <2>2, ApplyModulationKeeps, ThenChannelKeeps, ThenMonitorKeeps
  <2> HIDE DEF told
  <2>4. Stores(turned, p.state)
    BY <2>3 DEF Keeps
  <2>5. CASE p.ok
    BY <1>2, <2>1, <2>2, <2>4, <2>5 DEF Stores, Sound
  <2>6. CASE ~p.ok
    <3>1. PICK back : back = [p.state EXCEPT !.mod = w.mod]
      OBVIOUS
    <3>2. back \in PhyStates /\ back.ch = w.ch /\ back.mod = w.mod /\ back.tune = w.tune
      BY <2>2, <2>4, <3>1 DEF Stores, PhyStates
    <3>3. Stores(back, o.state) /\ o \in Restore(back)
      BY <2>1, <2>6, <3>1, <3>2, RestoreKeeps DEF Keeps
    <3>4. ~o.ok
      <4>1. PICK q \in AndAlso(AndAlso(ApplyModulation(back), ApplyChannel), ApplyMonitor) :
              o = [q EXCEPT !.ok = FALSE]
        BY <3>3 DEF Restore
      <4>2. Keeps(back, AndAlso(AndAlso(ApplyModulation(back), ApplyChannel), ApplyMonitor))
        BY <3>2, ApplyModulationKeeps, ThenChannelKeeps, ThenMonitorKeeps
      <4>3. PICK t, b : q = [state |-> t, ok |-> b]
        BY <4>1, <4>2 DEF Keeps
      <4>. QED BY <4>1, <4>3
    <3>. QED BY <3>2, <3>3, <3>4 DEF Stores, Sound
  <2>. QED BY <2>5, <2>6
<1>. QED BY <1>1, <1>2

LEMMA SetTuneOutcome ==
  ASSUME NEW w, Sound(w), NEW tune \in TUNES, NEW o \in SetTune(w, tune)
  PROVE  /\ Sound(o.state) /\ o.state.ch = w.ch /\ o.state.mod = w.mod
         /\ o.ok => o.state.tune = tune
<1>1. CASE ~w.ready
  <2>1. o = [state |-> w, ok |-> FALSE]
    BY <1>1 DEF SetTune, Failed
  <2>. QED BY <2>1
<1>2. CASE w.ready /\ w.tune = tune
  <2>1. o = [state |-> w, ok |-> TRUE]
    BY <1>2 DEF SetTune, Done
  <2>. QED BY <1>2, <2>1
<1>3. CASE w.ready /\ w.tune # tune
  <2>1. PICK turned : turned = [w EXCEPT !.tune = tune]
    OBVIOUS
  <2>2. /\ turned \in PhyStates /\ turned.ch = w.ch /\ turned.mod = w.mod /\ turned.tune = tune
        /\ w \in PhyStates
    BY <2>1 DEF PhyStates, Sound
  <2>3. PICK p \in Call(turned, turned) :
           o \in IF p.ok THEN {p} ELSE Failed([p.state EXCEPT !.tune = w.tune])
    BY <1>3, <2>1 DEF SetTune, ApplyTune
  <2>4. Stores(turned, p.state)
    BY <2>2, CallKeeps DEF Keeps, Stores
  <2>5. CASE p.ok
    BY <2>2, <2>3, <2>4, <2>5 DEF Stores, Sound
  <2>6. CASE ~p.ok
    <3>1. PICK back : back = [p.state EXCEPT !.tune = w.tune]
      OBVIOUS
    <3>2. back \in PhyStates /\ back.ch = w.ch /\ back.mod = w.mod
      BY <2>2, <2>4, <3>1 DEF Stores, PhyStates
    <3>3. o = [state |-> back, ok |-> FALSE]
      BY <2>3, <2>6, <3>1 DEF Failed
    <3>. QED BY <3>2, <3>3 DEF Sound
  <2>. QED BY <2>5, <2>6
<1>. QED BY <1>1, <1>2, <1>3

-----------------------------------------------------------------------------
(***************************************************************************)
(* The inductive invariant, one part per subject.                          *)
(***************************************************************************)

Args     == CHANNELS \cup Modulations \cup TUNES \cup {Ours, 0}
Commands == [op : Ops, arg : Args]

Managers == [channel : CHANNELS, pc : {"down", "applying", "held", "changing"},
             todo : Seq(Commands), attempt : Int, sent : BOOLEAN,
             pinged : BOOLEAN, pong : BOOLEAN, mod : Modulations,
             wanted : Modulations]
Replies  == [kind : {"ok", "nok", "pong"}, tx : Owners]
Requests == [cmd : Commands, mine : BOOLEAN]
Radios   == [on : BOOLEAN, missed : BOOLEAN, known : BOOLEAN, phy : PhyStates,
             domain : {"none", Ours}, tx : Owners, rx : Owners]
Spendings == [losses : Nat, restarts : Nat, changes : Nat, tardy : Nat]

LinkTypeOK ==
    /\ mgr \in Managers /\ sock \in Seq(Replies) /\ wire \in Seq(Requests)
    /\ radio \in Radios /\ Sound(radio.phy)
    /\ spent \in Spendings

(* All the manager asks of a radio: six settings, and two commands more. *)
Rate(m) == IF m.pc = "changing" THEN m.wanted ELSE m.mod

Settings(m) ==
    {Command("channel", m.channel), Command("modulation", Rate(m)),
     Command("power", POWER), Command("domain", Ours),
     Command("upstream_tx", Ours), Command("upstream_rx", Ours)}

Tasks(m) == Settings(m) \cup {Command("status", 0), Command("unset", 0)}

InEffect(r, cmd) ==
    /\ cmd.op = "channel"     => r.phy.ch = cmd.arg
    /\ cmd.op = "modulation"  => r.phy.mod = cmd.arg
    /\ cmd.op = "power"       => r.phy.tune = cmd.arg
    /\ cmd.op = "domain"      => r.domain = cmd.arg
    /\ cmd.op = "upstream_tx" => r.tx = cmd.arg
    /\ cmd.op = "upstream_rx" => r.rx = cmd.arg

Working(m) == m.pc \in {"applying", "changing"}

(* Until upstream_tx is set there may be a stale one to unset. *)
Listed(q, m) ==
    \A i \in 1..Len(q) :
       /\ q[i] \in Tasks(m)
       /\ q[i].op \in {"status", "unset"} =>
             \E j \in i + 1..Len(q) : q[j] = Command("upstream_tx", Ours)

TodoOK(m) ==
    /\ ~Working(m) => m.todo = <<>> /\ ~m.sent
    /\ Working(m) => m.todo # <<>>
    /\ Listed(m.todo, m)

(* A setting is in effect or still to come. *)
SettingsOK(m, r) ==
    r.known =>
      /\ r.on
      /\ m.pc # "down" =>
            \A c \in Settings(m) :
               InEffect(r, c) \/ \E i \in 1..Len(m.todo) : m.todo[i] = c

(* What is on its way is what has been asked, after pings: the command or *)
(* its answer, and never both.                                            *)
Pings(w) == \A i \in 1..Len(w) : w[i].mine /\ w[i].cmd = Command("ping", 0)
Pongs(s) == \A i \in 1..Len(s) : s[i].kind = "pong"

Asked(m, w, s) ==
    /\ w # <<>> /\ w[Len(w)] = [cmd |-> Head(m.todo), mine |-> TRUE]
    /\ \A i \in 1..Len(w) - 1 : w[i].mine /\ w[i].cmd = Command("ping", 0)
    /\ Pongs(s)

Answered(m, w, s, r) ==
    /\ w = <<>>
    /\ \A i \in 1..Len(s) : s[i].kind # "pong" =>
          /\ i = Len(s)
          /\ s[i].kind = "ok" /\ r.known => InEffect(r, Head(m.todo))

LineOK(m, w, s, r) ==
    /\ m.pc = "down" => w = <<>> /\ s = <<>>
    /\ ~m.sent => Pings(w) /\ Pongs(s)
    /\ m.sent => Asked(m, w, s) \/ Answered(m, w, s, r)

LinkInv ==
    /\ LinkTypeOK
    /\ TodoOK(mgr)
    /\ SettingsOK(mgr, radio)
    /\ LineOK(mgr, wire, sock, radio)

-----------------------------------------------------------------------------
(***************************************************************************)
(* The radio obeys a command.                                              *)
(***************************************************************************)

(* A command that moves on the wifi object alone. *)
LEMMA ObeyedOutcome ==
  ASSUME NEW r \in Radios, Sound(r.phy), NEW p, Sound(p.state), NEW o, o = Obeyed(r, p)
  PROVE  /\ o.state \in Radios /\ o.state.phy = p.state
         /\ o.state.on = r.on /\ o.state.known = r.known
         /\ o.state.domain = r.domain /\ o.state.tx = r.tx /\ o.state.rx = r.rx
         /\ o.ok = p.ok
BY DEF Obeyed, Radios, Sound

LEMMA ObeyOutcome ==
  ASSUME NEW r \in Radios, Sound(r.phy), NEW m \in Managers,
         NEW c \in Tasks(m) \cup {Command("ping", 0)}, NEW o \in Obey(r, c)
  PROVE  /\ o.state \in Radios /\ Sound(o.state.phy)
         /\ o.state.on = r.on /\ o.state.known = r.known
         /\ o.ok => InEffect(o.state, c)
         /\ \A s \in Settings(m) :
               /\ InEffect(r, s) /\ s.op # c.op
               /\ c.op = "unset" => s.op # "upstream_tx"
               => InEffect(o.state, s)
<1>. USE DEF InEffect
<1>1. CASE c = Command("channel", m.channel)
  <2>1. m.channel \in CHANNELS /\ c.op = "channel" /\ c.arg = m.channel
    BY <1>1 DEF Managers, Command
  <2>2. PICK p \in SetChannel(r.phy, m.channel) : o = Obeyed(r, p)
    BY <2>1 DEF Obey
  <2>3. /\ Sound(p.state) /\ p.state.mod = r.phy.mod /\ p.state.tune = r.phy.tune
        /\ p.ok => p.state.ch = m.channel
    BY <2>1, <2>2, SetChannelOutcome
  <2>. QED BY <2>1, <2>2, <2>3, ObeyedOutcome
<1>2. CASE c = Command("modulation", Rate(m))
  <2>1. Rate(m) \in Modulations /\ c.op = "modulation" /\ c.arg = Rate(m)
    BY <1>2 DEF Managers, Command, Rate
  <2>2. PICK p \in SetModulation(r.phy, Rate(m)) : o = Obeyed(r, p)
    BY <2>1 DEF Obey
  <2>3. /\ Sound(p.state) /\ p.state.ch = r.phy.ch /\ p.state.tune = r.phy.tune
        /\ p.ok => p.state.mod = Rate(m)
    BY <2>1, <2>2, SetModulationOutcome
  <2>. QED BY <2>1, <2>2, <2>3, ObeyedOutcome
<1>3. CASE c = Command("power", POWER)
  <2>1. POWER \in TUNES /\ c.op = "power" /\ c.arg = POWER
    BY <1>3, ConsoleLinkAssumption DEF Command
  <2>2. PICK p \in SetTune(r.phy, POWER) : o = Obeyed(r, p)
    BY <2>1 DEF Obey
  <2>3. /\ Sound(p.state) /\ p.state.ch = r.phy.ch /\ p.state.mod = r.phy.mod
        /\ p.ok => p.state.tune = POWER
    BY <2>1, <2>2, SetTuneOutcome
  <2>. QED BY <2>1, <2>2, <2>3, ObeyedOutcome
<1>4. CASE c = Command("domain", Ours)
  <2>1. c.op = "domain" /\ c.arg = Ours
    BY <1>4 DEF Command
  <2>2. o = [state |-> [r EXCEPT !.domain = Ours], ok |-> TRUE]
    BY <2>1 DEF Obey, Done
  <2>. QED BY <2>1, <2>2 DEF Radios
<1>5. CASE c = Command("upstream_tx", Ours)
  <2>1. c.op = "upstream_tx" /\ c.arg = Ours
    BY <1>5 DEF Command
  <2>2. o = [state |-> [r EXCEPT !.tx = Ours], ok |-> TRUE]
    BY <2>1 DEF Obey, Done
  <2>. QED BY <2>1, <2>2 DEF Radios, Owners
<1>6. CASE c = Command("upstream_rx", Ours)
  <2>1. c.op = "upstream_rx" /\ c.arg = Ours
    BY <1>6 DEF Command
  <2>2. o = [state |-> [r EXCEPT !.rx = Ours], ok |-> TRUE]
    BY <2>1 DEF Obey, Done
  <2>. QED BY <2>1, <2>2 DEF Radios, Owners
<1>7. CASE c = Command("unset", 0)
  <2>1. c.op = "unset"
    BY <1>7 DEF Command
  <2>2. o = [state |-> [r EXCEPT !.tx = "none"], ok |-> TRUE]
    BY <2>1 DEF Obey, Done
  <2>. QED BY <2>1, <2>2 DEF Radios, Owners
<1>8. CASE c \in {Command("status", 0), Command("ping", 0)}
  <2>1. c.op \in {"status", "ping"}
    BY <1>8 DEF Command
  <2>2. o = [state |-> r, ok |-> TRUE]
    BY <2>1 DEF Obey, Done
  <2>. QED BY <2>1, <2>2
<1>. QED BY <1>1, <1>2, <1>3, <1>4, <1>5, <1>6, <1>7, <1>8 DEF Tasks, Settings

-----------------------------------------------------------------------------
(***************************************************************************)
(* The manager goes on to the next command.                                *)
(***************************************************************************)

LEMMA PutFirst ==
  ASSUME NEW S, NEW a \in S, NEW s \in Seq(S), NEW t, t = <<a>> \o s
  PROVE  /\ t \in Seq(S) /\ Len(t) = Len(s) + 1 /\ t[1] = a
         /\ \A i \in 2..Len(t) : t[i] = s[i - 1]
OBVIOUS

LEMMA AttemptCounted ==
  ASSUME NEW m \in Managers, NEW k \in Int
  PROVE  [m EXCEPT !.attempt = k] \in Managers
BY DEF Managers

LEMMA NextCommand ==
  ASSUME NEW m \in Managers, NEW q \in Seq(Commands),
         NEW n, n = [m EXCEPT !.todo = q, !.attempt = 1, !.sent = FALSE]
  PROVE  n \in Managers
<1>1. [m EXCEPT !.todo = q] \in Managers
  BY DEF Managers
<1>2. n = [[[m EXCEPT !.todo = q] EXCEPT !.attempt = 1] EXCEPT !.sent = FALSE]
  BY DEF Managers
<1>3. \A x \in Managers : [x EXCEPT !.attempt = 1] \in Managers
  <2>1. 1 \in Int
    OBVIOUS
  <2>. QED BY ONLY <2>1, AttemptCounted
<1>4. \A x \in Managers : [x EXCEPT !.sent = FALSE] \in Managers
  BY DEF Managers
<1>. QED BY <1>1, <1>2, <1>3, <1>4

LEMMA ProceedOutcome ==
  ASSUME LinkTypeOK, TodoOK(mgr), SettingsOK(mgr, radio), Busy,
         radio.known => InEffect(radio, Head(mgr.todo)), NEW reply, NEW m, m = Proceed(reply)
  PROVE  /\ m \in Managers /\ TodoOK(m) /\ SettingsOK(m, radio)
         /\ ~m.sent /\ m.pc # "down"
<1>. DEFINE T    == mgr.todo
            rest == Tail(T)
            unset == <<Command("unset", 0)>>
            tx   == Command("upstream_tx", Ours)
            todo == IF Asks("status") /\ reply.tx = Ours THEN unset \o rest ELSE rest
            n    == [mgr EXCEPT !.todo = todo, !.attempt = 1, !.sent = FALSE]
<1>1. T \in Seq(Commands) /\ T # <<>> /\ Working(mgr) /\ mgr \in Managers
  BY DEF LinkTypeOK, Managers, TodoOK, Busy, Working
<1>2. /\ Len(T) \in Nat \ {0} /\ Head(T) = T[1]
      /\ rest \in Seq(Commands) /\ Len(rest) = Len(T) - 1
      /\ \A i \in 1..Len(rest) : rest[i] = T[i + 1]
  BY <1>1
<1>3. \A i \in 1..Len(T) :
        /\ T[i] \in Tasks(mgr)
        /\ T[i].op \in {"status", "unset"} => \E j \in i + 1..Len(T) : T[j] = tx
  BY DEF TodoOK, Listed
<1>4. /\ todo \in Seq(Commands)
      /\ \A i \in 1..Len(todo) :
           /\ todo[i] \in Tasks(mgr)
           /\ todo[i].op \in {"status", "unset"} =>
                 \E j \in i + 1..Len(todo) : todo[j] = tx
      /\ \A i \in 2..Len(T) : \E j \in 1..Len(todo) : todo[j] = T[i]
  <2>1. CASE Asks("status") /\ reply.tx = Ours
    <3>1. todo = unset \o rest /\ Command("unset", 0) \in Commands
      BY <2>1 DEF Commands, Command, Ops, Args
    <3>. HIDE DEF rest, T, todo
    <3>2. /\ todo \in Seq(Commands) /\ Len(todo) = Len(T)
          /\ todo[1] = Command("unset", 0)
          /\ \A i \in 2..Len(T) : todo[i] = rest[i - 1]
      <4>1. todo = <<Command("unset", 0)>> \o rest
        BY <3>1
      <4>2. /\ todo \in Seq(Commands) /\ Len(todo) = Len(rest) + 1
            /\ todo[1] = Command("unset", 0)
            /\ \A i \in 2..Len(todo) : todo[i] = rest[i - 1]
        BY ONLY <1>2, <3>1, <4>1, PutFirst
      <4>. QED BY <1>2, <4>2
    <3>3. \A i \in 2..Len(T) : todo[i] = T[i]
      BY <1>2, <3>2
    <3>4. T[1].op = "status"
      BY <1>2, <2>1 DEF Asks, T
    <3>5. PICK k \in 2..Len(T) : T[k] = tx
      <4>1. 1 \in 1..Len(T) /\ T[1].op \in {"status", "unset"}
        BY <1>2, <3>4
      <4>2. \E j \in 1 + 1..Len(T) : T[j] = tx
        BY <1>3, <4>1
      <4>. QED BY <4>2
    <3>6. Command("unset", 0) \in Tasks(mgr)
      BY DEF Tasks
    <3>7. ASSUME NEW i \in 1..Len(T)
          PROVE  /\ todo[i] \in Tasks(mgr)
                 /\ todo[i].op \in {"status", "unset"} =>
                       \E j \in i + 1..Len(T) : todo[j] = tx
      <4>1. CASE i = 1
        BY <1>2, <3>2, <3>3, <3>5, <3>6, <4>1
      <4>2. CASE i # 1
        <5>1. i \in 2..Len(T) /\ todo[i] = T[i]
          BY <3>3, <4>2
        <5>2. ASSUME T[i].op \in {"status", "unset"}
              PROVE  \E j \in i + 1..Len(T) : todo[j] = tx
          <6>1. PICK j \in i + 1..Len(T) : T[j] = tx
            BY <1>3, <5>2
          <6>2. todo[j] = T[j]
            BY <3>3, <5>1
          <6>. QED BY <6>1, <6>2
        <5>. QED BY <1>3, <5>1, <5>2
      <4>. QED BY <4>1, <4>2
    <3>8. \A i \in 2..Len(T) : \E j \in 1..Len(T) : todo[j] = T[i]
      BY <3>3
    <3>. QED BY <3>2, <3>7, <3>8
  <2>2. CASE ~(Asks("status") /\ reply.tx = Ours)
    <3>1. todo = rest
      BY <2>2
    <3>. HIDE DEF rest, T, todo
    <3>2. ASSUME NEW i \in 1..Len(rest)
          PROVE  /\ rest[i] \in Tasks(mgr)
                 /\ rest[i].op \in {"status", "unset"} =>
                       \E j \in i + 1..Len(rest) : rest[j] = tx
      <4>1. i + 1 \in 1..Len(T) /\ rest[i] = T[i + 1]
        BY <1>2
      <4>2. ASSUME rest[i].op \in {"status", "unset"}
            PROVE  \E j \in i + 1..Len(rest) : rest[j] = tx
        <5>1. PICK j \in i + 2..Len(T) : T[j] = tx
          BY <1>3, <4>1, <4>2
        <5>2. j - 1 \in i + 1..Len(rest) /\ rest[j - 1] = T[j]
          BY <1>2, <5>1
        <5>. QED BY <5>1, <5>2
      <4>. QED BY <1>3, <4>1, <4>2
    <3>3. ASSUME NEW i \in 2..Len(T)
          PROVE  \E j \in 1..Len(rest) : rest[j] = T[i]
      <4>1. i - 1 \in 1..Len(rest) /\ rest[i - 1] = T[i]
        BY <1>2
      <4>. QED BY <4>1
    <3>. QED BY <1>2, <3>1, <3>2, <3>3
  <2>. QED BY <2>1, <2>2
<1>5. ASSUME radio.known
      PROVE  /\ radio.on
             /\ \A c \in Settings(mgr) :
                   InEffect(radio, c) \/ \E i \in 1..Len(todo) : todo[i] = c
  <2>1. radio.on /\ mgr.pc # "down" /\ InEffect(radio, T[1])
    BY <1>2, <1>5 DEF SettingsOK, Busy
  <2>2. ASSUME NEW c \in Settings(mgr), ~InEffect(radio, c)
        PROVE  \E i \in 1..Len(todo) : todo[i] = c
    <3>1. PICK i \in 1..Len(T) : T[i] = c
      BY <1>5, <2>1, <2>2 DEF SettingsOK
    <3>2. i \in 2..Len(T)
      BY <1>2, <2>1, <2>2, <3>1
    <3>. HIDE DEF todo, T
    <3>. QED BY <1>4, <3>1, <3>2
  <2>. QED BY <2>1, <2>2
<1>6. n \in Managers /\ n.todo = todo /\ ~n.sent /\ n.pc = mgr.pc
      /\ n.channel = mgr.channel /\ n.mod = mgr.mod /\ n.wanted = mgr.wanted
  <2>1. todo \in Seq(Commands)
    BY <1>4
  <2>. HIDE DEF todo
  <2>2. n \in Managers
    BY <1>1, <2>1, NextCommand
  <2>3. n.todo = todo /\ n.sent = FALSE
    BY <1>1 DEF Managers
  <2>4. /\ n.pc = mgr.pc /\ n.channel = mgr.channel /\ n.mod = mgr.mod
        /\ n.wanted = mgr.wanted
    BY <1>1 DEF Managers
  <2>. QED BY <2>2, <2>3, <2>4
<1>7. m = IF todo = <<>> THEN AllDone(n) ELSE n
  BY DEF Proceed
<1>. HIDE DEF todo, n, T
<1>8. CASE todo # <<>>
  <2>1. m = n
    BY <1>7, <1>8
  <2>2. Settings(n) = Settings(mgr) /\ Tasks(n) = Tasks(mgr) /\ Working(n)
    BY <1>1, <1>6 DEF Settings, Tasks, Rate, Working
  <2>3. TodoOK(n)
    BY <1>4, <1>6, <1>8, <2>2 DEF TodoOK, Listed
  <2>4. SettingsOK(n, radio)
    BY <1>5, <1>6, <2>2 DEF SettingsOK
  <2>. QED BY <1>1, <1>6, <2>1, <2>2, <2>3, <2>4 DEF Working
<1>9. CASE todo = <<>>
  <2>1. m = AllDone(n)
    BY <1>7, <1>9
  <2>2. /\ m \in Managers /\ m.pc = "held" /\ m.todo = <<>> /\ ~m.sent
        /\ m.channel = mgr.channel
        /\ m.mod = Rate(mgr)
    <3>1. mgr.pc \in {"applying", "changing"}
      BY <1>1 DEF Working
    <3>2. CASE mgr.pc = "applying"
      <4>1. m = [n EXCEPT !.pc = "held", !.pinged = FALSE]
        BY <1>6, <2>1, <3>2 DEF AllDone
      <4>2. m \in Managers
        BY <1>6, <4>1 DEF Managers
      <4>3. /\ m.pc = "held" /\ m.todo = n.todo /\ m.sent = n.sent
            /\ m.channel = n.channel /\ m.mod = n.mod
        BY <1>6, <4>1 DEF Managers
      <4>. QED BY <1>6, <1>9, <3>2, <4>2, <4>3 DEF Rate
    <3>3. CASE mgr.pc = "changing"
      <4>1. m = [n EXCEPT !.pc = "held", !.mod = n.wanted,
                          !.pinged = n.pinged /\ ~n.pong, !.pong = FALSE]
        BY <1>6, <2>1, <3>3 DEF AllDone
      <4>2. m \in Managers
        BY <1>6, <4>1 DEF Managers
      <4>3. /\ m.pc = "held" /\ m.todo = n.todo /\ m.sent = n.sent
            /\ m.channel = n.channel /\ m.mod = n.wanted
        BY <1>6, <4>1 DEF Managers
      <4>. QED BY <1>6, <1>9, <3>3, <4>2, <4>3 DEF Rate
    <3>. QED BY <3>1, <3>2, <3>3
  <2>3. Settings(m) = Settings(mgr)
    BY <2>2 DEF Settings, Rate
  <2>4. TodoOK(m)
    BY <2>2 DEF TodoOK, Working, Listed
  <2>5. SettingsOK(m, radio)
    BY <1>5, <1>9, <2>2, <2>3 DEF SettingsOK
  <2>. QED BY <2>2, <2>4, <2>5
<1>. QED BY <1>8, <1>9

-----------------------------------------------------------------------------
(***************************************************************************)
(* What is on its way.                                                     *)
(***************************************************************************)

LEMMA Appended ==
  ASSUME NEW S, NEW a \in S, NEW s \in Seq(S), NEW t, t = Append(s, a)
  PROVE  /\ t \in Seq(S) /\ Len(t) = Len(s) + 1 /\ t # <<>> /\ t[Len(t)] = a
         /\ \A i \in 1..Len(t) - 1 : t[i] = s[i]
OBVIOUS

LEMMA Behind ==
  ASSUME NEW S, NEW s \in Seq(S), s # <<>>, NEW t, t = Tail(s)
  PROVE  /\ Len(s) \in Nat \ {0} /\ t \in Seq(S) /\ Len(t) = Len(s) - 1
         /\ Head(s) = s[1] /\ Head(s) \in S
         /\ \A i \in 1..Len(t) : t[i] = s[i + 1]
OBVIOUS

(* What is first on its way to the radio is a ping or the last asked. *)
LEMMA FirstOnWire ==
  ASSUME NEW m \in Managers, NEW w \in Seq(Requests), NEW s, NEW r,
         LineOK(m, w, s, r), w # <<>>
  PROVE  /\ Pongs(s) /\ Head(w).mine
         /\ \/ Head(w).cmd = Command("ping", 0)
            \/ m.sent /\ Len(w) = 1 /\ Head(w).cmd = Head(m.todo)
<1>1. Len(w) \in Nat \ {0} /\ Head(w) = w[1]
  BY Behind
<1>2. CASE ~m.sent
  <2>1. Pings(w) /\ Pongs(s)
    BY <1>2 DEF LineOK
  <2>2. 1 \in 1..Len(w)
    BY <1>1
  <2>. QED BY <1>1, <2>1, <2>2 DEF Pings
<1>3. CASE m.sent
  <2>1. Asked(m, w, s)
    BY <1>3 DEF LineOK, Answered
  <2>2. CASE Len(w) = 1
    BY <1>1, <1>3, <2>1, <2>2 DEF Asked
  <2>3. CASE Len(w) # 1
    <3>1. 1 \in 1..Len(w) - 1
      <4>1. \A k \in Nat \ {0} : k # 1 => 1 \in 1..k - 1
        OBVIOUS
      <4>. QED BY ONLY <1>1, <2>3, <4>1
    <3>. QED BY <1>1, <2>1, <3>1 DEF Asked
  <2>. QED BY <2>2, <2>3
<1>. QED BY <1>2, <1>3

(* The first request is gone: lost, unheard, or a ping that is answered. *)
LEMMA RequestGone ==
  ASSUME NEW m \in Managers, NEW w \in Seq(Requests), NEW s, NEW z, NEW r, NEW x,
         LineOK(m, w, s, r), w # <<>>, Pongs(s) => Pongs(z)
  PROVE  m.pc # "down" /\ LineOK(m, Tail(w), z, x)
<1>. DEFINE v == Tail(w)
<1>1. /\ Len(w) \in Nat \ {0} /\ v \in Seq(Requests) /\ Len(v) = Len(w) - 1
      /\ \A i \in 1..Len(v) : v[i] = w[i + 1]
  BY Behind
<1>2. m.pc # "down"
  BY DEF LineOK
<1>. HIDE DEF v
<1>3. CASE ~m.sent
  <2>1. Pings(w) /\ Pongs(z)
    BY <1>3 DEF LineOK
  <2>2. \A i \in 1..Len(v) : i + 1 \in 1..Len(w)
    BY <1>1
  <2>3. Pings(v)
    BY <1>1, <2>1, <2>2 DEF Pings
  <2>. QED BY <1>2, <1>3, <2>1, <2>3 DEF LineOK, v
<1>4. CASE m.sent
  <2>1. Asked(m, w, s) /\ Pongs(z)
    BY <1>4 DEF LineOK, Answered, Asked
  <2>2. CASE Len(w) = 1
    <3>1. v = <<>>
      BY <1>1, <2>2
    <3>2. Answered(m, v, z, x)
      BY <2>1, <3>1 DEF Answered, Pongs
    <3>. QED BY <1>2, <1>4, <3>2 DEF LineOK, v
  <2>3. CASE Len(w) # 1
    <3>1. v # <<>> /\ Len(v) \in Nat \ {0} /\ v[Len(v)] = w[Len(w)]
      BY <1>1, <2>3
    <3>2. \A i \in 1..Len(v) - 1 : i + 1 \in 1..Len(w) - 1 /\ v[i] = w[i + 1]
      BY <1>1
    <3>3. Asked(m, v, z)
      BY <2>1, <3>1, <3>2 DEF Asked
    <3>. QED BY <1>2, <1>4, <3>3 DEF LineOK, v
  <2>. QED BY <2>2, <2>3
<1>. QED BY <1>3, <1>4

(* An answer that is no pong is alone, and what it approves is in effect. *)
LEMMA FirstInSocket ==
  ASSUME NEW m \in Managers, NEW w, NEW s \in Seq(Replies), NEW r,
         LineOK(m, w, s, r), s # <<>>, Head(s).kind # "pong"
  PROVE  /\ w = <<>> /\ Tail(s) = <<>>
         /\ Head(s).kind = "ok" /\ r.known => InEffect(r, Head(m.todo))
<1>1. Len(s) \in Nat \ {0} /\ Head(s) = s[1] /\ 1 \in 1..Len(s)
  BY Behind
<1>2. ~Pongs(s)
  BY <1>1 DEF Pongs
<1>3. Answered(m, w, s, r)
  BY <1>2 DEF LineOK, Asked
<1>4. 1 = Len(s)
  BY <1>1, <1>3 DEF Answered
<1>5. Tail(s) = <<>>
  BY <1>4
<1>. QED BY <1>1, <1>3, <1>5 DEF Answered

(* The console is dropped and nothing is left on its way. *)
LEMMA DroppedOutcome ==
  ASSUME mgr \in Managers, NEW r, r.known => r.on, NEW m, m = Dropped
  PROVE  /\ m \in Managers /\ TodoOK(m) /\ SettingsOK(m, r)
         /\ LineOK(m, <<>>, <<>>, r)
<1>1. m \in Managers /\ m.pc = "down" /\ m.todo = <<>> /\ m.sent = FALSE
  <2>1. PICK n \in Managers :
          n = [mgr EXCEPT !.todo = <<>>, !.attempt = 1, !.sent = FALSE]
    <3>1. <<>> \in Seq(Commands)
      OBVIOUS
    <3>2. [mgr EXCEPT !.todo = <<>>, !.attempt = 1, !.sent = FALSE] \in Managers
      BY <3>1, NextCommand
    <3>. QED BY <3>2
  <2>2. /\ m = [n EXCEPT !.pc = "down", !.pinged = FALSE, !.pong = FALSE,
                        !.wanted = n.mod]
        /\ n.todo = <<>> /\ n.sent = FALSE
    BY <2>1 DEF Dropped, Managers
  <2>3. \A x \in Managers :
           [x EXCEPT !.pc = "down", !.pinged = FALSE, !.pong = FALSE,
                     !.wanted = x.mod] \in Managers
    BY DEF Managers
  <2>4. m \in Managers
    BY <2>2, <2>3
  <2>5. m.pc = "down" /\ m.todo = n.todo /\ m.sent = n.sent
    BY <2>2 DEF Managers
  <2>. QED BY <2>2, <2>4, <2>5
<1>2. TodoOK(m)
  BY <1>1 DEF TodoOK, Working, Listed
<1>3. LineOK(m, <<>>, <<>>, r)
  BY <1>1 DEF LineOK, Pings, Pongs
<1>. QED BY <1>1, <1>2, <1>3 DEF SettingsOK

-----------------------------------------------------------------------------
(***************************************************************************)
(* The steps of the manager.                                               *)
(***************************************************************************)

(* The same command, be it sent, sent again or answered. *)
LEMMA SameTask ==
  ASSUME NEW m \in Managers, NEW n \in Managers, NEW r, Working(m),
         TodoOK(m), SettingsOK(m, r),
         n.todo = m.todo, n.pc = m.pc, n.channel = m.channel,
         n.mod = m.mod, n.wanted = m.wanted
  PROVE  Working(n) /\ TodoOK(n) /\ SettingsOK(n, r)
<1>1. Working(n) /\ Settings(n) = Settings(m) /\ Tasks(n) = Tasks(m)
  BY DEF Working, Settings, Tasks, Rate
<1>2. TodoOK(n)
  <2>1. n.todo # <<>>
    BY DEF TodoOK
  <2>. QED BY <1>1, <2>1 DEF TodoOK, Listed
<1>3. SettingsOK(n, r)
  BY <1>1 DEF SettingsOK
<1>. QED BY <1>1, <1>2, <1>3

LEMMA ProgramOutcome ==
  ASSUME mgr \in Managers, NEW p, p = Program(mgr.mod),
         NEW m \in Managers, m.channel = mgr.channel, Rate(m) = mgr.mod
  PROVE  /\ p \in Seq(Commands) /\ p # <<>>
         /\ Listed(p, m)
         /\ \A c \in Settings(m) : \E i \in 1..Len(p) : p[i] = c
<1>. DEFINE a == Command("channel", mgr.channel)
            b == Command("modulation", mgr.mod)
            P == Command("power", POWER)
            D == Command("domain", Ours)
            Q == Command("status", 0)
            X == Command("upstream_tx", Ours)
            Y == Command("upstream_rx", Ours)
<1>1. \/ p = <<a, b>> \o <<P, D, Q, X, Y>>
      \/ p = <<b, a>> \o <<P, D, Q, X, Y>>
  BY DEF Program, TuneIn
<1>2. {a, b, P, D, Q, X, Y} \subseteq Commands
  BY ConsoleLinkAssumption DEF Commands, Command, Args, Ops, Managers
<1>3. /\ a.op = "channel" /\ b.op = "modulation" /\ P.op = "power"
      /\ D.op = "domain" /\ Y.op = "upstream_rx" /\ X.op = "upstream_tx"
  BY DEF Command
<1>4. Settings(m) = {a, b, P, D, X, Y} /\ Tasks(m) = {a, b, P, D, X, Y, Q, Command("unset", 0)}
  BY DEF Settings, Tasks
<1>. HIDE DEF a, b, P, D, Q, X, Y
<1>5. ASSUME NEW x \in Commands, NEW y \in Commands, p = <<x, y>> \o <<P, D, Q, X, Y>>
      PROVE  /\ p \in Seq(Commands) /\ Len(p) = 7
             /\ p[1] = x /\ p[2] = y /\ p[3] = P /\ p[4] = D /\ p[5] = Q
             /\ p[6] = X /\ p[7] = Y
  BY <1>2, <1>5
<1>6. /\ p \in Seq(Commands) /\ Len(p) = 7
      /\ {p[1], p[2]} = {a, b} /\ p[3] = P /\ p[4] = D /\ p[5] = Q
      /\ p[6] = X /\ p[7] = Y
  <2>0. a \in Commands /\ b \in Commands
    BY <1>2
  <2>1. CASE p = <<a, b>> \o <<P, D, Q, X, Y>>
    BY <1>5, <2>0, <2>1
  <2>2. CASE p = <<b, a>> \o <<P, D, Q, X, Y>>
    BY <1>5, <2>0, <2>2
  <2>. QED BY <1>1, <2>1, <2>2
<1>7. p # <<>>
  BY <1>6
<1>8. \A c \in Settings(m) : \E i \in 1..Len(p) : p[i] = c
  <2>1. {1, 2, 3, 4, 6, 7} \subseteq 1..Len(p)
    BY <1>6
  <2>. QED BY <1>4, <1>6, <2>1
<1>9. ASSUME NEW i \in 1..Len(p)
      PROVE  /\ p[i] \in Tasks(m)
             /\ p[i].op \in {"status", "unset"} =>
                   \E j \in i + 1..Len(p) : p[j] = X
  <2>1. i \in {1, 2, 3, 4, 5, 6, 7}
    BY <1>6
  <2>2. p[i] \in Tasks(m)
    BY <1>4, <1>6, <2>1
  <2>3. i # 5 => p[i].op \notin {"status", "unset"}
    BY <1>3, <1>6, <2>1
  <2>4. i = 5 => 6 \in i + 1..Len(p)
    BY <1>6
  <2>. QED BY <1>6, <2>2, <2>3, <2>4
<1>. QED BY <1>6, <1>7, <1>8, <1>9 DEF X, Listed

LEMMA ConnectStep ==
  ASSUME LinkInv, Connect
  PROVE  LinkInv'
<1>. DEFINE p == Program(mgr.mod)
<1>1. /\ mgr \in Managers /\ mgr.pc = "down" /\ mgr.sent = FALSE
      /\ mgr' = [mgr EXCEPT !.pc = "applying", !.todo = p]
      /\ radio' = [radio EXCEPT !.known = radio.on] /\ radio \in Radios
      /\ Sound(radio.phy) /\ UNCHANGED <<sock, wire, spent>>
  BY DEF LinkInv, LinkTypeOK, Connect, TodoOK, Working, Managers
<1>. HIDE DEF p
<1>2. p \in Seq(Commands)
  BY <1>1, ProgramOutcome, mgr.channel = mgr.channel DEF p, Rate, Managers
<1>3. /\ mgr' \in Managers /\ mgr'.channel = mgr.channel /\ mgr'.todo = p
      /\ mgr'.pc = "applying" /\ mgr'.mod = mgr.mod /\ mgr'.sent = FALSE
  BY <1>1, <1>2 DEF Managers
<1>4. /\ p # <<>>
      /\ Listed(p, mgr')
      /\ \A c \in Settings(mgr') : \E i \in 1..Len(p) : p[i] = c
  <2>1. Rate(mgr') = mgr.mod
    BY <1>3 DEF Rate
  <2>2. p = Program(mgr.mod)
    BY DEF p
  <2>3. mgr \in Managers /\ mgr' \in Managers /\ mgr'.channel = mgr.channel
    BY <1>1, <1>3
  <2>4. Listed(p, mgr')
    BY ONLY <2>1, <2>2, <2>3, ProgramOutcome
  <2>5. p # <<>>
    BY ONLY <2>1, <2>2, <2>3, ProgramOutcome
  <2>6. \A c \in Settings(mgr') : \E i \in 1..Len(p) : p[i] = c
    BY ONLY <2>1, <2>2, <2>3, ProgramOutcome
  <2>. QED BY <2>4, <2>5, <2>6
<1>5. radio' \in Radios /\ radio'.phy = radio.phy /\ radio'.known = radio'.on
  BY <1>1 DEF Radios
<1>6. TodoOK(mgr')
  BY <1>3, <1>4 DEF TodoOK, Working
<1>7. SettingsOK(mgr', radio')
  BY <1>3, <1>4, <1>5 DEF SettingsOK
<1>8. LineOK(mgr', wire', sock', radio')
  BY <1>1, <1>3 DEF LinkInv, LineOK
<1>. QED BY <1>1, <1>3, <1>5, <1>6, <1>7, <1>8 DEF LinkInv, LinkTypeOK

LEMMA SendStep ==
  ASSUME LinkInv, Send
  PROVE  LinkInv'
<1>. DEFINE req == [cmd |-> Head(mgr.todo), mine |-> TRUE]
<1>1. /\ mgr \in Managers /\ mgr.sent = FALSE /\ Working(mgr)
      /\ mgr' = [mgr EXCEPT !.sent = TRUE]
      /\ wire' = Append(wire, req) /\ wire \in Seq(Requests)
      /\ sock' \in {sock, <<>>} /\ sock \in Seq(Replies)
      /\ UNCHANGED <<radio, spent>>
  BY DEF LinkInv, LinkTypeOK, Send, Busy, Working, Managers
<1>2. mgr' \in Managers
  BY <1>1 DEF Managers
<1>3. /\ mgr'.todo = mgr.todo /\ mgr'.pc = mgr.pc /\ mgr'.channel = mgr.channel
      /\ mgr'.mod = mgr.mod /\ mgr'.wanted = mgr.wanted /\ mgr'.sent = TRUE
  BY <1>1 DEF Managers
<1>4. TodoOK(mgr) /\ SettingsOK(mgr, radio)
  BY DEF LinkInv
<1>5. Working(mgr') /\ TodoOK(mgr') /\ SettingsOK(mgr', radio')
  BY <1>1, <1>2, <1>3, <1>4, SameTask
<1>6. Head(mgr.todo) \in Commands
  <2>1. mgr.todo \in Seq(Commands) /\ mgr.todo # <<>>
    BY <1>1 DEF LinkInv, TodoOK, Managers
  <2>. QED BY <2>1
<1>7. req \in Requests
  BY <1>6 DEF Requests
<1>8. Pings(wire) /\ Pongs(sock)
  BY <1>1 DEF LinkInv, LineOK
<1>9. sock' \in Seq(Replies) /\ Pongs(sock')
  <2>1. CASE sock' = sock
    BY <1>1, <1>8, <2>1
  <2>2. CASE sock' = <<>>
    BY <2>2 DEF Pongs
  <2>. QED BY <1>1, <2>1, <2>2
<1>. HIDE DEF req
<1>10. /\ wire' \in Seq(Requests) /\ wire' # <<>> /\ wire'[Len(wire')] = req
       /\ Len(wire') = Len(wire) + 1 /\ Len(wire) \in Nat
       /\ \A i \in 1..Len(wire') - 1 : wire'[i] = wire[i]
  <2>1. wire \in Seq(Requests) /\ Len(wire) \in Nat /\ wire' = Append(wire, req)
    BY <1>1
  <2>. QED BY ONLY <1>7, <2>1, Appended
<1>11. Asked(mgr', wire', sock')
  <2>1. \A i \in 1..Len(wire') - 1 : i \in 1..Len(wire)
    BY <1>10
  <2>. QED BY <1>3, <1>8, <1>9, <1>10, <2>1 DEF Asked, Pings, req
<1>12. LineOK(mgr', wire', sock', radio')
  BY <1>3, <1>5, <1>11 DEF LineOK, Working
<1>. QED BY <1>1, <1>2, <1>5, <1>9, <1>10, <1>12 DEF LinkInv, LinkTypeOK

LEMMA ReceivePongStep ==
  ASSUME LinkInv, ReceivePong
  PROVE  LinkInv'
<1>1. /\ mgr \in Managers /\ Working(mgr) /\ mgr.sent = TRUE
      /\ mgr' = [mgr EXCEPT !.pong = TRUE]
      /\ sock \in Seq(Replies) /\ sock # <<>> /\ sock' = Tail(sock)
      /\ UNCHANGED <<wire, radio, spent>>
  BY DEF LinkInv, LinkTypeOK, ReceivePong, Answer, Busy, Working, Managers
<1>2. /\ mgr' \in Managers /\ mgr'.todo = mgr.todo /\ mgr'.pc = mgr.pc
      /\ mgr'.channel = mgr.channel /\ mgr'.mod = mgr.mod
      /\ mgr'.wanted = mgr.wanted /\ mgr'.sent = mgr.sent
  BY <1>1 DEF Managers
<1>3. TodoOK(mgr) /\ SettingsOK(mgr, radio)
  BY DEF LinkInv
<1>4. TodoOK(mgr') /\ SettingsOK(mgr', radio')
  BY <1>1, <1>2, <1>3, SameTask
<1>5. /\ sock' \in Seq(Replies) /\ Len(sock') = Len(sock) - 1 /\ Len(sock) \in Nat
      /\ \A i \in 1..Len(sock') : sock'[i] = sock[i + 1]
  BY <1>1, Behind
<1>6. \A i \in 1..Len(sock') : i + 1 \in 1..Len(sock) /\ (i + 1 = Len(sock) => i = Len(sock'))
  BY <1>5
<1>7. Asked(mgr, wire, sock) => Asked(mgr', wire', sock')
  BY <1>1, <1>2, <1>5, <1>6 DEF Asked, Pongs
<1>8. Answered(mgr, wire, sock, radio) => Answered(mgr', wire', sock', radio')
  BY <1>1, <1>2, <1>5, <1>6 DEF Answered
<1>9. LineOK(mgr', wire', sock', radio')
  BY <1>1, <1>2, <1>7, <1>8 DEF LinkInv, LineOK, Working
<1>. QED BY <1>1, <1>2, <1>4, <1>5, <1>9 DEF LinkInv, LinkTypeOK

(* Nothing on its way, and on to the next command. *)
LEMMA ProceedStep ==
  ASSUME LinkInv, Busy, radio.known => InEffect(radio, Head(mgr.todo)),
         NEW reply, mgr' = Proceed(reply), wire' = <<>>, sock' = <<>>,
         radio' = radio, spent' \in Spendings
  PROVE  LinkInv'
<1>1. /\ mgr' \in Managers /\ TodoOK(mgr') /\ SettingsOK(mgr', radio)
      /\ ~mgr'.sent /\ mgr'.pc # "down"
  BY ProceedOutcome DEF LinkInv
<1>2. LineOK(mgr', wire', sock', radio')
  BY <1>1 DEF LineOK, Pings, Pongs
<1>3. wire' \in Seq(Requests) /\ sock' \in Seq(Replies)
  OBVIOUS
<1>. QED BY <1>1, <1>2, <1>3 DEF LinkInv, LinkTypeOK

(* Nothing on its way, and the console is dropped. *)
LEMMA DropStep ==
  ASSUME LinkInv, mgr' = Dropped, wire' = <<>>, sock' = <<>>,
         radio' = radio, spent' \in Spendings
  PROVE  LinkInv'
<1>1. mgr \in Managers /\ (radio.known => radio.on)
  BY DEF LinkInv, LinkTypeOK, SettingsOK
<1>2. /\ mgr' \in Managers /\ TodoOK(mgr') /\ SettingsOK(mgr', radio)
      /\ LineOK(mgr', <<>>, <<>>, radio)
  BY <1>1, DroppedOutcome
<1>3. wire' \in Seq(Requests) /\ sock' \in Seq(Replies)
  OBVIOUS
<1>. QED BY <1>2, <1>3 DEF LinkInv, LinkTypeOK

LEMMA NobodyAsked == wire = <<>> => Orphaned = <<>>
BY DEF Orphaned

LEMMA ReceiveOkStep ==
  ASSUME LinkInv, ReceiveOk
  PROVE  LinkInv'
<1>1. /\ Busy /\ sock # <<>> /\ Head(sock).kind = "ok" /\ sock \in Seq(Replies)
      /\ mgr' = Proceed(Head(sock)) /\ sock' = Tail(sock)
      /\ wire' = wire /\ radio' = radio /\ spent' = spent
      /\ mgr \in Managers /\ spent \in Spendings
  BY DEF LinkInv, LinkTypeOK, ReceiveOk, Answer
<1>2. /\ wire = <<>> /\ Tail(sock) = <<>>
      /\ radio.known => InEffect(radio, Head(mgr.todo))
  <2>1. LineOK(mgr, wire, sock, radio) /\ Head(sock).kind # "pong"
    BY <1>1 DEF LinkInv
  <2>2. mgr \in Managers /\ sock \in Seq(Replies) /\ sock # <<>>
    BY <1>1
  <2>3. Head(sock).kind = "ok"
    BY <1>1
  <2>4. /\ wire = <<>> /\ Tail(sock) = <<>>
        /\ Head(sock).kind = "ok" /\ radio.known => InEffect(radio, Head(mgr.todo))
    BY ONLY <2>1, <2>2, FirstInSocket
  <2>. QED BY ONLY <2>3, <2>4
<1>. QED BY <1>1, <1>2, ProceedStep

LEMMA StatusAsked ==
  ASSUME LinkInv, Asks("status")
  PROVE  InEffect(radio, Head(mgr.todo))
BY DEF Asks, InEffect

LEMMA ReceiveNokStep ==
  ASSUME LinkInv, ReceiveNok
  PROVE  LinkInv'
<1>1. /\ Busy /\ sock # <<>> /\ Head(sock).kind = "nok" /\ sock \in Seq(Replies)
      /\ radio' = radio /\ spent' = spent
      /\ mgr \in Managers /\ spent \in Spendings
  BY DEF LinkInv, LinkTypeOK, ReceiveNok, Answer
<1>2. wire = <<>> /\ Tail(sock) = <<>>
  BY <1>1, FirstInSocket DEF LinkInv
<1>3. CASE Asks("status")
  <2>1. mgr' = Proceed(NoStatus) /\ sock' = <<>> /\ wire' = <<>>
    BY <1>2, <1>3 DEF ReceiveNok
  <2>. QED BY <1>1, <1>3, <2>1, StatusAsked, ProceedStep
<1>4. CASE ~Asks("status")
  <2>1. mgr' = Dropped /\ sock' = <<>> /\ wire' = <<>>
    BY <1>2, <1>4, NobodyAsked DEF ReceiveNok, Fail, DropConsole
  <2>. QED BY <1>1, <2>1, DropStep
<1>. QED BY <1>3, <1>4

(* Without tardy answers a timeout passes when nothing is on its way. *)
LEMMA NothingOnItsWay ==
  ASSUME TARDY = 0, LinkInv, Overdue
  PROVE  sock = <<>> /\ wire = <<>> /\ spent' = spent /\ spent \in Spendings
<1>1. spent \in Spendings /\ ~(spent.tardy < TARDY)
  BY DEF LinkInv, LinkTypeOK, Spendings
<1>. QED BY <1>1 DEF Overdue

LEMMA TimeoutStep ==
  ASSUME TARDY = 0, LinkInv, Timeout
  PROVE  LinkInv'
<1>1. /\ sock = <<>> /\ wire = <<>> /\ spent' = spent /\ spent \in Spendings
      /\ Busy /\ radio' = radio /\ mgr \in Managers /\ Working(mgr)
  BY NothingOnItsWay DEF Timeout, LinkInv, LinkTypeOK, Busy, Working
<1>2. CASE Asks("status") /\ mgr' = Proceed(NoStatus) /\ UNCHANGED <<sock, wire>>
  BY <1>1, <1>2, StatusAsked, ProceedStep
<1>3. CASE mgr' = [mgr EXCEPT !.attempt = @ + 1, !.sent = FALSE] /\ UNCHANGED <<sock, wire>>
  <2>1. mgr.attempt + 1 \in Int
    BY <1>1 DEF Managers
  <2>2. PICK n \in Managers : n = [mgr EXCEPT !.attempt = mgr.attempt + 1]
    BY <1>1, <2>1, AttemptCounted
  <2>3. /\ mgr' = [n EXCEPT !.sent = FALSE]
        /\ n.todo = mgr.todo /\ n.pc = mgr.pc /\ n.channel = mgr.channel
        /\ n.mod = mgr.mod /\ n.wanted = mgr.wanted
    BY <1>1, <1>3, <2>2 DEF Managers
  <2>4. mgr' \in Managers
    BY <2>3 DEF Managers
  <2>5. /\ mgr'.todo = mgr.todo /\ mgr'.pc = mgr.pc /\ mgr'.channel = mgr.channel
        /\ mgr'.mod = mgr.mod /\ mgr'.wanted = mgr.wanted /\ mgr'.sent = FALSE
    BY <2>3 DEF Managers
  <2>6. TodoOK(mgr) /\ SettingsOK(mgr, radio)
    BY DEF LinkInv
  <2>7. TodoOK(mgr') /\ SettingsOK(mgr', radio')
    BY <1>1, <2>4, <2>5, <2>6, SameTask
  <2>8. LineOK(mgr', wire', sock', radio')
    BY <1>1, <1>3, <2>5 DEF LineOK, Pings, Pongs
  <2>. QED BY <1>1, <1>3, <2>4, <2>7, <2>8 DEF LinkInv, LinkTypeOK
<1>4. CASE Fail
  <2>1. mgr' = Dropped /\ sock' = <<>> /\ wire' = <<>>
    BY <1>1, <1>4, NobodyAsked DEF Fail, DropConsole
  <2>. QED BY <1>1, <2>1, DropStep
<1>. QED BY <1>2, <1>3, <1>4 DEF Timeout

LEMMA SetModulationStep ==
  ASSUME LinkInv, NEW mod \in Modulations, SetModulationCmd(mod)
  PROVE  LinkInv'
<1>. DEFINE c == Command("modulation", mod)
<1>1. /\ mgr \in Managers /\ mgr.pc = "held"
      /\ mgr' = [mgr EXCEPT !.pc = "changing", !.wanted = mod, !.todo = <<c>>]
      /\ spent \in Spendings /\ spent' = [spent EXCEPT !.changes = @ + 1]
      /\ UNCHANGED <<sock, wire, radio>>
  BY DEF LinkInv, LinkTypeOK, SetModulationCmd, Held
<1>2. mgr.sent = FALSE /\ mgr.todo = <<>>
  BY <1>1 DEF LinkInv, TodoOK, Working, Managers
<1>3. <<c>> \in Seq(Commands) /\ Len(<<c>>) = 1 /\ <<c>>[1] = c /\ c.op = "modulation"
  BY DEF Command, Commands, Args, Ops
<1>4. spent' \in Spendings
  BY <1>1 DEF Spendings
<1>5. mgr' \in Managers
  <2>. HIDE DEF c
  <2>. QED BY <1>1, <1>3 DEF Managers
<1>6. /\ mgr'.pc = "changing" /\ mgr'.todo = <<c>> /\ mgr'.sent = FALSE
      /\ mgr'.wanted = mod /\ mgr'.channel = mgr.channel
  BY <1>1, <1>2 DEF Managers
<1>7. Rate(mgr') = mod /\ c \in Settings(mgr') /\ Working(mgr')
  BY <1>6 DEF Rate, Settings, Working
<1>8. Settings(mgr') \subseteq Settings(mgr) \cup {c}
  BY <1>6, <1>7 DEF Settings
<1>. HIDE DEF c
<1>9. TodoOK(mgr')
  BY <1>3, <1>6, <1>7 DEF TodoOK, Listed, Tasks
<1>10. SettingsOK(mgr', radio')
  <2>1. ASSUME radio.known
        PROVE  radio.on /\ \A s \in Settings(mgr) : InEffect(radio, s)
    BY <1>1, <1>2, <2>1 DEF LinkInv, SettingsOK
  <2>2. 1 \in 1..Len(mgr'.todo) /\ mgr'.todo[1] = c
    BY <1>3, <1>6
  <2>. QED BY <1>1, <1>8, <2>1, <2>2 DEF SettingsOK
<1>11. LineOK(mgr', wire', sock', radio')
  BY <1>1, <1>2, <1>6 DEF LinkInv, LineOK
<1>. QED BY <1>1, <1>4, <1>5, <1>9, <1>10, <1>11 DEF LinkInv, LinkTypeOK

(* A manager that holds the console and asks nothing has no more to do. *)
LEMMA HeldOutcome ==
  ASSUME LinkInv, Held, NEW m \in Managers,
         m.pc = mgr.pc, m.todo = mgr.todo, m.sent = mgr.sent,
         m.channel = mgr.channel, m.mod = mgr.mod, m.wanted = mgr.wanted
  PROVE  /\ TodoOK(m) /\ SettingsOK(m, radio) /\ m.pc = "held" /\ ~m.sent
         /\ Pings(wire) /\ Pongs(sock)
<1>1. /\ mgr \in Managers /\ mgr.pc = "held" /\ mgr.todo = <<>> /\ ~mgr.sent
      /\ SettingsOK(mgr, radio) /\ LineOK(mgr, wire, sock, radio)
  BY DEF LinkInv, LinkTypeOK, Held, TodoOK, Working
<1>2. Settings(m) = Settings(mgr)
  BY DEF Settings, Rate
<1>3. TodoOK(m)
  BY <1>1 DEF TodoOK, Listed, Working
<1>4. SettingsOK(m, radio)
  BY <1>1, <1>2 DEF SettingsOK
<1>. QED BY <1>1, <1>3, <1>4 DEF LineOK

LEMMA OnConsoleStep ==
  ASSUME LinkInv, OnConsole
  PROVE  LinkInv'
<1>. DEFINE p == mgr.pinged /\ \A i \in DOMAIN sock : sock[i].kind # "pong"
<1>1. /\ Held /\ mgr \in Managers /\ mgr' = [mgr EXCEPT !.pinged = p] /\ p \in BOOLEAN
      /\ sock' = <<>> /\ UNCHANGED <<wire, radio, spent>>
  BY DEF LinkInv, LinkTypeOK, OnConsole
<1>. HIDE DEF p
<1>2. /\ mgr' \in Managers /\ mgr'.todo = mgr.todo /\ mgr'.pc = mgr.pc
      /\ mgr'.channel = mgr.channel /\ mgr'.mod = mgr.mod
      /\ mgr'.wanted = mgr.wanted /\ mgr'.sent = mgr.sent
  BY <1>1 DEF Managers
<1>3. /\ TodoOK(mgr') /\ SettingsOK(mgr', radio) /\ mgr'.pc = "held" /\ ~mgr'.sent
      /\ Pings(wire)
  BY <1>1, <1>2, HeldOutcome
<1>4. LineOK(mgr', wire', sock', radio')
  BY <1>1, <1>3 DEF LineOK, Pongs
<1>5. sock' \in Seq(Replies)
  BY <1>1
<1>. QED BY <1>1, <1>2, <1>3, <1>4, <1>5 DEF LinkInv, LinkTypeOK

LEMMA PingStep ==
  ASSUME LinkInv, Ping
  PROVE  LinkInv'
<1>. DEFINE req == [cmd |-> Command("ping", 0), mine |-> TRUE]
<1>1. /\ Held /\ mgr \in Managers /\ mgr' = [mgr EXCEPT !.pinged = TRUE]
      /\ wire \in Seq(Requests) /\ wire' = Append(wire, req)
      /\ UNCHANGED <<sock, radio, spent>>
  BY DEF LinkInv, LinkTypeOK, Ping
<1>2. /\ mgr' \in Managers /\ mgr'.todo = mgr.todo /\ mgr'.pc = mgr.pc
      /\ mgr'.channel = mgr.channel /\ mgr'.mod = mgr.mod
      /\ mgr'.wanted = mgr.wanted /\ mgr'.sent = mgr.sent
  BY <1>1 DEF Managers
<1>3. /\ TodoOK(mgr') /\ SettingsOK(mgr', radio) /\ mgr'.pc = "held" /\ ~mgr'.sent
      /\ Pings(wire) /\ Pongs(sock)
  BY <1>1, <1>2, HeldOutcome
<1>4. req \in Requests
  BY DEF Requests, Commands, Command, Ops, Args
<1>5. req.mine /\ req.cmd = Command("ping", 0)
  OBVIOUS
<1>. HIDE DEF req
<1>6. /\ wire' \in Seq(Requests) /\ Len(wire') = Len(wire) + 1 /\ Len(wire) \in Nat
      /\ wire'[Len(wire')] = req /\ \A i \in 1..Len(wire') - 1 : wire'[i] = wire[i]
  BY <1>1, <1>4, Appended
<1>7. Pings(wire')
  <2>1. ASSUME NEW i \in 1..Len(wire')
        PROVE  wire'[i].mine /\ wire'[i].cmd = Command("ping", 0)
    <3>1. CASE i = Len(wire')
      BY <1>5, <1>6, <3>1
    <3>2. CASE i # Len(wire')
      <4>1. i \in 1..Len(wire) /\ i \in 1..Len(wire') - 1
        BY <1>6, <3>2
      <4>. QED BY <1>3, <1>6, <4>1 DEF Pings
    <3>. QED BY <3>1, <3>2
  <2>. QED BY <2>1 DEF Pings
<1>8. LineOK(mgr', wire', sock', radio')
  BY <1>1, <1>3, <1>7 DEF LineOK
<1>. QED BY <1>1, <1>2, <1>3, <1>6, <1>8 DEF LinkInv, LinkTypeOK

LEMMA PingTimeoutStep ==
  ASSUME TARDY = 0, LinkInv, PingTimeout
  PROVE  LinkInv'
<1>1. sock = <<>> /\ wire = <<>> /\ spent' = spent /\ spent \in Spendings
  BY NothingOnItsWay DEF PingTimeout
<1>2. mgr' = Dropped /\ sock' = <<>> /\ wire' = <<>> /\ radio' = radio
  BY <1>1, NobodyAsked DEF PingTimeout, DropConsole
<1>. QED BY <1>1, <1>2, DropStep

LEMMA RefusedStep ==
  ASSUME LinkInv, Refused
  PROVE  LinkInv'
<1>1. spent \in Spendings
  BY DEF LinkInv, LinkTypeOK
<1>. QED BY <1>1, DropStep DEF Refused

-----------------------------------------------------------------------------
(***************************************************************************)
(* The steps of the radio.                                                 *)
(***************************************************************************)

(* A command changes nothing that is set and not to be set again. *)
LEMMA ObeyedAsListed ==
  ASSUME NEW r \in Radios, Sound(r.phy), NEW m \in Managers, Working(m),
         TodoOK(m), SettingsOK(m, r), NEW o \in Obey(r, Head(m.todo))
  PROVE  /\ o.state \in Radios /\ Sound(o.state.phy) /\ SettingsOK(m, o.state)
         /\ o.ok => InEffect(o.state, Head(m.todo))
<1>. DEFINE T == m.todo
            c == Head(T)
            tx == Command("upstream_tx", Ours)
<1>1. /\ T \in Seq(Commands) /\ T # <<>> /\ Len(T) \in Nat \ {0} /\ c = T[1]
      /\ 1 \in 1..Len(T)
  BY DEF Managers, TodoOK
<1>2. /\ c \in Tasks(m)
      /\ c.op = "unset" => \E j \in 1..Len(T) : T[j] = tx
  BY <1>1 DEF TodoOK, Listed
<1>3. /\ o.state \in Radios /\ Sound(o.state.phy)
      /\ o.state.on = r.on /\ o.state.known = r.known
      /\ o.ok => InEffect(o.state, c)
      /\ \A s \in Settings(m) :
            /\ InEffect(r, s) /\ s.op # c.op
            /\ c.op = "unset" => s.op # "upstream_tx"
            => InEffect(o.state, s)
  <2>1. c \in Tasks(m) \cup {Command("ping", 0)}
    BY <1>2
  <2>. HIDE DEF c
  <2>2. o \in Obey(r, c)
    BY DEF c
  <2>. QED BY <2>1, <2>2, ObeyOutcome
<1>4. \A s \in Settings(m) :
         /\ s.op = c.op => s = c
         /\ s.op = "upstream_tx" => s = tx
  BY <1>2 DEF Tasks, Settings, Command
<1>. HIDE DEF c, T
<1>5. ASSUME r.known, NEW s \in Settings(m)
      PROVE  InEffect(o.state, s) \/ \E i \in 1..Len(T) : T[i] = s
  <2>1. CASE s.op = c.op
    BY <1>1, <1>4, <2>1
  <2>2. CASE c.op = "unset" /\ s.op = "upstream_tx"
    BY <1>2, <1>4, <2>2
  <2>3. CASE s.op # c.op /\ (c.op = "unset" => s.op # "upstream_tx")
    <3>1. InEffect(r, s) \/ \E i \in 1..Len(T) : T[i] = s
      BY <1>5 DEF SettingsOK, Working, T
    <3>. QED BY <1>3, <2>3, <3>1
  <2>. QED BY <2>1, <2>2, <2>3
<1>6. SettingsOK(m, o.state)
  BY <1>3, <1>5 DEF SettingsOK, T
<1>. QED BY <1>3, <1>6 DEF c, T

LEMMA ReplyIsReply ==
  ASSUME NEW r \in Radios, NEW op, NEW ok
  PROVE  Reply(r, op, ok) \in Replies
BY DEF Reply, Replies, Radios, Owners

LEMMA OnDatagramStep ==
  ASSUME LinkInv, OnDatagram
  PROVE  LinkInv'
<1>. DEFINE c == Head(wire).cmd
<1>1. /\ mgr \in Managers /\ mgr' = mgr /\ sock \in Seq(Replies)
      /\ wire \in Seq(Requests) /\ wire # <<>> /\ wire' = Tail(wire)
      /\ radio \in Radios /\ Sound(radio.phy) /\ spent \in Spendings
      /\ TodoOK(mgr) /\ SettingsOK(mgr, radio) /\ LineOK(mgr, wire, sock, radio)
  BY DEF LinkInv, LinkTypeOK, OnDatagram
<1>2. /\ Pongs(sock) /\ Head(wire).mine
      /\ \/ c = Command("ping", 0)
         \/ mgr.sent /\ Len(wire) = 1 /\ c = Head(mgr.todo)
  BY <1>1, FirstOnWire
<1>3. PICK o \in Obey(radio, c) :
        /\ radio' = o.state
        /\ \/ sock' = Append(sock, Reply(o.state, c.op, o.ok)) /\ spent' = spent
           \/ Lost /\ sock' = sock
  BY <1>2 DEF OnDatagram
<1>4. spent' \in Spendings
  BY <1>1, <1>3 DEF Lost, Spendings
<1>5. wire' \in Seq(Requests)
  BY <1>1, Behind
<1>6. ASSUME Pongs(sock')
      PROVE  LineOK(mgr', wire', sock', radio')
  BY <1>1, <1>6, RequestGone
<1>7. CASE c = Command("ping", 0)
  <2>1. o = [state |-> radio, ok |-> TRUE]
    BY <1>3, <1>7 DEF Obey, Command, Done
  <2>2. radio' = radio
    BY <1>3, <2>1
  <2>3. Reply(o.state, c.op, o.ok) \in Replies /\ Reply(o.state, c.op, o.ok).kind = "pong"
    <3>1. o.state \in Radios /\ c.op = "ping"
      BY <1>1, <1>7, <2>1 DEF Command
    <3>2. Reply(o.state, c.op, o.ok) \in Replies
      BY <3>1, ReplyIsReply
    <3>. QED BY <3>1, <3>2 DEF Reply
  <2>4. sock' \in Seq(Replies) /\ Pongs(sock')
    <3>1. CASE sock' = sock
      BY <1>1, <1>2, <3>1
    <3>2. CASE sock' = Append(sock, Reply(o.state, c.op, o.ok))
      <4>1. PICK a \in Replies : a.kind = "pong" /\ sock' = Append(sock, a)
        BY <2>3, <3>2
      <4>2. /\ sock' \in Seq(Replies) /\ Len(sock') = Len(sock) + 1 /\ Len(sock) \in Nat
            /\ sock'[Len(sock')] = a /\ \A i \in 1..Len(sock') - 1 : sock'[i] = sock[i]
        BY <1>1, <4>1, Appended
      <4>3. ASSUME NEW i \in 1..Len(sock') PROVE sock'[i].kind = "pong"
        <5>1. CASE i = Len(sock')
          BY <4>1, <4>2, <5>1
        <5>2. CASE i # Len(sock')
          <6>1. i \in 1..Len(sock) /\ i \in 1..Len(sock') - 1
            BY <4>2, <5>2
          <6>. QED BY <1>2, <4>2, <6>1 DEF Pongs
        <5>. QED BY <5>1, <5>2
      <4>. QED BY <4>2, <4>3 DEF Pongs
    <3>. QED BY <1>3, <3>1, <3>2
  <2>. QED BY <1>1, <1>4, <1>5, <1>6, <2>2, <2>4 DEF LinkInv, LinkTypeOK
<1>8. CASE mgr.sent /\ Len(wire) = 1 /\ c = Head(mgr.todo)
  <2>1. Working(mgr)
    BY <1>1, <1>8 DEF TodoOK
  <2>2. /\ o.state \in Radios /\ Sound(o.state.phy) /\ SettingsOK(mgr, o.state)
        /\ o.ok => InEffect(o.state, Head(mgr.todo))
    BY <1>1, <1>8, <2>1, ObeyedAsListed
  <2>3. wire' = <<>>
    BY <1>1, <1>8
  <2>4. CASE sock' = sock
    BY <1>1, <1>2, <1>3, <1>4, <1>5, <1>6, <2>2, <2>4 DEF LinkInv, LinkTypeOK
  <2>5. CASE sock' = Append(sock, Reply(o.state, c.op, o.ok))
    <3>1. Reply(o.state, c.op, o.ok) \in Replies
      BY <2>2, ReplyIsReply
    <3>2. PICK a \in Replies : a = Reply(o.state, c.op, o.ok) /\ sock' = Append(sock, a)
      BY <2>5, <3>1
    <3>3. a.kind = "ok" => o.ok
      BY <3>2 DEF Reply
    <3>4. /\ sock' \in Seq(Replies) /\ Len(sock') = Len(sock) + 1 /\ Len(sock) \in Nat
          /\ sock'[Len(sock')] = a /\ \A i \in 1..Len(sock') - 1 : sock'[i] = sock[i]
      BY <1>1, <3>2, Appended
    <3>5. ASSUME NEW i \in 1..Len(sock'), sock'[i].kind # "pong"
          PROVE  /\ i = Len(sock')
                 /\ sock'[i].kind = "ok" => InEffect(radio', Head(mgr.todo))
      <4>1. i = Len(sock')
        <5>1. SUFFICES ASSUME i # Len(sock') PROVE FALSE
          OBVIOUS
        <5>2. i \in 1..Len(sock) /\ i \in 1..Len(sock') - 1
          BY <3>4, <5>1
        <5>. QED BY <1>2, <3>4, <3>5, <5>2 DEF Pongs
      <4>. QED BY <1>3, <2>2, <3>3, <3>4, <4>1
    <3>6. Answered(mgr', wire', sock', radio')
      BY <1>1, <2>3, <3>5 DEF Answered
    <3>7. LineOK(mgr', wire', sock', radio')
      BY <1>1, <1>8, <2>1, <3>6 DEF LineOK, Working
    <3>. QED BY <1>1, <1>3, <1>4, <1>5, <2>2, <3>4, <3>7 DEF LinkInv, LinkTypeOK
  <2>. QED BY <1>3, <2>4, <2>5
<1>. QED BY <1>2, <1>7, <1>8

LEMMA LoseRequestStep ==
  ASSUME LinkInv, LoseRequest
  PROVE  LinkInv'
<1>1. /\ mgr \in Managers /\ wire \in Seq(Requests) /\ wire # <<>>
      /\ wire' = Tail(wire) /\ UNCHANGED <<mgr, sock, radio>>
      /\ LineOK(mgr, wire, sock, radio) /\ spent \in Spendings
      /\ spent' = [spent EXCEPT !.losses = @ + 1]
  BY DEF LinkInv, LinkTypeOK, LoseRequest, Lost
<1>2. wire' \in Seq(Requests)
  BY <1>1, Behind
<1>3. LineOK(mgr, wire', sock, radio)
  BY <1>1, RequestGone
<1>4. spent' \in Spendings
  BY <1>1 DEF Spendings
<1>. QED BY <1>1, <1>2, <1>3, <1>4 DEF LinkInv, LinkTypeOK

LEMMA NobodyListensStep ==
  ASSUME LinkInv, NobodyListens
  PROVE  LinkInv'
<1>1. /\ mgr \in Managers /\ wire \in Seq(Requests) /\ wire # <<>>
      /\ wire' = Tail(wire) /\ UNCHANGED <<mgr, sock, spent>>
      /\ LineOK(mgr, wire, sock, radio) /\ radio \in Radios /\ Sound(radio.phy)
      /\ radio' = [radio EXCEPT !.missed = TRUE] /\ ~radio.on
      /\ SettingsOK(mgr, radio)
  BY DEF LinkInv, LinkTypeOK, NobodyListens
<1>2. radio' \in Radios /\ radio'.phy = radio.phy /\ radio'.known = radio.known
  BY <1>1 DEF Radios
<1>3. ~radio.known
  BY <1>1 DEF SettingsOK
<1>4. wire' \in Seq(Requests)
  BY <1>1, Behind
<1>5. LineOK(mgr, wire', sock, radio')
  BY <1>1, RequestGone
<1>6. SettingsOK(mgr, radio')
  BY <1>2, <1>3 DEF SettingsOK
<1>. QED BY <1>1, <1>2, <1>4, <1>5, <1>6 DEF LinkInv, LinkTypeOK

LEMMA RadioDownStep ==
  ASSUME LinkInv, RadioDown
  PROVE  LinkInv'
<1>1. /\ mgr \in Managers /\ UNCHANGED <<mgr, sock>> /\ wire' = <<>>
      /\ LineOK(mgr, wire, sock, radio) /\ radio \in Radios /\ Sound(radio.phy)
      /\ radio' = [radio EXCEPT !.on = FALSE, !.missed = FALSE, !.known = FALSE]
      /\ spent \in Spendings /\ spent' = [spent EXCEPT !.restarts = @ + 1]
  BY DEF LinkInv, LinkTypeOK, RadioDown
<1>2. radio' \in Radios /\ radio'.phy = radio.phy /\ radio'.known = FALSE
  BY <1>1 DEF Radios
<1>3. SettingsOK(mgr, radio')
  BY <1>2 DEF SettingsOK
<1>4. LineOK(mgr, wire', sock, radio')
  BY <1>1, <1>2 DEF LineOK, Pings, Asked, Answered, Pongs
<1>5. spent' \in Spendings /\ wire' \in Seq(Requests)
  BY <1>1 DEF Spendings
<1>. QED BY <1>1, <1>2, <1>3, <1>4, <1>5 DEF LinkInv, LinkTypeOK

LEMMA BootedOutcome ==
  ASSUME NEW b \in BOOTS, NEW faults \in Nat, NEW r, r = Booted(b, faults)
  PROVE  r \in Radios /\ Sound(r.phy) /\ r.known = FALSE
<1>1. /\ b.ch \in CHANNELS /\ b.mod \in Modulations /\ b.tx \in Owners
      /\ b.rx \in Owners /\ ModulationOk(b.mod, b.ch) /\ 0 \in TUNES
  BY ConsoleLinkAssumption, WifiPhyAssumption
<1>2. /\ r.phy = [ready |-> TRUE, started |-> TRUE, ch |-> b.ch, mod |-> b.mod,
                  tune |-> 0, drvCh |-> b.ch, rate |-> b.mod, mask |-> MaskFor(b.ch),
                  left |-> faults]
      /\ r = [on |-> TRUE, missed |-> FALSE, known |-> FALSE, phy |-> r.phy,
              domain |-> "none", tx |-> b.tx, rx |-> b.rx]
  BY DEF Booted, Cold
<1>3. Sound(r.phy)
  BY <1>1, <1>2 DEF Sound, PhyStates, MaskFor, Masks
<1>4. r.phy \in PhyStates
  BY <1>3 DEF Sound
<1>5. r \in Radios
  <2>1. PICK p \in PhyStates : p = r.phy
    BY <1>4
  <2>2. r = [on |-> TRUE, missed |-> FALSE, known |-> FALSE, phy |-> p,
             domain |-> "none", tx |-> b.tx, rx |-> b.rx]
    BY <1>2, <2>1
  <2>. QED BY ONLY <1>1, <2>2, p \in PhyStates DEF Radios
<1>6. r.known = FALSE
  BY DEF Booted
<1>. QED BY <1>3, <1>5, <1>6

LEMMA RadioBootStep ==
  ASSUME LinkInv, RadioBoot
  PROVE  LinkInv'
<1>1. /\ mgr \in Managers /\ UNCHANGED <<mgr, sock, wire, spent>>
      /\ LineOK(mgr, wire, sock, radio) /\ radio \in Radios /\ Sound(radio.phy)
      /\ ~radio.on /\ SettingsOK(mgr, radio)
      /\ mgr.pc \in {"down", "held"}
  BY DEF LinkInv, LinkTypeOK, RadioBoot, Connected, Held
<1>2. PICK b \in BOOTS : radio' = Booted(b, radio.phy.left)
  BY DEF RadioBoot
<1>3. radio' \in Radios /\ Sound(radio'.phy) /\ radio'.known = FALSE
  <2>1. radio.phy.left \in Nat
    BY <1>1 DEF Sound, PhyStates
  <2>. QED BY <1>2, <2>1, BootedOutcome
<1>4. SettingsOK(mgr, radio')
  BY <1>3 DEF SettingsOK
<1>5. LineOK(mgr, wire, sock, radio')
  BY <1>1, <1>3 DEF LineOK, Answered
<1>. QED BY <1>1, <1>3, <1>4, <1>5 DEF LinkInv, LinkTypeOK

-----------------------------------------------------------------------------
(***************************************************************************)
(* The theorem.                                                            *)
(***************************************************************************)

LEMMA LinkInit == Init => LinkInv
<1> SUFFICES ASSUME Init PROVE LinkInv
  OBVIOUS
<1>1. PICK channel \in CHANNELS, mod \in Modulations :
        mgr = [channel |-> channel, pc |-> "down", todo |-> <<>>, attempt |-> 1,
               sent |-> FALSE, pinged |-> FALSE, pong |-> FALSE, mod |-> mod,
               wanted |-> mod]
  BY DEF Init
<1>2. /\ mgr \in Managers /\ mgr.pc = "down" /\ mgr.todo = <<>> /\ ~mgr.sent
  BY <1>1 DEF Managers
<1>3. radio \in Radios /\ Sound(radio.phy) /\ ~radio.known
  <2>1. PHY_FAULTS \in Nat
    BY ConsoleLinkAssumption
  <2>. QED BY <2>1, BootedOutcome DEF Init
<1>4. sock = <<>> /\ wire = <<>> /\ spent \in Spendings
  BY DEF Init, Spendings
<1>5. TodoOK(mgr)
  BY <1>2 DEF TodoOK, Listed, Working
<1>6. SettingsOK(mgr, radio) /\ LineOK(mgr, wire, sock, radio)
  BY <1>2, <1>3, <1>4 DEF SettingsOK, LineOK, Pings, Pongs
<1>. QED BY <1>2, <1>3, <1>4, <1>5, <1>6 DEF LinkInv, LinkTypeOK

LEMMA LinkNext ==
  ASSUME TARDY = 0
  PROVE  LinkInv /\ [Next]_vars => LinkInv'
<1> SUFFICES ASSUME LinkInv, [Next]_vars PROVE LinkInv'
  OBVIOUS
<1>1. CASE Manager
  BY <1>1, ConnectStep, SendStep, ReceivePongStep, ReceiveOkStep, ReceiveNokStep,
     TimeoutStep, OnConsoleStep, PingStep, PingTimeoutStep DEF Manager
<1>2. CASE \E mod \in Modulations : SetModulationCmd(mod)
  BY <1>2, SetModulationStep
<1>3. CASE Refused
  BY <1>3, RefusedStep
<1>4. CASE OnDatagram \/ LoseRequest \/ NobodyListens
  BY <1>4, OnDatagramStep, LoseRequestStep, NobodyListensStep
<1>5. CASE RadioDown \/ RadioBoot
  BY <1>5, RadioDownStep, RadioBootStep
<1>6. CASE UNCHANGED vars
  BY <1>6 DEF vars, LinkInv, LinkTypeOK
<1>. QED BY <1>1, <1>2, <1>3, <1>4, <1>5, <1>6 DEF Next

LEMMA HeldIsSet == LinkInv => HeldAsConfigured
<1> SUFFICES ASSUME LinkInv, Held, radio.known PROVE AsConfigured
  BY DEF HeldAsConfigured
<1>1. mgr.pc = "held" /\ mgr.todo = <<>> /\ Rate(mgr) = mgr.mod
  BY DEF LinkInv, TodoOK, Held, Working, Rate
<1>2. radio.on /\ \A c \in Settings(mgr) : InEffect(radio, c)
  BY <1>1 DEF LinkInv, SettingsOK
<1>3. radio.phy.ch = mgr.channel /\ radio.phy.mod = mgr.mod /\ radio.phy.tune = POWER
  BY <1>1, <1>2 DEF Settings, InEffect, Command
<1>4. radio.domain = Ours /\ radio.tx = Ours /\ radio.rx = Ours
  BY <1>2 DEF Settings, InEffect, Command
<1>. QED BY <1>2, <1>3, <1>4 DEF AsConfigured

(* While the manager holds the console of a radio that has not restarted    *)
(* since it connected, the radio is set to all the manager believes it is   *)
(* set to, as long as no answer misses its timeout: send_cmd() then takes   *)
(* no answer for that of another command.                                   *)
THEOREM HeldIsConfigured ==
  ASSUME TARDY = 0
  PROVE  Spec => []HeldAsConfigured
<1>1. LinkInv /\ [Next]_vars => LinkInv'
  BY LinkNext
<1>. QED BY <1>1, LinkInit, HeldIsSet, PTL DEF Spec

=============================================================================

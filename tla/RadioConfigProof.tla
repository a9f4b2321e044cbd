-------------------------- MODULE RadioConfigProof --------------------------
(***************************************************************************)
(* Proofs about RadioConfig, for every set of slots, channels and          *)
(* addresses and every number of commands, power failures and refused      *)
(* calls: what a boot finds, what is in effect after it, what a refused    *)
(* command leaves, and how the radio keeps an address.                     *)
(***************************************************************************)
EXTENDS RadioConfig, TLAPS

-----------------------------------------------------------------------------
(***************************************************************************)
(* The radio.  An external call succeeds, or is refused once more.         *)
(***************************************************************************)

PhyStates ==
    [ready : BOOLEAN, started : BOOLEAN, ch : CHANNELS, mod : Modulations,
     tune : TUNES, drvCh : CHANNELS, rate : Modulations, mask : Masks,
     left : Nat]

Sound(w) == w \in PhyStates /\ ModulationOk(w.mod, w.ch)

(* What the object stores is the same in both, and x comes later. *)
SameObject(w, x) ==
    /\ x \in PhyStates
    /\ x.ready = w.ready /\ x.ch = w.ch /\ x.mod = w.mod /\ x.tune = w.tune
    /\ x.left <= w.left

(* The driver runs with the stored values. *)
InStep(w) == w.started /\ DriverAsStored(w)

(* A setter: the driver stays in step when it refuses at most one call. *)
StaysInStep(w, x) ==
    /\ Sound(x) /\ x.ready = w.ready /\ x.left <= w.left
    /\ InStep(w) /\ x.left >= w.left - 1 => InStep(x)

LEMMA CallOutcome ==
  ASSUME NEW s, NEW t, NEW o \in Call(s, t)
  PROVE  \/ o.ok /\ o.state = t
         \/ s.left > 0 /\ ~o.ok /\ o.state = [s EXCEPT !.left = @ - 1]
BY DEF Call, Done, Failed

LEMMA CallRecord ==
  ASSUME NEW s, NEW t, NEW o \in Call(s, t)
  PROVE  o = [state |-> o.state, ok |-> o.ok]
BY DEF Call, Done, Failed

LEMMA StepsCompose ==
  ASSUME NEW w, NEW x, NEW y, Sound(w), StaysInStep(w, x), StaysInStep(x, y)
  PROVE  StaysInStep(w, y)
<1>1. w.left \in Nat /\ x.left \in Nat /\ y.left \in Nat
  BY DEF StaysInStep, Sound, PhyStates
<1>. QED BY <1>1 DEF StaysInStep

LEMMA OnceRefused ==
  ASSUME NEW w \in PhyStates, w.left > 0
  PROVE  [w EXCEPT !.left = @ - 1] \in PhyStates
BY DEF PhyStates

LEMMA MaskIsMask == ASSUME NEW ch PROVE MaskFor(ch) \in Masks
BY DEF MaskFor, Masks

LEMMA SetProtocolOutcome ==
  ASSUME NEW w \in PhyStates, NEW o \in SetProtocol(w)
  PROVE  /\ SameObject(w, o.state)
         /\ o.state.started = w.started /\ o.state.drvCh = w.drvCh
         /\ o.state.rate = w.rate
         /\ o.ok => o.state.left = w.left /\ o.state.mask = MaskFor(w.ch)
         /\ ~o.ok => o.state.left = w.left - 1 /\ o.state.mask = w.mask
<1>1. o \in Call(w, [w EXCEPT !.mask = MaskFor(w.ch)])
  BY DEF SetProtocol
<1>2. MaskFor(w.ch) \in Masks
  BY MaskIsMask
<1>3. CASE o.ok /\ o.state = [w EXCEPT !.mask = MaskFor(w.ch)]
  BY <1>2, <1>3 DEF SameObject, PhyStates
<1>4. CASE w.left > 0 /\ ~o.ok /\ o.state = [w EXCEPT !.left = @ - 1]
  BY <1>4 DEF SameObject, PhyStates
<1>. QED BY <1>1, <1>3, <1>4, CallOutcome

LEMMA ApplyChannelOutcome ==
  ASSUME NEW w \in PhyStates, NEW o \in ApplyChannel(w)
  PROVE  /\ SameObject(w, o.state)
         /\ o.state.started = w.started /\ o.state.rate = w.rate
         /\ o.state.mask = w.mask
         /\ o.ok => w.started /\ o.state.drvCh = w.ch
         /\ ~o.ok => o.state.drvCh = w.drvCh
         /\ ~o.ok /\ w.started => o.state.left < w.left
<1>1. CASE ~w.started
  BY <1>1 DEF ApplyChannel, Failed, SameObject, PhyStates
<1>2. CASE w.started
  <2>1. o \in Call(w, [w EXCEPT !.drvCh = w.ch])
    BY <1>2 DEF ApplyChannel
  <2>2. CASE o.ok /\ o.state = [w EXCEPT !.drvCh = w.ch]
    <3>1. /\ SameObject(w, o.state)
          /\ o.state.started = w.started /\ o.state.rate = w.rate
          /\ o.state.mask = w.mask
          /\ o.state.drvCh = w.ch
      BY <2>2 DEF SameObject, PhyStates
    <3>. QED BY <1>2, <2>2, <3>1
  <2>3. CASE w.left > 0 /\ ~o.ok /\ o.state = [w EXCEPT !.left = @ - 1]
    BY <2>3 DEF SameObject, PhyStates
  <2>. QED BY <2>1, <2>2, <2>3, CallOutcome
<1>. QED BY <1>1, <1>2

LEMMA LoadRateOutcome ==
  ASSUME NEW w \in PhyStates, NEW o \in LoadRate(w)
  PROVE  /\ SameObject(w, o.state)
         /\ o.state.started = w.started /\ o.state.drvCh = w.drvCh
         /\ o.ok => o.state.rate = w.mod
         /\ ~o.ok => o.state.rate = w.rate /\ o.state.left = w.left - 1
         /\ o.state.left = w.left => o.ok /\ o.state.mask = MaskFor(w.ch)
<1>. DEFINE v == [w EXCEPT !.rate = w.mod, !.mask = "bg"]
<1>1. PICK p \in Call(w, v) :
         o \in IF p.ok THEN Ignored(SetProtocol(p.state)) ELSE {p}
  BY DEF LoadRate, Then
<1>2. CASE p.ok /\ p.state = v
  <2>1. v \in PhyStates
    BY DEF PhyStates, Masks
  <2>2. PICK q \in SetProtocol(v) : o = [q EXCEPT !.ok = TRUE]
    BY <1>1, <1>2 DEF Ignored
  <2>3. /\ SameObject(v, q.state)
        /\ q.state.started = v.started /\ q.state.drvCh = v.drvCh
        /\ q.state.rate = v.rate
        /\ q.ok => q.state.mask = MaskFor(v.ch)
        /\ ~q.ok => q.state.left = v.left - 1
    BY <2>1, SetProtocolOutcome
  <2>4. q = [state |-> q.state, ok |-> q.ok]
    BY CallRecord DEF SetProtocol
  <2>5. o.state = q.state /\ o.ok = TRUE
    BY <2>2, <2>4
  <2>. QED BY <2>3, <2>5 DEF SameObject, PhyStates
<1>3. CASE w.left > 0 /\ ~p.ok /\ p.state = [w EXCEPT !.left = @ - 1]
  <2>1. o = p
    BY <1>1, <1>3
  <2>. QED BY <1>3, <2>1 DEF SameObject, PhyStates
<1>. QED BY <1>1, <1>2, <1>3, CallOutcome

(* start() of the driver never changes what it is set to. *)
LEMMA StartOutcome ==
  ASSUME NEW w \in PhyStates, NEW o \in Start(w)
  PROVE  /\ SameObject(w, o.state) /\ o.state.drvCh = w.drvCh
         /\ o.state.rate = w.rate /\ o.state.mask = w.mask
         /\ o.ok => o.state.started /\ o.state.left = w.left
         /\ ~o.ok => o.state.started = w.started /\ o.state.left < w.left
<1>1. o \in Call(w, [w EXCEPT !.started = TRUE])
  BY DEF Start
<1>2. CASE o.ok /\ o.state = [w EXCEPT !.started = TRUE]
  <2>. DEFINE v == [w EXCEPT !.started = TRUE]
  <2>0. v \in PhyStates
    BY DEF PhyStates
  <2>1. /\ v.ready = w.ready /\ v.ch = w.ch /\ v.mod = w.mod
        /\ v.tune = w.tune /\ v.left <= w.left
    BY DEF PhyStates
  <2>2. /\ o.state.drvCh = w.drvCh /\ o.state.rate = w.rate
        /\ o.state.mask = w.mask /\ o.state.left = w.left
    BY <1>2 DEF PhyStates
  <2>3. o.state.started
    BY <1>2 DEF PhyStates
  <2>4. SameObject(w, o.state)
    BY <1>2, <2>0, <2>1 DEF SameObject
  <2>. QED BY <1>2, <2>2, <2>3, <2>4
<1>3. CASE w.left > 0 /\ ~o.ok /\ o.state = [w EXCEPT !.left = @ - 1]
  BY <1>3 DEF SameObject, PhyStates
<1>. QED BY <1>1, <1>2, <1>3, CallOutcome

LEMMA LoadRateStoppedOutcome ==
  ASSUME NEW w \in PhyStates, NEW o \in LoadRateStopped(w)
  PROVE  /\ SameObject(w, o.state) /\ o.state.drvCh = w.drvCh
         /\ o.ok => o.state.rate = w.mod /\ o.state.started
         /\ ~o.ok => o.state.left < w.left
<1>. DEFINE v == [w EXCEPT !.started = FALSE]
            Restarted(q) == IF q.ok THEN Start(q.state)
                            ELSE {[s EXCEPT !.ok = FALSE] : s \in Start(q.state)}
<1>1. PICK p \in Call(w, v) :
         o \in IF p.ok THEN UNION {Restarted(q) : q \in LoadRate(p.state)} ELSE {p}
  BY DEF LoadRateStopped, Stop, Then
<1>2. CASE p.ok /\ p.state = v
  <2>1. v \in PhyStates
    BY DEF PhyStates
  <2>2. PICK q \in LoadRate(v) : o \in Restarted(q)
    BY <1>1, <1>2
  <2>3. /\ SameObject(v, q.state) /\ q.state.drvCh = v.drvCh
        /\ q.ok => q.state.rate = v.mod
        /\ ~q.ok => q.state.left = v.left - 1
    BY <2>1, LoadRateOutcome
  <2>4. PICK s \in Start(q.state) : o.state = s.state /\ (q.ok => o = s) /\ (~q.ok => ~o.ok)
    <3>1. CASE q.ok
      BY <2>2, <3>1
    <3>2. CASE ~q.ok
      <4>1. PICK s \in Start(q.state) : o = [s EXCEPT !.ok = FALSE]
        BY <2>2, <3>2
      <4>2. s = [state |-> s.state, ok |-> s.ok]
        BY CallRecord DEF Start
      <4>. QED BY <3>2, <4>1, <4>2
    <3>. QED BY <3>1, <3>2
  <2>5. /\ SameObject(q.state, s.state) /\ s.state.drvCh = q.state.drvCh
        /\ s.state.rate = q.state.rate
        /\ s.ok => s.state.started
        /\ ~s.ok => s.state.left < q.state.left
    BY <2>3, StartOutcome DEF SameObject
  <2>6. v.ready = w.ready /\ v.ch = w.ch /\ v.mod = w.mod /\ v.tune = w.tune
        /\ v.left = w.left /\ v.drvCh = w.drvCh /\ w.left \in Nat
    BY DEF PhyStates
  <2>7. SameObject(w, s.state)
    BY <2>3, <2>5, <2>6 DEF SameObject, PhyStates
  <2>8. q.state.left \in Nat /\ s.state.left \in Nat
    BY <2>3, <2>5 DEF SameObject, PhyStates
  <2>9. CASE q.ok
    BY <2>3, <2>4, <2>5, <2>6, <2>7, <2>8, <2>9 DEF SameObject
  <2>10. CASE ~q.ok
    BY <2>3, <2>4, <2>5, <2>6, <2>7, <2>8, <2>10 DEF SameObject
  <2>. QED BY <2>9, <2>10
<1>3. CASE w.left > 0 /\ ~p.ok /\ p.state = [w EXCEPT !.left = @ - 1]
  <2>1. o = p
    BY <1>1, <1>3
  <2>. QED BY <1>3, <2>1 DEF SameObject, PhyStates
<1>. QED BY <1>1, <1>2, <1>3, CallOutcome

(* Where it fails with one refused call, that call changed nothing. *)
LEMMA ApplyModulationOutcome ==
  ASSUME NEW w \in PhyStates, ModulationOk(w.mod, w.ch),
         NEW o \in ApplyModulation(w)
  PROVE  /\ SameObject(w, o.state) /\ o.state.drvCh = w.drvCh
         /\ o.ok => o.state.rate = w.mod /\ (w.started => o.state.started)
         /\ ~o.ok => o.state.left < w.left
         /\ ~o.ok /\ o.state.left >= w.left - 1 =>
               o.state.rate = w.rate /\ o.state.started = w.started
         /\ o.state.left = w.left => o.ok /\ o.state.mask = MaskFor(w.ch)
<1>. DEFINE Tried(q) == IF q.ok THEN {q} ELSE LoadRateStopped(q.state)
<1>1. PICK p \in SetProtocol(w) :
         o \in IF p.ok THEN UNION {Tried(q) : q \in LoadRate(p.state)} ELSE {p}
  BY DEF ApplyModulation, Then
<1>2. /\ SameObject(w, p.state)
      /\ p.state.started = w.started /\ p.state.drvCh = w.drvCh
      /\ p.state.rate = w.rate
      /\ p.ok => p.state.left = w.left
      /\ ~p.ok => p.state.left = w.left - 1
  BY SetProtocolOutcome
<1>3. w.left \in Nat /\ p.state.left \in Nat /\ p.state \in PhyStates
  BY <1>2 DEF SameObject, PhyStates
<1>4. CASE ~p.ok
  BY <1>1, <1>2, <1>3, <1>4
<1>5. CASE p.ok
  <2>1. PICK q \in LoadRate(p.state) : o \in Tried(q)
    BY <1>1, <1>5
  <2>2. /\ SameObject(p.state, q.state)
        /\ q.state.started = p.state.started /\ q.state.drvCh = p.state.drvCh
        /\ q.ok => q.state.rate = p.state.mod
        /\ ~q.ok => q.state.left = p.state.left - 1
        /\ q.state.left = p.state.left => q.ok /\ q.state.mask = MaskFor(p.state.ch)
    BY <1>3, LoadRateOutcome
  <2>3. SameObject(w, q.state) /\ q.state.left \in Nat
    BY <1>2, <1>3, <2>2 DEF SameObject, PhyStates
  <2>4. CASE q.ok
    <3>1. o = q
      BY <2>1, <2>4
    <3>. QED BY <1>2, <1>3, <1>5, <2>2, <2>3, <2>4, <3>1 DEF SameObject
  <2>5. CASE ~q.ok
    <3>1. o \in LoadRateStopped(q.state)
      BY <2>1, <2>5
    <3>2. /\ SameObject(q.state, o.state) /\ o.state.drvCh = q.state.drvCh
          /\ o.ok => o.state.rate = q.state.mod /\ o.state.started
          /\ ~o.ok => o.state.left < q.state.left
      BY <2>3, <3>1, LoadRateStoppedOutcome DEF SameObject
    <3>3. o.state.left \in Nat
      BY <3>2 DEF SameObject, PhyStates
    <3>. QED BY <1>2, <1>3, <1>5, <2>2, <2>3, <2>5, <3>2, <3>3 DEF SameObject
  <2>. QED BY <2>4, <2>5
<1>. QED BY <1>4, <1>5

LEMMA ApplyMonitorOutcome ==
  ASSUME NEW w \in PhyStates, NEW o \in ApplyMonitor(w)
  PROVE  /\ SameObject(w, o.state)
         /\ o.state.started = w.started /\ o.state.drvCh = w.drvCh
         /\ o.state.rate = w.rate
         /\ ~o.ok => o.state.left < w.left
         /\ o.state.left = w.left => o.ok /\ o.state.mask = MaskFor(w.ch)
<1>1. PICK p \in Call(w, w) :
         o \in IF p.ok THEN Ignored(SetProtocol(p.state)) ELSE {p}
  BY DEF ApplyMonitor, Then
<1>2. CASE p.ok /\ p.state = w
  <2>1. PICK q \in SetProtocol(w) : o = [q EXCEPT !.ok = TRUE]
    BY <1>1, <1>2 DEF Ignored
  <2>2. /\ SameObject(w, q.state)
        /\ q.state.started = w.started /\ q.state.drvCh = w.drvCh
        /\ q.state.rate = w.rate
        /\ q.ok => q.state.mask = MaskFor(w.ch)
        /\ ~q.ok => q.state.left = w.left - 1
    BY SetProtocolOutcome
  <2>3. q = [state |-> q.state, ok |-> q.ok]
    BY CallRecord DEF SetProtocol
  <2>4. o.state = q.state /\ o.ok = TRUE
    BY <2>1, <2>3
  <2>. QED BY <2>2, <2>4 DEF PhyStates
<1>3. CASE w.left > 0 /\ ~p.ok /\ p.state = [w EXCEPT !.left = @ - 1]
  <2>1. o = p
    BY <1>1, <1>3
  <2>. QED BY <1>3, <2>1 DEF SameObject, PhyStates
<1>. QED BY <1>1, <1>2, <1>3, CallOutcome

LEMMA MonitorRecord ==
  ASSUME NEW w \in PhyStates, NEW o \in ApplyMonitor(w)
  PROVE  o = [state |-> o.state, ok |-> o.ok]
<1>1. PICK p \in Call(w, w) :
         o \in IF p.ok THEN Ignored(SetProtocol(p.state)) ELSE {p}
  BY DEF ApplyMonitor, Then
<1>2. p = [state |-> p.state, ok |-> p.ok]
  BY CallRecord
<1>3. CASE p.ok
  <2>1. PICK q \in SetProtocol(p.state) : o = [q EXCEPT !.ok = TRUE]
    BY <1>1, <1>3 DEF Ignored
  <2>2. q = [state |-> q.state, ok |-> q.ok]
    BY CallRecord DEF SetProtocol
  <2>. QED BY <2>1, <2>2
<1>4. CASE ~p.ok
  BY <1>1, <1>2, <1>4
<1>. QED BY <1>3, <1>4

LEMMA ChannelRecord ==
  ASSUME NEW w, NEW o \in ApplyChannel(w)
  PROVE  o = [state |-> o.state, ok |-> o.ok]
<1>1. CASE w.started
  <2>1. o \in Call(w, [w EXCEPT !.drvCh = w.ch])
    BY <1>1 DEF ApplyChannel
  <2>. QED BY <2>1, CallRecord
<1>2. CASE ~w.started
  BY <1>2 DEF ApplyChannel, Failed
<1>. QED BY <1>1, <1>2

(* The roll-backs.  With no further call refused they bring the driver *)
(* back to the stored values.                                          *)
LEMMA RestoreChannelOutcome ==
  ASSUME NEW w, Sound(w), NEW o \in RestoreChannel(w)
  PROVE  /\ SameObject(w, o.state) /\ ~o.ok
         /\ w.started /\ o.state.left = w.left => InStep(o.state)
<1>1. PICK q \in AndAlso(ApplyModulation(w), ApplyChannel) :
         o = [q EXCEPT !.ok = FALSE]
  BY DEF RestoreChannel
<1>2. PICK p \in ApplyModulation(w) : q \in ApplyChannel(p.state)
  BY DEF AndAlso
<1>3. q = [state |-> q.state, ok |-> q.ok]
  BY <1>2, ChannelRecord
<1>4. o.state = q.state /\ ~o.ok
  BY <1>1, <1>3
<1>5. /\ SameObject(w, p.state)
      /\ p.ok => p.state.rate = w.mod /\ (w.started => p.state.started)
      /\ ~p.ok => p.state.left < w.left
  BY ApplyModulationOutcome DEF Sound
<1>6. /\ SameObject(p.state, q.state)
      /\ q.state.started = p.state.started /\ q.state.rate = p.state.rate
      /\ q.ok => q.state.drvCh = p.state.ch
      /\ ~q.ok /\ p.state.started => q.state.left < p.state.left
  BY <1>2, <1>5, ApplyChannelOutcome DEF SameObject
<1>7. w.left \in Nat /\ p.state.left \in Nat /\ q.state.left \in Nat
  BY <1>5, <1>6 DEF SameObject, Sound, PhyStates
<1>8. SameObject(w, q.state)
  BY <1>5, <1>6, <1>7 DEF SameObject
<1>9. ASSUME w.started, q.state.left = w.left PROVE InStep(q.state)
  <2>1. p.state.left = w.left /\ p.ok /\ q.ok
    BY <1>5, <1>6, <1>7, <1>9 DEF SameObject
  <2>. QED BY <1>5, <1>6, <1>8, <1>9, <2>1 DEF SameObject, InStep, DriverAsStored
<1>. QED BY <1>4, <1>8, <1>9

LEMMA RestoreOutcome ==
  ASSUME NEW w, Sound(w), NEW o \in Restore(w)
  PROVE  /\ SameObject(w, o.state) /\ ~o.ok
         /\ w.started /\ o.state.left = w.left => InStep(o.state)
<1>1. PICK r \in AndAlso(AndAlso(ApplyModulation(w), ApplyChannel), ApplyMonitor) :
         o = [r EXCEPT !.ok = FALSE]
  BY DEF Restore
<1>2. PICK q \in AndAlso(ApplyModulation(w), ApplyChannel) : r \in ApplyMonitor(q.state)
  BY DEF AndAlso
<1>3. \E x \in RestoreChannel(w) : x.state = q.state
  <2>1. PICK p \in ApplyModulation(w) : q \in ApplyChannel(p.state)
    BY DEF AndAlso
  <2>2. q = [state |-> q.state, ok |-> q.ok]
    BY <2>1, ChannelRecord
  <2>3. [q EXCEPT !.ok = FALSE] \in RestoreChannel(w)
    BY DEF RestoreChannel
  <2>. QED BY <2>2, <2>3
<1>4. /\ SameObject(w, q.state)
      /\ w.started /\ q.state.left = w.left => InStep(q.state)
  BY <1>3, RestoreChannelOutcome
<1>5. /\ SameObject(q.state, r.state)
      /\ r.state.started = q.state.started /\ r.state.drvCh = q.state.drvCh
      /\ r.state.rate = q.state.rate
  BY <1>2, <1>4, ApplyMonitorOutcome DEF SameObject
<1>6. r = [state |-> r.state, ok |-> r.ok]
  BY <1>2, <1>4, MonitorRecord DEF SameObject
<1>7. o.state = r.state /\ ~o.ok
  BY <1>1, <1>6
<1>8. w.left \in Nat /\ q.state.left \in Nat /\ r.state.left \in Nat
  BY <1>4, <1>5 DEF SameObject, Sound, PhyStates
<1>9. SameObject(w, r.state)
  BY <1>4, <1>5, <1>8 DEF SameObject
<1>10. ASSUME w.started, r.state.left = w.left PROVE InStep(r.state)
  <2>1. q.state.left = w.left
    BY <1>4, <1>5, <1>8, <1>10 DEF SameObject
  <2>. QED BY <1>4, <1>5, <1>10, <2>1 DEF SameObject, InStep, DriverAsStored
<1>. QED BY <1>7, <1>9, <1>10

-----------------------------------------------------------------------------
(***************************************************************************)
(* The setters.                                                            *)
(***************************************************************************)

LEMMA SetChannelOutcome ==
  ASSUME NEW w, Sound(w), NEW ch \in CHANNELS, NEW o \in SetChannel(w, ch)
  PROVE  /\ StaysInStep(w, o.state)
         /\ o.state.mod = w.mod /\ o.state.tune = w.tune
         /\ o.ok => o.state.ch = ch
         /\ /\ w.ready /\ w.started /\ ModulationOk(w.mod, ch)
            /\ o.state.left = w.left
            => o.ok /\ o.state.ch = ch
<1>. DEFINE moved == [w EXCEPT !.ch = ch]
            told  == IF ch = 14 THEN Then(ApplyModulation(moved), ApplyChannel)
                                ELSE ApplyChannel(moved)
<1>0. w \in PhyStates /\ w.left \in Nat
  BY DEF Sound, PhyStates
<1>1. CASE ~w.ready \/ ~ModulationOk(w.mod, ch)
  <2>0. o = [state |-> w, ok |-> FALSE]
    BY <1>1 DEF SetChannel, Failed
  <2>1. o.state = w /\ ~o.ok
    BY <2>0
  <2>. QED BY <1>0, <1>1, <2>1 DEF StaysInStep
<1>2. CASE w.ready /\ ModulationOk(w.mod, ch)
  <2>1. PICK p \in told :
           o \in IF p.ok THEN {p} ELSE RestoreChannel([p.state EXCEPT !.ch = w.ch])
    BY <1>2 DEF SetChannel
  <2>2. /\ moved \in PhyStates /\ moved.ready = w.ready /\ moved.ch = ch
        /\ moved.mod = w.mod /\ moved.tune = w.tune /\ moved.left = w.left
        /\ moved.started = w.started /\ moved.drvCh = w.drvCh
        /\ moved.rate = w.rate
    BY <1>0 DEF PhyStates
  <2>3. /\ SameObject(moved, p.state)
        /\ InStep(w) /\ p.ok => InStep(p.state)
        /\ ~p.ok /\ w.started => p.state.left < w.left
        /\ InStep(w) /\ ~p.ok /\ p.state.left >= w.left - 1 => p.state.started
    <3>1. CASE ch # 14
      <4>1. p \in ApplyChannel(moved)
        BY <3>1
      <4>2. /\ SameObject(moved, p.state)
            /\ p.state.started = moved.started /\ p.state.rate = moved.rate
            /\ p.ok => p.state.drvCh = moved.ch
            /\ ~p.ok /\ moved.started => p.state.left < moved.left
        BY <2>2, <4>1, ApplyChannelOutcome
      <4>. QED BY <2>2, <4>2 DEF SameObject, InStep, DriverAsStored
    <3>2. CASE ch = 14
      <4>1. PICK q \in ApplyModulation(moved) :
               p \in IF q.ok THEN ApplyChannel(q.state) ELSE {q}
        BY <3>2 DEF Then
      <4>2. /\ SameObject(moved, q.state)
            /\ q.ok => q.state.rate = moved.mod
                       /\ (moved.started => q.state.started)
            /\ ~q.ok => q.state.left < moved.left
            /\ ~q.ok /\ q.state.left >= moved.left - 1 =>
                  q.state.started = moved.started
        <5>1. ModulationOk(moved.mod, moved.ch)
          BY <1>2, <2>2
        <5>. HIDE DEF moved
        <5>. QED BY <2>2, <5>1, ApplyModulationOutcome
      <4>3. CASE ~q.ok
        <5>1. p = q
          BY <4>1, <4>3
        <5>. QED BY <2>2, <4>2, <4>3, <5>1 DEF InStep
      <4>4. CASE q.ok
        <5>1. p \in ApplyChannel(q.state) /\ q.state \in PhyStates
          BY <4>1, <4>2, <4>4 DEF SameObject
        <5>2. /\ SameObject(q.state, p.state)
              /\ p.state.started = q.state.started /\ p.state.rate = q.state.rate
              /\ p.ok => p.state.drvCh = q.state.ch
              /\ ~p.ok /\ q.state.started => p.state.left < q.state.left
          BY <5>1, ApplyChannelOutcome
        <5>3. q.state.left \in Nat /\ p.state.left \in Nat /\ w.left \in Nat
          BY <1>0, <5>1, <5>2 DEF SameObject, PhyStates
        <5>4. SameObject(moved, p.state)
          BY <2>2, <4>2, <5>2, <5>3 DEF SameObject
        <5>. QED BY <2>2, <4>2, <4>4, <5>2, <5>3, <5>4
                 DEF SameObject, InStep, DriverAsStored
      <4>. QED BY <4>3, <4>4
    <3>. QED BY <3>1, <3>2
  <2>4. CASE p.ok
    <3>1. o = p
      BY <2>1, <2>4
    <3>2. Sound(o.state)
      BY <1>2, <2>2, <2>3, <3>1 DEF SameObject, Sound
    <3>. QED BY <2>2, <2>3, <2>4, <3>1, <3>2 DEF SameObject, StaysInStep
  <2>5. CASE ~p.ok
    <3>. DEFINE back == [p.state EXCEPT !.ch = w.ch]
    <3>1. /\ back \in PhyStates /\ back.ready = w.ready /\ back.ch = w.ch
          /\ back.mod = w.mod /\ back.tune = w.tune
          /\ back.left = p.state.left /\ back.started = p.state.started
      BY <1>0, <2>2, <2>3 DEF SameObject, PhyStates
    <3>2. Sound(back) /\ back.left <= w.left
      BY <2>2, <2>3, <3>1 DEF Sound, SameObject
    <3>3. o \in RestoreChannel(back)
      BY <2>1, <2>5
    <3>. HIDE DEF back
    <3>4. /\ SameObject(back, o.state) /\ ~o.ok
          /\ back.started /\ o.state.left = back.left => InStep(o.state)
      BY <3>2, <3>3, RestoreChannelOutcome
    <3>5. Sound(o.state)
      BY <3>1, <3>2, <3>4 DEF SameObject, Sound
    <3>6. w.left \in Nat /\ o.state.left \in Nat /\ back.left \in Nat
      BY <1>0, <3>1, <3>5 DEF Sound, PhyStates
    <3>7. ASSUME InStep(w), o.state.left >= w.left - 1 PROVE InStep(o.state)
      <4>1. back.left < w.left
        BY <2>3, <2>5, <3>1, <3>7 DEF InStep
      <4>2. o.state.left = back.left /\ back.left >= w.left - 1
        BY <3>4, <3>6, <3>7, <4>1 DEF SameObject
      <4>3. back.started
        BY <2>3, <2>5, <3>1, <3>7, <4>2
      <4>. QED BY <3>4, <4>2, <4>3
    <3>8. ASSUME w.started, o.state.left = w.left PROVE FALSE
      BY <2>3, <2>5, <3>1, <3>4, <3>6, <3>8 DEF SameObject
    <3>9. /\ o.state.ready = w.ready /\ o.state.mod = w.mod /\ o.state.tune = w.tune
          /\ o.state.left <= w.left
      BY <3>1, <3>2, <3>4, <3>6 DEF SameObject
    <3>. QED BY <3>4, <3>5, <3>7, <3>8, <3>9 DEF StaysInStep
  <2>. QED BY <2>4, <2>5
<1>. QED BY <1>1, <1>2

LEMMA SetModulationOutcome ==
  ASSUME NEW w, Sound(w), NEW mod \in Modulations, NEW o \in SetModulation(w, mod)
  PROVE  /\ StaysInStep(w, o.state)
         /\ o.state.ch = w.ch /\ o.state.tune = w.tune
         /\ o.ok => o.state.mod = mod
         /\ /\ w.ready /\ w.started /\ ModulationOk(mod, w.ch)
            /\ o.state.left = w.left
            => o.ok /\ o.state.mod = mod
<1>. DEFINE turned == [w EXCEPT !.mod = mod]
            told   == Then(Then(ApplyModulation(turned), ApplyChannel), ApplyMonitor)
<1>0. w \in PhyStates /\ w.left \in Nat
  BY DEF Sound, PhyStates
<1>1. CASE ~w.ready \/ ~ModulationOk(mod, w.ch)
  <2>0. o = [state |-> w, ok |-> FALSE]
    BY <1>1 DEF SetModulation, Failed
  <2>1. o.state = w /\ ~o.ok
    BY <2>0
  <2>. QED BY <1>0, <1>1, <2>1 DEF StaysInStep
<1>2. CASE w.ready /\ ModulationOk(mod, w.ch)
  <2>1. PICK p \in told :
           o \in IF p.ok THEN {p} ELSE Restore([p.state EXCEPT !.mod = w.mod])
    BY <1>2 DEF SetModulation
  <2>2. /\ turned \in PhyStates /\ turned.ready = w.ready /\ turned.ch = w.ch
        /\ turned.mod = mod /\ turned.tune = w.tune /\ turned.left = w.left
        /\ turned.started = w.started /\ turned.drvCh = w.drvCh
        /\ turned.rate = w.rate
    BY <1>0 DEF PhyStates
  <2>3. PICK q \in Then(ApplyModulation(turned), ApplyChannel) :
           p \in IF q.ok THEN ApplyMonitor(q.state) ELSE {q}
    BY DEF Then
  <2>4. PICK r \in ApplyModulation(turned) :
           q \in IF r.ok THEN ApplyChannel(r.state) ELSE {r}
    BY DEF Then
  <2>5. /\ SameObject(turned, r.state) /\ r.state.left \in Nat
        /\ r.ok => r.state.rate = turned.mod
                   /\ (turned.started => r.state.started)
        /\ ~r.ok => r.state.left < turned.left
        /\ ~r.ok /\ r.state.left >= turned.left - 1 =>
              r.state.started = turned.started
    BY <1>2, <2>2, ApplyModulationOutcome DEF SameObject, PhyStates
  <2>6. /\ SameObject(turned, q.state) /\ q.state.left \in Nat
        /\ w.started /\ q.ok => q.state.started /\ q.state.rate = mod
                                  /\ q.state.drvCh = w.ch
        /\ w.started /\ ~q.ok => q.state.left < w.left
        /\ w.started /\ ~q.ok /\ q.state.left >= w.left - 1 => q.state.started
    <3>1. CASE ~r.ok
      <4>1. q = r
        BY <2>4, <3>1
      <4>. QED BY <2>2, <2>5, <3>1, <4>1
    <3>2. CASE r.ok
      <4>1. q \in ApplyChannel(r.state) /\ r.state \in PhyStates
        BY <2>4, <2>5, <3>2 DEF SameObject
      <4>2. /\ SameObject(r.state, q.state)
            /\ q.state.started = r.state.started /\ q.state.rate = r.state.rate
            /\ q.ok => q.state.drvCh = r.state.ch
            /\ ~q.ok /\ r.state.started => q.state.left < r.state.left
        BY <4>1, ApplyChannelOutcome
      <4>3. q.state.left \in Nat
        BY <4>2 DEF SameObject, PhyStates
      <4>. QED BY <1>0, <2>2, <2>5, <3>2, <4>2, <4>3 DEF SameObject
    <3>. QED BY <3>1, <3>2
  <2>7. /\ SameObject(turned, p.state) /\ p.state.left \in Nat
        /\ InStep(w) /\ p.ok => InStep(p.state)
        /\ ~p.ok /\ w.started => p.state.left < w.left
        /\ InStep(w) /\ ~p.ok /\ p.state.left >= w.left - 1 => p.state.started
    <3>1. CASE ~q.ok
      <4>1. p = q
        BY <2>3, <3>1
      <4>. QED BY <2>2, <2>6, <3>1, <4>1 DEF InStep
    <3>2. CASE q.ok
      <4>1. p \in ApplyMonitor(q.state) /\ q.state \in PhyStates
        BY <2>3, <2>6, <3>2 DEF SameObject
      <4>2. /\ SameObject(q.state, p.state)
            /\ p.state.started = q.state.started /\ p.state.drvCh = q.state.drvCh
            /\ p.state.rate = q.state.rate
            /\ ~p.ok => p.state.left < q.state.left
        BY <4>1, ApplyMonitorOutcome
      <4>3. p.state.left \in Nat
        BY <4>2 DEF SameObject, PhyStates
      <4>4. SameObject(turned, p.state)
        <5>1. p.state.left <= turned.left
          BY <1>0, <2>2, <2>6, <4>2, <4>3 DEF SameObject
        <5>. QED BY <2>6, <4>2, <5>1 DEF SameObject
      <4>. QED BY <1>0, <2>2, <2>6, <3>2, <4>2, <4>3, <4>4
               DEF SameObject, InStep, DriverAsStored
    <3>. QED BY <3>1, <3>2
  <2>8. CASE p.ok
    <3>1. o = p
      BY <2>1, <2>8
    <3>2. Sound(o.state)
      BY <1>2, <2>2, <2>7, <3>1 DEF SameObject, Sound
    <3>. QED BY <2>2, <2>7, <2>8, <3>1, <3>2 DEF SameObject, StaysInStep
  <2>9. CASE ~p.ok
    <3>. DEFINE back == [p.state EXCEPT !.mod = w.mod]
    <3>1. /\ back \in PhyStates /\ back.ready = w.ready /\ back.ch = w.ch
          /\ back.mod = w.mod /\ back.tune = w.tune
          /\ back.left = p.state.left /\ back.started = p.state.started
      BY <1>0, <2>2, <2>7 DEF SameObject, PhyStates
    <3>2. Sound(back) /\ back.left <= w.left
      BY <2>2, <2>7, <3>1 DEF Sound, SameObject
    <3>3. o \in Restore(back)
      BY <2>1, <2>9
    <3>. HIDE DEF back
    <3>4. /\ SameObject(back, o.state) /\ ~o.ok
          /\ back.started /\ o.state.left = back.left => InStep(o.state)
      BY <3>2, <3>3, RestoreOutcome
    <3>5. Sound(o.state)
      BY <3>1, <3>2, <3>4 DEF SameObject, Sound
    <3>6. w.left \in Nat /\ o.state.left \in Nat /\ back.left \in Nat
      BY <1>0, <3>1, <3>5 DEF Sound, PhyStates
    <3>7. ASSUME InStep(w), o.state.left >= w.left - 1 PROVE InStep(o.state)
      <4>1. back.left < w.left
        BY <2>7, <2>9, <3>1, <3>7 DEF InStep
      <4>2. o.state.left = back.left /\ back.left >= w.left - 1
        BY <3>4, <3>6, <3>7, <4>1 DEF SameObject
      <4>3. back.started
        BY <2>7, <2>9, <3>1, <3>7, <4>2
      <4>. QED BY <3>4, <4>2, <4>3
    <3>8. ASSUME w.started, o.state.left = w.left PROVE FALSE
      BY <2>7, <2>9, <3>1, <3>4, <3>6, <3>8 DEF SameObject
    <3>9. /\ o.state.ready = w.ready /\ o.state.ch = w.ch /\ o.state.tune = w.tune
          /\ o.state.left <= w.left
      BY <3>1, <3>2, <3>4, <3>6 DEF SameObject
    <3>. QED BY <3>4, <3>5, <3>7, <3>8, <3>9 DEF StaysInStep
  <2>. QED BY <2>8, <2>9
<1>. QED BY <1>1, <1>2

LEMMA SetTuneOutcome ==
  ASSUME NEW w, Sound(w), NEW tune \in TUNES, NEW o \in SetTune(w, tune)
  PROVE  /\ StaysInStep(w, o.state)
         /\ o.state.ch = w.ch /\ o.state.mod = w.mod /\ o.state.mask = w.mask
         /\ o.ok => o.state.tune = tune
         /\ w.ready /\ o.state.left = w.left => o.ok /\ o.state.tune = tune
<1>0. w \in PhyStates /\ w.left \in Nat
  BY DEF Sound, PhyStates
<1>1. CASE ~w.ready
  <2>1. o = [state |-> w, ok |-> FALSE]
    BY <1>1 DEF SetTune, Failed
  <2>2. o.state = w /\ ~o.ok
    BY <2>1
  <2>. QED BY <1>0, <1>1, <2>2 DEF StaysInStep
<1>2. CASE w.ready /\ w.tune = tune
  <2>1. o = [state |-> w, ok |-> TRUE]
    BY <1>2 DEF SetTune, Done
  <2>2. o.state = w /\ o.ok
    BY <2>1
  <2>3. StaysInStep(w, w)
    BY <1>0 DEF StaysInStep
  <2>. QED BY <1>2, <2>2, <2>3
<1>3. CASE w.ready /\ w.tune # tune
  <2>. DEFINE turned == [w EXCEPT !.tune = tune]
  <2>1. PICK p \in Call(turned, turned) :
           o \in IF p.ok THEN {p} ELSE Failed([p.state EXCEPT !.tune = w.tune])
    BY <1>3 DEF SetTune, ApplyTune
  <2>2. /\ turned \in PhyStates /\ turned.ready = w.ready /\ turned.ch = w.ch
        /\ turned.mod = w.mod /\ turned.tune = tune /\ turned.left = w.left
        /\ turned.started = w.started /\ turned.drvCh = w.drvCh
        /\ turned.rate = w.rate /\ turned.mask = w.mask
    BY <1>0 DEF PhyStates
  <2>3. CASE p.ok /\ p.state = turned
    <3>1. o.state = turned /\ o.ok
      BY <2>1, <2>3
    <3>. QED BY <1>0, <2>2, <3>1 DEF StaysInStep, Sound, InStep, DriverAsStored
  <2>4. CASE turned.left > 0 /\ ~p.ok /\ p.state = [turned EXCEPT !.left = @ - 1]
    <3>. DEFINE back == [p.state EXCEPT !.tune = w.tune]
    <3>0. o = [state |-> back, ok |-> FALSE]
      BY <2>1, <2>4 DEF Failed
    <3>1. o.state = back /\ ~o.ok
      BY <3>0
    <3>2. back.left = w.left - 1 /\ back.tune = w.tune
          /\ back.ready = w.ready /\ back.ch = w.ch
      BY <1>0, <2>4 DEF PhyStates
    <3>3. back.mod = w.mod /\ back.started = w.started
          /\ back.drvCh = w.drvCh /\ back.rate = w.rate /\ back.mask = w.mask
      BY <1>0, <2>4 DEF PhyStates
    <3>4. back \in PhyStates
      <4>1. p.state \in PhyStates
        BY <2>2, <2>4, OnceRefused
      <4>. QED BY <1>0, <4>1 DEF PhyStates
    <3>. QED BY <1>0, <3>1, <3>2, <3>3, <3>4
             DEF StaysInStep, Sound, InStep, DriverAsStored
  <2>. QED BY <2>1, <2>3, <2>4, CallOutcome
<1>. QED BY <1>1, <1>2, <1>3

LEMMA MonitorStaysInStep ==
  ASSUME NEW w, Sound(w), NEW o \in ApplyMonitor(w)
  PROVE  StaysInStep(w, o.state)
BY ApplyMonitorOutcome DEF Sound, SameObject, StaysInStep, InStep, DriverAsStored
-----------------------------------------------------------------------------
(***************************************************************************)
(* A snapshot applied to the radio.                                        *)
(***************************************************************************)

(* apply_snapshot(): whatever the radio was set to, and as long as no call *)
(* is refused, it ends with the channel and the rate of the snapshot.      *)
LEMMA TuneInOutcome ==
  ASSUME NEW w, Sound(w), NEW snap \in ValidSnapshots, NEW o \in TuneIn(w, snap)
  PROVE  /\ StaysInStep(w, o.state) /\ o.state.tune = w.tune
         /\ w.ready /\ InStep(w) /\ o.state.left = w.left =>
               o.ok /\ o.state.ch = snap.ch /\ o.state.mod = snap.mod
<1>0. /\ snap.ch \in CHANNELS /\ snap.mod \in Modulations
      /\ ModulationOk(snap.mod, snap.ch) /\ w.left \in Nat
  BY DEF ValidSnapshots, Snapshots, Sound, PhyStates
<1>1. CASE snap.ch = 14
  <2>1. PICK p \in SetModulation(w, snap.mod) :
           o \in IF p.ok THEN SetChannel(p.state, 14) ELSE {p}
    BY <1>1 DEF TuneIn, Then
  <2>2. /\ StaysInStep(w, p.state) /\ p.state.tune = w.tune
        /\ /\ w.ready /\ w.started /\ ModulationOk(snap.mod, w.ch)
           /\ p.state.left = w.left
           => p.ok /\ p.state.mod = snap.mod
    BY <1>0, SetModulationOutcome
  <2>3. Sound(p.state) /\ p.state.left \in Nat
    BY <2>2 DEF StaysInStep, Sound, PhyStates
  <2>4. CASE ~p.ok
    <3>1. o = p
      BY <2>1, <2>4
    <3>. QED BY <1>0, <1>1, <2>2, <2>4, <3>1 DEF InStep, ModulationOk
  <2>5. CASE p.ok
    <3>1. o \in SetChannel(p.state, 14)
      BY <2>1, <2>5
    <3>2. /\ StaysInStep(p.state, o.state) /\ o.state.mod = p.state.mod
          /\ o.state.tune = p.state.tune
          /\ /\ p.state.ready /\ p.state.started /\ ModulationOk(p.state.mod, 14)
             /\ o.state.left = p.state.left
             => o.ok /\ o.state.ch = 14
      BY <1>0, <1>1, <2>3, <3>1, SetChannelOutcome
    <3>3. StaysInStep(w, o.state)
      BY <2>2, <3>2, StepsCompose
    <3>4. ASSUME w.ready, InStep(w), o.state.left = w.left
          PROVE  o.ok /\ o.state.ch = 14 /\ o.state.mod = snap.mod
      <4>1. p.state.left = w.left
        BY <1>0, <2>2, <2>3, <3>2, <3>4 DEF StaysInStep
      <4>2. p.state.mod = snap.mod /\ p.state.ready /\ p.state.started
        BY <1>0, <1>1, <2>2, <3>4, <4>1 DEF StaysInStep, InStep, ModulationOk
      <4>. QED BY <1>0, <1>1, <3>2, <3>4, <4>1, <4>2
    <3>. QED BY <1>1, <2>2, <3>2, <3>3, <3>4
  <2>. QED BY <2>4, <2>5
<1>2. CASE snap.ch # 14
  <2>1. PICK p \in SetChannel(w, snap.ch) :
           o \in IF p.ok THEN SetModulation(p.state, snap.mod) ELSE {p}
    BY <1>2 DEF TuneIn, Then
  <2>2. /\ StaysInStep(w, p.state) /\ p.state.tune = w.tune
        /\ /\ w.ready /\ w.started /\ ModulationOk(w.mod, snap.ch)
           /\ p.state.left = w.left
           => p.ok /\ p.state.ch = snap.ch
    BY <1>0, SetChannelOutcome
  <2>3. Sound(p.state) /\ p.state.left \in Nat
    BY <2>2 DEF StaysInStep, Sound, PhyStates
  <2>4. CASE ~p.ok
    <3>1. o = p
      BY <2>1, <2>4
    <3>. QED BY <1>0, <1>2, <2>2, <2>4, <3>1 DEF InStep, ModulationOk
  <2>5. CASE p.ok
    <3>1. o \in SetModulation(p.state, snap.mod)
      BY <2>1, <2>5
    <3>2. /\ StaysInStep(p.state, o.state) /\ o.state.ch = p.state.ch
          /\ o.state.tune = p.state.tune
          /\ /\ p.state.ready /\ p.state.started
             /\ ModulationOk(snap.mod, p.state.ch)
             /\ o.state.left = p.state.left
             => o.ok /\ o.state.mod = snap.mod
      <4>1. Sound(p.state) /\ snap.mod \in Modulations
        BY <1>0, <2>3
      <4>. DEFINE x == p.state
                  mod == snap.mod
      <4>. HIDE DEF x, mod
      <4>2. Sound(x) /\ mod \in Modulations /\ o \in SetModulation(x, mod)
        BY <3>1, <4>1 DEF x, mod
      <4>3. /\ StaysInStep(x, o.state) /\ o.state.ch = x.ch /\ o.state.tune = x.tune
            /\ /\ x.ready /\ x.started /\ ModulationOk(mod, x.ch)
               /\ o.state.left = x.left
               => o.ok /\ o.state.mod = mod
        BY <4>2, SetModulationOutcome
      <4>. QED BY <4>3 DEF x, mod
    <3>3. StaysInStep(w, o.state)
      BY <2>2, <3>2, StepsCompose
    <3>4. ASSUME w.ready, InStep(w), o.state.left = w.left
          PROVE  o.ok /\ o.state.ch = snap.ch /\ o.state.mod = snap.mod
      <4>1. p.state.left = w.left
        BY <1>0, <2>2, <2>3, <3>2, <3>4 DEF StaysInStep
      <4>2. p.state.ch = snap.ch /\ p.state.ready
        BY <1>2, <2>2, <3>4, <4>1 DEF StaysInStep, InStep, ModulationOk
      <4>3. p.state.started
        BY <1>0, <2>2, <3>4, <4>1 DEF StaysInStep, InStep
      <4>. QED BY <1>0, <3>2, <3>4, <4>1, <4>2, <4>3
    <3>. QED BY <2>2, <3>2, <3>3, <3>4
  <2>. QED BY <2>4, <2>5
<1>. QED BY <1>1, <1>2

LEMMA ApplyPhyOutcome ==
  ASSUME NEW w, Sound(w), NEW snap \in ValidSnapshots, NEW o \in ApplyPhy(w, snap)
  PROVE  /\ StaysInStep(w, o.state)
         /\ ~w.ready => o.state = w
         /\ w.ready /\ InStep(w) /\ o.state.left = w.left =>
               /\ o.ok /\ o.state.ch = snap.ch /\ o.state.mod = snap.mod
               /\ o.state.tune = snap.tune
               /\ o.state.mask = MaskFor(o.state.ch)
<1>0. snap.tune \in TUNES /\ w.left \in Nat
  BY DEF ValidSnapshots, Snapshots, Sound, PhyStates
<1>1. CASE ~w.ready
  <2>1. o = [state |-> w, ok |-> TRUE]
    BY <1>1 DEF ApplyPhy, Done
  <2>2. o.state = w
    BY <2>1
  <2>3. StaysInStep(w, w)
    BY <1>0 DEF StaysInStep
  <2>. QED BY <1>1, <2>2, <2>3
<1>2. CASE w.ready
  <2>1. PICK q \in Then(TuneIn(w, snap), ApplyMonitor) :
           o \in IF q.ok THEN SetTune(q.state, snap.tune) ELSE {q}
    BY <1>2 DEF ApplyPhy, Then
  <2>2. PICK p \in TuneIn(w, snap) :
           q \in IF p.ok THEN ApplyMonitor(p.state) ELSE {p}
    BY DEF Then
  <2>3. /\ StaysInStep(w, p.state)
        /\ w.ready /\ InStep(w) /\ p.state.left = w.left =>
              p.ok /\ p.state.ch = snap.ch /\ p.state.mod = snap.mod
    BY TuneInOutcome
  <2>4. Sound(p.state) /\ p.state.left \in Nat /\ p.state \in PhyStates
    BY <2>3 DEF StaysInStep, Sound, PhyStates
  <2>5. /\ StaysInStep(w, q.state)
        /\ InStep(w) /\ q.state.left = w.left =>
              /\ q.ok /\ q.state.ch = snap.ch /\ q.state.mod = snap.mod
              /\ q.state.mask = MaskFor(q.state.ch)
    <3>1. CASE ~p.ok
      <4>1. q = p
        BY <2>2, <3>1
      <4>. QED BY <1>2, <2>3, <3>1, <4>1
    <3>2. CASE p.ok
      <4>1. q \in ApplyMonitor(p.state)
        BY <2>2, <3>2
      <4>2. StaysInStep(p.state, q.state)
        BY <2>4, <4>1, MonitorStaysInStep
      <4>3. /\ SameObject(p.state, q.state)
            /\ q.state.left = p.state.left =>
                  q.ok /\ q.state.mask = MaskFor(p.state.ch)
        BY <2>4, <4>1, ApplyMonitorOutcome
      <4>4. StaysInStep(w, q.state)
        BY <2>3, <4>2, StepsCompose
      <4>5. ASSUME InStep(w), q.state.left = w.left
            PROVE  /\ q.ok /\ q.state.ch = snap.ch /\ q.state.mod = snap.mod
                   /\ q.state.mask = MaskFor(q.state.ch)
        <5>1. p.state.left = w.left
          BY <1>0, <2>3, <2>4, <4>2, <4>5 DEF StaysInStep
        <5>. QED BY <1>2, <2>3, <4>3, <4>5, <5>1 DEF SameObject
      <4>. QED BY <4>4, <4>5
    <3>. QED BY <3>1, <3>2
  <2>6. Sound(q.state) /\ q.state.left \in Nat
    BY <2>5 DEF StaysInStep, Sound, PhyStates
  <2>7. CASE ~q.ok
    <3>1. o = q
      BY <2>1, <2>7
    <3>. QED BY <1>2, <2>5, <2>7, <3>1
  <2>8. CASE q.ok
    <3>1. o \in SetTune(q.state, snap.tune)
      BY <2>1, <2>8
    <3>2. /\ StaysInStep(q.state, o.state)
          /\ o.state.ch = q.state.ch /\ o.state.mod = q.state.mod
          /\ o.state.mask = q.state.mask
          /\ q.state.ready /\ o.state.left = q.state.left =>
                o.ok /\ o.state.tune = snap.tune
      BY <1>0, <2>6, <3>1, SetTuneOutcome
    <3>3. StaysInStep(w, o.state)
      BY <2>5, <3>2, StepsCompose
    <3>4. ASSUME InStep(w), o.state.left = w.left
          PROVE  /\ o.ok /\ o.state.ch = snap.ch /\ o.state.mod = snap.mod
                 /\ o.state.tune = snap.tune
                 /\ o.state.mask = MaskFor(o.state.ch)
      <4>1. q.state.left = w.left /\ q.state.ready
        BY <1>0, <1>2, <2>5, <2>6, <3>2, <3>4 DEF StaysInStep
      <4>. QED BY <2>5, <3>2, <3>4, <4>1
    <3>. QED BY <1>2, <3>3, <3>4
  <2>. QED BY <2>7, <2>8
<1>. QED BY <1>1, <1>2

LEMMA InitializeOutcome ==
  ASSUME NEW w, Sound(w), ~w.ready, NEW o \in Initialize(w)
  PROVE  /\ Sound(o.state) /\ o.state.left <= w.left
         /\ o.state.ch = w.ch /\ o.state.mod = w.mod /\ o.state.tune = w.tune
         /\ o.state.ready => InStep(o.state)
         /\ o.state.left = w.left =>
               o.ok /\ o.state.ready /\ o.state.mask = MaskFor(o.state.ch)
<1>. DEFINE Readied(y) == [y EXCEPT !.ready = TRUE]
            Begun == Then(Then(Start(w), ApplyModulation), ApplyChannel)
<1>0. w \in PhyStates /\ w.left \in Nat
  BY DEF Sound, PhyStates
<1>1. PICK q \in Begun :
         o \in IF q.ok THEN UNION {IF r.ok THEN Done(Readied(r.state)) ELSE {r}
                                   : r \in ApplyMonitor(q.state)}
                       ELSE {q}
  BY DEF Initialize, Then
<1>2. PICK p \in Then(Start(w), ApplyModulation) :
         q \in IF p.ok THEN ApplyChannel(p.state) ELSE {p}
  BY DEF Then
<1>3. PICK s \in Start(w) :
         p \in IF s.ok THEN ApplyModulation(s.state) ELSE {s}
  BY DEF Then
<1>4. /\ SameObject(w, s.state)
      /\ s.ok => s.state.started
      /\ ~s.ok => s.state.left < w.left
  BY <1>0, StartOutcome
<1>5. /\ SameObject(w, p.state)
      /\ p.ok => p.state.started /\ p.state.rate = p.state.mod
      /\ ~p.ok => p.state.left < w.left
  <2>1. CASE ~s.ok
    BY <1>3, <1>4, <2>1
  <2>2. CASE s.ok
    <3>1. p \in ApplyModulation(s.state)
      BY <1>3, <2>2
    <3>2. s.state \in PhyStates /\ ModulationOk(s.state.mod, s.state.ch)
      BY <1>4 DEF SameObject, Sound
    <3>3. /\ SameObject(s.state, p.state)
          /\ p.ok => p.state.rate = s.state.mod
                     /\ (s.state.started => p.state.started)
          /\ ~p.ok => p.state.left < s.state.left
      BY <3>1, <3>2, ApplyModulationOutcome
    <3>4. s.state.left \in Nat /\ p.state.left \in Nat
      BY <3>2, <3>3 DEF SameObject, PhyStates
    <3>. QED BY <1>0, <1>4, <2>2, <3>3, <3>4 DEF SameObject
  <2>. QED BY <2>1, <2>2
<1>6. /\ SameObject(w, q.state)
      /\ q.ok => InStep(q.state)
      /\ ~q.ok => q.state.left < w.left
  <2>1. CASE ~p.ok
    BY <1>2, <1>5, <2>1
  <2>2. CASE p.ok
    <3>1. q \in ApplyChannel(p.state) /\ p.state \in PhyStates
      BY <1>2, <1>5, <2>2 DEF SameObject
    <3>2. /\ SameObject(p.state, q.state)
          /\ q.state.started = p.state.started /\ q.state.rate = p.state.rate
          /\ q.ok => q.state.drvCh = p.state.ch
          /\ ~q.ok /\ p.state.started => q.state.left < p.state.left
      BY <3>1, ApplyChannelOutcome
    <3>3. p.state.left \in Nat /\ q.state.left \in Nat
      BY <3>1, <3>2 DEF SameObject, PhyStates
    <3>4. SameObject(w, q.state)
      BY <1>0, <1>5, <3>2, <3>3 DEF SameObject
    <3>. QED BY <1>0, <1>5, <2>2, <3>2, <3>3, <3>4
             DEF SameObject, InStep, DriverAsStored
  <2>. QED BY <2>1, <2>2
<1>7. q.state \in PhyStates /\ q.state.left \in Nat
  BY <1>6 DEF SameObject, PhyStates
<1>8. CASE ~q.ok
  <2>1. o = q
    BY <1>1, <1>8
  <2>2. Sound(q.state) /\ ~q.state.ready
    BY <1>6, <1>7 DEF SameObject, Sound
  <2>. QED BY <1>0, <1>6, <1>7, <1>8, <2>1, <2>2 DEF SameObject
<1>9. CASE q.ok
  <2>1. PICK r \in ApplyMonitor(q.state) :
           o \in IF r.ok THEN Done(Readied(r.state)) ELSE {r}
    BY <1>1, <1>9
  <2>2. /\ SameObject(q.state, r.state)
        /\ r.state.started = q.state.started /\ r.state.drvCh = q.state.drvCh
        /\ r.state.rate = q.state.rate
        /\ ~r.ok => r.state.left < q.state.left
        /\ r.state.left = q.state.left => r.ok /\ r.state.mask = MaskFor(q.state.ch)
    BY <1>7, <2>1, ApplyMonitorOutcome
  <2>3. r.state \in PhyStates /\ r.state.left \in Nat
    BY <2>2 DEF SameObject, PhyStates
  <2>4. Sound(r.state) /\ ~r.state.ready
    BY <1>6, <2>2, <2>3 DEF SameObject, Sound
  <2>5. SameObject(w, r.state) /\ InStep(r.state)
    BY <1>0, <1>6, <1>7, <1>9, <2>2, <2>3 DEF SameObject, InStep, DriverAsStored
  <2>6. CASE ~r.ok
    <3>1. o = r
      BY <2>1, <2>6
    <3>. QED BY <1>0, <1>6, <1>7, <2>2, <2>3, <2>4, <2>5, <2>6, <3>1 DEF SameObject
  <2>7. CASE r.ok
    <3>. DEFINE x == Readied(r.state)
    <3>1. o = [state |-> x, ok |-> TRUE]
      BY <2>1, <2>7 DEF Done
    <3>2. o.state = x /\ o.ok
      BY <3>1
    <3>3. x \in PhyStates
      BY <2>3 DEF PhyStates
    <3>4. /\ x.ready = TRUE /\ x.ch = r.state.ch /\ x.mod = r.state.mod
          /\ x.tune = r.state.tune /\ x.left = r.state.left
      BY <2>3 DEF PhyStates
    <3>5. /\ x.started = r.state.started /\ x.drvCh = r.state.drvCh
          /\ x.rate = r.state.rate /\ x.mask = r.state.mask
      BY <2>3 DEF PhyStates
    <3>. HIDE DEF x
    <3>6. Sound(x) /\ InStep(x)
      BY <2>4, <2>5, <3>3, <3>4, <3>5 DEF Sound, InStep, DriverAsStored
    <3>7. x.left = w.left => x.mask = MaskFor(x.ch)
      BY <1>0, <1>6, <1>7, <2>2, <2>3, <3>4, <3>5 DEF SameObject
    <3>8. x.ch = w.ch /\ x.mod = w.mod /\ x.tune = w.tune /\ x.left <= w.left
      BY <2>5, <3>4 DEF SameObject
    <3>. QED BY <3>2, <3>4, <3>6, <3>7, <3>8
  <2>. QED BY <2>6, <2>7
<1>. QED BY <1>8, <1>9

-----------------------------------------------------------------------------
(***************************************************************************)
(* The network.                                                            *)
(***************************************************************************)

NetStates ==
    [mode : NetModes, ip : IPS, ready : BOOLEAN, link : BOOLEAN,
     dhcp : BOOLEAN, addr : 0..LEASE, using : BOOLEAN, connected : BOOLEAN,
     armed : BOOLEAN, left : Nat]

(* The address is as set, the static one belongs to a radio whose client is *)
(* stopped, an address without a client is the static one, and the timer    *)
(* runs only when the radio is up.                                          *)
AddressHeld(n) ==
    /\ AddressAsSet(n)
    /\ n.using => n.ready /\ ~n.dhcp
    /\ n.addr # NO_IP /\ ~n.dhcp => n.using
    /\ n.armed => n.ready

(* What a step of the manager keeps when lwIP refuses none of its calls. *)
KeepsAddress(n, m) ==
    /\ m \in NetStates /\ m.left <= n.left /\ m.ready = n.ready
    /\ m.left = n.left /\ AddressHeld(n) =>
          AddressHeld(m) /\ (FallbackToCome(n) => FallbackToCome(m))

LEMMA IpsAreAddresses == ASSUME NEW ip \in IPS PROVE ip \in 0..LEASE /\ ip # NO_IP
BY NetManagerAssumption DEF NO_IP, LEASE

LEMMA KeepsCompose ==
  ASSUME NEW n \in NetStates, NEW m, NEW k, KeepsAddress(n, m), KeepsAddress(m, k)
  PROVE  KeepsAddress(n, k)
<1>1. n.left \in Nat /\ m.left \in Nat /\ k.left \in Nat
  BY DEF KeepsAddress, NetStates
<1>. QED BY <1>1 DEF KeepsAddress

LEMMA ApplyStaticIpOutcome ==
  ASSUME NEW n \in NetStates, NEW ip \in IPS, NEW o \in ApplyStaticIp(n, ip)
  PROVE  /\ o.state \in NetStates /\ o.state.left <= n.left
         /\ o.state.mode = n.mode /\ o.state.ip = n.ip
         /\ o.state.ready = n.ready /\ o.state.armed = n.armed
         /\ o.state.left = n.left =>
               /\ o.state.addr = ip /\ o.state.using /\ o.state.connected
               /\ ~o.state.dhcp /\ o.ok
<1>. DEFINE stopped == IF n.dhcp THEN [n EXCEPT !.dhcp = FALSE, !.addr = NO_IP] ELSE n
            Set(m)  == [m EXCEPT !.addr = ip, !.using = TRUE, !.connected = TRUE]
<1>0. ip \in 0..LEASE /\ NO_IP \in 0..LEASE
  BY IpsAreAddresses DEF NO_IP, LEASE
<1>1. PICK p \in Call(n, stopped) :
         o \in IF p.ok THEN Call(p.state, Set(p.state)) ELSE {p}
  BY DEF ApplyStaticIp, DhcpStop, Then
<1>2. /\ stopped \in NetStates /\ stopped.left = n.left
      /\ stopped.mode = n.mode /\ stopped.ip = n.ip
      /\ stopped.ready = n.ready /\ stopped.armed = n.armed
      /\ ~stopped.dhcp
  <2>1. CASE n.dhcp
    BY <1>0, <2>1 DEF NetStates
  <2>2. CASE ~n.dhcp
    BY <2>2
  <2>. QED BY <2>1, <2>2
<1>. HIDE DEF stopped
<1>3. CASE p.ok /\ p.state = stopped
  <2>1. o \in Call(stopped, Set(stopped))
    BY <1>1, <1>3
  <2>2. CASE o.ok /\ o.state = Set(stopped)
    <3>1. Set(stopped) \in NetStates
      BY <1>0, <1>2 DEF NetStates
    <3>2. /\ Set(stopped).left = stopped.left /\ Set(stopped).mode = stopped.mode
          /\ Set(stopped).ip = stopped.ip /\ Set(stopped).ready = stopped.ready
          /\ Set(stopped).armed = stopped.armed
      BY <1>2 DEF NetStates
    <3>3. /\ Set(stopped).addr = ip /\ Set(stopped).using = TRUE
          /\ Set(stopped).connected = TRUE /\ Set(stopped).dhcp = stopped.dhcp
      BY <1>2 DEF NetStates
    <3>4. n.left \in Nat
      BY DEF NetStates
    <3>. QED BY <1>2, <2>2, <3>1, <3>2, <3>3, <3>4
  <2>3. CASE stopped.left > 0 /\ ~o.ok /\ o.state = [stopped EXCEPT !.left = @ - 1]
    BY <1>2, <2>3 DEF NetStates
  <2>. QED BY <2>1, <2>2, <2>3, CallOutcome
<1>4. CASE n.left > 0 /\ ~p.ok /\ p.state = [n EXCEPT !.left = @ - 1]
  <2>1. o = p
    BY <1>1, <1>4
  <2>. QED BY <1>4, <2>1 DEF NetStates
<1>. QED BY <1>1, <1>3, <1>4, CallOutcome

(* Applied to a radio that is ready, a mode leaves all as it should be, *)
(* whatever was there before.                                           *)
LEMMA ApplyNetworkOutcome ==
  ASSUME NEW n \in NetStates, NEW o \in ApplyNetwork(n)
  PROVE  /\ o.state \in NetStates /\ o.state.left <= n.left
         /\ o.state.mode = n.mode /\ o.state.ip = n.ip
         /\ o.state.ready = n.ready
         /\ ~n.ready => o.state = n
         /\ n.ready /\ o.state.left = n.left =>
               AddressHeld(o.state) /\ FallbackToCome(o.state)
         /\ o.state.left = n.left => o.ok
<1>0. n.left \in Nat /\ NO_IP \in 0..LEASE
  BY DEF NetStates, NO_IP, LEASE
<1>1. CASE ~n.ready
  <2>1. o = [state |-> n, ok |-> TRUE]
    BY <1>1 DEF ApplyNetwork, Done
  <2>2. o.state = n /\ o.ok
    BY <2>1
  <2>. QED BY <1>0, <1>1, <2>2
<1>2. CASE n.ready /\ n.mode = "AUTO"
  <2>. DEFINE asking == IF n.dhcp THEN n ELSE [n EXCEPT !.dhcp = TRUE, !.addr = NO_IP]
              Armed(m) == [[m EXCEPT !.using = FALSE, !.connected = m.addr # NO_IP]
                              EXCEPT !.armed = TRUE]
  <2>1. PICK p \in Call(n, asking) :
           o \in IF p.ok THEN Done(Armed(p.state)) ELSE {p}
    BY <1>2 DEF ApplyNetwork, DhcpStart, Then, ScheduleStaticFallback
  <2>2. /\ asking \in NetStates /\ asking.left = n.left
        /\ asking.mode = n.mode /\ asking.ip = n.ip /\ asking.ready = n.ready
        /\ asking.dhcp
    <3>1. CASE n.dhcp
      BY <3>1
    <3>2. CASE ~n.dhcp
      <4>1. asking \in NetStates
        BY <1>0, <3>2 DEF NetStates
      <4>2. asking.dhcp
        BY <3>2 DEF NetStates
      <4>3. /\ asking.left = n.left /\ asking.mode = n.mode
            /\ asking.ip = n.ip /\ asking.ready = n.ready
        BY <3>2 DEF NetStates
      <4>. QED BY <4>1, <4>2, <4>3
    <3>. QED BY <3>1, <3>2
  <2>. HIDE DEF asking
  <2>3. CASE p.ok /\ p.state = asking
    <3>. DEFINE m == Armed(asking)
    <3>1. o = [state |-> m, ok |-> TRUE]
      BY <2>1, <2>3 DEF Done
    <3>2. o.state = m /\ o.ok
      BY <3>1
    <3>3. m \in NetStates
      BY <2>2 DEF NetStates
    <3>4. /\ m.left = n.left /\ m.mode = n.mode /\ m.ip = n.ip
          /\ m.ready = n.ready
      BY <2>2 DEF NetStates
    <3>5. m.dhcp = asking.dhcp /\ m.addr = asking.addr
      BY <2>2 DEF NetStates
    <3>6. m.using = FALSE /\ m.connected = (m.addr # NO_IP) /\ m.armed = TRUE
      BY <2>2 DEF NetStates
    <3>. HIDE DEF m
    <3>7. AddressHeld(m) /\ FallbackToCome(m)
      BY <1>2, <2>2, <3>4, <3>5, <3>6 DEF AddressHeld, AddressAsSet, FallbackToCome
    <3>. QED BY <1>0, <1>2, <3>2, <3>3, <3>4, <3>7
  <2>4. CASE n.left > 0 /\ ~p.ok /\ p.state = [n EXCEPT !.left = @ - 1]
    <3>1. o = p
      BY <2>1, <2>4
    <3>2. /\ p.state \in NetStates /\ p.state.left = n.left - 1
          /\ p.state.mode = n.mode /\ p.state.ip = n.ip
      BY <2>4 DEF NetStates
    <3>3. p.state.ready = n.ready
      BY <2>4 DEF NetStates
    <3>. QED BY <1>0, <1>2, <3>1, <3>2, <3>3
  <2>. QED BY <2>1, <2>3, <2>4, CallOutcome
<1>3. CASE n.ready /\ n.mode # "AUTO"
  <2>. DEFINE m == [n EXCEPT !.armed = FALSE]
  <2>1. o \in ApplyStaticIp(m, n.ip)
    BY <1>3 DEF ApplyNetwork, CancelStaticFallback
  <2>2. /\ m \in NetStates /\ m.left = n.left /\ m.mode = n.mode /\ m.ip = n.ip
        /\ m.ready = n.ready
    BY DEF NetStates
  <2>3. m.armed = FALSE /\ n.ip \in IPS
    BY DEF NetStates
  <2>. HIDE DEF m
  <2>4. /\ o.state \in NetStates /\ o.state.left <= m.left
        /\ o.state.mode = m.mode /\ o.state.ip = m.ip
        /\ o.state.ready = m.ready /\ o.state.armed = m.armed
        /\ o.state.left = m.left =>
              /\ o.state.addr = n.ip /\ o.state.using /\ o.state.connected
              /\ ~o.state.dhcp /\ o.ok
    BY <2>1, <2>2, <2>3, ApplyStaticIpOutcome
  <2>5. ASSUME o.state.left = n.left
        PROVE  AddressHeld(o.state) /\ FallbackToCome(o.state)
    BY <1>3, <2>2, <2>3, <2>4, <2>5
       DEF AddressHeld, AddressAsSet, FallbackToCome
  <2>. QED BY <1>3, <2>2, <2>4, <2>5
<1>. QED BY <1>1, <1>2, <1>3

LEMMA SetNetworkModeOutcome ==
  ASSUME NEW n \in NetStates, NEW mode \in NetModes, NEW o \in SetNetworkMode(n, mode)
  PROVE  /\ KeepsAddress(n, o.state)
         /\ o.state.mode = mode /\ o.state.ip = n.ip
         /\ o.state.left = n.left => o.ok
<1>1. CASE n.mode = mode /\ n.ready
  <2>1. o = [state |-> n, ok |-> TRUE]
    BY <1>1 DEF SetNetworkMode, Done
  <2>2. o.state = n /\ o.ok /\ n.left \in Nat
    BY <2>1 DEF NetStates
  <2>3. KeepsAddress(n, n)
    BY <2>2 DEF KeepsAddress
  <2>. QED BY <1>1, <2>2, <2>3
<1>2. CASE ~(n.mode = mode /\ n.ready)
  <2>. DEFINE m == [n EXCEPT !.mode = mode]
  <2>1. o \in ApplyNetwork(m)
    BY <1>2 DEF SetNetworkMode
  <2>2. /\ m \in NetStates /\ m.mode = mode /\ m.ip = n.ip /\ m.ready = n.ready
        /\ m.left = n.left /\ m.dhcp = n.dhcp /\ m.addr = n.addr
    BY DEF NetStates
  <2>3. m.using = n.using /\ m.connected = n.connected /\ m.armed = n.armed
    BY DEF NetStates
  <2>. HIDE DEF m
  <2>4. /\ o.state \in NetStates /\ o.state.left <= m.left
        /\ o.state.mode = m.mode /\ o.state.ip = m.ip
        /\ o.state.ready = m.ready
        /\ ~m.ready => o.state = m
        /\ m.ready /\ o.state.left = m.left =>
              AddressHeld(o.state) /\ FallbackToCome(o.state)
        /\ o.state.left = m.left => o.ok
    BY <2>1, <2>2, ApplyNetworkOutcome
  <2>5. ~m.ready /\ AddressHeld(n) => AddressHeld(m) /\ FallbackToCome(m)
    BY <2>2, <2>3 DEF AddressHeld, AddressAsSet, FallbackToCome
  <2>. QED BY <2>2, <2>4, <2>5 DEF KeepsAddress
<1>. QED BY <1>1, <1>2

LEMMA SetIpOutcome ==
  ASSUME NEW n \in NetStates, NEW ip \in IPS, NEW o \in SetIp(n, ip)
  PROVE  /\ KeepsAddress(n, o.state)
         /\ o.state.mode = n.mode /\ o.state.ip = ip
<1>. DEFINE m == [n EXCEPT !.ip = ip]
<1>1. /\ m \in NetStates /\ m.mode = n.mode /\ m.ip = ip /\ m.ready = n.ready
      /\ m.left = n.left /\ m.dhcp = n.dhcp /\ m.addr = n.addr
  BY DEF NetStates
<1>2. m.using = n.using /\ m.connected = n.connected /\ m.armed = n.armed
  BY DEF NetStates
<1>3. o \in IF ~m.ready THEN Done(m)
            ELSE IF m.mode = "STATIC" THEN ApplyNetwork(m)
            ELSE IF m.using THEN ApplyStaticIp(m, ip) ELSE Done(m)
  BY DEF SetIp
<1>. HIDE DEF m
<1>4. CASE ~m.ready \/ (m.mode # "STATIC" /\ ~m.using)
  <2>1. o = [state |-> m, ok |-> TRUE]
    BY <1>3, <1>4 DEF Done
  <2>2. o.state = m /\ m.left <= n.left
    BY <1>1, <2>1 DEF NetStates
  <2>3. AddressHeld(n) => AddressHeld(m) /\ (FallbackToCome(n) => FallbackToCome(m))
    BY <1>1, <1>2, <1>4 DEF AddressHeld, AddressAsSet, FallbackToCome
  <2>. QED BY <1>1, <2>2, <2>3 DEF KeepsAddress
<1>5. CASE m.ready /\ m.mode = "STATIC"
  <2>1. o \in ApplyNetwork(m)
    BY <1>3, <1>5
  <2>2. /\ o.state \in NetStates /\ o.state.left <= m.left
        /\ o.state.mode = m.mode /\ o.state.ip = m.ip
        /\ o.state.ready = m.ready
        /\ m.ready /\ o.state.left = m.left =>
              AddressHeld(o.state) /\ FallbackToCome(o.state)
    BY <1>1, <2>1, ApplyNetworkOutcome
  <2>. QED BY <1>1, <1>5, <2>2 DEF KeepsAddress
<1>6. CASE m.ready /\ m.mode # "STATIC" /\ m.using
  <2>1. o \in ApplyStaticIp(m, ip)
    BY <1>3, <1>6
  <2>2. /\ o.state \in NetStates /\ o.state.left <= m.left
        /\ o.state.mode = m.mode /\ o.state.ip = m.ip
        /\ o.state.ready = m.ready /\ o.state.armed = m.armed
        /\ o.state.left = m.left =>
              /\ o.state.addr = ip /\ o.state.using /\ o.state.connected
              /\ ~o.state.dhcp
    BY <1>1, <2>1, ApplyStaticIpOutcome
  <2>3. ip # NO_IP
    BY IpsAreAddresses
  <2>4. o.state.left = m.left => AddressHeld(o.state) /\ FallbackToCome(o.state)
    BY <1>1, <1>6, <2>2, <2>3 DEF AddressHeld, AddressAsSet, FallbackToCome
  <2>. QED BY <1>1, <2>2, <2>4 DEF KeepsAddress
<1>. QED BY <1>4, <1>5, <1>6

(* bring_up() starts from nothing, so all is as it should be. *)
LEMMA BringUpOutcome ==
  ASSUME NEW n \in NetStates, NEW o \in BringUp(n)
  PROVE  /\ o.state \in NetStates /\ o.state.left <= n.left
         /\ o.state.mode = n.mode /\ o.state.ip = n.ip
         /\ o.state.left = n.left => AddressHeld(o.state) /\ FallbackToCome(o.state)
<1>. DEFINE m == [n EXCEPT !.ready = TRUE]
<1>1. o \in ApplyNetwork(m)
  BY DEF BringUp
<1>2. m \in NetStates /\ m.mode = n.mode /\ m.ip = n.ip /\ m.left = n.left
  BY DEF NetStates
<1>3. m.ready
  BY DEF NetStates
<1>. HIDE DEF m
<1>. QED BY <1>1, <1>2, <1>3, ApplyNetworkOutcome

LEMMA StaticFallbackOutcome ==
  ASSUME NEW n \in NetStates, n.armed, NEW o \in StaticFallback(n)
  PROVE  KeepsAddress(n, o.state) /\ o.state.mode = n.mode /\ o.state.ip = n.ip
<1>. DEFINE m == [n EXCEPT !.armed = FALSE]
<1>1. /\ m \in NetStates /\ m.mode = n.mode /\ m.ip = n.ip /\ m.ready = n.ready
      /\ m.left = n.left /\ m.dhcp = n.dhcp /\ m.addr = n.addr
  BY DEF NetStates
<1>2. m.using = n.using /\ m.connected = n.connected /\ m.armed = FALSE
  BY DEF NetStates
<1>3. o \in IF m.mode # "AUTO" \/ m.addr # NO_IP THEN Done(m)
            ELSE ApplyStaticIp(m, m.ip)
  BY DEF StaticFallback
<1>4. m.ip \in IPS /\ n.left \in Nat
  BY <1>1 DEF NetStates
<1>. HIDE DEF m
<1>5. CASE m.mode # "AUTO" \/ m.addr # NO_IP
  <2>1. o = [state |-> m, ok |-> TRUE]
    BY <1>3, <1>5 DEF Done
  <2>2. o.state = m
    BY <2>1
  <2>3. AddressHeld(n) => AddressHeld(m) /\ FallbackToCome(m)
    BY <1>1, <1>2, <1>5 DEF AddressHeld, AddressAsSet, FallbackToCome
  <2>. QED BY <1>1, <1>4, <2>2, <2>3 DEF KeepsAddress
<1>6. CASE m.mode = "AUTO" /\ m.addr = NO_IP
  <2>1. o \in ApplyStaticIp(m, m.ip)
    BY <1>3, <1>6
  <2>2. /\ o.state \in NetStates /\ o.state.left <= m.left
        /\ o.state.mode = m.mode /\ o.state.ip = m.ip
        /\ o.state.ready = m.ready /\ o.state.armed = m.armed
        /\ o.state.left = m.left =>
              /\ o.state.addr = m.ip /\ o.state.using /\ o.state.connected
              /\ ~o.state.dhcp
    BY <1>1, <1>4, <2>1, ApplyStaticIpOutcome
  <2>3. m.ip # NO_IP
    BY <1>4, IpsAreAddresses
  <2>4. CASE n.ready
    <3>1. o.state.left = m.left => AddressHeld(o.state) /\ FallbackToCome(o.state)
      BY <1>1, <1>6, <2>2, <2>3, <2>4 DEF AddressHeld, AddressAsSet, FallbackToCome
    <3>. QED BY <1>1, <2>2, <3>1 DEF KeepsAddress
  <2>5. CASE ~n.ready
    <3>1. ~AddressHeld(n)
      BY <2>5 DEF AddressHeld
    <3>. QED BY <1>1, <2>2, <3>1 DEF KeepsAddress
  <2>. QED BY <2>4, <2>5
<1>. QED BY <1>5, <1>6

-----------------------------------------------------------------------------
(***************************************************************************)
(* Snapshots, blobs and the flash.                                         *)
(***************************************************************************)

Blobs   == {NoBlob} \cup [version : Nat, snap : ValidSnapshots]
Flashes == [cur : SLOTS, blobs : [SLOTS -> Blobs]]

LEMMA SnapshotFields ==
  ASSUME NEW s \in ValidSnapshots
  PROVE  /\ s \in Snapshots /\ s # NoBlob
         /\ s.mode \in Modes /\ s.ch \in CHANNELS /\ s.mod \in Modulations
         /\ s.tune \in TUNES /\ s.up \in BOOLEAN /\ s.net \in NetModes
         /\ s.ip \in IPS /\ ModulationOk(s.mod, s.ch)
BY SavedAssumption DEF ValidSnapshots, Snapshots

LEMMA DefaultsValid == Defaults \in ValidSnapshots
<1>1. Defaults \in Snapshots
  BY WifiPhyAssumption, NetManagerAssumption
     DEF Defaults, Snapshots, Modes, Modulations, NetModes
<1>2. ModulationOk(Defaults.mod, Defaults.ch)
  BY DEF Defaults, ModulationOk
<1>. QED BY <1>1, <1>2 DEF ValidSnapshots

LEMMA UnpackedValid ==
  ASSUME NEW b \in Blobs
  PROVE  Unpacked(b) = NoBlob \/ Unpacked(b) \in ValidSnapshots
<1>1. CASE b = NoBlob
  BY <1>1 DEF Unpacked
<1>2. CASE b # NoBlob
  <2>1. b.snap \in ValidSnapshots
    BY <1>2 DEF Blobs
  <2>2. [b.snap EXCEPT !.up = FALSE] \in ValidSnapshots
    BY <2>1 DEF ValidSnapshots, Snapshots
  <2>3. Unpacked(b) \in {NoBlob, b.snap, [b.snap EXCEPT !.up = FALSE]}
    BY DEF Unpacked
  <2>. QED BY <2>1, <2>2, <2>3
<1>. QED BY <1>1, <1>2

LEMMA PackedUnpacked ==
  ASSUME NEW snap \in ValidSnapshots
  PROVE  Packed(snap) \in Blobs /\ Unpacked(Packed(snap)) = snap
<1>1. Packed(snap) \in [version : Nat, snap : ValidSnapshots]
  BY DEF Packed, VERSION
<1>2. Packed(snap) # NoBlob
  <2>1. Packed(snap) \in [version : Nat, snap : Snapshots]
    BY <1>1 DEF ValidSnapshots
  <2>. QED BY <2>1, SavedAssumption
<1>3. Packed(snap).version = 7 /\ Packed(snap).snap = snap
  BY DEF Packed, VERSION
<1>. QED BY <1>1, <1>2, <1>3 DEF Blobs, Unpacked, VERSION, MIN_VERSION

LEMMA BootsValid ==
  ASSUME NEW f \in Flashes
  PROVE  /\ Boots(f) \in ValidSnapshots
         /\ Current(f) # NoBlob => Boots(f) = Unpacked(f.blobs[f.cur])
         /\ Current(f) = NoBlob => Boots(f) = Defaults
<1>1. f.blobs[f.cur] \in Blobs
  BY DEF Flashes
<1>. QED BY <1>1, UnpackedValid, DefaultsValid DEF Boots, Current

LEMMA BlobWritten ==
  ASSUME NEW f \in Flashes, NEW slot \in SLOTS, NEW snap \in ValidSnapshots,
         NEW w, w.what = "blob", w.slot = slot, w.snap = snap
  PROVE  /\ Written(f, w) \in Flashes
         /\ Unpacked(Written(f, w).blobs[slot]) = snap
         /\ Boots(Written(f, w)) \in {Boots(f), snap}
<1>. DEFINE g == Written(f, w)
<1>1. g = [f EXCEPT !.blobs[slot] = Packed(snap)]
  BY DEF Written
<1>2. Packed(snap) \in Blobs /\ Unpacked(Packed(snap)) = snap /\ snap # NoBlob
  BY PackedUnpacked, SnapshotFields
<1>. HIDE DEF g
<1>3. g \in Flashes /\ g.cur = f.cur
  BY <1>1, <1>2 DEF Flashes
<1>4. \A i \in SLOTS : g.blobs[i] = IF i = slot THEN Packed(snap) ELSE f.blobs[i]
  BY <1>1 DEF Flashes
<1>5. f.cur \in SLOTS
  BY DEF Flashes
<1>6. CASE f.cur = slot
  <2>1. g.blobs[g.cur] = Packed(snap)
    BY <1>3, <1>4, <1>5, <1>6
  <2>2. Boots(g) = snap
    BY <1>2, <2>1 DEF Boots, Current
  <2>. QED BY <1>2, <1>3, <1>4, <2>2 DEF g
<1>7. CASE f.cur # slot
  <2>1. g.blobs[g.cur] = f.blobs[f.cur]
    BY <1>3, <1>4, <1>5, <1>7
  <2>2. Boots(g) = Boots(f)
    BY <2>1 DEF Boots, Current
  <2>. QED BY <1>2, <1>3, <1>4, <2>2 DEF g
<1>. QED BY <1>6, <1>7

LEMMA SlotWritten ==
  ASSUME NEW f \in Flashes, NEW slot \in SLOTS, NEW snap \in ValidSnapshots,
         Unpacked(f.blobs[slot]) = snap,
         NEW w, w.what = "cur", w.slot = slot
  PROVE  /\ Written(f, w) \in Flashes /\ Written(f, w).cur = slot
         /\ Unpacked(Written(f, w).blobs[slot]) = snap
         /\ Boots(Written(f, w)) = snap
<1>. DEFINE g == Written(f, w)
<1>1. g = [f EXCEPT !.cur = slot]
  BY DEF Written
<1>. HIDE DEF g
<1>2. g \in Flashes /\ g.cur = slot /\ g.blobs = f.blobs
  BY <1>1 DEF Flashes
<1>3. snap # NoBlob
  BY SnapshotFields
<1>4. Boots(g) = snap
  BY <1>2, <1>3 DEF Boots, Current
<1>. QED BY <1>2, <1>4 DEF g

-----------------------------------------------------------------------------
(***************************************************************************)
(* The inductive invariant, one part per subject.                          *)
(***************************************************************************)

Devices ==
    [at : {"off", "rescue", "booting", "full"}, mode : Modes, up : BOOLEAN,
     slot : SLOTS, has : BOOLEAN, loaded : ValidSnapshots]

Commands ==
    [kind : {"none", "save", "persist", "use"},
     todo : {<<"blob", "cur">>, <<"cur">>, <<>>}, slot : SLOTS,
     snap : ValidSnapshots]

Spendings == [commands : Nat, crashes : Nat, links : Nat, faults : Nat]

RadioTypeOK ==
    /\ flash \in Flashes /\ unsaved \in Seq(Flashes)
    /\ Sound(phy) /\ net \in NetStates
    /\ dev \in Devices /\ cmd \in Commands /\ spent \in Spendings
    /\ promised \in ValidSnapshots /\ tried \subseteq ValidSnapshots
    /\ fresh \in BOOLEAN

(* A command runs on a radio that is up, and a radio that is off has *)
(* nothing in memory.                                                *)
CommandOK ==
    /\ cmd.kind = "none" => Idle
    /\ ~Idle => Used
    /\ dev.at = "off" => unsaved = <<>>
    /\ cmd.kind = "use" => cmd.todo # <<"blob", "cur">>

(* Once its blob is written, or for "use" from the start, the command's slot *)
(* holds its snapshot; once its number is written too, it is the current one. *)
FlashOK ==
    /\ \A k \in 0..Len(unsaved) : Boots(AfterWrites(k)) \in ToBeFound
    /\ ~Idle /\ cmd.todo # <<"blob", "cur">> =>
          Unpacked(Read.blobs[cmd.slot]) = cmd.snap
    /\ ~Idle /\ cmd.todo = <<>> => Read.cur = cmd.slot

(* The driver is in step until a second call is refused. *)
DriverOK ==
    /\ phy.left <= PHY_FAULTS
    /\ phy.ready /\ phy.left >= PHY_FAULTS - 1 => InStep(phy)
    /\ Full /\ phy.left = PHY_FAULTS => phy.ready
    /\ dev.at = "booting" => phy = Cold(phy.left)

(* Until the next change the network is as loaded in any case, the radio *)
(* when no call was refused.  Leases and the timer are no change.        *)
FreshOK ==
    /\ dev.at = "booting" => /\ fresh /\ dev.mode = "TUNNEL" /\ dev.up = FALSE
                             /\ ~dev.has => dev.loaded = Defaults
    /\ dev.at \in {"booting", "full"} /\ fresh =>
          /\ dev.loaded.mode # "OTA" /\ dev.mode # "OTA"
          /\ net.mode = dev.loaded.net /\ net.ip = dev.loaded.ip
    /\ AppliedAsSaved
    /\ Full /\ fresh /\ cmd.kind = "save" => cmd.snap = Live

NetworkOK ==
    /\ net.left <= NET_FAULTS
    /\ net.left = NET_FAULTS => AddressHeld(net)
    /\ FallbackComes

(* While the radio part of OTA's entry is remembered, whatever a boot may  *)
(* find has it, if it is OTA mode again or no call was refused: without    *)
(* the radio, a save stores the defaults.                                  *)
KeptOK ==
    kept # NoBlob /\ spent.faults = 0 =>
        /\ \A s \in ToBeFound :
              s.mode = "OTA" \/ NothingRefused => RadioPart(s) = kept
        /\ dev.at = "rescue" =>
              /\ RadioPart(dev.loaded) = kept
              /\ dev.loaded.mode = "OTA" \/ cmd.kind = "persist"
              /\ cmd.kind = "save" => cmd.snap.mode = "OTA"
        /\ dev.at \in {"booting", "full"} /\ NothingRefused =>
              RadioPart(dev.loaded) = kept
        /\ Full => fresh /\ cmd.kind # "persist"
        /\ cmd.kind # "use"

-----------------------------------------------------------------------------
LEMMA ReadTyped ==
  ASSUME RadioTypeOK
  PROVE  /\ Len(unsaved) \in Nat
         /\ \A k \in 0..Len(unsaved) : AfterWrites(k) \in Flashes
         /\ Read \in Flashes
<1>1. Len(unsaved) \in Nat
  BY DEF RadioTypeOK
<1>2. ASSUME NEW k \in 0..Len(unsaved) PROVE AfterWrites(k) \in Flashes
  <2>1. CASE k = 0
    BY <2>1 DEF AfterWrites, RadioTypeOK
  <2>2. CASE k # 0
    <3>1. k \in 1..Len(unsaved)
      BY <1>1, <2>2
    <3>2. unsaved[k] \in Flashes
      BY <3>1 DEF RadioTypeOK
    <3>. QED BY <2>2, <3>2 DEF AfterWrites
  <2>. QED BY <2>1, <2>2
<1>3. Read \in Flashes
  BY <1>1, <1>2 DEF Read
<1>. QED BY <1>1, <1>2, <1>3

LEMMA LiveFields ==
  /\ Live.mode = dev.mode /\ Live.up = dev.up
  /\ Live.net = net.mode /\ Live.ip = net.ip
  /\ phy.ready => Live.ch = phy.ch /\ Live.mod = phy.mod /\ Live.tune = phy.tune
BY DEF Live

LEMMA LiveValid == ASSUME RadioTypeOK PROVE Live \in ValidSnapshots
<1>1. /\ dev.mode \in Modes /\ dev.up \in BOOLEAN /\ net.mode \in NetModes
      /\ net.ip \in IPS
  BY DEF RadioTypeOK, Devices, NetStates
<1>2. /\ phy.ch \in CHANNELS /\ phy.mod \in Modulations /\ phy.tune \in TUNES
      /\ ModulationOk(phy.mod, phy.ch)
  BY DEF RadioTypeOK, Sound, PhyStates
<1>3. /\ Defaults.ch \in CHANNELS /\ Defaults.mod \in Modulations
      /\ Defaults.tune \in TUNES /\ ModulationOk(Defaults.mod, Defaults.ch)
  BY DefaultsValid, SnapshotFields
<1>4. CASE phy.ready
  <2>1. Live = [mode |-> dev.mode, ch |-> phy.ch, mod |-> phy.mod,
                tune |-> phy.tune, up |-> dev.up, net |-> net.mode, ip |-> net.ip]
    BY <1>4 DEF Live
  <2>2. Live \in Snapshots
    BY <1>1, <1>2, <2>1 DEF Snapshots
  <2>3. Live.mod = phy.mod /\ Live.ch = phy.ch
    BY <2>1
  <2>. QED BY <1>2, <2>2, <2>3 DEF ValidSnapshots
<1>5. CASE ~phy.ready
  <2>1. Live = [mode |-> dev.mode, ch |-> Defaults.ch, mod |-> Defaults.mod,
                tune |-> Defaults.tune, up |-> dev.up, net |-> net.mode,
                ip |-> net.ip]
    BY <1>5 DEF Live
  <2>2. Live \in Snapshots
    BY <1>1, <1>3, <2>1 DEF Snapshots
  <2>3. Live.mod = Defaults.mod /\ Live.ch = Defaults.ch
    BY <2>1
  <2>. QED BY <1>3, <2>2, <2>3 DEF ValidSnapshots
<1>. QED BY <1>4, <1>5

LEMMA ToSaveValid == ASSUME RadioTypeOK PROVE ToSave \in ValidSnapshots
<1>1. dev.loaded \in ValidSnapshots /\ net.ip \in IPS /\ net.mode \in NetModes
  BY DEF RadioTypeOK, Devices, NetStates
<1>2. [dev.loaded EXCEPT !.ip = net.ip, !.net = net.mode] \in ValidSnapshots
  BY <1>1 DEF ValidSnapshots, Snapshots
<1>. QED BY <1>2, LiveValid DEF ToSave

LEMMA StoredModeValid ==
  ASSUME RadioTypeOK, NEW mode \in Modes
  PROVE  [Captured EXCEPT !.mode = mode] \in ValidSnapshots
<1>1. Captured \in ValidSnapshots
  BY LiveValid DEF Captured, RadioTypeOK, Devices
<1>. QED BY <1>1 DEF ValidSnapshots, Snapshots

(* What applying a snapshot to a running radio does, refused calls or not. *)
LEMMA ApplyOutcome ==
  ASSUME NEW d \in Devices, NEW w, Sound(w), NEW n \in NetStates,
         NEW snap \in ValidSnapshots, Apply(d, w, n, snap)
  PROVE  /\ KeepsAddress(n, net') /\ net'.mode = snap.net /\ net'.ip = snap.ip
         /\ StaysInStep(w, phy')
         /\ dev' \in Devices /\ dev'.at = d.at /\ dev'.slot = d.slot
         /\ dev'.has = d.has /\ dev'.loaded = d.loaded /\ dev'.mode = snap.mode
         /\ /\ net'.left = n.left /\ phy'.left = w.left
            /\ w.ready /\ InStep(w)
            => /\ dev'.up = snap.up /\ phy'.ch = snap.ch /\ phy'.mod = snap.mod
               /\ phy'.tune = snap.tune /\ phy'.mask = MaskFor(phy'.ch)
<1>0. snap.mode \in Modes /\ snap.up \in BOOLEAN /\ snap.net \in NetModes
      /\ snap.ip \in IPS
  BY SnapshotFields
<1>1. PICK a \in ApplyNet(n, snap) :
         /\ net' = a.state
         /\ \/ ~a.ok /\ phy' = w /\ dev' = [d EXCEPT !.mode = snap.mode]
            \/ a.ok /\ \E p \in ApplyPhy(w, snap) :
                          /\ phy' = p.state
                          /\ dev' = [d EXCEPT !.mode = snap.mode,
                                              !.up = IF p.ok THEN snap.up ELSE @]
  BY DEF Apply
<1>2. PICK b \in SetIp(n, snap.ip) : a \in SetNetworkMode(b.state, snap.net)
  BY <1>1 DEF ApplyNet, AndAlso
<1>3. KeepsAddress(n, b.state) /\ b.state.ip = snap.ip
  BY <1>0, <1>2, SetIpOutcome
<1>4. b.state \in NetStates
  BY <1>3 DEF KeepsAddress
<1>5. /\ KeepsAddress(b.state, a.state)
      /\ a.state.mode = snap.net /\ a.state.ip = b.state.ip
      /\ a.state.left = b.state.left => a.ok
  BY <1>0, <1>2, <1>4, SetNetworkModeOutcome
<1>6. KeepsAddress(n, a.state)
  BY <1>3, <1>5, KeepsCompose
<1>7. ~a.ok => a.state.left # n.left
  <2>1. n.left \in Nat /\ b.state.left \in Nat /\ a.state.left \in Nat
    BY <1>4, <1>6 DEF KeepsAddress, NetStates
  <2>. QED BY <1>3, <1>5, <2>1 DEF KeepsAddress
<1>8. CASE ~a.ok
  <2>1. phy' = w /\ dev' = [d EXCEPT !.mode = snap.mode]
    BY <1>1, <1>8
  <2>2. StaysInStep(w, w)
    BY DEF StaysInStep, Sound, PhyStates
  <2>3. dev' \in Devices
    BY <1>0, <2>1 DEF Devices
  <2>4. /\ dev'.at = d.at /\ dev'.slot = d.slot /\ dev'.has = d.has
        /\ dev'.loaded = d.loaded /\ dev'.mode = snap.mode
    BY <2>1 DEF Devices
  <2>. QED BY <1>1, <1>3, <1>5, <1>6, <1>7, <1>8, <2>1, <2>2, <2>3, <2>4
<1>9. CASE a.ok
  <2>1. PICK p \in ApplyPhy(w, snap) :
           /\ phy' = p.state
           /\ dev' = [d EXCEPT !.mode = snap.mode,
                               !.up = IF p.ok THEN snap.up ELSE @]
    BY <1>1, <1>9
  <2>2. /\ StaysInStep(w, p.state)
        /\ w.ready /\ InStep(w) /\ p.state.left = w.left =>
              /\ p.ok /\ p.state.ch = snap.ch /\ p.state.mod = snap.mod
              /\ p.state.tune = snap.tune
              /\ p.state.mask = MaskFor(p.state.ch)
    BY ApplyPhyOutcome
  <2>3. dev' \in Devices
    BY <1>0, <2>1 DEF Devices
  <2>4. /\ dev'.at = d.at /\ dev'.slot = d.slot /\ dev'.has = d.has
        /\ dev'.loaded = d.loaded /\ dev'.mode = snap.mode
    BY <2>1 DEF Devices
  <2>5. p.ok => dev'.up = snap.up
    BY <2>1 DEF Devices
  <2>. QED BY <1>1, <1>3, <1>5, <1>6, <2>1, <2>2, <2>3, <2>4, <2>5
<1>. QED BY <1>8, <1>9

-----------------------------------------------------------------------------
(***************************************************************************)
(* Types.                                                                  *)
(***************************************************************************)

LEMMA ColdSound == ASSUME NEW faults \in Nat PROVE Sound(Cold(faults))
BY WifiPhyAssumption DEF Sound, Cold, PhyStates, Modulations, Masks, ModulationOk

LEMMA NoCommandTyped == NoCommand \in Commands
<1>1. 0 \in SLOTS /\ Defaults \in ValidSnapshots
  BY RadioConfigAssumption, DefaultsValid
<1>. QED BY <1>1 DEF NoCommand, Commands

LEMMA OffDeviceTyped == OffDevice \in Devices
<1>1. 0 \in SLOTS /\ Defaults \in ValidSnapshots
  BY RadioConfigAssumption, DefaultsValid
<1>. QED BY <1>1 DEF OffDevice, Devices, Modes

LEMMA WrittenTyped ==
  ASSUME NEW f \in Flashes, NEW what, NEW slot \in SLOTS, NEW snap \in ValidSnapshots
  PROVE  Written(f, [what |-> what, slot |-> slot, snap |-> snap]) \in Flashes
<1>1. Packed(snap) \in Blobs
  BY PackedUnpacked
<1>. DEFINE w == [what |-> what, slot |-> slot, snap |-> snap]
<1>2. CASE what = "blob"
  <2>1. Written(f, w) = [f EXCEPT !.blobs[slot] = Packed(snap)]
    BY <1>2 DEF Written
  <2>. QED BY <1>1, <2>1 DEF Flashes
<1>3. CASE what # "blob"
  <2>1. Written(f, w) = [f EXCEPT !.cur = slot]
    BY <1>3 DEF Written
  <2>. QED BY <2>1 DEF Flashes
<1>. QED BY <1>2, <1>3

(* initialize() and what follows it at boot. *)
LEMMA BootRadioOutcome ==
  ASSUME RadioTypeOK, DriverOK, BootRadio
  PROVE  /\ Sound(phy') /\ phy'.left <= phy.left
         /\ phy'.ready /\ phy'.left >= PHY_FAULTS - 1 => InStep(phy')
         /\ KeepsAddress(net, net')
         /\ dev' \in Devices /\ dev'.at = "full" /\ dev'.slot = dev.slot
         /\ dev'.loaded = dev.loaded
         /\ ~dev.has => /\ net' = net /\ dev'.mode = dev.mode /\ dev'.up = dev.up
                        /\ phy'.ch = 1 /\ phy'.mod = "DSSS" /\ phy'.tune = 0
         /\ dev'.mode \in {dev.mode, dev.loaded.mode}
         /\ \/ net' = net
            \/ net'.mode = dev.loaded.net /\ net'.ip = dev.loaded.ip
         /\ phy'.left = PHY_FAULTS =>
               /\ phy'.ready
               /\ ~dev.has => phy'.mask = MaskFor(phy'.ch)
         /\ dev.has /\ phy'.left = PHY_FAULTS /\ net'.left = net.left =>
               /\ dev'.mode = dev.loaded.mode
               /\ dev'.up = dev.loaded.up /\ phy'.ch = dev.loaded.ch
               /\ phy'.mod = dev.loaded.mod /\ phy'.tune = dev.loaded.tune
               /\ phy'.mask = MaskFor(phy'.ch)
<1>1. PICK o \in Initialize(phy) :
         IF o.ok /\ dev.has
         THEN Apply([dev EXCEPT !.at = "full"], o.state, net, dev.loaded)
         ELSE /\ phy' = o.state /\ dev' = [dev EXCEPT !.at = "full"]
              /\ UNCHANGED net
  BY DEF BootRadio
<1>2. /\ dev.at = "booting" /\ phy = Cold(phy.left) /\ phy.left \in Nat
      /\ phy.left <= PHY_FAULTS /\ PHY_FAULTS \in Nat
  BY RadioConfigAssumption DEF BootRadio, DriverOK, RadioTypeOK, Sound, PhyStates
<1>3. phy.ch = 1 /\ phy.mod = "DSSS" /\ phy.tune = 0 /\ ~phy.ready
  <2>1. \A l : /\ Cold(l).ch = 1 /\ Cold(l).mod = "DSSS" /\ Cold(l).tune = 0
               /\ ~Cold(l).ready
    BY DEF Cold
  <2>. QED BY <1>2, <2>1
<1>4. /\ Sound(o.state) /\ o.state.left <= phy.left
      /\ o.state.ch = phy.ch /\ o.state.mod = phy.mod /\ o.state.tune = phy.tune
      /\ o.state.ready => InStep(o.state)
      /\ o.state.left = phy.left =>
            o.ok /\ o.state.ready /\ o.state.mask = MaskFor(o.state.ch)
  BY <1>3, InitializeOutcome DEF RadioTypeOK
<1>5. o.state.left \in Nat
  BY <1>4 DEF Sound, PhyStates
<1>. DEFINE d == [dev EXCEPT !.at = "full"]
<1>6. d \in Devices
  BY DEF RadioTypeOK, Devices
<1>7. /\ d.at = "full" /\ d.slot = dev.slot /\ d.loaded = dev.loaded
      /\ d.mode = dev.mode /\ d.up = dev.up /\ d.has = dev.has
  BY DEF RadioTypeOK, Devices
<1>8. dev.loaded \in ValidSnapshots /\ net \in NetStates /\ net.left \in Nat
  BY DEF RadioTypeOK, Devices, NetStates
<1>. HIDE DEF d
<1>9. CASE o.ok /\ dev.has
  <2>1. Apply(d, o.state, net, dev.loaded)
    BY <1>1, <1>9 DEF d
  <2>2. /\ KeepsAddress(net, net') /\ net'.mode = dev.loaded.net
        /\ net'.ip = dev.loaded.ip
        /\ StaysInStep(o.state, phy')
        /\ dev' \in Devices /\ dev'.at = d.at /\ dev'.slot = d.slot
        /\ dev'.has = d.has /\ dev'.loaded = d.loaded
        /\ dev'.mode = dev.loaded.mode
        /\ /\ net'.left = net.left /\ phy'.left = o.state.left
           /\ o.state.ready /\ InStep(o.state)
           => /\ dev'.up = dev.loaded.up /\ phy'.ch = dev.loaded.ch
              /\ phy'.mod = dev.loaded.mod /\ phy'.tune = dev.loaded.tune
              /\ phy'.mask = MaskFor(phy'.ch)
    BY <1>4, <1>6, <1>8, <2>1, ApplyOutcome
  <2>3. Sound(phy') /\ phy'.left \in Nat /\ phy'.left <= o.state.left
        /\ phy'.ready = o.state.ready
    BY <2>2 DEF StaysInStep, Sound, PhyStates
  <2>4. phy'.left <= phy.left
    BY <1>2, <1>4, <1>5, <2>3
  <2>5. phy'.ready /\ phy'.left >= PHY_FAULTS - 1 => InStep(phy')
    BY <1>2, <1>4, <1>5, <2>2, <2>3 DEF StaysInStep
  <2>6. phy'.left = PHY_FAULTS => phy'.left = o.state.left /\ o.state.left = phy.left
    BY <1>2, <1>4, <1>5, <2>3
  <2>. QED BY <1>4, <1>7, <1>9, <2>2, <2>3, <2>4, <2>5, <2>6
<1>10. CASE ~(o.ok /\ dev.has)
  <2>1. phy' = o.state /\ dev' = d /\ net' = net
    BY <1>1, <1>10 DEF d
  <2>2. KeepsAddress(net, net)
    BY <1>8 DEF KeepsAddress
  <2>3. o.state.left = PHY_FAULTS => o.state.left = phy.left
    BY <1>2, <1>4, <1>5
  <2>. QED BY <1>3, <1>4, <1>6, <1>7, <1>10, <2>1, <2>2, <2>3
<1>. QED BY <1>9, <1>10

(* Every step of the program and around it, by what it does to the radio *)
(* and the network.                                                      *)
LEMMA BootNetworkOutcome ==
  ASSUME RadioTypeOK, BootNetwork
  PROVE  /\ net' \in NetStates /\ net'.left <= net.left
         /\ net'.mode = dev'.loaded.net /\ net'.ip = dev'.loaded.ip
         /\ net'.left = net.left => AddressHeld(net') /\ FallbackToCome(net')
         /\ phy' = Cold(phy.left) /\ phy.left \in Nat /\ Sound(phy')
         /\ dev' \in Devices /\ dev'.up = FALSE /\ dev'.loaded = Boots(flash)
         /\ dev'.has = (Current(flash) # NoBlob)
         /\ dev'.at = IF dev'.loaded.mode = "OTA" THEN "rescue" ELSE "booting"
         /\ dev'.loaded.mode # "OTA" => dev'.mode = "TUNNEL"
<1>. DEFINE loaded == Boots(flash)
            cold   == Unplugged(net.link, net.left)
            begun  == [cold EXCEPT !.mode = loaded.net, !.ip = loaded.ip]
<1>1. flash \in Flashes /\ net \in NetStates /\ Sound(phy)
  BY DEF RadioTypeOK
<1>2. loaded \in ValidSnapshots
  BY <1>1, BootsValid
<1>3. /\ loaded.mode \in Modes /\ loaded.net \in NetModes /\ loaded.ip \in IPS
  BY <1>2, SnapshotFields
<1>4. cold \in NetStates /\ cold.left = net.left
  BY <1>1, NetManagerAssumption DEF Unplugged, NetStates, NetModes, NO_IP, LEASE
<1>5. PICK o \in BringUp(begun) : net' = o.state
  BY DEF BootNetwork
<1>6. begun \in NetStates /\ begun.left = net.left /\ begun.mode = loaded.net
      /\ begun.ip = loaded.ip
  <2>. HIDE DEF cold, loaded
  <2>. QED BY <1>3, <1>4 DEF NetStates
<1>. HIDE DEF begun
<1>7. /\ o.state \in NetStates /\ o.state.left <= begun.left
      /\ o.state.mode = begun.mode /\ o.state.ip = begun.ip
      /\ o.state.left = begun.left => AddressHeld(o.state) /\ FallbackToCome(o.state)
  BY <1>6, BringUpOutcome
<1>8. phy.left \in Nat /\ phy' = Cold(phy.left)
  BY <1>1 DEF Sound, PhyStates, BootNetwork
<1>9. Sound(phy')
  BY <1>8, ColdSound
<1>10. flash.cur \in SLOTS
  BY <1>1 DEF Flashes
<1>11. dev' = [OffDevice EXCEPT !.slot = flash.cur, !.loaded = loaded,
                                !.has = Current(flash) # NoBlob,
                                !.at = IF loaded.mode = "OTA" THEN "rescue"
                                                              ELSE "booting",
                                !.mode = IF loaded.mode = "OTA" THEN "OTA" ELSE @]
  BY DEF BootNetwork
<1>. HIDE DEF loaded
<1>12. dev' \in Devices
  BY <1>2, <1>10, <1>11, OffDeviceTyped DEF Devices, Modes
<1>13. dev'.loaded = loaded /\ dev'.up = FALSE
       /\ dev'.has = (Current(flash) # NoBlob)
  BY <1>11 DEF OffDevice
<1>14. dev'.at = IF loaded.mode = "OTA" THEN "rescue" ELSE "booting"
  BY <1>11 DEF OffDevice
<1>15. loaded.mode # "OTA" => dev'.mode = "TUNNEL"
  BY <1>11 DEF OffDevice
<1>16. dev'.loaded = Boots(flash)
  BY <1>13 DEF loaded
<1>. QED BY <1>5, <1>6, <1>7, <1>8, <1>9, <1>12, <1>13, <1>14, <1>15, <1>16

LEMMA NetCmdOutcome ==
  ASSUME RadioTypeOK, SetNetworkCmd
  PROVE  KeepsAddress(net, net')
<1>1. net \in NetStates
  BY DEF RadioTypeOK
<1>2. CASE \E mode \in NetModes : \E o \in SetNetworkMode(net, mode) : net' = o.state
  BY <1>1, <1>2, SetNetworkModeOutcome
<1>3. CASE \E ip \in IPS : \E o \in SetIp(net, ip) : net' = o.state
  BY <1>1, <1>3, SetIpOutcome
<1>. QED BY <1>2, <1>3 DEF SetNetworkCmd

LEMMA FallbackOutcome ==
  ASSUME RadioTypeOK, Fallback
  PROVE  KeepsAddress(net, net') /\ net'.mode = net.mode /\ net'.ip = net.ip
BY StaticFallbackOutcome DEF RadioTypeOK, Fallback

LEMMA LeaseOutcome ==
  ASSUME RadioTypeOK, Lease
  PROVE  KeepsAddress(net, net') /\ net'.mode = net.mode /\ net'.ip = net.ip
<1>1. net \in NetStates /\ net.dhcp /\ net.addr = NO_IP
  BY DEF RadioTypeOK, Lease, Leases
<1>2. net' = [net EXCEPT !.addr = LEASE, !.connected = TRUE]
  BY DEF Lease, GotLease
<1>3. net' \in NetStates
  <2>1. LEASE \in 0..LEASE
    BY DEF LEASE
  <2>2. [net EXCEPT !.addr = LEASE] \in NetStates
    BY <1>1, <2>1 DEF NetStates
  <2>3. net' = [[net EXCEPT !.addr = LEASE] EXCEPT !.connected = TRUE]
    BY <1>1, <1>2 DEF NetStates
  <2>. QED BY <2>2, <2>3 DEF NetStates
<1>4. /\ net'.mode = net.mode /\ net'.ip = net.ip /\ net'.ready = net.ready
      /\ net'.left = net.left /\ net'.dhcp = net.dhcp /\ net'.using = net.using
      /\ net'.armed = net.armed
  BY <1>1, <1>2 DEF NetStates
<1>5. net'.addr = LEASE /\ net'.connected = TRUE /\ LEASE # NO_IP
  BY <1>1, <1>2 DEF NetStates, LEASE, NO_IP
<1>6. AddressHeld(net) => AddressHeld(net') /\ FallbackToCome(net')
  BY <1>1, <1>4, <1>5 DEF AddressHeld, AddressAsSet, FallbackToCome
<1>7. net'.left <= net.left
  BY <1>1, <1>4 DEF NetStates
<1>. QED BY <1>3, <1>4, <1>6, <1>7 DEF KeepsAddress

LEMMA LinkBackOutcome ==
  ASSUME RadioTypeOK, LinkBack
  PROVE  KeepsAddress(net, net') /\ net'.mode = net.mode /\ net'.ip = net.ip
<1>1. net \in NetStates /\ net' = [net EXCEPT !.link = TRUE]
  BY DEF RadioTypeOK, LinkBack, LinkUp
<1>2. net' \in NetStates
  BY <1>1 DEF NetStates
<1>3. /\ net'.mode = net.mode /\ net'.ip = net.ip /\ net'.ready = net.ready
      /\ net'.left = net.left /\ net'.dhcp = net.dhcp /\ net'.using = net.using
  BY <1>1 DEF NetStates
<1>4. /\ net'.armed = net.armed /\ net'.addr = net.addr
      /\ net'.connected = net.connected /\ net'.left <= net.left
  BY <1>1 DEF NetStates
<1>5. AddressHeld(net) => AddressHeld(net')
  BY <1>3, <1>4 DEF AddressHeld, AddressAsSet
<1>6. FallbackToCome(net) => FallbackToCome(net')
  BY <1>3, <1>4 DEF FallbackToCome
<1>. QED BY <1>2, <1>3, <1>4, <1>5, <1>6 DEF KeepsAddress

(* A lost link keeps all but the promise that an address is to come. *)
LEMMA LinkLostOutcome ==
  ASSUME RadioTypeOK, LinkLost
  PROVE  /\ net' \in NetStates /\ net'.left = net.left
         /\ net'.mode = net.mode /\ net'.ip = net.ip
         /\ AddressHeld(net) => AddressHeld(net')
<1>1. net \in NetStates
  BY DEF RadioTypeOK
<1>2. net' = [net EXCEPT !.link = FALSE,
                         !.connected = net.using /\ net.connected,
                         !.addr = IF net.dhcp THEN NO_IP ELSE net.addr]
  BY DEF LinkLost, LinkDown
<1>3. net' \in NetStates
  <2>. DEFINE c == net.using /\ net.connected
              a == IF net.dhcp THEN NO_IP ELSE net.addr
  <2>1. c \in BOOLEAN
    OBVIOUS
  <2>2. a \in 0..LEASE
    BY <1>1 DEF NetStates, NO_IP, LEASE
  <2>3. net' = [net EXCEPT !.link = FALSE, !.connected = c, !.addr = a]
    BY <1>2
  <2>. HIDE DEF c, a
  <2>. QED BY <1>1, <2>1, <2>2, <2>3 DEF NetStates
<1>4. /\ net'.mode = net.mode /\ net'.ip = net.ip /\ net'.ready = net.ready
      /\ net'.left = net.left /\ net'.dhcp = net.dhcp /\ net'.using = net.using
      /\ net'.armed = net.armed
  BY <1>1, <1>2 DEF NetStates
<1>5. net'.addr = IF net.dhcp THEN NO_IP ELSE net.addr
  BY <1>1, <1>2 DEF NetStates
<1>6. net'.connected = (net.using /\ net.connected)
  BY <1>1, <1>2 DEF NetStates
<1>7. AddressHeld(net) => AddressHeld(net')
  BY <1>4, <1>5, <1>6 DEF AddressHeld, AddressAsSet
<1>. QED BY <1>3, <1>4, <1>7

LEMMA SettersStayInStep ==
  ASSUME RadioTypeOK, SetChannelCmd \/ SetModulationCmd \/ SetTuneCmd
  PROVE  StaysInStep(phy, phy')
<1>1. Sound(phy)
  BY DEF RadioTypeOK
<1>2. CASE SetChannelCmd
  <2>1. PICK ch \in CHANNELS : \E o \in SetChannel(phy, ch) : phy' = o.state
    BY <1>2 DEF SetChannelCmd, SetRadio
  <2>. QED BY <1>1, <2>1, SetChannelOutcome
<1>3. CASE SetModulationCmd
  <2>1. PICK mod \in Modulations : \E o \in SetModulation(phy, mod) : phy' = o.state
    BY <1>3 DEF SetModulationCmd, SetRadio
  <2>. QED BY <1>1, <2>1, SetModulationOutcome
<1>4. CASE SetTuneCmd
  <2>1. PICK tune \in TUNES : \E o \in SetTune(phy, tune) : phy' = o.state
    BY <1>4 DEF SetTuneCmd, SetRadio
  <2>. QED BY <1>1, <2>1, SetTuneOutcome
<1>. QED BY <1>2, <1>3, <1>4

LEMMA TodoSteps ==
  /\ Head(<<"blob", "cur">>) = "blob" /\ Tail(<<"blob", "cur">>) = <<"cur">>
  /\ Head(<<"cur">>) = "cur" /\ Tail(<<"cur">>) = <<>>
  /\ <<"blob", "cur">> # <<"cur">> /\ <<"blob", "cur">> # <<>> /\ <<"cur">> # <<>>
OBVIOUS

LEMMA TypeInit == Init => RadioTypeOK
<1>. SUFFICES ASSUME Init PROVE RadioTypeOK
  OBVIOUS
<1>1. flash \in Flashes
  <2>1. PICK b \in SAVED :
           flash = [cur |-> 0, blobs |-> [i \in SLOTS |-> IF i = 0 THEN b ELSE NoBlob]]
    BY DEF Init
  <2>2. b \in Blobs /\ NoBlob \in Blobs /\ 0 \in SLOTS
    BY <2>1, SavedAssumption, RadioConfigAssumption DEF Blobs
  <2>. QED BY <2>1, <2>2 DEF Flashes
<1>2. Sound(phy)
  BY RadioConfigAssumption, ColdSound DEF Init
<1>3. net \in NetStates
  <2>1. PICK link \in BOOLEAN : net = Unplugged(link, NET_FAULTS)
    BY DEF Init
  <2>2. FIRST_IP \in IPS /\ NET_FAULTS \in Nat
    BY NetManagerAssumption, RadioConfigAssumption
  <2>. QED BY <2>1, <2>2 DEF Unplugged, NetStates, NetModes, NO_IP, LEASE
<1>4. dev \in Devices /\ cmd \in Commands
  BY OffDeviceTyped, NoCommandTyped DEF Init
<1>5. spent \in Spendings
  BY DEF Init, Spendings
<1>7. unsaved \in Seq(Flashes) /\ tried \subseteq ValidSnapshots /\ fresh \in BOOLEAN
  <2>1. unsaved = <<>> /\ tried = {} /\ fresh = FALSE
    BY DEF Init
  <2>2. <<>> \in Seq(Flashes)
    OBVIOUS
  <2>3. unsaved \in Seq(Flashes)
    BY <2>1, <2>2
  <2>4. tried \subseteq ValidSnapshots
    BY <2>1
  <2>. QED BY <2>1, <2>3, <2>4
<1>6. promised \in ValidSnapshots
  BY <1>1, BootsValid DEF Init
<1>. QED BY <1>1, <1>2, <1>3, <1>4, <1>5, <1>6, <1>7 DEF RadioTypeOK

LEMMA CommandSpends ==
  ASSUME spent \in Spendings, Command PROVE spent' \in Spendings
BY DEF Command, Spendings

LEMMA BeginTyped ==
  ASSUME RadioTypeOK, NEW kind \in {"save", "persist", "use"}, NEW slot \in SLOTS,
         NEW snap \in ValidSnapshots, Begin(kind, slot, snap)
  PROVE  cmd' \in Commands /\ spent' \in Spendings
<1>1. cmd' = [kind |-> kind, todo |-> Writes(kind), slot |-> slot, snap |-> snap]
  BY DEF Begin
<1>2. Writes(kind) \in {<<"blob", "cur">>, <<"cur">>, <<>>}
  BY DEF Writes
<1>3. cmd' \in Commands
  BY <1>1, <1>2 DEF Commands
<1>. QED BY <1>3, CommandSpends DEF Begin, RadioTypeOK

LEMMA RestartTyped ==
  ASSUME RadioTypeOK, Restart, spent' \in Spendings
  PROVE  RadioTypeOK'
<1>1. PICK k \in 0..Len(unsaved) : flash' = AfterWrites(k)
  BY DEF Restart
<1>2. flash' \in Flashes
  BY <1>1, ReadTyped
<1>3. /\ unsaved' = <<>> /\ dev' = OffDevice /\ cmd' = NoCommand
      /\ tried' = (IF Idle THEN tried ELSE tried \cup {cmd.snap})
      /\ fresh' = FALSE
      /\ UNCHANGED <<phy, net, promised, kept>>
  BY DEF Restart
<1>4. cmd.snap \in ValidSnapshots
  BY DEF RadioTypeOK, Commands
<1>5. tried' \subseteq ValidSnapshots
  BY <1>3, <1>4 DEF RadioTypeOK
<1>6. unsaved' \in Seq(Flashes) /\ dev' \in Devices /\ cmd' \in Commands
  BY <1>3, OffDeviceTyped, NoCommandTyped
<1>. QED BY <1>2, <1>3, <1>5, <1>6 DEF RadioTypeOK

(* The flash after a commit and the promise that goes with it. *)
LEMMA CommitTyped ==
  ASSUME RadioTypeOK, Commit
  PROVE  /\ flash' \in Flashes /\ unsaved' \in Seq(Flashes)
         /\ cmd' \in Commands /\ spent' \in Spendings
         /\ promised' \in ValidSnapshots /\ tried' \subseteq ValidSnapshots
<1>1. flash' \in Flashes
  BY ReadTyped DEF Commit
<1>2. cmd.snap \in ValidSnapshots
  BY DEF RadioTypeOK, Commands
<1>. QED BY <1>1, <1>2, NoCommandTyped DEF Commit, RadioTypeOK

LEMMA UseApplied ==
  ASSUME RadioTypeOK, UseDone, "OTA" \notin {dev.loaded.mode, cmd.snap.mode}
  PROVE  /\ fresh' = TRUE
         /\ KeepsAddress(net, net') /\ net'.mode = cmd.snap.net
         /\ net'.ip = cmd.snap.ip
         /\ StaysInStep(phy, phy')
         /\ dev' \in Devices /\ dev'.at = dev.at /\ dev'.loaded = cmd.snap
         /\ dev'.mode = cmd.snap.mode
         /\ net'.left = net.left /\ phy'.left = phy.left /\ phy.ready /\ InStep(phy)
            => /\ dev'.up = cmd.snap.up /\ phy'.ch = cmd.snap.ch
               /\ phy'.mod = cmd.snap.mod /\ phy'.tune = cmd.snap.tune
               /\ phy'.mask = MaskFor(phy'.ch)
<1>. DEFINE d == [dev EXCEPT !.slot = cmd.slot, !.loaded = cmd.snap, !.has = TRUE]
<1>1. fresh' = TRUE /\ Apply(d, phy, net, cmd.snap)
  BY DEF UseDone
<1>2. cmd.slot \in SLOTS /\ cmd.snap \in ValidSnapshots
  BY DEF RadioTypeOK, Commands
<1>3. d \in Devices
  BY <1>2 DEF RadioTypeOK, Devices
<1>4. d.at = dev.at /\ d.loaded = cmd.snap
  BY <1>2 DEF RadioTypeOK, Devices
<1>5. Sound(phy) /\ net \in NetStates
  BY DEF RadioTypeOK
<1>. HIDE DEF d
<1>6. /\ KeepsAddress(net, net') /\ net'.mode = cmd.snap.net
      /\ net'.ip = cmd.snap.ip
      /\ StaysInStep(phy, phy')
      /\ dev' \in Devices /\ dev'.at = d.at /\ dev'.slot = d.slot
      /\ dev'.has = d.has /\ dev'.loaded = d.loaded
      /\ dev'.mode = cmd.snap.mode
      /\ /\ net'.left = net.left /\ phy'.left = phy.left
         /\ phy.ready /\ InStep(phy)
         => /\ dev'.up = cmd.snap.up /\ phy'.ch = cmd.snap.ch
            /\ phy'.mod = cmd.snap.mod /\ phy'.tune = cmd.snap.tune
            /\ phy'.mask = MaskFor(phy'.ch)
  BY <1>1, <1>2, <1>3, <1>5, ApplyOutcome
<1>. QED BY <1>1, <1>4, <1>6


(* Only restarts, boots, "use" and the setters touch radio and network, and  *)
(* a step of a command on the flash only flash, command and what is recorded. *)
LEMMA TypeNext == RadioTypeOK /\ DriverOK /\ [Next]_vars => RadioTypeOK'
<1>. SUFFICES ASSUME RadioTypeOK, DriverOK, [Next]_vars PROVE RadioTypeOK'
  OBVIOUS
<1>0. /\ flash \in Flashes /\ unsaved \in Seq(Flashes)
      /\ Sound(phy) /\ net \in NetStates
      /\ dev \in Devices /\ cmd \in Commands /\ spent \in Spendings
      /\ promised \in ValidSnapshots /\ tried \subseteq ValidSnapshots
      /\ fresh \in BOOLEAN
  BY DEF RadioTypeOK
<1>1. CASE SetChannelCmd \/ SetModulationCmd \/ SetTuneCmd
  <2>1. Command /\ Changed /\ UNCHANGED <<net, dev>>
    BY <1>1 DEF SetChannelCmd, SetModulationCmd, SetTuneCmd, SetRadio
  <2>2. Sound(phy')
    BY <1>1, SettersStayInStep DEF StaysInStep
  <2>. QED BY <1>0, <2>1, <2>2, CommandSpends DEF Changed, RadioTypeOK
<1>2. CASE SetUpstreamCmd
  <2>1. Command /\ Changed /\ UNCHANGED <<phy, net>> /\ dev' = [dev EXCEPT !.up = ~@]
    BY <1>2 DEF SetUpstreamCmd
  <2>2. dev' \in Devices
    BY <1>0, <2>1 DEF Devices
  <2>. QED BY <1>0, <2>1, <2>2, CommandSpends DEF Changed, RadioTypeOK
<1>3. CASE SetNetworkCmd
  <2>1. Command /\ Changed /\ UNCHANGED <<phy, dev>>
    BY <1>3 DEF SetNetworkCmd
  <2>2. net' \in NetStates
    BY <1>3, NetCmdOutcome DEF KeepsAddress
  <2>. QED BY <1>0, <2>1, <2>2, CommandSpends DEF Changed, RadioTypeOK
<1>4. CASE \E mode \in Modes : SetModeLive(mode)
  <2>1. PICK mode \in Modes : SetModeLive(mode)
    BY <1>4
  <2>2. /\ Command /\ Changed /\ UNCHANGED <<phy, net>>
        /\ dev' = [dev EXCEPT !.mode = mode]
    BY <2>1 DEF SetModeLive
  <2>3. dev' \in Devices
    BY <1>0, <2>2 DEF Devices
  <2>. QED BY <1>0, <2>2, <2>3, CommandSpends DEF Changed, RadioTypeOK
<1>5. CASE \E mode \in Modes : SetModeStored(mode)
  <2>1. PICK mode \in Modes : SetModeStored(mode)
    BY <1>5
  <2>. DEFINE snap == [Captured EXCEPT !.mode = mode]
  <2>2. snap \in ValidSnapshots
    BY StoredModeValid
  <2>3. /\ Begin("persist", dev.slot, snap)
        /\ dev' = [dev EXCEPT !.loaded = snap, !.mode = mode]
        /\ fresh' = FALSE
    BY <2>1 DEF SetModeStored
  <2>. HIDE DEF snap
  <2>4. dev' \in Devices /\ dev.slot \in SLOTS
    BY <1>0, <2>2, <2>3 DEF Devices
  <2>5. cmd' \in Commands /\ spent' \in Spendings
    BY <2>2, <2>3, <2>4, BeginTyped
  <2>6. UNCHANGED <<flash, unsaved, net, phy, promised, tried>>
    BY <2>3 DEF Begin
  <2>. QED BY <1>0, <2>3, <2>4, <2>5, <2>6 DEF RadioTypeOK
<1>6. CASE \E slot \in SLOTS : Save(slot)
  <2>1. PICK slot \in SLOTS : Save(slot)
    BY <1>6
  <2>2. Begin("save", slot, ToSave) /\ UNCHANGED <<dev, kept, fresh>>
    BY <2>1 DEF Save
  <2>3. cmd' \in Commands /\ spent' \in Spendings
    BY <2>2, ToSaveValid, BeginTyped
  <2>4. UNCHANGED <<flash, unsaved, net, phy, promised, tried>>
    BY <2>2 DEF Begin
  <2>. QED BY <1>0, <2>2, <2>3, <2>4 DEF RadioTypeOK
<1>7. CASE \E slot \in SLOTS : Use(slot)
  <2>1. PICK slot \in SLOTS : Use(slot)
    BY <1>7
  <2>. DEFINE snap == Unpacked(Read.blobs[slot])
  <2>2. /\ snap # NoBlob /\ Begin("use", slot, snap)
        /\ UNCHANGED <<dev, fresh>>
    BY <2>1 DEF Use
  <2>3. Read.blobs[slot] \in Blobs
    BY ReadTyped DEF Flashes
  <2>4. snap \in ValidSnapshots
    BY <2>2, <2>3, UnpackedValid
  <2>. HIDE DEF snap
  <2>5. cmd' \in Commands /\ spent' \in Spendings
    BY <2>2, <2>4, BeginTyped
  <2>6. UNCHANGED <<flash, unsaved, net, phy, promised, tried>>
    BY <2>2 DEF Begin
  <2>. QED BY <1>0, <2>2, <2>5, <2>6 DEF RadioTypeOK
<1>8. CASE Write
  <2>1. /\ cmd.todo # <<>> /\ cmd' = [cmd EXCEPT !.todo = Tail(@)]
        /\ unsaved' = Append(unsaved, Written(Read, [what |-> Head(cmd.todo),
                               slot |-> cmd.slot, snap |-> cmd.snap]))
        /\ UNCHANGED <<flash, phy, net, dev, spent, promised, tried, kept, fresh>>
    BY <1>8 DEF Write
  <2>2. Tail(cmd.todo) \in {<<"blob", "cur">>, <<"cur">>, <<>>}
    BY <1>0, <2>1, TodoSteps DEF Commands
  <2>3. cmd' \in Commands
    BY <1>0, <2>1, <2>2 DEF Commands
  <2>4. cmd.slot \in SLOTS /\ cmd.snap \in ValidSnapshots /\ Read \in Flashes
    BY <1>0, ReadTyped DEF Commands
  <2>5. Written(Read, [what |-> Head(cmd.todo), slot |-> cmd.slot,
                       snap |-> cmd.snap]) \in Flashes
    BY <2>4, WrittenTyped
  <2>6. unsaved' \in Seq(Flashes)
    BY <1>0, <2>1, <2>5
  <2>. QED BY <1>0, <2>1, <2>3, <2>6 DEF RadioTypeOK
<1>9. CASE WriteRefused
  <2>1. /\ spent' = [spent EXCEPT !.faults = @ + 1]
        /\ tried' = tried \cup {cmd.snap}
        /\ cmd' = NoCommand
        /\ UNCHANGED <<flash, unsaved, phy, net, dev, promised, kept, fresh>>
    BY <1>9 DEF WriteRefused
  <2>2. spent' \in Spendings
    BY <1>0, <2>1 DEF Spendings
  <2>3. cmd.snap \in ValidSnapshots
    BY <1>0 DEF Commands
  <2>. QED BY <1>0, <2>1, <2>2, <2>3, NoCommandTyped DEF RadioTypeOK
<1>10. CASE SaveDone
  <2>1. /\ Commit /\ UNCHANGED <<phy, net, kept, fresh>>
        /\ dev' = [dev EXCEPT !.slot = cmd.slot, !.loaded = cmd.snap, !.has = TRUE]
    BY <1>10 DEF SaveDone
  <2>2. dev' \in Devices
    BY <1>0, <2>1 DEF Devices, Commands
  <2>. QED BY <1>0, <2>1, <2>2, CommitTyped DEF RadioTypeOK
<1>11. CASE PersistDone
  <2>1. /\ Commit /\ UNCHANGED <<phy, net, fresh>> /\ dev' = OffDevice
    BY <1>11 DEF PersistDone
  <2>. QED BY <1>0, <2>1, OffDeviceTyped, CommitTyped DEF RadioTypeOK
<1>12. CASE UseDone
  <2>1. Commit
    BY <1>12 DEF UseDone
  <2>2. CASE "OTA" \in {dev.loaded.mode, cmd.snap.mode}
    <3>1. dev' = OffDevice /\ fresh' = FALSE /\ UNCHANGED <<phy, net>>
      BY <1>12, <2>2 DEF UseDone
    <3>. QED BY <1>0, <2>1, <3>1, OffDeviceTyped, CommitTyped DEF RadioTypeOK
  <2>3. CASE "OTA" \notin {dev.loaded.mode, cmd.snap.mode}
    <3>1. /\ fresh' = TRUE /\ KeepsAddress(net, net') /\ StaysInStep(phy, phy')
          /\ dev' \in Devices
      BY <1>12, <2>3, UseApplied
    <3>2. net' \in NetStates /\ Sound(phy')
      BY <3>1 DEF KeepsAddress, StaysInStep
    <3>. QED BY <2>1, <3>1, <3>2, CommitTyped DEF RadioTypeOK
  <2>. QED BY <2>2, <2>3
<1>13. CASE Crash
  <2>1. Restart /\ spent' = [spent EXCEPT !.crashes = @ + 1]
    BY <1>13 DEF Crash
  <2>2. spent' \in Spendings
    BY <1>0, <2>1 DEF Spendings
  <2>. QED BY <2>1, <2>2, RestartTyped
<1>14. CASE ResetCmd
  BY <1>0, <1>14, RestartTyped DEF ResetCmd
<1>15. CASE BootNetwork
  <2>1. net' \in NetStates /\ Sound(phy') /\ dev' \in Devices
    BY <1>15, BootNetworkOutcome
  <2>2. /\ promised' = Boots(flash) /\ tried' = {} /\ fresh' = TRUE
        /\ UNCHANGED <<flash, unsaved, cmd, spent, kept>>
    BY <1>15 DEF BootNetwork
  <2>3. promised' \in ValidSnapshots
    BY <1>0, <2>2, BootsValid
  <2>. QED BY <1>0, <2>1, <2>2, <2>3 DEF RadioTypeOK
<1>16. CASE BootRadio
  <2>1. Sound(phy') /\ KeepsAddress(net, net') /\ dev' \in Devices
    BY <1>16, BootRadioOutcome
  <2>2. UNCHANGED <<flash, unsaved, cmd, spent, promised, tried, kept, fresh>>
    BY <1>16 DEF BootRadio
  <2>. QED BY <1>0, <2>1, <2>2 DEF KeepsAddress, RadioTypeOK
<1>17. CASE Lease \/ Fallback \/ LinkBack
  <2>1. net' \in NetStates
    BY <1>17, LeaseOutcome, FallbackOutcome, LinkBackOutcome DEF KeepsAddress
  <2>2. NetEvent /\ UNCHANGED spent
    BY <1>17 DEF Lease, Fallback, LinkBack
  <2>. QED BY <1>0, <2>1, <2>2 DEF NetEvent, RadioTypeOK
<1>18. CASE LinkLost
  <2>1. net' \in NetStates
    BY <1>18, LinkLostOutcome
  <2>2. NetEvent /\ spent' = [spent EXCEPT !.links = @ + 1]
    BY <1>18 DEF LinkLost
  <2>3. spent' \in Spendings
    BY <1>0, <2>2 DEF Spendings
  <2>. QED BY <1>0, <2>1, <2>2, <2>3 DEF NetEvent, RadioTypeOK
<1>19. CASE UNCHANGED vars
  BY <1>0, <1>19 DEF vars, RadioTypeOK
<1>. QED BY <1>1, <1>2, <1>3, <1>4, <1>5, <1>6, <1>7, <1>8, <1>9, <1>10, <1>11,
            <1>12, <1>13, <1>14, <1>15, <1>16, <1>17, <1>18, <1>19 DEF Next

-----------------------------------------------------------------------------
(***************************************************************************)
(* Commands and the flash.                                                 *)
(***************************************************************************)

(* Begun, a command is not idle. *)
LEMMA BegunRuns ==
  ASSUME NEW kind \in {"save", "persist", "use"}, NEW slot, NEW snap,
         Begin(kind, slot, snap)
  PROVE  /\ Idle /\ Used /\ ~Idle' /\ cmd'.kind = kind /\ cmd'.slot = slot
         /\ cmd'.snap = snap /\ cmd'.todo = Writes(kind)
         /\ UNCHANGED <<flash, unsaved, net, phy, promised, tried>>
         /\ spent'.faults = spent.faults /\ spent'.links = spent.links
<1>1. /\ cmd' = [kind |-> kind, todo |-> Writes(kind), slot |-> slot, snap |-> snap]
      /\ Command /\ UNCHANGED <<flash, unsaved, net, phy, promised, tried>>
  BY DEF Begin
<1>2. cmd'.kind = kind /\ cmd'.slot = slot /\ cmd'.snap = snap
      /\ cmd'.todo = Writes(kind)
  BY <1>1
<1>3. NoCommand.kind = "none"
  BY DEF NoCommand
<1>4. ~Idle'
  BY <1>2, <1>3 DEF Idle
<1>5. spent'.faults = spent.faults /\ spent'.links = spent.links
  BY <1>1 DEF Command
<1>. QED BY <1>1, <1>2, <1>4, <1>5 DEF Command

LEMMA CommandNext ==
  RadioTypeOK /\ CommandOK /\ DriverOK /\ [Next]_vars => CommandOK'
<1>. SUFFICES ASSUME RadioTypeOK, CommandOK, DriverOK, [Next]_vars PROVE CommandOK'
  OBVIOUS
<1>0. /\ cmd.kind = "none" => Idle
      /\ ~Idle => Used
      /\ dev.at = "off" => unsaved = <<>>
      /\ cmd.kind = "use" => cmd.todo # <<"blob", "cur">>
      /\ NoCommand.kind = "none" /\ OffDevice.at = "off"
      /\ dev \in Devices /\ cmd \in Commands
  BY DEF CommandOK, RadioTypeOK, NoCommand, OffDevice
<1>1. ASSUME UNCHANGED <<cmd, unsaved>>, dev'.at = dev.at PROVE CommandOK'
  BY <1>0, <1>1 DEF CommandOK, Idle, Used
<1>2. ASSUME NEW kind \in {"save", "persist", "use"}, NEW slot, NEW snap,
             Begin(kind, slot, snap), dev'.at = dev.at
      PROVE  CommandOK'
  <2>1. /\ Used /\ ~Idle' /\ cmd'.kind = kind /\ cmd'.todo = Writes(kind)
        /\ UNCHANGED unsaved
    BY <1>2, BegunRuns
  <2>2. kind = "use" => Writes(kind) # <<"blob", "cur">>
    BY TodoSteps DEF Writes
  <2>. QED BY <1>0, <1>2, <2>1, <2>2 DEF CommandOK, Used
<1>3. ASSUME cmd' = NoCommand, unsaved' = <<>> PROVE CommandOK'
  BY <1>0, <1>3 DEF CommandOK, Idle
<1>4. CASE SetChannelCmd \/ SetModulationCmd \/ SetTuneCmd \/ SetNetworkCmd
  BY <1>1, <1>4 DEF SetChannelCmd, SetModulationCmd, SetTuneCmd, SetNetworkCmd,
                    SetRadio, Changed
<1>5. CASE SetUpstreamCmd
  <2>1. dev' = [dev EXCEPT !.up = ~@] /\ UNCHANGED <<cmd, unsaved>>
    BY <1>5 DEF SetUpstreamCmd, Changed
  <2>2. dev'.at = dev.at
    BY <1>0, <2>1 DEF Devices
  <2>. QED BY <1>1, <2>1, <2>2
<1>6. CASE \E mode \in Modes : SetModeLive(mode) \/ SetModeStored(mode)
  <2>1. PICK mode \in Modes : SetModeLive(mode) \/ SetModeStored(mode)
    BY <1>6
  <2>2. CASE SetModeLive(mode)
    <3>1. dev' = [dev EXCEPT !.mode = mode] /\ UNCHANGED <<cmd, unsaved>>
      BY <2>2 DEF SetModeLive, Changed
    <3>2. dev'.at = dev.at
      BY <1>0, <3>1 DEF Devices
    <3>. QED BY <1>1, <3>1, <3>2
  <2>3. CASE SetModeStored(mode)
    <3>1. PICK snap : /\ Begin("persist", dev.slot, snap)
                      /\ dev' = [dev EXCEPT !.loaded = snap, !.mode = mode]
      BY <2>3 DEF SetModeStored
    <3>2. dev'.at = dev.at
      BY <1>0, <3>1 DEF Devices
    <3>. QED BY <1>2, <3>1, <3>2
  <2>. QED BY <2>1, <2>2, <2>3
<1>7. CASE \E slot \in SLOTS : Save(slot) \/ Use(slot)
  BY <1>2, <1>7 DEF Save, Use
<1>8. CASE Write
  <2>1. /\ cmd.todo # <<>> /\ cmd' = [cmd EXCEPT !.todo = Tail(@)]
        /\ UNCHANGED dev
    BY <1>8 DEF Write
  <2>2. cmd'.kind = cmd.kind /\ cmd'.todo = Tail(cmd.todo)
    BY <1>0, <2>1 DEF Commands
  <2>3. Tail(cmd.todo) # <<"blob", "cur">>
    BY <1>0, <2>1, TodoSteps DEF Commands
  <2>4. ~Idle
    BY <2>1 DEF Idle, NoCommand
  <2>5. cmd.kind # "none" /\ dev.at # "off"
    BY <1>0, <2>4 DEF Used
  <2>. QED BY <1>0, <2>1, <2>2, <2>3, <2>4, <2>5 DEF CommandOK, Used
<1>9. CASE WriteRefused
  <2>1. cmd.todo # <<>> /\ cmd' = NoCommand /\ UNCHANGED <<unsaved, dev>>
    BY <1>9 DEF WriteRefused
  <2>. QED BY <1>0, <2>1 DEF CommandOK, Idle
<1>10. CASE SaveDone \/ PersistDone \/ UseDone
  <2>1. cmd' = NoCommand /\ unsaved' = <<>>
    BY <1>10 DEF SaveDone, PersistDone, UseDone, Commit
  <2>. QED BY <1>3, <2>1
<1>11. CASE Crash \/ ResetCmd
  <2>1. cmd' = NoCommand /\ unsaved' = <<>>
    BY <1>11 DEF Crash, ResetCmd, Restart
  <2>. QED BY <1>3, <2>1
<1>12. CASE BootNetwork
  <2>1. Idle /\ unsaved = <<>>
    BY <1>0, <1>12 DEF BootNetwork, Used
  <2>2. UNCHANGED <<unsaved, cmd>>
    BY <1>12 DEF BootNetwork
  <2>. QED BY <1>0, <2>1, <2>2 DEF CommandOK, Idle
<1>13. CASE BootRadio
  <2>1. Idle /\ dev'.at = "full"
    BY <1>0, <1>13, BootRadioOutcome DEF BootRadio, Used
  <2>2. UNCHANGED <<unsaved, cmd>>
    BY <1>13 DEF BootRadio
  <2>. QED BY <1>0, <2>1, <2>2 DEF CommandOK, Idle
<1>14. CASE Lease \/ Fallback \/ LinkLost \/ LinkBack
  BY <1>1, <1>14 DEF Lease, Fallback, LinkLost, LinkBack, NetEvent
<1>15. CASE UNCHANGED vars
  BY <1>1, <1>15 DEF vars
<1>. QED BY <1>4, <1>5, <1>6, <1>7, <1>8, <1>9, <1>10, <1>11, <1>12, <1>13, <1>14,
            <1>15 DEF Next

LEMMA FlashInit == Init => FlashOK
<1>. SUFFICES ASSUME Init PROVE FlashOK
  OBVIOUS
<1>1. unsaved = <<>> /\ Idle /\ promised = Boots(flash)
  BY DEF Init, Idle
<1>2. Len(unsaved) = 0
  BY <1>1
<1>. QED BY <1>1, <1>2 DEF FlashOK, AfterWrites, ToBeFound

(* A write adds one state of the flash, and what it boots is either what *)
(* the last one did or the command's snapshot.                           *)
LEMMA WriteKeepsFlash ==
  ASSUME RadioTypeOK, CommandOK, FlashOK, Write
  PROVE  FlashOK'
<1>. DEFINE w == [what |-> Head(cmd.todo), slot |-> cmd.slot, snap |-> cmd.snap]
            g == Written(Read, w)
<1>0. PICK n \in Nat : n = Len(unsaved)
  BY ReadTyped
<1>1. /\ cmd.todo # <<>> /\ cmd' = [cmd EXCEPT !.todo = Tail(@)]
      /\ unsaved' = Append(unsaved, g)
      /\ UNCHANGED <<flash, phy, net, dev, spent, promised, tried, kept, fresh>>
  BY DEF Write
<1>2. /\ cmd \in Commands /\ n \in Nat /\ Read \in Flashes
      /\ unsaved \in Seq(Flashes) /\ cmd.slot \in SLOTS
      /\ cmd.snap \in ValidSnapshots
  BY ReadTyped DEF RadioTypeOK, Commands
<1>3. /\ cmd'.snap = cmd.snap /\ cmd'.slot = cmd.slot /\ cmd'.kind = cmd.kind
      /\ cmd'.todo = Tail(cmd.todo)
  BY <1>1, <1>2 DEF Commands
<1>4. ~Idle /\ ~Idle'
  <2>1. ~Idle
    BY <1>1 DEF Idle, NoCommand
  <2>2. cmd.kind # "none"
    BY <2>1 DEF CommandOK
  <2>. QED BY <1>3, <2>1, <2>2 DEF Idle, NoCommand
<1>5. ToBeFound' = ToBeFound /\ cmd.snap \in ToBeFound
  BY <1>1, <1>3, <1>4 DEF ToBeFound
<1>6. w.what = Head(cmd.todo) /\ w.slot = cmd.slot /\ w.snap = cmd.snap
  OBVIOUS
<1>. HIDE DEF w
<1>7. /\ Boots(g) \in {Boots(Read), cmd.snap}
      /\ Unpacked(g.blobs[cmd.slot]) = cmd.snap
      /\ cmd'.todo = <<>> => g.cur = cmd.slot
      /\ g \in Flashes
  <2>1. CASE cmd.todo = <<"blob", "cur">>
    <3>1. w.what = "blob" /\ cmd'.todo = <<"cur">>
      BY <1>3, <1>6, <2>1, TodoSteps
    <3>2. /\ g \in Flashes /\ Unpacked(g.blobs[cmd.slot]) = cmd.snap
          /\ Boots(g) \in {Boots(Read), cmd.snap}
      BY <1>2, <1>6, <3>1, BlobWritten
    <3>. QED BY <3>1, <3>2, TodoSteps
  <2>2. CASE cmd.todo = <<"cur">>
    <3>1. w.what = "cur" /\ cmd.todo # <<"blob", "cur">>
      BY <1>6, <2>2, TodoSteps
    <3>2. Unpacked(Read.blobs[cmd.slot]) = cmd.snap
      BY <1>4, <3>1 DEF FlashOK
    <3>. QED BY <1>2, <1>6, <3>1, <3>2, SlotWritten
  <2>. QED BY <1>1, <1>2, <2>1, <2>2 DEF Commands
<1>. HIDE DEF g
<1>8. Len(unsaved') = n + 1 /\ unsaved'[n + 1] = g
      /\ \A i \in 1..n : unsaved'[i] = unsaved[i]
  BY <1>0, <1>1, <1>2, <1>7
<1>9. \A k \in 0..n : AfterWrites(k)' = AfterWrites(k)
  BY <1>1, <1>2, <1>8 DEF AfterWrites
<1>10. \A k : k = n + 1 => AfterWrites(k)' = g
  BY <1>2, <1>8 DEF AfterWrites
<1>12. Read' = g
  <2>1. Len(unsaved') # 0 /\ unsaved'[Len(unsaved')] = g
    BY <1>2, <1>8
  <2>. QED BY <2>1 DEF Read, AfterWrites
<1>11. ASSUME NEW k \in 0..(n + 1) PROVE Boots(AfterWrites(k))' \in ToBeFound
  <2>1. CASE k = n + 1
    <3>1. n \in 0..Len(unsaved) /\ Read = AfterWrites(n)
      BY <1>0, <1>2 DEF Read
    <3>2. Boots(Read) \in ToBeFound
      BY <3>1 DEF FlashOK
    <3>3. AfterWrites(k)' = g
      BY <1>10, <2>1
    <3>4. Boots(AfterWrites(k))' = Boots(g)
      BY <3>3 DEF Boots, Current
    <3>. QED BY <1>5, <1>7, <3>2, <3>4
  <2>2. CASE k # n + 1
    <3>1. k \in 0..n
      BY <1>2, <2>2
    <3>2. Boots(AfterWrites(k))' = Boots(AfterWrites(k))
      BY <1>9, <3>1 DEF Boots, Current
    <3>. QED BY <1>0, <3>1, <3>2 DEF FlashOK
  <2>. QED BY <2>1, <2>2
<1>13. /\ Unpacked(Read.blobs[cmd.slot])' = Unpacked(g.blobs[cmd.slot])
       /\ Read.cur' = g.cur
  BY <1>3, <1>12
<1>. QED BY <1>3, <1>5, <1>7, <1>8, <1>11, <1>13 DEF FlashOK

LEMMA CommittedBoots ==
  ASSUME RadioTypeOK, FlashOK, Commit
  PROVE  /\ FlashOK' /\ Boots(Read) = cmd.snap
         /\ ToBeFound' = {cmd.snap}
<1>1. /\ ~Idle /\ cmd.todo = <<>> /\ flash' = Read /\ unsaved' = <<>>
      /\ promised' = cmd.snap /\ tried' = {} /\ cmd' = NoCommand
  BY DEF Commit
<1>2. Unpacked(Read.blobs[cmd.slot]) = cmd.snap /\ Read.cur = cmd.slot
  BY <1>1, TodoSteps DEF FlashOK
<1>3. cmd.snap # NoBlob
  BY SnapshotFields DEF RadioTypeOK, Commands
<1>4. Boots(Read) = cmd.snap
  BY <1>2, <1>3 DEF Boots, Current
<1>5. Idle' /\ ToBeFound' = {cmd.snap} /\ Len(unsaved') = 0
  BY <1>1 DEF Idle, ToBeFound
<1>6. AfterWrites(0)' = Read
  BY <1>1 DEF AfterWrites
<1>7. Boots(AfterWrites(0))' = cmd.snap
  BY <1>4, <1>6 DEF Boots, Current
<1>8. \A k \in 0..Len(unsaved') : k = 0
  BY <1>5
<1>. QED BY <1>4, <1>5, <1>7, <1>8 DEF FlashOK

LEMMA RestartFinds ==
  ASSUME RadioTypeOK, FlashOK, Restart
  PROVE  FlashOK' /\ ToBeFound' = ToBeFound
<1>1. PICK k \in 0..Len(unsaved) : flash' = AfterWrites(k)
  BY DEF Restart
<1>2. /\ unsaved' = <<>> /\ cmd' = NoCommand /\ promised' = promised
      /\ tried' = (IF Idle THEN tried ELSE tried \cup {cmd.snap})
  BY DEF Restart
<1>3. Idle' /\ ToBeFound' = ToBeFound /\ Len(unsaved') = 0
  BY <1>2 DEF Idle, ToBeFound
<1>4. AfterWrites(0)' = AfterWrites(k)
  BY <1>1 DEF AfterWrites
<1>5. Boots(AfterWrites(0))' = Boots(AfterWrites(k))
  BY <1>4 DEF Boots, Current
<1>6. Boots(AfterWrites(0))' \in ToBeFound'
  BY <1>1, <1>3, <1>5 DEF FlashOK
<1>7. \A i \in 0..Len(unsaved') : i = 0
  BY <1>3
<1>. QED BY <1>3, <1>6, <1>7 DEF FlashOK

LEMMA FlashNext ==
  RadioTypeOK /\ CommandOK /\ FlashOK /\ [Next]_vars => FlashOK'
<1>. SUFFICES ASSUME RadioTypeOK, CommandOK, FlashOK, [Next]_vars PROVE FlashOK'
  OBVIOUS
<1>1. ASSUME UNCHANGED <<flash, unsaved, cmd, promised, tried>> PROVE FlashOK'
  BY <1>1 DEF FlashOK, AfterWrites, ToBeFound, Idle, Read, Boots, Current
<1>2. ASSUME NEW kind \in {"save", "persist", "use"}, NEW slot, NEW snap,
             Begin(kind, slot, snap),
             kind = "use" => Unpacked(Read.blobs[slot]) = snap
      PROVE  FlashOK'
  <2>1. /\ Idle /\ ~Idle' /\ cmd'.slot = slot /\ cmd'.snap = snap
        /\ cmd'.todo = Writes(kind)
        /\ UNCHANGED <<flash, unsaved, promised, tried>>
    BY <1>2, BegunRuns
  <2>2. ToBeFound \subseteq ToBeFound'
    BY <2>1 DEF ToBeFound
  <2>3. Read' = Read
    BY <2>1 DEF Read, AfterWrites
  <2>4. \A k : Boots(AfterWrites(k))' = Boots(AfterWrites(k))
    BY <2>1 DEF AfterWrites, Boots, Current
  <2>5. /\ kind = "use" => Writes(kind) = <<"cur">>
        /\ kind # "use" => Writes(kind) = <<"blob", "cur">>
    BY DEF Writes
  <2>. QED BY <1>2, <2>1, <2>2, <2>3, <2>4, <2>5, TodoSteps DEF FlashOK
<1>3. CASE SetChannelCmd \/ SetModulationCmd \/ SetTuneCmd \/ SetNetworkCmd
           \/ SetUpstreamCmd
  BY <1>1, <1>3 DEF SetChannelCmd, SetModulationCmd, SetTuneCmd, SetNetworkCmd,
                    SetUpstreamCmd, SetRadio, Changed
<1>4. CASE \E mode \in Modes : SetModeLive(mode) \/ SetModeStored(mode)
  <2>1. PICK mode \in Modes : SetModeLive(mode) \/ SetModeStored(mode)
    BY <1>4
  <2>2. CASE SetModeLive(mode)
    BY <1>1, <2>2 DEF SetModeLive, Changed
  <2>3. CASE SetModeStored(mode)
    <3>1. PICK snap : Begin("persist", dev.slot, snap)
      BY <2>3 DEF SetModeStored
    <3>. QED BY <1>2, <3>1
  <2>. QED BY <2>1, <2>2, <2>3
<1>5. CASE \E slot \in SLOTS : Save(slot) \/ Use(slot)
  BY <1>2, <1>5 DEF Save, Use
<1>6. CASE Write
  BY <1>6, WriteKeepsFlash
<1>7. CASE WriteRefused
  <2>1. /\ cmd.todo # <<>> /\ tried' = tried \cup {cmd.snap} /\ cmd' = NoCommand
        /\ UNCHANGED <<flash, unsaved, promised>>
    BY <1>7 DEF WriteRefused
  <2>2. ~Idle /\ Idle'
    BY <2>1 DEF Idle, NoCommand
  <2>3. ToBeFound' = ToBeFound
    BY <2>1, <2>2 DEF ToBeFound
  <2>4. \A k : Boots(AfterWrites(k))' = Boots(AfterWrites(k))
    BY <2>1 DEF AfterWrites, Boots, Current
  <2>. QED BY <2>1, <2>2, <2>3, <2>4 DEF FlashOK
<1>8. CASE SaveDone \/ PersistDone \/ UseDone
  BY <1>8, CommittedBoots DEF SaveDone, PersistDone, UseDone
<1>9. CASE Crash \/ ResetCmd
  BY <1>9, RestartFinds DEF Crash, ResetCmd
<1>10. CASE BootNetwork
  <2>1. Idle /\ unsaved = <<>>
    BY <1>10 DEF BootNetwork, CommandOK, Used
  <2>2. /\ UNCHANGED <<flash, unsaved, cmd>> /\ promised' = Boots(flash)
    BY <1>10 DEF BootNetwork
  <2>3. Len(unsaved') = 0 /\ Idle'
    BY <2>1, <2>2 DEF Idle
  <2>4. Boots(AfterWrites(0))' = Boots(flash)
    BY <2>2 DEF AfterWrites, Boots, Current
  <2>5. \A k \in 0..Len(unsaved') : k = 0
    BY <2>3
  <2>. QED BY <2>2, <2>3, <2>4, <2>5 DEF FlashOK, ToBeFound
<1>11. CASE BootRadio
  BY <1>1, <1>11 DEF BootRadio
<1>12. CASE Lease \/ Fallback \/ LinkLost \/ LinkBack
  BY <1>1, <1>12 DEF Lease, Fallback, LinkLost, LinkBack, NetEvent
<1>13. CASE UNCHANGED vars
  BY <1>1, <1>13 DEF vars
<1>. QED BY <1>3, <1>4, <1>5, <1>6, <1>7, <1>8, <1>9, <1>10, <1>11, <1>12, <1>13
         DEF Next
LEMMA CommandInit == Init => CommandOK
BY DEF Init, CommandOK, Idle, OffDevice, NoCommand

-----------------------------------------------------------------------------
(***************************************************************************)
(* The radio is in step with what it stores.                               *)
(***************************************************************************)

(* What a command without an Apply does to the device. *)
LEMMA DeviceSteps ==
  ASSUME dev \in Devices
  PROVE  /\ SetUpstreamCmd => /\ dev'.at = dev.at /\ dev'.loaded = dev.loaded
                              /\ dev'.mode = dev.mode /\ dev'.has = dev.has
         /\ \A mode : SetModeLive(mode) =>
               /\ dev'.at = dev.at /\ dev'.loaded = dev.loaded
               /\ dev'.mode = mode /\ dev'.has = dev.has /\ dev'.up = dev.up
         /\ \A mode : SetModeStored(mode) =>
               /\ dev'.at = dev.at /\ dev'.loaded = [Captured EXCEPT !.mode = mode]
               /\ dev'.mode = mode
         /\ SaveDone => /\ dev'.at = dev.at /\ dev'.loaded = cmd.snap
                        /\ dev'.mode = dev.mode /\ dev'.up = dev.up
<1>1. SetUpstreamCmd => /\ dev'.at = dev.at /\ dev'.loaded = dev.loaded
                        /\ dev'.mode = dev.mode /\ dev'.has = dev.has
  BY DEF Devices, SetUpstreamCmd
<1>2. ASSUME NEW mode, SetModeLive(mode)
      PROVE  /\ dev'.at = dev.at /\ dev'.loaded = dev.loaded
             /\ dev'.mode = mode /\ dev'.has = dev.has /\ dev'.up = dev.up
  BY <1>2 DEF Devices, SetModeLive
<1>3. ASSUME NEW mode, SetModeStored(mode)
      PROVE  /\ dev'.at = dev.at /\ dev'.loaded = [Captured EXCEPT !.mode = mode]
             /\ dev'.mode = mode
  <2>. DEFINE snap == [Captured EXCEPT !.mode = mode]
  <2>1. dev' = [dev EXCEPT !.loaded = snap, !.mode = mode]
    BY <1>3 DEF SetModeStored
  <2>. HIDE DEF snap
  <2>2. dev'.at = dev.at /\ dev'.loaded = snap /\ dev'.mode = mode
    BY <2>1 DEF Devices
  <2>. QED BY <2>2 DEF snap
<1>4. SaveDone => /\ dev'.at = dev.at /\ dev'.loaded = cmd.snap
                  /\ dev'.mode = dev.mode /\ dev'.up = dev.up
  BY DEF Devices, SaveDone
<1>. QED BY <1>1, <1>2, <1>3, <1>4

LEMMA DriverInit == Init => DriverOK
BY RadioConfigAssumption DEF Init, DriverOK, Cold, OffDevice, Full

LEMMA DriverNext ==
  RadioTypeOK /\ CommandOK /\ DriverOK /\ [Next]_vars => DriverOK'
<1>. SUFFICES ASSUME RadioTypeOK, CommandOK, DriverOK, [Next]_vars PROVE DriverOK'
  OBVIOUS
<1>0. /\ phy.left \in Nat /\ PHY_FAULTS \in Nat /\ phy.left <= PHY_FAULTS
      /\ phy.ready /\ phy.left >= PHY_FAULTS - 1 => InStep(phy)
      /\ dev.at = "full" /\ phy.left = PHY_FAULTS => phy.ready
      /\ dev.at = "booting" => phy = Cold(phy.left)
      /\ dev \in Devices /\ OffDevice.at = "off"
  BY RadioConfigAssumption
     DEF RadioTypeOK, DriverOK, Sound, PhyStates, Full, OffDevice
<1>1. ASSUME UNCHANGED phy, dev'.at \in {dev.at, "off"} PROVE DriverOK'
  BY <1>0, <1>1 DEF DriverOK, InStep, DriverAsStored, Full
<1>2. ASSUME StaysInStep(phy, phy'), dev'.at = dev.at, Used PROVE DriverOK'
  <2>1. /\ phy'.left \in Nat /\ phy'.left <= phy.left /\ phy'.ready = phy.ready
        /\ InStep(phy) /\ phy'.left >= phy.left - 1 => InStep(phy')
    BY <1>2 DEF StaysInStep, Sound, PhyStates
  <2>2. /\ phy'.left <= PHY_FAULTS
        /\ phy'.left >= PHY_FAULTS - 1 =>
              phy.left >= PHY_FAULTS - 1 /\ phy'.left >= phy.left - 1
        /\ phy'.left = PHY_FAULTS => phy.left = PHY_FAULTS
    BY <1>0, <2>1
  <2>3. dev.at # "booting"
    BY <1>2 DEF Used
  <2>4. phy'.ready /\ phy'.left >= PHY_FAULTS - 1 => InStep(phy')
    BY <1>0, <2>1, <2>2
  <2>5. DriverOK' <=> /\ phy'.left <= PHY_FAULTS
                      /\ phy'.ready /\ phy'.left >= PHY_FAULTS - 1 => InStep(phy')
                      /\ dev'.at = "full" /\ phy'.left = PHY_FAULTS => phy'.ready
                      /\ dev'.at = "booting" => phy' = Cold(phy'.left)
    BY DEF DriverOK, Full, InStep, DriverAsStored, Cold
  <2>. QED BY <1>0, <1>2, <2>1, <2>2, <2>3, <2>4, <2>5
<1>3. CASE SetChannelCmd \/ SetModulationCmd \/ SetTuneCmd
  <2>1. Used /\ dev' = dev
    BY <1>3 DEF SetChannelCmd, SetModulationCmd, SetTuneCmd, SetRadio, Command
  <2>. QED BY <1>2, <1>3, <2>1, SettersStayInStep
<1>4. CASE SetUpstreamCmd \/ SetNetworkCmd
  BY <1>0, <1>1, <1>4, DeviceSteps DEF SetUpstreamCmd, SetNetworkCmd
<1>5. CASE \E mode \in Modes : SetModeLive(mode) \/ SetModeStored(mode)
  <2>1. PICK mode \in Modes : SetModeLive(mode) \/ SetModeStored(mode)
    BY <1>5
  <2>2. UNCHANGED phy
    BY <2>1 DEF SetModeLive, SetModeStored, Begin
  <2>. QED BY <1>0, <1>1, <2>1, <2>2, DeviceSteps
<1>6. CASE \E slot \in SLOTS : Save(slot) \/ Use(slot)
  BY <1>1, <1>6 DEF Save, Use, Begin
<1>7. CASE Write \/ WriteRefused
  BY <1>1, <1>7 DEF Write, WriteRefused
<1>8. CASE SaveDone \/ PersistDone
  BY <1>0, <1>1, <1>8, DeviceSteps DEF SaveDone, PersistDone
<1>9. CASE UseDone
  <2>1. CASE "OTA" \in {dev.loaded.mode, cmd.snap.mode}
    BY <1>0, <1>1, <1>9, <2>1 DEF UseDone
  <2>2. CASE "OTA" \notin {dev.loaded.mode, cmd.snap.mode}
    <3>1. Used
      BY <1>9 DEF CommandOK, UseDone, Commit
    <3>. QED BY <1>2, <1>9, <2>2, <3>1, UseApplied
  <2>. QED BY <2>1, <2>2
<1>10. CASE Crash \/ ResetCmd
  BY <1>0, <1>1, <1>10 DEF Crash, ResetCmd, Restart
<1>11. CASE BootNetwork
  <2>1. phy' = Cold(phy.left) /\ dev'.at # "full"
    BY <1>11, BootNetworkOutcome
  <2>2. ~phy'.ready /\ phy'.left = phy.left
    BY <2>1 DEF Cold
  <2>. QED BY <1>0, <2>1, <2>2 DEF DriverOK, Full
<1>12. CASE BootRadio
  <2>1. /\ Sound(phy') /\ phy'.left <= phy.left /\ dev'.at = "full"
        /\ phy'.ready /\ phy'.left >= PHY_FAULTS - 1 => InStep(phy')
        /\ phy'.left = PHY_FAULTS => phy'.ready
    BY <1>12, BootRadioOutcome
  <2>2. phy'.left \in Nat /\ phy'.left <= PHY_FAULTS
    BY <1>0, <2>1 DEF Sound, PhyStates
  <2>. QED BY <2>1, <2>2 DEF DriverOK, Full, InStep, DriverAsStored
<1>13. CASE Lease \/ Fallback \/ LinkLost \/ LinkBack
  BY <1>1, <1>13 DEF Lease, Fallback, LinkLost, LinkBack, NetEvent
<1>14. CASE UNCHANGED vars
  BY <1>1, <1>14 DEF vars
<1>. QED BY <1>3, <1>4, <1>5, <1>6, <1>7, <1>8, <1>9, <1>10, <1>11, <1>12, <1>13,
            <1>14 DEF Next
-----------------------------------------------------------------------------
(***************************************************************************)
(* The network keeps its address, or will get one.                         *)
(***************************************************************************)

(* What was spent is not given back, and only a lost link counts as one. *)
LEMMA SpentGrows ==
  ASSUME RadioTypeOK, [Next]_vars
  PROVE  /\ spent'.faults = 0 => spent.faults = 0
         /\ spent'.links = spent.links \/ (LinkLost /\ spent'.links # 0)
<1>1. spent \in Spendings
  BY DEF RadioTypeOK
<1>2. CASE spent' = spent
  BY <1>2
<1>3. CASE Command
  BY <1>1, <1>3 DEF Command, Spendings
<1>4. CASE WriteRefused
  BY <1>1, <1>4 DEF WriteRefused, Spendings
<1>5. CASE Crash
  BY <1>1, <1>5 DEF Crash, Spendings
<1>6. CASE LinkLost
  BY <1>1, <1>6 DEF LinkLost, Spendings
<1>7. CASE SetChannelCmd \/ SetModulationCmd \/ SetTuneCmd \/ SetUpstreamCmd
           \/ SetNetworkCmd
  BY <1>3, <1>7 DEF SetChannelCmd, SetModulationCmd, SetTuneCmd, SetRadio,
                    SetUpstreamCmd, SetNetworkCmd
<1>8. CASE \E mode \in Modes : SetModeLive(mode) \/ SetModeStored(mode)
  BY <1>3, <1>8 DEF SetModeLive, SetModeStored, Begin
<1>9. CASE \E slot \in SLOTS : Save(slot) \/ Use(slot)
  BY <1>3, <1>9 DEF Save, Use, Begin
<1>10. CASE Write \/ SaveDone \/ PersistDone \/ UseDone \/ ResetCmd
            \/ BootNetwork \/ BootRadio
  BY <1>2, <1>10 DEF Write, SaveDone, PersistDone, UseDone, Commit, ResetCmd,
                     BootNetwork, BootRadio
<1>11. CASE Lease \/ Fallback \/ LinkBack
  BY <1>2, <1>11 DEF Lease, Fallback, LinkBack
<1>12. CASE UNCHANGED vars
  BY <1>2, <1>12 DEF vars
<1>. QED BY <1>4, <1>5, <1>6, <1>7, <1>8, <1>9, <1>10, <1>11, <1>12 DEF Next

LEMMA NetworkInit == Init => NetworkOK
<1>. SUFFICES ASSUME Init PROVE NetworkOK
  OBVIOUS
<1>1. PICK link \in BOOLEAN : net = Unplugged(link, NET_FAULTS)
  BY DEF Init
<1>2. /\ net.left = NET_FAULTS /\ net.addr = NO_IP /\ ~net.ready /\ ~net.using
      /\ ~net.dhcp /\ ~net.connected /\ ~net.armed
  BY <1>1 DEF Unplugged
<1>3. AddressHeld(net)
  BY <1>1 DEF Unplugged, AddressHeld, AddressAsSet, NO_IP
<1>4. FallbackToCome(net)
  BY <1>1 DEF Unplugged, FallbackToCome, NO_IP
<1>. QED BY <1>2, <1>3, <1>4, RadioConfigAssumption DEF NetworkOK, FallbackComes

(* Every step but a boot and a lost link is a step of the manager or none. *)
LEMMA NetworkSteps ==
  ASSUME RadioTypeOK, CommandOK, DriverOK, [Next]_vars
  PROVE  \/ KeepsAddress(net, net')
         \/ BootNetwork
         \/ LinkLost
<1>1. net \in NetStates
  BY DEF RadioTypeOK
<1>2. ASSUME UNCHANGED net PROVE KeepsAddress(net, net')
  BY <1>1, <1>2 DEF KeepsAddress, NetStates
<1>3. CASE SetNetworkCmd
  BY <1>3, NetCmdOutcome
<1>4. CASE SetChannelCmd \/ SetModulationCmd \/ SetTuneCmd \/ SetUpstreamCmd
  BY <1>2, <1>4 DEF SetChannelCmd, SetModulationCmd, SetTuneCmd, SetRadio,
                    SetUpstreamCmd
<1>5. CASE \E mode \in Modes : SetModeLive(mode) \/ SetModeStored(mode)
  BY <1>2, <1>5 DEF SetModeLive, SetModeStored, Begin
<1>6. CASE \E slot \in SLOTS : Save(slot) \/ Use(slot)
  BY <1>2, <1>6 DEF Save, Use, Begin
<1>7. CASE Write \/ WriteRefused \/ SaveDone \/ PersistDone
  BY <1>2, <1>7 DEF Write, WriteRefused, SaveDone, PersistDone
<1>8. CASE UseDone
  <2>1. CASE "OTA" \in {dev.loaded.mode, cmd.snap.mode}
    BY <1>2, <1>8, <2>1 DEF UseDone
  <2>2. CASE "OTA" \notin {dev.loaded.mode, cmd.snap.mode}
    BY <1>8, <2>2, UseApplied
  <2>. QED BY <2>1, <2>2
<1>9. CASE Crash \/ ResetCmd
  BY <1>2, <1>9 DEF Crash, ResetCmd, Restart
<1>10. CASE BootRadio
  BY <1>10, BootRadioOutcome
<1>11. CASE Lease \/ Fallback \/ LinkBack
  BY <1>11, LeaseOutcome, FallbackOutcome, LinkBackOutcome
<1>12. CASE UNCHANGED vars
  BY <1>2, <1>12 DEF vars
<1>. QED BY <1>3, <1>4, <1>5, <1>6, <1>7, <1>8, <1>9, <1>10, <1>11, <1>12 DEF Next

LEMMA NetworkNext ==
  RadioTypeOK /\ CommandOK /\ DriverOK /\ NetworkOK /\ [Next]_vars => NetworkOK'
<1>. SUFFICES ASSUME RadioTypeOK, CommandOK, DriverOK, NetworkOK, [Next]_vars
              PROVE  NetworkOK'
  OBVIOUS
<1>1. /\ net \in NetStates /\ NET_FAULTS \in Nat /\ net.left \in Nat
      /\ net.left <= NET_FAULTS
      /\ net.left = NET_FAULTS => AddressHeld(net)
      /\ spent.links = 0 /\ net.left = NET_FAULTS => FallbackToCome(net)
  BY RadioConfigAssumption DEF RadioTypeOK, NetStates, NetworkOK, FallbackComes
<1>2. NetworkOK' <=>
         /\ net'.left <= NET_FAULTS
         /\ net'.left = NET_FAULTS => AddressHeld(net')
         /\ spent'.links = 0 /\ net'.left = NET_FAULTS => FallbackToCome(net')
  BY DEF NetworkOK, FallbackComes, AddressHeld, AddressAsSet, FallbackToCome
<1>3. spent'.links = spent.links \/ (LinkLost /\ spent'.links # 0)
  BY SpentGrows
<1>4. CASE KeepsAddress(net, net')
  <2>1. /\ net'.left \in Nat /\ net'.left <= net.left
        /\ net'.left = net.left /\ AddressHeld(net) =>
              AddressHeld(net') /\ (FallbackToCome(net) => FallbackToCome(net'))
    BY <1>4 DEF KeepsAddress, NetStates
  <2>2. net'.left <= NET_FAULTS
        /\ (net'.left = NET_FAULTS => net.left = NET_FAULTS /\ net'.left = net.left)
    BY <1>1, <2>1
  <2>. QED BY <1>1, <1>2, <1>3, <2>1, <2>2
<1>5. CASE BootNetwork
  <2>1. /\ net'.left \in Nat /\ net'.left <= net.left
        /\ net'.left = net.left => AddressHeld(net') /\ FallbackToCome(net')
    BY <1>5, BootNetworkOutcome DEF NetStates
  <2>2. net'.left <= NET_FAULTS
        /\ (net'.left = NET_FAULTS => net'.left = net.left)
    BY <1>1, <2>1
  <2>. QED BY <1>2, <2>1, <2>2
<1>6. CASE LinkLost
  <2>1. net'.left = net.left /\ (AddressHeld(net) => AddressHeld(net'))
    BY <1>6, LinkLostOutcome
  <2>2. spent'.links # 0
    BY <1>6 DEF LinkLost, RadioTypeOK, Spendings
  <2>. QED BY <1>1, <1>2, <2>1, <2>2
<1>. QED BY <1>4, <1>5, <1>6, NetworkSteps
-----------------------------------------------------------------------------
(***************************************************************************)
(* After a boot or "use", all that was loaded is in effect.                *)
(***************************************************************************)

LEMMA LiveBecomes ==
  ASSUME NEW s \in ValidSnapshots, phy'.ready, dev'.mode = s.mode, dev'.up = s.up,
         phy'.ch = s.ch, phy'.mod = s.mod, phy'.tune = s.tune,
         net'.mode = s.net, net'.ip = s.ip
  PROVE  Live' = s
<1>1. s \in Snapshots
  BY DEF ValidSnapshots
<1>2. s = [mode |-> s.mode, ch |-> s.ch, mod |-> s.mod, tune |-> s.tune,
           up |-> s.up, net |-> s.net, ip |-> s.ip]
  BY <1>1 DEF Snapshots
<1>. QED BY <1>2 DEF Live

LEMMA LiveKept ==
  ASSUME UNCHANGED phy, dev'.mode = dev.mode, dev'.up = dev.up,
         net'.mode = net.mode, net'.ip = net.ip
  PROVE  Live' = Live
BY DEF Live

(* A refused call is not taken back. *)
LEMMA RefusalsStay ==
  ASSUME RadioTypeOK, CommandOK, DriverOK, NetworkOK, [Next]_vars, NothingRefused'
  PROVE  /\ NothingRefused
         /\ phy'.left = phy.left /\ net'.left = net.left
         /\ phy'.left = PHY_FAULTS /\ net'.left = NET_FAULTS
<1>1. /\ phy.left \in Nat /\ PHY_FAULTS \in Nat /\ phy.left <= PHY_FAULTS
      /\ net.left \in Nat /\ NET_FAULTS \in Nat /\ net.left <= NET_FAULTS
      /\ phy'.left = PHY_FAULTS /\ net'.left = NET_FAULTS
  BY RadioConfigAssumption DEF RadioTypeOK, Sound, PhyStates, NetStates, DriverOK,
                               NetworkOK, NothingRefused
<1>2. net'.left <= net.left
  BY <1>1, NetworkSteps, BootNetworkOutcome, LinkLostOutcome DEF KeepsAddress
<1>3. phy'.left <= phy.left
  <2>1. CASE UNCHANGED phy
    BY <1>1, <2>1
  <2>2. CASE SetChannelCmd \/ SetModulationCmd \/ SetTuneCmd
    BY <2>2, SettersStayInStep DEF StaysInStep
  <2>3. CASE UseDone
    <3>1. CASE "OTA" \in {dev.loaded.mode, cmd.snap.mode}
      BY <2>1, <2>3, <3>1 DEF UseDone
    <3>2. CASE "OTA" \notin {dev.loaded.mode, cmd.snap.mode}
      BY <2>3, <3>2, UseApplied DEF StaysInStep
    <3>. QED BY <3>1, <3>2
  <2>4. CASE BootNetwork
    <3>1. phy' = Cold(phy.left)
      BY <2>4, BootNetworkOutcome
    <3>. QED BY <1>1, <3>1 DEF Cold
  <2>5. CASE BootRadio
    BY <2>5, BootRadioOutcome
  <2>6. CASE SetUpstreamCmd \/ SetNetworkCmd
             \/ \E mode \in Modes : SetModeLive(mode) \/ SetModeStored(mode)
    BY <2>1, <2>6 DEF SetUpstreamCmd, SetNetworkCmd, SetModeLive, SetModeStored, Begin
  <2>7. CASE (\E slot \in SLOTS : Save(slot) \/ Use(slot))
             \/ Write \/ WriteRefused \/ SaveDone \/ PersistDone
    BY <2>1, <2>7 DEF Save, Use, Begin, Write, WriteRefused, SaveDone, PersistDone
  <2>8. CASE Crash \/ ResetCmd \/ Lease \/ Fallback \/ LinkLost \/ LinkBack
    BY <2>1, <2>8 DEF Crash, ResetCmd, Restart, Lease, Fallback, LinkLost, LinkBack,
                      NetEvent
  <2>9. CASE UNCHANGED vars
    BY <2>1, <2>9 DEF vars
  <2>. QED BY <2>2, <2>3, <2>4, <2>5, <2>6, <2>7, <2>8, <2>9 DEF Next
<1>. QED BY <1>1, <1>2, <1>3 DEF NothingRefused

LEMMA FreshInit == Init => FreshOK
BY DEF Init, FreshOK, AppliedAsSaved, OffDevice, Full

LEMMA FreshNext ==
  RadioTypeOK /\ CommandOK /\ DriverOK /\ NetworkOK /\ FreshOK /\ [Next]_vars
  => FreshOK'
<1>. SUFFICES ASSUME RadioTypeOK, CommandOK, DriverOK, NetworkOK, FreshOK, [Next]_vars
              PROVE  FreshOK'
  OBVIOUS
<1>. DEFINE Booting == dev.at = "booting" =>
                          /\ fresh /\ dev.mode = "TUNNEL" /\ dev.up = FALSE
                          /\ ~dev.has => dev.loaded = Defaults
            Loaded == dev.at \in {"booting", "full"} /\ fresh =>
                         /\ dev.loaded.mode # "OTA" /\ dev.mode # "OTA"
                         /\ net.mode = dev.loaded.net /\ net.ip = dev.loaded.ip
            InEffect == /\ Live = dev.loaded
                        /\ DriverAsStored(phy) /\ phy.mask = MaskFor(phy.ch)
            Saving == Full /\ fresh /\ cmd.kind = "save" => cmd.snap = Live
<1>1. /\ Booting /\ Loaded /\ Saving
      /\ Full /\ fresh /\ NothingRefused => InEffect
  BY DEF FreshOK, AppliedAsSaved
<1>2. ASSUME Booting', Loaded', Saving', Full' /\ fresh' /\ NothingRefused' => InEffect'
      PROVE  FreshOK'
  BY <1>2 DEF FreshOK, AppliedAsSaved
<1>3. /\ dev \in Devices /\ cmd \in Commands /\ cmd.snap \in ValidSnapshots
      /\ dev.loaded \in ValidSnapshots
  BY DEF RadioTypeOK, Devices, Commands
<1>4. ASSUME dev'.at \notin {"booting", "full"} PROVE FreshOK'
  BY <1>2, <1>4 DEF Full
<1>5. ASSUME fresh' = FALSE, dev'.at # "booting" PROVE FreshOK'
  BY <1>2, <1>5
<1>6. ASSUME UNCHANGED <<phy, dev, fresh>>, net'.mode = net.mode, net'.ip = net.ip,
             cmd'.kind # "save" \/ (cmd'.kind = cmd.kind /\ cmd'.snap = cmd.snap)
      PROVE  FreshOK'
  <2>1. Live' = Live
    BY <1>6, LiveKept
  <2>2. Booting' /\ Loaded' /\ Saving'
    BY <1>1, <1>6, <2>1 DEF Full
  <2>3. Full' /\ fresh' /\ NothingRefused' => InEffect'
    BY <1>1, <1>6, <2>1, RefusalsStay DEF Full, DriverAsStored
  <2>. QED BY <1>2, <2>2, <2>3
<1>7. NoCommand.kind = "none" /\ OffDevice.at = "off"
  BY DEF NoCommand, OffDevice
<1>8. CASE SetChannelCmd \/ SetModulationCmd \/ SetTuneCmd \/ SetNetworkCmd
  <2>1. fresh' = FALSE /\ UNCHANGED dev /\ Used
    BY <1>8 DEF SetChannelCmd, SetModulationCmd, SetTuneCmd, SetNetworkCmd, SetRadio,
                Changed, Command
  <2>. QED BY <1>5, <2>1 DEF Used
<1>9. CASE SetUpstreamCmd
  <2>1. fresh' = FALSE /\ dev'.at = dev.at /\ Used
    BY <1>3, <1>9, DeviceSteps DEF SetUpstreamCmd, Changed, Command
  <2>. QED BY <1>5, <2>1 DEF Used
<1>10. CASE \E mode \in Modes : SetModeLive(mode) \/ SetModeStored(mode)
  <2>1. PICK mode \in Modes : SetModeLive(mode) \/ SetModeStored(mode)
    BY <1>10
  <2>2. dev'.at = dev.at
    BY <1>3, <2>1, DeviceSteps
  <2>3. fresh' = FALSE /\ Used
    BY <2>1 DEF SetModeLive, Changed, SetModeStored, Begin, Command
  <2>. QED BY <1>5, <2>2, <2>3 DEF Used
<1>11. CASE \E slot \in SLOTS : Save(slot)
  <2>1. PICK slot \in SLOTS : Save(slot)
    BY <1>11
  <2>2. /\ Begin("save", slot, ToSave) /\ UNCHANGED <<dev, fresh, phy, net>>
    BY <2>1 DEF Save, Begin
  <2>3. cmd'.snap = ToSave
    BY <2>2, BegunRuns
  <2>4. Live' = Live
    BY <2>2, LiveKept
  <2>5. Full /\ fresh => ToSave = Live
    BY <1>1 DEF ToSave, Full
  <2>6. Booting' /\ Loaded' /\ Saving'
    BY <1>1, <2>2, <2>3, <2>4, <2>5 DEF Full
  <2>7. Full' /\ fresh' /\ NothingRefused' => InEffect'
    BY <1>1, <2>2, <2>4, RefusalsStay DEF Full, DriverAsStored
  <2>. QED BY <1>2, <2>6, <2>7
<1>12. CASE \E slot \in SLOTS : Use(slot)
  <2>1. PICK slot \in SLOTS : Use(slot)
    BY <1>12
  <2>2. PICK snap : Begin("use", slot, snap) /\ UNCHANGED <<dev, fresh, phy, net>>
    BY <2>1 DEF Use, Begin
  <2>3. cmd'.kind = "use"
    BY <2>2, BegunRuns
  <2>. QED BY <1>6, <2>2, <2>3
<1>13. CASE Write
  <2>1. /\ UNCHANGED <<phy, dev, fresh, net>>
        /\ cmd' = [cmd EXCEPT !.todo = Tail(@)]
    BY <1>13 DEF Write
  <2>2. cmd'.kind = cmd.kind /\ cmd'.snap = cmd.snap
    BY <1>3, <2>1 DEF Commands
  <2>. QED BY <1>6, <2>1, <2>2
<1>14. CASE WriteRefused
  BY <1>6, <1>7, <1>14 DEF WriteRefused
<1>15. CASE SaveDone
  <2>1. /\ cmd.kind = "save" /\ cmd' = NoCommand /\ UNCHANGED <<phy, net, fresh>>
    BY <1>15 DEF SaveDone, Commit
  <2>2. dev'.at = dev.at /\ dev'.loaded = cmd.snap /\ dev'.mode = dev.mode
        /\ dev'.up = dev.up
    BY <1>3, <1>15, DeviceSteps
  <2>3. Used
    BY <1>15 DEF SaveDone, Commit, CommandOK
  <2>4. Live' = Live
    BY <2>1, <2>2, LiveKept
  <2>5. Full /\ fresh => cmd.snap = Live /\ dev.mode # "OTA"
    BY <1>1, <2>1 DEF Full
  <2>6. Booting' /\ Loaded' /\ Saving'
    BY <1>7, <2>1, <2>2, <2>3, <2>5, LiveFields DEF Full, Used
  <2>7. Full' /\ fresh' /\ NothingRefused' => InEffect'
    BY <1>1, <2>1, <2>2, <2>4, <2>5, RefusalsStay DEF Full, DriverAsStored
  <2>. QED BY <1>2, <2>6, <2>7
<1>16. CASE PersistDone
  BY <1>4, <1>7, <1>16 DEF PersistDone
<1>17. CASE UseDone
  <2>1. CASE "OTA" \in {dev.loaded.mode, cmd.snap.mode}
    BY <1>4, <1>7, <1>17, <2>1 DEF UseDone
  <2>2. CASE "OTA" \notin {dev.loaded.mode, cmd.snap.mode}
    <3>1. /\ net'.mode = cmd.snap.net /\ net'.ip = cmd.snap.ip
          /\ StaysInStep(phy, phy')
          /\ dev'.at = dev.at /\ dev'.loaded = cmd.snap /\ dev'.mode = cmd.snap.mode
          /\ net'.left = net.left /\ phy'.left = phy.left /\ phy.ready /\ InStep(phy)
             => /\ dev'.up = cmd.snap.up /\ phy'.ch = cmd.snap.ch
                /\ phy'.mod = cmd.snap.mod /\ phy'.tune = cmd.snap.tune
                /\ phy'.mask = MaskFor(phy'.ch)
      BY <1>17, <2>2, UseApplied
    <3>2. cmd' = NoCommand /\ Used
      BY <1>17 DEF UseDone, Commit, CommandOK
    <3>3. Booting' /\ Loaded' /\ Saving'
      BY <1>7, <2>2, <3>1, <3>2 DEF Used
    <3>4. ASSUME Full', NothingRefused' PROVE InEffect'
      <4>1. /\ phy'.left = phy.left /\ net'.left = net.left /\ phy.left = PHY_FAULTS
        BY <3>4, RefusalsStay
      <4>2. phy.left >= PHY_FAULTS - 1 /\ phy.left >= phy.left - 1
        BY <4>1, RadioConfigAssumption DEF RadioTypeOK, Sound, PhyStates
      <4>3. phy.ready /\ InStep(phy)
        BY <3>1, <3>4, <4>1, <4>2 DEF DriverOK, Full
      <4>4. phy'.ready /\ InStep(phy')
        BY <3>1, <4>1, <4>2, <4>3 DEF StaysInStep
      <4>5. Live' = cmd.snap
        BY <1>3, <3>1, <4>1, <4>3, <4>4, LiveBecomes
      <4>. QED BY <3>1, <4>1, <4>3, <4>4, <4>5 DEF InStep, DriverAsStored
    <3>. QED BY <1>2, <3>3, <3>4
  <2>. QED BY <2>1, <2>2
<1>18. CASE Crash \/ ResetCmd
  BY <1>4, <1>7, <1>18 DEF Crash, ResetCmd, Restart
<1>19. CASE BootNetwork
  <2>1. /\ net'.mode = dev'.loaded.net /\ net'.ip = dev'.loaded.ip
        /\ dev'.up = FALSE /\ dev'.loaded = Boots(flash)
        /\ dev'.has = (Current(flash) # NoBlob)
        /\ dev'.at = IF dev'.loaded.mode = "OTA" THEN "rescue" ELSE "booting"
        /\ dev'.loaded.mode # "OTA" => dev'.mode = "TUNNEL"
    BY <1>19, BootNetworkOutcome
  <2>2. fresh' = TRUE
    BY <1>19 DEF BootNetwork
  <2>3. ~dev'.has => dev'.loaded = Defaults
    BY <2>1, BootsValid DEF RadioTypeOK
  <2>. QED BY <1>2, <1>4, <2>1, <2>2, <2>3 DEF Full
<1>20. CASE BootRadio
  <2>1. /\ phy'.ready /\ phy'.left >= PHY_FAULTS - 1 => InStep(phy')
        /\ dev'.at = "full" /\ dev'.loaded = dev.loaded
        /\ ~dev.has => /\ net' = net /\ dev'.mode = dev.mode /\ dev'.up = dev.up
                       /\ phy'.ch = 1 /\ phy'.mod = "DSSS" /\ phy'.tune = 0
        /\ dev'.mode \in {dev.mode, dev.loaded.mode}
        /\ \/ net' = net
           \/ net'.mode = dev.loaded.net /\ net'.ip = dev.loaded.ip
    BY <1>20, BootRadioOutcome
  <2>2. /\ phy'.left = PHY_FAULTS =>
               /\ phy'.ready
               /\ ~dev.has => phy'.mask = MaskFor(phy'.ch)
        /\ dev.has /\ phy'.left = PHY_FAULTS /\ net'.left = net.left =>
               /\ dev'.mode = dev.loaded.mode
               /\ dev'.up = dev.loaded.up /\ phy'.ch = dev.loaded.ch
               /\ phy'.mod = dev.loaded.mod /\ phy'.tune = dev.loaded.tune
               /\ phy'.mask = MaskFor(phy'.ch)
    BY <1>20, BootRadioOutcome
  <2>3. dev.at = "booting" /\ UNCHANGED <<cmd, fresh>>
    BY <1>20 DEF BootRadio
  <2>4. /\ fresh /\ dev.mode = "TUNNEL" /\ dev.up = FALSE
        /\ ~dev.has => dev.loaded = Defaults
        /\ dev.loaded.mode # "OTA"
        /\ net.mode = dev.loaded.net /\ net.ip = dev.loaded.ip
    BY <1>1, <2>3
  <2>5. cmd.kind = "none"
    BY <1>7, <2>3 DEF CommandOK, Used, Idle
  <2>6. net'.mode = dev.loaded.net /\ net'.ip = dev.loaded.ip
    BY <2>1, <2>4
  <2>7. Booting' /\ Loaded' /\ Saving'
    BY <2>1, <2>3, <2>4, <2>5, <2>6
  <2>8. ASSUME NothingRefused' PROVE InEffect'
    <3>1. /\ phy'.left = PHY_FAULTS /\ net'.left = net.left
      BY <2>8, RefusalsStay
    <3>2. phy'.ready /\ InStep(phy')
      BY <2>1, <2>2, <3>1, RadioConfigAssumption
    <3>3. phy'.mask = MaskFor(phy'.ch)
      BY <2>2, <3>1
    <3>4. Live' = dev.loaded
      <4>1. CASE dev.has
        BY <1>3, <2>2, <2>6, <3>1, <3>2, <4>1, LiveBecomes
      <4>2. CASE ~dev.has
        <5>1. /\ dev.loaded.mode = "TUNNEL" /\ dev.loaded.up = FALSE
              /\ dev.loaded.ch = 1 /\ dev.loaded.mod = "DSSS" /\ dev.loaded.tune = 0
          BY <2>4, <4>2 DEF Defaults
        <5>2. dev'.mode = "TUNNEL" /\ dev'.up = FALSE /\ phy'.ch = 1
              /\ phy'.mod = "DSSS" /\ phy'.tune = 0
          BY <2>1, <2>4, <4>2
        <5>. QED BY <1>3, <2>6, <3>2, <5>1, <5>2, LiveBecomes
      <4>. QED BY <4>1, <4>2
    <3>. QED BY <2>1, <3>2, <3>3, <3>4 DEF InStep, DriverAsStored
  <2>. QED BY <1>2, <2>7, <2>8
<1>21. CASE Lease \/ Fallback \/ LinkLost \/ LinkBack
  <2>1. UNCHANGED <<phy, dev, fresh, cmd>>
    BY <1>21 DEF Lease, Fallback, LinkLost, LinkBack, NetEvent
  <2>2. net'.mode = net.mode /\ net'.ip = net.ip
    BY <1>21, LeaseOutcome, FallbackOutcome, LinkLostOutcome, LinkBackOutcome
  <2>. QED BY <1>6, <2>1, <2>2
<1>22. CASE UNCHANGED vars
  BY <1>6, <1>22 DEF vars
<1>. QED BY <1>8, <1>9, <1>10, <1>11, <1>12, <1>13, <1>14, <1>15, <1>16, <1>17, <1>18,
            <1>19, <1>20, <1>21, <1>22 DEF Next
-----------------------------------------------------------------------------
(***************************************************************************)
(* What the radio was set to when it entered OTA mode comes back.          *)
(***************************************************************************)

(* The fields of the radio survive a change of the others. *)
LEMMA RadioPartKept ==
  ASSUME NEW s \in ValidSnapshots
  PROVE  /\ \A mode : RadioPart([s EXCEPT !.mode = mode]) = RadioPart(s)
         /\ \A ip, n : /\ RadioPart([s EXCEPT !.ip = ip, !.net = n]) = RadioPart(s)
                       /\ [s EXCEPT !.ip = ip, !.net = n].mode = s.mode
BY DEF ValidSnapshots, Snapshots, RadioPart

LEMMA KeptInit == Init => KeptOK
BY DEF Init, KeptOK

LEMMA KeptNext ==
  /\ RadioTypeOK /\ CommandOK /\ FlashOK /\ DriverOK /\ NetworkOK /\ FreshOK /\ KeptOK
  /\ [Next]_vars
  => KeptOK'
<1>. DEFINE Found == \A s \in ToBeFound :
                        s.mode = "OTA" \/ NothingRefused => RadioPart(s) = kept
            Rescued == dev.at = "rescue" =>
                          /\ RadioPart(dev.loaded) = kept
                          /\ dev.loaded.mode = "OTA" \/ cmd.kind = "persist"
                          /\ cmd.kind = "save" => cmd.snap.mode = "OTA"
            Loaded == dev.at \in {"booting", "full"} /\ NothingRefused =>
                         RadioPart(dev.loaded) = kept
            Undisturbed == /\ Full => fresh /\ cmd.kind # "persist"
                           /\ cmd.kind # "use"
<1>. SUFFICES ASSUME RadioTypeOK, CommandOK, FlashOK, DriverOK, NetworkOK, FreshOK,
                     KeptOK, [Next]_vars, kept' # NoBlob, spent'.faults = 0
              PROVE  Found' /\ Rescued' /\ Loaded' /\ Undisturbed'
  BY DEF KeptOK
<1>1. ASSUME kept' = kept PROVE Found /\ Rescued /\ Loaded /\ Undisturbed
  BY <1>1, SpentGrows DEF KeptOK
<1>2. NothingRefused' => NothingRefused
  BY RefusalsStay
<1>3. /\ dev \in Devices /\ cmd \in Commands /\ cmd.snap \in ValidSnapshots
      /\ dev.loaded \in ValidSnapshots
  BY DEF RadioTypeOK, Devices, Commands
<1>4. /\ NoCommand.kind = "none" /\ OffDevice.at = "off"
      /\ Idle => cmd.kind = "none"
      /\ ~Idle => cmd.snap \in ToBeFound
  BY DEF NoCommand, OffDevice, Idle, ToBeFound
<1>5. ASSUME UNCHANGED kept, ToBeFound' \subseteq ToBeFound PROVE Found'
  BY <1>1, <1>2, <1>5
<1>6. ASSUME UNCHANGED <<kept, dev>>, ToBeFound' \subseteq ToBeFound,
             cmd'.kind = cmd.kind, cmd'.snap = cmd.snap, Full => fresh' = fresh
      PROVE  Found' /\ Rescued' /\ Loaded' /\ Undisturbed'
  BY <1>1, <1>2, <1>5, <1>6 DEF Full
<1>7. ASSUME Found', dev'.at = "off", cmd' = NoCommand
      PROVE  Found' /\ Rescued' /\ Loaded' /\ Undisturbed'
  BY <1>4, <1>7 DEF Full
<1>8. ASSUME UNCHANGED <<cmd, promised, tried>> PROVE ToBeFound' = ToBeFound
  BY <1>8 DEF ToBeFound, Idle
<1>9. CASE SetChannelCmd \/ SetModulationCmd \/ SetTuneCmd \/ SetUpstreamCmd
  BY <1>9 DEF SetChannelCmd, SetModulationCmd, SetTuneCmd, SetUpstreamCmd, SetRadio,
              Changed
<1>10. CASE SetNetworkCmd
  <2>1. /\ UNCHANGED <<kept, dev, cmd, promised, tried>> /\ ~Full
    BY <1>10 DEF SetNetworkCmd, Changed
  <2>. QED BY <1>6, <1>8, <2>1
<1>11. CASE \E mode \in Modes : SetModeLive(mode)
  <2>1. /\ Idle /\ Used /\ dev.loaded.mode # "OTA" /\ UNCHANGED kept /\ ~Full
    BY <1>11 DEF SetModeLive, Changed, Command
  <2>2. dev.at = "rescue"
    BY <2>1 DEF Used, Full
  <2>. QED BY <1>1, <1>4, <2>1, <2>2
<1>12. CASE \E mode \in Modes : SetModeStored(mode)
  <2>1. PICK mode \in Modes : SetModeStored(mode)
    BY <1>12
  <2>. DEFINE snap == [Captured EXCEPT !.mode = mode]
  <2>2. Begin("persist", dev.slot, snap) /\ UNCHANGED kept /\ ~Full
    BY <2>1 DEF SetModeStored
  <2>3. dev'.at = dev.at /\ dev'.loaded = snap
    BY <1>3, <2>1, DeviceSteps
  <2>. HIDE DEF snap
  <2>4. /\ Idle /\ Used /\ ~Idle' /\ cmd'.kind = "persist" /\ cmd'.snap = snap
        /\ UNCHANGED <<promised, tried>>
    BY <2>2, BegunRuns
  <2>5. dev.at = "rescue"
    BY <2>2, <2>4 DEF Used, Full
  <2>6. dev.loaded.mode = "OTA" /\ RadioPart(dev.loaded) = kept
    BY <1>1, <1>4, <2>2, <2>4, <2>5
  <2>7. RadioPart(snap) = kept
    BY <1>3, <2>6, RadioPartKept DEF snap, Captured
  <2>8. ToBeFound' = ToBeFound \cup {snap}
    BY <2>4 DEF ToBeFound
  <2>9. Found'
    BY <1>1, <1>2, <2>2, <2>7, <2>8
  <2>. QED BY <2>2, <2>3, <2>4, <2>5, <2>7, <2>9 DEF Full
<1>13. CASE \E slot \in SLOTS : Save(slot)
  <2>1. PICK slot \in SLOTS : Save(slot)
    BY <1>13
  <2>2. Begin("save", slot, ToSave) /\ UNCHANGED <<dev, kept, fresh>>
    BY <2>1 DEF Save
  <2>3. /\ Idle /\ Used /\ ~Idle' /\ cmd'.kind = "save" /\ cmd'.snap = ToSave
        /\ UNCHANGED <<promised, tried>>
    BY <2>2, BegunRuns
  <2>4. dev.at = "rescue" => ToSave.mode = "OTA" /\ RadioPart(ToSave) = kept
    <3>1. ASSUME dev.at = "rescue"
          PROVE  dev.loaded.mode = "OTA" /\ RadioPart(dev.loaded) = kept
      BY <1>1, <1>4, <2>2, <2>3, <3>1
    <3>. DEFINE s == [dev.loaded EXCEPT !.ip = net.ip, !.net = net.mode]
    <3>2. RadioPart(s) = RadioPart(dev.loaded) /\ s.mode = dev.loaded.mode
      BY <1>3, RadioPartKept
    <3>3. dev.loaded.mode = "OTA" => ToSave = s
      BY DEF ToSave
    <3>. HIDE DEF s
    <3>. QED BY <3>1, <3>2, <3>3
  <2>5. Full => ToSave.mode # "OTA" /\ (NothingRefused => RadioPart(ToSave) = kept)
    <3>1. ASSUME Full
          PROVE  /\ fresh /\ dev.loaded.mode # "OTA" /\ dev.mode # "OTA"
                 /\ NothingRefused => Live = dev.loaded /\ RadioPart(dev.loaded) = kept
      BY <1>1, <2>2, <3>1 DEF FreshOK, AppliedAsSaved, Full
    <3>. QED BY <3>1, LiveFields DEF ToSave
  <2>6. ToBeFound' = ToBeFound \cup {ToSave}
    BY <2>3 DEF ToBeFound
  <2>7. Found'
    BY <1>1, <1>2, <2>2, <2>3, <2>4, <2>5, <2>6 DEF Used, Full
  <2>8. Rescued' /\ Loaded' /\ Undisturbed'
    BY <1>1, <1>2, <1>4, <2>2, <2>3, <2>4 DEF Full
  <2>. QED BY <2>7, <2>8
<1>14. CASE \E slot \in SLOTS : Use(slot)
  BY <1>14 DEF Use
<1>15. CASE Write
  <2>1. /\ UNCHANGED <<dev, kept, fresh, promised, tried>>
        /\ cmd' = [cmd EXCEPT !.todo = Tail(@)] /\ cmd.todo # <<>>
    BY <1>15 DEF Write
  <2>2. cmd'.kind = cmd.kind /\ cmd'.snap = cmd.snap
    BY <1>3, <2>1 DEF Commands
  <2>3. ~Idle
    BY <2>1 DEF Idle, NoCommand
  <2>4. ToBeFound' \subseteq ToBeFound
    BY <2>1, <2>2, <2>3 DEF ToBeFound
  <2>. QED BY <1>6, <2>1, <2>2, <2>4
<1>16. CASE WriteRefused
  BY <1>16 DEF WriteRefused, RadioTypeOK, Spendings
<1>17. CASE SaveDone
  <2>1. /\ cmd.kind = "save" /\ ~Idle /\ cmd' = NoCommand /\ UNCHANGED <<kept, fresh>>
    BY <1>17 DEF SaveDone, Commit
  <2>2. dev'.at = dev.at /\ dev'.loaded = cmd.snap
    BY <1>3, <1>17, DeviceSteps
  <2>3. ToBeFound' = {cmd.snap} /\ cmd.snap \in ToBeFound
    BY <1>4, <1>17, <2>1, CommittedBoots DEF SaveDone
  <2>4. cmd.snap.mode = "OTA" \/ NothingRefused => RadioPart(cmd.snap) = kept
    BY <1>1, <2>1, <2>3
  <2>5. dev.at = "rescue" => cmd.snap.mode = "OTA"
    BY <1>1, <2>1
  <2>6. Found'
    BY <1>5, <2>1, <2>3
  <2>. QED BY <1>1, <1>2, <1>4, <2>1, <2>2, <2>4, <2>5, <2>6 DEF Full
<1>18. CASE PersistDone
  <2>1. /\ ~Idle /\ cmd' = NoCommand /\ dev' = OffDevice
        /\ kept' = IF Full /\ cmd.snap.mode = "OTA" THEN RadioPart(cmd.snap) ELSE kept
    BY <1>18 DEF PersistDone, Commit
  <2>2. ToBeFound' = {cmd.snap} /\ cmd.snap \in ToBeFound
    BY <1>4, <1>18, <2>1, CommittedBoots DEF PersistDone
  <2>3. Found'
    BY <1>5, <2>1, <2>2
  <2>. QED BY <1>4, <1>7, <2>1, <2>3
<1>19. CASE UseDone
  BY <1>1, <1>19 DEF UseDone
<1>20. CASE Crash \/ ResetCmd
  <2>1. /\ dev' = OffDevice /\ cmd' = NoCommand /\ UNCHANGED kept
    BY <1>20 DEF Crash, ResetCmd, Restart
  <2>2. ToBeFound' = ToBeFound
    BY <1>20, RestartFinds DEF Crash, ResetCmd
  <2>. QED BY <1>4, <1>5, <1>7, <2>1, <2>2
<1>21. CASE BootNetwork
  <2>. DEFINE loaded == Boots(flash)
  <2>1. /\ dev'.loaded = loaded
        /\ dev'.at = IF dev'.loaded.mode = "OTA" THEN "rescue" ELSE "booting"
    BY <1>21, BootNetworkOutcome
  <2>2. /\ dev.at = "off" /\ UNCHANGED <<kept, cmd>>
        /\ promised' = loaded /\ tried' = {}
    BY <1>21 DEF BootNetwork
  <2>3. loaded \in ToBeFound
    <3>1. 0 \in 0..Len(unsaved) /\ AfterWrites(0) = flash
      BY ReadTyped DEF AfterWrites
    <3>. QED BY <3>1 DEF FlashOK
  <2>. HIDE DEF loaded
  <2>4. Idle /\ Idle'
    BY <2>2 DEF CommandOK, Used, Idle
  <2>5. ToBeFound' = {loaded}
    BY <2>2, <2>4 DEF ToBeFound
  <2>6. Found'
    BY <1>5, <2>2, <2>3, <2>5
  <2>7. loaded.mode = "OTA" \/ NothingRefused => RadioPart(loaded) = kept
    BY <1>1, <2>2, <2>3
  <2>8. cmd'.kind = "none"
    BY <1>4, <2>2, <2>4
  <2>. QED BY <1>2, <2>1, <2>2, <2>6, <2>7, <2>8 DEF Full
<1>22. CASE BootRadio
  <2>1. dev'.at = "full" /\ dev'.loaded = dev.loaded
    BY <1>22, BootRadioOutcome
  <2>2. dev.at = "booting" /\ UNCHANGED <<kept, cmd, promised, tried, fresh>>
    BY <1>22 DEF BootRadio
  <2>3. fresh /\ cmd.kind = "none"
    BY <1>4, <2>2 DEF FreshOK, CommandOK, Used
  <2>4. Found'
    BY <1>5, <1>8, <2>2
  <2>. QED BY <1>1, <1>2, <2>1, <2>2, <2>3, <2>4
<1>23. CASE Lease \/ Fallback \/ LinkLost \/ LinkBack
  <2>1. UNCHANGED <<kept, dev, cmd, promised, tried, fresh>>
    BY <1>23 DEF Lease, Fallback, LinkLost, LinkBack, NetEvent
  <2>. QED BY <1>6, <1>8, <2>1
<1>24. CASE UNCHANGED vars
  BY <1>6, <1>8, <1>24 DEF vars
<1>. QED BY <1>9, <1>10, <1>11, <1>12, <1>13, <1>14, <1>15, <1>16, <1>17, <1>18, <1>19,
            <1>20, <1>21, <1>22, <1>23, <1>24 DEF Next

-----------------------------------------------------------------------------
(***************************************************************************)
(* The theorems.                                                           *)
(***************************************************************************)

ConfigInv == /\ RadioTypeOK /\ CommandOK /\ FlashOK /\ DriverOK
             /\ NetworkOK /\ FreshOK /\ KeptOK

LEMMA ConfigInvariant == Spec => []ConfigInv
<1>1. Init => ConfigInv
  BY TypeInit, CommandInit, FlashInit, DriverInit, NetworkInit, FreshInit, KeptInit
     DEF ConfigInv
<1>2. ConfigInv /\ [Next]_vars => ConfigInv'
  BY TypeNext, CommandNext, FlashNext, DriverNext, NetworkNext, FreshNext, KeptNext
     DEF ConfigInv
<1>. QED BY <1>1, <1>2, PTL DEF Spec

(* Whatever was written before the power failed, and however far the write  *)
(* got, the next boot finds the settings that were promised, or all of      *)
(* those that were being written, with a rate their channel can have:       *)
(* write_blob(), use() and load_current() of settings.cpp.                  *)
THEOREM WholeAtBoot == Spec => []BootsWhole
<1>1. ConfigInv => BootsWhole
  BY DEF ConfigInv, RadioTypeOK, Devices, FlashOK, BootsWhole
<1>. QED BY <1>1, ConfigInvariant, PTL

(* As long as the flash takes what is written, a radio that goes through OTA *)
(* mode comes back on the channel, the rate and the power it went with,      *)
(* whatever is saved there and however often the power fails: save(),        *)
(* persist_mode() and apply_snapshot().                                      *)
THEOREM BackFromOta == Spec => []RadioComesBackIfWritten
<1>1. ConfigInv => RadioComesBackIfWritten
  BY DEF ConfigInv, KeptOK, FreshOK, AppliedAsSaved, RadioComesBackIfWritten,
         RadioComesBack, Full
<1>. QED BY <1>1, ConfigInvariant, PTL

(* After a boot or "use" in which no call was refused, the radio, the driver *)
(* and the network are set to all that was loaded, from any state before.    *)
THEOREM LoadedIsInEffect == Spec => []AppliedAsSaved
<1>1. ConfigInv => AppliedAsSaved
  BY DEF ConfigInv, FreshOK
<1>. QED BY <1>1, ConfigInvariant, PTL

(* After one refused call, wherever in a command or in a boot it was, the *)
(* driver of a running radio still has the channel and the rate that are  *)
(* stored: the roll-back of set_channel() and set_modulation().           *)
THEOREM StoredIsDriven == Spec => []RadioAsStored
<1>1. ConfigInv => RadioAsStored
  BY DEF ConfigInv, DriverOK, InStep, RadioAsStored
<1>. QED BY <1>1, ConfigInvariant, PTL

(* Until a link is lost or lwIP refuses a call, a radio in AUTO mode that   *)
(* has no address is waiting for the timer that gives it the static one:    *)
(* set_mode(), bring_up() and the fallback of the network manager.          *)
THEOREM AddressToCome == Spec => []FallbackComes
<1>1. ConfigInv => FallbackComes
  BY DEF ConfigInv, NetworkOK
<1>. QED BY <1>1, ConfigInvariant, PTL

(* Until lwIP refuses a call, the address in use is the one the mode and    *)
(* set_ip ask for, lost links, leases and boots included.                   *)
THEOREM AddressAsAsked == Spec => []AddressMatches
<1>1. ConfigInv => AddressMatches
  BY DEF ConfigInv, NetworkOK, AddressHeld, AddressMatches
<1>. QED BY <1>1, ConfigInvariant, PTL
=============================================================================

------------------------------ MODULE WifiPhy ------------------------------
(***************************************************************************)
(* Channel, modulation and tuning of the radio, radio/wifi.cpp and the     *)
(* setters of wifi_tx and wifi_rx it calls, and what the 802.11 driver,    *)
(* external, has been told.  A setter stores the new value first, tells    *)
(* the driver, and takes the value back when the driver refuses.           *)
(*                                                                         *)
(* A radio is a record: ready; what the object stores (ch, mod, tune);     *)
(* what the driver has (drvCh, rate, mask, started).  tune stands for CCA  *)
(* and transmit power; the domain is a number stored for wifi_rx, and      *)
(* allow_failed_crc decides nothing any more.                              *)
(***************************************************************************)
EXTENDS Outcome

CONSTANTS CHANNELS,   \* the channels in use; 14 is for 802.11b alone
          TUNES       \* values of CCA and transmit power

ASSUME WifiPhyAssumption == /\ 1 \in CHANNELS /\ CHANNELS \subseteq 1..14
                            /\ 0 \in TUNES

Modulations == {"DSSS", "OFDM"}
Masks       == {"b", "bg", "bgn"}     \* protocols the STA decodes

ModulationOk(mod, ch) == ch # 14 \/ mod = "DSSS"

(* protocol_for_rate(): 64-QAM of the peer is only decoded with 11n. *)
MaskFor(ch) == IF ch = 14 THEN "b" ELSE "bgn"

(* The object at power on. *)
Cold(faults) ==
    [ready |-> FALSE, started |-> FALSE, ch |-> 1, mod |-> "DSSS", tune |-> 0,
     drvCh |-> 1, rate |-> "DSSS", mask |-> "bgn", left |-> faults]

SetProtocol(w) == Call(w, [w EXCEPT !.mask = MaskFor(w.ch)])

ApplyChannel(w) ==
    IF w.started THEN Call(w, [w EXCEPT !.drvCh = w.ch]) ELSE Failed(w)

(* Loading a rate narrows the mask, so it is set again; whether that *)
(* succeeds is not looked at.                                        *)
LoadRate(w) ==
    Then(Call(w, [w EXCEPT !.rate = w.mod, !.mask = "bg"]),
         LAMBDA x : Ignored(SetProtocol(x)))

(* A running driver may refuse the rate: stop it, load, start it again. *)
Stop(w)  == Call(w, [w EXCEPT !.started = FALSE])
Start(w) == Call(w, [w EXCEPT !.started = TRUE])

LoadRateStopped(w) ==
    Then(Stop(w), LAMBDA x :
        UNION {IF o.ok THEN Start(o.state)
                       ELSE {[s EXCEPT !.ok = FALSE] : s \in Start(o.state)}
               : o \in LoadRate(x)})

ApplyModulation(w) ==
    IF ~ModulationOk(w.mod, w.ch)
    THEN Failed(w)
    ELSE Then(SetProtocol(w), LAMBDA x :
             UNION {IF o.ok THEN {o} ELSE LoadRateStopped(o.state)
                    : o \in LoadRate(x)})

(* apply_monitor(): promiscuous mode, then the mask once more. *)
ApplyMonitor(w) == Then(Call(w, w), LAMBDA x : Ignored(SetProtocol(x)))

(* initialize(): ready only when every step has succeeded. *)
Initialize(w) ==
    Then(Then(Then(Start(w), ApplyModulation), ApplyChannel), LAMBDA x :
        Then(ApplyMonitor(x), LAMBDA y : Done([y EXCEPT !.ready = TRUE])))

(* A plausible mistake: the object forgets the value, the driver keeps it. *)
RestoreForgets(w) == Failed(w)

(* Back to the stored values, whatever that returns; the command fails. *)
Restore(w) ==
    {[o EXCEPT !.ok = FALSE] :
        o \in AndAlso(AndAlso(ApplyModulation(w), ApplyChannel), ApplyMonitor)}

RestoreChannel(w) ==
    {[o EXCEPT !.ok = FALSE] : o \in AndAlso(ApplyModulation(w), ApplyChannel)}

SetChannel(w, ch) ==
    IF ~w.ready \/ ~ModulationOk(w.mod, ch)
    THEN Failed(w)
    ELSE LET moved == [w EXCEPT !.ch = ch]
             told  == IF ch = 14 THEN Then(ApplyModulation(moved), ApplyChannel)
                                 ELSE ApplyChannel(moved)
         IN UNION {IF o.ok THEN {o} ELSE RestoreChannel([o.state EXCEPT !.ch = w.ch])
                   : o \in told}

SetModulation(w, mod) ==
    IF ~w.ready \/ ~ModulationOk(mod, w.ch)
    THEN Failed(w)
    ELSE LET told == Then(Then(ApplyModulation([w EXCEPT !.mod = mod]),
                               ApplyChannel), ApplyMonitor)
         IN UNION {IF o.ok THEN {o} ELSE Restore([o.state EXCEPT !.mod = w.mod])
                   : o \in told}

(* apply_cca(), apply_power(): the stored value for the driver. *)
ApplyTune(w) == Call(w, w)

(* set_cca_enabled(), set_tx_power(): a refused value is taken back. *)
SetTune(w, tune) ==
    IF ~w.ready THEN Failed(w)
    ELSE IF w.tune = tune THEN Done(w)
    ELSE UNION {IF o.ok THEN {o} ELSE Failed([o.state EXCEPT !.tune = w.tune])
                : o \in ApplyTune([w EXCEPT !.tune = tune])}

DriverAsStored(w) == w.drvCh = w.ch /\ w.rate = w.mod
=============================================================================

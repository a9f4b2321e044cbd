---------------------------- MODULE RadioConfig ----------------------------
(***************************************************************************)
(* What a radio is set to and what it remembers: settings.cpp, the console *)
(* commands of console_cmd.cpp that change a setting, and the boot of      *)
(* main.cpp, over WifiPhy and NetManager.                                  *)
(*                                                                         *)
(* A command runs on the console's reactor thread, one at a time.  It is   *)
(* one action, except that a command that writes the flash is one action   *)
(* per write, because the power may fail between two of them: the slot's   *)
(* blob, the number of the current slot, the commit.  What was written and *)
(* not committed is read back by the running program, but after a power    *)
(* failure only a prefix of it may be there.  The flash (NVS) is external. *)
(*                                                                         *)
(* The upstream endpoints are up, both bound to their only address, or     *)
(* not.  A blob is a snapshot with the version that packed it.             *)
(***************************************************************************)
EXTENDS WifiPhy, NetManager, Sequences

CONSTANTS SLOTS,         \* SETTINGS_SLOT_COUNT is 10
          SAVED,         \* blobs slot 0 may hold at first, NoBlob for nothing
          NoBlob,
          MAX_COMMANDS,  \* bounds: commands,
          MAX_MISHAPS,   \*   power failures and links lost,
          FLASH_FAULTS,  \*   refused flash writes,
          PHY_FAULTS,    \*   driver calls,
          NET_FAULTS     \*   lwIP calls

ASSUME RadioConfigAssumption ==
    /\ SLOTS \subseteq 0..9 /\ 0 \in SLOTS
    /\ {MAX_COMMANDS, MAX_MISHAPS} \subseteq Nat
    /\ {FLASH_FAULTS, PHY_FAULTS, NET_FAULTS} \subseteq Nat

VARIABLES flash,    \* cur: the current slot; blobs: slot -> snapshot
          unsaved,  \* the flash after each write since the last commit
          phy,      \* the wifi object and the driver
          net,      \* the manager object and the interface
          dev,      \* where the program is, and the rest of its memory
          cmd,      \* the command that is writing the flash
          spent,    \* commands, crashes, links lost and flash faults so far
          promised, \* history: what the next boot is to find,
          tried,    \*   what was being written when a write failed,
          kept,     \*   the radio part when OTA mode was entered, NoBlob when
                    \*   the radio was set to something else since,
          fresh     \*   TRUE from a boot or "use" to the next change

vars == <<flash, unsaved, phy, net, dev, cmd, spent, promised, tried, kept, fresh>>

Modes == {"TUNNEL", "STANDALONE", "OTA"}

Snapshots ==
    [mode : Modes, ch : CHANNELS, mod : Modulations, tune : TUNES,
     up : BOOLEAN, net : NetModes, ip : IPS]

(* The setters refuse a rate the channel cannot have, so no capture has one. *)
ValidSnapshots == {s \in Snapshots : ModulationOk(s.mod, s.ch)}

(* What the flash holds at first was captured and packed by earlier firmware. *)
ASSUME SavedAssumption ==
    /\ SAVED \subseteq {NoBlob} \cup [version : Nat, snap : ValidSnapshots]
    /\ NoBlob \notin Snapshots \cup [version : Nat, snap : Snapshots]

(* snapshot_defaults(). *)
Defaults ==
    [mode |-> "TUNNEL", ch |-> 1, mod |-> "DSSS", tune |-> 0, up |-> FALSE,
     net |-> "AUTO", ip |-> FIRST_IP]

RadioPart(s) == [ch |-> s.ch, mod |-> s.mod, tune |-> s.tune, up |-> s.up]

NoCommand == [kind |-> "none", todo |-> <<>>, slot |-> 0, snap |-> Defaults]
OffDevice == [at |-> "off", mode |-> "TUNNEL", up |-> FALSE, slot |-> 0,
              has |-> FALSE, loaded |-> Defaults]

Idle == cmd = NoCommand
Full == dev.at = "full"
Used == dev.at \in {"full", "rescue"}

-----------------------------------------------------------------------------
(***************************************************************************)
(* The flash.                                                              *)
(***************************************************************************)

VERSION     == 7    \* k_blob_version
MIN_VERSION == 3    \* k_blob_version_min

Packed(snap) == [version |-> VERSION, snap |-> snap]

(* unpack_blob(): NoBlob when it is refused.  Until version 5 the upstream *)
(* endpoints were not part of a blob, or in tables that are given up.      *)
Unpacked(blob) ==
    IF blob = NoBlob THEN NoBlob
    ELSE IF blob.version \notin MIN_VERSION..VERSION THEN NoBlob
    ELSE IF blob.version <= 5 THEN [blob.snap EXCEPT !.up = FALSE]
    ELSE blob.snap

Written(f, w) ==
    IF w.what = "blob" THEN [f EXCEPT !.blobs[w.slot] = Packed(w.snap)]
                       ELSE [f EXCEPT !.cur = w.slot]

(* The flash with the first k of the writes that are not committed. *)
AfterWrites(k) == IF k = 0 THEN flash ELSE unsaved[k]
Read == AfterWrites(Len(unsaved))

(* load_current(): the defaults where the current slot holds nothing. *)
Current(f) == Unpacked(f.blobs[f.cur])
Boots(f)   == IF Current(f) = NoBlob THEN Defaults ELSE Current(f)

(* A plausible mistake: the number of the slot before its blob. *)
WritesSlotFirst(kind) == IF kind = "use" THEN <<"cur">> ELSE <<"cur", "blob">>

(* write_blob(); use() writes the number of the slot alone. *)
Writes(kind) == IF kind = "use" THEN <<"cur">> ELSE <<"blob", "cur">>

-----------------------------------------------------------------------------
(***************************************************************************)
(* Snapshots of the running radio.                                         *)
(***************************************************************************)

(* capture_live(): a radio that is not ready gives the defaults. *)
Live ==
    [mode |-> dev.mode,
     ch   |-> IF phy.ready THEN phy.ch ELSE Defaults.ch,
     mod  |-> IF phy.ready THEN phy.mod ELSE Defaults.mod,
     tune |-> IF phy.ready THEN phy.tune ELSE Defaults.tune,
     up   |-> dev.up, net |-> net.mode, ip |-> net.ip]

(* A plausible mistake: leaving OTA takes what the idle radio shows. *)
CapturedAlways == Live

(* persist_mode() keeps what was loaded when there is no radio to ask. *)
Captured ==
    IF dev.loaded.mode # "OTA" /\ phy.ready THEN Live ELSE dev.loaded

(* save() in OTA mode keeps the radio's part of what was loaded. *)
ToSave ==
    IF dev.loaded.mode = "OTA"
    THEN [dev.loaded EXCEPT !.ip = net.ip, !.net = net.mode]
    ELSE Live

(* A plausible mistake: always the rate first. *)
TuneInRateFirst(w, snap) ==
    Then(SetModulation(w, snap.mod), LAMBDA x : SetChannel(x, snap.ch))

(* Channel 14 takes the rate first, every other channel before the rate. *)
TuneIn(w, snap) ==
    IF snap.ch = 14
    THEN Then(SetModulation(w, snap.mod), LAMBDA x : SetChannel(x, 14))
    ELSE Then(SetChannel(w, snap.ch), LAMBDA x : SetModulation(x, snap.mod))

ApplyPhy(w, snap) ==
    IF ~w.ready THEN Done(w)
    ELSE Then(Then(TuneIn(w, snap), ApplyMonitor),
              LAMBDA x : SetTune(x, snap.tune))

ApplyNet(n, snap) ==
    AndAlso(SetIp(n, snap.ip), LAMBDA m : SetNetworkMode(m, snap.net))

(* apply_snapshot() from the mode down to the endpoints; it stops where *)
(* something fails and undoes nothing.  d is the device, already with   *)
(* the snapshot loaded; w the radio.                                    *)
Apply(d, w, n, snap) ==
    \E a \in ApplyNet(n, snap) :
        /\ net' = a.state
        /\ \/ /\ ~a.ok
              /\ phy' = w /\ dev' = [d EXCEPT !.mode = snap.mode]
           \/ /\ a.ok
              /\ \E p \in ApplyPhy(w, snap) :
                    /\ phy' = p.state
                    /\ dev' = [d EXCEPT !.mode = snap.mode,
                                        !.up = IF p.ok THEN snap.up ELSE @]

-----------------------------------------------------------------------------
(***************************************************************************)
(* Commands that change the running radio.                                 *)
(***************************************************************************)

Command == /\ Idle /\ Used
           /\ spent.commands < MAX_COMMANDS
           /\ spent' = [spent EXCEPT !.commands = @ + 1]

Changed == /\ fresh' = FALSE
           /\ kept' = IF Full THEN NoBlob ELSE kept
           /\ UNCHANGED <<flash, unsaved, cmd, promised, tried>>

(* The commands of the radio need the endpoints, that is, a full boot. *)
SetRadio(Outcomes) ==
    /\ Command /\ Full
    /\ \E o \in Outcomes : phy' = o.state
    /\ Changed
    /\ UNCHANGED <<net, dev>>

SetChannelCmd    == \E ch \in CHANNELS : SetRadio(SetChannel(phy, ch))
SetModulationCmd == \E mod \in Modulations : SetRadio(SetModulation(phy, mod))
SetTuneCmd       == \E tune \in TUNES : SetRadio(SetTune(phy, tune))

SetUpstreamCmd ==
    /\ Command /\ Full
    /\ dev' = [dev EXCEPT !.up = ~@]
    /\ Changed
    /\ UNCHANGED <<phy, net>>

SetNetworkCmd ==
    /\ Command
    /\ \/ \E mode \in NetModes : \E o \in SetNetworkMode(net, mode) : net' = o.state
       \/ \E ip \in IPS : \E o \in SetIp(net, ip) : net' = o.state
    /\ Changed
    /\ UNCHANGED <<phy, dev>>

(* set_mode between the two radio modes applies at once and is not stored. *)
SetModeLive(mode) ==
    /\ Command
    /\ dev.loaded.mode # "OTA" /\ mode # "OTA"
    /\ dev' = [dev EXCEPT !.mode = mode]
    /\ Changed
    /\ UNCHANGED <<phy, net>>

-----------------------------------------------------------------------------
(***************************************************************************)
(* Commands that write the flash.                                          *)
(***************************************************************************)

Begin(kind, slot, snap) ==
    /\ Command
    /\ cmd' = [kind |-> kind, todo |-> Writes(kind), slot |-> slot, snap |-> snap]
    /\ UNCHANGED <<flash, unsaved, net, phy, promised, tried>>

(* persist_mode(): the mode changes in memory before it is written. *)
SetModeStored(mode) ==
    LET snap == [Captured EXCEPT !.mode = mode]
    IN /\ dev.loaded.mode = "OTA" \/ mode = "OTA"
       /\ Begin("persist", dev.slot, snap)
       /\ dev' = [dev EXCEPT !.loaded = snap, !.mode = mode]
       /\ kept' = IF Full THEN NoBlob ELSE kept
       /\ fresh' = FALSE

Save(slot) == /\ Begin("save", slot, ToSave)
              /\ UNCHANGED <<dev, kept, fresh>>

(* use() of a slot that holds nothing is refused. *)
Use(slot) ==
    LET snap == Unpacked(Read.blobs[slot])
    IN /\ snap # NoBlob
       /\ Begin("use", slot, snap)
       /\ kept' = NoBlob
       /\ UNCHANGED <<dev, fresh>>

Write ==
    /\ cmd.todo # <<>>
    /\ unsaved' = Append(unsaved, Written(Read, [what |-> Head(cmd.todo),
                                 slot |-> cmd.slot, snap |-> cmd.snap]))
    /\ cmd' = [cmd EXCEPT !.todo = Tail(@)]
    /\ UNCHANGED <<flash, phy, net, dev, spent, promised, tried, kept, fresh>>

(* A refused write ends save() and persist_mode(), and what was written *)
(* before it stays; use() does not look.                                *)
WriteRefused ==
    /\ cmd.todo # <<>> /\ cmd.kind # "use"
    /\ spent.faults < FLASH_FAULTS
    /\ spent' = [spent EXCEPT !.faults = @ + 1]
    /\ tried' = tried \cup {cmd.snap}
    /\ cmd' = NoCommand
    /\ UNCHANGED <<flash, unsaved, phy, net, dev, promised, kept, fresh>>

Commit == /\ ~Idle /\ cmd.todo = <<>>
          /\ flash' = Read /\ unsaved' = <<>>
          /\ promised' = cmd.snap /\ tried' = {}
          /\ cmd' = NoCommand
          /\ UNCHANGED spent

SaveDone == /\ cmd.kind = "save" /\ Commit
            /\ dev' = [dev EXCEPT !.slot = cmd.slot, !.loaded = cmd.snap, !.has = TRUE]
            /\ UNCHANGED <<phy, net, kept, fresh>>

(* Going to or from OTA mode ends in a restart. *)
PersistDone ==
    /\ cmd.kind = "persist" /\ Commit
    /\ dev' = OffDevice
    /\ kept' = IF Full /\ cmd.snap.mode = "OTA" THEN RadioPart(cmd.snap) ELSE kept
    /\ UNCHANGED <<phy, net, fresh>>

UseDone ==
    /\ cmd.kind = "use" /\ Commit
    /\ UNCHANGED kept
    /\ \/ /\ "OTA" \in {dev.loaded.mode, cmd.snap.mode}
          /\ dev' = OffDevice /\ fresh' = FALSE
          /\ UNCHANGED <<phy, net>>
       \/ /\ "OTA" \notin {dev.loaded.mode, cmd.snap.mode}
          /\ Apply([dev EXCEPT !.slot = cmd.slot, !.loaded = cmd.snap, !.has = TRUE],
                   phy, net, cmd.snap)
          /\ fresh' = TRUE

-----------------------------------------------------------------------------
(***************************************************************************)
(* Power failure, reset and boot; address and link.                        *)
(***************************************************************************)

Restart ==
    /\ \E k \in 0..Len(unsaved) : flash' = AfterWrites(k)
    /\ unsaved' = <<>> /\ dev' = OffDevice /\ cmd' = NoCommand
    /\ tried' = IF Idle THEN tried ELSE tried \cup {cmd.snap}
    /\ fresh' = FALSE
    /\ UNCHANGED <<phy, net, promised, kept>>

Mishaps == spent.crashes + spent.links

Crash ==
    /\ dev.at # "off"
    /\ Mishaps < MAX_MISHAPS
    /\ spent' = [spent EXCEPT !.crashes = @ + 1]
    /\ Restart

ResetCmd == Idle /\ Used /\ Restart /\ UNCHANGED spent

(* load_current() and start() of the manager: the network first, so that *)
(* whatever fails later the radio can be reached.                        *)
BootNetwork ==
    LET loaded == Boots(flash)
        cold   == Unplugged(net.link, net.left)
    IN /\ dev.at = "off"
       /\ \E o \in BringUp([cold EXCEPT !.mode = loaded.net, !.ip = loaded.ip]) :
             net' = o.state
       /\ dev' = [OffDevice EXCEPT !.slot = flash.cur, !.loaded = loaded,
                                   !.has = Current(flash) # NoBlob,
                                   !.at = IF loaded.mode = "OTA" THEN "rescue"
                                                                ELSE "booting",
                                   !.mode = IF loaded.mode = "OTA" THEN "OTA" ELSE @]
       /\ phy' = Cold(phy.left)
       /\ promised' = loaded /\ tried' = {}
       /\ fresh' = TRUE
       /\ UNCHANGED <<flash, unsaved, cmd, spent, kept>>

(* initialize() of the radio, then apply_live() of what was loaded. *)
BootRadio ==
    /\ dev.at = "booting"
    /\ \E o \in Initialize(phy) :
          IF o.ok /\ dev.has
          THEN Apply([dev EXCEPT !.at = "full"], o.state, net, dev.loaded)
          ELSE /\ phy' = o.state /\ dev' = [dev EXCEPT !.at = "full"]
               /\ UNCHANGED net
    /\ UNCHANGED <<flash, unsaved, cmd, spent, promised, tried, kept, fresh>>

NetEvent ==
    /\ dev.at # "off"
    /\ UNCHANGED <<flash, unsaved, phy, dev, cmd, promised, tried, kept, fresh>>

Lease == /\ NetEvent /\ Leases(net) /\ net' = GotLease(net)
         /\ UNCHANGED spent

(* The timer runs on the console's thread, so not inside a command. *)
Fallback == /\ NetEvent /\ Idle /\ net.armed
            /\ \E o \in StaticFallback(net) : net' = o.state
            /\ UNCHANGED spent

LinkLost == /\ NetEvent /\ net.link
            /\ Mishaps < MAX_MISHAPS
            /\ spent' = [spent EXCEPT !.links = @ + 1]
            /\ net' = LinkDown(net)

LinkBack == /\ NetEvent /\ ~net.link /\ net' = LinkUp(net)
            /\ UNCHANGED spent

-----------------------------------------------------------------------------
Init ==
    /\ \E b \in SAVED :
          flash = [cur |-> 0, blobs |-> [i \in SLOTS |-> IF i = 0 THEN b ELSE NoBlob]]
    /\ promised = Boots(flash)
    /\ unsaved = <<>>
    /\ phy = Cold(PHY_FAULTS)
    /\ \E link \in BOOLEAN : net = Unplugged(link, NET_FAULTS)
    /\ dev = OffDevice /\ cmd = NoCommand
    /\ spent = [commands |-> 0, crashes |-> 0, links |-> 0, faults |-> 0]
    /\ tried = {} /\ kept = NoBlob /\ fresh = FALSE

Next ==
    \/ SetChannelCmd \/ SetModulationCmd \/ SetTuneCmd \/ SetUpstreamCmd
    \/ SetNetworkCmd
    \/ \E mode \in Modes : SetModeLive(mode) \/ SetModeStored(mode)
    \/ \E slot \in SLOTS : Save(slot) \/ Use(slot)
    \/ Write \/ WriteRefused
    \/ SaveDone \/ PersistDone \/ UseDone
    \/ Crash \/ ResetCmd \/ BootNetwork \/ BootRadio
    \/ Lease \/ Fallback \/ LinkLost \/ LinkBack

Spec == Init /\ [][Next]_vars

-----------------------------------------------------------------------------
(***************************************************************************)
(* Properties.                                                             *)
(***************************************************************************)

(* What the next boot may find: what was promised, or what was being     *)
(* written when a write failed or is now.                                *)
ToBeFound == {promised} \cup tried \cup IF Idle THEN {} ELSE {cmd.snap}

(* Whenever the power fails, the next boot finds the settings of the last *)
(* boot or of the last command that was acknowledged, or all of those     *)
(* that were being written: never a mixture, never the defaults of an     *)
(* empty slot, and never a rate its channel cannot have: the order of the *)
(* writes in write_blob(), use()'s refusal of an empty slot, and what     *)
(* capture_live() and the setters let through.                            *)
BootsWhole ==
    /\ {dev.loaded, promised} \cup tried \subseteq ValidSnapshots
    /\ \A k \in 0..Len(unsaved) : Boots(AfterWrites(k)) \in ToBeFound

(* Neither the driver nor lwIP has refused a call. *)
NothingRefused == phy.left = PHY_FAULTS /\ net.left = NET_FAULTS

(* What the radio was set to when it entered OTA mode is not lost there, *)
(* whatever is saved meanwhile, and is in effect when it comes back.     *)
(* save(), persist_mode() and apply_live().                              *)
RadioComesBack ==
    kept # NoBlob =>
        /\ dev.at = "rescue" => RadioPart(dev.loaded) = kept
        /\ Full /\ fresh /\ NothingRefused => RadioPart(Live) = kept

(* The same as long as the flash takes what is written. *)
RadioComesBackIfWritten == spent.faults = 0 => RadioComesBack

(* After a boot or "use", and without an error of the driver or of lwIP, *)
(* the radio is set to all that was loaded, the driver with it, whatever *)
(* it was set to before: apply_snapshot() takes a way around "channel 14 *)
(* is DSSS" that always exists.                                          *)
AppliedAsSaved ==
    Full /\ fresh /\ NothingRefused =>
        /\ Live = dev.loaded
        /\ DriverAsStored(phy) /\ phy.mask = MaskFor(phy.ch)

(* A command the driver refused half-way leaves the driver on the channel *)
(* and the rate that "status" shows and "save" would store: the roll-back *)
(* of set_channel() and set_modulation().  A second refusal may hit the   *)
(* roll-back itself, which is not repeated.                               *)
RadioAsStored ==
    /\ phy.ready /\ phy.started
    /\ phy.left >= PHY_FAULTS - 1
    => DriverAsStored(phy)

(* As long as the radio is in AUTO mode without an address and its cable   *)
(* was not pulled, the timer that gives it the static one is running:      *)
(* whichever commands, leases and boots there were, it can be reached      *)
(* again, lwIP permitting: a DHCP client that does not start leaves the    *)
(* timer off, and the timer runs once.  After a lost link nothing starts   *)
(* the timer: the DHCP client gives its address up and is left to get one. *)
FallbackComes ==
    spent.links = 0 /\ net.left = NET_FAULTS => FallbackToCome(net)

(* The address in use is the one the mode and set_ip ask for, with no DHCP *)
(* client left behind that could replace it, and where there is an address *)
(* the console is listening, as long as lwIP takes what it is told.        *)
AddressMatches == net.left = NET_FAULTS => AddressAsSet(net)
=============================================================================

----------------------------- MODULE NetManager -----------------------------
(***************************************************************************)
(* The radio's address, netmgr/manager.cpp with dhcp_client and the state  *)
(* of ethernet_rmii: AUTO asks a DHCP server and after five seconds falls  *)
(* back to the static address, STATIC uses it at once.  Commands, the      *)
(* fallback timer and the bring-up run on one reactor thread, so each is a *)
(* single operator; leases and link changes come from other tasks between  *)
(* them.  lwIP and the DHCP server are external.                           *)
(*                                                                         *)
(* A network is a record: mode and ip as set; ready; dhcp, the client      *)
(* runs; addr, the address in use; using, it is the static one; connected, *)
(* what the console goes by; armed, the fallback timer.                    *)
(***************************************************************************)
EXTENDS Outcome

CONSTANTS IPS,       \* static addresses that may be set
          FIRST_IP   \* ETH_FALLBACK_ADDR

ASSUME NetManagerAssumption == IPS \subseteq 1..99 /\ FIRST_IP \in IPS

NO_IP == 0
LEASE == 100    \* the address the DHCP server hands out

NetModes == {"AUTO", "STATIC"}

Unplugged(link, faults) ==
    [mode |-> "AUTO", ip |-> FIRST_IP, ready |-> FALSE, link |-> link,
     dhcp |-> FALSE, addr |-> NO_IP, using |-> FALSE, connected |-> FALSE,
     armed |-> FALSE, left |-> faults]

(* Starting the client takes the old address away, stopping it the lease. *)
DhcpStart(n) ==
    Call(n, IF n.dhcp THEN n ELSE [n EXCEPT !.dhcp = TRUE, !.addr = NO_IP])

(* A plausible mistake: the client goes on beside the static address. *)
DhcpStopNot(n) == Done(n)

DhcpStop(n) ==
    Call(n, IF n.dhcp THEN [n EXCEPT !.dhcp = FALSE, !.addr = NO_IP] ELSE n)

ApplyStaticIp(n, ip) ==
    Then(DhcpStop(n), LAMBDA m :
        Call(m, [m EXCEPT !.addr = ip, !.using = TRUE, !.connected = TRUE]))

(* A plausible mistake: the timer of the first attempt is left to do it. *)
ScheduleNot(n) == n

ScheduleStaticFallback(n) == [n EXCEPT !.armed = TRUE]
CancelStaticFallback(n)   == [n EXCEPT !.armed = FALSE]

ApplyNetwork(n) ==
    IF ~n.ready THEN Done(n)
    ELSE IF n.mode = "AUTO"
    THEN Then(DhcpStart(n), LAMBDA m :
             Done(ScheduleStaticFallback(
                 [m EXCEPT !.using = FALSE, !.connected = m.addr # NO_IP])))
    ELSE ApplyStaticIp(CancelStaticFallback(n), n.ip)

(* The mode is stored before it is applied, and a mode that is already *)
(* stored is not applied again.                                        *)
SetNetworkMode(n, mode) ==
    IF n.mode = mode /\ n.ready THEN Done(n)
                                ELSE ApplyNetwork([n EXCEPT !.mode = mode])

SetIp(n, ip) ==
    LET m == [n EXCEPT !.ip = ip]
    IN IF ~m.ready THEN Done(m)
       ELSE IF m.mode = "STATIC" THEN ApplyNetwork(m)
       ELSE IF m.using THEN ApplyStaticIp(m, ip)
       ELSE Done(m)

(* bring_up() on the reactor thread, before it runs anything else. *)
BringUp(n) == ApplyNetwork([n EXCEPT !.ready = TRUE])

(* on_static_fallback(): the lease may have come first. *)
StaticFallback(n) ==
    LET m == [n EXCEPT !.armed = FALSE]
    IN IF m.mode # "AUTO" \/ m.addr # NO_IP THEN Done(m)
                                            ELSE ApplyStaticIp(m, m.ip)

Leases(n)   == n.link /\ n.dhcp /\ n.addr = NO_IP
GotLease(n) == [n EXCEPT !.addr = LEASE, !.connected = TRUE]

(* Without a link the DHCP client gives its address up; it starts again *)
(* by itself when the link is back.                                     *)
LinkDown(n) ==
    [n EXCEPT !.link = FALSE, !.connected = n.using /\ n.connected,
              !.addr = IF n.dhcp THEN NO_IP ELSE n.addr]
LinkUp(n) == [n EXCEPT !.link = TRUE]

(* As long as AUTO has no address, the fallback is still to come. *)
FallbackToCome(n) == n.ready /\ n.mode = "AUTO" /\ n.addr = NO_IP => n.armed

(* STATIC has its address and no client that could take it away, and where *)
(* there is an address the console listens.                                *)
AddressAsSet(n) ==
    /\ n.ready /\ n.mode = "STATIC" => n.addr = n.ip /\ ~n.dhcp /\ ~n.armed
    /\ n.using => n.addr = n.ip
    /\ n.addr # NO_IP => n.connected
=============================================================================

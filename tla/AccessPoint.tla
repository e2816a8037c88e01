----------------------------- MODULE AccessPoint -----------------------------
(***************************************************************************)
(* An access point (controllers/access_point.py) with its hostapd and      *)
(* dhcpd daemons (ap_lib/hostapd.py, ap_lib/dhcp_server.py).               *)
(*                                                                         *)
(* One thread starts and stops access points, one per band, over ssh.  The *)
(* table _aps, the daemons and the addresses of the interfaces change one  *)
(* after the other, and every command in between may raise.  A daemon is   *)
(* found again by the name of its config file, which contains the band:    *)
(* hostapd's entry of the table keeps it, but there is one self._dhcp,     *)
(* replaced by every start_ap.                                             *)
(***************************************************************************)
EXTENDS FiniteSets

CONSTANTS Bands, NoBand

ASSUME BandsAssumption == NoBand \notin Bands

VARIABLES
  at,        \* where the thread is
  band,      \* the band of the operation
  bss,       \* start_ap: the config has a bss_lookup
  loop,      \* "no", or the operation that stops all: "stop all" or "close"
  todo,      \* the loop's access points still to stop
  aps,       \* _aps
  dhcp,      \* the band of self._dhcp
  hostapds,  \* host: the bands with a hostapd
  dhcpds,    \* host: the subnets each band's dhcpd serves, {} if it is dead
  addressed, \* host: interfaces with an address
  closed,    \* close() has ended
  failed,    \* history: an operation of this object raised
  left,      \* history: hostapds running before this object
  replaced   \* history: dhcpds running that self._dhcp no longer names

daemons == <<hostapds, dhcpds, addressed>>
call == <<band, bss, loop, todo>>
vars == <<at, call, aps, dhcp, daemons, closed, failed, left, replaced>>

Main(B) == B \X {"main"}            \* the subnets of the bands B
Alive(d) == {b \in Bands : d[b] # {}}

Init ==
  /\ at = "idle" /\ band = NoBand /\ bss = FALSE /\ loop = "no" /\ todo = {}
  /\ aps = {} /\ dhcp = NoBand /\ closed = TRUE /\ failed = FALSE
  /\ hostapds \in SUBSET Bands /\ addressed = hostapds
  /\ dhcpds = [b \in Bands |-> {}] /\ left = hostapds /\ replaced = {}

(* AccessPoint(): __initial_ap stops what it can; when that raises, the    *)
(* host is rebooted.                                                       *)
Create ==
  /\ closed /\ closed' = FALSE
  /\ aps' = {} /\ dhcp' = NoBand /\ failed' = FALSE
  /\ \/ hostapds' \in {hostapds, {}} /\ UNCHANGED <<dhcpds, addressed>>
     \/ hostapds' = {} /\ dhcpds' = [b \in Bands |-> {}] /\ addressed' = {}
  /\ left' = hostapds' /\ replaced' = Alive(dhcpds')
  /\ UNCHANGED <<at, call>>

(* start_ap makes a new DhcpServer, whether or not the band is free ...    *)
StartAp(b, x) ==
  /\ at = "idle" /\ ~closed
  /\ band' = b /\ bss' = x /\ dhcp' = b /\ loop' = "no" /\ at' = "mac"
  /\ replaced' = (replaced \union ({dhcp} \intersect Alive(dhcpds))) \ {b}
  /\ UNCHANGED <<todo, aps, daemons, closed, failed, left>>

(* ... asks for the address of the interface, and claims the band or       *)
(* raises ValueError.                                                      *)
Claim ==
  /\ at = "mac"
  /\ aps' = aps \union {band} /\ at' = IF band \in aps THEN "idle" ELSE "refresh"
  /\ UNCHANGED <<call, dhcp, daemons, closed, failed, left, replaced>>

(* The dhcpd of this band is killed, in start_ap and in stop_ap.           *)
StopDhcp ==
  /\ at \in {"refresh", "stop dhcp"}
  /\ dhcpds' = [dhcpds EXCEPT ![dhcp] = {}]
  /\ at' = IF at = "refresh" THEN "start hostapd" ELSE "clear"
  /\ UNCHANGED <<call, aps, dhcp, hostapds, addressed, closed, failed, left, replaced>>

(* Hostapd.start kills a hostapd of the band and starts one, which comes   *)
(* up, or is killed again and the error raised.                            *)
StartHostapd ==
  /\ at = "start hostapd"
  /\ \/ hostapds' = hostapds \union {band} /\ at' = "address" /\ UNCHANGED failed
     \/ hostapds' = hostapds \ {band} /\ at' = "idle" /\ failed' = TRUE
  /\ left' = left \ {band}
  /\ UNCHANGED <<call, aps, dhcp, dhcpds, addressed, closed, replaced>>

SetAddress ==
  /\ at = "address"
  /\ addressed' = addressed \union {band} /\ at' = "start dhcp"
  /\ UNCHANGED <<call, aps, dhcp, hostapds, dhcpds, closed, failed, left, replaced>>

(* DhcpServer.start: dhcpd exits if no interface belongs to its subnets,   *)
(* which raises NoInterfaceError; any other failure also ends in stop().   *)
RunDhcp(subnets, next, noInterface) ==
  LET listens == \E s \in subnets : s[1] \in addressed
  IN \/ /\ listens /\ dhcpds' = [dhcpds EXCEPT ![dhcp] = subnets]
        /\ at' = next /\ UNCHANGED <<failed, closed>>
     \/ /\ ~listens /\ dhcpds' = [dhcpds EXCEPT ![dhcp] = {}]
        /\ at' = noInterface /\ UNCHANGED <<failed, closed>>
     \/ /\ dhcpds' = [dhcpds EXCEPT ![dhcp] = {}]
        /\ at' = "idle" /\ failed' = TRUE /\ closed' = (loop = "close")

(* The subnets of the table, and those of this call's bss_lookup.          *)
StartDhcp ==
  /\ at = "start dhcp"
  /\ RunDhcp(Main(aps) \union (IF bss THEN {<<band, "bss">>} ELSE {}), "forward", "idle")
  /\ UNCHANGED <<call, aps, dhcp, hostapds, addressed, left, replaced>>

Forward ==     \* iptables and ip_forward
  /\ at = "forward" /\ at' = "idle"
  /\ UNCHANGED <<call, aps, dhcp, daemons, closed, failed, left, replaced>>

-----------------------------------------------------------------------------
(* Mutant of StopAp: the entry is deleted first.                           *)
StopApForgets(b) ==
  /\ at = "idle" /\ ~closed /\ b \in aps
  /\ band' = b /\ loop' = "no" /\ at' = "stop hostapd" /\ aps' = aps \ {b}
  /\ UNCHANGED <<bss, todo, dhcp, daemons, closed, failed, left, replaced>>

(* stop_ap; a band that is not in the table is a ValueError.               *)
StopAp(b) ==
  /\ at = "idle" /\ ~closed /\ b \in aps
  /\ band' = b /\ loop' = "no" /\ at' = "stop hostapd"
  /\ UNCHANGED <<bss, todo, aps, dhcp, daemons, closed, failed, left, replaced>>

StopHostapd ==
  /\ at = "stop hostapd"
  /\ hostapds' = hostapds \ {band} /\ at' = "stop dhcp"
  /\ UNCHANGED <<call, aps, dhcp, dhcpds, addressed, closed, failed, left, replaced>>

ClearAddress ==
  /\ at = "clear"
  /\ addressed' = addressed \ {band} /\ at' = "forget"
  /\ UNCHANGED <<call, aps, dhcp, hostapds, dhcpds, closed, failed, left, replaced>>

Next1 == IF loop = "no" THEN "idle" ELSE "next"    \* after one stop_ap

(* Mutant of Forget: the dhcpd is not started again.                       *)
ForgetOnly ==
  /\ at = "forget"
  /\ aps' = aps \ {band} /\ at' = Next1
  /\ UNCHANGED <<call, dhcp, daemons, closed, failed, left, replaced>>

(* The entry is deleted after the list of subnets is made, so the list is  *)
(* never empty; for the last access point NoInterfaceError goes to the     *)
(* caller of stop_ap, and stop_all_aps catches it.                         *)
Forget ==
  /\ at = "forget"
  /\ aps' = aps \ {band}
  /\ RunDhcp(Main(aps), Next1, Next1)
  /\ UNCHANGED <<call, dhcp, hostapds, addressed, left, replaced>>

(* Mutant of StopAll: an empty list to go through.                         *)
StopNone(l) ==
  /\ at = "idle" /\ ~closed /\ loop' = l
  /\ todo' = {} /\ at' = "next"
  /\ UNCHANGED <<band, bss, aps, dhcp, daemons, closed, failed, left, replaced>>

(* stop_all_aps and close, which stops all and then closes the ssh         *)
(* connection.                                                             *)
StopAll(l) ==
  /\ at = "idle" /\ ~closed /\ loop' = l
  /\ todo' = aps /\ at' = "next"
  /\ UNCHANGED <<band, bss, aps, dhcp, daemons, closed, failed, left, replaced>>

StopNext ==
  /\ at = "next"
  /\ \/ /\ \E b \in todo : band' = b /\ todo' = todo \ {b}
        /\ at' = "stop hostapd" /\ UNCHANGED closed
     \/ /\ todo = {} /\ at' = "idle" /\ closed' = (loop = "close")
        /\ UNCHANGED <<band, todo>>
  /\ UNCHANGED <<bss, loop, aps, dhcp, daemons, failed, left, replaced>>

(* Any command over ssh may raise, which ends the operation.               *)
CommandFails ==
  /\ at \notin {"idle", "next"}
  /\ at' = "idle" /\ failed' = TRUE /\ closed' = (loop = "close")
  /\ UNCHANGED <<call, aps, dhcp, daemons, left, replaced>>

Next ==
  \/ Create
  \/ \E b \in Bands : StopAp(b) \/ \E x \in BOOLEAN : StartAp(b, x)
  \/ Claim \/ StopDhcp \/ StartHostapd \/ SetAddress \/ StartDhcp \/ Forward
  \/ StopHostapd \/ ClearAddress \/ Forget
  \/ StopAll("stop all") \/ StopAll("close") \/ StopNext
  \/ CommandFails

Spec == Init /\ [][Next]_vars

-----------------------------------------------------------------------------
Served == UNION {dhcpds[b] : b \in Bands}

(* No hostapd escapes the table: whatever fails in start_ap or stop_ap, a  *)
(* hostapd this object started has an entry by which it can be stopped.    *)
HostapdTracked == hostapds \subseteq aps \union left

(* As long as no operation has raised, between operations every entry has  *)
(* its hostapd and its subnet is served by a dhcpd, although every start   *)
(* and stop takes the dhcpd down and builds its configuration again.       *)
ServedWhileSound ==
  at = "idle" /\ ~closed /\ ~failed =>
    aps \subseteq hostapds /\ Main(aps) \subseteq Served

(* What close() promises, and what it keeps: if no operation raised, no    *)
(* access point and no hostapd of this object is left, and the dhcpds that *)
(* are left are those a later start_ap replaced in self._dhcp.             *)
CloseStopsAps ==
  closed /\ ~failed =>
    aps = {} /\ hostapds \subseteq left /\ Alive(dhcpds) \subseteq replaced
=============================================================================

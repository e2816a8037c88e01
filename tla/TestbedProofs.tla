----------------------------- MODULE TestbedProofs -----------------------------
(***************************************************************************)
(* Proofs about the controllers of a test bed and the helpers of the       *)
(* tests, for any values of their constants.  What is proved of the access *)
(* point is of AccessPoint's own specification, which MCTestbed extends;   *)
(* the rest is of BedSpec.                                                 *)
(***************************************************************************)
EXTENDS MCTestbed, TLAPS

bed == <<driven, vars, helper, devices, wifi, calls, bluetooth, setup, messages, coex,
         lab>>

-----------------------------------------------------------------------------
(* The access point.                                                       *)

(* While start_ap is on its way its band is in the table; while stop_ap is *)
(* past the kill of hostapd, its band has none.  A closed object is at     *)
(* rest.                                                                   *)
Claimed == at \in {"refresh", "start hostapd"} => band \in aps
Stopped == at \in {"stop dhcp", "clear", "forget"} => band \notin hostapds

AtRest  == closed \in BOOLEAN /\ (at # "idle" => closed = FALSE)

Tracking == HostapdTracked /\ Claimed /\ Stopped /\ AtRest

LEMMA InitTracking == Init => Tracking
BY DEF Init, Tracking, HostapdTracked, Claimed, Stopped, AtRest

(* The steps that leave the table, the hostapds and the band alone.        *)
LEMMA ElsewhereTracking ==
  ASSUME Tracking, UNCHANGED <<aps, hostapds, left, band>>,
         closed' \in BOOLEAN, at' # "idle" => closed' = FALSE,
         \/ at' \notin {"refresh", "start hostapd", "stop dhcp", "clear", "forget"}
         \/ at = "refresh" /\ at' = "start hostapd"
         \/ at = "stop dhcp" /\ at' = "clear"
         \/ at = "clear" /\ at' = "forget"
  PROVE  Tracking'
BY DEF Tracking, HostapdTracked, Claimed, Stopped, AtRest

LEMMA NextTracking == Tracking /\ [Next]_vars => Tracking'
<1> SUFFICES ASSUME Tracking, [Next]_vars PROVE Tracking'
  OBVIOUS
<1> USE DEF call, daemons
<1>1. CASE Create
  BY <1>1 DEF Create, Tracking, HostapdTracked, Claimed, Stopped, AtRest
<1>2. ASSUME NEW b \in Bands, NEW x \in BOOLEAN, StartAp(b, x) PROVE Tracking'
  BY <1>2 DEF StartAp, Tracking, HostapdTracked, Claimed, Stopped, AtRest
<1>3. CASE Claim
  BY <1>3 DEF Claim, Tracking, HostapdTracked, Claimed, Stopped, AtRest
<1>4. CASE StopDhcp
  BY <1>4, ElsewhereTracking DEF StopDhcp, Tracking, AtRest
<1>5. CASE StartHostapd
  BY <1>5 DEF StartHostapd, Tracking, HostapdTracked, Claimed, Stopped, AtRest
<1>6. CASE SetAddress
  BY <1>6, ElsewhereTracking DEF SetAddress, Tracking, AtRest
<1>7. CASE StartDhcp
  BY <1>7, ElsewhereTracking DEF StartDhcp, RunDhcp, Tracking, AtRest
<1>8. CASE Forward
  BY <1>8, ElsewhereTracking DEF Forward, Tracking, AtRest
<1>9. ASSUME NEW b \in Bands, StopAp(b) PROVE Tracking'
  BY <1>9 DEF StopAp, Tracking, HostapdTracked, Claimed, Stopped, AtRest
<1>10. CASE StopHostapd
  BY <1>10 DEF StopHostapd, Tracking, HostapdTracked, Claimed, Stopped, AtRest
<1>11. CASE ClearAddress
  BY <1>11, ElsewhereTracking DEF ClearAddress, Tracking, AtRest
<1>12. CASE Forget
  <2>1. aps' = aps \ {band} /\ at' \in {"idle", "next"}
        /\ UNCHANGED <<band, hostapds, left>>
    BY <1>12 DEF Forget, RunDhcp, Next1
  <2>3. AtRest'
    BY <1>12 DEF Forget, RunDhcp, Next1, Tracking, AtRest
  <2>2. band \notin hostapds
    BY <1>12 DEF Forget, Tracking, Stopped
  <2> QED
    BY <2>1, <2>2, <2>3 DEF Tracking, HostapdTracked, Claimed, Stopped, AtRest
<1>13. ASSUME NEW l, StopAll(l) PROVE Tracking'
  BY <1>13, ElsewhereTracking DEF StopAll, Tracking, AtRest
<1>14. CASE StopNext
  BY <1>14 DEF StopNext, Tracking, HostapdTracked, Claimed, Stopped, AtRest
<1>15. CASE CommandFails
  BY <1>15, ElsewhereTracking DEF CommandFails, Tracking, AtRest
<1>16. CASE UNCHANGED vars
  BY <1>16 DEF vars, Tracking, HostapdTracked, Claimed, Stopped, AtRest
<1> QED
  BY <1>1, <1>2, <1>3, <1>4, <1>5, <1>6, <1>7, <1>8, <1>9, <1>10, <1>11, <1>12,
     <1>13, <1>14, <1>15, <1>16 DEF Next

(* Every hostapd this object started is in the table, by which stop_ap and *)
(* close find it, whatever fails in between (access_point.py, start_ap and *)
(* stop_ap).                                                               *)
THEOREM HostapdTrackedAlways == Spec => []HostapdTracked
<1>1. Tracking => HostapdTracked
  BY DEF Tracking
<1> QED
  BY InitTracking, NextTracking, <1>1, PTL DEF Spec

-----------------------------------------------------------------------------
(* What is served, and what close() leaves.                                *)

(* The places of start_ap from Claim on, and those of stop_ap.             *)
Starting == {"refresh", "start hostapd", "address", "start dhcp", "forward"}
Stopping == {"stop hostapd", "stop dhcp", "clear", "forget"}

Subnets == Bands \X {"main", "bss"}

ApType ==
  /\ at \in {"idle", "mac", "next"} \union Starting \union Stopping
  /\ aps \in SUBSET Bands /\ todo \in SUBSET Bands /\ hostapds \in SUBSET Bands
  /\ band \in Bands \union {NoBand} /\ dhcp \in Bands \union {NoBand}
  /\ dhcpds \in [Bands -> SUBSET Subnets]
  /\ bss \in BOOLEAN /\ failed \in BOOLEAN /\ closed \in BOOLEAN

(* Whose band the thread works at; the loop's list is what the table will  *)
(* be when the current access point is gone.                               *)
UnderWay ==
  /\ at \in Starting \union Stopping => band \in aps
  /\ at \in Starting \union {"mac"} => dhcp = band /\ band \in Bands /\ loop = "no"
  /\ aps # {} => dhcp \in Bands
  /\ at = "next" => loop # "no" /\ todo = aps
  /\ at \in Stopping /\ loop # "no" => todo = aps \ {band}

(* Until an operation raises, an entry misses its hostapd, its address or  *)
(* its subnet only at the places where its own start or stop passes.       *)
HostapdUp ==
  \A b \in aps : b \in hostapds \/
    (b = band /\ at \in {"refresh", "start hostapd", "stop dhcp", "clear", "forget"})
AddressUp ==
  /\ \A b \in aps : b \in addressed \/
       (b = band /\ at \in {"refresh", "start hostapd", "address", "forget"})
  /\ at = "forget" => band \notin addressed
SubnetUp ==
  at \in {"idle", "mac", "next", "forward"} =>
    \A b \in aps : \E d \in Bands : <<b, "main">> \in dhcpds[d]

(* A dhcpd that runs is self._dhcp's or was replaced there; with an empty  *)
(* table it is the latter.                                                 *)
Named == \A b \in Bands : dhcpds[b] # {} => b \in replaced \/ b = dhcp
Quiet ==
  at \in {"idle", "next"} /\ aps = {} =>
    \A b \in Bands : dhcpds[b] # {} => b \in replaced

Up == ~failed => HostapdUp /\ AddressUp /\ SubnetUp /\ Quiet

Serving == ApType /\ UnderWay /\ Up /\ Named /\ CloseStopsAps

LEMMA InitServing == Init => Serving
<1> SUFFICES ASSUME Init PROVE Serving
  OBVIOUS
<1>1. Alive(dhcpds) = {}
  BY DEF Init, Alive
<1>2. ApType /\ UnderWay /\ Up /\ Named
  BY DEF Init, ApType, UnderWay, Up, HostapdUp, AddressUp, SubnetUp, Named, Quiet, Starting, Stopping
<1>3. CloseStopsAps
  BY <1>1 DEF Init, CloseStopsAps
<1> QED
  BY <1>2, <1>3 DEF Serving

(* The end of an operation that raised.                                    *)
LEMMA FailServing ==
  ASSUME Serving, at' = "idle", failed' = TRUE, closed' \in BOOLEAN,
         dhcpds' \in [Bands -> SUBSET Subnets],
         \A b \in Bands : b # dhcp => dhcpds'[b] = dhcpds[b],
         aps' \in SUBSET aps, hostapds' \in SUBSET Bands,
         UNCHANGED <<call, dhcp, replaced>>
  PROVE  Serving'
BY DEF Serving, ApType, UnderWay, Up, Named, CloseStopsAps, Starting, Stopping, call

(* What RunDhcp does, when an interface belongs to the subnets, when none  *)
(* does, and when it raises.                                               *)
LEMMA RunDhcpCases ==
  ASSUME Serving, NEW subnets \in SUBSET Subnets, NEW next, NEW none,
         dhcp \in Bands, RunDhcp(subnets, next, none)
  PROVE  /\ dhcpds' \in [Bands -> SUBSET Subnets]
         /\ \A b \in Bands : b # dhcp => dhcpds'[b] = dhcpds[b]
         /\ \/ /\ \E s \in subnets : s[1] \in addressed
               /\ dhcpds'[dhcp] = subnets /\ at' = next /\ UNCHANGED <<failed, closed>>
            \/ /\ \A s \in subnets : s[1] \notin addressed
               /\ dhcpds'[dhcp] = {} /\ at' = none /\ UNCHANGED <<failed, closed>>
            \/ at' = "idle" /\ failed' = TRUE /\ closed' \in BOOLEAN
<1>1. dhcpds \in [Bands -> SUBSET Subnets]
  BY DEF Serving, ApType
<1> QED
  BY <1>1 DEF RunDhcp

LEMMA NextServing == Tracking /\ Serving /\ [Next]_vars => Serving'
<1> SUFFICES ASSUME Tracking, Serving, [Next]_vars PROVE Serving'
  OBVIOUS
<1> USE BandsAssumption DEF call, daemons
<1>0. /\ at \in {"idle", "mac", "next"} \union Starting \union Stopping
      /\ dhcpds \in [Bands -> SUBSET Subnets] /\ closed \in BOOLEAN
      /\ at # "idle" => closed = FALSE
  BY DEF Serving, ApType, Tracking, AtRest
<1>1. CASE Create
  <2>1. dhcpds' \in [Bands -> SUBSET Subnets]
    BY <1>0, <1>1 DEF Create
  <2>2. \A b \in Bands : dhcpds'[b] # {} => b \in replaced'
    BY <1>1 DEF Create, Alive
  <2>3. at = "idle"
    BY <1>0, <1>1 DEF Create
  <2> QED BY <1>1, <2>1, <2>2, <2>3 DEF Create, Serving, ApType, UnderWay, Up, HostapdUp, AddressUp,
                                        SubnetUp, Quiet, Named, CloseStopsAps, Starting, Stopping
<1>2. ASSUME NEW b \in Bands, NEW x \in BOOLEAN, StartAp(b, x) PROVE Serving'
  <2>1. \A d \in Bands : dhcpds[d] # {} => d \in replaced' \/ d = b
    BY <1>2 DEF StartAp, Serving, Named, Alive
  <2> QED BY <1>2, <2>1 DEF StartAp, Serving, ApType, UnderWay, Up, HostapdUp, AddressUp,
                            SubnetUp, Quiet, Named, CloseStopsAps, Starting, Stopping
<1>3. CASE Claim
  BY <1>0, <1>3 DEF Claim, Serving, ApType, UnderWay, Up, HostapdUp, AddressUp,
                    SubnetUp, Quiet, Named, CloseStopsAps, Starting, Stopping
<1>4. CASE StopDhcp
  <2>1. dhcpds' \in [Bands -> SUBSET Subnets]
        /\ \A b \in Bands : dhcpds'[b] # {} => dhcpds[b] # {}
    BY <1>0, <1>4 DEF StopDhcp
  <2> QED BY <1>0, <1>4, <2>1 DEF StopDhcp, Serving, ApType, UnderWay, Up, HostapdUp, AddressUp,
                    SubnetUp, Quiet, Named, CloseStopsAps, Starting, Stopping
<1>5. CASE StartHostapd
  BY <1>0, <1>5 DEF StartHostapd, Serving, ApType, UnderWay, Up, HostapdUp, AddressUp,
                    SubnetUp, Quiet, Named, CloseStopsAps, Starting, Stopping
<1>6. CASE SetAddress
  BY <1>0, <1>6 DEF SetAddress, Serving, ApType, UnderWay, Up, HostapdUp, AddressUp,
                    SubnetUp, Quiet, Named, CloseStopsAps, Starting, Stopping
<1>7. CASE StartDhcp
  <2> DEFINE subnets == Main(aps) \union (IF bss THEN {<<band, "bss">>} ELSE {})
  <2>1. at = "start dhcp" /\ band \in aps /\ dhcp = band /\ dhcp \in Bands /\ aps \in SUBSET Bands
        /\ UNCHANGED <<call, aps, dhcp, hostapds, addressed, left, replaced>>
        /\ RunDhcp(subnets, "forward", "idle")
    BY <1>7 DEF StartDhcp, Serving, UnderWay, ApType, Starting
  <2>2. subnets \in SUBSET Subnets /\ \A b \in aps : <<b, "main">> \in subnets
    <3>1. Main(aps) \in SUBSET Subnets /\ \A b \in aps : <<b, "main">> \in Main(aps)
      BY <2>1 DEF Main, Subnets
    <3>2. <<band, "bss">> \in Subnets
      BY <2>1 DEF Subnets
    <3> QED BY <3>1, <3>2
  <2> HIDE DEF subnets
  <2>3. /\ dhcpds' \in [Bands -> SUBSET Subnets]
        /\ \A b \in Bands : b # dhcp => dhcpds'[b] = dhcpds[b]
        /\ \/ /\ \E s \in subnets : s[1] \in addressed
              /\ dhcpds'[dhcp] = subnets /\ at' = "forward" /\ UNCHANGED <<failed, closed>>
           \/ /\ \A s \in subnets : s[1] \notin addressed
              /\ dhcpds'[dhcp] = {} /\ at' = "idle" /\ UNCHANGED <<failed, closed>>
           \/ at' = "idle" /\ failed' = TRUE /\ closed' \in BOOLEAN
    BY <2>1, <2>2, RunDhcpCases
  <2>4. CASE at' = "forward" /\ dhcpds'[dhcp] = subnets /\ UNCHANGED <<failed, closed>>
    BY <1>0, <2>1, <2>2, <2>3, <2>4 DEF Serving, ApType, UnderWay, Up, HostapdUp, AddressUp,
                    SubnetUp, Quiet, Named, CloseStopsAps, Starting, Stopping
  <2>5. CASE /\ \A s \in subnets : s[1] \notin addressed
             /\ dhcpds'[dhcp] = {} /\ at' = "idle" /\ UNCHANGED <<failed, closed>>
    <3>1. band \notin addressed
      BY <2>1, <2>2, <2>5
    <3>2. failed
      BY <2>1, <3>1 DEF Serving, ApType, Up, AddressUp
    <3> QED BY <1>0, <2>1, <2>3, <2>5, <3>2 DEF Serving, ApType, UnderWay, Up, Named, CloseStopsAps,
                    Starting, Stopping
  <2>6. CASE at' = "idle" /\ failed' = TRUE /\ closed' \in BOOLEAN
    BY <2>1, <2>3, <2>6, FailServing DEF Serving, ApType
  <2> QED BY <2>3, <2>4, <2>5, <2>6
<1>8. CASE Forward
  BY <1>0, <1>8 DEF Forward, Serving, ApType, UnderWay, Up, HostapdUp, AddressUp,
                    SubnetUp, Quiet, Named, CloseStopsAps, Starting, Stopping
<1>9. ASSUME NEW b \in Bands, StopAp(b) PROVE Serving'
  BY <1>0, <1>9 DEF StopAp, Serving, ApType, UnderWay, Up, HostapdUp, AddressUp,
                    SubnetUp, Quiet, Named, CloseStopsAps, Starting, Stopping
<1>10. CASE StopHostapd
  BY <1>0, <1>10 DEF StopHostapd, Serving, ApType, UnderWay, Up, HostapdUp, AddressUp,
                    SubnetUp, Quiet, Named, CloseStopsAps, Starting, Stopping
<1>11. CASE ClearAddress
  BY <1>0, <1>11 DEF ClearAddress, Serving, ApType, UnderWay, Up, HostapdUp, AddressUp,
                    SubnetUp, Quiet, Named, CloseStopsAps, Starting, Stopping
<1>12. CASE Forget
  <2>1. at = "forget" /\ band \in aps /\ dhcp \in Bands /\ aps \in SUBSET Bands /\ closed = FALSE
        /\ aps' = aps \ {band} /\ UNCHANGED <<call, dhcp, hostapds, addressed, left, replaced>>
        /\ RunDhcp(Main(aps), Next1, Next1)
    BY <1>0, <1>12 DEF Forget, Serving, UnderWay, ApType, Stopping
  <2>2. Main(aps) \in SUBSET Subnets /\ \A b \in aps : <<b, "main">> \in Main(aps)
    BY <2>1 DEF Main, Subnets
  <2>3. /\ dhcpds' \in [Bands -> SUBSET Subnets]
        /\ \A b \in Bands : b # dhcp => dhcpds'[b] = dhcpds[b]
        /\ \/ /\ \E s \in Main(aps) : s[1] \in addressed
              /\ dhcpds'[dhcp] = Main(aps) /\ at' = Next1 /\ UNCHANGED <<failed, closed>>
           \/ /\ \A s \in Main(aps) : s[1] \notin addressed
              /\ dhcpds'[dhcp] = {} /\ at' = Next1 /\ UNCHANGED <<failed, closed>>
           \/ at' = "idle" /\ failed' = TRUE /\ closed' \in BOOLEAN
    BY <2>1, <2>2, RunDhcpCases
  <2>4. CASE at' = "idle" /\ failed' = TRUE /\ closed' \in BOOLEAN
    BY <2>1, <2>3, <2>4, FailServing DEF Serving, ApType
  <2>5. CASE at' = Next1 /\ UNCHANGED <<failed, closed>>
    <3>1. at' \in {"idle", "next"} /\ (at' = "next" => loop # "no")
      BY <2>5 DEF Next1
    <3>2. ApType'
      BY <2>1, <2>3, <2>5, <3>1 DEF Serving, ApType
    <3>3. UnderWay'
      BY <2>1, <3>1 DEF Serving, UnderWay, Starting, Stopping
    <3>4. Named' /\ CloseStopsAps'
      BY <2>1, <2>3, <2>5 DEF Serving, Named, CloseStopsAps
    <3>5. ASSUME ~failed PROVE (HostapdUp /\ AddressUp /\ SubnetUp /\ Quiet)'
      <4>1. HostapdUp /\ AddressUp /\ band \notin addressed
        BY <2>1, <3>5 DEF Serving, Up, AddressUp
      <4>2. (HostapdUp /\ AddressUp)'
        BY <2>1, <3>1, <4>1 DEF HostapdUp, AddressUp
      <4>3. \A b \in aps' : b \in addressed
        BY <2>1, <4>1 DEF AddressUp
      <4>4. CASE dhcpds'[dhcp] = Main(aps) /\ \E s \in Main(aps) : s[1] \in addressed
        <5>1. SubnetUp'
          BY <2>1, <2>2, <4>4 DEF SubnetUp
        <5>2. aps' # {}
          BY <2>1, <4>1, <4>4 DEF Main
        <5> QED BY <4>2, <5>1, <5>2 DEF Quiet
      <4>5. CASE dhcpds'[dhcp] = {} /\ \A s \in Main(aps) : s[1] \notin addressed
        <5>1. \A b \in aps : b \notin addressed
          BY <2>2, <4>5
        <5>2. aps' = {}
          BY <2>1, <4>3, <5>1
        <5>3. \A b \in Bands : dhcpds'[b] # {} => b \in replaced
          BY <2>3, <4>5 DEF Serving, Named
        <5> QED BY <2>1, <4>2, <5>2, <5>3 DEF SubnetUp, Quiet
      <4>6. failed' = failed
        BY <2>5
      <4> QED BY <2>3, <3>5, <4>4, <4>5, <4>6
    <3> QED BY <3>2, <3>3, <3>4, <3>5, <2>5 DEF Serving, Up
  <2> QED BY <2>3, <2>4, <2>5
<1>13. ASSUME NEW l \in {"stop all", "close"}, StopAll(l) PROVE Serving'
  BY <1>0, <1>13 DEF StopAll, Serving, ApType, UnderWay, Up, HostapdUp, AddressUp,
                    SubnetUp, Quiet, Named, CloseStopsAps, Starting, Stopping
<1>14. CASE StopNext
  <2>1. at = "next" /\ loop # "no" /\ todo = aps /\ closed = FALSE
        /\ UNCHANGED <<bss, loop, aps, dhcp, daemons, failed, left, replaced>>
    BY <1>0, <1>14 DEF StopNext, Serving, UnderWay
  <2>2. ASSUME NEW b \in todo, band' = b, todo' = todo \ {b}, at' = "stop hostapd", UNCHANGED closed
        PROVE  Serving'
    BY <2>1, <2>2 DEF Serving, ApType, UnderWay, Up, HostapdUp, AddressUp,
                      SubnetUp, Quiet, Named, CloseStopsAps, Starting, Stopping
  <2>3. CASE todo = {} /\ at' = "idle" /\ closed' = (loop = "close") /\ UNCHANGED <<band, todo>>
    <3>1. ApType' /\ UnderWay' /\ Up' /\ Named'
      BY <2>1, <2>3 DEF Serving, ApType, UnderWay, Up, HostapdUp, AddressUp,
                      SubnetUp, Quiet, Named, Starting, Stopping
    <3>2. CloseStopsAps'
      BY <2>1, <2>3 DEF Serving, Up, Quiet, Tracking, HostapdTracked, CloseStopsAps, Alive
    <3> QED BY <3>1, <3>2 DEF Serving
  <2> QED BY <1>14, <2>2, <2>3 DEF StopNext
<1>15. CASE CommandFails
  BY <1>15, FailServing DEF CommandFails, Serving, ApType
<1>16. CASE UNCHANGED vars
  BY <1>16 DEF vars, Serving, ApType, UnderWay, Up, HostapdUp, AddressUp,
                    SubnetUp, Quiet, Named, CloseStopsAps, Alive
<1> QED
  BY <1>1, <1>2, <1>3, <1>4, <1>5, <1>6, <1>7, <1>8, <1>9, <1>10, <1>11, <1>12,
     <1>13, <1>14, <1>15, <1>16 DEF Next

(* As long as no operation has raised, between operations every entry has  *)
(* its hostapd and its subnet a dhcpd, for any number of bands: though     *)
(* every start and stop takes the one dhcpd down, stop_ap brings it back   *)
(* whenever an access point with an address is left.                       *)
THEOREM Serves == Spec => []ServedWhileSound
<1>1. ApType /\ Up => ServedWhileSound
  <2> SUFFICES ASSUME ApType, Up, at = "idle", ~closed, ~failed
               PROVE  aps \subseteq hostapds /\ Main(aps) \subseteq Served
    BY DEF ServedWhileSound
  <2>1. aps \subseteq hostapds
    BY DEF Up, HostapdUp
  <2>2. \A b \in aps : <<b, "main">> \in Served
    BY DEF Up, SubnetUp, Served
  <2> QED BY <2>1, <2>2 DEF Main
<1> QED
  BY <1>1, InitTracking, InitServing, NextTracking, NextServing, PTL DEF Spec, Serving

(* What close() keeps of its promise when no operation raised, for any     *)
(* number of bands: only dhcpds that a later start_ap replaced are left.   *)
THEOREM Closes == Spec => []CloseStopsAps
<1>1. Serving => CloseStopsAps
  BY DEF Serving
<1> QED
  BY <1>1, InitTracking, InitServing, NextTracking, NextServing, PTL DEF Spec
CoexType ==
  /\ at \in {"idle", "body", "serve", "act", "teardown"}
  /\ test \in Nat /\ test <= MaxTests /\ streams \in {1, 2}
  /\ listed \in Seq({1, 2}) /\ flagged \in BOOLEAN /\ received \subseteq C!Ids
  /\ servers \in [{1, 2} -> {"none", "up", "ended", "signalled", "killed"}]
  /\ clients \in [C!Ids -> {"none", "runs", "good", "bad", "raised"}]
  /\ verdict \in {"none", "pass", "fail"} /\ skipped \subseteq 1..test

(* A verdict stands from teardown_result to the next test, in which no     *)
(* teardown_test has returned yet; before run_iperf starts them the test   *)
(* has no clients.                                                         *)
CoexPlaces ==
  /\ at # "idle" => test >= 1 /\ test \notin skipped
  /\ verdict # "none" => test >= 1 /\ at \in {"teardown", "idle"}
  /\ \A i \in C!Ids : i[1] > test \/ (i[1] = test /\ at = "body") => clients[i] = "none"
  /\ at = "act" => \A i \in C!Own : clients[i] # "none"

(* A client that runs is the test's own or that of a test cut short, and   *)
(* between tests it is the latter.                                         *)
CoexRunning ==
  /\ \A i \in C!Ids : clients[i] = "runs" => i \in C!Own \union C!Late
  /\ at = "idle" => \A i \in C!Ids : clients[i] = "runs" => i[1] \in skipped
  /\ received \subseteq C!Own \union C!Late
  /\ \A i \in received : clients[i] # "none"

(* From the new list on, the flag is up if an own client failed, and only  *)
(* if one of those did; after the verdict nobody writes it.                *)
Flagged ==
  /\ at \in {"serve", "act"} \/ verdict # "none" =>
       /\ flagged => \E i \in (C!Own \union C!Late) \intersect C!Ids : clients[i] = "bad"
       /\ \A i \in C!Own : clients[i] = "bad" => flagged
  /\ verdict # "none" =>
       /\ C!Joined /\ \A i \in C!Own : clients[i] # "none"
       /\ verdict = "fail" <=> flagged

(* Only teardown signals a server, and none is signalled before.           *)
Spared ==
  \A n \in DOMAIN listed :
    servers[listed[n]] = "up" => \E m \in 1..(n - 1) : servers[listed[m]] = "ended"
ServersStopped ==
  /\ at \in {"serve", "act"} => \A p \in {1, 2} : servers[p] \in {"none", "up", "ended"}
  /\ verdict # "none" => Spared

Counting == CoexType /\ CoexPlaces /\ CoexRunning /\ Flagged /\ ServersStopped

-----------------------------------------------------------------------------
LEMMA OwnInIds == ASSUME CoexType, test >= 1 PROVE C!Own \subseteq C!Ids
BY DEF CoexType, C!Own, C!Ids

LEMMA InitCounting == ASSUME MaxTests \in Nat, C!Init PROVE Counting
<1> USE DEF C!Init
<1>1. CoexType
  <2>1. listed \in Seq({1, 2})
    OBVIOUS
  <2>2. servers \in [{1, 2} -> {"none", "up", "ended", "signalled", "killed"}]
    OBVIOUS
  <2>3. clients \in [C!Ids -> {"none", "runs", "good", "bad", "raised"}]
    OBVIOUS
  <2>4. received \subseteq C!Ids /\ skipped \subseteq 1..test /\ flagged \in BOOLEAN
    OBVIOUS
  <2>5. test \in Nat /\ test <= MaxTests /\ streams \in {1, 2}
    OBVIOUS
  <2> QED BY <2>1, <2>2, <2>3, <2>4, <2>5 DEF CoexType
<1>2. CoexPlaces /\ CoexRunning
  BY DEF CoexPlaces, CoexRunning, C!Own, C!Late
<1>3. Flagged /\ ServersStopped
  BY DEF Flagged, ServersStopped
<1> QED BY <1>1, <1>2, <1>3 DEF Counting

LEMMA ServerEndsCounting ==
  ASSUME Counting, NEW p \in {1, 2}, C!ServerEnds(p) PROVE Counting'
<1> USE DEF Counting, C!ServerEnds
<1>1. CoexType'
  BY DEF CoexType, C!Ids
<1>2. CoexPlaces' /\ CoexRunning' /\ Flagged'
  BY DEF CoexPlaces, CoexRunning, Flagged, C!Own, C!Late, C!Joined
<1>3. ServersStopped'
  <2>1. at \in {"serve", "act"} => \A q \in {1, 2} : servers'[q] \in {"none", "up", "ended"}
    BY DEF ServersStopped, CoexType
  <2>2. ASSUME Spared PROVE Spared'
    <3> SUFFICES ASSUME NEW n \in DOMAIN listed, servers'[listed[n]] = "up"
                 PROVE  \E m \in 1..(n - 1) : servers'[listed[m]] = "ended"
      BY DEF Spared
    <3>1. servers[listed[n]] = "up"
      BY DEF CoexType
    <3>2. PICK m \in 1..(n - 1) : servers[listed[m]] = "ended"
      BY <2>2, <3>1 DEF Spared
    <3>3. listed[m] \in {1, 2} /\ servers'[listed[m]] = "ended"
      BY <3>2 DEF CoexType
    <3> QED BY <3>3
  <2> QED BY <2>1, <2>2 DEF ServersStopped
<1> QED BY <1>1, <1>2, <1>3

LEMMA ClientEndsCounting ==
  ASSUME Counting, NEW i \in C!Ids, NEW how \in {"good", "bad", "raised"},
         C!ClientEnds(i, how)
  PROVE  Counting'
<1> USE DEF Counting, C!ClientEnds
<1>1. CoexType'
  BY DEF CoexType
<1>2. clients[i] = "runs" /\ clients'[i] = how
      /\ \A j \in C!Ids \ {i} : clients'[j] = clients[j]
  BY DEF CoexType
<1>3. i \in C!Own \union C!Late
  BY <1>2 DEF CoexRunning
<1>4. verdict = "none"
  BY <1>2 DEF Flagged, C!Joined
<1>5. C!Own' = C!Own /\ C!Late' = C!Late /\ (test >= 1 => C!Own \subseteq C!Ids)
  BY OwnInIds DEF C!Own, C!Late
<1>6. CoexPlaces'
  BY <1>2, <1>4, <1>5 DEF CoexPlaces
<1>7. CoexRunning'
  BY <1>2, <1>3, <1>5 DEF CoexRunning
<1>8. Flagged'
  <2> SUFFICES ASSUME at \in {"serve", "act"}
      PROVE /\ flagged' => \E j \in (C!Own \union C!Late) \intersect C!Ids : clients'[j] = "bad"
            /\ \A j \in C!Own : clients'[j] = "bad" => flagged'
    BY <1>4, <1>5 DEF Flagged
  <2>1. C!Own \subseteq C!Ids
    BY <1>5 DEF CoexPlaces
  <2>2. CASE how = "bad"
    BY <2>2, <1>2, <1>3
  <2>3. CASE how # "bad"
    BY <2>1, <2>3, <1>2 DEF Flagged, CoexType
  <2> QED BY <2>2, <2>3
<1>9. ServersStopped'
  BY <1>4 DEF ServersStopped
<1> QED BY <1>1, <1>6, <1>7, <1>8, <1>9

LEMMA SetupTestCounting ==
  ASSUME MaxTests \in Nat, Counting, C!SetupTest PROVE Counting'
<1> USE DEF Counting, C!SetupTest
<1>1. CoexType'
  BY DEF CoexType
<1>2. CoexPlaces'
  BY DEF CoexPlaces, CoexType, C!Ids
<1>3. CoexRunning'
  <2>1. \A i \in C!Ids : clients[i] = "runs" => i \in C!Late'
    BY DEF CoexRunning, C!Late, CoexType
  <2> QED BY <2>1 DEF CoexRunning
<1>4. Flagged' /\ ServersStopped'
  BY DEF Flagged, ServersStopped
<1> QED BY <1>1, <1>2, <1>3, <1>4

LEMMA RunIperfCounting == ASSUME Counting, C!RunIperf PROVE Counting'
<1> USE DEF Counting, C!RunIperf
<1>1. CoexType'
  <2>1. listed' \in Seq({1, 2})
    OBVIOUS
  <2>2. servers' \in [{1, 2} -> {"none", "up", "ended", "signalled", "killed"}]
    OBVIOUS
  <2> QED BY <2>1, <2>2 DEF CoexType
<1>2. CoexPlaces'
  BY DEF CoexPlaces, CoexType
<1>3. \A i \in C!Own \union C!Own' : i[1] = test /\ (i \in C!Ids => clients[i] = "none")
  BY DEF C!Own, CoexPlaces, CoexType
<1>4. CoexRunning'
  <2>1. C!Late' = C!Late
    BY DEF C!Late
  <2>2. \A i \in C!Ids : clients[i] = "runs" => i \in C!Late
    BY <1>3 DEF CoexRunning
  <2>3. received \subseteq C!Late
    BY <1>3 DEF CoexRunning, CoexType
  <2> QED BY <2>1, <2>2, <2>3 DEF CoexRunning
<1>5. Flagged'
  <2>1. C!Own' \subseteq C!Ids
    BY DEF C!Own, C!Ids, CoexType, CoexPlaces
  <2> QED BY <1>3, <2>1 DEF Flagged, CoexPlaces
<1>6. ServersStopped'
  BY DEF ServersStopped, CoexPlaces
<1> QED BY <1>1, <1>2, <1>4, <1>5, <1>6

LEMMA StartServerCounting == ASSUME Counting, C!StartServer PROVE Counting'
<1> USE DEF Counting, C!StartServer
<1>1. CoexType'
  BY DEF CoexType
<1>2. C!Own' = C!Own /\ C!Late' = C!Late /\ verdict = "none"
  BY DEF C!Own, C!Late, CoexPlaces
<1>3. CoexPlaces' /\ CoexRunning' /\ Flagged'
  BY <1>2 DEF CoexPlaces, CoexRunning, Flagged
<1>4. ServersStopped'
  BY <1>2 DEF ServersStopped, CoexType
<1> QED BY <1>1, <1>3, <1>4

LEMMA RunThreadCounting == ASSUME Counting, C!RunThread PROVE Counting'
<1> USE DEF Counting
<1>1. PICK i \in C!Own :
        /\ clients[i] = "none" /\ \A j \in C!Own : clients[j] = "none" => i[2] <= j[2]
        /\ clients' = [clients EXCEPT ![i] = "runs"]
        /\ at' = IF i[2] = streams THEN "act" ELSE at
  BY DEF C!RunThread
<1>2. /\ at = "serve" /\ UNCHANGED <<test, streams, listed, flagged, received, servers,
                                    verdict, skipped>>
      /\ at' \in {"serve", "act"}
  BY <1>1 DEF C!RunThread
<1>3. /\ test >= 1 /\ verdict = "none" /\ C!Own \subseteq C!Ids
      /\ C!Own' = C!Own /\ C!Late' = C!Late
  BY <1>2, OwnInIds DEF CoexPlaces, C!Own, C!Late
<1>4. /\ clients'[i] = "runs" /\ i \in C!Ids
      /\ \A j \in C!Ids \ {i} : clients'[j] = clients[j]
  BY <1>1, <1>3 DEF CoexType
<1>5. CoexType'
  BY <1>1, <1>2, <1>3 DEF CoexType
<1>6. CoexPlaces'
  <2>1. ASSUME at' = "act", NEW j \in C!Own PROVE clients'[j] # "none"
    <3>1. i[2] = streams
      BY <1>1, <1>2, <2>1
    <3>2. CASE j = i
      BY <3>2, <1>4
    <3>3. CASE j # i
      <4>1. PICK s \in 1..streams : j = <<test, s>>
        BY DEF C!Own
      <4>2. PICK t \in 1..streams : i = <<test, t>>
        BY DEF C!Own
      <4>3. s # t /\ t = streams /\ streams \in Nat
        BY <4>1, <4>2, <3>1, <3>3 DEF CoexType
      <4>4. ~ (i[2] <= j[2])
        BY <4>1, <4>2, <4>3
      <4> QED BY <4>4, <3>3, <2>1, <1>1, <1>3, <1>4
    <3> QED BY <3>2, <3>3
  <2>2. i[1] = test
    BY <1>1 DEF C!Own
  <2>3. \A j \in C!Ids : j[1] > test => clients'[j] = "none"
    BY <2>2, <1>4 DEF CoexPlaces, CoexType
  <2> QED BY <2>1, <2>3, <1>2, <1>3 DEF CoexPlaces
<1>7. CoexRunning'
  BY <1>1, <1>2, <1>3, <1>4 DEF CoexRunning, CoexType
<1>8. Flagged'
  BY <1>1, <1>2, <1>3, <1>4 DEF Flagged
<1>9. ServersStopped'
  BY <1>2, <1>3 DEF ServersStopped
<1> QED BY <1>5, <1>6, <1>7, <1>8, <1>9

LEMMA BailCounting == ASSUME Counting, C!Bail PROVE Counting'
<1> USE DEF Counting, C!Bail
<1>1. CoexType'
  BY DEF CoexType
<1>2. C!Own' = C!Own /\ C!Late' = C!Late /\ verdict = "none"
  BY DEF C!Own, C!Late, CoexPlaces
<1> QED BY <1>1, <1>2 DEF CoexPlaces, CoexRunning, Flagged, ServersStopped

(* stop_iperf_server_on_shell leaves a server up only behind one that has  *)
(* ended: the first that has is where its try ends.                        *)
LEMMA StopServersSpares ==
  ASSUME CoexType, C!StopServers, UNCHANGED listed,
         Spared \/ \A p \in {1, 2} : servers[p] # "killed"
  PROVE  Spared'
<1> DEFINE gone == {n \in DOMAIN listed : servers[listed[n]] \in {"ended", "killed"}}
           stopped == {listed[n] : n \in {m \in DOMAIN listed : \A g \in gone : m < g}}
<1>1. servers' = [p \in {1, 2} |-> IF p \in stopped THEN "signalled" ELSE servers[p]]
  BY DEF C!StopServers
<1>2. DOMAIN listed \subseteq Nat /\ \A n \in DOMAIN listed : listed[n] \in {1, 2}
  BY DEF CoexType
<1>3. ASSUME NEW g \in gone PROVE listed[g] \notin stopped
  BY <1>2
<1>4. ASSUME NEW m \in DOMAIN listed, servers[listed[m]] = "ended"
      PROVE  servers'[listed[m]] = "ended"
  BY <1>1, <1>2, <1>3, <1>4
<1> SUFFICES ASSUME NEW n \in DOMAIN listed, servers'[listed[n]] = "up"
             PROVE  \E m \in 1..(n - 1) : servers'[listed[m]] = "ended"
  BY DEF Spared
<1>5. servers[listed[n]] = "up" /\ listed[n] \notin stopped
  BY <1>1, <1>2
<1>6. \E m \in 1..(n - 1) : servers[listed[m]] = "ended"
  <2>1. CASE Spared
    BY <2>1, <1>5 DEF Spared
  <2>2. CASE \A p \in {1, 2} : servers[p] # "killed"
    <3>1. PICK g \in gone : ~ (n < g)
      BY <1>5
    <3>2. servers[listed[g]] = "ended" /\ g # n
      BY <3>1, <2>2, <1>2, <1>5
    <3>3. g \in 1..(n - 1)
      BY <3>1, <3>2 DEF CoexType
    <3> QED BY <3>2, <3>3
  <2> QED BY <2>1, <2>2
<1>7. \A m \in 1..(n - 1) : m \in DOMAIN listed
  BY DEF CoexType
<1> QED BY <1>4, <1>6, <1>7

LEMMA StopServersTyped ==
  ASSUME CoexType, C!StopServers
  PROVE  servers' \in [{1, 2} -> {"none", "up", "ended", "signalled", "killed"}]
BY DEF CoexType, C!StopServers

LEMMA TeardownResultCounting == ASSUME Counting, C!TeardownResult PROVE Counting'
<1> USE DEF Counting, C!TeardownResult
<1>1. CoexType'
  BY StopServersTyped DEF CoexType
<1>2. /\ C!Own' = C!Own /\ C!Late' = C!Late /\ C!Joined' /\ test >= 1
      /\ \A i \in C!Own : clients[i] # "none"
  BY DEF C!Own, C!Late, C!Joined, CoexPlaces
<1>3. CoexPlaces' /\ CoexRunning'
  BY <1>2 DEF CoexPlaces, CoexRunning
<1>4. Flagged'
  BY <1>2 DEF Flagged, CoexType
<1>5. ServersStopped'
  BY StopServersSpares DEF ServersStopped
<1> QED BY <1>1, <1>3, <1>4, <1>5

LEMMA TeardownTestCounting == ASSUME Counting, C!TeardownTest PROVE Counting'
<1> USE DEF Counting
<1>1. /\ at = "teardown" /\ at' = "idle"
      /\ UNCHANGED <<test, streams, listed, flagged, received, clients, verdict>>
  BY DEF C!TeardownTest
<1>2. \/ C!Joined /\ C!StopServers /\ UNCHANGED skipped
      \/ skipped' = skipped \union {test} /\ UNCHANGED servers
  BY DEF C!TeardownTest
<1>3. test >= 1 /\ C!Own' = C!Own /\ C!Late' = C!Late /\ C!Joined' = C!Joined
  BY <1>1, <1>2 DEF CoexPlaces, C!Own, C!Late, C!Joined
<1>4. CoexType'
  <2>1. skipped' \subseteq 1..test
    <3>1. test \in 1..test /\ skipped \subseteq 1..test
      BY <1>3 DEF CoexType
    <3> QED BY <3>1, <1>2
  <2>2. servers' \in [{1, 2} -> {"none", "up", "ended", "signalled", "killed"}]
    BY <1>2, StopServersTyped DEF CoexType
  <2> QED BY <2>1, <2>2, <1>1 DEF CoexType
<1>5. CoexPlaces'
  BY <1>1, <1>3 DEF CoexPlaces
<1>6. CoexRunning'
  <2>1. ASSUME NEW i \in C!Ids, clients[i] = "runs" PROVE i[1] \in skipped'
    <3>1. skipped' = skipped \union {test} /\ i \in C!Own \union C!Late
      BY <2>1, <1>2 DEF C!Joined, CoexRunning
    <3> QED BY <3>1 DEF C!Own, C!Late
  <2> QED BY <2>1, <1>1, <1>3 DEF CoexRunning
<1>7. Flagged'
  BY <1>1, <1>3 DEF Flagged
<1>8. ServersStopped'
  <2>1. ASSUME verdict # "none" PROVE Spared'
    <3>1. Spared
      BY <2>1 DEF ServersStopped
    <3>2. CASE UNCHANGED servers
      BY <3>1, <3>2, <1>1 DEF Spared
    <3>3. CASE C!StopServers
      BY <3>1, <3>3, <1>1, StopServersSpares
    <3> QED BY <3>2, <3>3, <1>2
  <2> QED BY <2>1, <1>1 DEF ServersStopped
<1> QED BY <1>4, <1>5, <1>6, <1>7, <1>8

LEMMA NextClassCounting ==
  ASSUME MaxTests \in Nat, Counting, C!NextClass PROVE Counting'
<1> USE DEF C!NextClass
<1>1. CoexType'
  <2>1. /\ listed' \in Seq({1, 2})
        /\ servers' \in [{1, 2} -> {"none", "up", "ended", "signalled", "killed"}]
    OBVIOUS
  <2>2. clients' \in [C!Ids' -> {"none", "runs", "good", "bad", "raised"}]
    BY DEF C!Ids
  <2>3. /\ received' \subseteq C!Ids' /\ skipped' \subseteq 1..test'
        /\ test' \in Nat /\ test' <= MaxTests /\ streams' \in {1, 2}
    OBVIOUS
  <2> QED BY <2>1, <2>2, <2>3 DEF CoexType
<1>2. CoexPlaces' /\ CoexRunning'
  BY DEF CoexPlaces, CoexRunning, C!Own, C!Late, C!Ids
<1>3. Flagged' /\ ServersStopped'
  BY DEF Flagged, ServersStopped
<1> QED BY <1>1, <1>2, <1>3 DEF Counting

LEMMA NextCounting ==
  ASSUME MaxTests \in Nat, Counting, [C!Next]_(C!vars) PROVE Counting'
<1>1. CASE UNCHANGED C!vars
  <2> USE <1>1 DEF C!vars, Counting
  <2>1. CoexType'
    BY DEF CoexType
  <2>2. C!Own' = C!Own /\ C!Late' = C!Late /\ C!Joined' = C!Joined /\ Spared' = Spared
    BY DEF C!Own, C!Late, C!Joined, Spared
  <2> QED BY <2>1, <2>2 DEF CoexPlaces, CoexRunning, Flagged, ServersStopped
<1>2. CASE C!Next
  BY <1>2, SetupTestCounting, RunIperfCounting, StartServerCounting, RunThreadCounting,
     BailCounting, TeardownResultCounting, TeardownTestCounting, NextClassCounting,
     ServerEndsCounting, ClientEndsCounting DEF C!Next
<1> QED BY <1>1, <1>2

LEMMA CountingVerdict == ASSUME Counting PROVE C!VerdictCounts
<1> SUFFICES ASSUME verdict # "none"
             PROVE  /\ \A i \in C!Own : clients[i] \in {"good", "bad", "raised"}
                    /\ verdict = "pass" => \A i \in C!Own : clients[i] # "bad"
                    /\ verdict = "fail" => \E i \in C!Own \union C!Late : clients[i] = "bad"
                    /\ received \subseteq C!Own \union C!Late /\ Spared
  BY DEF C!VerdictCounts, Spared
<1>1. C!Own \subseteq C!Ids
  BY OwnInIds DEF Counting, CoexPlaces
<1>2. \A i \in C!Own : clients[i] \in {"good", "bad", "raised"}
  BY <1>1 DEF Counting, CoexType, Flagged, C!Joined
<1>3. verdict = "pass" => \A i \in C!Own : clients[i] # "bad"
  BY DEF Counting, Flagged
<1>4. verdict = "fail" => \E i \in C!Own \union C!Late : clients[i] = "bad"
  BY DEF Counting, Flagged
<1> QED BY <1>2, <1>3, <1>4 DEF Counting, CoexRunning, ServersStopped

(* Only DriveCoex moves what the coexistence tests are made of while they  *)
(* are driven; nothing else of the test bed is driven in that behaviour.   *)
CoexCounting == driven = "coex" => Counting

LEMMA NextCoex ==
  ASSUME MaxTests \in Nat, CoexCounting, [BedNext]_bed PROVE CoexCounting'
<1> SUFFICES ASSUME driven' = "coex" PROVE Counting'
  BY DEF CoexCounting
<1>1. CASE BedNext
  <2>1. driven = "coex"
    BY <1>1 DEF BedNext
  <2>2. C!Next
    BY <1>1, <2>1 DEF BedNext, DriveAccessPoint, DriveDevices, DriveWifi, DriveCalls,
       DriveBluetooth, DrivePhoneSetup, DriveMessages, DriveCoex, DriveLab
  <2> QED BY <2>1, <2>2, NextCounting DEF CoexCounting
<1>2. CASE UNCHANGED bed
  <2>1. driven = "coex" /\ UNCHANGED C!vars
    BY <1>2 DEF bed, vars, coex, C!vars
  <2> QED BY <2>1, NextCounting DEF CoexCounting
<1> QED BY <1>1, <1>2

(* Whatever the number of tests: what teardown_result says after its joins *)
(* is about the clients of this test (CoexBaseTest.py, teardown_result).   *)
THEOREM VerdictAlwaysCounts ==
  ASSUME MaxTests \in Nat PROVE BedSpec => []VerdictCounts
<1>1. BedInit => CoexCounting
  BY InitCounting DEF BedInit, CoexCounting
<1>2. CoexCounting /\ [BedNext]_bed => CoexCounting'
  BY NextCoex
<1>3. CoexCounting => VerdictCounts
  BY CountingVerdict DEF CoexCounting, VerdictCounts
<1> QED BY <1>1, <1>2, <1>3, PTL DEF BedSpec, bed

-----------------------------------------------------------------------------
(* The devices.  Every operation walks them by their index: create starts  *)
(* those up to ad, destroy has yet to stop those from ad to last.          *)
Tidy(d) == logcat[d] # "up" /\ ~session[d]

DevicesTyped ==
  /\ ad \in {1, 2} /\ last \in {0, 1, 2}
  /\ logcat \in [D!Ads -> {"none", "up", "dead"}] /\ session \in [D!Ads -> BOOLEAN]

StartStages == {"screen", "start logcat", "start sl4a", "started"}
StopStages == {"check", "stop logcat", "terminate", "stop sl4a"}
Stages ==
  /\ doing \in {"out", "held"} => stage = "none"
  /\ doing = "create" => stage \in StartStages
  /\ doing = "destroy" => stage \in StopStages /\ ad <= last

(* What may still run on the host, and where the device that destroy is at *)
(* stands.                                                                 *)
Leftovers ==
  /\ doing = "out" => \A d \in D!Ads : d \in cut \union behind \/ Tidy(d)
  /\ doing = "create" => \A d \in D!Ads : Tidy(d) \/ \E i \in 1 .. ad : TwoDevices[i] = d
  /\ doing = "create" /\ stage = "screen" =>
       \A d \in D!Ads : Tidy(d) \/ \E i \in 1 .. ad - 1 : TwoDevices[i] = d
  /\ doing = "destroy" => \A d \in D!Ads : d \in cut \/ Tidy(d)
                                          \/ \E i \in ad .. last : TwoDevices[i] = d
  /\ doing = "destroy" /\ stage \in {"terminate", "stop sl4a"} => logcat[D!dev] # "up"
  /\ doing = "destroy" /\ stage = "stop sl4a" => ~session[D!dev]

Leaving == DevicesTyped /\ Stages /\ Leftovers

LEMMA TheTwo ==
  /\ DOMAIN TwoDevices = {1, 2} /\ Len(TwoDevices) = 2 /\ D!Ads = {a1, a2}
  /\ TwoDevices[1] = a1 /\ TwoDevices[2] = a2
<1>1. DOMAIN TwoDevices = {1, 2} /\ Len(TwoDevices) = 2 /\ TwoDevices[1] = a1 /\ TwoDevices[2] = a2
  BY DEF TwoDevices
<1> QED BY <1>1 DEF D!Ads

LEMMA InRange == ASSUME NEW i \in {1, 2}, NEW n \in {0, 1, 2}, i <= n PROVE i \in i .. n
OBVIOUS

LEMMA DevIsOne == ASSUME ad \in {1, 2} PROVE D!dev \in D!Ads /\ D!dev = TwoDevices[ad]
BY TheTwo DEF D!dev

LEMMA InitLeaving == D!Init => Leaving
<1> SUFFICES ASSUME D!Init PROVE Leaving
  OBVIOUS
<1> QED BY DEF D!Init, Leaving, DevicesTyped, Stages, Leftovers, Tidy

(* destroy goes on to the next device, or is over.                         *)
LEMMA NextDestroyedLeaving ==
  ASSUME Leaving, doing = "destroy", D!NextDestroyed,
         logcat' \in [D!Ads -> {"none", "up", "dead"}], session' \in [D!Ads -> BOOLEAN],
         \A d \in D!Ads \ {D!dev} : Tidy(d) => logcat'[d] # "up" /\ ~session'[d],
         cut \subseteq cut',
         D!dev \in cut' \/ (logcat'[D!dev] # "up" /\ ~session'[D!dev])
  PROVE  Leaving'
<1>1. D!dev \in D!Ads /\ D!dev = TwoDevices[ad] /\ ad \in {1, 2} /\ last \in {1, 2} /\ ad <= last
  BY DevIsOne DEF Leaving, DevicesTyped, Stages
<1> DEFINE Clean(d) == logcat'[d] # "up" /\ ~session'[d]
<1>2. \A d \in D!Ads : Clean(d) <=> Tidy(d)'
  BY DEF Tidy
<1>3. ASSUME NEW d \in D!Ads
      PROVE  d \in cut' \/ Clean(d) \/ \E i \in ad + 1 .. last : TwoDevices[i] = d
  <2>1. CASE d = D!dev
    BY <2>1
  <2>2. CASE d # D!dev
    <3>1. d \in cut \/ Tidy(d) \/ \E i \in ad .. last : TwoDevices[i] = d
      BY DEF Leaving, Leftovers
    <3>2. CASE d \in cut \/ Tidy(d)
      BY <2>2, <3>2
    <3>3. ASSUME NEW i \in ad .. last, TwoDevices[i] = d
          PROVE  \E k \in ad + 1 .. last : TwoDevices[k] = d
      <4>1. i # ad
        BY <1>1, <2>2, <3>3
      <4>2. i \in ad + 1 .. last
        BY <1>1, <4>1
      <4> QED BY <3>3, <4>2
    <3> QED BY <3>1, <3>2, <3>3
  <2> QED BY <2>1, <2>2
<1>4. CASE ad < last
  <2>1. ad' = ad + 1 /\ stage' = "check" /\ doing' = doing /\ last' = last
    BY <1>4 DEF D!NextDestroyed
  <2>2. ad' \in {1, 2} /\ ad' <= last
    BY <1>1, <1>4, <2>1
  <2>3. DevicesTyped' /\ Stages'
    BY <1>1, <2>1, <2>2 DEF DevicesTyped, Stages, StopStages
  <2>4. \A d \in D!Ads : d \in cut' \/ Tidy(d)' \/ \E i \in ad' .. last' : TwoDevices[i] = d
    BY <1>2, <1>3, <2>1
  <2> QED BY <2>1, <2>3, <2>4 DEF Leaving, Leftovers
<1>5. CASE ~(ad < last)
  <2>1. doing' = "out" /\ stage' = "none" /\ ad' = 1 /\ last' = 0
    BY <1>5 DEF D!NextDestroyed
  <2>2. \A i \in ad + 1 .. last : FALSE
    BY <1>1, <1>5
  <2>3. \A d \in D!Ads : d \in cut' \/ Tidy(d)'
    BY <1>2, <1>3, <2>2
  <2> QED BY <2>1, <2>3 DEF Leaving, DevicesTyped, Stages, Leftovers
<1> QED BY <1>4, <1>5

(* An exception ends the step; what it did is to this device alone.        *)
LEMMA RaiseLeaving ==
  ASSUME Leaving, D!Raise, stage # "none",
         logcat' \in [D!Ads -> {"none", "up", "dead"}], session' \in [D!Ads -> BOOLEAN],
         \A d \in D!Ads \ {D!dev} : Tidy(d) => logcat'[d] # "up" /\ ~session'[d]
  PROVE  Leaving'
<1>1. D!dev \in D!Ads /\ D!dev = TwoDevices[ad] /\ ad \in {1, 2}
  BY DevIsOne DEF Leaving, DevicesTyped
<1>2. CASE doing = "create"
  <2>1. doing' = "destroy" /\ stage' = "check" /\ ad' = 1 /\ last' = ad /\ cut' = cut
    BY <1>2 DEF D!Raise, D!Destroy
  <2>2. ASSUME NEW d \in D!Ads PROVE Tidy(d)' \/ \E i \in 1 .. ad : TwoDevices[i] = d
    <3>1. CASE d = D!dev
      BY <1>1, <3>1
    <3>2. CASE d # D!dev
      <4>1. Tidy(d) \/ \E i \in 1 .. ad : TwoDevices[i] = d
        BY <1>2 DEF Leaving, Leftovers
      <4> QED BY <3>2, <4>1 DEF Tidy
    <3> QED BY <3>1, <3>2
  <2>3. DevicesTyped' /\ Stages'
    <3>1. 1 <= ad /\ ad \in {0, 1, 2}
      BY <1>1
    <3> QED BY <2>1, <3>1 DEF DevicesTyped, Stages, StopStages
  <2>4. \A d \in D!Ads : Tidy(d)' \/ \E i \in ad' .. last' : TwoDevices[i] = d
    BY <2>1, <2>2
  <2> QED BY <2>1, <2>3, <2>4 DEF Leaving, Leftovers
<1>3. CASE doing = "destroy"
  <2>1. D!NextDestroyed /\ cut' = cut \union {D!dev}
    BY <1>3 DEF D!Raise
  <2> QED BY <1>3, <2>1, NextDestroyedLeaving
<1>4. CASE doing \notin {"create", "destroy"}
  <2>1. doing' = "held" /\ stage' = "none" /\ ad' = 1 /\ last' = last
    BY <1>4 DEF D!Raise, D!Return
  <2> QED BY <2>1 DEF Leaving, DevicesTyped, Stages, Leftovers
<1> QED BY <1>2, <1>3, <1>4

(* A step within an operation, at one device.                              *)
LEMMA GotoLeaving ==
  ASSUME Leaving, NEW s, D!Goto(s), cut' = cut, doing = "create" => s # "screen",
         logcat' \in [D!Ads -> {"none", "up", "dead"}], session' \in [D!Ads -> BOOLEAN],
         \A d \in D!Ads \ {D!dev} : Tidy(d) => logcat'[d] # "up" /\ ~session'[d],
         doing \notin {"out", "held"}, doing = "create" => s \in StartStages,
         doing = "destroy" => s \in StopStages,
         doing = "destroy" /\ s \in {"terminate", "stop sl4a"} => logcat'[D!dev] # "up",
         doing = "destroy" /\ s = "stop sl4a" => ~session'[D!dev]
  PROVE  Leaving'
<1>1. D!dev \in D!Ads /\ D!dev = TwoDevices[ad] /\ ad \in {1, 2}
  BY DevIsOne DEF Leaving, DevicesTyped
<1>2. stage' = s /\ doing' = doing /\ ad' = ad /\ last' = last
  BY DEF D!Goto
<1>3. DevicesTyped' /\ Stages'
  BY <1>2 DEF Leaving, DevicesTyped, Stages
<1>4. D!dev' = D!dev
  BY <1>2 DEF D!dev
<1>5. doing = "create" => \A d \in D!Ads : Tidy(d)' \/ \E i \in 1 .. ad : TwoDevices[i] = d
  <2> SUFFICES ASSUME doing = "create", NEW d \in D!Ads
               PROVE  Tidy(d)' \/ \E i \in 1 .. ad : TwoDevices[i] = d
    OBVIOUS
  <2>1. CASE d = D!dev
    <3>1. ad \in 1 .. ad
      BY <1>1
    <3> QED BY <1>1, <2>1, <3>1
  <2>2. CASE d # D!dev
    <3>1. Tidy(d) \/ \E i \in 1 .. ad : TwoDevices[i] = d
      BY DEF Leaving, Leftovers
    <3> QED BY <2>2, <3>1 DEF Tidy
  <2> QED BY <2>1, <2>2
<1>6. doing = "destroy" => \A d \in D!Ads : d \in cut' \/ Tidy(d)'
                                          \/ \E i \in ad .. last : TwoDevices[i] = d
  <2> SUFFICES ASSUME doing = "destroy", NEW d \in D!Ads
               PROVE  d \in cut' \/ Tidy(d)' \/ \E i \in ad .. last : TwoDevices[i] = d
    OBVIOUS
  <2>1. CASE d = D!dev
    <3>1. ad \in ad .. last
      <4>1. ad <= last /\ last \in {0, 1, 2}
        BY DEF Leaving, Stages, DevicesTyped
      <4> QED BY <1>1, <4>1, InRange
    <3> QED BY <1>1, <2>1, <3>1
  <2>2. CASE d # D!dev
    <3>1. d \in cut \/ Tidy(d) \/ \E i \in ad .. last : TwoDevices[i] = d
      BY DEF Leaving, Leftovers
    <3> QED BY <2>2, <3>1 DEF Tidy
  <2> QED BY <2>1, <2>2
<1>7. Leftovers'
  BY <1>2, <1>4, <1>5, <1>6 DEF Leftovers
<1> QED BY <1>3, <1>7 DEF Leaving

LEMMA ReturnLeaving ==
  ASSUME Leaving, D!Return, UNCHANGED <<logcat, session>> PROVE Leaving'
BY DEF D!Return, Leaving, DevicesTyped, Stages, Leftovers

LEMMA NextLeaving == ASSUME Leaving, D!Next PROVE Leaving'
<1>0. /\ D!dev \in D!Ads /\ D!dev = TwoDevices[ad] /\ ad \in {1, 2}
      /\ logcat \in [D!Ads -> {"none", "up", "dead"}] /\ session \in [D!Ads -> BOOLEAN]
      /\ \A d \in D!Ads : Tidy(d) <=> logcat[d] # "up" /\ ~session[d]
  BY DevIsOne DEF Leaving, DevicesTyped, Tidy
<1>1. CASE D!Create
  BY <1>1 DEF D!Create, Leaving, DevicesTyped, Stages, StartStages, Leftovers, Tidy
<1>17. CASE D!ScreenRaises
  <2>1. /\ doing = "create" /\ stage = "screen" /\ doing' = "out" /\ stage' = "none" /\ ad' = 1
        /\ behind' = {TwoDevices[i] : i \in 1 .. ad - 1} /\ UNCHANGED <<last, logcat, session, cut>>
    BY <1>17 DEF D!ScreenRaises, D!services
  <2>2. ASSUME NEW d \in D!Ads PROVE d \in behind' \/ Tidy(d)'
    <3>1. Tidy(d) \/ \E i \in 1 .. ad - 1 : TwoDevices[i] = d
      BY <2>1 DEF Leaving, Leftovers
    <3> QED BY <2>1, <3>1 DEF Tidy
  <2> QED BY <2>1, <2>2 DEF Leaving, DevicesTyped, Stages, Leftovers
<1>2. CASE D!Screen
  <2>1. stage = "screen" /\ D!Goto("start logcat") /\ UNCHANGED <<logcat, session, cut>>
    BY <1>2 DEF D!Screen, D!services
  <2>2. doing \notin {"out", "held", "destroy"}
    BY <2>1 DEF Leaving, Stages, StopStages
  <2> QED BY <1>0, <2>1, <2>2, GotoLeaving DEF StartStages
<1>3. CASE D!StartLogcat
  <2>1. stage = "start logcat" /\ logcat' = [logcat EXCEPT ![D!dev] = "up"]
        /\ UNCHANGED <<session, cut>>
    BY <1>3 DEF D!StartLogcat, D!Set
  <2>2. PICK s \in {"started", "start sl4a"} : D!Goto(s)
    BY <1>3 DEF D!StartLogcat
  <2>3. doing \notin {"out", "held", "destroy"}
    BY <2>1 DEF Leaving, Stages, StopStages
  <2> QED BY <1>0, <2>1, <2>2, <2>3, GotoLeaving DEF StartStages
<1>4. CASE D!StartSl4a
  <2>1. stage = "start sl4a" /\ session' = [session EXCEPT ![D!dev] = TRUE] /\ logcat' = logcat
    BY <1>4 DEF D!StartSl4a, D!Set
  <2>2. doing \notin {"out", "held", "destroy"}
    BY <2>1 DEF Leaving, Stages, StopStages
  <2>3. (D!Goto("started") /\ cut' = cut) \/ D!Raise
    BY <1>4 DEF D!StartSl4a
  <2> QED BY <1>0, <2>1, <2>2, <2>3, GotoLeaving, RaiseLeaving DEF StartStages
<1>5. CASE D!Started
  <2>1. stage = "started" /\ UNCHANGED <<logcat, session, cut>>
    BY <1>5 DEF D!Started, D!services
  <2>2. doing \notin {"out", "held", "destroy"}
    BY <2>1 DEF Leaving, Stages, StopStages
  <2>3. CASE doing = "create" /\ ad < Len(TwoDevices)
    <3>1. ad' = ad + 1 /\ stage' = "screen" /\ doing' = doing /\ last' = last
      BY <1>5, <2>3 DEF D!Started
    <3>2. ad' \in {1, 2} /\ 1 .. ad \subseteq 1 .. ad'
      BY <1>0, <2>3, <3>1, TheTwo
    <3>3. \A d \in D!Ads : Tidy(d)' \/ \E i \in 1 .. ad' : TwoDevices[i] = d
      BY <2>1, <2>3, <3>2 DEF Leaving, Leftovers, Tidy
    <3>4. ad' - 1 = ad
      BY <1>0, <3>1
    <3>5. \A d \in D!Ads : Tidy(d)' \/ \E i \in 1 .. ad' - 1 : TwoDevices[i] = d
      BY <2>1, <2>3, <3>4 DEF Leaving, Leftovers, Tidy
    <3> QED BY <2>1, <2>3, <3>1, <3>2, <3>3, <3>5 DEF Leaving, DevicesTyped, Stages, StartStages, Leftovers
  <2>4. CASE doing = "ota" /\ ~(doing = "create" /\ ad < Len(TwoDevices))
    <3>1. D!Goto("tool cleanup")
      BY <1>5, <2>4 DEF D!Started
    <3> QED BY <1>0, <2>1, <2>2, <2>4, <3>1, GotoLeaving
  <2>5. CASE doing # "ota" /\ ~(doing = "create" /\ ad < Len(TwoDevices))
    <3>1. D!Return
      BY <1>5, <2>5 DEF D!Started
    <3> QED BY <2>1, <3>1, ReturnLeaving
  <2> QED BY <2>3, <2>4, <2>5
<1>6. CASE D!DestroyAll
  <2>1. doing' = "destroy" /\ stage' = "check" /\ ad' = 1 /\ last' = 2
        /\ UNCHANGED <<logcat, session, cut>>
    BY <1>6, TheTwo DEF D!DestroyAll, D!Destroy, D!services
  <2>2. \A d \in D!Ads : \E i \in 1 .. 2 : TwoDevices[i] = d
    BY TheTwo
  <2>3. DevicesTyped' /\ Stages'
    <3>1. ad' <= last'
      BY <2>1
    <3> QED BY <1>0, <2>1, <3>1 DEF DevicesTyped, Stages, StopStages
  <2>4. \A d \in D!Ads : \E i \in ad' .. last' : TwoDevices[i] = d
    BY <2>1, <2>2
  <2> QED BY <2>1, <2>3, <2>4 DEF Leaving, Leftovers
<1>7. CASE D!CheckLogcat
  <2>1. stage = "check" /\ UNCHANGED <<logcat, session, cut>>
        /\ D!Goto(IF logcat[D!dev] = "up" THEN "stop logcat" ELSE "terminate")
    BY <1>7 DEF D!CheckLogcat, D!services
  <2>2. doing \notin {"out", "held", "create"}
    BY <2>1 DEF Leaving, Stages, StartStages
  <2>3. CASE logcat[D!dev] = "up"
    BY <1>0, <2>1, <2>2, <2>3, GotoLeaving DEF StopStages
  <2>4. CASE logcat[D!dev] # "up"
    BY <1>0, <2>1, <2>2, <2>4, GotoLeaving DEF StopStages
  <2> QED BY <2>3, <2>4
<1>8. CASE D!StopLogcat
  <2>1. stage = "stop logcat" /\ logcat' = [logcat EXCEPT ![D!dev] = "none"]
        /\ UNCHANGED <<session, cut>> /\ D!Goto("terminate")
    BY <1>8 DEF D!StopLogcat, D!Set
  <2>2. doing \notin {"out", "held", "create"}
    BY <2>1 DEF Leaving, Stages, StartStages
  <2> QED BY <1>0, <2>1, <2>2, GotoLeaving DEF StopStages
<1>9. CASE D!Terminate
  <2>1. stage = "terminate" /\ session' = [session EXCEPT ![D!dev] = FALSE] /\ logcat' = logcat
    BY <1>9 DEF D!Terminate, D!Set
  <2>2. doing \notin {"out", "held", "create"}
    BY <2>1 DEF Leaving, Stages, StartStages
  <2>3. (D!AfterTerminate /\ cut' = cut) \/ D!Raise
    BY <1>9 DEF D!Terminate
  <2>4. CASE D!Raise
    BY <1>0, <2>1, <2>4, RaiseLeaving
  <2>5. CASE D!AfterTerminate /\ cut' = cut
    <3>1. doing = "destroy" => logcat[D!dev] # "up"
      BY <2>1 DEF Leaving, Leftovers
    <3>2. CASE doing = "reboot"
      <4>1. D!Goto("reboot")
        BY <2>5, <3>2 DEF D!AfterTerminate
      <4> QED BY <1>0, <2>1, <2>5, <3>2, <4>1, GotoLeaving
    <3>3. CASE doing # "reboot"
      <4>1. D!Goto("stop sl4a")
        BY <2>5, <3>3 DEF D!AfterTerminate
      <4> QED BY <1>0, <2>1, <2>2, <2>5, <3>1, <4>1, GotoLeaving DEF StopStages
    <3> QED BY <3>2, <3>3
  <2> QED BY <2>3, <2>4, <2>5
<1>10. CASE D!StopSl4a
  <2>1. stage = "stop sl4a" /\ UNCHANGED <<logcat, session, cut>>
    BY <1>10 DEF D!StopSl4a, D!ota
  <2>2. doing \notin {"out", "held", "create"}
    BY <2>1 DEF Leaving, Stages, StartStages
  <2>3. CASE doing = "destroy"
    <3>1. D!NextDestroyed /\ logcat[D!dev] # "up" /\ ~session[D!dev]
      BY <1>10, <2>1, <2>3 DEF D!StopSl4a, Leaving, Leftovers
    <3> QED BY <1>0, <2>1, <2>3, <3>1, NextDestroyedLeaving
  <2>4. CASE doing # "destroy"
    <3>1. PICK s : D!Goto(s)
      BY <1>10, <2>4 DEF D!StopSl4a
    <3> QED BY <1>0, <2>1, <2>2, <2>4, <3>1, GotoLeaving
  <2> QED BY <2>3, <2>4
<1>11. CASE D!Reboot \/ D!Restart \/ D!Update
  <2>1. /\ doing' \in {"reboot", "restart", "ota"} /\ ad' \in {1, 2} /\ last' = last
        /\ UNCHANGED <<logcat, session, cut>>
    BY <1>11, TheTwo DEF D!Reboot, D!Restart, D!Update, D!Begin, D!services
  <2> QED BY <2>1 DEF Leaving, DevicesTyped, Stages, Leftovers
<1>12. CASE D!Boots
  <2>1. stage \in {"reboot", "restart"} /\ UNCHANGED <<logcat, session, cut>>
    BY <1>12 DEF D!Boots, D!ota
  <2>2. doing \notin {"out", "held", "create", "destroy"}
    BY <2>1 DEF Leaving, Stages, StartStages, StopStages
  <2>3. D!Goto("screen") \/ D!Return
    BY <1>12 DEF D!Boots
  <2> QED BY <1>0, <2>1, <2>2, <2>3, GotoLeaving, ReturnLeaving
<1>13. CASE D!Flash
  <2>1. stage = "flash" /\ UNCHANGED <<logcat, session>>
    BY <1>13 DEF D!Flash
  <2>2. doing \notin {"out", "held", "create", "destroy"}
    BY <2>1 DEF Leaving, Stages, StartStages, StopStages
  <2>3. (D!Goto("start logcat") /\ cut' = cut) \/ D!Raise
    BY <1>13 DEF D!Flash
  <2> QED BY <1>0, <2>1, <2>2, <2>3, GotoLeaving, RaiseLeaving
<1>14. CASE D!ToolCleanup
  <2>1. D!Return /\ UNCHANGED <<logcat, session, cut>>
    BY <1>14 DEF D!ToolCleanup, D!services
  <2> QED BY <2>1, ReturnLeaving
<1>15. CASE D!StepFails
  <2>1. stage # "none" /\ D!Raise /\ UNCHANGED <<logcat, session>>
    BY <1>15 DEF D!StepFails, D!Fails, D!services
  <2> QED BY <1>0, <2>1, RaiseLeaving
<1>16. ASSUME NEW d \in D!Ads, D!LogcatDies(d) \/ D!ServerDies(d), behind' = behind PROVE Leaving'
  <2>1. UNCHANGED <<doing, stage, ad, last, session, cut>>
    BY <1>16 DEF D!LogcatDies, D!ServerDies, D!place, D!ota
  <2>2. logcat' \in [D!Ads -> {"none", "up", "dead"}]
        /\ \A e \in D!Ads : logcat[e] # "up" => logcat'[e] # "up"
    BY <1>0, <1>16 DEF D!LogcatDies, D!ServerDies
  <2>3. D!dev' = D!dev
    BY <2>1 DEF D!dev
  <2>4. \A e \in D!Ads : Tidy(e) => Tidy(e)'
    BY <2>1, <2>2 DEF Tidy
  <2>5. behind' = behind
    BY <1>16
  <2> QED BY <1>0, <2>1, <2>2, <2>3, <2>4, <2>5 DEF Leaving, DevicesTyped, Stages, Leftovers
<1> QED
  BY <1>1, <1>2, <1>3, <1>4, <1>5, <1>6, <1>7, <1>8, <1>9, <1>10, <1>11, <1>12, <1>13,
     <1>14, <1>15, <1>16, <1>17 DEF D!Next, D!Step

(* An update before and after its package is installed.                    *)
Before == StopStages \union {"flash"}
After == {"start logcat", "start sl4a", "started", "tool cleanup"}

(* Where each operation may stand: a package is installed and counted by   *)
(* an update alone.                                                        *)
OperationStages ==
  /\ doing \in {"out", "held", "create", "destroy", "reboot", "restart", "ota"}
  /\ doing \in {"out", "held"} => stage = "none"
  /\ doing = "create" => stage \in StartStages
  /\ doing = "destroy" => stage \in StopStages
  /\ doing = "reboot" => stage \in StartStages \union {"terminate", "reboot"}
  /\ doing = "restart" => stage \in StopStages \union StartStages \union {"restart"}
  /\ doing = "ota" => stage \in Before \union After

Updating(d) == doing = "ota" /\ D!dev = d

UpdatesTyped ==
  /\ used \in [D!Ads -> Nat] /\ DOMAIN installs = D!Ads
  /\ \A d \in D!Ads : installs[d] \in [0 .. D!Total(d) - 1 -> 0 .. 2]

(* A single-use runner has noted the call when it installs; the packages   *)
(* that a multi-use runner without a failure has installed are those it    *)
(* has counted, and the one it is about to count.                          *)
Noted(d) ==
  /\ Updating(d) => used[d] # 0
  /\ \A p \in 0 .. D!Total(d) - 1 :
       \/ installs[d][p] = 0
       \/ installs[d][p] = 1 /\ used[d] # 0 /\ ~(Updating(d) /\ stage \in Before)
CountedOff(d) ==
  \A p \in 0 .. D!Total(d) - 1 :
    \/ installs[d][p] = 0
    \/ installs[d][p] = 1 /\ (p < used[d] \/ (p = used[d] /\ Updating(d) /\ stage \in After))

Once ==
  /\ OperationStages /\ UpdatesTyped
  /\ \A d \in D!Ads \intersect SingleUse : Noted(d)
  /\ \A d \in D!Ads \ (SingleUse \union lapsed) : CountedOff(d)

LEMMA InitOnce == ASSUME Packages \in Nat, D!Init PROVE Once
BY DEF D!Init, Once, OperationStages, UpdatesTyped, Noted, CountedOff, Updating

LEMMA NextOperationStages == ASSUME OperationStages, D!Next PROVE OperationStages'
<1> USE DEF OperationStages, StartStages, StopStages, Before, After, D!Goto
<1>1. CASE D!Create
  BY <1>1 DEF D!Create
<1>20. CASE D!ScreenRaises
  BY <1>20 DEF D!ScreenRaises
<1>2. CASE D!Screen
  BY <1>2 DEF D!Screen
<1>3. CASE D!StartLogcat
  BY <1>3 DEF D!StartLogcat
<1>4. ASSUME D!Raise, stage # "none" PROVE OperationStages'
  BY <1>4 DEF D!Raise, D!Destroy, D!NextDestroyed, D!Return
<1>5. CASE D!StartSl4a
  BY <1>4, <1>5 DEF D!StartSl4a
<1>6. CASE D!Started
  BY <1>6 DEF D!Started, D!Return
<1>7. CASE D!DestroyAll
  BY <1>7 DEF D!DestroyAll, D!Destroy
<1>8. CASE D!CheckLogcat
  BY <1>8 DEF D!CheckLogcat
<1>9. CASE D!StopLogcat
  BY <1>9 DEF D!StopLogcat
<1>10. CASE D!Terminate
  BY <1>4, <1>10 DEF D!Terminate, D!AfterTerminate
<1>11. CASE D!StopSl4a
  BY <1>11 DEF D!StopSl4a, D!NextDestroyed
<1>12. CASE D!Reboot
  BY <1>12 DEF D!Reboot, D!Begin
<1>13. CASE D!Restart
  BY <1>13 DEF D!Restart, D!Begin
<1>14. CASE D!Update
  BY <1>14 DEF D!Update, D!Begin
<1>15. CASE D!Boots
  BY <1>15 DEF D!Boots, D!Return
<1>16. CASE D!Flash
  BY <1>4, <1>16 DEF D!Flash
<1>17. CASE D!ToolCleanup
  BY <1>17 DEF D!ToolCleanup, D!Return
<1>18. CASE D!StepFails
  BY <1>4, <1>18 DEF D!StepFails, D!Fails
<1>19. CASE \E d \in D!Ads : D!LogcatDies(d) \/ D!ServerDies(d)
  BY <1>19 DEF D!LogcatDies, D!ServerDies, D!place
<1> QED
  BY <1>1, <1>2, <1>3, <1>5, <1>6, <1>7, <1>8, <1>9, <1>10, <1>11, <1>12, <1>13,
     <1>14, <1>15, <1>16, <1>17, <1>18, <1>19, <1>20 DEF D!Next, D!Step

(* A step that installs nothing keeps the account, if it neither goes back *)
(* before the installation nor drops an update without a word of failure.  *)
LEMMA StillOnce ==
  ASSUME Once, OperationStages', UNCHANGED <<used, installs>>, lapsed \subseteq lapsed',
         \A d \in D!Ads : Updating(d)' => Updating(d) /\ (stage' \in Before => stage \in Before),
         \A d \in D!Ads : Updating(d) /\ stage \in After
                            => d \in lapsed' \/ (Updating(d)' /\ stage' \in After)
  PROVE  Once'
<1>1. UpdatesTyped'
  BY DEF Once, UpdatesTyped, D!Total
<1>2. ASSUME NEW d \in D!Ads \intersect SingleUse PROVE Noted(d)'
  BY <1>2 DEF Once, Noted, D!Total
<1>3. ASSUME NEW d \in D!Ads \ (SingleUse \union lapsed') PROVE CountedOff(d)'
  BY <1>3 DEF Once, CountedOff, D!Total
<1> QED BY <1>1, <1>2, <1>3 DEF Once

LEMMA GotoOnce ==
  ASSUME Once, OperationStages', UNCHANGED <<used, installs, lapsed>>, NEW s, D!Goto(s),
         doing = "ota" /\ stage \in After => s \in After,
         doing = "ota" /\ s \in Before => stage \in Before
  PROVE  Once'
<1>1. stage' = s /\ doing' = doing /\ ad' = ad
  BY DEF D!Goto
<1>2. \A d \in D!Ads : Updating(d)' <=> Updating(d)
  BY <1>1 DEF Updating, D!dev
<1> QED BY <1>1, <1>2, StillOnce DEF Updating

(* An operation that ends: an update among them has raised.                *)
LEMMA EndsOnce ==
  ASSUME Once, OperationStages', UNCHANGED <<used, installs>>, doing' # "ota",
         lapsed \subseteq lapsed', doing = "ota" => D!dev \in lapsed'
  PROVE  Once'
BY StillOnce DEF Updating

LEMMA RaiseOnce ==
  ASSUME Once, OperationStages', UNCHANGED <<used, installs>>, D!Raise, D!Lapse
  PROVE  Once'
<1>1. doing' # "ota"
  BY DEF D!Raise, D!Destroy, D!NextDestroyed, D!Return
<1>2. lapsed \subseteq lapsed' /\ (doing = "ota" => D!dev \in lapsed')
  BY DEF D!Lapse
<1> QED BY <1>1, <1>2, EndsOnce

LEMMA Capped ==
  ASSUME NEW n \in 0 .. 2
  PROVE  D!Min({n + 1, 2}) \in 0 .. 2 /\ (n = 0 => D!Min({n + 1, 2}) = 1)
<1> DEFINE S == {n + 1, 2}
           m == IF n = 0 THEN 1 ELSE 2
<1>1. m \in S /\ \A y \in S : m <= y
  OBVIOUS
<1>2. \A x \in S : (\A y \in S : x <= y) => x = m
  OBVIOUS
<1> HIDE DEF S, m
<1>3. D!Min(S) = m
  BY <1>1, <1>2 DEF D!Min
<1> QED BY <1>3 DEF S, m

(* update() begins: a single-use runner notes it; a multi-use runner has   *)
(* installed what it has counted.                                          *)
LEMMA UpdateOnce == ASSUME Once, DevicesTyped', OperationStages', D!Update PROVE Once'
<1>1. /\ doing = "held" /\ doing' = "ota" /\ stage' = "check" /\ D!CanUpdate(D!dev')
      /\ used' = (IF D!dev' \in SingleUse THEN [used EXCEPT ![D!dev'] = 1] ELSE used)
      /\ UNCHANGED <<installs, lapsed>>
  BY DEF D!Update, D!Begin
<1>2. ad' \in {1, 2} /\ D!dev' \in D!Ads
  BY TheTwo DEF DevicesTyped, D!dev
<1>3. used \in [D!Ads -> Nat] /\ DOMAIN installs = D!Ads
      /\ \A d \in D!Ads : installs[d] \in [0 .. D!Total(d) - 1 -> 0 .. 2]
  BY DEF Once, UpdatesTyped
<1>4. used' \in [D!Ads -> Nat]
  BY <1>1, <1>3
<1>5. UpdatesTyped'
  BY <1>1, <1>3, <1>4 DEF UpdatesTyped, D!Total
<1>6. \A d \in D!Ads : ~Updating(d)
  BY <1>1 DEF Updating
<1>7. ASSUME NEW d \in D!Ads \intersect SingleUse PROVE Noted(d)'
  <2>1. CASE D!dev' = d
    <3>1. used[d] < 1 /\ used[d] \in Nat
      BY <1>1, <1>3, <1>7, <2>1 DEF D!CanUpdate, D!Total
    <3>2. used[d] = 0
      BY <3>1
    <3>3. \A p \in 0 .. D!Total(d) - 1 : installs[d][p] = 0
      BY <1>7, <3>2 DEF Once, Noted
    <3>4. used'[d] = 1
      BY <1>1, <1>3, <1>7, <2>1
    <3> QED BY <1>1, <3>3, <3>4 DEF Noted, D!Total
  <2>2. CASE D!dev' # d
    <3>1. used'[d] = used[d] /\ ~Updating(d)'
      BY <1>1, <1>3, <1>7, <2>2 DEF Updating
    <3> QED BY <1>1, <1>7, <3>1 DEF Once, Noted, D!Total
  <2> QED BY <2>1, <2>2
<1>8. ASSUME NEW d \in D!Ads \ (SingleUse \union lapsed') PROVE CountedOff(d)'
  <2>1. used'[d] = used[d]
    BY <1>1, <1>3, <1>8
  <2>2. CountedOff(d)
    BY <1>1, <1>8 DEF Once
  <2> QED BY <1>1, <1>6, <1>8, <2>1, <2>2 DEF CountedOff, D!Total
<1> QED BY <1>5, <1>7, <1>8 DEF Once

(* The package is installed.                                               *)
LEMMA FlashOnce ==
  ASSUME Once, DevicesTyped, OperationStages', D!Flash PROVE Once'
<1> DEFINE q == D!Package
<1>1. /\ stage = "flash" /\ used' = used
      /\ installs' = [installs EXCEPT ![D!dev] = [installs[D!dev] EXCEPT ![q] = D!Min({@ + 1, 2})]]
      /\ \/ D!Goto("start logcat") /\ lapsed' = lapsed
         \/ D!Raise /\ D!Lapse
  BY DEF D!Flash, D!Set
<1>2. doing = "ota"
  BY <1>1 DEF Once, OperationStages, StartStages, StopStages
<1>3. D!dev \in D!Ads
  BY DevIsOne DEF DevicesTyped
<1>4. used \in [D!Ads -> Nat] /\ DOMAIN installs = D!Ads
      /\ \A d \in D!Ads : installs[d] \in [0 .. D!Total(d) - 1 -> 0 .. 2]
  BY DEF Once, UpdatesTyped
<1>5. ASSUME NEW d \in D!Ads
      PROVE  /\ installs'[d] \in [0 .. D!Total(d) - 1 -> 0 .. 2]
             /\ d # D!dev => installs'[d] = installs[d]
             /\ \A p \in 0 .. D!Total(d) - 1 :
                  \/ installs'[d][p] = installs[d][p] /\ (d = D!dev => p # q)
                  \/ d = D!dev /\ p = q /\ (installs[d][p] = 0 => installs'[d][p] = 1)
  <2>1. CASE d # D!dev
    BY <1>1, <1>4, <2>1
  <2>2. CASE d = D!dev
    <3> DEFINE f == installs[D!dev]
               g == [f EXCEPT ![q] = D!Min({f[q] + 1, 2})]
    <3>1. installs'[d] = g /\ f \in [0 .. D!Total(d) - 1 -> 0 .. 2] /\ f = installs[d]
      BY <1>1, <1>3, <1>4, <2>2
    <3> HIDE DEF f, q
    <3>2. CASE q \in 0 .. D!Total(d) - 1
      <4>1. f[q] \in 0 .. 2
        BY <3>1, <3>2
      <4>2. D!Min({f[q] + 1, 2}) \in 0 .. 2 /\ (f[q] = 0 => D!Min({f[q] + 1, 2}) = 1)
        BY <4>1, Capped
      <4> QED BY <2>2, <3>1, <3>2, <4>2
    <3>3. CASE q \notin 0 .. D!Total(d) - 1
      BY <2>2, <3>1, <3>3
    <3> QED BY <3>2, <3>3
  <2> QED BY <2>1, <2>2
<1>6. UpdatesTyped'
  BY <1>1, <1>4, <1>5 DEF UpdatesTyped, D!Total
<1>7. ASSUME NEW d \in D!Ads \intersect SingleUse PROVE Noted(d)'
  <2>1. Noted(d) /\ (Updating(d) <=> D!dev = d)
    BY <1>2, <1>7 DEF Once, Updating
  <2>2. Updating(d)' => Updating(d) /\ stage' \notin Before
    <3>1. CASE D!Raise
      BY <1>2, <3>1 DEF D!Raise, D!Return, Updating
    <3>2. CASE D!Goto("start logcat")
      BY <3>2 DEF D!Goto, Updating, Before, StopStages, D!dev
    <3> QED BY <1>1, <3>1, <3>2
  <2>3. CASE D!dev = d
    <3>1. used[d] # 0 /\ \A p \in 0 .. D!Total(d) - 1 : installs[d][p] = 0
      BY <1>1, <2>1, <2>3 DEF Noted, Before
    <3>2. \A p \in 0 .. D!Total(d) - 1 : installs'[d][p] \in {0, 1}
      BY <1>5, <1>7, <3>1
    <3> QED BY <1>1, <2>2, <3>1, <3>2 DEF Noted, D!Total
  <2>4. CASE D!dev # d
    BY <1>1, <1>5, <1>7, <2>1, <2>2, <2>4 DEF Noted, D!Total
  <2> QED BY <2>3, <2>4
<1>8. ASSUME NEW d \in D!Ads \ (SingleUse \union lapsed') PROVE CountedOff(d)'
  <2>1. CountedOff(d) /\ (Updating(d) <=> D!dev = d)
    BY <1>1, <1>2, <1>8 DEF Once, Updating, D!Lapse
  <2>2. CASE D!dev = d
    <3>1. D!Goto("start logcat")
      BY <1>1, <1>2, <1>8, <2>2 DEF D!Lapse
    <3>2. Updating(d)' /\ stage' \in After /\ q = used[d]
      BY <1>2, <1>8, <2>2, <3>1 DEF D!Goto, Updating, After, D!dev, D!Package
    <3>3. stage \notin After
      BY <1>1 DEF After
    <3>4. \A p \in 0 .. D!Total(d) - 1 : installs[d][p] = 0 \/ (installs[d][p] = 1 /\ p < used[d])
      BY <2>1, <3>3 DEF CountedOff
    <3>5. used[d] \in Nat /\ ~(used[d] < used[d])
      BY <1>4, <1>8
    <3> HIDE DEF q
    <3>6. ASSUME NEW p \in 0 .. D!Total(d) - 1
          PROVE  installs'[d][p] = 0 \/ (installs'[d][p] = 1 /\ (p < used[d] \/ p = used[d]))
      BY <1>5, <1>8, <2>2, <3>2, <3>4, <3>5
    <3> QED BY <1>1, <3>2, <3>6 DEF CountedOff, D!Total
  <2>3. CASE D!dev # d
    <3>1. installs'[d] = installs[d] /\ ~Updating(d)
      BY <1>5, <1>8, <2>1, <2>3
    <3> QED BY <1>1, <2>1, <3>1 DEF CountedOff, D!Total
  <2> QED BY <2>2, <2>3
<1> QED BY <1>6, <1>7, <1>8 DEF Once

(* The update is over: a multi-use runner counts it.                       *)
LEMMA CleanupOnce ==
  ASSUME Once, DevicesTyped, OperationStages', D!ToolCleanup PROVE Once'
<1>1. /\ stage = "tool cleanup" /\ doing' = "held" /\ UNCHANGED <<installs, lapsed>>
      /\ used' = (IF D!dev \in SingleUse THEN used ELSE [used EXCEPT ![D!dev] = used[D!dev] + 1])
  BY DEF D!ToolCleanup, D!Return, D!Set
<1>2. doing = "ota"
  BY <1>1 DEF Once, OperationStages, StartStages, StopStages
<1>3. D!dev \in D!Ads
  BY DevIsOne DEF DevicesTyped
<1>4. used \in [D!Ads -> Nat] /\ DOMAIN installs = D!Ads
      /\ \A d \in D!Ads : installs[d] \in [0 .. D!Total(d) - 1 -> 0 .. 2]
  BY DEF Once, UpdatesTyped
<1>5. used' \in [D!Ads -> Nat]
  <2>1. used[D!dev] + 1 \in Nat
    BY <1>3, <1>4
  <2> QED BY <1>1, <1>3, <1>4, <2>1
<1>6. UpdatesTyped' /\ \A d \in D!Ads : ~Updating(d)'
  BY <1>1, <1>4, <1>5 DEF UpdatesTyped, D!Total, Updating
<1>7. ASSUME NEW d \in D!Ads \intersect SingleUse PROVE Noted(d)'
  <2>1. used'[d] = used[d] /\ Noted(d)
    BY <1>1, <1>3, <1>4, <1>7 DEF Once
  <2> QED BY <1>1, <1>6, <1>7, <2>1 DEF Noted, D!Total
<1>8. ASSUME NEW d \in D!Ads \ (SingleUse \union lapsed') PROVE CountedOff(d)'
  <2>1. CountedOff(d) /\ (Updating(d) <=> D!dev = d) /\ used[d] \in Nat
    BY <1>1, <1>2, <1>4, <1>8 DEF Once, Updating
  <2>2. used'[d] = (IF D!dev = d THEN used[d] + 1 ELSE used[d])
    BY <1>1, <1>3, <1>4, <1>8
  <2>3. ASSUME NEW p \in 0 .. D!Total(d) - 1
        PROVE  installs[d][p] = 0 \/ (installs[d][p] = 1 /\ p < used'[d])
    <3>1. installs[d][p] = 0 \/ (installs[d][p] = 1 /\ (p < used[d] \/ (p = used[d] /\ D!dev = d)))
      BY <2>1 DEF CountedOff
    <3>2. (p < used[d] => p < used[d] + 1) /\ (p = used[d] => p < used[d] + 1)
      BY <2>1
    <3> QED BY <2>2, <3>1, <3>2
  <2> QED BY <1>1, <2>3 DEF CountedOff, D!Total
<1> QED BY <1>6, <1>7, <1>8 DEF Once

LEMMA NextOnce ==
  ASSUME Packages \in Nat, Leaving, Leaving', Once, D!Next PROVE Once'
<1>0. OperationStages' /\ DevicesTyped /\ DevicesTyped'
  BY NextOperationStages DEF Once, Leaving
<1>1. CASE D!Create
  <2>1. doing' = "create" /\ used' = [d \in D!Ads |-> 0]
        /\ installs' = [d \in D!Ads |-> [p \in 0 .. D!Total(d) - 1 |-> 0]]
    BY <1>1 DEF D!Create
  <2>2. \A d \in D!Ads : \A p \in 0 .. D!Total(d) - 1 : installs'[d][p] = 0
    BY <2>1
  <2>3. UpdatesTyped' /\ \A d \in D!Ads : ~Updating(d)'
    BY <2>1 DEF UpdatesTyped, Updating, D!Total
  <2> QED BY <1>0, <2>2, <2>3 DEF Once, Noted, CountedOff, D!Total
<1>18. CASE D!ScreenRaises
  BY <1>0, <1>18, EndsOnce DEF D!ScreenRaises, D!ota
<1>2. CASE D!Screen
  BY <1>0, <1>2, GotoOnce DEF D!Screen, D!ota, Once, OperationStages, StopStages, Before, After
<1>3. CASE D!StartLogcat
  BY <1>0, <1>3, GotoOnce DEF D!StartLogcat, D!ota, Before, StopStages, After
<1>4. CASE D!StartSl4a
  BY <1>0, <1>4, GotoOnce, RaiseOnce DEF D!StartSl4a, Before, StopStages, After
<1>5. CASE D!Started
  <2>1. stage = "started" /\ UNCHANGED <<used, installs, lapsed>>
    BY <1>5 DEF D!Started, D!ota
  <2>2. CASE doing = "ota"
    <3>1. D!Goto("tool cleanup")
      BY <1>5, <2>2 DEF D!Started
    <3> QED BY <1>0, <2>1, <3>1, GotoOnce DEF Before, StopStages, After
  <2>3. CASE doing # "ota"
    <3>1. doing' # "ota"
      BY <1>5, <2>3 DEF D!Started, D!Return
    <3> QED BY <1>0, <2>1, <2>3, <3>1, EndsOnce
  <2> QED BY <2>2, <2>3
<1>6. CASE D!DestroyAll
  BY <1>0, <1>6, EndsOnce DEF D!DestroyAll, D!Destroy, D!ota
<1>7. CASE D!CheckLogcat
  BY <1>0, <1>7, GotoOnce DEF D!CheckLogcat, D!ota, Before, StopStages, After
<1>8. CASE D!StopLogcat
  BY <1>0, <1>8, GotoOnce DEF D!StopLogcat, D!ota, Before, StopStages, After
<1>9. CASE D!Terminate
  <2>1. stage = "terminate" /\ UNCHANGED <<used, installs>>
        /\ ((D!AfterTerminate /\ lapsed' = lapsed) \/ (D!Raise /\ D!Lapse))
    BY <1>9 DEF D!Terminate
  <2>2. PICK s : D!AfterTerminate => D!Goto(s)
    BY DEF D!AfterTerminate
  <2>3. stage \in Before /\ stage \notin After
    BY <2>1 DEF Before, StopStages, After
  <2> QED BY <1>0, <2>1, <2>2, <2>3, GotoOnce, RaiseOnce
<1>10. CASE D!StopSl4a
  <2>1. stage = "stop sl4a" /\ UNCHANGED <<used, installs, lapsed>>
    BY <1>10 DEF D!StopSl4a, D!ota
  <2>2. stage \in Before /\ stage \notin After
    BY <2>1 DEF Before, StopStages, After
  <2>3. CASE doing = "destroy"
    BY <1>0, <1>10, <2>1, <2>3, EndsOnce DEF D!StopSl4a, D!NextDestroyed
  <2>4. CASE doing # "destroy"
    <3>1. PICK s : D!Goto(s)
      BY <1>10, <2>4 DEF D!StopSl4a
    <3> QED BY <1>0, <2>1, <2>2, <3>1, GotoOnce
  <2> QED BY <2>3, <2>4
<1>11. CASE D!Reboot \/ D!Restart
  BY <1>0, <1>11, EndsOnce DEF D!Reboot, D!Restart, D!Begin, D!ota
<1>12. CASE D!Update
  BY <1>0, <1>12, UpdateOnce
<1>13. CASE D!Boots
  <2>1. stage \in {"reboot", "restart"} /\ UNCHANGED <<used, installs, lapsed>>
    BY <1>13 DEF D!Boots, D!ota
  <2>2. doing # "ota"
    BY <2>1 DEF Once, OperationStages, Before, StopStages, After
  <2> QED BY <1>0, <1>13, <2>1, <2>2, EndsOnce DEF D!Boots, D!Goto, D!Return
<1>14. CASE D!Flash
  BY <1>0, <1>14, FlashOnce
<1>15. CASE D!ToolCleanup
  BY <1>0, <1>15, CleanupOnce
<1>16. CASE D!StepFails
  BY <1>0, <1>16, RaiseOnce DEF D!StepFails, D!Fails
<1>17. ASSUME NEW d \in D!Ads, D!LogcatDies(d) \/ D!ServerDies(d) PROVE Once'
  <2>1. UNCHANGED <<doing, stage, ad, used, installs, lapsed>>
    BY <1>17 DEF D!LogcatDies, D!ServerDies, D!place, D!ota
  <2>2. \A e \in D!Ads : Updating(e)' <=> Updating(e)
    BY <2>1 DEF Updating, D!dev
  <2> QED BY <1>0, <2>1, <2>2, StillOnce
<1> QED
  BY <1>1, <1>2, <1>3, <1>4, <1>5, <1>6, <1>7, <1>8, <1>9, <1>10, <1>11, <1>12, <1>13,
     <1>14, <1>15, <1>16, <1>17, <1>18 DEF D!Next, D!Step

LEMMA InitDevices == ASSUME Packages \in Nat, BedInit PROVE Leaving /\ Once
BY InitLeaving, InitOnce DEF BedInit

LEMMA NextDevices ==
  ASSUME Packages \in Nat, Leaving, Once, [BedNext]_bed PROVE Leaving' /\ Once'
<1>1. CASE D!Next
  <2>1. Leaving'
    BY <1>1, NextLeaving
  <2> QED BY <1>1, <2>1, NextOnce
<1>2. CASE UNCHANGED devices
  <2>1. UNCHANGED <<doing, stage, ad, last, logcat, session, used, installs, cut, lapsed,
                    behind>>
    BY <1>2 DEF devices
  <2>2. D!dev' = D!dev /\ \A d \in D!Ads : (Tidy(d)' <=> Tidy(d)) /\ (Updating(d)' <=> Updating(d))
    BY <2>1 DEF D!dev, Tidy, Updating
  <2>3. Leaving'
    BY <2>1, <2>2 DEF Leaving, DevicesTyped, Stages, Leftovers
  <2>4. OperationStages'
    BY <2>1 DEF Once, OperationStages
  <2> QED BY <2>1, <2>2, <2>3, <2>4, StillOnce
<1> QED
  BY <1>1, <1>2 DEF BedNext, DriveAccessPoint, DriveDevices, DriveWifi, DriveCalls,
     DriveBluetooth, DrivePhoneSetup, DriveMessages, DriveCoex, DriveLab, bed

(* Whatever fails in whatever step: when no device is held, none has left  *)
(* a logcat or a session behind, but for those whose clean_up an exception *)
(* ended, and those that create had started before an exception outside of *)
(* its try (android_device.py, create and destroy).                        *)
THEOREM NothingIsLeft ==
  ASSUME Packages \in Nat PROVE BedSpec => []NothingLeft
<1>1. Leaving => NothingLeft
  BY DEF Leaving, Leftovers, Tidy, NothingLeft, D!NothingLeft
<1>2. BedInit => Leaving /\ Once
  BY InitDevices
<1>3. Leaving /\ Once /\ [BedNext]_bed => Leaving' /\ Once'
  BY NextDevices
<1> QED BY <1>1, <1>2, <1>3, PTL DEF BedSpec, bed

(* For any number of packages: a package is installed twice only by a      *)
(* multi-use runner, and only after an update that raised (ota_runner.py). *)
THEOREM InstallsOnce ==
  ASSUME Packages \in Nat PROVE BedSpec => []InstalledOnce
<1>1. Once => InstalledOnce
  <2> SUFFICES ASSUME Once, NEW d \in D!Ads, NEW p \in DOMAIN installs[d], installs[d][p] > 1
               PROVE  d \notin SingleUse /\ d \in lapsed
    BY DEF InstalledOnce, D!InstalledOnce
  <2>1. p \in 0 .. D!Total(d) - 1
    BY DEF Once, UpdatesTyped
  <2> QED BY <2>1 DEF Once, Noted, CountedOff
<1>2. BedInit => Leaving /\ Once
  BY InitDevices
<1>3. Leaving /\ Once /\ [BedNext]_bed => Leaving' /\ Once'
  BY NextDevices
<1> QED BY <1>1, <1>2, <1>3, PTL DEF BedSpec, bed

-----------------------------------------------------------------------------
(* Messages.  Events name messages that were sent, and what waits unread   *)
(* came while the text was due that is due.                                *)
MessagePart == [kind : {"sms", "mms"}, no : Nat, part : [from : Nat, to : Nat]]
Sent(e) ==
  /\ e \in MessagePart /\ e.no \in 1 .. M!sent
  /\ e.part.from <= e.part.to + 1

MessagesTyped ==
  /\ texts \in Seq(Texts \union {<<>>}) /\ first \in Nat \ {0} /\ first <= M!sent + 1
  /\ rest \in Nat \ {0}
  /\ \A e \in air \union unread : Sent(e)
  /\ \A c \in came : Sent(c[2])

(* The texts of this call from the first to number n are whole.            *)
TextWhole(k) == \A s \in 1 .. Len(texts[k]) : M!Covered(k, s)
Whole(n) == \A k \in first .. n : TextWhole(k)

TextPlaces ==
  op = "sms" =>
    /\ at \in {"idle", "sessions", "track", "send", "confirm", "receive"}
    /\ at \in {"sessions", "track", "send"} => Whole(M!sent)
    /\ at = "send" => rest = 1
    /\ at \in {"confirm", "receive"} =>
         Whole(M!sent - 1) /\ first <= M!sent /\ \A s \in 1 .. rest - 1 : M!Covered(M!sent, s)
    /\ at = "idle" /\ ok => Whole(M!sent) /\ "sms" \notin follows
    /\ at \in {"send", "confirm", "receive"} =>
         \A e \in unread : e.kind = "sms" => <<M!Due, e>> \in came

Texting == MessagesTyped /\ TextPlaces

LEMMA InitTexting == ASSUME M!Init PROVE Texting
<1>1. texts = <<>> /\ M!sent = 0
  BY DEF M!Init, M!sent
<1> QED BY <1>1 DEF M!Init, Texting, MessagesTyped, TextPlaces

(* What came stays, and so do the texts that were sent.                    *)
LEMMA CoveredKept ==
  ASSUME MessagesTyped, came \subseteq came',
         \A k \in 1 .. M!sent : texts'[k] = texts[k],
         NEW k \in 1 .. M!sent, NEW s, M!Covered(k, s)
  PROVE  M!Covered(k, s)'
<1>1. PICK c \in came : c[1] = k /\ \E i \in 1 .. s : M!Fits(c[2], k, i) /\ s < i + M!Size(c[2])
  BY DEF M!Covered
<1>2. PICK i \in 1 .. s : M!Fits(c[2], k, i) /\ s < i + M!Size(c[2])
  BY <1>1
<1>3. texts'[k] = texts[k] /\ texts'[c[2].no] = texts[c[2].no]
  BY <1>1 DEF MessagesTyped, Sent
<1>4. M!Fits(c[2], k, i)'
  BY <1>2, <1>3 DEF M!Fits, M!Size
<1>5. (s < i + M!Size(c[2]))'
  BY <1>2 DEF M!Size
<1>6. c \in came'
  BY <1>1
<1> QED BY <1>1, <1>4, <1>5, <1>6 DEF M!Covered

LEMMA WholeStays ==
  ASSUME MessagesTyped, came \subseteq came', first' = first,
         \A k \in 1 .. M!sent : texts'[k] = texts[k],
         NEW n \in Int, n <= M!sent, Whole(n)
  PROVE  \A k \in first .. n : TextWhole(k)'
<1>0. M!sent \in Nat
  BY DEF MessagesTyped, M!sent
<1>1. ASSUME NEW k \in first .. n, NEW s \in 1 .. Len(texts'[k]) PROVE M!Covered(k, s)'
  <2>1. k \in 1 .. M!sent
    BY <1>0 DEF MessagesTyped
  <2>2. M!Covered(k, s)
    BY <2>1 DEF Whole, TextWhole
  <2> QED BY <2>1, <2>2, CoveredKept
<1> QED BY <1>1 DEF TextWhole

LEMMA ArrivesTexting == ASSUME Texting, NEW e \in air, M!Arrives(e) PROVE Texting'
<1>1. /\ UNCHANGED <<texts, at, op, toSend, rest, ok, first, follows>> /\ air' \subseteq air
      /\ \/ unread' = unread \union {e}
            /\ came' = IF e.kind = "sms" THEN came \union {<<M!Due, e>>} ELSE came
         \/ unread' = unread /\ came' = came
  BY DEF M!Arrives, M!helper
<1>2. came \subseteq came' /\ M!sent' = M!sent /\ M!Due' = M!Due
  BY <1>1 DEF M!sent, M!Due
<1>3. MessagesTyped'
  <2>1. Sent(e) /\ \A f : Sent(f)' <=> Sent(f)
    BY <1>2 DEF Texting, MessagesTyped, Sent
  <2> QED BY <1>1, <1>2, <2>1 DEF Texting, MessagesTyped
<1>4. \A n \in Int : n <= M!sent /\ Whole(n) => Whole(n)'
  BY <1>1, <1>2, WholeStays DEF Texting, Whole
<1>5. TextPlaces'
  <2> SUFFICES ASSUME op = "sms" PROVE TextPlaces'
    BY <1>1 DEF TextPlaces
  <2>1. M!sent \in Nat /\ M!sent - 1 \in Int /\ M!sent - 1 <= M!sent
    BY DEF Texting, MessagesTyped, M!sent
  <2>2. /\ Whole(M!sent) => Whole(M!sent)'
        /\ Whole(M!sent - 1) => Whole(M!sent - 1)'
    BY <1>2, <1>4, <2>1 DEF Whole
  <2>3. at \in {"confirm", "receive"} => \A s \in 1 .. rest - 1 : M!Covered(M!sent, s)'
    <3> SUFFICES ASSUME at \in {"confirm", "receive"}, NEW s \in 1 .. rest - 1
                 PROVE  M!Covered(M!sent, s)'
      OBVIOUS
    <3>1. first <= M!sent /\ M!Covered(M!sent, s)
      BY DEF Texting, TextPlaces
    <3>2. M!sent \in 1 .. M!sent
      BY <2>1, <3>1 DEF Texting, MessagesTyped
    <3>3. PICK n \in 1 .. M!sent : n = M!sent
      BY <3>2
    <3>4. M!Covered(n, s)
      BY <3>1, <3>3
    <3>5. M!Covered(n, s)'
      BY <1>1, <1>2, <3>4, CoveredKept DEF Texting, M!sent
    <3>6. M!sent' = n
      BY <1>2, <3>3
    <3> QED BY <3>5, <3>6
  <2>4. at \in {"send", "confirm", "receive"} =>
          \A f \in unread' : f.kind = "sms" => <<M!Due', f>> \in came'
    BY <1>1, <1>2 DEF Texting, TextPlaces
  <2> QED BY <1>1, <1>2, <2>2, <2>3, <2>4 DEF Texting, TextPlaces
<1> QED BY <1>3, <1>5 DEF Texting

LEMMA BeginTexting == ASSUME Texting, NEW o, NEW n, M!Begin(o, n) PROVE Texting'
<1>1. /\ at' = "sessions" /\ first' = M!sent + 1 /\ rest' = 1 /\ came' = {}
      /\ UNCHANGED <<texts, air, unread>>
  BY DEF M!Begin, M!phones
<1>2. M!sent \in Nat /\ M!sent' = M!sent
  BY <1>1 DEF Texting, MessagesTyped, M!sent
<1>3. MessagesTyped'
  BY <1>1, <1>2 DEF Texting, MessagesTyped, Sent
<1>4. \A k \in first' .. M!sent' : FALSE
  BY <1>1, <1>2
<1>5. Whole(M!sent)'
  BY <1>4 DEF Whole
<1>6. TextPlaces'
  BY <1>1, <1>5 DEF TextPlaces
<1> QED BY <1>3, <1>6 DEF Texting

(* Steps of the helper by which nothing comes and nothing is sent.         *)
LEMMA QuietTexting ==
  ASSUME Texting, UNCHANGED <<texts, air, came, first, op>>, unread' \subseteq unread,
         rest' \in Nat \ {0}, op = "sms" => TextPlaces'
  PROVE  Texting'
<1>1. M!sent' = M!sent
  BY DEF M!sent
<1>2. MessagesTyped'
  BY <1>1 DEF Texting, MessagesTyped, Sent
<1> QED BY <1>2 DEF Texting, TextPlaces

LEMMA WholeKept ==
  ASSUME UNCHANGED <<first, came, texts>>
  PROVE  /\ M!sent' = M!sent
         /\ Whole(M!sent)' <=> Whole(M!sent)
         /\ Whole(M!sent - 1)' <=> Whole(M!sent - 1)
         /\ \A s : M!Covered(M!sent, s)' <=> M!Covered(M!sent, s)
<1>1. M!sent' = M!sent
  BY DEF M!sent
<1>2. \A k, s : M!Covered(k, s)' <=> M!Covered(k, s)
  BY DEF M!Covered, M!Fits, M!Size
<1>3. \A k : TextWhole(k)' <=> TextWhole(k)
  BY <1>2 DEF TextWhole
<1>4. \A s : M!Covered(M!sent, s)' <=> M!Covered(M!sent, s)
  BY <1>1 DEF M!Covered, M!Fits, M!Size, M!sent
<1> QED BY <1>1, <1>3, <1>4 DEF Whole

LEMMA SendTexting == ASSUME Texting, M!Send PROVE Texting'
<1>0. rest \in Nat \ {0} /\ M!sent \in Nat /\ M!sent = Len(texts)
  BY DEF Texting, MessagesTyped, M!sent
<1>1. CASE channel["sender"] = "live"
  <2>1. /\ at = "send" /\ at' = "confirm"
        /\ UNCHANGED <<ok, follows, came, unread, op, rest, first>>
    BY <1>1 DEF M!Send
  <2>0. PICK t \in Texts \union {<<>>} : \E parts \in M!Splits(t) :
          /\ texts' = Append(texts, t)
          /\ air' = air \union {M!Part(M!sent + 1, p) : p \in parts}
    BY <1>1 DEF M!Send
  <2>2. PICK parts \in M!Splits(t) :
          /\ texts' = Append(texts, t)
          /\ air' = air \union {M!Part(M!sent + 1, p) : p \in parts}
    BY <2>0
  <2>3. texts' \in Seq(Texts \union {<<>>}) /\ Len(texts') = Len(texts) + 1
        /\ \A k \in 1 .. Len(texts) : texts'[k] = texts[k]
    BY <2>2 DEF Texting, MessagesTyped
  <2>4. M!sent' = M!sent + 1 /\ M!sent' \in Nat /\ M!sent' - 1 = M!sent
    BY <1>0, <2>3 DEF M!sent
  <2>5. ASSUME NEW p \in parts, NEW e, e = M!Part(M!sent + 1, p) PROVE Sent(e)'
    <3>1. Len(t) \in Nat
      BY ConstantsAssumption DEF M!Constants
    <3>2. p \in [from : Nat, to : Nat] /\ p.from <= p.to + 1
      BY <3>1 DEF M!Splits
    <3>3. M!sent + 1 \in Nat /\ M!sent + 1 \in 1 .. M!sent'
      BY <1>0, <2>4
    <3>4. e \in MessagePart /\ e.no = M!sent + 1 /\ e.part = p
      BY <2>5, <3>2, <3>3 DEF M!Part, M!Kind, MessagePart
    <3> QED BY <3>2, <3>3, <3>4 DEF Sent
  <2>6. \A e : Sent(e) => Sent(e)'
    BY <1>0, <2>4 DEF Sent
  <2>7. MessagesTyped'
    <3>1. ASSUME NEW e \in air' \union unread' PROVE Sent(e)'
      <4>1. CASE e \in air \union unread
        BY <2>6, <4>1 DEF Texting, MessagesTyped
      <4>2. CASE e \notin air \union unread
        <5>1. PICK p \in parts : e = M!Part(M!sent + 1, p)
          BY <2>1, <2>2, <4>2
        <5> QED BY <2>5, <5>1
      <4> QED BY <4>1, <4>2
    <3>2. first' <= M!sent' + 1 /\ first' \in Nat \ {0} /\ rest' \in Nat \ {0}
      BY <1>0, <2>1, <2>4 DEF Texting, MessagesTyped
    <3> QED BY <2>1, <2>3, <2>6, <3>1, <3>2 DEF Texting, MessagesTyped
  <2>8. TextPlaces'
    <3> SUFFICES ASSUME op = "sms" PROVE TextPlaces'
      BY <2>1 DEF TextPlaces
    <3>1. Whole(M!sent) /\ rest = 1
      BY <2>1 DEF Texting, TextPlaces
    <3>2. \A k \in first .. M!sent : TextWhole(k)'
      BY <1>0, <2>1, <2>3, <3>1, WholeStays DEF Texting
    <3>3. Whole(M!sent - 1)'
      BY <2>1, <2>4, <3>2 DEF Whole
    <3>4. first' <= M!sent'
      BY <2>1, <2>4 DEF Texting, MessagesTyped
    <3>5. M!Due' = M!Due
      BY <2>1, <2>4 DEF M!Due
    <3>6. \A s \in 1 .. rest' - 1 : FALSE
      BY <2>1, <3>1
    <3> QED BY <2>1, <3>1, <3>3, <3>4, <3>5, <3>6 DEF Texting, TextPlaces
  <2> QED BY <2>7, <2>8 DEF Texting
<1>2. CASE channel["sender"] # "live"
  <2>1. /\ at' = "idle" /\ ok' = FALSE /\ UNCHANGED <<texts, air, came, unread, op, first, rest>>
    BY <1>2 DEF M!Send, M!Return
  <2> QED BY <1>0, <2>1, QuietTexting DEF TextPlaces
<1> QED BY <1>1, <1>2

(* A matching event came when the text was due, and stands in it where the *)
(* text is not received yet; with the last one the text is whole.          *)
LEMMA ReceiveTexting == ASSUME Texting, NEW e \in unread, M!Receive(e) PROVE Texting'
<1>1. /\ at = "receive" /\ M!Matches(e) /\ unread' = unread \ {e}
      /\ rest' = IF op = "sms" THEN rest + M!Size(e) ELSE rest
      /\ UNCHANGED <<texts, air, came, first, op>>
      /\ IF op = "sms" /\ rest' <= Len(texts[M!sent])
         THEN UNCHANGED <<at, toSend, follows, ok>> ELSE M!Received
  BY DEF M!Receive, M!network
<1>2. /\ M!Size(e) \in Nat /\ rest \in Nat \ {0} /\ rest' \in Nat \ {0}
  BY <1>1 DEF Texting, MessagesTyped, Sent, MessagePart, M!Size
<1> SUFFICES ASSUME op = "sms" PROVE TextPlaces'
  BY <1>1, <1>2, QuietTexting
<1>3. e.kind = "sms" /\ M!Fits(e, M!sent, rest) /\ <<M!sent, e>> \in came
  BY <1>1 DEF M!Matches, M!Kind, M!Due, Texting, TextPlaces
<1>4. /\ Whole(M!sent - 1) /\ first <= M!sent /\ M!sent \in Nat
      /\ \A s \in 1 .. rest - 1 : M!Covered(M!sent, s)
  BY <1>1 DEF Texting, TextPlaces, MessagesTyped, M!sent
<1>5. ASSUME NEW s \in 1 .. rest' - 1 PROVE M!Covered(M!sent, s)
  <2>1. CASE s < rest
    BY <1>2, <1>4, <2>1
  <2>2. CASE ~(s < rest)
    <3>1. rest \in 1 .. s /\ s < rest + M!Size(e)
      BY <1>1, <1>2, <2>2
    <3>2. <<M!sent, e>>[1] = M!sent /\ <<M!sent, e>>[2] = e
      OBVIOUS
    <3> QED BY <1>3, <3>1, <3>2 DEF M!Covered
  <2> QED BY <2>1, <2>2
<1>6. CASE rest' <= Len(texts[M!sent])
  <2>1. at' = "receive"
    BY <1>1, <1>6
  <2>2. M!Due' = M!Due
    BY <1>1, <2>1, WholeKept DEF M!Due
  <2>3. \A s \in 1 .. rest' - 1 : M!Covered(M!sent, s)'
    BY <1>1, <1>5, WholeKept
  <2> QED BY <1>1, <1>4, <2>1, <2>2, <2>3, WholeKept DEF Texting, TextPlaces
<1>7. CASE ~(rest' <= Len(texts[M!sent]))
  <2>1. TextWhole(M!sent)
    <3>1. Len(texts[M!sent]) \in Nat
      <4>1. M!sent \in 1 .. Len(texts)
        BY <1>4 DEF Texting, MessagesTyped, M!sent
      <4>2. texts[M!sent] \in Texts \union {<<>>}
        BY <4>1 DEF Texting, MessagesTyped
      <4> QED BY <4>2, ConstantsAssumption DEF M!Constants
    <3>2. PICK l \in Nat : l = Len(texts[M!sent])
      BY <3>1
    <3>3. rest' \in Nat /\ ~(rest' <= l)
      BY <1>2, <1>7, <3>2
    <3>4. \A s \in 1 .. l : s \in 1 .. rest' - 1
      <4>1. PICK r \in Nat : r = rest'
        BY <3>3
      <4>2. ~(r <= l)
        BY <3>3, <4>1
      <4>3. \A s \in 1 .. l : s \in 1 .. r - 1
        BY <4>2
      <4> QED BY <4>1, <4>3
    <3> QED BY <1>5, <3>2, <3>4 DEF TextWhole
  <2>2. Whole(M!sent)
    <3>1. \A k \in first .. M!sent : k \in first .. M!sent - 1 \/ k = M!sent
      BY <1>4 DEF Texting, MessagesTyped
    <3> QED BY <1>4, <2>1, <3>1 DEF Whole
  <2>3. M!Received
    BY <1>1, <1>7
  <2>4. /\ "sms" \notin follows'
        /\ (at' = "idle" /\ ok' = FALSE) \/ at' = "track" \/ (at' = "idle" /\ ok' = TRUE)
    BY <2>3 DEF M!Received, M!Finally, M!Return
  <2> QED BY <1>1, <2>2, <2>4, WholeKept DEF TextPlaces
<1> QED BY <1>6, <1>7

LEMMA NextTexting == ASSUME Texting, M!Next PROVE Texting'
<1>0. rest \in Nat \ {0}
  BY DEF Texting, MessagesTyped
<1>1. CASE \E o \in {"sms", "mms", "hangup"}, n \in 1 .. 2 : M!Begin(o, n)
  BY <1>1, BeginTexting
<1>2. CASE M!Sessions
  <2>1. /\ at = "sessions" /\ at' = "track" /\ unread' \subseteq unread
        /\ UNCHANGED <<texts, air, came, first, op, follows, rest>>
    BY <1>2 DEF M!Sessions, M!network
  <2> QED BY <1>0, <2>1, QuietTexting, WholeKept DEF Texting, TextPlaces
<1>3. CASE M!Track
  <2>1. /\ at = "track" /\ UNCHANGED <<texts, air, came, first, op>>
        /\ unread' = IF op = "hangup" THEN unread ELSE {e \in unread : e.kind # M!Kind}
        /\ (at' = "send" /\ rest' = 1) \/ (at' = "idle" /\ ok' = FALSE /\ rest' = rest)
    BY <1>3 DEF M!Track, M!Return
  <2>2. op = "sms" => \A e \in unread' : e.kind # "sms"
    BY <2>1 DEF M!Kind
  <2>3. rest' \in Nat \ {0}
    BY <1>0, <2>1
  <2>4. unread' \subseteq unread
    BY <2>1
  <2> QED BY <2>1, <2>2, <2>3, <2>4, QuietTexting, WholeKept DEF Texting, TextPlaces
<1>4. CASE M!Send
  BY <1>4, SendTexting
<1>5. CASE M!HangUp
  <2>1. op # "sms" /\ UNCHANGED <<texts, air, came, first, op, unread, rest>>
    BY <1>5 DEF M!HangUp, M!phones, M!network
  <2> QED BY <1>0, <2>1, QuietTexting
<1>6. CASE M!Confirm
  <2>1. /\ at = "confirm" /\ UNCHANGED <<texts, air, came, first, op, unread, rest>>
        /\ at' = "receive" \/ (at' = "idle" /\ ok' = FALSE)
    BY <1>6 DEF M!Confirm, M!Return, M!network
  <2>2. at' = "receive" => M!Due' = M!Due
    BY <2>1, WholeKept DEF M!Due
  <2> QED BY <1>0, <2>1, <2>2, QuietTexting, WholeKept DEF Texting, TextPlaces
<1>7. CASE \E e \in unread : M!Receive(e)
  BY <1>7, ReceiveTexting
<1>8. CASE M!GivesUp
  <2>1. /\ UNCHANGED <<texts, air, came, first, op, unread, rest>>
        /\ op = "sms" => at' = "idle" /\ ok' = FALSE
    BY <1>8 DEF M!GivesUp, M!Return, M!network
  <2> QED BY <1>0, <2>1, QuietTexting DEF TextPlaces
<1>9. CASE \E e \in air : M!Arrives(e)
  BY <1>9, ArrivesTexting
<1>10. ASSUME NEW p, NEW how, M!SessionEnds(p, how) PROVE Texting'
  <2>1. /\ UNCHANGED <<texts, air, came, first, op, unread, at, rest, ok>>
        /\ follows' \subseteq follows
    BY <1>10 DEF M!SessionEnds, M!network, M!helper
  <2>2. M!Due' = M!Due
    BY <2>1, WholeKept DEF M!Due
  <2> QED BY <1>0, <2>1, <2>2, QuietTexting, WholeKept DEF Texting, TextPlaces
<1> QED BY <1>1, <1>2, <1>3, <1>4, <1>5, <1>6, <1>7, <1>8, <1>9, <1>10 DEF M!Next

LEMMA NextMessages ==
  ASSUME driven = "messages" => Texting, [BedNext]_bed PROVE driven' = "messages" => Texting'
<1> SUFFICES ASSUME driven' = "messages" PROVE Texting'
  OBVIOUS
<1>1. CASE BedNext
  <2>1. driven = "messages"
    BY <1>1 DEF BedNext
  <2>2. M!Next
    BY <1>1, <2>1 DEF BedNext, DriveAccessPoint, DriveDevices, DriveWifi, DriveCalls,
       DriveBluetooth, DrivePhoneSetup, DriveMessages, DriveCoex, DriveLab
  <2> QED BY <2>1, <2>2, NextTexting
<1>2. CASE UNCHANGED bed
  <2>1. driven = "messages" /\ UNCHANGED <<messages, op, ok, at>>
    BY <1>2 DEF bed, helper, vars
  <2>2. UNCHANGED <<texts, air, came, first, op, unread, at, rest, ok, follows>>
    BY <2>1 DEF messages
  <2>3. M!Due' = M!Due /\ rest' \in Nat \ {0}
    BY <2>1, <2>2, WholeKept DEF M!Due, Texting, MessagesTyped
  <2> QED BY <2>1, <2>2, <2>3, QuietTexting, WholeKept DEF Texting, TextPlaces
<1> QED BY <1>1, <1>2

(* For any texts, alike or not, any number of messages, and whatever comes *)
(* late, twice or in pieces or not at all: when a helper that sends texts  *)
(* returns True, every segment of each of them came in an event while the  *)
(* text was due, and it tracks no more (tel_test_utils.py).                *)
THEOREM TextsArrive == BedSpec => []MessageArrived
<1> DEFINE I == driven = "messages" => Texting
<1>1. BedInit => I
  BY InitTexting DEF BedInit
<1>2. I /\ [BedNext]_bed => I'
  BY NextMessages
<1>3. I => MessageArrived
  BY DEF MessageArrived, M!MessageArrived, Texting, TextPlaces, Whole, TextWhole, I
<1> QED BY <1>1, <1>2, <1>3, PTL DEF BedSpec, bed

-----------------------------------------------------------------------------
(* Calls.  A call of call_setup_teardown ("call") from the look at the     *)
(* calls known before (get_call_ids) on.                                   *)
CallPlaces == {"initiate", "dial", "offhook", "answer", "ring", "accept", "answered", "active",
               "verify", "hangup", "end call", "hung up", "finally"}
BeforeAnswer == {"initiate", "dial", "offhook", "answer", "ring", "accept"}
AfterCheck == {"verify", "hangup", "end call", "hung up", "finally"}
LineStates == {"none", "dialing", "ringing", "active", "held", "ended"}
Connected == {"active", "held"}

CallsTyped ==
  /\ placed \in Nat /\ line \in [V!Phones -> [V!Calls -> LineStates]]
  /\ before \in [V!Phones -> SUBSET V!Calls] /\ active \in [V!Phones -> Nat]
  /\ who \in V!Phones
  /\ \A p \in V!Phones, c \in V!Calls : c > placed => line[p][c] = "none"

Planned ==
  /\ plan \in Seq(V!Phones) /\ (at # "idle" => plan # <<>>)
  /\ at \in {"reject", "disconnect", "rejected"} => op # "call"

NewTo(p) == V!Calls \ before[p]

(* The caller's only new call of its own is the one placed, new to both.   *)
Mine ==
  /\ at \in {"initiate", "dial"} => \A p \in V!Phones : \A c \in before[p] : c <= placed
  /\ \A c \in NewTo(V!caller) :
       line[V!caller][c] \in {"dialing"} \union Connected
         => c = placed /\ c \notin before[V!callee] /\ at \notin {"initiate", "dial"}

(* The callee has answered one new call at most, by the one Accept; the    *)
(* caller's is answered only if that one is.                               *)
Taken == {c \in NewTo(V!callee) : line[V!callee][c] \in Connected}
Single ==
  /\ \A c \in NewTo(V!callee) : line[V!callee][c] # "dialing"
  /\ at \in BeforeAnswer =>
       Taken = {} /\ \A c \in NewTo(V!caller) : line[V!caller][c] \notin Connected
  /\ \A c, d \in Taken : c = d
  /\ (\E c \in NewTo(V!caller) : line[V!caller][c] \in Connected) => Taken \subseteq {placed}

Checked ==
  /\ at = "active" /\ who = V!callee /\ result => active[V!caller] = placed /\ Taken \subseteq {placed}
  /\ at \in AfterCheck /\ result => \A p \in V!Phones : active[p] = placed

Calling ==
  /\ CallsTyped /\ Planned
  /\ op = "call" /\ at \in CallPlaces => Mine /\ Single /\ Checked
  /\ op = "call" /\ at = "idle" /\ ok => \A p \in V!Phones : active[p] = placed

LEMMA TwoPhones == PhoneA # PhoneB /\ MaxCalls \in Nat
BY ConstantsAssumption DEF V!Constants

LEMMA InitCalling == ASSUME V!Init PROVE Calling
BY DEF V!Init, Calling, CallsTyped, Planned, CallPlaces, V!Phones, LineStates

(* Both ends of a call.                                                    *)
LEMMA TwoEnds ==
  ASSUME Planned, at # "idle"
  PROVE  /\ V!caller \in V!Phones /\ V!callee \in V!Phones /\ V!caller # V!callee
         /\ \A p \in V!Phones : p = V!caller \/ p = V!callee
BY TwoPhones DEF Planned, V!caller, V!callee, V!Phones

(* A call may end, or ring on a phone that did not know it.                *)
Fades ==
  /\ placed' = placed /\ line' \in [V!Phones -> [V!Calls -> LineStates]]
  /\ \A p \in V!Phones, c \in V!Calls :
       \/ line'[p][c] = line[p][c]
       \/ line'[p][c] = "ended" /\ line[p][c] \in V!Live
       \/ line'[p][c] = "ringing" /\ c <= placed

LEMMA SameFades == ASSUME CallsTyped, UNCHANGED <<placed, line>> PROVE Fades
BY DEF CallsTyped, Fades

LEMMA EndsFade ==
  ASSUME CallsTyped, NEW p \in V!Phones, NEW cs \in V!Ends(line[p]), V!Become(p, cs), placed' = placed
  PROVE  Fades
<1>1. line' = [line EXCEPT ![p] = cs]
  BY DEF V!Become
<1>2. cs = line[p] \/ \E c \in V!Calls : line[p][c] \in V!Live /\ cs = [line[p] EXCEPT ![c] = "ended"]
  BY DEF V!Ends
<1>3. cs \in [V!Calls -> LineStates]
  BY <1>2 DEF CallsTyped, LineStates
<1> QED BY <1>1, <1>2, <1>3 DEF CallsTyped, Fades

LEMMA NetworkFades ==
  ASSUME CallsTyped, NEW p \in V!Phones, NEW q \in V!Phones, NEW c \in V!Calls,
         V!Rings(p, q, c) \/ V!Drops(p, c)
  PROVE  Fades
<1>1. CASE V!Rings(p, q, c)
  <2>1. /\ line' = [line EXCEPT ![q] = [line[q] EXCEPT ![c] = "ringing"]] /\ placed' = placed
        /\ line[p][c] = "dialing"
    BY <1>1 DEF V!Rings, V!Become
  <2>2. c <= placed
    BY <2>1, TwoPhones DEF CallsTyped, V!Calls
  <2> QED BY <2>1, <2>2 DEF CallsTyped, Fades, LineStates
<1>2. CASE V!Drops(p, c)
  <2>1. /\ line' = [line EXCEPT ![p] = [line[p] EXCEPT ![c] = "ended"]] /\ placed' = placed
        /\ line[p][c] \in V!Live
    BY <1>2 DEF V!Drops, V!Become
  <2> QED BY <2>1 DEF CallsTyped, Fades, LineStates
<1> QED BY <1>1, <1>2

LEMMA FadesTyped ==
  ASSUME CallsTyped, Fades, UNCHANGED <<before, active>>, who' \in V!Phones PROVE CallsTyped'
<1>1. ASSUME NEW p \in V!Phones, NEW c \in V!Calls, c > placed' PROVE line'[p][c] = "none"
  <2>1. c > placed /\ ~(c <= placed)
    BY <1>1, TwoPhones DEF CallsTyped, Fades, V!Calls
  <2>2. line[p][c] = "none"
    BY <2>1 DEF CallsTyped
  <2> QED BY <2>1, <2>2 DEF Fades, V!Live
<1> QED BY <1>1 DEF CallsTyped, Fades

(* Where only that happens, on the same way to the check, both stay true.  *)
LEMMA FadesKeep ==
  ASSUME CallsTyped, Planned, Mine, Single, Fades, UNCHANGED <<plan, before>>,
         at \in CallPlaces, at' \in CallPlaces, at' \in BeforeAnswer => at \in BeforeAnswer,
         at' \in {"initiate", "dial"} => at \in {"initiate", "dial"}
  PROVE  Mine' /\ Single' /\ Taken' \subseteq Taken
<1>1. /\ V!caller' = V!caller /\ V!callee' = V!callee /\ NewTo(V!caller)' = NewTo(V!caller)
      /\ NewTo(V!callee)' = NewTo(V!callee)
  BY DEF V!caller, V!callee, NewTo
<1>2. V!caller \in V!Phones /\ V!callee \in V!Phones /\ at # "idle"
  BY TwoEnds DEF CallPlaces
<1>3. \A p \in V!Phones, c \in V!Calls :
        line'[p][c] \in {"dialing", "active", "held"} => line'[p][c] = line[p][c]
  BY DEF Fades
<1>4. NewTo(V!caller) \subseteq V!Calls /\ NewTo(V!callee) \subseteq V!Calls
  BY DEF NewTo
<1>5. Taken' \subseteq Taken
  BY <1>1, <1>2, <1>3, <1>4 DEF Taken, Connected
<1>6. Mine'
  BY <1>1, <1>2, <1>3, <1>4 DEF Mine, Connected, Fades
<1>7. Single'
  BY <1>1, <1>2, <1>3, <1>4, <1>5 DEF Single, Connected, Fades
<1> QED BY <1>5, <1>6, <1>7

(* The network answers a call that the other phone has answered.           *)
LEMMA IsAnsweredKeeps ==
  ASSUME Calling, NEW p \in V!Phones, NEW q \in V!Phones, NEW c \in V!Calls, V!IsAnswered(p, q, c)
  PROVE  Calling'
<1>1. /\ line' = [line EXCEPT ![p] = [line[p] EXCEPT ![c] = "active"]] /\ line[p][c] = "dialing"
      /\ line[q][c] = "active" /\ UNCHANGED <<placed, before, plan, at, op, who, result, ok, active>>
  BY DEF V!IsAnswered, V!Become, V!Test, V!call
<1>2. CallsTyped' /\ Planned'
  BY <1>1 DEF Calling, CallsTyped, Planned, LineStates
<1>3. ASSUME op = "call", at \in CallPlaces PROVE Mine' /\ Single' /\ Checked'
  <2>1. Mine /\ Single /\ Checked /\ CallsTyped /\ Planned
    BY <1>3 DEF Calling
  <2>2. /\ V!caller \in V!Phones /\ V!callee \in V!Phones /\ V!caller # V!callee
        /\ \A r \in V!Phones : r = V!caller \/ r = V!callee
    BY <1>3, <2>1, TwoEnds DEF CallPlaces
  <2>3. /\ V!caller' = V!caller /\ V!callee' = V!callee /\ NewTo(V!caller)' = NewTo(V!caller)
        /\ NewTo(V!callee)' = NewTo(V!callee)
    BY <1>1 DEF V!caller, V!callee, NewTo
  <2>4. NewTo(V!caller) \subseteq V!Calls /\ NewTo(V!callee) \subseteq V!Calls
    BY DEF NewTo
  <2>5. \A r \in V!Phones, d \in V!Calls :
          line'[r][d] = line[r][d] \/ (r = p /\ d = c /\ line'[r][d] = "active")
    BY <1>1, <2>1 DEF CallsTyped
  <2>6. p = V!callee => c \notin NewTo(V!callee)
    BY <1>1, <2>1 DEF Single
  <2>7. Taken' = Taken
    BY <2>2, <2>3, <2>4, <2>5, <2>6 DEF Taken
  <2>8. p = q => FALSE
    BY <1>1
  <2>9. p = V!caller /\ c \in NewTo(V!caller) => c = placed /\ placed \in Taken
    BY <1>1, <2>1, <2>2, <2>8 DEF Mine, Taken, NewTo, Connected
  <2>10. Mine'
    BY <1>1, <2>1, <2>2, <2>3, <2>4, <2>5 DEF Mine, Connected
  <2>11. Single'
    <3>1. \A d \in NewTo(V!callee) : line'[V!callee][d] # "dialing"
      BY <2>1, <2>2, <2>4, <2>5 DEF Single
    <3>2. CASE p = V!caller /\ c \in NewTo(V!caller)
      BY <1>1, <2>1, <2>3, <2>7, <2>9, <3>1, <3>2 DEF Single
    <3>3. CASE ~(p = V!caller /\ c \in NewTo(V!caller))
      <4>1. \A d \in NewTo(V!caller) : line'[V!caller][d] = line[V!caller][d]
        BY <2>2, <2>4, <2>5, <3>3
      <4> QED BY <1>1, <2>1, <2>3, <2>7, <3>1, <4>1 DEF Single
    <3> QED BY <3>2, <3>3
  <2>12. Checked'
    BY <1>1, <2>1, <2>3, <2>7 DEF Checked
  <2> QED BY <2>10, <2>11, <2>12
<1> QED BY <1>1, <1>2, <1>3 DEF Calling

(* The one new call that the callee accepts.                               *)
LEMMA AcceptKeeps ==
  ASSUME Calling, V!Accept
  PROVE  Calling'
<1>1. PICK cs \in V!Accepts(line[V!callee]) :
        /\ line' = [line EXCEPT ![V!callee] = cs] /\ at = "accept" /\ at' = "answered"
        /\ UNCHANGED <<placed, before, plan, op, who, result, ok, active>>
  BY DEF V!Accept, V!Become, V!call
<1>2. /\ V!caller \in V!Phones /\ V!callee \in V!Phones /\ V!caller # V!callee
      /\ \A r \in V!Phones : r = V!caller \/ r = V!callee
  BY <1>1, TwoEnds DEF Calling
<1>3. CallsTyped /\ Planned
  BY DEF Calling
<1>4. Planned'
  BY <1>1, <1>3 DEF Planned
<1>5. CASE cs = line[V!callee]
  <2>1. line' = line
    BY <1>1, <1>2, <1>3, <1>5 DEF CallsTyped
  <2>2. Fades
    BY <1>1, <1>3, <2>1, SameFades
  <2>3. CallsTyped'
    BY <1>1, <1>3, <2>2, FadesTyped DEF CallsTyped
  <2>4. op = "call" => Mine' /\ Single'
    BY <1>1, <1>3, <2>2, FadesKeep DEF Calling, CallPlaces, BeforeAnswer
  <2> QED BY <1>1, <1>4, <2>3, <2>4 DEF Calling, Checked, AfterCheck
<1>6. CASE cs # line[V!callee]
  <2>1. PICK d \in V!Calls :
          line[V!callee][d] = "ringing" /\ cs = [V!Hold(line[V!callee]) EXCEPT ![d] = "active"]
    BY <1>1, <1>6 DEF V!Accepts
  <2>2. \A c \in V!Calls : cs[c] = IF c = d THEN "active"
                                   ELSE IF line[V!callee][c] = "active" THEN "held"
                                   ELSE line[V!callee][c]
    BY <2>1 DEF V!Hold
  <2>3. cs \in [V!Calls -> LineStates]
    BY <1>2, <1>3, <2>1 DEF V!Hold, CallsTyped, LineStates
  <2>4. line'[V!callee] = cs /\ line'[V!caller] = line[V!caller]
    BY <1>1, <1>2, <1>3 DEF CallsTyped
  <2>5. CallsTyped'
    <3>1. \A c \in V!Calls : c > placed => cs[c] = "none"
      BY <1>2, <1>3, <2>1, <2>2 DEF CallsTyped
    <3> QED BY <1>1, <1>2, <1>3, <2>3, <2>4, <3>1 DEF CallsTyped
  <2>6. ASSUME op = "call" PROVE Mine' /\ Single'
    <3>1. Mine /\ Single /\ at \in BeforeAnswer
      BY <1>1, <2>6 DEF Calling, CallPlaces, BeforeAnswer
    <3>2. /\ V!caller' = V!caller /\ V!callee' = V!callee /\ NewTo(V!caller)' = NewTo(V!caller)
          /\ NewTo(V!callee)' = NewTo(V!callee)
      BY <1>1 DEF V!caller, V!callee, NewTo
    <3>3. NewTo(V!caller) \subseteq V!Calls /\ NewTo(V!callee) \subseteq V!Calls
      BY DEF NewTo
    <3>4. \A c \in NewTo(V!callee) : line[V!callee][c] \notin Connected
      BY <3>1 DEF Single, Taken
    <3>5. Taken' \subseteq {d}
      BY <2>2, <2>4, <3>2, <3>3, <3>4 DEF Taken, Connected
    <3>6. \A c \in NewTo(V!callee) : cs[c] # "dialing"
      BY <2>2, <3>1, <3>3 DEF Single
    <3>7. Mine'
      BY <1>1, <2>4, <3>1, <3>2 DEF Mine
    <3>8. Single'
      BY <1>1, <2>4, <3>1, <3>2, <3>5, <3>6 DEF Single, BeforeAnswer
    <3> QED BY <3>7, <3>8
  <2> QED BY <1>1, <1>4, <2>5, <2>6 DEF Calling, Checked, AfterCheck
<1> QED BY <1>5, <1>6

LEMMA DialKeeps == ASSUME Calling, V!Dial PROVE Calling'
<1>1. /\ at = "dial" /\ at' = "offhook" /\ UNCHANGED <<before, plan, op, who, result, ok, active>>
      /\ \/ /\ placed < MaxCalls /\ placed' = placed + 1
            /\ line' = [line EXCEPT ![V!caller] = [V!Hold(line[V!caller]) EXCEPT ![placed'] = "dialing"]]
         \/ UNCHANGED <<placed, line>>
  BY DEF V!Dial, V!Become, V!call, V!network
<1>2. /\ V!caller \in V!Phones /\ V!callee \in V!Phones /\ V!caller # V!callee
      /\ \A r \in V!Phones : r = V!caller \/ r = V!callee
  BY <1>1, TwoEnds DEF Calling
<1>3. CallsTyped /\ Planned
  BY DEF Calling
<1>4. Planned'
  BY <1>1, <1>3 DEF Planned
<1>5. CASE UNCHANGED <<placed, line>>
  <2>1. Fades
    BY <1>3, <1>5, SameFades
  <2>2. CallsTyped'
    BY <1>1, <1>3, <2>1, FadesTyped DEF CallsTyped
  <2>3. op = "call" => Mine' /\ Single'
    BY <1>1, <1>3, <2>1, FadesKeep DEF Calling, CallPlaces, BeforeAnswer
  <2> QED BY <1>1, <1>4, <2>2, <2>3 DEF Calling, Checked, AfterCheck
<1>6. CASE placed < MaxCalls /\ placed' = placed + 1
           /\ line' = [line EXCEPT ![V!caller] = [V!Hold(line[V!caller]) EXCEPT ![placed'] = "dialing"]]
  <2>1. /\ placed' \in V!Calls /\ placed' \in Nat
        /\ \A c \in V!Calls : (c > placed' => c > placed /\ c # placed') /\ (c <= placed => c # placed')
    BY <1>3, <1>6, TwoPhones DEF CallsTyped, V!Calls
  <2>2. \A c \in V!Calls : line'[V!caller][c] = IF c = placed' THEN "dialing"
                                   ELSE IF line[V!caller][c] = "active" THEN "held"
                                   ELSE line[V!caller][c]
    BY <1>2, <1>3, <1>6 DEF V!Hold, CallsTyped
  <2>3. line' \in [V!Phones -> [V!Calls -> LineStates]] /\ line'[V!callee] = line[V!callee]
    BY <1>2, <1>3, <1>6, <2>1 DEF V!Hold, CallsTyped, LineStates
  <2>4. CallsTyped'
    <3>1. ASSUME NEW p \in V!Phones, NEW c \in V!Calls, c > placed' PROVE line'[p][c] = "none"
      <4>1. c # placed' /\ line[p][c] = "none"
        BY <1>3, <2>1, <3>1 DEF CallsTyped
      <4> QED BY <1>2, <2>2, <2>3, <4>1
    <3> QED BY <1>1, <1>3, <2>1, <2>3, <3>1 DEF CallsTyped
  <2>5. ASSUME op = "call" PROVE Mine' /\ Single'
    <3>1. Mine /\ Single /\ at \in BeforeAnswer
      BY <1>1, <2>5 DEF Calling, CallPlaces, BeforeAnswer
    <3>2. /\ V!caller' = V!caller /\ V!callee' = V!callee /\ NewTo(V!caller)' = NewTo(V!caller)
          /\ NewTo(V!callee)' = NewTo(V!callee)
      BY <1>1 DEF V!caller, V!callee, NewTo
    <3>3. NewTo(V!caller) \subseteq V!Calls /\ NewTo(V!callee) \subseteq V!Calls
      BY DEF NewTo
    <3>4. before[V!callee] \subseteq V!Calls /\ \A c \in before[V!callee] : c <= placed
      BY <1>1, <1>2, <1>3, <3>1 DEF Mine, CallsTyped
    <3>5. placed' \notin before[V!callee]
      BY <2>1, <3>4
    <3>6. \A c \in NewTo(V!caller) : line[V!caller][c] \notin {"dialing"} \union Connected
      BY <1>1, <3>1 DEF Mine
    <3>7. Mine'
      BY <1>1, <2>2, <3>2, <3>3, <3>5, <3>6 DEF Mine, Connected
    <3>8. Taken' = {}
      BY <2>3, <3>1, <3>2 DEF Single, Taken
    <3>9. \A c \in NewTo(V!caller) : line'[V!caller][c] \notin Connected
      BY <2>2, <3>3, <3>6 DEF Connected
    <3>10. Single'
      BY <2>3, <3>1, <3>2, <3>8, <3>9 DEF Single
    <3> QED BY <3>7, <3>10
  <2> QED BY <1>1, <1>4, <2>4, <2>5 DEF Calling, Checked, AfterCheck
<1> QED BY <1>1, <1>5, <1>6

LEMMA IdsKeep == ASSUME Calling, V!GetCallIds PROVE Calling'
<1>1. /\ at = "ids" /\ at' = "initiate" /\ UNCHANGED <<placed, line, plan, op, who, ok>>
      /\ before' = [p \in V!Phones |-> V!Known(p)] /\ active' = [p \in V!Phones |-> 0]
  BY DEF V!GetCallIds, V!network
<1>2. /\ V!caller' \in V!Phones /\ V!callee' \in V!Phones
      /\ V!caller' = V!caller /\ V!callee' = V!callee
  BY <1>1, TwoEnds DEF Calling, V!caller, V!callee
<1>3. CallsTyped /\ Planned
  BY DEF Calling
<1>4. Planned'
  BY <1>1, <1>3 DEF Planned
<1>5. \A p \in V!Phones : before'[p] = V!Known(p) /\ V!Known(p) \subseteq V!Calls
  BY <1>1 DEF V!Known
<1>6. CallsTyped'
  BY <1>1, <1>3, <1>5 DEF CallsTyped
<1>7. ASSUME NEW p \in V!Phones, NEW c \in before'[p] PROVE c <= placed
  <2>1. c \in V!Calls /\ line[p][c] # "none"
    BY <1>5, <1>7 DEF V!Known, V!Live
  <2> QED BY <1>3, <2>1, TwoPhones DEF CallsTyped, V!Calls
<1>8. \A p \in V!Phones : \A c \in V!Calls \ before'[p] :
        line[p][c] \notin {"dialing"} \union Connected
  BY <1>5 DEF V!Known, V!Live, Connected
<1>9. Mine'
  BY <1>1, <1>2, <1>7, <1>8 DEF Mine, NewTo
<1>10. Taken' = {}
  BY <1>1, <1>2, <1>8 DEF Taken, NewTo
<1>11. Single'
  BY <1>1, <1>2, <1>8, <1>10 DEF Single, NewTo
<1> QED BY <1>1, <1>4, <1>6, <1>9, <1>11 DEF Calling, Checked, AfterCheck

(* A step between two places of a call, and one that is not.               *)
LEMMA OnwardKeeps ==
  ASSUME Calling, Fades, UNCHANGED <<op, plan, before, active>>, who' \in V!Phones,
         at # "idle", at' # "idle", at' \notin {"reject", "disconnect", "rejected"} \/ op # "call",
         op = "call" /\ at' \in CallPlaces =>
           /\ at \in CallPlaces /\ (at' \in BeforeAnswer => at \in BeforeAnswer)
           /\ at' \in {"initiate", "dial"} => at \in {"initiate", "dial"}
           /\ at' = "active" => who' = V!caller
           /\ at' \in AfterCheck /\ result' => at \in AfterCheck /\ result
  PROVE  Calling'
<1>1. CallsTyped' /\ Planned'
  BY FadesTyped DEF Calling, CallsTyped, Planned
<1>2. ASSUME op = "call", at' \in CallPlaces PROVE Mine' /\ Single' /\ Checked'
  <2>1. Mine' /\ Single'
    BY <1>2, FadesKeep DEF Calling
  <2>2. placed' = placed /\ V!callee' = V!callee /\ V!caller # V!callee
    BY TwoEnds DEF Fades, V!callee, V!caller, Calling
  <2>3. Checked'
    BY <1>2, <2>2 DEF Checked, Calling
  <2> QED BY <2>1, <2>3
<1> QED BY <1>1, <1>2 DEF Calling

LEMMA AsideKeeps ==
  ASSUME Calling, Fades, before' \in [V!Phones -> SUBSET V!Calls], active' \in [V!Phones -> Nat],
         who' \in V!Phones, Planned',
         op' = "call" => /\ at' \notin CallPlaces
                         /\ at' = "idle" /\ ok' => \A p \in V!Phones : active'[p] = placed'
  PROVE  Calling'
<1>1. CallsTyped'
  <2>1. \A p \in V!Phones, c \in V!Calls : c > placed' => line'[p][c] = "none"
    <3> DEFINE idle == [p \in V!Phones |-> 0]
    <3>1. ASSUME NEW p \in V!Phones, NEW c \in V!Calls, c > placed' PROVE line'[p][c] = "none"
      <4>1. c > placed /\ ~(c <= placed)
        BY <3>1, TwoPhones DEF Calling, CallsTyped, Fades, V!Calls
      <4>2. line[p][c] = "none"
        BY <4>1 DEF Calling, CallsTyped
      <4> QED BY <4>1, <4>2 DEF Fades, V!Live
    <3> QED BY <3>1
  <2> QED BY <2>1 DEF Calling, CallsTyped, Fades
<1> QED BY <1>1 DEF Calling

(* Return of anything but a success of a call.                             *)
LEMMA ReturnKeeps ==
  ASSUME Calling, Fades, UNCHANGED <<op, before, active>>, NEW success, V!Return(success),
         at # "idle", op = "call" /\ success => \A p \in V!Phones : active[p] = placed
  PROVE  Calling'
<1>1. plan \in Seq(V!Phones) /\ plan # <<>>
  BY DEF Calling, Planned
<1>2. plan' \in Seq(V!Phones) /\ (Len(plan) > 1 => plan' # <<>>)
  BY <1>1 DEF V!Return
<1>3. at' \in {"end", "idle"} /\ (at' = "end" => plan' # <<>>) /\ who' \in V!Phones /\ ok' = success
  BY <1>2 DEF V!Return, V!Phones
<1>4. Planned'
  BY <1>2, <1>3 DEF Planned
<1>5. op' = "call" => at' \notin CallPlaces
                      /\ (at' = "idle" /\ ok' => \A p \in V!Phones : active'[p] = placed')
  BY <1>3 DEF CallPlaces, Fades
<1> QED BY <1>3, <1>4, <1>5, AsideKeeps DEF Calling, CallsTyped

LEMMA FailKeeps ==
  ASSUME Calling, Fades, UNCHANGED <<op, before, active>>, V!Return(FALSE), at # "idle"
  PROVE  Calling'
BY ReturnKeeps

LEMMA BeginKeeps ==
  ASSUME Calling, NEW o, NEW calling \in Seq(V!Phones), calling # <<>>, NEW start,
         V!Begin(o, calling, start), start \in {"end", "ids"} \/ (o = "reject" /\ start = "initiate")
  PROVE  Calling'
<1>1. Fades
  BY SameFades DEF V!Begin, V!network, Calling
<1>2. /\ before' = [p \in V!Phones |-> {}] /\ active' = [p \in V!Phones |-> 0] /\ who' = PhoneA
      /\ plan' = calling /\ op' = o /\ at' = start
  BY DEF V!Begin
<1>3. /\ before' \in [V!Phones -> SUBSET V!Calls] /\ active' \in [V!Phones -> Nat]
      /\ who' \in V!Phones
  BY <1>2 DEF V!Phones
<1>4. Planned'
  BY <1>2 DEF Planned
<1> QED BY <1>1, <1>2, <1>3, <1>4, AsideKeeps DEF CallPlaces

LEMMA Joined ==
  ASSUME NEW S, NEW s \in Seq(S), NEW t \in Seq(S)
  PROVE  s \o t \in Seq(S) /\ Len(s \o t) = Len(s) + Len(t)
OBVIOUS

LEMMA BeginsKeep ==
  ASSUME Calling,
         \/ \E p \in {V!ShortSeq, V!LongSeq} : V!Begin("call", p, "end")
         \/ \E p \in V!OneCall : V!Begin("call", p, "ids")
         \/ \E p \in V!Phones : V!Begin("reject", <<p>>, "initiate")
  PROVE  Calling'
<1>1. /\ V!ShortSeq \in Seq(V!Phones) /\ V!ShortSeq # <<>>
  BY DEF V!ShortSeq, V!Phones
<1>2. /\ V!LongSeq \in Seq(V!Phones) /\ V!LongSeq # <<>>
  <2> DEFINE second == <<PhoneB, PhoneB>>
  <2>1. second \in Seq(V!Phones) /\ Len(second) = 2
    BY DEF V!Phones
  <2>2. V!LongSeq = V!ShortSeq \o second
    BY DEF V!LongSeq
  <2> HIDE DEF second
  <2>3. V!LongSeq \in Seq(V!Phones) /\ Len(V!LongSeq) = Len(V!ShortSeq) + Len(second)
    BY <1>1, <2>1, <2>2, Joined
  <2>4. Len(V!ShortSeq) \in Nat
    BY <1>1
  <2> QED BY <2>1, <2>3, <2>4
<1>3. \A p \in V!Phones : <<p>> \in Seq(V!Phones) /\ <<p>> # <<>>
  OBVIOUS
<1>4. CASE \E p \in {V!ShortSeq, V!LongSeq} : V!Begin("call", p, "end")
  BY <1>1, <1>2, <1>4, BeginKeeps
<1>5. CASE \E p \in V!OneCall : V!Begin("call", p, "ids")
  BY <1>3, <1>5, BeginKeeps DEF V!OneCall
<1>6. CASE \E p \in V!Phones : V!Begin("reject", <<p>>, "initiate")
  BY <1>3, <1>6, BeginKeeps
<1> QED BY <1>4, <1>5, <1>6

LEMMA CheckKeeps == ASSUME Calling, NEW c \in V!Calls, V!CheckActive(c) PROVE Calling'
<1>1. /\ UNCHANGED <<placed, line, op, plan, before, ok>> /\ at = "active" /\ c \in V!Known(who) \ before[who]
      /\ \/ line[who][c] = "active" /\ result' = result /\ active' = [active EXCEPT ![who] = c]
         \/ result' = FALSE /\ active' = active
      /\ IF who = V!caller THEN who' = V!callee /\ at' = at ELSE at' = "verify" /\ who' = who
  BY DEF V!CheckActive, V!network, V!call
<1>2. /\ V!caller \in V!Phones /\ V!callee \in V!Phones /\ V!caller # V!callee
      /\ \A r \in V!Phones : r = V!caller \/ r = V!callee
  BY <1>1, TwoEnds DEF Calling
<1>3. CallsTyped /\ Planned
  BY DEF Calling
<1>4. Fades
  BY <1>1, <1>3, SameFades
<1>5. CallsTyped' /\ Planned'
  <2>1. active' \in [V!Phones -> Nat] /\ who' \in V!Phones
    BY <1>1, <1>2, <1>3, TwoPhones DEF CallsTyped, V!Calls
  <2> QED BY <1>1, <1>3, <2>1 DEF CallsTyped, Planned
<1>6. ASSUME op = "call" PROVE Mine' /\ Single' /\ Checked'
  <2>1. Mine /\ Single /\ Checked /\ at \in CallPlaces /\ at' \in CallPlaces /\ at \notin BeforeAnswer
        /\ at' \notin BeforeAnswer
    BY <1>1, <1>6 DEF Calling, CallPlaces, BeforeAnswer
  <2>2. Mine' /\ Single' /\ Taken' \subseteq Taken
    BY <1>1, <1>3, <1>4, <2>1, FadesKeep DEF BeforeAnswer
  <2>3. V!caller' = V!caller /\ V!callee' = V!callee
    BY <1>1 DEF V!caller, V!callee
  <2>4. c \in NewTo(who)
    BY <1>1 DEF NewTo
  <2>5. CASE ~result'
    BY <2>2, <2>5 DEF Checked
  <2>6. CASE result' /\ who = V!caller
    <3>1. line[V!caller][c] = "active" /\ active' = [active EXCEPT ![who] = c]
      BY <1>1, <2>6
    <3>2. c = placed /\ Taken \subseteq {placed}
      BY <2>1, <2>4, <2>6, <3>1 DEF Mine, Single, Connected
    <3>3. active'[V!caller] = placed
      BY <1>2, <1>3, <2>6, <3>1, <3>2 DEF CallsTyped
    <3> QED BY <1>1, <2>2, <2>3, <2>6, <3>2, <3>3 DEF Checked, AfterCheck
  <2>7. CASE result' /\ who # V!caller
    <3>1. /\ line[who][c] = "active" /\ active' = [active EXCEPT ![who] = c] /\ who = V!callee
          /\ result' = result
      BY <1>1, <1>2, <1>3, <2>7 DEF CallsTyped
    <3>2. c \in Taken
      BY <2>4, <3>1 DEF Taken, Connected
    <3>3. c = placed /\ active[V!caller] = placed
      BY <1>1, <2>1, <2>7, <3>1, <3>2 DEF Checked
    <3>4. \A p \in V!Phones : active'[p] = placed
      BY <1>2, <1>3, <3>1, <3>3 DEF CallsTyped
    <3> QED BY <1>1, <1>2, <2>2, <2>3, <2>7, <3>1, <3>4 DEF Checked
  <2> QED BY <2>2, <2>5, <2>6, <2>7
<1> QED BY <1>1, <1>5, <1>6 DEF Calling

LEMMA FinallyKeeps == ASSUME Calling, V!Finally PROVE Calling'
<1>1. Fades
  <2>1. CASE ~result /\ V!InCall(who)
    BY <2>1, EndsFade DEF V!Finally, Calling, CallsTyped
  <2>2. CASE ~(~result /\ V!InCall(who))
    BY <2>2, SameFades DEF V!Finally, Calling
  <2> QED BY <2>1, <2>2
<1>2. at = "finally" /\ UNCHANGED <<op, before, active, result>>
  BY DEF V!Finally
<1>3. CASE result \/ who = V!callee
  <2>1. V!Return(result)
    BY <1>3 DEF V!Finally
  <2>2. op = "call" /\ result => \A p \in V!Phones : active[p] = placed
    BY <1>2 DEF Calling, Checked, CallPlaces, AfterCheck
  <2> QED BY <1>1, <1>2, <2>1, <2>2, ReturnKeeps
<1>4. CASE ~(result \/ who = V!callee)
  <2>1. who' = V!callee /\ UNCHANGED <<at, plan>> /\ V!callee \in V!Phones
    BY <1>2, <1>4, TwoEnds DEF V!Finally, Calling
  <2> QED BY <1>1, <1>2, <2>1, OnwardKeeps DEF CallPlaces, BeforeAnswer, AfterCheck
<1> QED BY <1>3, <1>4

LEMMA EmptyPlan == <<>> \in Seq(V!Phones)
OBVIOUS

LEMMA EarlyKeeps ==
  ASSUME Calling, V!EnsureIdle \/ V!Reselect \/ V!Initiate \/ V!Offhook \/ V!AwaitCall \/ V!Ringing
                  \/ V!NeverRings \/ V!Answered \/ V!NoNewCall
  PROVE  Calling'
<1>0. ASSUME UNCHANGED <<placed, line>> PROVE Fades
  BY <1>0, SameFades DEF Calling
<1>a. at # "idle" => V!caller \in V!Phones /\ V!callee \in V!Phones
  BY TwoEnds DEF Calling
<1>b. who \in V!Phones
  BY DEF Calling, CallsTyped
<1> USE DEF CallPlaces, BeforeAnswer, AfterCheck, V!call
<1>1. CASE V!EnsureIdle
  <2>1. Fades
    <3>1. CASE V!InCall(who)
      BY <1>1, <1>b, <3>1, EndsFade DEF V!EnsureIdle, Calling
    <3>2. CASE ~V!InCall(who)
      BY <1>1, <3>2, SameFades DEF V!EnsureIdle, Calling
    <3> QED BY <3>1, <3>2
  <2> QED BY <1>1, <1>b, <2>1, OnwardKeeps DEF V!EnsureIdle, V!Phones
<1>2. CASE V!Reselect
  <2>1. /\ UNCHANGED <<placed, line, op, before, active, who, result>> /\ at = "reselect"
        /\ \/ at' = "ids" /\ UNCHANGED plan
           \/ plan' = <<>> /\ at' = "idle" /\ ok' = FALSE
    BY <1>2 DEF V!Reselect, V!network
  <2>2. CASE at' = "ids"
    BY <1>0, <1>2, <1>b, <2>1, <2>2, OnwardKeeps DEF V!Reselect
  <2>3. CASE at' = "idle"
    <3>1. Planned'
      BY <2>1, <2>3, EmptyPlan DEF Planned
    <3>2. before' \in [V!Phones -> SUBSET V!Calls] /\ active' \in [V!Phones -> Nat]
      BY <2>1 DEF Calling, CallsTyped
    <3> QED BY <1>0, <1>2, <1>b, <2>1, <2>3, <3>1, <3>2, AsideKeeps DEF V!Reselect
  <2> QED BY <2>1, <2>2, <2>3
<1>3. CASE V!Initiate
  <2>1. UNCHANGED <<placed, line, op, plan, before, active, who, result>> /\ at = "initiate" /\ at' = "dial"
    BY <1>3 DEF V!Initiate, V!network
  <2> QED BY <1>0, <1>3, <1>b, <2>1, OnwardKeeps
<1>4. CASE V!Offhook
  <2>1. /\ UNCHANGED <<placed, line, op, before, active, result>> /\ at = "offhook"
        /\ (at' = "answer" /\ UNCHANGED <<plan, who>>) \/ V!Return(FALSE)
    BY <1>4 DEF V!Offhook, V!network
  <2> QED BY <1>0, <1>4, <1>b, <2>1, OnwardKeeps, FailKeeps
<1>5. CASE V!AwaitCall
  <2>1. UNCHANGED <<placed, line, op, plan, before, active, who, result>> /\ at = "answer" /\ at' = "ring"
    BY <1>5 DEF V!AwaitCall, V!network
  <2> QED BY <1>0, <1>5, <1>b, <2>1, OnwardKeeps
<1>6. CASE V!Ringing
  <2>1. /\ UNCHANGED <<placed, line, op, before, active, result>> /\ at = "ring"
        /\ \/ op = "call" /\ at' = "accept" /\ UNCHANGED <<plan, who>>
           \/ op = "reject" /\ at' = "reject" /\ UNCHANGED <<plan, who>>
           \/ V!Return(FALSE)
    BY <1>6 DEF V!Ringing, V!network
  <2> QED BY <1>0, <1>6, <1>b, <2>1, OnwardKeeps, FailKeeps
<1>7. CASE V!NeverRings
  <2>1. UNCHANGED <<placed, line, op, before, active>> /\ at = "ring" /\ V!Return(FALSE)
    BY <1>7 DEF V!NeverRings, V!network
  <2> QED BY <1>0, <1>7, <2>1, FailKeeps
<1>8. CASE V!Answered
  <2>1. /\ UNCHANGED <<placed, line, op, before, active, result>> /\ at = "answered"
        /\ (at' = "active" /\ who' = V!caller /\ UNCHANGED plan) \/ V!Return(FALSE)
    BY <1>8 DEF V!Answered, V!network
  <2> QED BY <1>0, <1>8, <1>a, <2>1, OnwardKeeps, FailKeeps
<1>9. CASE V!NoNewCall
  <2>1. /\ UNCHANGED <<placed, line, op, before, active, result>> /\ at = "active"
        /\ (~result /\ at' = "finally" /\ who' = V!caller /\ UNCHANGED plan) \/ V!Return(FALSE)
    BY <1>9 DEF V!NoNewCall, V!network
  <2> QED BY <1>0, <1>9, <1>a, <2>1, OnwardKeeps, FailKeeps
<1> QED BY <1>1, <1>2, <1>3, <1>4, <1>5, <1>6, <1>7, <1>8, <1>9

LEMMA LateKeeps ==
  ASSUME Calling, \/ V!Verify \/ (\E p \in V!Phones \union {NoPhone} : V!Hangup(p)) \/ V!EndCall
                  \/ V!HungUp \/ V!StartReject \/ (\E found \in BOOLEAN : V!Reject(found)) \/ V!Rejected
  PROVE  Calling'
<1>a. at # "idle" => V!caller \in V!Phones /\ V!callee \in V!Phones
  BY TwoEnds DEF Calling
<1>b. who \in V!Phones /\ (at \in {"reject", "disconnect", "rejected"} => op # "call")
  BY DEF Calling, CallsTyped, Planned
<1>c. ASSUME UNCHANGED <<placed, line>> PROVE Fades
  BY <1>c, SameFades DEF Calling
<1> USE DEF CallPlaces, BeforeAnswer, AfterCheck, V!call, V!network
<1>1. CASE V!Verify
  BY <1>1, <1>b, <1>c, OnwardKeeps DEF V!Verify
<1>2. ASSUME NEW p \in V!Phones \union {NoPhone}, V!Hangup(p) PROVE Calling'
  <2>1. who' \in V!Phones /\ at' \in {"end call", "finally"}
    BY <1>2, <1>a, TwoPhones DEF V!Hangup
  <2> QED BY <1>2, <1>b, <1>c, <2>1, OnwardKeeps DEF V!Hangup
<1>3. CASE V!EndCall
  <2>1. Fades
    BY <1>3, <1>b, EndsFade DEF V!EndCall, Calling
  <2> QED BY <1>3, <1>b, <2>1, OnwardKeeps DEF V!EndCall
<1>4. CASE V!HungUp
  BY <1>4, <1>a, <1>b, <1>c, OnwardKeeps DEF V!HungUp
<1>5. CASE V!StartReject
  BY <1>5, <1>b, <1>c, OnwardKeeps DEF V!StartReject
<1>6. ASSUME NEW found \in BOOLEAN, V!Reject(found) PROVE Calling'
  <2>1. CASE found
    <3>1. Fades
      BY <1>6, <1>a, <2>1, EndsFade DEF V!Reject, Calling
    <3> QED BY <1>6, <1>b, <2>1, <3>1, OnwardKeeps DEF V!Reject
  <2>2. CASE ~found
    BY <1>6, <1>b, <1>c, <2>2, ReturnKeeps DEF V!Reject
  <2> QED BY <2>1, <2>2
<1>7. CASE V!Rejected
  BY <1>7, <1>b, <1>c, OnwardKeeps, ReturnKeeps DEF V!Rejected
<1> QED BY <1>1, <1>2, <1>3, <1>4, <1>5, <1>6, <1>7

LEMMA NextCalling == ASSUME Calling, V!Next PROVE Calling'
<1>1. CASE V!Helper
  BY <1>1, EarlyKeeps, LateKeeps, IdsKeep, DialKeeps, AcceptKeeps, CheckKeeps, FinallyKeeps DEF V!Helper
<1>2. ASSUME NEW p \in V!Phones, NEW q \in V!Phones, NEW c \in V!Calls,
             V!Rings(p, q, c) \/ V!Drops(p, c)
      PROVE  Calling'
  <2>1. Fades
    BY <1>2, NetworkFades DEF Calling
  <2>2. UNCHANGED <<at, op, plan, before, who, result, ok, active>>
    BY <1>2 DEF V!Rings, V!Drops, V!Test, V!call
  <2>3. CallsTyped' /\ Planned'
    BY <2>1, <2>2, FadesTyped DEF Calling, CallsTyped, Planned
  <2>4. ASSUME op = "call", at \in CallPlaces PROVE Mine' /\ Single' /\ Checked'
    <3>1. Mine' /\ Single' /\ Taken' \subseteq Taken
      BY <2>1, <2>2, <2>4, FadesKeep DEF Calling
    <3>2. placed' = placed /\ V!callee' = V!callee /\ V!caller' = V!caller
      BY <2>1, <2>2 DEF Fades, V!callee, V!caller
    <3> QED BY <2>2, <2>4, <3>1, <3>2 DEF Checked, Calling
  <2> QED BY <2>1, <2>2, <2>3, <2>4 DEF Calling, Fades
<1> QED BY <1>1, <1>2, IsAnsweredKeeps, BeginsKeep DEF V!Next

LEMMA NextCalls ==
  ASSUME driven = "calls" => Calling, [BedNext]_bed PROVE driven' = "calls" => Calling'
<1> SUFFICES ASSUME driven' = "calls" PROVE Calling'
  OBVIOUS
<1>1. CASE BedNext
  <2>1. driven = "calls"
    BY <1>1 DEF BedNext
  <2>2. V!Next
    BY <1>1, <2>1 DEF BedNext, DriveAccessPoint, DriveDevices, DriveWifi, DriveCalls,
       DriveBluetooth, DrivePhoneSetup, DriveMessages, DriveCoex, DriveLab
  <2> QED BY <2>1, <2>2, NextCalling
<1>2. CASE UNCHANGED bed
  <2>1. driven = "calls" /\ UNCHANGED <<calls, op, ok, at>>
    BY <1>2 DEF bed, helper, vars
  <2>2. UNCHANGED <<placed, line, plan, who, before, result, active, op, ok, at>>
    BY <2>1 DEF calls
  <2>3. V!caller' = V!caller /\ V!callee' = V!callee /\ Calling
    BY <2>1, <2>2 DEF V!caller, V!callee
  <2> QED BY <2>2, <2>3 DEF Calling, CallsTyped, Planned, Mine, Single, Checked, Taken, NewTo
<1> QED BY <1>1, <1>2

(* For any number of calls, whatever earlier failures left on the phones,  *)
(* whatever rings late and whatever drops: call_setup_teardown returns     *)
(* True only for the call that it has placed, seen active on both phones   *)
(* (tel_test_utils.py, lines 1728 and 1755).                                *)
THEOREM CallsAreNew == BedSpec => []OneNewCall
<1> DEFINE I == driven = "calls" => Calling
<1>1. BedInit => I
  BY InitCalling DEF BedInit
<1>2. I /\ [BedNext]_bed => I'
  BY NextCalls
<1>3. I => OneNewCall
  BY DEF OneNewCall, V!OneNewCall, Calling
<1> QED BY <1>1, <1>2, <1>3, PTL DEF BedSpec, bed

-----------------------------------------------------------------------------
(* Wi-Fi.  An event that may still be read is of a network joined since    *)
(* the queues were cleared, or was on its way then.                        *)
(* The elements of a sequence.                                            *)
Items(s) == {s[i] : i \in DOMAIN s}

EventsTyped == flight \in Seq(Networks) /\ queue \in Seq(Networks)

Came == \A n \in Networks : n \in Items(flight) \union Items(queue) => n \in joined \union stale

(* Until a helper waits nothing is popped; what it pops then is such an    *)
(* event, and a helper that passed has popped its own network.             *)
BeforeWait == {"scan", "request", "submitted", "listen", "verify info", "off", "on", "going off",
               "going on"}
Reporting == W!Connecting \union {"track"}
Popped ==
  /\ at \in BeforeWait => got = NoNetwork
  /\ at \in {"wait", "check"} /\ got # NoNetwork => got \in joined \union stale
  /\ at \in {"check", "wait", "tracking", "pass"} \union BeforeWait => net \in Networks
  /\ at = "track" => net \in Networks
  /\ at = "pass" => net \in joined \union stale
  /\ at = "idle" /\ op \in Reporting /\ ok => net \in joined \union stale
  /\ at \in {"disconnect", "await on", "await off", "awaiting", "forget", "forgetting"}
       => op \notin Reporting

(* A reconnection whose event was not popped is on its way, or was missed. *)
Heard ==
  op = "reconnect" /\ at \in BeforeWait \union {"wait", "check"} /\ got = NoNetwork
    => joined = {} \/ missed \/ flight # <<>> \/ queue # <<>>

Linking == EventsTyped /\ Came /\ Popped /\ Heard

LEMMA QueueNoNetwork == NoNetwork \notin Networks
BY ConstantsAssumption DEF W!Constants

LEMMA AppendItems ==
  ASSUME NEW S, NEW s \in Seq(S), NEW x \in S
  PROVE  /\ Append(s, x) \in Seq(S) /\ Append(s, x) # <<>>
         /\ \A y \in S : y \in Items(Append(s, x)) => y = x \/ y \in Items(s)
<1>1. /\ Append(s, x) \in Seq(S) /\ Len(Append(s, x)) = Len(s) + 1 /\ Len(s) \in Nat
      /\ DOMAIN s = 1 .. Len(s)
  OBVIOUS
<1>2. /\ \A i \in 1 .. Len(s) : Append(s, x)[i] = s[i]
      /\ Append(s, x)[Len(s) + 1] = x
  OBVIOUS
<1>3. ASSUME NEW y \in S, y \in Items(Append(s, x)) PROVE y = x \/ y \in Items(s)
  <2>1. PICK i \in DOMAIN Append(s, x) : y = Append(s, x)[i]
    BY <1>3 DEF Items
  <2>2. i \in 1 .. Len(s) \/ i = Len(s) + 1
    BY <1>1, <2>1
  <2> QED BY <1>1, <1>2, <2>1, <2>2 DEF Items
<1>4. Append(s, x) # <<>>
  BY <1>1
<1> QED BY <1>1, <1>3, <1>4

LEMMA TailItems ==
  ASSUME NEW S, NEW s \in Seq(S), s # <<>>
  PROVE  /\ Head(s) \in S /\ Head(s) \in Items(s) /\ Tail(s) \in Seq(S)
         /\ \A y \in S : y \in Items(Tail(s)) => y \in Items(s)
<1>1. /\ Len(s) \in Nat \ {0} /\ DOMAIN s = 1 .. Len(s) /\ Head(s) = s[1] /\ Tail(s) \in Seq(S)
      /\ \A i \in 1 .. Len(s) : s[i] \in S
  OBVIOUS
<1>2. Len(Tail(s)) = Len(s) - 1 /\ DOMAIN Tail(s) = 1 .. Len(s) - 1
      /\ \A i \in 1 .. Len(s) - 1 : Tail(s)[i] = s[i + 1]
  BY <1>1
<1>3. ASSUME NEW y \in S, y \in Items(Tail(s)) PROVE y \in Items(s)
  <2>1. PICK i \in 1 .. Len(s) - 1 : y = Tail(s)[i]
    BY <1>2, <1>3 DEF Items
  <2>2. i + 1 \in 1 .. Len(s) /\ y = s[i + 1]
    BY <1>1, <1>2, <2>1
  <2> QED BY <1>1, <2>2 DEF Items
<1>4. 1 \in 1 .. Len(s)
  BY <1>1
<1> QED BY <1>1, <1>3, <1>4 DEF Items

LEMMA RangeItems == \A s : W!Range(s) = Items(s) /\ B!Range(s) = Items(s)
BY DEF W!Range, B!Range, Items

LEMMA EmptyItems == Items(<<>>) = {}
BY DEF Items

LEMMA InitLinking == ASSUME W!Init PROVE Linking
<1>1. EventsTyped
  BY DEF W!Init, EventsTyped
<1>2. Came
  BY EmptyItems DEF W!Init, Came
<1> QED BY <1>1, <1>2 DEF W!Init, Linking, Popped, Heard, BeforeWait, Reporting, W!Connecting

-----------------------------------------------------------------------------
(* What a step may do to the events: nothing, a clearing, or one popped.   *)
LEMMA SameCame == ASSUME Linking, UNCHANGED <<flight, queue, joined, stale>> PROVE EventsTyped' /\ Came'
BY DEF Linking, EventsTyped, Came

LEMMA ClearCame ==
  ASSUME Linking, W!Clear
  PROVE  /\ EventsTyped' /\ Came' /\ joined' = {}
<1>1. queue' = <<>> /\ joined' = {} /\ stale' = Items(flight) /\ flight' = flight
  BY RangeItems DEF W!Clear
<1>2. EventsTyped'
  BY <1>1 DEF EventsTyped, Linking
<1> QED BY <1>1, <1>2, EmptyItems DEF Came

LEMMA PopCame ==
  ASSUME Linking, queue # <<>>, queue' = Tail(queue), got' = Head(queue), UNCHANGED <<flight, joined, stale>>
  PROVE  EventsTyped' /\ Came' /\ got' \in Networks /\ got' # NoNetwork /\ got' \in joined \union stale
<1>1. /\ Head(queue) \in Networks /\ Head(queue) \in Items(queue) /\ Tail(queue) \in Seq(Networks)
      /\ \A y \in Networks : y \in Items(Tail(queue)) => y \in Items(queue)
  BY TailItems DEF Linking, EventsTyped
<1> QED BY <1>1, QueueNoNetwork DEF Linking, EventsTyped, Came

LEMMA PollLinking == ASSUME Linking, W!Poll PROVE Linking'
<1>1. /\ flight # <<>> /\ queue' = Append(queue, Head(flight)) /\ flight' = Tail(flight)
      /\ UNCHANGED <<at, op, net, got, ok, joined, stale, missed>>
  BY DEF W!Poll, W!call, W!history
<1>2. /\ Head(flight) \in Networks /\ Head(flight) \in Items(flight) /\ Tail(flight) \in Seq(Networks)
      /\ \A y \in Networks : y \in Items(Tail(flight)) => y \in Items(flight)
  BY <1>1, TailItems DEF Linking, EventsTyped
<1>3. /\ queue' \in Seq(Networks) /\ queue' # <<>>
      /\ \A y \in Networks : y \in Items(queue') => y = Head(flight) \/ y \in Items(queue)
  BY <1>1, <1>2, AppendItems DEF Linking, EventsTyped
<1> QED BY <1>1, <1>2, <1>3 DEF Linking, EventsTyped, Came, Popped, Heard

LEMMA JoinLinking == ASSUME Linking, NEW n \in Networks, W!Join(n) PROVE Linking'
<1>1. /\ joined' = joined \union {n} /\ flight' = (IF tracking THEN Append(flight, n) ELSE flight)
      /\ missed' = (missed \/ ~tracking) /\ UNCHANGED <<queue, at, op, net, got, ok, stale>>
  BY DEF W!Join, W!call
<1>2. /\ Append(flight, n) \in Seq(Networks) /\ Append(flight, n) # <<>>
      /\ \A y \in Networks : y \in Items(Append(flight, n)) => y = n \/ y \in Items(flight)
  BY AppendItems DEF Linking, EventsTyped
<1>3. EventsTyped' /\ Came'
  BY <1>1, <1>2 DEF Linking, EventsTyped, Came
<1>4. Popped'
  BY <1>1 DEF Linking, Popped
<1>5. Heard'
  BY <1>1, <1>2 DEF Linking, Heard
<1> QED BY <1>3, <1>4, <1>5 DEF Linking

LEMMA BeginLinking == ASSUME Linking, NEW o \in W!Operations, NEW n \in Networks, W!Begin(o, n) PROVE Linking'
<1>1. /\ op' = o /\ net' = n /\ got' = NoNetwork /\ ok' = FALSE /\ joined' = {}
      /\ stale' = Items(flight) \union Items(queue) /\ UNCHANGED <<flight, queue>>
  BY RangeItems DEF W!Begin, W!events
<1>2. at' \in {"scan", "request", "listen", "verify info", "on", "forget", "disconnect", "track",
               "await on", "await off"}
  BY DEF W!Begin, W!Operations, W!Connecting, W!Scanning, W!ById
<1>3. at' \in {"forget", "disconnect", "await on", "await off"} => o \notin Reporting
  BY DEF W!Begin, W!Operations, W!Connecting, W!Scanning, W!ById, Reporting
<1>4. EventsTyped' /\ Came'
  BY <1>1 DEF Linking, EventsTyped, Came
<1> QED BY <1>1, <1>2, <1>3, <1>4 DEF Linking, Popped, Heard, BeforeWait

LEMMA HelperLinking == ASSUME Linking, W!Helper PROVE Linking'
<1> USE DEF BeforeWait, Reporting, W!Connecting, W!Scanning, W!ById, W!End, W!call
<1>1. CASE W!Scan
  <2>1. /\ at = "scan" /\ UNCHANGED <<op, net, got>>
        /\ at' \in {"request", "scan"} \/ (at' = "idle" /\ ok' = FALSE)
    BY <1>1 DEF W!Scan
  <2>2. EventsTyped' /\ Came' /\ joined' = {}
    BY <1>1, ClearCame DEF W!Scan
  <2> QED BY <2>1, <2>2 DEF Linking, Popped, Heard
<1>2. CASE W!Request
  <2>1. at = "request" /\ at' = "submitted" /\ UNCHANGED <<op, net, got>>
    BY <1>2 DEF W!Request
  <2>2. EventsTyped' /\ Came' /\ (joined' = {} \/ UNCHANGED <<flight, queue, joined, missed>>)
    BY <1>2, ClearCame, SameCame DEF W!Request, W!events
  <2> QED BY <2>1, <2>2 DEF Linking, Popped, Heard
<1>3. CASE W!Submitted \/ W!Listen
  <2>1. /\ at \in {"submitted", "listen"} /\ at' \in {"wait", "fail"}
        /\ UNCHANGED <<op, net, got, flight, queue, joined, stale, missed>>
    BY <1>3 DEF W!Submitted, W!Listen, W!events, W!history
  <2> QED BY <2>1, SameCame DEF Linking, Popped, Heard
<1>4. CASE W!PopConnected
  <2>1. at = "wait" /\ at' \in {"wait", "check"} /\ UNCHANGED <<op, net>>
    BY <1>4 DEF W!PopConnected
  <2>2. EventsTyped' /\ Came' /\ got' # NoNetwork /\ got' \in joined' \union stale'
    BY <1>4, PopCame DEF W!PopConnected, W!history
  <2> QED BY <2>1, <2>2 DEF Linking, Popped, Heard
<1>5. CASE W!PopTimesOut
  <2>1. /\ at = "wait" /\ at' \in {"wait", "check"}
        /\ UNCHANGED <<op, net, got, flight, queue, joined, stale, missed>>
    BY <1>5 DEF W!PopTimesOut, W!events, W!history
  <2> QED BY <2>1, SameCame DEF Linking, Popped, Heard
<1>6. CASE W!Check
  <2>1. /\ at = "check" /\ at' \in {"pass", "fail"} /\ (at' = "pass" => got = net)
        /\ UNCHANGED <<op, net, flight, queue, joined, stale, missed>>
    BY <1>6 DEF W!Check, W!events, W!history
  <2> QED BY <2>1, SameCame, QueueNoNetwork DEF Linking, Popped, Heard
<1>7. CASE W!Finally
  <2>1. /\ at \in {"pass", "fail"} /\ at' = "idle" /\ (ok' => at = "pass")
        /\ UNCHANGED <<op, net, got, flight, queue, joined, stale, missed>>
    BY <1>7 DEF W!Finally, W!events
  <2> QED BY <2>1, SameCame DEF Linking, Popped, Heard
<1>8. CASE W!VerifyInfo
  <2>1. /\ at = "verify info"
        /\ at' = "off" \/ (at' = "idle" /\ ok' = FALSE)
        /\ UNCHANGED <<op, net, got, flight, queue, joined, stale, missed>>
    BY <1>8 DEF W!VerifyInfo, W!events, W!history
  <2> QED BY <2>1, SameCame DEF Linking, Popped, Heard
<1>9. CASE W!Toggle
  <2>1. /\ at \in {"off", "on"} /\ UNCHANGED <<op, net, got>>
        /\ at' \in {"on", "listen", "going on", "going off"} \/ (at' = "idle" /\ op = "toggle")
    BY <1>9 DEF W!Toggle, W!AfterToggle
  <2>2. EventsTyped' /\ Came' /\ (joined' = {} \/ UNCHANGED <<flight, queue, joined, missed>>)
    BY <1>9, ClearCame, SameCame DEF W!Toggle, W!events, W!history
  <2>3. Popped'
    BY <2>1 DEF Linking, Popped
  <2>4. Heard'
    <3>1. CASE joined' = {}
      BY <3>1 DEF Heard
    <3>2. CASE UNCHANGED <<flight, queue, joined, missed>>
      BY <2>1, <3>2 DEF Linking, Heard
    <3> QED BY <2>2, <3>1, <3>2
  <2> QED BY <2>2, <2>3, <2>4 DEF Linking
<1>10. CASE W!Toggled
  <2>1. /\ at \in {"going off", "going on"}
        /\ at' \in {"on", "listen"} \/ (at' = "idle" /\ (op = "toggle" \/ ok' = FALSE))
        /\ UNCHANGED <<op, net, got, flight, queue, joined, stale, missed>>
    BY <1>10 DEF W!Toggled, W!AfterToggle, W!events
  <2> QED BY <2>1, SameCame DEF Linking, Popped, Heard
<1>11. CASE W!WaitDisconnect \/ W!WaitState \/ W!StateChanged
  <2>1. /\ at \in {"disconnect", "await on", "await off", "awaiting"} /\ at' \in {"idle", "awaiting"}
        /\ UNCHANGED <<op, net, got, flight, queue, joined, stale, missed>>
    BY <1>11 DEF W!WaitDisconnect, W!WaitState, W!StateChanged, W!events
  <2> QED BY <2>1, SameCame DEF Linking, Popped, Heard
<1>12. CASE W!Track
  <2>1. /\ at = "track" /\ at' = "tracking"
        /\ UNCHANGED <<op, net, got, flight, queue, joined, stale, missed>>
    BY <1>12 DEF W!Track, W!events
  <2> QED BY <2>1, SameCame DEF Linking, Popped, Heard
<1>13. CASE W!PopTracked
  <2>1. /\ at = "tracking" /\ UNCHANGED <<op, net>>
        /\ at' = "tracking" \/ (at' = "idle" /\ (ok' => got' = net))
    BY <1>13 DEF W!PopTracked
  <2>2. EventsTyped' /\ Came' /\ got' # NoNetwork /\ got' \in joined' \union stale'
    BY <1>13, PopCame DEF W!PopTracked
  <2> QED BY <2>1, <2>2 DEF Linking, Popped, Heard
<1>14. CASE W!TrackTimesOut
  <2>1. /\ at = "tracking" /\ at' = "idle" /\ ok' = FALSE
        /\ UNCHANGED <<op, net, got, flight, queue, joined, stale, missed>>
    BY <1>14 DEF W!TrackTimesOut, W!events
  <2> QED BY <2>1, SameCame DEF Linking, Popped, Heard
<1>15. CASE W!ForgetAll \/ (\E n \in Networks : W!ForgetOne(n)) \/ W!Forgotten
  <2>1. /\ at \in {"forget", "forgetting"} /\ at' \in {"idle", "forgetting"}
        /\ UNCHANGED <<op, net, got, flight, queue, joined, stale, missed>>
    BY <1>15 DEF W!ForgetAll, W!ForgetOne, W!Forgotten, W!events, W!history
  <2> QED BY <2>1, SameCame DEF Linking, Popped, Heard
<1> QED BY <1>1, <1>2, <1>3, <1>4, <1>5, <1>6, <1>7, <1>8, <1>9, <1>10, <1>11, <1>12, <1>13,
           <1>14, <1>15 DEF W!Helper

LEMMA NextLinking == ASSUME Linking, W!Next PROVE Linking'
<1>1. CASE W!Leave \/ W!Switch
  <2>1. UNCHANGED <<at, op, net, got, ok, flight, queue, joined, stale, missed>>
    BY <1>1 DEF W!Leave, W!Switch, W!events, W!call, W!history
  <2> QED BY <2>1, SameCame DEF Linking, Popped, Heard
<1> QED BY <1>1, BeginLinking, HelperLinking, JoinLinking, PollLinking DEF W!Next

LEMMA NextWifi ==
  ASSUME driven = "wifi" => Linking, [BedNext]_bed PROVE driven' = "wifi" => Linking'
<1> SUFFICES ASSUME driven' = "wifi" PROVE Linking'
  OBVIOUS
<1>1. CASE BedNext
  <2>1. driven = "wifi"
    BY <1>1 DEF BedNext
  <2>2. W!Next
    BY <1>1, <2>1 DEF BedNext, DriveAccessPoint, DriveDevices, DriveWifi, DriveCalls,
       DriveBluetooth, DrivePhoneSetup, DriveMessages, DriveCoex, DriveLab
  <2> QED BY <2>1, <2>2, NextLinking
<1>2. CASE UNCHANGED bed
  <2>1. driven = "wifi" /\ UNCHANGED <<wifi, op, ok, at>>
    BY <1>2 DEF bed, helper, vars
  <2>2. UNCHANGED <<at, op, net, got, ok, flight, queue, joined, stale, missed>>
    BY <2>1 DEF wifi
  <2>3. Linking
    BY <2>1
  <2> QED BY <2>2, <2>3, SameCame DEF Linking, Popped, Heard
<1> QED BY <1>1, <1>2

LEMMA LinkingAlways == BedSpec => [](driven = "wifi" => Linking)
<1> DEFINE I == driven = "wifi" => Linking
<1>1. BedInit => I
  BY InitLinking DEF BedInit
<1>2. I /\ [BedNext]_bed => I'
  BY NextWifi
<1> QED BY <1>1, <1>2, PTL DEF BedSpec, bed

(* For any networks and however many events are on their way: a helper     *)
(* that reports a connection has the phone's event of that network, of a   *)
(* join since the queues were cleared or of one whose event the clearing   *)
(* could not reach (wifi_test_utils.py).                                   *)
THEOREM ConnectionsAreTrue == BedSpec => []ConnectedMeansJoined
<1>1. (driven = "wifi" => Linking) => ConnectedMeansJoined
  BY DEF ConnectedMeansJoined, W!ConnectedMeansJoined, Linking, Popped, Reporting
<1> QED BY <1>1, LinkingAlways, PTL

(* _toggle_wifi_and_wait_for_reconnection misses a reconnection only while *)
(* nobody tracks, between the toggle and the wait.                         *)
THEOREM ReconnectionsAreHeard == BedSpec => []ReconnectionHeard
<1>1. (driven = "wifi" => Linking) => ReconnectionHeard
  BY DEF ReconnectionHeard, W!ReconnectionHeard, Linking, Heard
<1> QED BY <1>1, LinkingAlways, PTL

-----------------------------------------------------------------------------
(* Bluetooth.  An event that may be read tells a state that held during    *)
(* the call, or was unread before it; so does what was seen of a profile.  *)
ProfileEvent == Profiles \X BOOLEAN
PostedTyped == posted \in Seq(ProfileEvent) /\ linked \subseteq Profiles

Told == \A e \in ProfileEvent : e \in Items(posted) => e \in was \union old

SeenSo ==
  /\ op = "connect" => /\ \A p \in linked : <<p, TRUE>> \in was
                       /\ \A p \in seen : <<p, TRUE>> \in was \union old
  /\ op = "disconnect" => \A p \in seen : <<p, FALSE>> \in was \union old

OtherPlaces == {"pair", "passkey", "bonding", "unpair", "unpair secondary", "reset", "off", "enable",
                "on", "factory reset", "disable", "disabled"}
ProfilePlaces ==
  /\ at \in {"connect", "look", "listen"} => op = "connect"
  /\ at \in {"disconnect", "listen off"} => op = "disconnect"
  /\ at \in OtherPlaces => op \notin {"connect", "disconnect"}
  /\ at = "idle" /\ ok /\ op \in {"connect", "disconnect"} => wanted \subseteq seen

Profiling == PostedTyped /\ Told /\ SeenSo /\ ProfilePlaces

LEMMA InitProfiling == ASSUME B!Init PROVE Profiling
<1>1. posted = <<>> /\ linked = {} /\ op = "none" /\ at = "idle"
  BY DEF B!Init
<1>2. PostedTyped
  BY <1>1 DEF PostedTyped
<1> QED BY <1>1, <1>2, EmptyItems DEF Profiling, Told, SeenSo, ProfilePlaces, OtherPlaces

LEMMA PostKeeps ==
  ASSUME Profiling, NEW p \in Profiles, NEW e \in ProfileEvent, posted' \in {posted, Append(posted, e)},
         was' = was \union {e}, linked' \subseteq linked \/ (linked' = linked \union {p} /\ e = <<p, TRUE>>),
         UNCHANGED <<old, at, op, wanted, seen, ok>>
  PROVE  Profiling'
<1>1. /\ Append(posted, e) \in Seq(ProfileEvent)
      /\ \A y \in ProfileEvent : y \in Items(Append(posted, e)) => y = e \/ y \in Items(posted)
  BY AppendItems DEF Profiling, PostedTyped
<1>2. PostedTyped'
  BY <1>1 DEF Profiling, PostedTyped
<1>3. Told'
  BY <1>1 DEF Profiling, Told
<1>4. SeenSo'
  BY DEF Profiling, SeenSo
<1>5. ProfilePlaces'
  BY DEF Profiling, ProfilePlaces
<1> QED BY <1>2, <1>3, <1>4, <1>5 DEF Profiling

LEMMA LinksProfiling == ASSUME Profiling, NEW p \in Profiles, B!Link(p) \/ B!Unlink(p) PROVE Profiling'
<1>1. CASE B!Link(p)
  <2>1. /\ posted' \in {posted, Append(posted, <<p, TRUE>>)} /\ was' = was \union {<<p, TRUE>>}
        /\ linked' = linked \union {p} /\ UNCHANGED <<old, at, op, wanted, seen, ok>>
    BY <1>1 DEF B!Link, B!Post, B!Helper, B!call
  <2>2. <<p, TRUE>> \in ProfileEvent
    BY DEF ProfileEvent
  <2> QED BY <2>1, <2>2, PostKeeps
<1>2. CASE B!Unlink(p)
  <2>1. /\ posted' \in {posted, Append(posted, <<p, FALSE>>)} /\ was' = was \union {<<p, FALSE>>}
        /\ linked' \subseteq linked /\ UNCHANGED <<old, at, op, wanted, seen, ok>>
    BY <1>2 DEF B!Unlink, B!Post, B!Helper, B!call
  <2>2. <<p, FALSE>> \in ProfileEvent
    BY DEF ProfileEvent
  <2> QED BY <2>1, <2>2, PostKeeps
<1> QED BY <1>1, <1>2

LEMMA IsTrue == ASSUME NEW S, NEW x \in S PROVE (x \in S) = TRUE
OBVIOUS

LEMMA BeginProfiling == ASSUME Profiling, NEW o, NEW profiles, B!Begin(o, profiles),
                               o \in {"pair", "enable", "reset", "factory", "disable", "connect", "disconnect"}
                        PROVE  Profiling'
<1>1. /\ op' = o /\ at' = (IF o = "factory" THEN "enable" ELSE o) /\ seen' = {} /\ ok' = FALSE
      /\ was' = B!Now /\ old' = Items(posted) /\ UNCHANGED <<linked, posted>>
  BY RangeItems DEF B!Begin
<1>2. ASSUME NEW p \in linked PROVE <<p, TRUE>> \in B!Now
  <2>1. p \in Profiles
    BY DEF Profiling, PostedTyped
  <2>2. <<p, p \in linked>> \in B!Now
    BY <2>1 DEF B!Now
  <2>3. (p \in linked) = TRUE
    BY IsTrue
  <2> QED BY <2>2, <2>3
<1>3. PostedTyped'
  BY <1>1 DEF Profiling, PostedTyped
<1>4. Told'
  BY <1>1 DEF Told
<1>5. SeenSo'
  BY <1>1, <1>2 DEF SeenSo
<1>6. ProfilePlaces'
  BY <1>1 DEF ProfilePlaces, OtherPlaces
<1> QED BY <1>3, <1>4, <1>5, <1>6 DEF Profiling

(* A step that reads no event and finds no profile.                        *)
LEMMA PlaceKeeps ==
  ASSUME Profiling, posted' \in {posted, <<>>}, linked' \subseteq linked, UNCHANGED <<was, old>>,
         \/ op' = op \/ op' \notin {"connect", "disconnect"},
         seen' \in {seen, {}}, ProfilePlaces'
  PROVE  Profiling'
<1>1. PostedTyped'
  <2>1. <<>> \in Seq(ProfileEvent)
    OBVIOUS
  <2> QED BY <2>1 DEF Profiling, PostedTyped
<1>2. Told'
  BY EmptyItems DEF Profiling, Told
<1>3. SeenSo'
  BY DEF Profiling, SeenSo
<1> QED BY <1>1, <1>2, <1>3 DEF Profiling

LEMMA PairingProfiling ==
  ASSUME Profiling, B!Discover \/ B!Passkey \/ B!Bonded \/ B!Unpair PROVE Profiling'
<1>1. /\ at \in {"pair", "passkey", "bonding", "unpair", "unpair secondary"} /\ op' = op
      /\ at' \in {"pair", "passkey", "bonding", "unpair", "unpair secondary", "idle"}
      /\ posted' \in {posted, <<>>} /\ UNCHANGED <<linked, was, old, seen>>
  BY DEF B!Discover, B!Passkey, B!Bonded, B!Unpair, B!links, B!call, B!history, B!End
<1>2. ProfilePlaces'
  BY <1>1 DEF Profiling, ProfilePlaces, OtherPlaces
<1> QED BY <1>1, <1>2, PlaceKeeps

LEMMA SwitchingProfiling ==
  ASSUME Profiling, B!SwitchOff \/ B!IsOff \/ B!SwitchOn \/ B!IsOn \/ B!FactoryReset \/ B!Disable \/ B!Disabled
  PROVE  Profiling'
<1>1. /\ at \in {"reset", "off", "enable", "on", "factory reset", "disable", "disabled"}
      /\ op' = op \/ op' = "enable"
      /\ at' \in {"off", "enable", "on", "factory reset", "disabled", "idle"}
      /\ UNCHANGED <<posted, was, old, seen>> /\ linked' \subseteq linked
  BY DEF B!SwitchOff, B!IsOff, B!SwitchOn, B!IsOn, B!FactoryReset, B!Disable, B!Disabled, B!Enabled,
     B!links, B!call, B!history, B!End
<1>2. ProfilePlaces'
  BY <1>1 DEF Profiling, ProfilePlaces, OtherPlaces
<1> QED BY <1>1, <1>2, PlaceKeeps

LEMMA WaitingProfiling ==
  ASSUME Profiling,
         B!Connect \/ B!LookTimesOut \/ B!Disconnect \/ (\E state \in BOOLEAN : B!ListenTimesOut(state))
  PROVE  Profiling'
<1>1. /\ UNCHANGED <<op, posted, linked, was, old>> /\ seen' \in {seen, {}}
      /\ \/ at \in {"connect", "look", "listen"} /\ at' \in {"connect", "look", "listen"}
         \/ at = "disconnect" /\ at' = "listen off"
         \/ at # "idle" /\ at' = "idle" /\ ok' = FALSE
  BY DEF B!Connect, B!LookTimesOut, B!Disconnect, B!ListenTimesOut, B!Again, B!Listening, B!links, B!call,
     B!history, B!End
<1>2. ProfilePlaces'
  BY <1>1 DEF Profiling, ProfilePlaces, OtherPlaces
<1> QED BY <1>1, <1>2, PlaceKeeps

(* A profile found, in the list or in an event.                            *)
LEMMA FoundKeeps ==
  ASSUME Profiling, NEW p, NEW next, B!Found(p, next), UNCHANGED <<op, wanted, linked, was, old>>, PostedTyped', Told',
         \/ op = "connect" /\ next \in {"look", "listen"} /\ <<p, TRUE>> \in was \union old
         \/ op = "disconnect" /\ next = "listen off" /\ <<p, FALSE>> \in was \union old
  PROVE  Profiling'
<1>1. /\ seen' = seen \union {p}
      /\ (at' = "idle" /\ wanted \subseteq seen') \/ at' = next
  BY DEF B!Found, B!End
<1>2. SeenSo'
  BY <1>1 DEF Profiling, SeenSo
<1>3. ProfilePlaces'
  BY <1>1 DEF Profiling, ProfilePlaces, OtherPlaces
<1> QED BY <1>2, <1>3 DEF Profiling

LEMMA LookProfiling == ASSUME Profiling, NEW p \in Profiles, B!Look(p) PROVE Profiling'
<1>1. /\ at = "look" /\ p \in linked /\ B!Found(p, "look")
      /\ UNCHANGED <<op, wanted, posted, linked, was, old>>
  BY DEF B!Look, B!links, B!call, B!history
<1>2. op = "connect" /\ <<p, TRUE>> \in was
  BY <1>1 DEF Profiling, ProfilePlaces, SeenSo
<1>3. PostedTyped' /\ Told'
  BY <1>1 DEF Profiling, PostedTyped, Told
<1> QED BY <1>1, <1>2, <1>3, FoundKeeps

LEMMA ListenProfiling == ASSUME Profiling, B!Listen(TRUE) \/ B!Listen(FALSE) PROVE Profiling'
<1>1. /\ posted # <<>> /\ posted' = Tail(posted) /\ UNCHANGED <<op, wanted, linked, was, old>>
      /\ \/ at = "listen" /\ Head(posted)[2] = TRUE /\ B!Found(Head(posted)[1], "listen")
         \/ at = "listen off" /\ Head(posted)[2] = FALSE /\ B!Found(Head(posted)[1], "listen off")
         \/ UNCHANGED <<at, seen, ok>>
  BY DEF B!Listen, B!Listening, B!call, B!history
<1>2. /\ Head(posted) \in ProfileEvent /\ Head(posted) \in Items(posted)
      /\ Tail(posted) \in Seq(ProfileEvent)
      /\ \A y \in ProfileEvent : y \in Items(Tail(posted)) => y \in Items(posted)
  BY <1>1, TailItems DEF Profiling, PostedTyped
<1>3. Head(posted) \in was \union old /\ Head(posted) = <<Head(posted)[1], Head(posted)[2]>>
  BY <1>2 DEF Profiling, Told, ProfileEvent
<1>4. PostedTyped' /\ Told'
  BY <1>1, <1>2 DEF Profiling, PostedTyped, Told
<1>5. CASE at = "listen" /\ Head(posted)[2] = TRUE /\ B!Found(Head(posted)[1], "listen")
  <2>1. op = "connect" /\ <<Head(posted)[1], TRUE>> \in was \union old
    BY <1>3, <1>5 DEF Profiling, ProfilePlaces
  <2> QED BY <1>1, <1>4, <1>5, <2>1, FoundKeeps
<1>6. CASE at = "listen off" /\ Head(posted)[2] = FALSE /\ B!Found(Head(posted)[1], "listen off")
  <2>1. op = "disconnect" /\ <<Head(posted)[1], FALSE>> \in was \union old
    BY <1>3, <1>6 DEF Profiling, ProfilePlaces
  <2> QED BY <1>1, <1>4, <1>6, <2>1, FoundKeeps
<1>7. CASE UNCHANGED <<at, seen, ok>>
  BY <1>1, <1>4, <1>7 DEF Profiling, SeenSo, ProfilePlaces
<1> QED BY <1>1, <1>5, <1>6, <1>7

LEMMA NextProfiling == ASSUME Profiling, B!Next PROVE Profiling'
<1>1. CASE B!Bond \/ B!Switch
  <2>1. UNCHANGED <<at, op, wanted, seen, ok, posted, linked, was, old>>
    BY <1>1 DEF B!Bond, B!Switch, B!Helper, B!links, B!call, B!history
  <2> QED BY <2>1 DEF Profiling, PostedTyped, Told, SeenSo, ProfilePlaces
<1>2. CASE B!Step
  <2>1. CASE \E state \in BOOLEAN : B!Listen(state)
    BY <2>1, ListenProfiling
  <2>2. CASE \E p \in Profiles : B!Look(p)
    BY <2>2, LookProfiling
  <2> QED BY <1>2, <2>1, <2>2, PairingProfiling, SwitchingProfiling, WaitingProfiling DEF B!Step
<1>3. CASE \E o \in {"pair", "enable", "reset", "factory", "disable"} : B!Begin(o, {})
  BY <1>3, BeginProfiling
<1>4. CASE \E o \in {"connect", "disconnect"}, ps \in SUBSET Profiles \ {{}} : B!Begin(o, ps)
  BY <1>4, BeginProfiling
<1> QED BY <1>1, <1>2, <1>3, <1>4, LinksProfiling DEF B!Next

LEMMA NextBluetooth ==
  ASSUME driven = "bluetooth" => Profiling, [BedNext]_bed PROVE driven' = "bluetooth" => Profiling'
<1> SUFFICES ASSUME driven' = "bluetooth" PROVE Profiling'
  OBVIOUS
<1>1. CASE BedNext
  <2>1. driven = "bluetooth"
    BY <1>1 DEF BedNext
  <2>2. B!Next
    BY <1>1, <2>1 DEF BedNext, DriveAccessPoint, DriveDevices, DriveWifi, DriveCalls,
       DriveBluetooth, DrivePhoneSetup, DriveMessages, DriveCoex, DriveLab
  <2> QED BY <2>1, <2>2, NextProfiling
<1>2. CASE UNCHANGED bed
  <2>1. driven = "bluetooth" /\ UNCHANGED <<bluetooth, op, ok, at>>
    BY <1>2 DEF bed, helper, vars
  <2>2. UNCHANGED <<at, op, wanted, seen, ok, posted, linked, was, old>>
    BY <2>1 DEF bluetooth
  <2>3. Profiling
    BY <2>1
  <2> QED BY <2>2, <2>3 DEF Profiling, PostedTyped, Told, SeenSo, ProfilePlaces
<1> QED BY <1>1, <1>2

(* For any profiles and attempts: connect_pri_to_sec and                   *)
(* disconnect_pri_from_sec return True only for profiles that were so      *)
(* during the call, or of which an event had been left unread before it    *)
(* (bt_test_utils.py).                                                     *)
THEOREM ProfilesAreReported == BedSpec => []ProfilesAsReported
<1> DEFINE I == driven = "bluetooth" => Profiling
<1>1. BedInit => I
  BY InitProfiling DEF BedInit
<1>2. I /\ [BedNext]_bed => I'
  BY NextBluetooth
<1>3. I => ProfilesAsReported
  <2> SUFFICES ASSUME Profiling, at = "idle", ok, op \in {"connect", "disconnect"}, NEW p \in wanted
               PROVE  <<p, op = "connect">> \in was \union old
    BY DEF ProfilesAsReported, B!ProfilesAsReported
  <2>1. p \in seen
    BY DEF Profiling, ProfilePlaces
  <2>2. CASE op = "connect"
    <3>1. <<p, TRUE>> \in was \union old /\ (op = "connect") = TRUE
      BY <2>1, <2>2 DEF Profiling, SeenSo
    <3> QED BY <3>1
  <2>3. CASE op = "disconnect"
    <3>1. <<p, FALSE>> \in was \union old /\ (op = "connect") = FALSE
      BY <2>1, <2>3 DEF Profiling, SeenSo
    <3> QED BY <3>1
  <2> QED BY <2>2, <2>3
<1> QED BY <1>1, <1>2, <1>3, PTL DEF BedSpec, bed

=============================================================================

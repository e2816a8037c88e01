------------------------------ MODULE MCTestbed ------------------------------
(* The controllers of a test bed and the helpers of the tests for TLC.     *)
(* One thread, at its place "at", drives them, one call after the other,   *)
(* and they share nothing else: it is enough to let it drive one of them,  *)
(* chosen at the start.                                                    *)
EXTENDS AccessPoint, Integers, Sequences

CONSTANTS
  a1, a2, SkipSl4a, SingleUse, Packages,     \* of the devices
  Networks, NoNetwork, IdZero,               \* of the Wi-Fi helpers
  PhoneA, PhoneB, NoPhone, MaxCalls,         \* of the call helpers
  Texts, MaxSent,                            \* of the message helpers
  MaxMade,                                   \* of the lab's call helpers
  MaxTests,                                  \* of the coexistence tests
  Profiles, Attempts,                        \* of the Bluetooth helpers
  Unread                                     \* of both Wi-Fi and Bluetooth

VARIABLES
  driven,
  op, ok,     \* the helper called last: its name, and that it returned True
  doing, stage, ad, last, logcat, session, server, build, used, installs, cut,
  lapsed, behind,
  power, asked, assoc, saved, tracking, flight, queue, net, tries, got, toForget,
  joined, stale, missed,
  placed, line, tracked, heard, plan, who, before, result, active,
  on, told, switched, bonding, bonded, linked, monitor, posted, wanted, remaining,
  seen, was, old,
  apm, pref, rat, wfc, wifiState, data, ap, gen, steps, cleanup, lastRat, inUse,
  ignored, inherited,
  texts, air, channel, follows, unread, log, toSend, rest, first, came,
  made, ue, box, script, taken, busy,
  test, streams, listed, flagged, received, servers, clients, verdict, skipped

TwoDevices == <<a1, a2>>

(* A text that another starts with, and one that starts like no other.     *)
AlikeTexts == {<<"The 1">>, <<"The 1", "-th">>, <<"-th">>}

D == INSTANCE AndroidDevice WITH Devices <- TwoDevices
W == INSTANCE WifiLink
V == INSTANCE VoiceCalls
B == INSTANCE BtLink
P == INSTANCE PhoneSetup
M == INSTANCE Messages
C == INSTANCE CoexThroughput
X == INSTANCE CallBox

ASSUME ConstantsAssumption == W!Constants /\ V!Constants /\ B!Constants /\ M!Constants

accessPoint == <<call, aps, dhcp, daemons, closed, failed, left, replaced>>
devices == <<doing, stage, ad, last, logcat, session, server, build, used, installs,
             cut, lapsed, behind>>
wifi == <<power, asked, assoc, saved, tracking, flight, queue, net, tries, got,
          toForget, joined, stale, missed>>
calls == <<placed, line, tracked, heard, plan, who, before, result, active>>
bluetooth == <<on, told, switched, bonding, bonded, linked, monitor, posted, wanted,
               remaining, seen, was, old>>
setup == <<apm, pref, rat, wfc, wifiState, data, ap, gen, steps, cleanup, lastRat,
           inUse, ignored, inherited>>
messages == <<texts, air, channel, follows, unread, log, toSend, rest, first, came>>
coex == <<test, streams, listed, flagged, received, servers, clients, verdict, skipped>>
lab == <<made, ue, box, script, taken, busy>>
helper == <<op, ok>>

(* What is not driven has one initial state.                               *)
BedInit ==
  /\ driven \in {"access point", "devices", "wifi", "calls", "bluetooth",
                "phone setup", "messages", "coex", "lab"}
  /\ Init /\ D!Init /\ W!Init /\ V!Init /\ B!Init /\ P!Init /\ M!Init
  /\ C!Init /\ X!Init
  /\ driven = "access point" \/ hostapds = {}
  /\ driven = "devices" \/ \A d \in {a1, a2} : ~server[d]
  /\ driven = "wifi" \/ (~power /\ saved = {})
  /\ driven = "bluetooth" \/ (~on /\ bonded = {})

DriveAccessPoint ==
  /\ driven = "access point" /\ Next
  /\ UNCHANGED <<devices, wifi, calls, bluetooth, setup, messages, coex,
                 lab, helper>>

DriveDevices ==
  /\ driven = "devices" /\ D!Next
  /\ UNCHANGED <<at, accessPoint, wifi, calls, bluetooth, setup, messages, coex,
                 lab, helper>>

DriveWifi ==
  /\ driven = "wifi" /\ W!Next
  /\ UNCHANGED <<accessPoint, devices, calls, bluetooth, setup, messages, coex, lab>>

DriveCalls ==
  /\ driven = "calls" /\ V!Next
  /\ UNCHANGED <<accessPoint, devices, wifi, bluetooth, setup, messages, coex, lab>>

DriveBluetooth ==
  /\ driven = "bluetooth" /\ B!Next
  /\ UNCHANGED <<accessPoint, devices, wifi, calls, setup, messages, coex, lab>>

DrivePhoneSetup ==
  /\ driven = "phone setup" /\ P!Next
  /\ UNCHANGED <<accessPoint, devices, wifi, calls, bluetooth, messages, coex, lab>>

DriveMessages ==
  /\ driven = "messages" /\ M!Next
  /\ UNCHANGED <<accessPoint, devices, wifi, calls, bluetooth, setup, coex, lab>>

DriveCoex ==
  /\ driven = "coex" /\ C!Next
  /\ UNCHANGED <<accessPoint, devices, wifi, calls, bluetooth, setup, messages, lab,
                 helper>>

DriveLab ==
  /\ driven = "lab" /\ X!Next
  /\ UNCHANGED <<accessPoint, devices, wifi, calls, bluetooth, setup, messages, coex>>

BedNext ==
  /\ \/ DriveAccessPoint \/ DriveDevices \/ DriveWifi \/ DriveCalls
     \/ DriveBluetooth \/ DrivePhoneSetup \/ DriveMessages \/ DriveCoex \/ DriveLab
  /\ UNCHANGED driven

BedSpec ==
  BedInit /\ [][BedNext]_<<driven, vars, helper, devices, wifi, calls, bluetooth, setup,
                            messages, coex, lab>>

(* Those of the modules, where they are stated; op is the helper's that is *)
(* driven.                                                                 *)
NothingLeft == D!NothingLeft
InstalledOnce == D!InstalledOnce
CreateCleansUp == D!CreateCleansUp
ConnectedMeansJoined == driven = "wifi" => W!ConnectedMeansJoined
ReconnectionHeard == driven = "wifi" => W!ReconnectionHeard
OneNewCall == driven = "calls" => V!OneNewCall
ProfilesAsReported == driven = "bluetooth" => B!ProfilesAsReported
SetUpAsAsked == driven = "phone setup" => P!SetUpAsAsked
Restored == driven = "phone setup" => P!Restored
MessageArrived == driven = "messages" => M!MessageArrived
CallThroughBox == driven = "lab" => X!CallThroughBox
VerdictCounts == driven = "coex" => C!VerdictCounts
=============================================================================

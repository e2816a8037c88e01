-------------------------------- MODULE BtLink --------------------------------
(***************************************************************************)
(* The Bluetooth helpers of the tests (test_utils/bt/bt_test_utils.py) and *)
(* the link of the primary phone to the secondary one.                     *)
(*                                                                         *)
(* A helper switches the adapter, bonds the phones, or connects and        *)
(* disconnects profiles, and learns of the result from the phone's state   *)
(* or from events.  Pairing clears the events; connecting, disconnecting   *)
(* and switching the adapter take whatever event is in the queue.           *)
(***************************************************************************)
EXTENDS Naturals, Sequences, Functions

CONSTANTS
  Profiles,
  Attempts,     \* of pair_pri_to_sec and connect_pri_to_sec
  Unread        \* bound on the profile events nobody has read

Constants == Attempts \in Nat \ {0} /\ Unread \in Nat

VARIABLES
  on, told,     \* the primary's adapter, and the state it was told to take
  switched,     \* its unread events of the adapter: a set of states
  bonding,      \* the phones are bonding
  bonded,       \* the phones that have the bond
  linked,       \* the primary's connected profiles
  monitor,      \* bluetoothStartConnectionStateChangeMonitor was called
  posted,       \* its unread profile events, <<profile, connected>>
  at, op,       \* the helper: where it is, its name
  wanted,       \* ... its profiles
  remaining,    \* ... its attempts left
  seen,         \* ... profile_connected, profile_disconnected
  ok,           \* ... it returned True
  was,          \* history: <<profile, connected>> that were so during the call
  old           \* history: the profile events unread when the helper was called

adapter == <<on, told, switched>>
bonds == <<bonding, bonded>>
links == <<linked, monitor, posted>>
call == <<op, wanted>>
history == <<was, old>>
vars == <<adapter, bonds, links, at, call, remaining, seen, ok, history>>

Phones == {"primary", "secondary"}
Now == {<<p, p \in linked>> : p \in Profiles}

Init ==
  /\ on \in BOOLEAN /\ told = on /\ switched = {}
  /\ bonding = FALSE /\ bonded \in {{}, Phones}
  /\ linked = {} /\ monitor = FALSE /\ posted = <<>>
  /\ at = "idle" /\ op = "none" /\ wanted = {} /\ remaining = 0 /\ seen = {} /\ ok = FALSE
  /\ was = {} /\ old = {}

-----------------------------------------------------------------------------
(* The phone: a profile connects or is lost, the bond is made, the adapter *)
(* takes the state told.                                                  *)
Post(p, state) ==
  /\ monitor => Len(posted) < Unread
  /\ posted' = IF monitor THEN Append(posted, <<p, state>>) ELSE posted
  /\ was' = was \union {<<p, state>>}

Helper == <<at, call, remaining, seen, ok>>

Link(p) ==
  /\ on /\ bonded = Phones /\ p \notin linked /\ linked' = linked \union {p}
  /\ Post(p, TRUE) /\ UNCHANGED <<adapter, bonds, monitor, old, Helper>>

Unlink(p) ==
  /\ p \in linked /\ linked' = linked \ {p}
  /\ Post(p, FALSE) /\ UNCHANGED <<adapter, bonds, monitor, old, Helper>>

Bond ==
  /\ bonding /\ on /\ bonding' = FALSE /\ bonded' = Phones
  /\ UNCHANGED <<adapter, links, history, Helper>>

Switch ==
  /\ on # told /\ linked = {}
  /\ on' = told /\ switched' = switched \union {told} /\ bonding' = FALSE
  /\ UNCHANGED <<told, bonded, links, history, Helper>>

-----------------------------------------------------------------------------
End(success) == at' = "idle" /\ ok' = success

Begin(o, profiles) ==
  /\ at = "idle" /\ op' = o /\ wanted' = profiles
  /\ at' = IF o = "factory" THEN "enable" ELSE o
  /\ remaining' = Attempts /\ seen' = {} /\ ok' = FALSE
  /\ was' = Now /\ old' = Range(posted)
  /\ monitor' = (monitor \/ o = "pair")
  /\ UNCHANGED <<adapter, bonds, linked, posted>>

(* _pair_pri_to_sec clears the events and starts to bond; without          *)
(* auto_confirm the passkeys of the two phones' events must match, and if  *)
(* they do not the bonding is rejected.                                    *)
Discover ==
  /\ at = "pair" /\ posted' = <<>> /\ switched' = {}
  /\ bonding' = (bonded # Phones) /\ at' \in {"passkey", "bonding"}
  /\ UNCHANGED <<on, told, bonded, linked, monitor, call, remaining, seen, ok,
                 history>>

Passkey ==
  /\ at = "passkey"
  /\ \/ at' = "bonding" /\ UNCHANGED bonding
     \/ at' = "unpair" /\ bonding' \in {bonding, FALSE}
  /\ UNCHANGED <<adapter, bonded, links, call, remaining, seen, ok, history>>

Bonded ==
  /\ at = "bonding"
  /\ IF "primary" \in bonded THEN End(TRUE) ELSE at' = "unpair" /\ UNCHANGED ok
  /\ UNCHANGED <<adapter, bonds, links, call, remaining, seen, history>>

(* clear_bonded_devices on the primary, then on the secondary; either may  *)
(* fail, which ends the attempts.                                          *)
Unpair ==
  /\ at \in {"unpair", "unpair secondary"}
  /\ \/ End(FALSE) /\ UNCHANGED <<bonded, remaining>>
     \/ at = "unpair" /\ bonded' = bonded \ {"primary"}
        /\ at' = "unpair secondary" /\ UNCHANGED <<remaining, ok>>
     \/ at = "unpair secondary" /\ bonded' = bonded \ {"secondary"}
        /\ remaining' = remaining - 1
        /\ IF remaining = 1 THEN End(FALSE) ELSE at' = "pair" /\ UNCHANGED ok
  /\ UNCHANGED <<adapter, bonding, links, call, seen, history>>

(* connect_pri_to_sec tries again ...                                      *)
Again ==
  /\ remaining' = remaining - 1 /\ seen' = {}
  /\ IF remaining = 1 THEN End(FALSE) ELSE at' = "connect" /\ UNCHANGED ok

(* ... when the phones are not bonded.                                     *)
Connect ==
  /\ at = "connect"
  /\ IF "primary" \in bonded THEN at' = "look" /\ UNCHANGED <<remaining, seen, ok>> ELSE Again
  /\ UNCHANGED <<adapter, bonds, links, call, history>>

Found(p, next) ==
  /\ seen' = seen \union {p}
  /\ IF wanted \subseteq seen' THEN End(TRUE) ELSE at' = next /\ UNCHANGED ok

(* _connect_pri_to_sec first looks at the connected profiles ...           *)
Look(p) ==
  /\ at = "look" /\ p \in (wanted \intersect linked) \ seen /\ Found(p, "look")
  /\ UNCHANGED <<adapter, bonds, links, call, remaining, history>>

LookTimesOut ==
  /\ at = "look" /\ at' = "listen"
  /\ UNCHANGED <<adapter, bonds, links, call, remaining, seen, ok, history>>

Listening(state) == IF state THEN "listen" ELSE "listen off"

(* Mutant of Listen: the state in the event is not compared.               *)
ListenAny(state) ==
  /\ at = Listening(state) /\ posted # <<>> /\ posted' = Tail(posted)
  /\ Found(Head(posted)[1], at)
  /\ UNCHANGED <<adapter, bonds, linked, monitor, call, remaining, history>>

(* ... and then, as disconnect_pri_from_sec does at once, pops events      *)
(* until they name every profile.                                          *)
Listen(state) ==
  /\ at = Listening(state) /\ posted # <<>> /\ posted' = Tail(posted)
  /\ IF Head(posted)[2] = state THEN Found(Head(posted)[1], at)
     ELSE UNCHANGED <<at, seen, ok>>
  /\ UNCHANGED <<adapter, bonds, linked, monitor, call, remaining, history>>

ListenTimesOut(state) ==
  /\ at = Listening(state) /\ posted = <<>>
  /\ IF state THEN Again ELSE End(FALSE) /\ UNCHANGED <<remaining, seen>>
  /\ UNCHANGED <<adapter, bonds, links, call, history>>

Disconnect ==
  /\ at = "disconnect"
  /\ \/ at' = "listen off" /\ UNCHANGED ok
     \/ End(FALSE)
  /\ UNCHANGED <<adapter, bonds, links, call, remaining, seen, history>>

-----------------------------------------------------------------------------
(* reset_bluetooth: off, and only the event counts ...                     *)
SwitchOff ==
  /\ at = "reset"
  /\ at' = IF on THEN "off" ELSE "enable"
  /\ told' = IF on THEN FALSE ELSE told
  /\ UNCHANGED <<on, switched, bonds, links, call, remaining, seen, ok, history>>

IsOff ==
  /\ at = "off"
  /\ \/ FALSE \in switched /\ switched' = switched \ {FALSE} /\ at' = "enable" /\ UNCHANGED ok
     \/ End(FALSE) /\ UNCHANGED switched
  /\ UNCHANGED <<on, told, bonds, links, call, remaining, seen, history>>

(* ... then bluetooth_enabled_check: on, by the event, or by the state     *)
(* when no event comes.                                                    *)
Enabled(success) ==
  IF op = "factory" /\ success THEN at' = "factory reset" /\ UNCHANGED ok
  ELSE End(success)

SwitchOn ==
  /\ at = "enable"
  /\ IF on THEN Enabled(TRUE) /\ UNCHANGED told
     ELSE at' = "on" /\ told' = TRUE /\ UNCHANGED ok
  /\ UNCHANGED <<on, switched, bonds, links, call, remaining, seen, history>>

IsOn ==
  /\ at = "on"
  /\ \/ TRUE \in switched /\ switched' = switched \ {TRUE} /\ Enabled(TRUE)
     \/ TRUE \notin switched /\ Enabled(on) /\ UNCHANGED switched
  /\ UNCHANGED <<on, told, bonds, links, call, remaining, seen, history>>

(* factory_reset_bluetooth switches the adapter on, unbonds and has the    *)
(* stack cleared, which may switch it off, and switches it on.             *)
FactoryReset ==
  /\ at = "factory reset" /\ op' = "enable" /\ at' = "enable"
  /\ bonding' = FALSE /\ bonded' = bonded \ {"primary"}
  /\ told' \in {told, FALSE} /\ on' = told'
  /\ switched' \in {switched, switched \union {on'}} /\ linked' = {}
  /\ UNCHANGED <<monitor, posted, wanted, remaining, seen, ok, history>>

(* disable_bluetooth asks, and looks at once.                              *)
Disable ==
  /\ at = "disable" /\ at' = "disabled"
  /\ told' = IF on THEN FALSE ELSE told
  /\ UNCHANGED <<on, switched, bonds, links, call, remaining, seen, ok, history>>

Disabled ==
  /\ at = "disabled" /\ End(~on)
  /\ UNCHANGED <<adapter, bonds, links, call, remaining, seen, history>>

Step ==
  \/ Discover \/ Passkey \/ Bonded \/ Unpair \/ Connect \/ (\E p \in Profiles : Look(p))
  \/ LookTimesOut \/ (\E state \in BOOLEAN : Listen(state) \/ ListenTimesOut(state))
  \/ Disconnect
  \/ SwitchOff \/ IsOff \/ SwitchOn \/ IsOn \/ FactoryReset \/ Disable \/ Disabled

Next ==
  \/ \E o \in {"pair", "enable", "reset", "factory", "disable"} : Begin(o, {})
  \/ \E o \in {"connect", "disconnect"}, ps \in SUBSET Profiles \ {{}} : Begin(o, ps)
  \/ Step
  \/ \E p \in Profiles : Link(p) \/ Unlink(p)
  \/ Bond \/ Switch

Spec == Init /\ [][Next]_vars

-----------------------------------------------------------------------------
(* connect_pri_to_sec and disconnect_pri_from_sec that return True are     *)
(* right: each profile was in that state during the call, or an event of   *)
(* it had been left unread.                                                *)
ProfilesAsReported ==
  at = "idle" /\ ok /\ op \in {"connect", "disconnect"}
    => \A p \in wanted : <<p, op = "connect">> \in was \union old
=============================================================================

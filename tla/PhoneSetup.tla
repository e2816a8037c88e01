------------------------------ MODULE PhoneSetup ------------------------------
(***************************************************************************)
(* How the telephony tests set a phone up and move its data between cell   *)
(* and Wi-Fi (test_utils/tel/tel_voice_utils.py, tel_data_utils.py,        *)
(* tel_test_utils.py).                                                     *)
(*                                                                         *)
(* Each of these functions is a sequence of steps, most of which end it    *)
(* when they fail; some only try, and go on whatever happens.  Meanwhile   *)
(* the phone registers where its settings allow, when it likes.  IWLAN     *)
(* counts as 4G.                                                           *)
(***************************************************************************)
EXTENDS Naturals, Sequences

VARIABLES
  apm,       \* airplane mode
  pref,      \* preferred network type, by its generation
  rat,       \* the technology data is registered on
  wfc,       \* Wi-Fi calling: the mode is not WFC_MODE_DISABLED
  wifiState, \* "off", "up" or "joined"
  data,      \* cell data is switched on
  ap,        \* the provider's Wi-Fi tethering
  at, op,    \* the function: running or not, its name
  gen,       \* ... its generation
  steps,     \* ... the steps it has left
  cleanup,   \* ... those of its finally
  ok,        \* ... it has not failed
  lastRat,   \* history: the technology that satisfied a step last
  inUse,     \* history: all attempts to set pref found DEVICE_IN_USE
  ignored,   \* history: "apm", "wifi": the phone was told to and did not change
  inherited  \* history: airplane mode is on from before the call

phone == <<apm, pref, rat, wfc, wifiState, data, ap>>
history == <<lastRat, inUse, ignored, inherited>>
vars == <<phone, at, op, gen, steps, cleanup, ok, history>>

Generations == {"3g", "4g"}
OnCell == data /\ rat \in Generations
Net == IF wifiState = "joined" THEN "wifi" ELSE IF OnCell THEN "cell" ELSE "none"

(* What a step may wait for.                                               *)
Holds(what) ==
  CASE what = "3g" -> rat = "3g"
    [] what = "4g" -> rat \in {"4g", "iwlan"}    \* rat_generation_from_rat
    [] what = "lte" -> rat = "4g"                \* rat_family_from_rat
    [] what = "listed" -> rat \in Generations    \* rat_families_for_network_preference
    [] what = "iwlan" -> rat = "iwlan"
    [] what = "not iwlan" -> rat # "iwlan"
    [] what = "attached" -> rat # "none"
    [] what = "cell" -> Net = "cell"
    [] what = "no cell" -> ~OnCell
    [] what = "wifi" -> Net = "wifi"

-----------------------------------------------------------------------------
(* The functions.  <<"if", what, n>> skips n steps if what holds, "may"    *)
(* is a check of something that is not modelled, "may skip" one with an    *)
(* alternative.                                                            *)
Family(g) == IF g = "4g" THEN "lte" ELSE g

Toggles(back) == << <<"airplane", TRUE>>, back >>

Ensure(set, what, toggles) ==
  << set, <<"if", what, Len(toggles) + 1>> >> \o toggles \o << <<"await", what>> >>

EnsureGeneration(g, toggles) == Ensure(<<"preference", g>>, g, toggles)
EnsureRat(g, toggles) == Ensure(<<"set", g>>, Family(g), toggles)
EnsurePreference(g, toggles) ==
  Ensure(<<"set", g>>, IF g = "4g" THEN "listed" ELSE g, toggles)

Prepare == << <<"airplane", FALSE>>, <<"wifi default">>, <<"wfc", FALSE>> >>

SetupData(g) == Prepare \o EnsureGeneration(g, <<>>)
SetupVoice(g) == SetupData(g) \o << <<"may">>, <<"may">> >>
SetupVolte == SetupData("4g") \o << <<"may">>, <<"may">>, <<"may">> >>
SetupCsfb ==
  SetupData("4g") \o EnsureGeneration("4g", <<>>)
    \o << <<"may">>, <<"await", "lte">> >>
SetupRat(g) == Prepare \o EnsureRat(g, <<>>)
SetupVoiceGeneral ==
  LET voice == SetupVoice("3g")
  IN << <<"airplane", FALSE>>, <<"may skip", Len(voice)>> >> \o voice
SetupDataGeneral ==
  << <<"airplane", FALSE>>, <<"if", "attached", 1>>, <<"reset preference">>,
     <<"await", "attached">> >>

Join == << <<"may skip", 1>>, <<"join">> >>          \* if wifi_ssid is not None
SetupIwlan(on) ==
  << <<"airplane", on>>, <<"may">> >> \o Join
    \o << <<"wfc", TRUE>>, <<"may">>, <<"await", "iwlan">> >>
SetupCellularPreferred ==
  LET ensure == EnsureGeneration("4g", <<>>)
  IN << <<"airplane", FALSE>>, <<"volte", 1 + Len(ensure)>>,
        <<"if", "4g", Len(ensure)>> >>
       \o ensure \o << <<"wfc", TRUE>> >> \o Join
       \o << <<"await", "not iwlan">>, <<"may">> >>

(* phone_setup_video: with the Wi-Fi as it is.                             *)
SetupVideo ==
  << <<"airplane", FALSE>>, <<"wfc", FALSE>>, <<"may">> >>
    \o EnsureGeneration("4g", <<>>) \o << <<"await", "4g">>, <<"may">> >>

Verified(net) == << <<"await", net>>, <<"internet", TRUE>> >>

Switching(g) ==
  << <<"try">> >> \o EnsureGeneration(g, <<>>)
    \o << <<"join">>, <<"airplane", FALSE>>, <<"wifi", TRUE>>,
          <<"data", TRUE>> >> \o Verified("wifi") \o << <<"wifi", FALSE>> >> \o Verified("cell")
    \o << <<"wifi", TRUE>> >> \o Verified("wifi")
    \o << <<"wifi", FALSE>> >> \o Verified("cell")

AirplaneTest ==
  << <<"may">>, <<"try">>, <<"data", TRUE>>, <<"wifi", FALSE>>, <<"airplane on cell">>,
     <<"internet", TRUE>>, <<"airplane off cell">>, <<"await", "no cell">>,
     <<"internet", FALSE>>, <<"airplane on cell">>, <<"await", "cell">>,
     <<"internet", TRUE>> >>

Bearer(g) ==
  EnsureGeneration(g, <<>>)
    \o << <<"try">>, <<"airplane", FALSE>>, <<"data", TRUE>> >> \o Verified("cell")
    \o << <<"data", FALSE>>, <<"await", "no cell">>, <<"internet", FALSE>>,
          <<"data", TRUE>> >>
    \o Verified("cell") \o << <<"await", g>> >>

Tethering ==
  << <<"may">>, <<"try">>, <<"wifi", FALSE>>, <<"data", FALSE>>, <<"internet", FALSE>>,
     <<"tether">>, <<"may">>, <<"join">>, <<"may">> >> \o Verified("wifi")
    \o << <<"may">> >>

Steps(o, g) ==
  CASE o = "data" -> SetupData(g) [] o = "voice" -> SetupVoice(g)
    [] o = "volte" -> SetupVolte [] o = "video" -> SetupVideo
    [] o = "csfb" -> SetupCsfb [] o = "rat" -> SetupRat(g)
    [] o = "voice general" -> SetupVoiceGeneral [] o = "data general" -> SetupDataGeneral
    [] o = "iwlan" -> SetupIwlan(TRUE) [] o = "iwlan no apm" -> SetupIwlan(FALSE)
    [] o = "cellular preferred" -> SetupCellularPreferred
    [] o = "generation" -> EnsureGeneration(g, Toggles(<<"airplane", FALSE>>))
    [] o = "ensure rat" -> EnsureRat(g, Toggles(<<"airplane other">>))
    [] o = "ensure preference" -> EnsurePreference(g, Toggles(<<"airplane", FALSE>>))
    [] o = "switching" -> Switching(g) [] o = "airplane" -> AirplaneTest
    [] o = "bearer" -> Bearer(g) [] o = "tethering" -> Tethering

AnyGeneration ==
  {"data", "voice", "rat", "generation", "ensure rat", "ensure preference",
   "switching", "bearer"}
Only4g == {"volte", "csfb", "video", "voice general", "data general", "iwlan", "iwlan no apm",
           "cellular preferred", "airplane", "tethering"}

CleanupOf(o) ==
  CASE o = "switching" -> << <<"wifi", FALSE>> >>
    [] o = "airplane" -> << <<"airplane", FALSE>> >>
    [] o = "bearer" -> << <<"data", TRUE>> >>
    [] OTHER -> << <<"data", TRUE>>, <<"wifi default">>, <<"untether">> >>

Init ==
  /\ apm = FALSE /\ pref = "4g" /\ rat = "none" /\ wfc = FALSE /\ wifiState = "off"
  /\ data = TRUE /\ ap = FALSE
  /\ at = "idle" /\ op = "none" /\ gen = "4g" /\ steps = <<>> /\ cleanup = <<>>
  /\ ok = FALSE
  /\ lastRat = "none" /\ inUse = FALSE /\ ignored = {} /\ inherited = FALSE

-----------------------------------------------------------------------------
Here == <<at, op, gen>>

(* The phone registers, or loses its registration; its Wi-Fi joins a       *)
(* network it knows, or loses it.                                          *)
Allowed ==
  (IF apm THEN {} ELSE IF pref = "4g" THEN {"3g", "4g"} ELSE {"3g"})
    \union (IF wfc /\ wifiState = "joined" THEN {"iwlan"} ELSE {})

Register ==
  /\ rat' \in (Allowed \union {"none"}) \ {rat}
  /\ UNCHANGED <<apm, pref, wfc, wifiState, data, ap, Here, steps, cleanup, ok, history>>

WifiChanges ==
  /\ wifiState # "off" /\ wifiState' \in {"up", "joined"} \ {wifiState}
  /\ UNCHANGED <<apm, pref, rat, wfc, data, ap, Here, steps, cleanup, ok, history>>

-----------------------------------------------------------------------------
Begin(o, g) ==
  /\ at = "idle" /\ at' = "running" /\ op' = o /\ gen' = g
  /\ steps' = Steps(o, g) /\ cleanup' = <<>> /\ ok' = TRUE
  /\ lastRat' = "none" /\ inUse' = FALSE /\ ignored' = {} /\ inherited' = apm
  /\ UNCHANGED phone

Current(name) == at = "running" /\ steps # <<>> /\ steps[1][1] = name
arg == steps[1][2]

Pass == steps' = Tail(steps) /\ UNCHANGED <<cleanup, ok>>
Skip(n) == steps' = SubSeq(steps, n + 2, Len(steps)) /\ UNCHANGED <<cleanup, ok>>
Fail == steps' = cleanup /\ cleanup' = <<>> /\ ok' = FALSE

(* toggle_airplane_mode, its result dropped: the phone follows or not, and *)
(* its Wi-Fi with it.  A new_state of None is the other state.             *)
Toggle(new) ==
  /\ apm' \in {apm, new}
  /\ wifiState' \in IF new /\ apm # new THEN {wifiState, "off"} ELSE {wifiState}
  /\ ignored' = IF apm' = new THEN ignored ELSE ignored \union {"apm"}
  /\ inherited' = (inherited /\ new)

Airplane ==
  /\ \/ Current("airplane") /\ Toggle(arg)
     \/ Current("airplane other") /\ Toggle(~apm)
  /\ Pass
  /\ UNCHANGED <<pref, rat, wfc, data, ap, Here, lastRat, inUse>>

(* ... and where airplane_mode_test insists on it.                         *)
AirplaneStrict ==
  /\ \/ Current("airplane on cell") /\ Toggle(FALSE)
     \/ Current("airplane off cell") /\ Toggle(TRUE)
  /\ \/ apm' = (steps[1][1] = "airplane off cell") /\ Pass
     \/ Fail
  /\ UNCHANGED <<pref, rat, wfc, data, ap, Here, lastRat, inUse>>

WifiDefault ==                                    \* set_wifi_to_default
  /\ Current("wifi default") /\ Pass /\ wifiState' = "off"
  /\ UNCHANGED <<apm, pref, rat, wfc, data, ap, Here, history>>

ToggleWifi ==                                     \* wifi_toggle_state
  /\ Current("wifi") /\ Pass
  /\ \/ /\ wifiState' = IF ~arg THEN "off" ELSE IF wifiState = "off" THEN "up" ELSE wifiState
        /\ UNCHANGED ignored
     \/ ignored' = ignored \union {"wifi"} /\ UNCHANGED wifiState
  /\ UNCHANGED <<apm, pref, rat, wfc, data, ap, Here, lastRat, inUse, inherited>>

JoinWifi ==                                       \* ensure_wifi_connected
  /\ Current("join")
  /\ \/ wifiState' = "joined" /\ Pass
     \/ wifiState' = "up" /\ Fail
  /\ UNCHANGED <<apm, pref, rat, wfc, data, ap, Here, history>>

SetWfc ==                                         \* set_wfc_mode
  /\ Current("wfc")
  /\ \/ wfc' = arg /\ Pass
     \/ ~arg /\ ~wfc /\ Pass /\ UNCHANGED wfc    \* not supported
     \/ wfc' \in {wfc, arg} /\ Fail
  /\ UNCHANGED <<apm, pref, rat, wifiState, data, ap, Here, history>>

(* Mutant of Preference: a failure is not looked at.                       *)
PreferenceGoesOn ==
  /\ Current("preference") /\ pref' \in {pref, arg} /\ Pass
  /\ UNCHANGED <<apm, rat, wfc, wifiState, data, ap, Here, history>>

(* The loop of ensure_network_generation: the preference it compares is    *)
(* never read again, so that it is set three times; DEVICE_IN_USE only     *)
(* delays it.  ensure_network_rat and _preference set it once.             *)
Preference ==
  /\ Current("preference")
  /\ \/ pref = arg /\ Pass /\ UNCHANGED <<pref, inUse>>
     \/ pref # arg /\ pref' = arg /\ Pass /\ UNCHANGED inUse
     \/ pref # arg /\ inUse' = TRUE /\ Pass /\ UNCHANGED pref
     \/ pref # arg /\ pref' \in {pref, arg} /\ Fail /\ UNCHANGED inUse
  /\ UNCHANGED <<apm, rat, wfc, wifiState, data, ap, Here, lastRat, ignored, inherited>>

Set ==
  /\ Current("set")
  /\ \/ pref' = arg /\ Pass
     \/ Fail /\ UNCHANGED pref
  /\ UNCHANGED <<apm, rat, wfc, wifiState, data, ap, Here, history>>

ResetPreference ==       \* reset_preferred_network_type_to_allowable_range
  /\ Current("reset preference") /\ Pass /\ pref' \in {pref, "4g"}
  /\ UNCHANGED <<apm, rat, wfc, wifiState, data, ap, Here, history>>

(* _wait_for_droid_in_state looks until it holds, or gives up.             *)
Await ==
  /\ Current("await")
  /\ IF Holds(arg) THEN Pass /\ lastRat' = rat ELSE Fail /\ UNCHANGED lastRat
  /\ UNCHANGED <<phone, Here, inUse, ignored, inherited>>

If ==
  /\ Current("if")
  /\ IF Holds(arg) THEN Skip(steps[1][3]) /\ lastRat' = rat ELSE Pass /\ UNCHANGED lastRat
  /\ UNCHANGED <<phone, Here, inUse, ignored, inherited>>

May ==
  /\ \/ Current("may") /\ (Pass \/ Fail)
     \/ Current("may skip") /\ (Pass \/ Skip(arg))
  /\ UNCHANGED <<phone, Here, history>>

(* toggle_volte, or wait_for_network_generation, raises: caught.           *)
Volte ==
  /\ Current("volte")
  /\ \/ Pass /\ UNCHANGED data
     \/ data' = TRUE /\ Skip(arg)
  /\ UNCHANGED <<apm, pref, rat, wfc, wifiState, ap, Here, history>>

ToggleData ==                                     \* telephonyToggleDataConnection
  /\ Current("data") /\ Pass /\ data' = arg
  /\ UNCHANGED <<apm, pref, rat, wfc, wifiState, ap, Here, history>>

(* verify_internet_connection: a ping may be lost, but needs a network.    *)
Internet ==
  /\ Current("internet")
  /\ \E answer \in (IF Net = "none" THEN {FALSE} ELSE BOOLEAN) :
       IF answer = arg THEN Pass ELSE Fail
  /\ UNCHANGED <<phone, Here, history>>

Tether ==                                         \* start_, stop_wifi_tethering
  /\ \/ Current("tether") /\ ap' = TRUE /\ Pass
     \/ Current("tether") /\ ap' \in BOOLEAN /\ Fail
     \/ Current("untether") /\ ap' = FALSE /\ Pass
     \/ Current("untether") /\ ap' \in {ap, FALSE} /\ Fail
  /\ UNCHANGED <<apm, pref, rat, wfc, wifiState, data, Here, history>>

Try ==
  /\ Current("try") /\ steps' = Tail(steps) /\ cleanup' = CleanupOf(op)
  /\ UNCHANGED <<phone, Here, ok, history>>

(* Mutant of End: no finally after a success.                              *)
EndAtOnce ==
  /\ at = "running" /\ steps = <<>> /\ at' = "idle" /\ cleanup' = <<>>
  /\ UNCHANGED <<phone, op, gen, steps, ok, history>>

End ==
  /\ at = "running" /\ steps = <<>>
  /\ IF cleanup = <<>> THEN at' = "idle" /\ UNCHANGED <<steps, cleanup>>
     ELSE steps' = cleanup /\ cleanup' = <<>> /\ UNCHANGED at
  /\ UNCHANGED <<phone, op, gen, ok, history>>

Next ==
  \/ \E o \in AnyGeneration, g \in Generations : Begin(o, g)
  \/ \E o \in Only4g : Begin(o, "4g")
  \/ Airplane \/ AirplaneStrict \/ WifiDefault \/ ToggleWifi \/ JoinWifi \/ SetWfc
  \/ Preference \/ Set \/ ResetPreference \/ Await \/ If \/ May \/ Volte \/ ToggleData
  \/ Internet \/ Tether \/ Try \/ End
  \/ Register \/ WifiChanges

Spec == Init /\ [][Next]_vars

-----------------------------------------------------------------------------
(* A phone that was set up is on the network it was set up for: its        *)
(* preference is set unless the modem was in use three times, Wi-Fi        *)
(* calling and Wi-Fi are off, and its data was on that generation, where   *)
(* only csfb tells 4G from IWLAN.  A set-up for video leaves Wi-Fi as is.  *)
SetUpAsAsked ==
  at = "idle" /\ ok =>
    /\ op \in {"data", "voice", "volte", "csfb"} =>
         /\ pref = gen \/ inUse
         /\ ~wfc /\ wifiState = "off"
         /\ lastRat = gen \/ (gen = "4g" /\ lastRat = "iwlan" /\ op # "csfb")
    /\ op \in {"generation", "bearer", "video"} => pref = gen \/ inUse
    /\ op = "video" => ~wfc /\ lastRat \in {"4g", "iwlan"}

(* However a function ends, cell data is on, airplane mode is on only for  *)
(* iwlan, or where it was on and was not touched, or a toggle had no       *)
(* effect, and the tests that switch Wi-Fi or tethering leave them off.    *)
Restored ==
  at = "idle" =>
    /\ data
    /\ apm => inherited \/ "apm" \in ignored \/ op = "iwlan"
    /\ op = "switching" => wifiState = "off" \/ "wifi" \in ignored
    /\ op = "tethering" /\ ok => ~ap
=============================================================================

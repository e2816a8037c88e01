---------------------------- MODULE AndroidDevice ----------------------------
(***************************************************************************)
(* Android devices (controllers/android_device.py) and the runner that     *)
(* updates their builds (libs/ota).                                        *)
(*                                                                         *)
(* The test's thread creates and destroys the devices of a test bed, and   *)
(* reboots, restarts and updates one in between.  Each of these stops and  *)
(* starts the services of the device: a logcat process of the host, and an *)
(* SL4A session with its event dispatcher.  Most steps are commands over   *)
(* adb or calls over SL4A, which may raise; logcat and SL4A may die at any *)
(* time, and do when the phone reboots.                                    *)
(***************************************************************************)
EXTENDS Integers, Sequences, FiniteSetsExt

CONSTANTS
  Devices,    \* the devices of the test bed, in order
  SkipSl4a,   \* those whose skip_sl4a is set
  SingleUse,  \* those with a SingleUseOtaRunner; the others' is MultiUse
  Packages    \* number of OTA packages of a MultiUseOtaRunner

Ads == {Devices[i] : i \in DOMAIN Devices}

VARIABLES
  doing,    \* "out", "held" (created), or the operation under way
  stage,    \* the step of the operation
  ad,       \* its device, a number
  last,     \* destroy: the last device of the list
  logcat,   \* adb_logcat_process: "none", or a process that is "up" or "dead"
  session,  \* the manager has a session, its dispatcher started
  server,   \* phone: SL4A runs
  build,    \* phone: its build
  used,     \* SingleUse: _called; MultiUse: current_update_number
  installs, \* history: how often each package was installed, at most 2
  cut,      \* history: devices whose stop_services was ended by an exception
  behind,   \* history: devices that create left without destroying them
  lapsed    \* history: devices with an update that raised

place == <<doing, stage, ad, last>>
services == <<logcat, session, server>>
ota == <<build, used, installs, lapsed>>
vars == <<place, services, ota, cut, behind>>

dev == Devices[ad]
Total(d) == IF d \in SingleUse THEN 1 ELSE Packages

Init ==
  /\ doing = "out" /\ stage = "none" /\ ad = 1 /\ last = 0
  /\ logcat = [d \in Ads |-> "none"] /\ session = [d \in Ads |-> FALSE]
  /\ server \in [Ads -> BOOLEAN]
  /\ build = [d \in Ads |-> 0] /\ used = [d \in Ads |-> 0]
  /\ installs = [d \in Ads |-> [p \in 0 .. Total(d) - 1 |-> 0]]
  /\ cut = {} /\ lapsed = {} /\ behind = {}

Set(f, v) == [f EXCEPT ![dev] = v]
Goto(s) == stage' = s /\ UNCHANGED <<doing, ad, last>>
Return == doing' = "held" /\ stage' = "none" /\ ad' = 1 /\ UNCHANGED last
Destroy(n) == doing' = "destroy" /\ stage' = "check" /\ ad' = 1 /\ last' = n
NextDestroyed ==
  IF ad < last THEN ad' = ad + 1 /\ stage' = "check" /\ UNCHANGED <<doing, last>>
  ELSE doing' = "out" /\ stage' = "none" /\ ad' = 1 /\ last' = 0

(* Mutant of Raise: the device that failed is not destroyed.               *)
RaiseEarlier ==
  CASE doing = "create"  -> Destroy(ad - 1) /\ UNCHANGED cut
    [] doing = "destroy" -> NextDestroyed /\ cut' = cut \union {dev}
    [] OTHER -> Return /\ UNCHANGED cut

(* A failure: create destroys the devices up to this one; destroy logs it  *)
(* and goes on to the next device; the other operations end.               *)
Raise ==
  CASE doing = "create"  -> Destroy(ad) /\ UNCHANGED cut
    [] doing = "destroy" -> NextDestroyed /\ cut' = cut \union {dev}
    [] OTHER -> Return /\ UNCHANGED cut

Lapse == lapsed' = IF doing = "ota" THEN lapsed \union {dev} ELSE lapsed
Fails == Raise /\ Lapse /\ UNCHANGED <<services, build, used, installs>>

-----------------------------------------------------------------------------
(* create() makes new objects: what old ones left running is not theirs.   *)
Create ==
  /\ doing = "out" /\ doing' = "create" /\ stage' = "screen" /\ ad' = 1
  /\ logcat' = [d \in Ads |-> "none"] /\ session' = [d \in Ads |-> FALSE]
  /\ used' = [d \in Ads |-> 0] /\ cut' = {} /\ lapsed' = {} /\ behind' = {}
  /\ installs' = [d \in Ads |-> [p \in 0 .. Total(d) - 1 |-> 0]]
  /\ UNCHANGED <<last, server, build>>

(* ensure_screen_on, is_sl4a_installed.                                    *)
Screen ==
  /\ stage = "screen" /\ Goto("start logcat")
  /\ UNCHANGED <<services, ota, cut>>

(* In create both stand outside the try (160-166): when they return False  *)
(* the devices are destroyed (StepFails), but an exception of theirs, an   *)
(* AdbError say, ends create with the earlier devices running.             *)
ScreenRaises ==
  /\ doing = "create" /\ stage = "screen"
  /\ doing' = "out" /\ stage' = "none" /\ ad' = 1
  /\ behind' = {Devices[i] : i \in 1 .. ad - 1}
  /\ UNCHANGED <<last, services, ota, cut>>

(* start_adb_logcat: is_adb_logcat_on calls SL4A when it finds logcat      *)
(* dead, and there is an error if it is up.                                *)
Answers == session[dev] => server[dev]      \* droid.logI does not raise

StartLogcat ==
  /\ stage = "start logcat"
  /\ logcat[dev] = "none" \/ (logcat[dev] = "dead" /\ Answers)
  /\ logcat' = Set(logcat, "up")
  /\ Goto(IF dev \in SkipSl4a /\ doing # "ota" THEN "started" ELSE "start sl4a")
  /\ UNCHANGED <<session, server, ota, cut>>

(* get_droid and ed.start(), which raises when the dispatcher runs.        *)
StartSl4a ==
  /\ stage = "start sl4a"
  /\ session' = Set(session, TRUE) /\ server' = Set(server, TRUE)
  /\ \/ Goto("started") /\ UNCHANGED <<cut, lapsed>>
     \/ Raise /\ Lapse
  /\ UNCHANGED <<logcat, build, used, installs>>

Started ==
  /\ stage = "started"
  /\ CASE doing = "create" /\ ad < Len(Devices) ->
            ad' = ad + 1 /\ stage' = "screen" /\ UNCHANGED <<doing, last>>
       [] doing = "ota" -> Goto("tool cleanup")
       [] OTHER -> Return
  /\ UNCHANGED <<services, ota, cut>>

-----------------------------------------------------------------------------
DestroyAll ==
  /\ doing = "held" /\ Destroy(Len(Devices))
  /\ UNCHANGED <<services, ota, cut>>

(* stop_services tests is_adb_logcat_on and, if it is, stops logcat ...    *)
CheckLogcat ==
  /\ stage = "check"
  /\ logcat[dev] # "dead" \/ Answers
  /\ Goto(IF logcat[dev] = "up" THEN "stop logcat" ELSE "terminate")
  /\ UNCHANGED <<services, ota, cut>>

(* ... which tests it again, with an error if it is dead by then ...       *)
StopLogcat ==
  /\ stage = "stop logcat" /\ logcat[dev] = "up"
  /\ logcat' = Set(logcat, "none") /\ Goto("terminate")
  /\ UNCHANGED <<session, server, ota, cut>>

AfterTerminate ==
  CASE doing = "reboot" -> Goto("reboot") [] OTHER -> Goto("stop sl4a")

(* ... terminates the sessions: they are gone even if the ports cannot be  *)
(* closed afterwards ...                                                   *)
Terminate ==
  /\ stage = "terminate"
  /\ session' = Set(session, FALSE)
  /\ \/ AfterTerminate /\ UNCHANGED <<cut, lapsed>>
     \/ Raise /\ Lapse
  /\ UNCHANGED <<logcat, server, build, used, installs>>

(* ... and stops SL4A.                                                     *)
StopSl4a ==
  /\ stage = "stop sl4a"
  /\ server' = Set(server, FALSE)
  /\ CASE doing = "destroy" -> NextDestroyed
       [] doing = "restart" -> Goto("restart")
       [] OTHER -> Goto("flash")
  /\ UNCHANGED <<logcat, session, ota, cut>>

-----------------------------------------------------------------------------
(* reboot() does not stop logcat, restart_runtime() does; both end with    *)
(* the screen and the services, unless the reboot is to end at the lock    *)
(* screen.                                                                 *)
Begin(op, first) ==
  /\ doing = "held" /\ doing' = op /\ stage' = first /\ ad' \in DOMAIN Devices
  /\ UNCHANGED <<last, services, cut>>

Reboot  == Begin("reboot", "terminate") /\ UNCHANGED ota
Restart == Begin("restart", "check") /\ UNCHANGED ota

Boots ==
  /\ stage \in {"reboot", "restart"}
  /\ server' = Set(server, FALSE)
  /\ Goto("screen") \/ (doing = "reboot" /\ Return)
  /\ UNCHANGED <<logcat, session, ota, cut>>

(* update(): SingleUse notes the call first, MultiUse counts an update     *)
(* when it is over.                                                        *)
CanUpdate(d) == used[d] < Total(d)

(* Mutant of Update: SingleUse notes the call like MultiUse, in the end.   *)
UpdateUnnoted ==
  /\ Begin("ota", "check") /\ CanUpdate(dev')
  /\ UNCHANGED ota

Update ==
  /\ Begin("ota", "check") /\ CanUpdate(dev')
  /\ used' = IF dev' \in SingleUse THEN [used EXCEPT ![dev'] = 1] ELSE used
  /\ UNCHANGED <<build, installs, lapsed>>

(* The tool installs the package and reboots, without services; then the   *)
(* fingerprints are compared: a package that is already there is an error. *)
Package == IF dev \in SingleUse THEN 0 ELSE used[dev]

Flash ==
  /\ stage = "flash"
  /\ build' = Set(build, Package + 1) /\ server' = Set(server, FALSE)
  /\ installs' = Set(installs, [installs[dev] EXCEPT ![Package] = Min({@ + 1, 2})])
  /\ \/ build[dev] # Package + 1 /\ Goto("start logcat") /\ UNCHANGED <<cut, lapsed>>
     \/ Raise /\ Lapse
  /\ UNCHANGED <<logcat, session, used>>

ToolCleanup ==
  /\ stage = "tool cleanup" /\ Return
  /\ used' = IF dev \in SingleUse THEN used ELSE Set(used, used[dev] + 1)
  /\ UNCHANGED <<services, build, installs, lapsed, cut>>

-----------------------------------------------------------------------------
(* Any step may raise, or find that it cannot be done.                     *)
StepFails == stage # "none" /\ Fails

LogcatDies(d) ==
  /\ logcat[d] = "up" /\ logcat' = [logcat EXCEPT ![d] = "dead"]
  /\ UNCHANGED <<place, session, server, ota, cut>>
ServerDies(d) ==
  /\ server[d] /\ server' = [server EXCEPT ![d] = FALSE]
  /\ UNCHANGED <<place, logcat, session, ota, cut>>

Step ==
  \/ Screen \/ StartLogcat \/ StartSl4a \/ Started
  \/ DestroyAll \/ CheckLogcat \/ StopLogcat \/ Terminate \/ StopSl4a
  \/ Reboot \/ Restart \/ Boots \/ Update \/ Flash \/ ToolCleanup \/ StepFails
  \/ \E d \in Ads : LogcatDies(d) \/ ServerDies(d)

Next == Create \/ ScreenRaises \/ (Step /\ UNCHANGED behind)

Spec == Init /\ [][Next]_vars

-----------------------------------------------------------------------------
(* When no device is held, because create failed or destroy is over,       *)
(* nothing is left running on the host: no logcat, no session with its     *)
(* polling thread; except of a device whose clean_up was ended by an       *)
(* exception, and of those before one whose screen or SL4A create could    *)
(* not even ask for.  create destroys the device that failed too, although *)
(* its services may be half started.                                       *)
NothingLeft ==
  doing = "out" => \A d \in Ads \ (cut \union behind) : logcat[d] # "up" /\ ~session[d]

(* "If any one AndroidDevice object fails to start services, cleans up all *)
(* existing AndroidDevice objects and their services" (151-152).           *)
CreateCleansUp ==
  doing = "out" => \A d \in Ads \ cut : logcat[d] # "up" /\ ~session[d]

(* A package is installed once: a single-use runner notes the call before  *)
(* it does anything that may raise.  A multi-use runner counts an update   *)
(* when it has succeeded, so that after a failure it installs the same     *)
(* package again, and finds the build unchanged if it had been installed.  *)
InstalledOnce ==
  \A d \in Ads : \A p \in DOMAIN installs[d] :
    installs[d][p] > 1 => d \notin SingleUse /\ d \in lapsed
=============================================================================

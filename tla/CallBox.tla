------------------------------- MODULE CallBox -------------------------------
(***************************************************************************)
(* The call helpers of the lab tests (test_utils/tel/anritsu_utils.py): a  *)
(* phone and a base station simulator.                                     *)
(*                                                                         *)
(* The simulator ends a call in its CSCF ("ims") or in its virtual phone   *)
(* ("cs"), each of which has a state the helper polls.  The phone, the     *)
(* CSCF and the virtual phone change when they like and learn of each      *)
(* other's changes late.  Any step of a helper may fail: a wait times out, *)
(* a command raises.                                                       *)
(***************************************************************************)
EXTENDS Naturals, Sequences

CONSTANT MaxMade            \* bound on the calls made

VARIABLES
  made,       \* the calls made so far are 1..made
  ue,         \* the phone's view of each call
  box,        \* state and call of the CSCF and of the virtual phone
  at, op,     \* the helper: where it is, its name
  script,     \* ... the steps it has left
  ok,         \* ... it returned True
  taken,      \* history: the calls the simulator was connected to
  busy        \* history: an earlier call was not over when the helper was called

network == <<made, ue, box, taken>>
helper == <<at, op, script, ok>>
vars == <<network, helper, busy>>

Calls == 1..MaxMade
Domains == {"ims", "cs"}
Idle == [state |-> "idle", call |-> 0]
Live == {"dialing", "alerting", "ringing", "active"}
InCallWith(calls) == \E c \in Calls : calls[c] \in Live
InCall == InCallWith(ue)                                  \* telecomIsInCall

Init ==
  /\ made = 0 /\ ue = [c \in Calls |-> "none"] /\ box = [d \in Domains |-> Idle]
  /\ at = "idle" /\ op = "none" /\ script = <<>> /\ ok = FALSE
  /\ taken = {} /\ busy = FALSE

-----------------------------------------------------------------------------
(* The helpers.                                                            *)
Await(d, s) == << <<"await", d, s>> >>
Dial == << <<"dial">>, <<"offhook">> >>
Answer == << <<"rings">>, <<"accept">>, <<"answered">> >>
End(d, side) ==
  IF side = "remote" THEN << <<"release", d>>, <<"not in call">> >>
  ELSE << <<"hang up">>, <<"not in call">> >>
IfSo(p, steps) == IF p THEN steps ELSE <<>>

Mo(d, emergency, side) ==
  IfSo(d = "cs" \/ ~emergency, Await(d, "idle")) \o Dial
    \o IfSo(d = "ims", Await(d, "calling")) \o Await(d, "connected")
    \o << <<"in call">> >> \o End(d, side) \o Await(d, "idle")

Make(registered, mo) ==
  IfSo(registered, Await("ims", "idle"))
    \o (IF mo THEN Dial \o Await("ims", "calling")
        ELSE << <<"offer", "ims">> >> \o Await("ims", "ringing") \o Answer)
    \o Await("ims", "connected")

ToCs(registered, checked, inCall, mo, side) ==
  IfSo(registered, Await("ims", "idle")) \o Await("cs", "idle")
    \o (IF mo THEN Dial ELSE << <<"offer", "ims">> >>)
    \o IfSo(checked, Await("ims", IF mo THEN "calling" ELSE "ringing"))
    \o IfSo(checked /\ inCall, Await("ims", "connected"))
    \o IfSo(~mo, Answer) \o Await("cs", "connected")
    \o << <<"in call">> >> \o End("cs", side) \o Await("cs", "idle")

Mt(side) ==
  Await("cs", "idle") \o << <<"offer", "cs">> >> \o Answer
    \o << <<"in call">>, IF side = "remote" THEN <<"release", "cs">> ELSE <<"end">>,
          <<"end">> >>

(* ims_call_ho calls handover_tc without its log, which raises.            *)
Ho(registered, mo) == Make(registered, mo) \o << <<"raise">> >>

Sides == {"phone", "remote"}
Scripts(o) ==
  CASE o = "mo ims" -> {Mo("ims", e, s) : e \in BOOLEAN, s \in Sides}
    [] o = "mo cs"  -> {Mo("cs", FALSE, s) : s \in Sides}
    [] o = "make"   -> {Make(r, m) : r, m \in BOOLEAN}
    [] o = "to cs"  -> {ToCs(r, c, i, m, s) : r, c, i, m \in BOOLEAN, s \in Sides}
    [] o = "mt"     -> {Mt(s) : s \in Sides}
    [] o = "ho"     -> {Ho(r, m) : r, m \in BOOLEAN}
    [] o = "tear down" -> { << <<"hang up">>, <<"not in call">> >> \o Await("ims", "idle") }

Helpers == {"mo ims", "mo cs", "make", "to cs", "mt", "ho", "tear down"}

-----------------------------------------------------------------------------
(* What the phone and the simulator do: a call reaches one of its two      *)
(* ends, is taken there, rings, moves from IMS to CS, and leaves either    *)
(* side at any time.                                                       *)
Set(d, state, c) == box' = [box EXCEPT ![d] = [state |-> state, call |-> c]]
Become(c, state) == ue' = [ue EXCEPT ![c] = state]

Reaches(d, c) ==
  /\ ue[c] = "dialing" /\ box[d] = Idle
  /\ Set(d, "calling", c) /\ Become(c, "alerting") /\ UNCHANGED <<made, taken, helper, busy>>

Takes(d) ==
  /\ \/ box[d].state = "calling"
     \/ box[d].state = "ringing" /\ ue[box[d].call] = "active"
  /\ Set(d, "connected", box[d].call) /\ taken' = taken \union {box[d].call}
  /\ UNCHANGED <<made, ue, helper, busy>>

Rings(d) ==
  /\ box[d].state = "offered" /\ ue[box[d].call] = "none"
  /\ Set(d, "ringing", box[d].call) /\ Become(box[d].call, "ringing")
  /\ UNCHANGED <<made, taken, helper, busy>>

IsTaken(d) ==
  /\ box[d].state = "connected" /\ ue[box[d].call] = "alerting"
  /\ Become(box[d].call, "active") /\ UNCHANGED <<made, box, taken, helper, busy>>

Moves ==
  /\ at = "running" /\ op = "to cs" /\ box["cs"] = Idle
  /\ box["ims"].state \in {"calling", "ringing", "connected"} /\ ue[box["ims"].call] \in Live
  /\ box' = [ims |-> Idle, cs |-> box["ims"]]
  /\ UNCHANGED <<made, ue, taken, helper, busy>>

PhoneDrops(c) ==
  /\ ue[c] \in Live /\ Become(c, "ended") /\ UNCHANGED <<made, box, taken, helper, busy>>
BoxDrops(d) ==
  /\ box[d] # Idle /\ box' = [box EXCEPT ![d] = Idle]
  /\ UNCHANGED <<made, ue, taken, helper, busy>>

Network ==
  \/ \E d \in Domains : Takes(d) \/ Rings(d) \/ IsTaken(d) \/ BoxDrops(d)
                        \/ \E c \in Calls : Reaches(d, c)
  \/ Moves
  \/ \E c \in Calls : PhoneDrops(c)

-----------------------------------------------------------------------------
(* The helper takes its next step.                                         *)
step == script[1][1]
arg == script[1][2]
Doing(s) == at = "running" /\ step = s

Goes ==
  /\ script' = Tail(script)
  /\ IF Len(script) = 1 THEN at' = "idle" /\ ok' = TRUE ELSE UNCHANGED <<at, ok>>
  /\ UNCHANGED <<op, busy>>

Begin(o) ==
  /\ at = "idle" /\ (made < MaxMade \/ o = "tear down")
  /\ op' = o /\ at' = "running" /\ ok' = FALSE /\ script' \in Scripts(o)
  /\ busy' = (InCall \/ \E d \in Domains : box[d] # Idle)
  /\ UNCHANGED network

(* Mutant of AwaitBox: it does not matter whether the simulator is idle.   *)
AwaitBoxBusy ==
  /\ Doing("await") /\ (script[1][3] = "idle" \/ box[arg].state = script[1][3])
  /\ Goes /\ UNCHANGED network

(* wait_for_ims_cscf_status, wait_for_virtualphone_state: the poll finds   *)
(* the state.                                                              *)
AwaitBox ==
  /\ Doing("await") /\ box[arg].state = script[1][3] /\ Goes /\ UNCHANGED network

(* initiate_call: the phone is in a call, an older one perhaps, or the     *)
(* event of this one was heard before it was over.                         *)
DialNumber ==
  /\ Doing("dial") /\ made' = made + 1 /\ Become(made', "dialing")
  /\ Goes /\ UNCHANGED <<box, taken>>
OffHook == Doing("offhook") /\ Goes /\ UNCHANGED network

(* The CSCF or the virtual phone is told to make a call.                   *)
Offer ==
  /\ Doing("offer") /\ Goes /\ UNCHANGED <<ue, taken>>
  /\ IF box[arg] = Idle THEN made' = made + 1 /\ Set(arg, "offered", made')
     ELSE UNCHANGED <<made, box>>

(* wait_and_answer_call: a call rings, or rang when its event was sent;    *)
(* it is accepted, or not; and a phone that still rings is in a call too.  *)
HearsRing ==
  /\ Doing("rings") /\ \E c \in Calls : ue[c] = "ringing" \/ (c = made /\ ue[c] = "ended")
  /\ Goes /\ UNCHANGED network
Accept ==
  /\ Doing("accept") /\ Goes /\ UNCHANGED <<made, box, taken>>
  /\ \/ \E c \in Calls : ue[c] = "ringing" /\ Become(c, "active")
     \/ UNCHANGED ue
Answered ==
  /\ Doing("answered") /\ (InCall \/ ue[made] = "ended") /\ Goes /\ UNCHANGED network

CheckInCall == Doing("in call") /\ InCall /\ Goes /\ UNCHANGED network
CheckNotInCall == Doing("not in call") /\ ~InCall /\ Goes /\ UNCHANGED network

(* telecomEndCall ends a call of the phone, or none.                       *)
EndsCall ==
  \/ \E c \in Calls : ue[c] \in Live /\ Become(c, "ended")
  \/ UNCHANGED ue
EndCall ==
  /\ Doing("hang up") \/ Doing("end")
  /\ EndsCall /\ Goes /\ UNCHANGED <<made, box, taken>>

(* The simulator ends its call; call_mt_setup_teardown only asks it to     *)
(* while the phone is in one.                                              *)
Release ==
  /\ Doing("release") /\ Goes /\ UNCHANGED <<made, ue, taken>>
  /\ box' = IF op = "mt" /\ ~InCall THEN box ELSE [box EXCEPT ![arg] = Idle]

(* A step fails.  make_ims_call and call_mt_setup_teardown just return.    *)
StepFails ==
  /\ at = "running" /\ at' = (IF op \in {"make", "mt"} THEN "idle" ELSE "finally")
  /\ script' = <<>> /\ UNCHANGED <<op, ok, network, busy>>

(* The finally of the others: a call is ended, if the phone can be asked.  *)
Finally == at = "finally" /\ at' = "idle" /\ EndsCall
           /\ UNCHANGED <<op, script, ok, made, box, taken, busy>>

Next ==
  \/ Network
  \/ \E o \in Helpers : Begin(o)
  \/ AwaitBox \/ DialNumber \/ OffHook \/ Offer \/ HearsRing \/ Accept \/ Answered
  \/ CheckInCall \/ CheckNotInCall \/ EndCall \/ Release \/ StepFails \/ Finally

Spec == Init /\ [][Next]_vars

-----------------------------------------------------------------------------
(* A helper that returns True is right, however late the phone and the     *)
(* simulator learn of each other: unless an earlier call was not over when *)
(* it was called, the simulator was connected to the call it made (rang,   *)
(* for call_mt_setup_teardown, which asks only the phone); and those that  *)
(* tear down leave the phone out of calls and their end of the simulator   *)
(* idle.                                                                   *)
CallThroughBox ==
  at = "idle" /\ ok =>
    /\ busy \/ op = "tear down" \/ made \in taken \/ (op = "mt" /\ ue[made] # "none")
    /\ op \in {"mo ims", "tear down"} => box["ims"] = Idle
    /\ op \in {"mo cs", "to cs"} => box["cs"] = Idle
    /\ op \in {"mo ims", "mo cs", "to cs", "tear down"} => busy \/ ~InCall
    /\ op # "ho"
=============================================================================

------------------------------ MODULE VoiceCalls ------------------------------
(***************************************************************************)
(* The call helpers of the telephony tests (test_utils/tel/               *)
(* tel_test_utils.py, tel_voice_utils.py), two phones and the network.     *)
(*                                                                         *)
(* One thread makes a phone call the other and answers or rejects there.   *)
(* It looks at the state of a phone or waits for an event, which is sent   *)
(* while call states are tracked; meanwhile calls ring, drop, and end on   *)
(* one phone before the other.                                             *)
(***************************************************************************)
EXTENDS Naturals, Sequences

CONSTANTS
  PhoneA, PhoneB,
  NoPhone,      \* ad_hangup = None
  MaxCalls      \* bound on the calls placed

Constants ==
  PhoneA # PhoneB /\ NoPhone \notin {PhoneA, PhoneB} /\ MaxCalls \in Nat

Phones == {PhoneA, PhoneB}
Calls == 1..MaxCalls

VARIABLES
  placed,       \* the calls placed so far are 1..placed
  line,         \* each phone's view of each call
  tracked,     \* phones that send call state events
  heard,        \* each phone's unread events, by the state they tell
  at, op,       \* the helper: where it is; "call", or "reject"
  plan,         \* ... what is left of a sequence: its callers
  who,          \* ... the phone its loop is at
  before,       \* ... ad.call_ids, the calls known before
  result,       \* ... so far no error
  ok,           \* ... it returned True
  active       \* history: the new call found active on each phone, or 0

network == <<placed, line>>
call == <<op, plan, before>>
vars == <<network, tracked, heard, at, call, who, result, ok, active>>

caller == plan[1]
callee == IF caller = PhoneA THEN PhoneB ELSE PhoneA

(* The two sequences of calls; each phone hangs up one of two.             *)
ShortSeq == <<PhoneA, PhoneA>>
LongSeq == ShortSeq \o <<PhoneB, PhoneB>>
OneCall == {<<p>> : p \in Phones}

Live == {"dialing", "ringing", "active", "held"}
Known(p) == {c \in Calls : line[p][c] \in Live}           \* telecomCallGetCallIds
InCall(p) == Known(p) # {}                                \* telecomIsInCall
StateOf(calls) ==                                         \* telephonyGetCallState
  IF \E c \in Calls : calls[c] = "ringing" THEN "ringing"
  ELSE IF \E c \in Calls : calls[c] \in Live THEN "offhook" ELSE "idle"
State(p) == StateOf(line[p])

Init ==
  /\ placed = 0 /\ line = [p \in Phones |-> [c \in Calls |-> "none"]]
  /\ tracked = {} /\ heard = [p \in Phones |-> {}]
  /\ at = "idle" /\ op = "none" /\ plan = <<>> /\ who = PhoneA
  /\ before = [p \in Phones |-> {}] /\ result = TRUE /\ ok = FALSE
  /\ active = [p \in Phones |-> 0]

-----------------------------------------------------------------------------
(* The states of a phone whose events the helper waits for, now or further *)
(* on; the other events nobody reads, and the next helper clears them.     *)
Awaited(p) ==
  CASE at \in {"initiate", "dial", "offhook"} /\ p = caller -> {"offhook"}
    [] at \in {"answer", "ring", "accept", "answered"} /\ p = callee -> {"ringing", "offhook"}
    [] at \in {"reject", "disconnect", "rejected"} /\ p = callee -> {"idle", "offhook"}
    [] OTHER -> {}

(* The phone's calls change; its state's change is an event if tracked.    *)
Become(p, calls) ==
  /\ line' = [line EXCEPT ![p] = calls]
  /\ heard' = IF p \in tracked /\ StateOf(calls) # State(p)
              THEN [heard EXCEPT ![p] = @ \union ({StateOf(calls)} \intersect Awaited(p))]
              ELSE heard

Hold(calls) == [c \in Calls |-> IF calls[c] = "active" THEN "held" ELSE calls[c]]

(* What the phone makes of telecomAcceptRingingCall and telecomEndCall:    *)
(* one call, or none.                                                      *)
Accepts(calls) == {calls} \union
  {[Hold(calls) EXCEPT ![c] = "active"] : c \in {d \in Calls : calls[d] = "ringing"}}
Ends(calls) == {calls} \union
  {[calls EXCEPT ![c] = "ended"] : c \in {d \in Calls : calls[d] \in Live}}

Test == <<tracked, at, call, who, result, ok, active>>

(* The network: a call rings, is answered, and leaves a phone at any time. *)
Rings(p, q, c) ==
  /\ p # q /\ line[p][c] = "dialing" /\ line[q][c] = "none"
  /\ Become(q, [line[q] EXCEPT ![c] = "ringing"]) /\ UNCHANGED <<placed, Test>>

IsAnswered(p, q, c) ==
  /\ line[p][c] = "dialing" /\ line[q][c] = "active"
  /\ Become(p, [line[p] EXCEPT ![c] = "active"]) /\ UNCHANGED <<placed, Test>>

Drops(p, c) ==
  /\ line[p][c] \in Live
  /\ Become(p, [line[p] EXCEPT ![c] = "ended"]) /\ UNCHANGED <<placed, Test>>

-----------------------------------------------------------------------------
(* clear_events; an event of an earlier helper may still be on its way.    *)
ClearAndTrack(p) ==
  /\ \E h \in {{}} \union {{s} : s \in Awaited(p)} : heard' = [heard EXCEPT ![p] = h]
  /\ tracked' = tracked \union {p}

Unheard(p) == heard' = [heard EXCEPT ![p] = {}]
Untrack(p) == tracked' = tracked \ {p} /\ Unheard(p)

(* wait_for_event finds an event.                                          *)
Hears(p, states) == heard[p] \intersect states # {}

(* The helper returns; a sequence goes on after a success.                 *)
Return(success) ==
  /\ ok' = success /\ plan' = Tail(plan)
  /\ at' = IF success /\ Len(plan) > 1 THEN "end" ELSE "idle"
  /\ who' = PhoneA

(* call_setup_teardown, a sequence of them, or call_reject.                *)
Begin(o, calls, start) ==
  /\ at = "idle" /\ op' = o /\ plan' = calls /\ at' = start /\ who' = PhoneA
  /\ ok' = FALSE /\ result' = TRUE /\ before' = [p \in Phones |-> {}]
  /\ active' = [p \in Phones |-> 0]
  /\ UNCHANGED <<network, tracked, heard>>

(* ensure_phones_idle on each phone; whether the phone gets idle in time,  *)
(* two_phone_call_short_seq and _long_seq do not look.                     *)
EnsureIdle ==
  /\ at = "end"
  /\ IF InCall(who) THEN \E cs \in Ends(line[who]) : Become(who, cs)
     ELSE UNCHANGED <<line, heard>>
  /\ IF who = PhoneA THEN who' = PhoneB /\ UNCHANGED at ELSE at' = "reselect" /\ UNCHANGED who
  /\ UNCHANGED <<placed, tracked, call, result, ok, active>>

Reselect ==       \* phone_a_idle_func, phone_b_idle_func
  /\ at = "reselect"
  /\ \/ at' = "ids" /\ UNCHANGED <<plan, who, ok>>
     \/ plan' = <<>> /\ at' = "idle" /\ ok' = FALSE /\ UNCHANGED who
  /\ UNCHANGED <<network, tracked, heard, op, before, result, active>>

GetCallIds ==
  /\ at = "ids" /\ at' = "initiate"
  /\ before' = [p \in Phones |-> Known(p)] /\ result' = TRUE
  /\ active' = [p \in Phones |-> 0]
  /\ UNCHANGED <<network, tracked, heard, op, plan, who, ok>>

(* initiate_call: the phone may not place the call ...                     *)
Initiate ==
  /\ at = "initiate" /\ ClearAndTrack(caller) /\ at' = "dial"
  /\ UNCHANGED <<network, call, who, result, ok, active>>

Dial ==
  /\ at = "dial" /\ at' = "offhook"
  /\ \/ /\ placed < MaxCalls /\ placed' = placed + 1
        /\ Become(caller, [Hold(line[caller]) EXCEPT ![placed'] = "dialing"])
     \/ UNCHANGED <<network, heard>>
  /\ UNCHANGED <<tracked, call, who, result, ok, active>>

(* ... and is looked at and listened to a few times.  On failure "return   *)
(* False" leaves result True, for which the finally ends no call.          *)
Offhook ==
  /\ at = "offhook" /\ Untrack(caller)
  /\ \/ /\ State(caller) = "offhook" \/ Hears(caller, {"offhook"})
        /\ at' = "answer" /\ UNCHANGED <<plan, who, ok>>
     \/ Return(FALSE)
  /\ UNCHANGED <<network, op, before, result, active>>

(* wait_and_answer_call_for_subscription and wait_and_reject_call: the     *)
(* callee rings, or an event says that it did.                             *)
AwaitCall ==
  /\ at = "answer" /\ ClearAndTrack(callee) /\ at' = "ring"
  /\ UNCHANGED <<network, call, who, result, ok, active>>

Ringing ==
  /\ at = "ring" /\ (Hears(callee, {"ringing"}) \/ State(callee) = "ringing")
  /\ IF op = "call" /\ InCall(caller)
     THEN at' = "accept" /\ UNCHANGED <<tracked, heard, plan, who, ok>>
     ELSE /\ Untrack(callee)
          /\ \/ op = "reject" /\ at' = "reject" /\ UNCHANGED <<plan, who, ok>>
             \/ Return(FALSE)      \* the caller dropped, or the number is another
  /\ UNCHANGED <<network, op, before, result, active>>

(* It does not ring: only one of the two stops tracking.                  *)
NeverRings ==
  /\ at = "ring" /\ Return(FALSE)
  /\ IF op = "call" THEN Untrack(callee)
     ELSE Unheard(callee) /\ UNCHANGED tracked
  /\ UNCHANGED <<network, op, before, result, active>>

Accept ==
  /\ at = "accept" /\ at' = "answered"
  /\ \E cs \in Accepts(line[callee]) : Become(callee, cs)
  /\ UNCHANGED <<placed, tracked, call, who, result, ok, active>>

Answered ==
  /\ at = "answered" /\ Untrack(callee)
  /\ IF InCall(callee) \/ Hears(callee, {"offhook"})
     THEN at' = "active" /\ who' = caller /\ UNCHANGED <<plan, ok>>
     ELSE Return(FALSE)
  /\ UNCHANGED <<network, op, before, result, active>>

(* Mutant of CheckActive: the call need not be a new one.                  *)
CheckActiveAny(c) ==
  /\ at = "active" /\ c \in Known(who)
  /\ \/ /\ line[who][c] = "active" /\ UNCHANGED result
        /\ active' = [active EXCEPT ![who] = c]
     \/ result' = FALSE /\ UNCHANGED active
  /\ IF who = caller THEN who' = callee /\ UNCHANGED at ELSE at' = "verify" /\ UNCHANGED who
  /\ UNCHANGED <<network, tracked, heard, call, ok>>

(* Caller, then callee: one of the new calls, set order, must get active.  *)
CheckActive(c) ==
  /\ at = "active" /\ c \in Known(who) \ before[who]
  /\ \/ /\ line[who][c] = "active" /\ UNCHANGED result
        /\ active' = [active EXCEPT ![who] = c]
     \/ result' = FALSE /\ UNCHANGED active    \* not active, or no audio
  /\ IF who = caller THEN who' = callee /\ UNCHANGED at ELSE at' = "verify" /\ UNCHANGED who
  /\ UNCHANGED <<network, tracked, heard, call, ok>>

NoNewCall ==        \* [0] of an empty list raises IndexError
  /\ at = "active" /\ Known(who) \subseteq before[who]
  /\ IF result THEN Return(FALSE) ELSE at' = "finally" /\ who' = caller /\ UNCHANGED <<plan, ok>>
  /\ UNCHANGED <<network, tracked, heard, op, before, result, active>>

Verify ==
  /\ at = "verify" /\ at' = "hangup"
  /\ \/ (\A p \in Phones : InCall(p)) /\ UNCHANGED result
     \/ result' = FALSE
  /\ UNCHANGED <<network, tracked, heard, call, who, ok, active>>

(* hangup_call, at once if the phone is in no call.                        *)
MayHangUp(p) == op = "reject" => p = caller

Hangup(p) ==
  /\ at = "hangup" /\ MayHangUp(p)
  /\ IF p # NoPhone /\ InCall(p)
     THEN ClearAndTrack(p) /\ at' = "end call" /\ who' = p
     ELSE at' = "finally" /\ who' = caller /\ UNCHANGED <<heard, tracked>>
  /\ UNCHANGED <<network, call, result, ok, active>>

EndCall ==
  /\ at = "end call" /\ at' = "hung up"
  /\ \E cs \in Ends(line[who]) : Become(who, cs)
  /\ UNCHANGED <<placed, tracked, call, who, result, ok, active>>

(* The event or a timeout, then the state decides; call_reject drops the   *)
(* answer.                                                                 *)
HungUp ==
  /\ at = "hung up" /\ Untrack(who) /\ at' = "finally" /\ who' = caller
  /\ result' = (result /\ (op = "call" => ~InCall(who)))
  /\ UNCHANGED <<network, call, ok, active>>

(* The finally of call_setup_teardown: after an error both phones end.     *)
Finally ==
  /\ at = "finally"
  /\ IF ~result /\ InCall(who) THEN \E cs \in Ends(line[who]) : Become(who, cs)
     ELSE UNCHANGED <<line, heard>>
  /\ IF result \/ who = callee THEN Return(result)
     ELSE who' = callee /\ UNCHANGED <<at, plan, ok>>
  /\ UNCHANGED <<placed, tracked, op, before, result, active>>

(* wait_and_reject_call tracks again, disconnects the callee's calls of    *)
(* that number, and without any returns at once; or ignores the call.      *)
StartReject ==
  /\ at = "reject" /\ ClearAndTrack(callee) /\ at' = "disconnect"
  /\ UNCHANGED <<network, call, who, result, ok, active>>

Reject(found) ==
  /\ at = "disconnect"
  /\ IF found
     THEN /\ \E cs \in Ends(line[callee]) : Become(callee, cs)
          /\ at' = "rejected" /\ UNCHANGED <<tracked, plan, who, ok>>
     ELSE Return(FALSE) /\ Unheard(callee) /\ UNCHANGED <<line, tracked>>
  /\ UNCHANGED <<placed, op, before, result, active>>

Rejected ==
  /\ at = "rejected" /\ Untrack(callee) /\ result' = TRUE
  /\ \/ /\ Hears(callee, {"idle", "offhook"}) /\ State(callee) # "ringing"
        /\ at' = "hangup" /\ UNCHANGED <<plan, who, ok>>
     \/ Return(FALSE)
  /\ UNCHANGED <<network, op, before, active>>

Helper ==
  \/ EnsureIdle \/ Reselect \/ GetCallIds \/ Initiate \/ Dial \/ Offhook \/ AwaitCall
  \/ Ringing \/ NeverRings \/ Accept \/ Answered \/ (\E c \in Calls : CheckActive(c))
  \/ NoNewCall \/ Verify \/ (\E p \in Phones \union {NoPhone} : Hangup(p)) \/ EndCall \/ HungUp \/ Finally
  \/ StartReject \/ (\E found \in BOOLEAN : Reject(found)) \/ Rejected

Next ==
  \/ \E p \in {ShortSeq, LongSeq} : Begin("call", p, "end")
  \/ \E p \in OneCall : Begin("call", p, "ids")
  \/ \E p \in Phones : Begin("reject", <<p>>, "initiate")
  \/ Helper
  \/ \E p, q \in Phones, c \in Calls : Rings(p, q, c) \/ IsAnswered(p, q, c)
  \/ \E p \in Phones, c \in Calls : Drops(p, c)

Spec == Init /\ [][Next]_vars

-----------------------------------------------------------------------------
(* What call_setup_teardown reports is the call it placed, and that was    *)
(* active on both phones: a call that an earlier failure left on one of    *)
(* them is never taken for it.                                             *)
OneNewCall ==
  at = "idle" /\ op = "call" /\ ok
    => \A p \in Phones : active[p] = placed
=============================================================================

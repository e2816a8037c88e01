------------------------------- MODULE Messages -------------------------------
(***************************************************************************)
(* The message helpers of the telephony tests (test_utils/tel/            *)
(* tel_test_utils.py): a message is sent and confirmed on the sender, and  *)
(* waited for on the receiver, in sessions of their own on both phones.    *)
(*                                                                         *)
(* The network loses, splits, doubles and delays messages; a session dies, *)
(* or is terminated with the others of its phone.  A text is a sequence of *)
(* segments; texts may be equal, or one may start like another, as those   *)
(* do that TelLiveStressTest makes ("The %s-th SMS test: ...", cut short). *)
(***************************************************************************)
EXTENDS Naturals, Sequences

CONSTANTS
  Texts,      \* the texts that tests send
  MaxSent     \* bound on the messages sent

Constants == MaxSent \in Nat /\ \A t \in Texts : t # <<>> /\ Len(t) \in Nat

VARIABLES
  texts,      \* the texts of the messages sent so far; an MMS has none
  air,        \* events and parts on their way
  channel,    \* messaging_droid, messaging_ed of each phone
  follows,    \* the kinds the receiver's session tracks
  unread,     \* EventSmsReceived, EventMmsDownloaded in the receiver's messaging_ed
  log,        \* logcat has an MMS that came since begin_time
  at, op,     \* the helper: "sms", "mms", or "hangup": mms_receive_verify_after_call_hangup
  toSend,     \* ... messages of the array left
  rest,       \* ... the place in the text of what is not received yet
  ok,         \* ... it returned True
  first,      \* ... history: its first message
  came        \* history: <<n, event>>: that came, tracked, when the n-th message was due

phones == <<channel, follows, unread>>
network == <<texts, air, log, came>>
helper == <<at, op, toSend, rest, ok, first>>
vars == <<phones, network, helper>>

Ends == {"sender", "receiver"}
Kind == IF op = "sms" THEN "sms" ELSE "mms"
sent == Len(texts)

(* The message on its way through the helper.                              *)
Due == IF at \in {"confirm", "receive"} THEN sent ELSE sent + 1

(* The network delivers a text whole, or segment by segment.               *)
Splits(t) == {{[from |-> 1, to |-> Len(t)]}, {[from |-> i, to |-> i] : i \in 1 .. Len(t)}}
Part(k, p) == [kind |-> Kind, no |-> k, part |-> p]
Size(e) == e.part.to - e.part.from + 1

(* The content of the event stands in the k-th text from place i on.       *)
Fits(e, k, i) ==
  \A j \in 0 .. Size(e) - 1 :
    i + j <= Len(texts[k]) /\ texts[e.no][e.part.from + j] = texts[k][i + j]

Init ==
  /\ texts = <<>> /\ air = {} /\ log = FALSE /\ came = {}
  /\ channel = [p \in Ends |-> "none"] /\ follows = {} /\ unread = {}
  /\ at = "idle" /\ op = "none" /\ toSend = 0 /\ rest = 1 /\ ok = FALSE /\ first = 1

-----------------------------------------------------------------------------
(* A part comes, perhaps not for the last time; it is an event if tracked. *)
Arrives(e) ==
  /\ e \in air /\ air' \in {air, air \ {e}}
  /\ IF channel["receiver"] = "live" /\ e.kind \in follows
     THEN /\ unread' = unread \union {e}
          /\ came' = IF e.kind = "sms" THEN came \union {<<Due, e>>} ELSE came
     ELSE UNCHANGED <<unread, came>>
  /\ log' = (log \/ e.kind = "mms")
  /\ UNCHANGED <<texts, channel, follows, helper>>

(* The server of a session dies, or terminate_all_sessions ends it.        *)
SessionEnds(p, how) ==
  /\ channel[p] = "live" /\ channel' = [channel EXCEPT ![p] = how]
  /\ follows' = IF p = "receiver" THEN {} ELSE follows
  /\ UNCHANGED <<unread, network, helper>>

-----------------------------------------------------------------------------
Return(success) == at' = "idle" /\ ok' = success

Begin(o, n) ==
  /\ at = "idle" /\ (o # "hangup" => sent + n <= MaxSent)
  /\ at' = "sessions" /\ op' = o /\ toSend' = n /\ ok' = FALSE
  /\ first' = sent + 1 /\ came' = {} /\ rest' = 1
  /\ UNCHANGED <<phones, texts, air, log>>

(* A phone without messaging_droid gets one.  sms_... asks its is_live,    *)
(* which is no attribute: the client takes it for a method, true as any    *)
(* is, and only a terminated one raises and is replaced.                   *)
Renewed == {p \in Ends : channel[p] = "none" \/ (op = "sms" /\ channel[p] = "terminated")}

Sessions ==
  /\ at = "sessions" /\ at' = "track"
  /\ channel' = [p \in Ends |-> IF p \in Renewed THEN "live" ELSE channel[p]]
  /\ unread' = IF "receiver" \in Renewed THEN {} ELSE unread
  /\ UNCHANGED <<follows, network, op, toSend, rest, ok, first>>

(* clear_events, not after a call, and tracking is started, or raises.     *)
Track ==
  /\ at = "track" /\ log' = FALSE
  /\ unread' = IF op = "hangup" THEN unread ELSE {e \in unread : e.kind # Kind}
  /\ IF channel["receiver"] = "live"
     THEN follows' = follows \union {Kind} /\ rest' = 1 /\ at' = "send" /\ UNCHANGED ok
     ELSE Return(FALSE) /\ UNCHANGED <<follows, rest>>
  /\ UNCHANGED <<texts, air, came, channel, op, toSend, first>>

(* The finally: sms_... stops tracking where it was started, mms_... on    *)
(* ad_rx.droid, another session that tracks nothing.                       *)
Finally == follows' = IF op = "sms" THEN follows \ {"sms"} ELSE follows

(* The phone sends; a part that is lost never comes.                       *)
Send ==
  /\ at = "send" /\ op # "hangup"
  /\ IF channel["sender"] = "live"
     THEN /\ at' = "confirm"
          /\ \E t \in IF op = "sms" THEN Texts ELSE {<<>>} : \E parts \in Splits(t) :
               /\ texts' = Append(texts, t)
               /\ air' = air \union {Part(sent + 1, p) : p \in parts}
          /\ UNCHANGED <<ok, follows>>
     ELSE Return(FALSE) /\ Finally /\ UNCHANGED <<texts, air>>
  /\ UNCHANGED <<log, came, channel, unread, op, toSend, rest, first>>

(* hangup_call on both phones; the MMS was sent during the call.           *)
HangUp ==
  /\ at = "send" /\ op = "hangup" /\ at' = "confirm"
  /\ UNCHANGED <<phones, network, op, toSend, rest, ok, first>>

(* The event that it was sent, or a line of logcat, or neither.            *)
Confirm ==
  /\ at = "confirm"
  /\ \/ at' = "receive" /\ UNCHANGED <<follows, ok>>
     \/ Return(FALSE) /\ Finally
  /\ UNCHANGED <<network, channel, unread, op, toSend, rest, first>>

(* Mutant of Matches: the text is not compared.                            *)
MatchesAny(e) == e.kind = Kind

(* is_sms_partial_match: what is left of the text starts with the content  *)
(* of the event, whichever message it is of.  is_mms_match: any.           *)
Matches(e) == e.kind = Kind /\ (op = "sms" => Fits(e, sent, rest))

(* The message is received; the finally raises in a session that ended.    *)
Received ==
  /\ toSend' = toSend - 1 /\ Finally
  /\ CASE op = "sms" /\ channel["receiver"] # "live" -> Return(FALSE)
       [] OTHER -> IF toSend > 1 THEN at' = "track" /\ UNCHANGED ok ELSE Return(TRUE)

(* wait_for_event takes a matching event, and puts the others back.        *)
Receive(e) ==
  /\ at = "receive" /\ e \in unread /\ Matches(e)
  /\ unread' = unread \ {e} /\ rest' = IF op = "sms" THEN rest + Size(e) ELSE rest
  /\ IF op = "sms" /\ rest' <= Len(texts[sent])
     THEN UNCHANGED <<at, toSend, follows, ok>> ELSE Received
  /\ UNCHANGED <<network, channel, op, first>>

(* Empty: for an MMS logcat may know.                                      *)
GivesUp ==
  /\ at = "receive" /\ ~\E e \in unread : Matches(e)
  /\ \/ Return(FALSE) /\ Finally /\ UNCHANGED toSend
     \/ op # "sms" /\ log /\ Received
  /\ UNCHANGED <<network, channel, unread, op, rest, first>>

Next ==
  \/ \E o \in {"sms", "mms", "hangup"}, n \in 1..2 : Begin(o, n)
  \/ Sessions \/ Track \/ Send \/ HangUp \/ Confirm
  \/ \E e \in unread : Receive(e)
  \/ GivesUp
  \/ \E e \in air : Arrives(e)
  \/ \E p \in Ends, how \in {"dead", "terminated"} : SessionEnds(p, how)

Spec == Init /\ [][Next]_vars

-----------------------------------------------------------------------------
(* A segment of the k-th text came when that text was due.                 *)
Covered(k, s) ==
  \E c \in came : c[1] = k /\ \E i \in 1 .. s : Fits(c[2], k, i) /\ s < i + Size(c[2])

(* "Verify received content" (line 3596): when the helper returns True,    *)
(* every segment of every text of its array stands in the content of an    *)
(* event that came when the text was due, after what earlier ones left     *)
(* unread was cleared: nothing that came before or does not fit is counted *)
(* for it, although events come late, twice and in pieces, and a text is   *)
(* put together of several.  (Where texts are alike the event may be an    *)
(* earlier one's.)  And tracking has been turned off again.                *)
MessageArrived ==
  at = "idle" /\ op = "sms" /\ ok =>
    /\ \A k \in first .. sent : \A s \in 1 .. Len(texts[k]) : Covered(k, s)
    /\ "sms" \notin follows
=============================================================================

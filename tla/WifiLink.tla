------------------------------- MODULE WifiLink -------------------------------
(***************************************************************************)
(* The Wi-Fi helpers of the tests (test_utils/wifi/wifi_test_utils.py) and *)
(* the phone they drive.                                                   *)
(*                                                                         *)
(* A helper asks the phone for something over rpc and learns of the result *)
(* from events.  The phone broadcasts a connection only while state        *)
(* changes are tracked; the event travels through the phone's buffer and   *)
(* the poller of the dispatcher to the queue of its name, and clearing the *)
(* queues does not reach one that is still on its way.  Events that only   *)
(* say "done" are the choice between success and Empty.                    *)
(***************************************************************************)
EXTENDS Naturals, Sequences, Functions

CONSTANTS
  Networks,
  NoNetwork,
  IdZero,     \* the network whose id is 0, or NoNetwork
  Unread      \* bound on the connected events that nobody has read

Constants == NoNetwork \notin Networks /\ Unread \in Nat

VARIABLES
  power, asked,    \* phone: Wi-Fi is on, and the state it was told to take
  assoc, saved,    \* phone: the network it is on, and those it has a config of
  tracking,        \* phone: state changes are tracked
  flight,          \* the networks of the connected events on their way
  queue,           \* ... and of those in the dispatcher's queue
  at, op, net,     \* the helper: where it is, its name, its network
  tries,           \* ... the pops it has left
  got,             \* ... conn_result, the network of the last event popped
  ok,              \* ... it returned success
  toForget,        \* ... networks it has still to forget
  joined,          \* history: networks joined since the queues were cleared last
  stale,           \* history: networks of events that were on their way then
  missed           \* history: the phone joined a network while nobody tracked

phone == <<power, asked, assoc, saved>>
events == <<flight, queue>>
call == <<op, net, toForget>>
history == <<joined, stale, missed>>
vars == <<phone, tracking, events, at, call, tries, got, ok, history>>

Scanning == {"scan_connect", "scan_by_id"}  \* connect_to_wifi_network[_with_id]
ById == {"by_id", "scan_by_id"}
Connecting == {"connect", "passpoint", "reconnect"} \union Scanning \union ById

(* num_of_tries of the connection.  _wifi_passpoint_connect passes its own *)
(* as the id of wait_for_connect, which then tries once.                   *)
Tries == CASE op \in Scanning \union ById -> 3 [] OTHER -> 1

Init ==
  /\ power \in BOOLEAN /\ asked = power /\ assoc = NoNetwork /\ saved \in SUBSET Networks
  /\ tracking = FALSE /\ flight = <<>> /\ queue = <<>>
  /\ at = "idle" /\ op = "none" /\ net = NoNetwork /\ tries = 0 /\ got = NoNetwork
  /\ ok = FALSE /\ toForget = {}
  /\ joined = {} /\ stale = {} /\ missed = FALSE

-----------------------------------------------------------------------------
(* The phone joins a network it has a config of ...                        *)
Join(n) ==
  /\ power /\ assoc = NoNetwork /\ n \in saved
  /\ tracking => Len(flight) + Len(queue) < Unread
  /\ assoc' = n /\ joined' = joined \union {n}
  /\ flight' = IF tracking THEN Append(flight, n) ELSE flight
  /\ missed' = (missed \/ ~tracking)
  /\ UNCHANGED <<power, asked, saved, tracking, queue, at, call, tries, got, ok,
                 stale>>

(* ... loses it, or switches Wi-Fi as it was told.                         *)
Leave ==
  /\ assoc # NoNetwork /\ assoc' = NoNetwork
  /\ UNCHANGED <<power, asked, saved, tracking, events, at, call, tries, got, ok,
                 history>>

Switch ==
  /\ power # asked /\ power' = asked
  /\ assoc' = IF asked THEN assoc ELSE NoNetwork
  /\ UNCHANGED <<asked, saved, tracking, events, at, call, tries, got, ok, history>>

(* poll_events: the next event reaches its queue.                          *)
Poll ==
  /\ flight # <<>>
  /\ queue' = Append(queue, Head(flight)) /\ flight' = Tail(flight)
  /\ UNCHANGED <<phone, tracking, at, call, tries, got, ok, history>>

-----------------------------------------------------------------------------
(* clear_all_events.                                                       *)
Clear ==
  /\ queue' = <<>> /\ joined' = {} /\ stale' = Range(flight) /\ missed' = FALSE
  /\ UNCHANGED flight

StartTracking == tracking' = TRUE
StopTracking == tracking' = FALSE

End(success) == at' = "idle" /\ ok' = success

(* A test calls a helper.  None clears the queues first.                   *)
Begin(o, n) ==
  /\ at = "idle"
  /\ op' = o /\ net' = n /\ got' = NoNetwork /\ ok' = FALSE /\ toForget' = {}
  /\ joined' = {} /\ stale' = Range(flight) \union Range(queue) /\ missed' = FALSE
  /\ at' = CASE o \in Scanning -> "scan"
             [] o \in {"connect", "by_id"} -> "request"
             [] o = "passpoint" -> "listen"
             [] o = "reconnect" -> "verify info"
             [] o = "toggle" -> "on"
             [] o \in {"reset", "forget"} -> "forget"
             [] OTHER -> o
  /\ tries' = 3      \* check_connection_count
  /\ UNCHANGED <<phone, tracking, events>>

(* start_wifi_connection_scan_and_return_status: the network is found, it  *)
(* is not and the scan repeated (max_tries times, here as often as it may  *)
(* be), or that was the last or no result comes, and the helper fails.     *)
Scan ==
  /\ at = "scan" /\ Clear
  /\ \/ at' = "request" /\ UNCHANGED ok
     \/ UNCHANGED <<at, ok>>
     \/ End(FALSE)
  /\ UNCHANGED <<phone, tracking, call, tries, got>>

(* _wifi_connect and _wifi_connect_by_id up to the call of the phone, which *)
(* keeps the config; only the second clears the queues.                    *)
Request ==
  /\ at = "request" /\ StartTracking
  /\ saved' = saved \union {net} /\ at' = "submitted"
  /\ IF op \in ById THEN Clear ELSE UNCHANGED <<events, joined, stale, missed>>
  /\ UNCHANGED <<power, asked, assoc, call, tries, got, ok>>

(* The confirmation is popped, or Empty raised.                            *)
Submitted ==
  /\ at = "submitted"
  /\ at' \in {"wait", "fail"} /\ tries' = Tries
  /\ UNCHANGED <<phone, tracking, events, call, got, ok, history>>

(* _wifi_passpoint_connect, and the end of                                 *)
(* _toggle_wifi_and_wait_for_reconnection.                                 *)
Listen ==
  /\ at = "listen" /\ StartTracking
  /\ at' = "wait" /\ tries' = Tries
  /\ UNCHANGED <<phone, events, call, got, ok, joined, stale, missed>>

(* wait_for_connect: "if id" holds for no id that is 0; the loop of        *)
(* _toggle_wifi_and_wait_for_reconnection takes any event.                 *)
Matches(n) ==
  \/ op = "reconnect"
  \/ n = net /\ (op \in ById => n # IdZero)

PopConnected ==
  /\ at = "wait" /\ queue # <<>>
  /\ got' = Head(queue) /\ queue' = Tail(queue)
  /\ tries' = IF Matches(got') THEN 0 ELSE tries - 1
  /\ at' = IF tries' = 0 THEN "check" ELSE "wait"
  /\ UNCHANGED <<phone, tracking, flight, call, ok, history>>

PopTimesOut ==
  /\ at = "wait" /\ queue = <<>>
  /\ tries' = tries - 1 /\ at' = IF tries = 1 THEN "check" ELSE "wait"
  /\ UNCHANGED <<phone, tracking, events, call, got, ok, history>>

(* Mutant of Check: the event's network is not compared.                    *)
CheckAny ==
  /\ at = "check" /\ at' \in IF got = NoNetwork THEN {"fail"} ELSE {"pass", "fail"}
  /\ got' = NoNetwork /\ UNCHANGED <<phone, tracking, events, call, tries, ok, history>>

(* The event's network must be the one asked for; then the internet is     *)
(* pinged, but not after a reconnection.                                   *)
Check ==
  /\ at = "check"
  /\ at' \in IF got # net THEN {"fail"}
             ELSE IF op = "reconnect" THEN {"pass"} ELSE {"pass", "fail"}
  /\ got' = NoNetwork /\ UNCHANGED <<phone, tracking, events, call, tries, ok, history>>

(* finally: tracking stops.  connect_to_wifi_network_with_id looks at the  *)
(* phone's network once more.                                              *)
Finally ==
  /\ at \in {"pass", "fail"} /\ StopTracking
  /\ End(at = "pass" /\ (op = "scan_by_id" => assoc = net))
  /\ UNCHANGED <<phone, events, call, tries, got, joined, stale, missed>>

-----------------------------------------------------------------------------
(* _toggle_wifi_and_wait_for_reconnection expects the phone on the network. *)
VerifyInfo ==
  /\ at = "verify info"
  /\ IF assoc = net THEN at' = "off" /\ UNCHANGED ok ELSE End(FALSE)
  /\ UNCHANGED <<phone, tracking, events, call, tries, got, history>>

AfterToggle(old) == CASE op = "toggle" -> "idle" [] old = "off" -> "on"
                      [] OTHER -> "listen"

(* _wifi_toggle_state: at once if the state is the one wanted, else it     *)
(* tracks, clears the queues and asks ...                                  *)
Toggle ==
  /\ at \in {"off", "on"}
  /\ IF power = (at = "on")
     THEN /\ at' = AfterToggle(at) /\ ok' = (op = "toggle")
          /\ UNCHANGED <<phone, tracking, events, history>>
     ELSE /\ StartTracking /\ Clear /\ asked' = (at = "on")
          /\ at' = IF at = "on" THEN "going on" ELSE "going off"
          /\ UNCHANGED <<power, assoc, saved, ok>>
  /\ UNCHANGED <<call, tries, got>>

(* Mutant of Toggled: the queues are cleared once more.                    *)
ToggledClears ==
  /\ at \in {"going off", "going on"} /\ StopTracking /\ queue' = <<>>
  /\ \/ /\ at' = AfterToggle(IF at = "going on" THEN "on" ELSE "off")
        /\ ok' = (op = "toggle")
     \/ power # asked /\ End(FALSE)
  /\ UNCHANGED <<phone, flight, call, tries, got, joined, stale, missed>>

(* ... and waits for the event, which may be one of an earlier change, or  *)
(* looks at the state after a timeout.                                     *)
Toggled ==
  /\ at \in {"going off", "going on"} /\ StopTracking
  /\ \/ /\ at' = AfterToggle(IF at = "going on" THEN "on" ELSE "off")
        /\ ok' = (op = "toggle")
     \/ power # asked /\ End(FALSE)
  /\ UNCHANGED <<phone, events, call, tries, got, joined, stale, missed>>

(* wait_for_disconnect stops tracking when the event comes, not when it    *)
(* does not.                                                               *)
WaitDisconnect ==
  /\ at = "disconnect"
  /\ \/ StopTracking /\ End(TRUE)
     \/ tracking' = TRUE /\ End(FALSE)
  /\ UNCHANGED <<phone, events, call, tries, got, joined, stale, missed>>

(* track_connection pops until the network is there.  It stops tracking    *)
(* when it has popped enough others, not when it succeeds or nothing comes. *)
Track ==
  /\ at = "track" /\ StartTracking /\ at' = "tracking"
  /\ UNCHANGED <<phone, events, call, tries, got, ok, joined, stale, missed>>

PopTracked ==
  /\ at = "tracking" /\ queue # <<>>
  /\ got' = Head(queue) /\ queue' = Tail(queue) /\ tries' = tries - 1
  /\ \/ got' = net /\ End(TRUE) /\ UNCHANGED tracking
     \/ got' # net /\ tries = 1 /\ End(FALSE) /\ StopTracking
     \/ got' # net /\ tries > 1 /\ UNCHANGED <<at, ok, tracking>>
  /\ UNCHANGED <<phone, flight, call, joined, stale, missed>>

TrackTimesOut ==
  /\ at = "tracking" /\ queue = <<>> /\ End(FALSE)
  /\ UNCHANGED <<phone, tracking, events, call, tries, got, joined, stale, missed>>

(* wait_for_wifi_state clears nothing: an older event may end it.          *)
WaitState ==
  /\ at \in {"await on", "await off"}
  /\ IF power = (at = "await on") THEN End(TRUE) /\ UNCHANGED tracking
     ELSE StartTracking /\ at' = "awaiting" /\ UNCHANGED ok
  /\ UNCHANGED <<phone, events, call, tries, got, joined, stale, missed>>

StateChanged ==
  /\ at = "awaiting" /\ StopTracking
  /\ \E event \in BOOLEAN : End(event \/ power = (op = "await on"))
  /\ UNCHANGED <<phone, events, call, tries, got, joined, stale, missed>>

(* reset_wifi forgets all networks, wifi_forget_network one.               *)
ForgetAll ==
  /\ at = "forget" /\ toForget' = IF op = "reset" THEN saved ELSE saved \intersect {net}
  /\ at' = "forgetting"
  /\ UNCHANGED <<phone, tracking, events, op, net, tries, got, ok, history>>

(* The phone forgets it or not, and confirms it or not; reset_wifi looks   *)
(* at the list in the end, wifi_forget_network insists on the              *)
(* confirmation.                                                           *)
ForgetOne(n) ==
  /\ at = "forgetting" /\ n \in toForget /\ toForget' = toForget \ {n}
  /\ \/ saved' = saved \ {n} /\ assoc' = IF assoc = n THEN NoNetwork ELSE assoc
     \/ UNCHANGED <<saved, assoc>>
  /\ \/ UNCHANGED <<at, ok>>
     \/ op = "forget" /\ End(FALSE)
  /\ UNCHANGED <<power, asked, tracking, events, op, net, tries, got, history>>

Forgotten ==
  /\ at = "forgetting" /\ toForget = {} /\ End(op = "reset" => saved = {})
  /\ UNCHANGED <<phone, tracking, events, call, tries, got, history>>

Operations == Connecting \union
  {"toggle", "disconnect", "track", "await on", "await off", "reset", "forget"}

Helper ==
  \/ Scan \/ Request \/ Submitted \/ Listen \/ PopConnected \/ PopTimesOut \/ Check
  \/ Finally \/ VerifyInfo \/ Toggle \/ Toggled \/ WaitDisconnect
  \/ Track \/ PopTracked \/ TrackTimesOut \/ WaitState \/ StateChanged
  \/ ForgetAll \/ (\E n \in Networks : ForgetOne(n)) \/ Forgotten

Next ==
  \/ \E o \in Operations, n \in Networks : Begin(o, n)
  \/ Helper
  \/ \E n \in Networks : Join(n)
  \/ Leave \/ Switch \/ Poll

Spec == Init /\ [][Next]_vars

-----------------------------------------------------------------------------
(* A helper that reports a connection is right: the phone joined that      *)
(* network since the queues were cleared last (by the scan, the toggle or  *)
(* _wifi_connect_by_id; since the call for _wifi_connect, which clears     *)
(* nothing), or an older event of that network was on its way then.        *)
ConnectedMeansJoined ==
  at = "idle" /\ op \in Connecting \union {"track"} /\ ok => net \in joined \union stale

(* A reconnection is missed only in the gap between the toggle, which      *)
(* stops tracking, and the wait, which starts it again, or if its event is *)
(* not there yet.                                                          *)
ReconnectionHeard ==
  at = "check" /\ op = "reconnect" /\ got = NoNetwork
    => joined = {} \/ missed \/ flight # <<>> \/ queue # <<>>
=============================================================================

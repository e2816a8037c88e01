---------------------------- MODULE CoexThroughput ----------------------------
(***************************************************************************)
(* A coexistence test (test_utils/coex/CoexBaseTest.py): iperf servers on  *)
(* the phone, each behind an adb process of the host, and a thread for     *)
(* each client, while the test's thread does something over Bluetooth.     *)
(* teardown_result joins the threads, stops the servers and says whether   *)
(* the clients got through.                                                *)
(*                                                                         *)
(* A process of a server ends when it likes, a client gets its rates, an   *)
(* error in its output, or none that can be read; every step of the test   *)
(* may return False or raise.                                              *)
(***************************************************************************)
EXTENDS Naturals, Sequences

CONSTANT MaxTests           \* bound on the tests of a class

VARIABLES
  at,         \* where the test's thread is
  test,       \* the number of the test
  streams,    \* its clients and servers: 2 if it is bidirectional
  listed,     \* self.iperf_process, as the ports
  flagged,    \* False in self.flag_list
  received,   \* self.received, as the clients that wrote it
  servers,    \* of each port the process started last: "none", "up", "ended" by
              \* itself, "signalled", "killed"
  clients,    \* "none", "runs", "good", "bad", or its thread "raised"
  verdict,    \* what teardown_result returned in this test
  skipped     \* history: tests whose teardown_test returned early

vars == <<at, test, streams, listed, flagged, received, servers, clients, verdict,
          skipped>>

Ids == (1..MaxTests) \X {1, 2}
Own == {<<test, s>> : s \in 1..streams}

Init ==
  /\ at = "idle" /\ test = 0 /\ streams = 1 /\ listed = <<>> /\ flagged = FALSE
  /\ received = {} /\ servers = [p \in {1, 2} |-> "none"]
  /\ clients = [i \in Ids |-> "none"] /\ verdict = "none" /\ skipped = {}

-----------------------------------------------------------------------------
ServerEnds(p) ==
  /\ servers[p] \in {"up", "signalled"}
  /\ servers' = [servers EXCEPT ![p] = IF @ = "up" THEN "ended" ELSE "killed"]
  /\ UNCHANGED <<at, test, streams, listed, flagged, received, clients, verdict, skipped>>

(* run_iperf in a thread.  The lists are those the object has by then.  An *)
(* error in the output is False, not a pair: the TypeError is caught.  No  *)
(* output is another exception, which ends the thread.                     *)
ClientEnds(i, how) ==
  /\ clients[i] = "runs" /\ clients' = [clients EXCEPT ![i] = how]
  /\ flagged' = (flagged \/ how = "bad")
  /\ received' = IF how = "raised" THEN received ELSE received \union {i}
  /\ UNCHANGED <<at, test, streams, listed, servers, verdict, skipped>>

-----------------------------------------------------------------------------
(* setup_test; where it returns False the test's body is not run.          *)
SetupTest ==
  /\ at = "idle" /\ test < MaxTests /\ test' = test + 1
  /\ received' = {} /\ verdict' = "none" /\ at' \in {"body", "teardown"}
  /\ UNCHANGED <<streams, listed, flagged, servers, clients, skipped>>

(* run_iperf_and_get_result: the lists are new, and what an earlier one    *)
(* named is nobody's,                                                      *)
RunIperf ==
  /\ at = "body" /\ at' = "serve" /\ streams' \in {1, 2}
  /\ flagged' = FALSE /\ listed' = <<>>
  /\ servers' = [p \in {1, 2} |-> "none"]
  /\ UNCHANGED <<test, received, clients, verdict, skipped>>

(* ... the server of port_2 is started first, then that of port_1,         *)
StartServer ==
  /\ at = "serve" /\ Len(listed) < streams
  /\ LET p == streams - Len(listed)
     IN listed' = Append(listed, p) /\ servers' = [servers EXCEPT ![p] = "up"]
  /\ UNCHANGED <<at, test, streams, flagged, received, clients, verdict, skipped>>

(* ... and a thread for each client, port_1 first.                         *)
RunThread ==
  /\ at = "serve" /\ Len(listed) = streams
  /\ \E i \in Own :
       /\ clients[i] = "none" /\ \A j \in Own : clients[j] = "none" => i[2] <= j[2]
       /\ clients' = [clients EXCEPT ![i] = "runs"]
       /\ at' = IF i[2] = streams THEN "act" ELSE at
  /\ UNCHANGED <<test, streams, listed, flagged, received, servers, verdict, skipped>>

(* A step of the test returns False or raises before teardown_result.      *)
Bail ==
  /\ at \in {"body", "serve", "act"} /\ at' = "teardown"
  /\ UNCHANGED <<test, streams, listed, flagged, received, servers, clients, verdict,
                 skipped>>

(* Mutant of Joined: only self.thread, the last one, is joined.            *)
JoinedLast == clients[<<test, streams>>] # "runs"

(* Every thread of thread_list, which is never emptied, has ended.         *)
Joined == \A i \in Ids : clients[i] # "runs"

(* stop_iperf_server_on_shell: one try around the loop, so a process that  *)
(* has ended spares those behind it.                                       *)
StopServers ==
  LET gone == {n \in DOMAIN listed : servers[listed[n]] \in {"ended", "killed"}}
      stopped == {listed[n] : n \in {m \in DOMAIN listed : \A g \in gone : m < g}}
  IN servers' = [p \in {1, 2} |-> IF p \in stopped THEN "signalled" ELSE servers[p]]

TeardownResult ==
  /\ at = "act" /\ Joined /\ StopServers
  /\ verdict' = (IF flagged THEN "fail" ELSE "pass") /\ at' = "teardown"
  /\ UNCHANGED <<test, streams, listed, flagged, received, clients, skipped>>

(* teardown_test: teardown_thread, unless Bluetooth cannot be disabled.    *)
TeardownTest ==
  /\ at = "teardown" /\ at' = "idle"
  /\ \/ Joined /\ StopServers /\ UNCHANGED skipped
     \/ skipped' = skipped \union {test} /\ UNCHANGED servers
  /\ UNCHANGED <<test, streams, listed, flagged, received, clients, verdict>>

(* The next class is another object, with lists of its own.                *)
NextClass ==
  /\ at = "idle" /\ test = MaxTests /\ at' = "idle" /\ test' = 0 /\ streams' = 1
  /\ listed' = <<>> /\ flagged' = FALSE /\ received' = {} /\ verdict' = "none"
  /\ servers' = [p \in {1, 2} |-> "none"] /\ clients' = [i \in Ids |-> "none"]
  /\ skipped' = {}

Next ==
  \/ SetupTest \/ RunIperf \/ StartServer \/ RunThread \/ Bail
  \/ TeardownResult \/ TeardownTest \/ NextClass
  \/ \E p \in {1, 2} : ServerEnds(p)
  \/ \E i \in Ids, how \in {"good", "bad", "raised"} : ClientEnds(i, how)

Spec == Init /\ [][Next]_vars

-----------------------------------------------------------------------------
Late == {i \in Ids : i[1] \in skipped \ {test}}

(* What teardown_result says is about this test: every client has ended,   *)
(* the verdict is that of those which gave a result or failed with the     *)
(* TypeError that is caught (a client that died of another exception is    *)
(* joined and counts for nothing), and the rates are theirs, but for those *)
(* of a test whose teardown_test returned early and whose threads write    *)
(* into the lists of this one; and every server of the list was stopped,   *)
(* unless one before it had ended by itself.                               *)
VerdictCounts ==
  verdict # "none" =>
    /\ \A i \in Own : clients[i] \in {"good", "bad", "raised"}
    /\ verdict = "pass" => \A i \in Own : clients[i] # "bad"
    /\ verdict = "fail" => \E i \in Own \union Late : clients[i] = "bad"
    /\ received \subseteq Own \union Late
    /\ \A n \in DOMAIN listed :
         servers[listed[n]] = "up" => \E m \in 1..(n - 1) : servers[listed[m]] = "ended"
=============================================================================

---------------------------- MODULE ErrorReporter ----------------------------
(***************************************************************************)
(* The reports an SL4A manager writes when a call fails                    *)
(* (sl4a_lib/error_reporter.py).                                           *)
(*                                                                         *)
(* Threads whose calls fail enter create_error_report; whoever terminates  *)
(* the sessions calls finalize_reports, which clears the accept flag and   *)
(* waits for the counter of requests to become zero.  The counter has no   *)
(* lock: its += and -= are a read and a write.  The tickets have one.      *)
(***************************************************************************)
EXTENDS Integers, FiniteSets

CONSTANTS
  Reporters,    \* threads whose calls may fail
  MaxReports,   \* ErrorReporter.max_reports
  MaxErrors,    \* bound: calls that fail and enter create_error_report
  NoReporter    \* nobody holds _ticket_lock; no thread

VARIABLES
  accept,      \* _accept_requests
  requests,    \* _current_request_count
  tickets,     \* _ticket_number
  ticketLock,  \* holder of _ticket_lock
  step,        \* where each thread is in create_error_report
  read,        \* the value each thread has read and is about to change, or
               \* its ticket; 0 when it has used it
  reports,     \* history: reports begun
  finalizing,  \* "no", "waiting" or "done": finalize_reports
  overlapped   \* history: the counter was written over another thread's read

vars == <<accept, requests, tickets, ticketLock, step, read, reports, finalizing,
          overlapped>>
ticketing == <<tickets, ticketLock>>

Steps == {"out", "enter", "count", "ticket", "draw", "drawn", "report", "leave",
          "uncount"}

Init ==
  /\ accept = TRUE /\ requests = 0 /\ tickets = 0 /\ ticketLock = NoReporter
  /\ step = [r \in Reporters |-> "out"] /\ read = [r \in Reporters |-> 0]
  /\ reports = 0 /\ finalizing = "no" /\ overlapped = FALSE

Goto(r, s) == step' = [step EXCEPT ![r] = s]
Read(r, v) == read' = [read EXCEPT ![r] = v]

(* The calls that failed: those that drew a ticket and those about to.     *)
Errors == tickets + Cardinality({r \in Reporters :
                                   step[r] \in {"enter", "count", "ticket", "draw"}})

(* The test of _accept_requests; what follows does not look at it again.   *)
Test(r) ==
  /\ step[r] = "out" /\ accept /\ Errors < MaxErrors
  /\ Goto(r, "enter")
  /\ UNCHANGED <<accept, requests, ticketing, read, reports, finalizing, overlapped>>

(* The first half of += and of -=: the counter is read ...                 *)
ReadCounter(r) ==
  /\ step[r] \in {"enter", "leave"}
  /\ Goto(r, IF step[r] = "enter" THEN "count" ELSE "uncount")
  /\ Read(r, requests)
  /\ UNCHANGED <<accept, requests, ticketing, reports, finalizing, overlapped>>

(* ... and the second: what was read, changed by one, is written.          *)
WriteCounter(r) ==
  /\ step[r] \in {"count", "uncount"}
  /\ requests' = read[r] + (IF step[r] = "count" THEN 1 ELSE -1)
  /\ overlapped' = (overlapped \/ \E u \in Reporters \ {r} :
                                     step[u] \in {"count", "uncount"})
  /\ Goto(r, IF step[r] = "count" THEN "ticket" ELSE "out") /\ Read(r, 0)
  /\ UNCHANGED <<accept, ticketing, reports, finalizing>>

(* Mutant of LockTickets: the ticket number is read without the lock.      *)
LockTicketsNever(r) ==
  /\ step[r] = "ticket"
  /\ Goto(r, "draw") /\ Read(r, tickets)
  /\ UNCHANGED <<accept, requests, ticketing, reports, finalizing, overlapped>>

LockTickets(r) ==
  /\ step[r] = "ticket" /\ ticketLock = NoReporter
  /\ ticketLock' = r
  /\ Goto(r, "draw") /\ Read(r, tickets)
  /\ UNCHANGED <<accept, requests, tickets, reports, finalizing, overlapped>>

(* The increment of _ticket_number, with its result, and the release.      *)
Draw(r) ==
  /\ step[r] = "draw"
  /\ tickets' = read[r] + 1 /\ ticketLock' = NoReporter
  /\ Goto(r, "drawn") /\ Read(r, read[r] + 1)
  /\ UNCHANGED <<accept, requests, reports, finalizing, overlapped>>

(* Mutant of Admit: without a ticket the thread returns past the finally.  *)
AdmitOrReturn(r) ==
  /\ step[r] = "drawn"
  /\ IF read[r] <= MaxReports THEN Goto(r, "report") /\ reports' = reports + 1
                              ELSE Goto(r, "out") /\ UNCHANGED reports
  /\ Read(r, 0)
  /\ UNCHANGED <<accept, requests, ticketing, finalizing, overlapped>>

(* A ticket within the limit lets the thread report.                       *)
Admit(r) ==
  /\ step[r] = "drawn"
  /\ IF read[r] <= MaxReports THEN Goto(r, "report") /\ reports' = reports + 1
                              ELSE Goto(r, "leave") /\ UNCHANGED reports
  /\ Read(r, 0)
  /\ UNCHANGED <<accept, requests, ticketing, finalizing, overlapped>>

(* The report is written, or raises: finally, the counter goes down.       *)
Report(r) ==
  /\ step[r] = "report"
  /\ Goto(r, "leave")
  /\ UNCHANGED <<accept, requests, ticketing, read, reports, finalizing, overlapped>>

(* finalize_reports: the flag, then the loop, whose test ends it when no   *)
(* request is counted.  The flag is never set again.                       *)
BeginFinalize ==
  /\ finalizing # "waiting"
  /\ accept' = FALSE /\ finalizing' = "waiting"
  /\ UNCHANGED <<requests, ticketing, step, read, reports, overlapped>>

EndFinalize ==
  /\ finalizing = "waiting" /\ requests <= 0
  /\ finalizing' = "done"
  /\ UNCHANGED <<accept, requests, ticketing, step, read, reports, overlapped>>

Proceed(r) ==
  \/ ReadCounter(r) \/ WriteCounter(r)
  \/ LockTickets(r) \/ Draw(r) \/ Admit(r) \/ Report(r)

Next ==
  \/ \E r \in Reporters : Test(r) \/ Proceed(r)
  \/ BeginFinalize \/ EndFinalize

Spec == Init /\ [][Next]_vars

-----------------------------------------------------------------------------
TypeOK ==
  /\ accept \in BOOLEAN /\ requests \in Int /\ tickets \in Nat
  /\ ticketLock \in Reporters \union {NoReporter}
  /\ step \in [Reporters -> Steps] /\ read \in [Reporters -> Int]
  /\ reports \in Nat /\ finalizing \in {"no", "waiting", "done"}
  /\ overlapped \in BOOLEAN

(* Never more than max_reports reports are begun, however many threads     *)
(* fail at once: the ticket lock makes every ticket different              *)
(* (create_error_report, _get_report_ticket).                              *)
ReportsBounded == reports <= MaxReports

(* What the lock is for: the ticket number is not changed between a        *)
(* thread's read and its write, and no two threads hold the same ticket.   *)
TicketsApart ==
  /\ \A r \in Reporters : step[r] = "draw" => ticketLock = r /\ read[r] = tickets
  /\ \A r, u \in Reporters : r # u /\ step[r] = "drawn" /\ step[u] = "drawn"
                               => read[r] # read[u]

(* finalize_reports returns once it has begun, unless an unlocked update   *)
(* of the counter was lost: a decrement lost to another thread leaves the  *)
(* counter above zero with nobody left to bring it down, and the loop of   *)
(* finalize_reports, which has no timeout, never ends.                     *)
FinalizeEnds == finalizing = "waiting" ~> (finalizing # "waiting" \/ overlapped)
=============================================================================

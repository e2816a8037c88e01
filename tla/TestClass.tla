------------------------------ MODULE TestClass ------------------------------
(***************************************************************************)
(* One call of BaseTestClass.run (acts/base_test.py): setup_class, the     *)
(* test cases in order, teardown_class, and the records they leave in      *)
(* results (acts/records.py).                                              *)
(*                                                                         *)
(* The hooks and the tests are user code.  What matters of a call of user  *)
(* code is how it ends, so each call is one step with a chosen ending; the *)
(* control flow around it (try, except, else, finally) is the code's.      *)
(* A generator is a test decorated with generated_test: it executes test   *)
(* cases itself, through run_generated_testcases, before it ends in        *)
(* TestSilent.                                                             *)
(***************************************************************************)
EXTENDS Integers, Sequences, SequencesExt, FiniteSets

CONSTANTS
  Tests,         \* the names run() was asked for, in order
  Missing,       \* the names the class has no method for
  Generators,    \* the names of generators
  Settings,      \* the names of the test cases a generator executes, in order
  Iterations,    \* test_case_iterations
  SetupClassEnds, SetupEnds, TestEnds, TeardownEnds, HookEnds, BlockedEnds,
  TeardownClassEnds   \* how each kind of user code may end

(* "none": returns; "false": returns False; "exit": SystemExit, raised by  *)
(* the handler of SIGTERM and SIGINT; "error": any other exception.        *)
Ends == {"none", "false", "failure", "skip", "blocked", "pass", "silent",
         "abort class", "abort all", "error", "exit"}
Results == {"PASS", "FAIL", "SKIP", "BLOCKED", "UNKNOWN"}
Names == ToSet(Tests) \union ToSet(Settings)

ASSUME TestsAssumption ==
  /\ Tests \in Seq(ToSet(Tests)) \ {<<>>} /\ Settings \in Seq(ToSet(Settings))
  /\ Iterations \in Nat \ {0}
  /\ Missing \subseteq Names /\ Generators \subseteq Names \ ToSet(Settings)
ASSUME EndsAssumption ==
  \A s \in {SetupClassEnds, SetupEnds, TestEnds, TeardownEnds, HookEnds, BlockedEnds,
            TeardownClassEnds} : s \subseteq Ends /\ "none" \in s

VARIABLES
  at,         \* where run() stands
  guarded,    \* _block_all_test_cases runs inside the try around setup_class
  next,       \* the index in Tests of the test to run or to block
  round,      \* the iteration of that test
  frames,     \* the active calls of exec_one_testcase, outermost first
  requested,  \* results.requested
  records,    \* the records added to results, in order
  ending,     \* how run() ends, or is about to
  teardowns,  \* history: calls of teardown_class
  stopped     \* history: an abort signal left a test case

control == <<at, guarded, next, round>>
vars == <<control, frames, requested, records, ending, teardowns, stopped>>

(* step: what exec_one_testcase does next; pending: how the try block is   *)
(* going to end; result, errors: tr_record.result and whether it has       *)
(* additional_errors; hooks: the number of procedure functions to call;    *)
(* settings: the test cases still to generate.  History: dirty, some user  *)
(* code of this test case did not end well.                                *)
NewFrame(n) ==
  [name |-> n, step |-> "setup", pending |-> "none", result |-> "UNKNOWN",
   errors |-> FALSE, hooks |-> 0, settings |-> IF n \in Generators THEN Settings ELSE <<>>,
   dirty |-> FALSE]

Top == Last(frames)
Become(f) == frames' = Front(frames) \o <<f>>
Aborts == {"abort class", "abort all"}
Bad == Ends \ {"none", "pass", "silent"}

-----------------------------------------------------------------------------
Init ==
  /\ at = "setup class" /\ guarded = FALSE /\ next = 1 /\ round = 1
  /\ frames = <<>> /\ requested = Tests /\ records = <<>>
  /\ ending = "none" /\ teardowns = 0 /\ stopped = FALSE

(* False blocks the tests inside the try, an exception reaches the except  *)
(* clause, TestAbortAll and TestAbortClass like any other.                 *)
SetupClass ==
  /\ at = "setup class"
  /\ \E e \in SetupClassEnds :
       /\ at' = CASE e = "false" -> "block" [] e = "exit" -> "over"
                  [] e = "none" -> "tests"
                  [] OTHER -> "except"
       /\ guarded' = (e = "false")
       /\ ending' = IF e = "exit" THEN "exit" ELSE ending
  /\ UNCHANGED <<next, round, frames, requested, records, teardowns, stopped>>

(* except Exception: teardown_class under _exec_func, which lets only      *)
(* TestAbortAll through, then all tests are blocked.                       *)
ExceptSetup ==
  /\ at = "except"
  /\ teardowns' = teardowns + 1
  /\ \E e \in TeardownClassEnds :
       IF e = "abort all"
       THEN at' = "over" /\ ending' = "bare abort all" /\ UNCHANGED <<guarded, next>>
       ELSE at' = "block" /\ guarded' = FALSE /\ next' = 1 /\ UNCHANGED ending
  /\ UNCHANGED <<round, frames, requested, records, stopped>>

(* _block_all_test_cases calls _on_blocked without any safeguard.          *)
BlockOne ==
  /\ at = "block" /\ next <= Len(Tests)
  /\ records' = Append(records, [name |-> Tests[next], result |-> "BLOCKED", dirty |-> TRUE])
  /\ \E e \in BlockedEnds :
       IF e \in {"none", "false"}
       THEN next' = next + 1 /\ UNCHANGED <<at, ending>>
       ELSE /\ IF guarded /\ e # "exit"
               THEN at' = "except" /\ UNCHANGED ending
               ELSE /\ at' = "over"
                    /\ ending' = CASE e = "abort all" -> "bare abort all"
                                   [] e = "exit" -> "exit" [] OTHER -> "error"
            /\ UNCHANGED next
  /\ UNCHANGED <<guarded, round, frames, requested, teardowns, stopped>>

Blocked ==
  /\ at = "block" /\ next > Len(Tests)
  /\ at' = "over" /\ ending' = "returned"
  /\ UNCHANGED <<guarded, next, round, frames, requested, records, teardowns, stopped>>

-----------------------------------------------------------------------------
(* exec_one_testcase                                                       *)
StartTest ==
  /\ at = "tests" /\ frames = <<>> /\ next <= Len(Tests)
  /\ frames' = <<NewFrame(Tests[next])>>
  /\ UNCHANGED <<control, requested, records, ending, teardowns, stopped>>

(* A setup that returns False is an assertion failure.                     *)
SetupTest ==
  /\ frames # <<>> /\ Top.step = "setup"
  /\ \E e \in SetupEnds :
       Become([Top EXCEPT !.step = IF e = "none" THEN "body" ELSE "teardown",
                          !.pending = IF e = "false" THEN "failure" ELSE e,
                          !.dirty = e \in Bad])
  /\ UNCHANGED <<control, requested, records, ending, teardowns, stopped>>

Body ==
  /\ frames # <<>> /\ Top.step = "body" /\ Top.settings = <<>>
  /\ \E e \in CASE Top.name \in Missing -> {"skip"}
                [] Top.name \in Generators -> {"silent"}
                [] OTHER -> TestEnds :
       Become([Top EXCEPT !.step = "teardown", !.pending = e, !.dirty = e \in Bad])
  /\ UNCHANGED <<control, requested, records, ending, teardowns, stopped>>

(* run_generated_testcases executes the next test case.                    *)
Generate ==
  /\ frames # <<>> /\ Top.step = "body" /\ Top.settings # <<>>
  /\ requested' = Append(requested, Head(Top.settings))
  /\ frames' = Front(frames) \o <<[Top EXCEPT !.settings = Tail(@)],
                                  NewFrame(Head(Top.settings))>>
  /\ UNCHANGED <<control, records, ending, teardowns, stopped>>

(* The finally clause.  TestAbortAll and SystemExit replace what is        *)
(* pending; any other exception becomes an additional error.               *)
TeardownTest ==
  /\ frames # <<>> /\ Top.step = "teardown"
  /\ \E e \in TeardownEnds :
       LET error == e \notin {"none", "false", "abort all", "exit"} IN
       Become([Top EXCEPT !.step = IF error THEN "on_exception" ELSE "verdict",
                          !.pending = IF e \in {"abort all", "exit"} THEN e ELSE @,
                          !.errors = error,
                          !.dirty = @ \/ e \notin {"none", "false"}])
  /\ UNCHANGED <<control, requested, records, ending, teardowns, stopped>>

(* _on_exception for the failed teardown, inside the finally clause.       *)
OnTeardownException ==
  /\ frames # <<>> /\ Top.step = "on_exception"
  /\ \E e \in HookEnds :
       Become([Top EXCEPT !.step = "verdict",
                          !.pending = IF e \in {"abort all", "exit"} THEN e ELSE @])
  /\ UNCHANGED <<control, requested, records, ending, teardowns, stopped>>

(* Which result an ending means, and how many procedure functions follow.  *)
ResultOf(e) ==
  CASE e \in {"none", "pass"} -> "PASS"
    [] e \in {"false", "failure", "abort class", "abort all"} -> "FAIL"
    [] e = "skip" -> "SKIP"
    [] e = "blocked" -> "BLOCKED"
    [] OTHER -> "UNKNOWN"
HooksOf(e) == CASE e \in {"silent", "exit"} -> 0 [] e = "error" -> 2 [] OTHER -> 1

(* Mutant of Verdict: _test_end does not look at additional_errors.        *)
VerdictIgnoresErrors ==
  /\ frames # <<>> /\ Top.step = "verdict" /\ Top.pending # "silent"
  /\ Become([Top EXCEPT !.step = "hooks", !.result = ResultOf(Top.pending),
                        !.hooks = HooksOf(Top.pending)])
  /\ UNCHANGED <<control, requested, records, ending, teardowns, stopped>>

(* The except clauses and the else clause.                                 *)
Verdict ==
  /\ frames # <<>> /\ Top.step = "verdict" /\ Top.pending # "silent"
  /\ Become([Top EXCEPT !.step = "hooks",
                        !.result = IF Top.errors THEN "UNKNOWN" ELSE ResultOf(Top.pending),
                        !.hooks = HooksOf(Top.pending)])
  /\ UNCHANGED <<control, requested, records, ending, teardowns, stopped>>

(* TestSilent: the name is no longer requested; list.remove raises         *)
(* ValueError when it is not there any more.                               *)
Silence ==
  /\ frames # <<>> /\ Top.step = "verdict" /\ Top.pending = "silent"
  /\ requested' = RemoveFirst(requested, Top.name)
  /\ Become([Top EXCEPT !.step = "leave", !.pending =
               IF Top.name \in ToSet(requested) THEN "none" ELSE "error"])
  /\ UNCHANGED <<control, records, ending, teardowns, stopped>>

(* _exec_procedure_func: TestAbortAll and SystemExit pass, any other       *)
(* exception makes the result UNKNOWN.                                     *)
ProcedureFunc ==
  /\ frames # <<>> /\ Top.step = "hooks" /\ Top.hooks > 0
  /\ \E e \in HookEnds :
       LET error == e \notin {"none", "false", "abort all", "exit"} IN
       Become([Top EXCEPT !.hooks = IF e \in {"abort all", "exit"} THEN 0 ELSE @ - 1,
                          !.pending = IF e \in {"abort all", "exit"} THEN e ELSE @,
                          !.result = IF error THEN "UNKNOWN" ELSE @,
                          !.dirty = @ \/ error])
  /\ UNCHANGED <<control, requested, records, ending, teardowns, stopped>>

(* The outer finally: the record is added.                                 *)
AddRecord ==
  /\ frames # <<>> /\ Top.step = "hooks" /\ Top.hooks = 0
  /\ records' = Append(records, [name |-> Top.name, result |-> Top.result, dirty |-> Top.dirty])
  /\ Become([Top EXCEPT !.step = "leave", !.pending =
               IF @ \in {"abort class", "abort all", "exit"} THEN @ ELSE "none"])
  /\ UNCHANGED <<control, requested, ending, teardowns, stopped>>

(* The call returns to, or raises in, the generator that made it.          *)
LeaveGenerated ==
  /\ Len(frames) > 1 /\ Top.step = "leave"
  /\ LET outer == frames[Len(frames) - 1] IN
       frames' = SubSeq(frames, 1, Len(frames) - 2) \o
         <<IF Top.pending = "none" THEN outer
           ELSE [outer EXCEPT !.step = "teardown", !.pending = Top.pending,
                              !.settings = <<>>, !.dirty = Top.pending \in Bad]>>
  /\ stopped' = (stopped \/ Top.pending \in Aborts)
  /\ UNCHANGED <<control, requested, records, ending, teardowns>>

(* Mutant of Leave: TestAbortClass only ends the iterations of one test.   *)
LeaveContinues ==
  /\ Len(frames) = 1 /\ Top.step = "leave"
  /\ frames' = <<>>
  /\ stopped' = (stopped \/ Top.pending \in Aborts)
  /\ IF Top.pending \in {"none", "abort class"}
     THEN /\ IF round < Iterations /\ Top.pending = "none"
             THEN round' = round + 1 /\ UNCHANGED next
             ELSE round' = 1 /\ next' = next + 1
          /\ UNCHANGED <<at, ending>>
     ELSE /\ at' = "teardown class" /\ ending' = Top.pending
          /\ UNCHANGED <<next, round>>
  /\ UNCHANGED <<guarded, requested, records, teardowns>>

(* Mutant of Leave: an exception leaves run() past the finally clause.     *)
LeaveAtOnce ==
  /\ Len(frames) = 1 /\ Top.step = "leave"
  /\ frames' = <<>>
  /\ stopped' = (stopped \/ Top.pending \in Aborts)
  /\ IF Top.pending = "none"
     THEN /\ IF round < Iterations THEN round' = round + 1 /\ UNCHANGED next
                                   ELSE round' = 1 /\ next' = next + 1
          /\ UNCHANGED <<at, ending>>
     ELSE /\ at' = "over"
          /\ ending' = IF Top.pending = "abort class" THEN "returned" ELSE Top.pending
          /\ UNCHANGED <<next, round>>
  /\ UNCHANGED <<guarded, requested, records, teardowns>>

(* The call returns to, or raises in, run().                               *)
Leave ==
  /\ Len(frames) = 1 /\ Top.step = "leave"
  /\ frames' = <<>>
  /\ stopped' = (stopped \/ Top.pending \in Aborts)
  /\ IF Top.pending = "none"
     THEN /\ IF round < Iterations THEN round' = round + 1 /\ UNCHANGED next
                                   ELSE round' = 1 /\ next' = next + 1
          /\ UNCHANGED <<at, ending>>
     ELSE /\ at' = "teardown class"
          /\ ending' = IF Top.pending = "abort class" THEN "returned" ELSE Top.pending
          /\ UNCHANGED <<next, round>>
  /\ UNCHANGED <<guarded, requested, records, teardowns>>

AllTestsRun ==
  /\ at = "tests" /\ frames = <<>> /\ next > Len(Tests)
  /\ at' = "teardown class" /\ ending' = "returned"
  /\ UNCHANGED <<guarded, next, round, frames, requested, records, teardowns, stopped>>

(* The finally of run(): a TestAbortAll of teardown_class replaces the     *)
(* return value or the exception, and carries no results.                  *)
TeardownClass ==
  /\ at = "teardown class"
  /\ at' = "over" /\ teardowns' = teardowns + 1
  /\ \E e \in TeardownClassEnds :
       ending' = IF e = "abort all" THEN "bare abort all" ELSE ending
  /\ UNCHANGED <<guarded, next, round, frames, requested, records, stopped>>

Over == at = "over" /\ UNCHANGED vars

ExecOneTestcase ==
  \/ SetupTest \/ Body \/ Generate \/ TeardownTest \/ OnTeardownException
  \/ Verdict \/ Silence \/ ProcedureFunc \/ AddRecord \/ LeaveGenerated \/ Leave

Run == SetupClass \/ ExceptSetup \/ BlockOne \/ Blocked \/ StartTest \/ AllTestsRun \/ TeardownClass

Next == Run \/ ExecOneTestcase \/ Over
Spec == Init /\ [][Next]_vars

-----------------------------------------------------------------------------
FrameType ==
  [name : Names, step : {"setup", "body", "teardown", "on_exception", "verdict", "hooks", "leave"},
   pending : Ends, result : Results, errors : BOOLEAN, hooks : 0 .. 2,
   settings : {SubSeq(Settings, i, Len(Settings)) : i \in 1 .. Len(Settings) + 1},
   dirty : BOOLEAN]
TypeOK ==
  /\ at \in {"setup class", "except", "block", "tests", "teardown class", "over"}
  /\ guarded \in BOOLEAN /\ next \in 1 .. Len(Tests) + 1 /\ round \in 1 .. Iterations
  /\ frames \in Seq(FrameType) /\ Len(frames) <= 2
  /\ requested \in Seq(Names)
  /\ records \in Seq([name : Names, result : Results, dirty : BOOLEAN])
  /\ ending \in {"none", "returned", "abort all", "bare abort all", "error", "exit"}
  /\ teardowns \in Nat /\ stopped \in BOOLEAN

(* "If an error is added the test record, the record's result is           *)
(* equivalent to the case where an uncaught exception happened"            *)
(* (records.py 156-157): no PASS for a test case any part of which, its    *)
(* teardown and its procedure functions included, did not end well.  The   *)
(* exception is a procedure function that aborts: TestAbortAll goes        *)
(* through "so abort_all works in all procedure functions" (base_test.py   *)
(* 344-345) and the record stays as the verdict made it, a PASS if on_pass *)
(* aborts the run; so it is with SystemExit.                               *)
PassIsClean == \A i \in DOMAIN records : records[i].result = "PASS" => ~records[i].dirty

(* Once an abort signal has left a test case no setup and no test of the   *)
(* class begins, at whatever depth of generated test cases it was raised.  *)
NothingAfterStop == stopped => \A i \in DOMAIN frames : frames[i].step \notin {"setup", "body"}

(* However run() ends after it has run a test, teardown_class has been     *)
(* called, and it is never called twice.                                   *)
TornDownOnce ==
  /\ teardowns <= 1
  /\ at = "over" /\ (\E i \in DOMAIN records : records[i].result # "BLOCKED" \/ ~guarded)
       => teardowns = 1
=============================================================================

------------------------------ MODULE TestRunner ------------------------------
(***************************************************************************)
(* A run of act.py over its test beds, one after the other                 *)
(* (acts/bin/act.py, acts/test_runner.py).                                 *)
(*                                                                         *)
(* For each test bed act.py creates a TestRunner and calls its run() once  *)
(* per campaign iteration.  run() goes through the run list; around each   *)
(* entry it registers the controllers and destroys them again.  How a test *)
(* class ends is what TestClass says; here it is one step.                 *)
(*                                                                         *)
(* SIGTERM and SIGINT run a handler that calls stop() and then sys.exit,   *)
(* so that SystemExit is raised wherever the process is.                   *)
(***************************************************************************)
EXTENDS Integers, Sequences, FiniteSets, SequencesExt

CONSTANTS
  Beds,          \* number of test beds
  Repeat,        \* campaign_iterations
  RunList,       \* for each entry, the classes that match it (none: unknown class)
  Modules,       \* the controller modules of the test bed, in order
  ClassEnds,     \* how a test class may end
  ErrorsIn,      \* the operations that may raise
  MaxSignals     \* bound: termination signals

(* "pass", "fail": run() returns; "abort", "bare abort": it raises         *)
(* TestAbortAll with or without results; "error": any other exception.     *)
AllClassEnds == {"pass", "fail", "abort", "bare abort", "error"}
Operations == {"init", "import", "create", "info", "construct", "clean_up",
               "post info", "destroy"}

ASSUME SizesAssumption ==
  Beds \in Nat \ {0} /\ Repeat \in Nat \ {0} /\ MaxSignals \in Nat
ASSUME ChoicesAssumption ==
  /\ ClassEnds \subseteq AllClassEnds /\ ErrorsIn \subseteq Operations
  /\ Modules \in Seq(ToSet(Modules)) /\ IsInjective(Modules)

VARIABLES
  at,         \* where the process stands
  bed,        \* the test bed
  iteration,  \* the campaign iteration
  entry,      \* the entry of the run list
  classes,    \* the matching classes still to run
  modules,    \* the modules still to register, or to unregister
  running,    \* TestRunner.running
  registry,   \* controller_registry, in insertion order
  live,       \* <<bed, module>> whose controllers are created, and destroy() not called
  spared,     \* history: those that unregister_controllers did not get to
  results,    \* TestRunner.results
  report,     \* test_run_summary.json
  raised,     \* the exception on its way out of run()
  ok,         \* _run_tests_sequential's ok: "True", "False" or "None"
  exitCode,   \* of the process, -1 while it runs
  ended,      \* history: the class runs of this test bed, with their ends
  aborted,    \* history: TestAbortAll came out of a class of this test bed
  signals     \* history: signals received

place  == <<bed, iteration, entry, classes>>
runner == <<running, registry, live, spared>>
verdict == <<ok, exitCode>>
vars == <<at, place, modules, runner, results, report, raised, verdict, ended,
          aborted, signals>>

ClassRun == [bed : 1 .. Beds, iteration : 1 .. Repeat, entry : 1 .. Len(RunList),
             left : 0 .. 2, end : AllClassEnds \union {"skip"}]

May(op) == op \in ErrorsIn
Here(ms) == {<<bed, m>> : m \in ToSet(ms)}
ThisRun(e) == [bed |-> bed, iteration |-> iteration, entry |-> entry,
               left |-> Len(classes), end |-> e]

-----------------------------------------------------------------------------
Init ==
  /\ at = "create runner" /\ bed = 1 /\ iteration = 1 /\ entry = 1
  /\ classes = <<>> /\ modules = <<>>
  /\ running = FALSE /\ registry = <<>> /\ live = {} /\ spared = {}
  /\ results = {} /\ report = {} /\ raised = "none"
  /\ ok = "True" /\ exitCode = -1
  /\ ended = {} /\ aborted = FALSE /\ signals = 0

(* _create_test_runner; when it fails, sys.exit(1) ends the process.       *)
CreateRunner ==
  /\ at = "create runner"
  /\ \/ /\ at' = "run" /\ iteration' = 1
        /\ running' = FALSE /\ registry' = <<>> /\ results' = {} /\ report' = {}
        /\ raised' = "none" /\ ended' = {} /\ aborted' = FALSE
        /\ UNCHANGED <<live, spared, verdict>>
     \/ /\ May("init") /\ at' = "over" /\ exitCode' = 1
        /\ UNCHANGED <<iteration, runner, results, report, raised, ok, ended, aborted>>
  /\ UNCHANGED <<bed, entry, classes, modules, signals>>

StartRun ==
  /\ at = "run" /\ at' = "import"
  /\ running' = TRUE
  /\ entry' = 1
  /\ UNCHANGED <<bed, iteration, classes, modules, registry, live, spared, results,
                 report, raised, verdict, ended, aborted, signals>>

(* import_test_modules: a module of the run list that cannot be imported   *)
(* is a ValueError, any other is passed over.                              *)
Import ==
  /\ at = "import"
  /\ \/ at' = "next entry" /\ UNCHANGED raised
     \/ May("import") /\ at' = "run over" /\ raised' = "error"
  /\ UNCHANGED <<place, modules, runner, results, report, verdict, ended, aborted,
                 signals>>

NextEntry ==
  /\ at = "next entry"
  /\ IF entry > Len(RunList) \/ ~running
     THEN at' = "run over" /\ UNCHANGED <<classes, modules>>
     ELSE at' = "register" /\ classes' = RunList[entry] /\ modules' = Modules
  /\ UNCHANGED <<bed, iteration, entry, runner, results, report, raised, verdict,
                 ended, aborted, signals>>

(* register_controller for the next module: create() may raise, or not     *)
(* return a list, which leaves what it made out of the registry; get_info  *)
(* may raise once the controllers are in it.  The registry never holds the *)
(* module already: TypeOK says that it has no duplicates.                  *)
Register ==
  /\ at = "register" /\ modules # <<>>
  /\ LET m == Head(modules) IN
       \/ /\ modules' = Tail(modules) /\ live' = live \union {<<bed, m>>}
          /\ registry' = Append(registry, m) /\ UNCHANGED <<at, raised, spared>>
       \/ /\ May("create") /\ at' = "unregister" /\ raised' = "error"
          /\ \E made \in SUBSET {<<bed, m>>} : live' = live \union made /\ spared' = spared \union made
          /\ modules' = registry /\ UNCHANGED registry
       \/ /\ May("info") /\ at' = "unregister" /\ raised' = "error"
          /\ live' = live \union {<<bed, m>>} /\ registry' = Append(registry, m)
          /\ modules' = registry' /\ UNCHANGED spared
  /\ UNCHANGED <<place, running, results, report, verdict, ended, aborted, signals>>

(* No class matches the entry: a record says it was skipped.               *)
SkipEntry ==
  /\ at = "register" /\ modules = <<>> /\ RunList[entry] = <<>>
  /\ results' = results \union {ThisRun("skip")}
  /\ at' = "unregister" /\ modules' = registry
  /\ UNCHANGED <<place, runner, report, raised, verdict, ended, aborted, signals>>

NextClass ==
  /\ at = "register" /\ modules = <<>> /\ RunList[entry] # <<>>
  /\ IF classes = <<>>
     THEN at' = "unregister" /\ modules' = registry /\ UNCHANGED raised
     ELSE \/ at' = "class" /\ UNCHANGED <<modules, raised>>
          \/ /\ May("construct") /\ at' = "unregister" /\ modules' = registry
             /\ raised' = "error"
  /\ UNCHANGED <<place, runner, results, report, verdict, ended, aborted, signals>>

(* Mutant of RunClass: an abort does not hand its results over.            *)
RunClassDropsAborted ==
  /\ at = "class"
  /\ \E e \in ClassEnds :
       /\ ended' = ended \union {ThisRun(e)}
       /\ aborted' = (aborted \/ e = "abort")
       /\ raised' = CASE e \in {"pass", "fail"} -> raised
                      [] e = "abort" -> "abort all" [] OTHER -> "error"
       /\ results' = IF e \in {"pass", "fail"} THEN results \union {ThisRun(e)} ELSE results
       /\ report' = IF e \in {"pass", "fail"} THEN results' ELSE report
  /\ at' = "clean_up"
  /\ UNCHANGED <<place, modules, runner, verdict, signals>>

(* run_test_class: the results of a class that returns or aborts are       *)
(* merged.  "self.results += e.results" raises AttributeError for an abort *)
(* that carries none.                                                      *)
RunClass ==
  /\ at = "class"
  /\ \E e \in ClassEnds :
       /\ ended' = ended \union {ThisRun(e)}
       /\ aborted' = (aborted \/ e = "abort")
       /\ raised' = CASE e \in {"pass", "fail"} -> raised
                      [] e = "abort" -> "abort all" [] OTHER -> "error"
       /\ results' = IF e \in {"pass", "fail", "abort"}
                     THEN results \union {ThisRun(e)} ELSE results
       /\ report' = IF e \in {"pass", "fail"} THEN results' ELSE report
  /\ at' = "clean_up"
  /\ UNCHANGED <<place, modules, runner, verdict, signals>>

(* __exit__ of the test class: clean_up under _exec_func, which lets only  *)
(* TestAbortAll through.                                                   *)
CleanUp ==
  /\ at = "clean_up"
  /\ \/ UNCHANGED <<raised, aborted>>
     \/ May("clean_up") /\ raised' = "abort all" /\ aborted' = TRUE
  /\ IF raised' = "none"
     THEN at' = "register" /\ classes' = Tail(classes) /\ UNCHANGED modules
     ELSE at' = "unregister" /\ modules' = registry /\ UNCHANGED classes
  /\ UNCHANGED <<bed, iteration, entry, runner, results, report, verdict, ended, signals>>

(* destroy() is called for the first of the modules still to unregister.   *)
DestroyFirst == live' = live \ {<<bed, Head(modules)>>} /\ modules' = Tail(modules)

(* unregister_controllers ends with an exception; the modules still to     *)
(* unregister are not destroyed.                                           *)
GiveUp(e) ==
  /\ at' = "run over" /\ raised' = e /\ modules' = <<>>
  /\ spared' = spared \union Here(modules) /\ UNCHANGED live

(* Mutant of Unregister: an exception of destroy() ends the loop.          *)
UnregisterGivesUp ==
  /\ at = "unregister" /\ modules # <<>>
  /\ \/ DestroyFirst /\ UNCHANGED <<at, raised, spared>>
     \/ /\ May("destroy") /\ at' = "run over" /\ raised' = "error" /\ modules' = <<>>
        /\ live' = live \ {<<bed, Head(modules)>>} /\ UNCHANGED spared
     \/ May("post info") /\ GiveUp("error")
  /\ UNCHANGED <<place, running, registry, results, report, verdict, ended, aborted, signals>>

(* unregister_controllers, in the finally of run(): get_post_job_info      *)
(* stands outside the try, so that its exception replaces the one on its   *)
(* way and ends the loop; what destroy() raises is only logged.            *)
Unregister ==
  /\ at = "unregister" /\ modules # <<>>
  /\ \/ DestroyFirst /\ UNCHANGED <<at, raised, spared>>
     \/ May("post info") /\ GiveUp("error")
  /\ UNCHANGED <<place, running, registry, results, report, verdict, ended, aborted, signals>>

(* Mutant of EndEntry: TestAbortAll is caught and not raised again.        *)
EndEntryGoesOn ==
  /\ at = "unregister" /\ modules = <<>>
  /\ registry' = <<>>
  /\ IF raised \in {"none", "abort all"}
     THEN at' = "next entry" /\ entry' = entry + 1 /\ raised' = "none"
     ELSE at' = "run over" /\ UNCHANGED <<entry, raised>>
  /\ UNCHANGED <<bed, iteration, classes, modules, running, live, spared, results, report,
                 verdict, ended, aborted, signals>>

(* Mutant of EndEntry: the loop does not get any further.                  *)
EndEntryStays ==
  /\ at = "unregister" /\ modules = <<>>
  /\ registry' = <<>>
  /\ IF raised = "none" THEN at' = "next entry" ELSE at' = "run over"
  /\ UNCHANGED <<place, modules, running, live, spared, results, report, raised,
                 verdict, ended, aborted, signals>>

EndEntry ==
  /\ at = "unregister" /\ modules = <<>>
  /\ registry' = <<>>
  /\ IF raised = "none" THEN at' = "next entry" /\ entry' = entry + 1
                        ELSE at' = "run over" /\ UNCHANGED entry
  /\ UNCHANGED <<bed, iteration, classes, modules, running, live, spared, results, report,
                 raised, verdict, ended, aborted, signals>>

-----------------------------------------------------------------------------
AllPass == \A r \in results : r.end \in {"pass", "skip"}

(* _run_test returns is_all_pass, True after TestAbortAll, and None after  *)
(* any other exception, SystemExit included.                               *)
Returned ==
  CASE raised = "none" -> IF AllPass THEN "True" ELSE "False"
    [] raised = "abort all" -> "True"
    [] OTHER -> "None"

(* ok and ret, as Python evaluates it.                                     *)
And(left, right) == IF left = "True" THEN right ELSE left

NextIteration ==
  /\ at = "run over"
  /\ IF raised = "none" /\ iteration < Repeat
     THEN at' = "run" /\ iteration' = iteration + 1
     ELSE at' = "stop" /\ UNCHANGED iteration
  /\ UNCHANGED <<bed, entry, classes, modules, runner, results, report, raised, verdict,
                 ended, aborted, signals>>

(* stop() writes the report of a run that is going on.                     *)
WriteReport == report' = IF running THEN results ELSE report

(* The finally of _run_test, then the next test bed or the exit of main:   *)
(* "exec_result is False" decides.                                         *)
Stop ==
  /\ at = "stop"
  /\ WriteReport /\ running' = FALSE
  /\ ok' = And(ok, Returned)
  /\ IF bed < Beds
     THEN at' = "create runner" /\ bed' = bed + 1 /\ UNCHANGED exitCode
     ELSE at' = "over" /\ exitCode' = (IF ok' = "False" THEN 1 ELSE 0) /\ UNCHANGED bed
  /\ UNCHANGED <<iteration, entry, classes, modules, registry, live, spared, results,
                 raised, ended, aborted, signals>>

(* A signal: stop(), then SystemExit wherever the process is.  Inside of   *)
(* run() the bare excepts around an import, clean_up and destroy() swallow *)
(* it, as teardown_class of the running class may, and the one around an   *)
(* import may turn it into a ValueError; elsewhere it goes through the     *)
(* finally clauses.                                                        *)
SignalInRun ==
  \/ /\ at \in {"import", "class", "clean_up"}
     /\ UNCHANGED <<at, modules, raised, live, spared>>
  \/ /\ at = "unregister" /\ modules # <<>> /\ DestroyFirst
     /\ UNCHANGED <<at, raised, spared>>
  \/ /\ at = "import" /\ at' = "run over" /\ raised' = "error"
     /\ UNCHANGED <<modules, live, spared>>
  \/ /\ at = "class" /\ at' = "clean_up" /\ raised' = "exit"
     /\ UNCHANGED <<modules, live, spared>>
  \/ /\ at \in {"register", "clean_up"}
     /\ at' = "unregister" /\ modules' = registry /\ raised' = "exit"
     /\ \E made \in SUBSET (IF at = "register" /\ modules # <<>>
                            THEN {<<bed, Head(modules)>>} ELSE {}) :
          live' = live \union made /\ spared' = spared \union made
  \/ at = "unregister" /\ GiveUp("exit")
  \/ /\ at \in {"run", "import", "next entry", "run over"}
     /\ at' = "run over" /\ raised' = "exit" /\ modules' = <<>>
     /\ UNCHANGED <<live, spared>>

(* Outside of _run_test's try it ends the process.                         *)
Signal ==
  /\ signals < MaxSignals /\ signals' = signals + 1
  /\ WriteReport /\ running' = FALSE
  /\ \/ SignalInRun /\ UNCHANGED exitCode
     \/ /\ at \in {"create runner", "stop"} /\ (at = "create runner" => bed > 1)
        /\ at' = "over" /\ exitCode' = 1
        /\ UNCHANGED <<modules, raised, live, spared>>
  /\ UNCHANGED <<place, registry, results, ok, ended, aborted>>

Step ==
  \/ CreateRunner \/ StartRun \/ Import \/ NextEntry \/ Register \/ SkipEntry
  \/ NextClass \/ RunClass \/ CleanUp \/ Unregister \/ EndEntry \/ NextIteration \/ Stop
Over == at = "over" /\ UNCHANGED vars
Next == Step \/ Signal \/ Over

Spec == Init /\ [][Next]_vars

(* One thread; tests, controllers and imports end.                         *)
FairSpec == Spec /\ WF_vars(Step)

-----------------------------------------------------------------------------
TypeOK ==
  /\ at \in {"create runner", "run", "import", "next entry", "register", "class", "clean_up",
             "unregister", "run over", "stop", "over"}
  /\ bed \in 1 .. Beds /\ iteration \in 1 .. Repeat /\ entry \in 1 .. Len(RunList) + 1
  /\ \A s \in {modules, registry} : ToSet(s) \subseteq ToSet(Modules) /\ IsInjective(s)
  /\ running \in BOOLEAN /\ spared \subseteq (1 .. Beds) \X ToSet(Modules)
  /\ live \subseteq (1 .. Beds) \X ToSet(Modules)
  /\ results \subseteq ClassRun /\ report \subseteq results /\ ended \subseteq ClassRun
  /\ raised \in {"none", "abort all", "error", "exit"}
  /\ ok \in {"True", "False", "None"} /\ exitCode \in {-1, 0, 1}
  /\ aborted \in BOOLEAN /\ signals \in 0 .. MaxSignals

(* "Destroy controller objects ... at the end of each TestRunner.run call" *)
(* (test_runner.py 392-394): between entries and after a run, however the  *)
(* registering, the classes and destroy() end and whenever a signal comes, *)
(* destroy() was called for every controller of this and of earlier test   *)
(* beds, but for those that get_post_job_info, raising outside the try     *)
(* (:400), or a signal outside of it kept the loop from reaching, and one  *)
(* that create() made and that did not get into the registry.              *)
ControllersDestroyed ==
  at \in {"next entry", "run over", "stop", "create runner", "over"} => live \subseteq spared

(* After TestAbortAll no class of the test bed begins, and no iteration.   *)
NoClassAfterAbort ==
  aborted => at \notin {"class", "register", "next entry", "import", "run"}

(* Every class run that returned or aborted with results is in results,    *)
(* and once the runner is stopped, in the report, unless a signal stopped  *)
(* it first.                                                               *)
ResultsKept ==
  /\ at # "create runner" => {r \in ended : r.end \in {"pass", "fail", "abort"}} \subseteq results
  /\ signals = 0 /\ at \in {"over", "create runner"} => report = results

(* The handlers "properly shut down the test_runner.TestRunner run"        *)
(* (act.py 62-63): no test class begins after a signal.                    *)
SignalStopsTests == [][signals > 0 /\ at' = "class" => at = "class"]_vars

(* The process ends.                                                       *)
Ends == <>(at = "over")
=============================================================================

--------------------------- MODULE TestRunnerProofs ---------------------------
(***************************************************************************)
(* Proofs about TestRunner, for any run list, any controller modules and   *)
(* any endings of classes.                                                 *)
(***************************************************************************)
EXTENDS TestRunner, TLAPS

(* After an abort, an exception is on its way out until run() is over.     *)
Aborting ==
  aborted => raised # "none" /\ at \in {"clean_up", "unregister", "run over", "stop",
                                        "over", "create runner"}

(* Unless a signal came: running is set from the import of the modules to  *)
(* stop(), so that stop() writes the report.                               *)
Reporting ==
  /\ \A r \in ended : r.end \in {"pass", "fail", "abort"} => r \in results
  /\ signals \in Nat
  /\ signals = 0 /\ at \in {"over", "create runner"} => report = results
  /\ signals = 0 /\ at \notin {"over", "create runner", "run"} => running

(* What is alive and not spared is in the registry while an entry runs,    *)
(* among the modules still to unregister while they are destroyed, and     *)
(* gone at other places.                                                   *)
Due ==
  CASE at \in {"register", "class", "clean_up"} -> Here(registry)
    [] at = "unregister" -> Here(modules)
    [] OTHER -> {}

Registered ==
  /\ \A s \in {modules, registry} : s \in Seq(ToSet(Modules))
  /\ live \subseteq spared \union Due

-----------------------------------------------------------------------------
(* After TestAbortAll no class of the test bed begins and no iteration.    *)
THEOREM AbortIsFinal == Spec => []NoClassAfterAbort
<1>1. Init => Aborting
  BY DEF Init, Aborting
<1>2. Aborting /\ [Next]_vars => Aborting'
  <2> SUFFICES ASSUME Aborting, [Next]_vars PROVE Aborting'
    OBVIOUS
  <2> USE DEF Aborting
  <2>1. CASE CreateRunner \/ StartRun \/ Import \/ NextEntry \/ Register \/ SkipEntry \/ NextClass
    BY <2>1 DEF CreateRunner, StartRun, Import, place, NextEntry, Register, SkipEntry, NextClass, verdict
  <2>2. CASE RunClass
    BY <2>2 DEF RunClass
  <2>3. CASE CleanUp
    BY <2>3 DEF CleanUp
  <2>4. CASE Unregister \/ EndEntry
    BY <2>4 DEF Unregister, GiveUp, EndEntry
  <2>5. CASE NextIteration \/ Stop
    BY <2>5 DEF NextIteration, Stop
  <2>6. CASE Signal
    BY <2>6 DEF Signal, SignalInRun, GiveUp
  <2>7. CASE UNCHANGED vars
    BY <2>7 DEF vars
  <2> QED
    BY <2>1, <2>2, <2>3, <2>4, <2>5, <2>6, <2>7 DEF Next, Step, Over
<1>3. Aborting => NoClassAfterAbort
  BY DEF Aborting, NoClassAfterAbort
<1> QED
  BY <1>1, <1>2, <1>3, PTL DEF Spec

(* A signal is counted.                                                    *)
LEMMA SignalCounts ==
  ASSUME signals \in Nat, Signal
  PROVE  signals' \in Nat /\ signals' # 0
<1>1. signals' = signals + 1
  BY DEF Signal
<1> QED
  BY <1>1

(* The results of every class that returned or aborted are in the results, *)
(* and in the report once the runner is stopped, unless a signal came.     *)
THEOREM ResultsAlwaysKept == Spec => []ResultsKept
<1>1. Init => Reporting
  <2> SUFFICES ASSUME Init PROVE Reporting
    OBVIOUS
  <2>1. at = "create runner" /\ results = {} /\ report = {} /\ ended = {} /\ signals = 0
    BY DEF Init
  <2> QED
    BY <2>1 DEF Reporting
<1>2. Reporting /\ [Next]_vars => Reporting'
  <2> SUFFICES ASSUME Reporting, [Next]_vars PROVE Reporting'
    OBVIOUS
  <2> USE DEF Reporting
  <2>1. CASE CreateRunner
    BY <2>1 DEF CreateRunner, runner, verdict
  <2>2. CASE StartRun \/ Import \/ NextEntry \/ Register \/ NextClass
    BY <2>2 DEF StartRun, Import, NextEntry, Register, NextClass, runner
  <2>3. CASE SkipEntry
    BY <2>3 DEF SkipEntry, runner
  <2>4. CASE RunClass
    <3>1. PICK e \in ClassEnds :
            /\ ended' = ended \union {ThisRun(e)}
            /\ results' = IF e \in {"pass", "fail", "abort"}
                          THEN results \union {ThisRun(e)} ELSE results
      BY <2>4 DEF RunClass
    <3>2. ThisRun(e).end = e
      BY DEF ThisRun
    <3> QED
      BY <2>4, <3>1, <3>2 DEF RunClass, runner
  <2>5. CASE CleanUp \/ Unregister \/ EndEntry
    BY <2>5 DEF CleanUp, Unregister, GiveUp, EndEntry, runner
  <2>6. CASE NextIteration
    BY <2>6 DEF NextIteration, runner
  <2>7. CASE Stop
    BY <2>7 DEF Stop, WriteReport
  <2>8. CASE Signal
    <3>1. signals' \in Nat /\ signals' # 0
      BY <2>8, SignalCounts
    <3>2. results' = results /\ ended' = ended
      BY <2>8 DEF Signal
    <3> QED
      BY <3>1, <3>2
  <2>9. CASE UNCHANGED vars
    BY <2>9 DEF vars, runner
  <2> QED
    BY <2>1, <2>2, <2>3, <2>4, <2>5, <2>6, <2>7, <2>8, <2>9 DEF Next, Step, Over
<1>3. Reporting => ResultsKept
  BY DEF Reporting, ResultsKept
<1> QED
  BY <1>1, <1>2, <1>3, PTL DEF Spec

-----------------------------------------------------------------------------
(* The empty sequence is one of any set, and has no members.               *)
LEMMA NoneAreAll ==
  ASSUME NEW S
  PROVE  <<>> \in Seq(S) /\ ToSet(<<>>) = {}
<1>1. <<>> \in Seq(S) /\ DOMAIN <<>> = {}
  OBVIOUS
<1> QED
  BY <1>1 DEF ToSet

(* Destroying the first of the modules leaves the others.                  *)
LEMMA TailKeeps ==
  ASSUME NEW S, NEW s \in Seq(S), s # <<>>
  PROVE  /\ Tail(s) \in Seq(S) /\ Head(s) \in S
         /\ ToSet(s) \subseteq ToSet(Tail(s)) \union {Head(s)}
<1>1. Tail(s) \in Seq(S) /\ Head(s) \in S
  OBVIOUS
<1>2. ASSUME NEW i \in DOMAIN s, i # 1 PROVE s[i] \in ToSet(Tail(s))
  <2>1. i \in 2 .. Len(s) /\ i - 1 \in 1 .. Len(s) - 1
    BY <1>2
  <2>2. i - 1 \in DOMAIN Tail(s) /\ Tail(s)[i - 1] = s[i]
    BY <2>1
  <2> QED
    BY <2>2 DEF ToSet
<1> QED
  BY <1>1, <1>2 DEF ToSet

(* The registry gains the module that is appended.                         *)
LEMMA AppendAdds ==
  ASSUME NEW S, NEW s \in Seq(S), NEW e \in S
  PROVE  /\ Append(s, e) \in Seq(S)
         /\ ToSet(s) \union {e} \subseteq ToSet(Append(s, e))
<1>1. ASSUME NEW i \in DOMAIN s PROVE s[i] \in ToSet(Append(s, e))
  <2>1. i \in DOMAIN Append(s, e) /\ Append(s, e)[i] = s[i]
    OBVIOUS
  <2> QED
    BY <2>1 DEF ToSet
<1>2. e \in ToSet(Append(s, e))
  <2>1. Len(s) + 1 \in DOMAIN Append(s, e) /\ Append(s, e)[Len(s) + 1] = e
    OBVIOUS
  <2> QED
    BY <2>1 DEF ToSet
<1> QED
  BY <1>1, <1>2 DEF ToSet

(* Once destroy() is called for the first, the others are due.             *)
LEMMA OthersDue ==
  ASSUME NEW s \in Seq(ToSet(Modules)), s # <<>>
  PROVE  /\ Tail(s) \in Seq(ToSet(Modules)) /\ Head(s) \in ToSet(Modules)
         /\ Here(s) \subseteq Here(Tail(s)) \union {<<bed, Head(s)>>}
BY TailKeeps DEF Here

(* What is not destroyed when the loop ends early is spared.               *)
LEMMA GivenUp ==
  ASSUME Registered, at = "unregister", NEW e, GiveUp(e), registry' = registry
  PROVE  Registered'
<1>1. live \subseteq spared \union Here(modules)
  BY DEF Registered, Due
<1>2. live' \subseteq spared'
  BY <1>1 DEF GiveUp
<1> QED
  BY <1>2, NoneAreAll DEF Registered, GiveUp

(* The first of the modules is destroyed.                                  *)
LEMMA FirstDestroyed ==
  ASSUME Registered, at = "unregister", modules # <<>>, DestroyFirst,
         UNCHANGED <<at, bed, registry, spared>>
  PROVE  Registered'
<1>1. /\ Tail(modules) \in Seq(ToSet(Modules))
      /\ Here(modules) \subseteq Here(Tail(modules)) \union {<<bed, Head(modules)>>}
  BY OthersDue DEF Registered
<1>2. live \subseteq spared \union Here(modules)
  BY DEF Registered, Due
<1>3. live' \subseteq spared' \union Here(Tail(modules))
  BY <1>1, <1>2 DEF DestroyFirst
<1>4. Due' = Here(Tail(modules))
  BY DEF Due, Here, DestroyFirst
<1> QED
  BY <1>1, <1>3, <1>4 DEF Registered, DestroyFirst

(* For any modules, and however classes, create(), get_info(), destroy()   *)
(* and get_post_job_info end and whenever a signal comes: between entries  *)
(* and after a run destroy() was called for every controller of every test *)
(* bed that unregister_controllers was not kept from reaching.             *)
THEOREM ControllersAlwaysDestroyed == Spec => []ControllersDestroyed
<1>1. Init => Registered
  <2> SUFFICES ASSUME Init PROVE Registered
    OBVIOUS
  <2>1. modules = <<>> /\ registry = <<>> /\ live = {}
    BY DEF Init
  <2> QED
    BY <2>1, NoneAreAll DEF Registered
<1>2. Registered /\ [Next]_vars => Registered'
  <2> SUFFICES ASSUME Registered, [Next]_vars PROVE Registered'
    OBVIOUS
  <2>1. CASE CreateRunner
    BY <2>1, NoneAreAll DEF CreateRunner, runner, Registered, Due
  <2>2. CASE StartRun \/ Import \/ NextIteration \/ Stop \/ RunClass
    BY <2>2 DEF StartRun, Import, NextIteration, Stop, RunClass, runner, place,
                Registered, Due, Here
  <2>3. CASE NextEntry
    <3>1. Modules \in Seq(ToSet(Modules))
      BY ChoicesAssumption
    <3> QED
      BY <2>3, <3>1 DEF NextEntry, runner, Registered, Due
  <2>4. CASE Register
    <3>1. Head(modules) \in ToSet(Modules) /\ Tail(modules) \in Seq(ToSet(Modules))
      BY <2>4, TailKeeps DEF Register, Registered
    <3>2. /\ Append(registry, Head(modules)) \in Seq(ToSet(Modules))
          /\ ToSet(registry) \union {Head(modules)} \subseteq ToSet(Append(registry, Head(modules)))
      BY <3>1, AppendAdds DEF Registered
    <3>3. Here(registry) \union {<<bed, Head(modules)>>} \subseteq Here(Append(registry, Head(modules)))
      BY <3>2 DEF Here
    <3>4. live \subseteq spared \union Here(registry) /\ bed' = bed
      BY <2>4 DEF Register, Registered, Due, place
    <3>5. CASE at' = "register"
      <4>1. /\ live' = live \union {<<bed, Head(modules)>>} /\ spared' = spared
            /\ modules' = Tail(modules) /\ registry' = Append(registry, Head(modules))
        BY <2>4, <3>5 DEF Register
      <4>2. Due' = Here(Append(registry, Head(modules)))
        BY <3>4, <3>5, <4>1 DEF Due, Here
      <4> QED
        BY <3>1, <3>2, <3>3, <3>4, <4>1, <4>2 DEF Registered
    <3>6. CASE at' = "unregister" /\ registry' = registry
      <4>1. /\ modules' = registry
            /\ \E made \in SUBSET {<<bed, Head(modules)>>} :
                 live' = live \union made /\ spared' = spared \union made
        <5>1. registry' # Append(registry, Head(modules))
          BY <3>6, <3>2 DEF Registered
        <5> QED
          BY <2>4, <3>6, <5>1 DEF Register
      <4>2. Due' = Here(registry)
        BY <3>4, <3>6, <4>1 DEF Due, Here
      <4> QED
        BY <3>4, <3>6, <4>1, <4>2 DEF Registered
    <3>7. CASE at' = "unregister" /\ registry' # registry
      <4>1. /\ live' = live \union {<<bed, Head(modules)>>} /\ spared' = spared
            /\ modules' = registry' /\ registry' = Append(registry, Head(modules))
        BY <2>4, <3>7 DEF Register
      <4>2. Due' = Here(Append(registry, Head(modules)))
        BY <3>4, <3>7, <4>1 DEF Due, Here
      <4> QED
        BY <3>2, <3>3, <3>4, <4>1, <4>2 DEF Registered
    <3> QED
      BY <2>4, <3>5, <3>6, <3>7 DEF Register
  <2>5. CASE SkipEntry \/ NextClass \/ CleanUp
    BY <2>5 DEF SkipEntry, NextClass, CleanUp, runner, place, Registered, Due, Here
  <2>6. CASE Unregister
    <3>1. CASE DestroyFirst /\ UNCHANGED <<at, raised, spared>>
      BY <2>6, <3>1, FirstDestroyed DEF Unregister, place
    <3>2. CASE GiveUp("error")
      BY <2>6, <3>2, GivenUp DEF Unregister
    <3> QED
      BY <2>6, <3>1, <3>2 DEF Unregister
  <2>7. CASE EndEntry
    <3>1. modules' = <<>> /\ registry' = <<>> /\ live' = live /\ spared' = spared
          /\ at = "unregister" /\ modules = <<>>
      BY <2>7 DEF EndEntry
    <3>2. Here(modules) = {}
      BY <3>1, NoneAreAll DEF Here
    <3>3. live \subseteq spared
      BY <3>1, <3>2 DEF Registered, Due
    <3> QED
      BY <3>1, <3>3, NoneAreAll DEF Registered
  <2>8. CASE Signal
    <3>1. bed' = bed /\ registry' = registry
      BY <2>8 DEF Signal, place
    <3>2. CASE at = "unregister" /\ modules # <<>> /\ DestroyFirst
               /\ UNCHANGED <<at, raised, spared>>
      BY <3>1, <3>2, FirstDestroyed
    <3>3. CASE at = "unregister" /\ GiveUp("exit")
      BY <3>1, <3>3, GivenUp
    <3>4. CASE at \in {"register", "clean_up"} /\ at' = "unregister" /\ modules' = registry
               /\ \E made : live' = live \union made /\ spared' = spared \union made
      <4>1. Due' = Here(registry) /\ Due = Here(registry)
        BY <3>1, <3>4 DEF Due, Here
      <4> QED
        BY <3>1, <3>4, <4>1 DEF Registered
    <3>5. CASE live' = live /\ spared' = spared /\ at' = at /\ modules' = modules
      BY <3>1, <3>5 DEF Registered, Due, Here
    <3>6. CASE at = "class" /\ at' = "clean_up" /\ UNCHANGED <<modules, live, spared>>
      BY <3>1, <3>6 DEF Registered, Due, Here
    <3>7. CASE /\ at \notin {"register", "class", "clean_up", "unregister"}
               /\ live' = live /\ spared' = spared /\ modules' \in {modules, <<>>}
      BY <3>1, <3>7, NoneAreAll DEF Registered, Due
    <3> QED
      BY <2>8, <3>2, <3>3, <3>4, <3>5, <3>6, <3>7 DEF Signal, SignalInRun
  <2>9. CASE UNCHANGED vars
    BY <2>9 DEF vars, runner, place, Registered, Due, Here
  <2> QED
    BY <2>1, <2>2, <2>3, <2>4, <2>5, <2>6, <2>7, <2>8, <2>9 DEF Next, Step, Over
<1>3. Registered => ControllersDestroyed
  BY DEF Registered, Due, ControllersDestroyed
<1> QED
  BY <1>1, <1>2, <1>3, PTL DEF Spec
=============================================================================

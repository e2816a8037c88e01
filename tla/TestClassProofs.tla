--------------------------- MODULE TestClassProofs ---------------------------
(***************************************************************************)
(* Proofs about TestClass, for any tests, generators and iterations, and   *)
(* for any ways in which the user code may end.                            *)
(***************************************************************************)
EXTENDS TestClass, SequenceTheorems, TLAPS

Steps == {"setup", "body", "teardown", "on_exception", "verdict", "hooks", "leave"}
Frame ==
  [name : Names, step : Steps, pending : Ends, result : Results, errors : BOOLEAN,
   hooks : Nat, settings : Seq(ToSet(Settings)), dirty : BOOLEAN]
Record == [name : Names, result : Results, dirty : BOOLEAN]

Signals == {"abort class", "abort all", "exit"}

(* What a test case owes to the user code that did not end well: until the *)
(* verdict the way it ends, or an error of its teardown, keeps it from     *)
(* PASS; from the verdict on its result does.                              *)
Honest(f) ==
  /\ f.step \in {"setup", "body"} => ~f.dirty
  /\ f.step \in {"setup", "body", "teardown"} => ~f.errors
  /\ f.dirty /\ f.step \in {"teardown", "verdict"} => f.errors \/ ResultOf(f.pending) # "PASS"
  /\ f.step = "on_exception" => f.errors
  /\ f.dirty /\ f.step = "hooks" => f.result # "PASS"

(* A test case is left normally, by a signal, or by the ValueError of      *)
(* Silence; one that an abort signal passed through ends by a signal too.  *)
Leaving(f) == f.step = "leave" => f.pending \in Signals \union {"none", "error"}
Halting(f, halt) == halt => f.step \notin {"setup", "body"} /\ f.pending \in Signals

(* Only a generator, the outermost test case, has test cases to generate,  *)
(* and it waits in its body for the one it executes.                       *)
Framed ==
  /\ frames \in Seq(Frame) /\ Len(frames) <= 2
  /\ frames # <<>> => at = "tests"
  /\ Len(frames) = 2 => frames[2].settings = <<>> /\ frames[1].step = "body"
  /\ \A i \in 1 .. Len(frames) : Honest(frames[i]) /\ Leaving(frames[i]) /\ Halting(frames[i], stopped)
  /\ stopped /\ frames = <<>> => at \in {"teardown class", "over"}
  /\ stopped \in BOOLEAN

Places == {"setup class", "except", "block", "tests", "teardown class", "over"}
Counted == at \in Places /\ next \in Nat \ {0} /\ guarded \in BOOLEAN

Recorded == records \in Seq(Record) /\ \A i \in 1 .. Len(records) :
              records[i].result = "PASS" => ~records[i].dirty

(* Where run() stands says how often teardown_class has been called; the   *)
(* tests that are blocked inside the try leave nothing but BLOCKED.        *)
Torn ==
  /\ at \in {"setup class", "tests", "teardown class", "except"} => teardowns = 0
  /\ at = "block" => teardowns = (IF guarded THEN 0 ELSE 1)
  /\ at = "setup class" => records = <<>>
  /\ guarded => at \in {"block", "except", "over"}
  /\ guarded => \A i \in 1 .. Len(records) : records[i].result = "BLOCKED"
  /\ at = "over" => teardowns = 1 \/ (teardowns = 0 /\ (records = <<>> \/ guarded))

RunInv == Framed /\ Counted /\ Recorded /\ Torn

-----------------------------------------------------------------------------
(* Frames.                                                                 *)
LEMMA TopType ==
  ASSUME NEW S, NEW s \in Seq(S), s # <<>>
  PROVE  Last(s) \in S /\ Last(s) = s[Len(s)] /\ Len(s) \in Nat \ {0} /\ Front(s) \in Seq(S)
         /\ Len(Front(s)) = Len(s) - 1 /\ \A i \in 1 .. Len(s) - 1 : Front(s)[i] = s[i]
<1>1. Len(s) \in Nat \ {0} /\ DOMAIN s = 1 .. Len(s) /\ \A i \in 1 .. Len(s) : s[i] \in S
  OBVIOUS
<1>2. \A i \in 1 .. Len(s) - 1 : s[i] \in S
  BY <1>1
<1>3. /\ SubSeq(s, 1, Len(s) - 1) \in Seq(S)
      /\ Len(SubSeq(s, 1, Len(s) - 1)) =
           IF 1 <= Len(s) - 1 THEN Len(s) - 1 - 1 + 1 ELSE 0
      /\ \A i \in 1 .. Len(s) - 1 - 1 + 1 : SubSeq(s, 1, Len(s) - 1)[i] = s[1 + i - 1]
  BY <1>1, <1>2, SubSeqProperties
<1> QED BY <1>1, <1>3 DEF Last, Front

LEMMA ReplaceTop ==
  ASSUME NEW S, NEW s \in Seq(S), s # <<>>, NEW f \in S
  PROVE  LET r == Front(s) \o <<f>> IN
         /\ r \in Seq(S) /\ Len(r) = Len(s) /\ r[Len(s)] = f
         /\ \A i \in 1 .. Len(s) - 1 : r[i] = s[i]
<1> DEFINE r == Front(s) \o <<f>>
<1>1. /\ Front(s) \in Seq(S) /\ Len(Front(s)) = Len(s) - 1 /\ Len(s) \in Nat \ {0}
      /\ \A i \in 1 .. Len(s) - 1 : Front(s)[i] = s[i]
  BY TopType
<1>2. <<f>> \in Seq(S) /\ Len(<<f>>) = 1 /\ <<f>>[1] = f
  OBVIOUS
<1>3. /\ r \in Seq(S) /\ Len(r) = Len(s) - 1 + 1
      /\ \A i \in 1 .. Len(s) - 1 + 1 :
           r[i] = IF i <= Len(s) - 1 THEN Front(s)[i] ELSE <<f>>[i - (Len(s) - 1)]
  BY <1>1, <1>2, ConcatProperties
<1>4. Len(s) \in 1 .. Len(s) - 1 + 1 /\ ~ (Len(s) <= Len(s) - 1)
      /\ Len(s) - (Len(s) - 1) = 1
  BY <1>1
<1>5. r[Len(s)] = f
  BY <1>2, <1>3, <1>4
<1>6. ASSUME NEW i \in 1 .. Len(s) - 1 PROVE r[i] = s[i]
  BY <1>1, <1>3
<1> QED BY <1>1, <1>3, <1>5, <1>6

LEMMA EmptySequence == ASSUME NEW S PROVE <<>> \in Seq(S) /\ Len(<<>>) = 0
OBVIOUS

LEMMA NonEmpty ==
  ASSUME NEW S, NEW s \in Seq(S), Len(s) > 0
  PROVE  s # <<>>
OBVIOUS

LEMMA OneOrTwo == ASSUME NEW n \in Nat \ {0}, n <= 2 PROVE n \in {1, 2} /\ n \in 1 .. n
OBVIOUS

LEMMA NoIndex ==
  ASSUME NEW n, n = 0
  PROVE  ~(n = 2) /\ n <= 2 /\ \A i \in 1 .. n : FALSE
OBVIOUS

LEMMA NextIsPositive == ASSUME NEW n \in Nat \ {0} PROVE n + 1 \in Nat \ {0}
OBVIOUS

LEMMA Single ==
  ASSUME NEW S, NEW f \in S, NEW r, r = <<>> \o <<f>>
  PROVE  r = <<f>> /\ r \in Seq(S) /\ Len(r) = 1 /\ r[1] = f
OBVIOUS

(* The user code ends in one of the known ways.                            *)
LEMMA EndsTyped ==
  /\ SetupClassEnds \subseteq Ends /\ SetupEnds \subseteq Ends /\ TestEnds \subseteq Ends
  /\ TeardownEnds \subseteq Ends /\ HookEnds \subseteq Ends /\ BlockedEnds \subseteq Ends
  /\ TeardownClassEnds \subseteq Ends
BY EndsAssumption

LEMMA NewFrameGood ==
  ASSUME NEW n \in Names
  PROVE  /\ NewFrame(n) \in Frame /\ Honest(NewFrame(n)) /\ Leaving(NewFrame(n))
         /\ n \in ToSet(Settings) => NewFrame(n).settings = <<>>
<1>1. Settings \in Seq(ToSet(Settings)) /\ <<>> \in Seq(ToSet(Settings))
      /\ (n \in ToSet(Settings) => n \notin Generators)
  BY TestsAssumption, EmptySequence
<1> DEFINE w == IF n \in Generators THEN Settings ELSE <<>>
<1>2. w \in Seq(ToSet(Settings)) /\ (n \in ToSet(Settings) => w = <<>>)
  BY <1>1
<1>3. NewFrame(n) = [name |-> n, step |-> "setup", pending |-> "none", result |-> "UNKNOWN",
                     errors |-> FALSE, hooks |-> 0, settings |-> w, dirty |-> FALSE]
  BY DEF NewFrame
<1> HIDE DEF w
<1> QED BY <1>2, <1>3 DEF Frame, Steps, Ends, Results, Honest, Leaving

(* A step of the innermost test case, which keeps its place.               *)
LEMMA Becomes ==
  ASSUME Framed, frames # <<>>, UNCHANGED <<at, stopped>>, NEW f \in Frame, Become(f),
         Honest(f), Leaving(f), Halting(f, stopped), f.settings = Top.settings
  PROVE  Framed'
<1>1. /\ frames' \in Seq(Frame) /\ Len(frames') = Len(frames) /\ frames'[Len(frames)] = f
      /\ \A i \in 1 .. Len(frames) - 1 : frames'[i] = frames[i]
  <2>1. frames \in Seq(Frame) /\ frames' = Front(frames) \o <<f>>
    BY DEF Framed, Become
  <2> DEFINE r == Front(frames) \o <<f>>
  <2>2. /\ r \in Seq(Frame) /\ Len(r) = Len(frames) /\ r[Len(frames)] = f
        /\ \A i \in 1 .. Len(frames) - 1 : r[i] = frames[i]
    BY <2>1, ReplaceTop
  <2> HIDE DEF r
  <2>3. frames' = r
    BY <2>1 DEF r
  <2> QED BY <2>2, <2>3
<1>2. Len(frames) \in Nat \ {0} /\ Top = frames[Len(frames)]
  BY TopType DEF Framed, Top
<1>3. ASSUME NEW i \in 1 .. Len(frames)
      PROVE  Honest(frames'[i]) /\ Leaving(frames'[i]) /\ Halting(frames'[i], stopped)
  <2>1. CASE i = Len(frames)
    BY <1>1, <2>1
  <2>2. CASE i # Len(frames)
    <3>1. i \in 1 .. Len(frames) - 1
      BY <1>2, <2>2
    <3> QED BY <1>1, <3>1 DEF Framed
  <2> QED BY <2>1, <2>2
<1>4. Len(frames') = 2 => frames'[2].settings = <<>> /\ frames'[1].step = "body"
  <2> SUFFICES ASSUME Len(frames) = 2
               PROVE  frames'[2].settings = <<>> /\ frames'[1].step = "body"
    BY <1>1
  <2>1. frames'[2] = f /\ 1 \in 1 .. Len(frames) - 1
    BY <1>1
  <2> QED BY <1>1, <1>2, <2>1 DEF Framed
<1>5. frames' # <<>>
  BY <1>1, <1>2, EmptySequence
<1> QED BY <1>1, <1>3, <1>4, <1>5 DEF Framed

(* Facts about the innermost test case that every step of it uses.         *)
LEMMA TopFacts ==
  ASSUME Framed, frames # <<>>
  PROVE  /\ Top \in Frame /\ Honest(Top) /\ Leaving(Top) /\ Halting(Top, stopped)
         /\ Top = frames[Len(frames)] /\ Len(frames) \in {1, 2} /\ at = "tests"
<1>1. Top \in Frame /\ Top = frames[Len(frames)] /\ Len(frames) \in Nat \ {0}
  BY TopType DEF Framed, Top
<1>2. Len(frames) \in {1, 2} /\ Len(frames) \in 1 .. Len(frames)
  <2>1. Len(frames) <= 2
    BY DEF Framed
  <2> QED BY <1>1, <2>1, OneOrTwo
<1> QED BY <1>1, <1>2 DEF Framed

-----------------------------------------------------------------------------
(* The steps of a test case.                                               *)
LEMMA SetupTestFramed == ASSUME Framed, SetupTest PROVE Framed'
<1>1. Top \in Frame /\ Honest(Top) /\ Halting(Top, stopped) /\ frames # <<>> /\ Top.step = "setup"
  BY TopFacts DEF SetupTest
<1>2. PICK e \in SetupEnds :
        Become([Top EXCEPT !.step = IF e = "none" THEN "body" ELSE "teardown",
                           !.pending = IF e = "false" THEN "failure" ELSE e,
                           !.dirty = e \in Bad])
  BY DEF SetupTest
<1> DEFINE d == e \in Bad
           t == IF e = "none" THEN "body" ELSE "teardown"
           p == IF e = "false" THEN "failure" ELSE e
           f == [Top EXCEPT !.step = t, !.pending = p, !.dirty = d]
<1>3. f \in Frame /\ f.settings = Top.settings
  <2>1. t \in Steps /\ p \in Ends
    BY EndsTyped DEF Steps, Ends
  <2>2. d \in BOOLEAN
    OBVIOUS
  <2> HIDE DEF t, p, d
  <2> QED BY <1>1, <2>1, <2>2 DEF Frame
<1>4. ~stopped
  BY <1>1 DEF Halting
<1>5. Honest(f) /\ Leaving(f) /\ Halting(f, stopped)
  BY <1>1, <1>4 DEF Honest, Leaving, Halting, Frame, ResultOf, Bad
<1> QED BY <1>1, <1>2, <1>3, <1>5, Becomes DEF SetupTest, control

LEMMA BodyFramed == ASSUME Framed, Body PROVE Framed'
<1>1. Top \in Frame /\ Honest(Top) /\ Halting(Top, stopped) /\ frames # <<>> /\ Top.step = "body"
  BY TopFacts DEF Body
<1>2. PICK e \in Ends : Become([Top EXCEPT !.step = "teardown", !.pending = e, !.dirty = e \in Bad])
  BY EndsTyped DEF Body, Ends
<1> DEFINE d == e \in Bad
           f == [Top EXCEPT !.step = "teardown", !.pending = e, !.dirty = d]
<1>3. f \in Frame /\ f.settings = Top.settings
  <2>1. "teardown" \in Steps /\ d \in BOOLEAN
    BY DEF Steps
  <2> HIDE DEF d
  <2> QED BY <1>1, <2>1 DEF Frame, Steps
<1>4. ~stopped
  BY <1>1 DEF Halting
<1>5. Honest(f) /\ Leaving(f) /\ Halting(f, stopped)
  BY <1>1, <1>4 DEF Honest, Leaving, Halting, Frame, ResultOf, Bad
<1> QED BY <1>1, <1>2, <1>3, <1>5, Becomes DEF Body, control

LEMMA GenerateFramed == ASSUME Framed, Generate PROVE Framed'
<1>1. /\ Top \in Frame /\ Honest(Top) /\ Halting(Top, stopped) /\ frames # <<>>
      /\ Top.step = "body" /\ Top.settings # <<>> /\ Top = frames[Len(frames)]
      /\ Len(frames) \in {1, 2} /\ at = "tests"
  BY TopFacts DEF Generate
<1>2. ~stopped /\ Len(frames) = 1
  BY <1>1 DEF Halting, Framed
<1> DEFINE s == Top.settings
           f == [Top EXCEPT !.settings = Tail(@)]
           g == NewFrame(Head(s))
<1>3. s \in Seq(ToSet(Settings))
  BY <1>1 DEF Frame
<1>4. Head(s) \in ToSet(Settings) /\ Tail(s) \in Seq(ToSet(Settings))
  BY <1>1, <1>3
<1>5. f \in Frame /\ f.step = "body" /\ Honest(f) /\ Leaving(f)
  BY <1>1, <1>4 DEF Frame, Honest, Leaving
<1>6. g \in Frame /\ Honest(g) /\ Leaving(g) /\ g.settings = <<>>
  BY <1>4, NewFrameGood DEF Names
<1>7. frames' = Front(frames) \o <<f, g>> /\ at' = at /\ stopped' = stopped
  BY DEF Generate, control
<1>8. Front(frames) \in Seq(Frame) /\ Len(Front(frames)) = 0
  BY <1>1, <1>2, TopType DEF Framed
<1> HIDE DEF f, g
<1>9. <<f, g>> \in Seq(Frame) /\ Len(<<f, g>>) = 2 /\ <<f, g>>[1] = f /\ <<f, g>>[2] = g
  BY <1>5, <1>6
<1>10. /\ frames' \in Seq(Frame) /\ Len(frames') = 0 + 2
       /\ \A i \in 1 .. 0 + 2 : frames'[i] = IF i <= 0 THEN Front(frames)[i] ELSE <<f, g>>[i - 0]
  BY <1>7, <1>8, <1>9, ConcatProperties
<1>11. Len(frames') = 2 /\ frames'[1] = f /\ frames'[2] = g
  BY <1>9, <1>10
<1>12. \A i \in 1 .. 2 : i = 1 \/ i = 2
  OBVIOUS
<1> QED BY <1>1, <1>2, <1>5, <1>6, <1>7, <1>10, <1>11, <1>12 DEF Framed, Halting

LEMMA TeardownTestFramed == ASSUME Framed, TeardownTest PROVE Framed'
<1>1. Top \in Frame /\ Honest(Top) /\ Halting(Top, stopped) /\ frames # <<>> /\ Top.step = "teardown"
  BY TopFacts DEF TeardownTest
<1>2. PICK e \in TeardownEnds :
        LET error == e \notin {"none", "false", "abort all", "exit"} IN
        Become([Top EXCEPT !.step = IF error THEN "on_exception" ELSE "verdict",
                           !.pending = IF e \in {"abort all", "exit"} THEN e ELSE @,
                           !.errors = error,
                           !.dirty = @ \/ e \notin {"none", "false"}])
  BY DEF TeardownTest
<1> DEFINE error == e \notin {"none", "false", "abort all", "exit"}
           f == [Top EXCEPT !.step = IF error THEN "on_exception" ELSE "verdict",
                            !.pending = IF e \in {"abort all", "exit"} THEN e ELSE @,
                            !.errors = error,
                            !.dirty = @ \/ e \notin {"none", "false"}]
<1>3. f \in Frame /\ f.settings = Top.settings
  BY <1>1, EndsTyped DEF Frame, Steps, Ends
<1>4. /\ f.step = (IF error THEN "on_exception" ELSE "verdict")
      /\ f.pending = (IF e \in {"abort all", "exit"} THEN e ELSE Top.pending)
      /\ f.errors = error /\ f.dirty = (Top.dirty \/ e \notin {"none", "false"})
  BY <1>1 DEF Frame
<1> HIDE DEF f
<1>5. Honest(f)
  BY <1>1, <1>4 DEF Honest, ResultOf
<1>6. Leaving(f) /\ Halting(f, stopped)
  BY <1>1, <1>4 DEF Leaving, Halting, Signals
<1> QED BY <1>1, <1>2, <1>3, <1>5, <1>6, Becomes DEF TeardownTest, control, f

LEMMA OnTeardownExceptionFramed == ASSUME Framed, OnTeardownException PROVE Framed'
<1>1. /\ Top \in Frame /\ Honest(Top) /\ Halting(Top, stopped) /\ frames # <<>>
      /\ Top.step = "on_exception"
  BY TopFacts DEF OnTeardownException
<1>2. PICK e \in HookEnds :
        Become([Top EXCEPT !.step = "verdict",
                           !.pending = IF e \in {"abort all", "exit"} THEN e ELSE @])
  BY DEF OnTeardownException
<1> DEFINE f == [Top EXCEPT !.step = "verdict",
                            !.pending = IF e \in {"abort all", "exit"} THEN e ELSE @]
<1>3. f \in Frame /\ f.settings = Top.settings
  BY <1>1, EndsTyped DEF Frame, Steps, Ends
<1>4. Honest(f) /\ Leaving(f) /\ Halting(f, stopped)
  BY <1>1 DEF Honest, Leaving, Halting, Signals, Frame
<1> QED BY <1>1, <1>2, <1>3, <1>4, Becomes DEF OnTeardownException, control

LEMMA VerdictFramed == ASSUME Framed, Verdict PROVE Framed'
<1>1. Top \in Frame /\ Honest(Top) /\ Halting(Top, stopped) /\ frames # <<>> /\ Top.step = "verdict"
  BY TopFacts DEF Verdict
<1> DEFINE v == IF Top.errors THEN "UNKNOWN" ELSE ResultOf(Top.pending)
           h == HooksOf(Top.pending)
           f == [Top EXCEPT !.step = "hooks", !.result = v, !.hooks = h]
<1>2. v \in Results /\ h \in Nat
  BY DEF Results, ResultOf, HooksOf
<1>3. Top.dirty => v # "PASS"
  BY <1>1 DEF Honest
<1> HIDE DEF v, h
<1>4. f \in Frame /\ f.settings = Top.settings
  BY <1>1, <1>2 DEF Frame, Steps
<1>5. Honest(f) /\ Leaving(f) /\ Halting(f, stopped)
  BY <1>1, <1>3 DEF Honest, Leaving, Halting, Frame
<1>6. Become(f)
  BY DEF Verdict, v, h
<1> QED BY <1>1, <1>4, <1>5, <1>6, Becomes DEF Verdict, control

LEMMA SilenceFramed == ASSUME Framed, Silence PROVE Framed'
<1>1. /\ Top \in Frame /\ Honest(Top) /\ Halting(Top, stopped) /\ frames # <<>>
      /\ Top.step = "verdict" /\ Top.pending = "silent"
  BY TopFacts DEF Silence
<1> DEFINE p == IF Top.name \in ToSet(requested) THEN "none" ELSE "error"
           f == [Top EXCEPT !.step = "leave", !.pending = p]
<1>2. p \in {"none", "error"} /\ Become(f)
  BY DEF Silence
<1>3. ~stopped
  BY <1>1 DEF Halting, Signals
<1> HIDE DEF p
<1>4. f \in Frame /\ f.settings = Top.settings
  BY <1>1, <1>2 DEF Frame, Steps, Ends
<1>5. Honest(f) /\ Leaving(f) /\ Halting(f, stopped)
  BY <1>1, <1>2, <1>3 DEF Honest, Leaving, Halting, Frame
<1> QED BY <1>1, <1>2, <1>4, <1>5, Becomes DEF Silence, control

LEMMA ProcedureFuncFramed == ASSUME Framed, ProcedureFunc PROVE Framed'
<1>1. /\ Top \in Frame /\ Honest(Top) /\ Halting(Top, stopped) /\ frames # <<>>
      /\ Top.step = "hooks" /\ Top.hooks > 0
  BY TopFacts DEF ProcedureFunc
<1>2. PICK e \in HookEnds :
        LET error == e \notin {"none", "false", "abort all", "exit"} IN
        Become([Top EXCEPT !.hooks = IF e \in {"abort all", "exit"} THEN 0 ELSE @ - 1,
                           !.pending = IF e \in {"abort all", "exit"} THEN e ELSE @,
                           !.result = IF error THEN "UNKNOWN" ELSE @,
                           !.dirty = @ \/ error])
  BY DEF ProcedureFunc
<1> DEFINE error == e \notin {"none", "false", "abort all", "exit"}
           f == [Top EXCEPT !.hooks = IF e \in {"abort all", "exit"} THEN 0 ELSE @ - 1,
                            !.pending = IF e \in {"abort all", "exit"} THEN e ELSE @,
                            !.result = IF error THEN "UNKNOWN" ELSE @,
                            !.dirty = @ \/ error]
<1>3. Top.hooks - 1 \in Nat
  BY <1>1 DEF Frame
<1>4. f \in Frame /\ f.settings = Top.settings
  BY <1>1, <1>3, EndsTyped DEF Frame, Steps, Ends, Results
<1>5. /\ f.step = "hooks" /\ f.errors = Top.errors /\ f.dirty = (Top.dirty \/ error)
      /\ f.pending = (IF e \in {"abort all", "exit"} THEN e ELSE Top.pending)
      /\ f.result = (IF error THEN "UNKNOWN" ELSE Top.result)
  BY <1>1 DEF Frame
<1> HIDE DEF f
<1>6. Honest(f) /\ Leaving(f) /\ Halting(f, stopped)
  BY <1>1, <1>5 DEF Honest, Leaving, Halting, Signals
<1> QED BY <1>1, <1>2, <1>4, <1>6, Becomes DEF ProcedureFunc, control, f

LEMMA AddRecordFramed == ASSUME Framed, AddRecord PROVE Framed'
<1>1. Top \in Frame /\ Honest(Top) /\ Halting(Top, stopped) /\ frames # <<>> /\ Top.step = "hooks"
  BY TopFacts DEF AddRecord
<1> DEFINE f == [Top EXCEPT !.step = "leave", !.pending =
                   IF @ \in {"abort class", "abort all", "exit"} THEN @ ELSE "none"]
<1>2. f \in Frame /\ f.settings = Top.settings
  BY <1>1 DEF Frame, Steps, Ends
<1>3. Honest(f) /\ Leaving(f) /\ Halting(f, stopped)
  BY <1>1 DEF Honest, Leaving, Halting, Signals, Frame
<1> QED BY <1>1, <1>2, <1>3, Becomes DEF AddRecord, control

LEMMA LeaveGeneratedFramed == ASSUME Framed, LeaveGenerated PROVE Framed'
<1>1. /\ Top \in Frame /\ Leaving(Top) /\ Halting(Top, stopped) /\ Top.step = "leave"
      /\ Len(frames) = 2 /\ at = "tests" /\ frames \in Seq(Frame)
  <2>1. Len(frames) > 1 /\ frames \in Seq(Frame) /\ Len(frames) <= 2
    BY DEF LeaveGenerated, Framed
  <2>2. frames # <<>>
    BY <2>1, NonEmpty
  <2>3. Len(frames) = 2
    BY <2>1
  <2> QED BY <2>1, <2>2, <2>3, TopFacts DEF LeaveGenerated
<1>2. 1 \in 1 .. Len(frames) /\ Len(frames) - 1 = 1 /\ Len(frames) - 2 = 0
  BY <1>1
<1> DEFINE outer == frames[1]
<1>3. /\ outer \in Frame /\ Honest(outer) /\ Leaving(outer) /\ Halting(outer, stopped)
      /\ outer.step = "body"
  BY <1>1, <1>2 DEF Framed
<1>4. ~stopped
  BY <1>3 DEF Halting
<1> DEFINE f == IF Top.pending = "none" THEN outer
                ELSE [outer EXCEPT !.step = "teardown", !.pending = Top.pending,
                                   !.settings = <<>>, !.dirty = Top.pending \in Bad]
<1>5. f \in Frame
  <2>1. <<>> \in Seq(ToSet(Settings)) /\ Top.pending \in Ends /\ "teardown" \in Steps
    BY <1>1, EmptySequence DEF Frame, Steps
  <2> DEFINE d == Top.pending \in Bad
  <2>2. d \in BOOLEAN
    OBVIOUS
  <2> HIDE DEF d
  <2>3. [outer EXCEPT !.step = "teardown", !.pending = Top.pending,
                      !.settings = <<>>, !.dirty = d] \in Frame
    BY <1>3, <2>1, <2>2 DEF Frame
  <2> QED BY <1>3, <2>3 DEF d
<1>6. /\ frames' = SubSeq(frames, 1, 0) \o <<f>>
      /\ stopped' = (stopped \/ Top.pending \in Aborts) /\ at' = at
  BY <1>2 DEF LeaveGenerated, control
<1>7. Top.pending \in {"abort class", "abort all", "exit", "none", "error"}
  BY <1>1 DEF Leaving, Signals
<1>8. Honest(f) /\ Leaving(f)
  <2>1. CASE Top.pending = "none"
    BY <1>3, <2>1
  <2>2. CASE Top.pending # "none"
    BY <1>3, <1>7, <2>2 DEF Honest, Leaving, Frame, ResultOf, Bad
  <2> QED BY <2>1, <2>2
<1>9. Halting(f, stopped')
  <2> SUFFICES ASSUME stopped' PROVE f.step \notin {"setup", "body"} /\ f.pending \in Signals
    BY DEF Halting
  <2>1. Top.pending \in Aborts /\ Top.pending # "none"
    BY <1>4, <1>6 DEF Aborts
  <2>2. f.step = "teardown" /\ f.pending = Top.pending
    BY <1>3, <2>1 DEF Frame
  <2> QED BY <2>1, <2>2 DEF Aborts, Signals
<1>10. SubSeq(frames, 1, 0) = <<>>
  BY <1>1, SubSeqEmpty
<1> HIDE DEF f
<1>11. frames' = <<f>> /\ frames' \in Seq(Frame) /\ Len(frames') = 1 /\ frames'[1] = f
  BY <1>5, <1>6, <1>10, Single
<1>12. \A i \in 1 .. 1 : i = 1
  OBVIOUS
<1>13. stopped' \in BOOLEAN
  BY <1>6 DEF Framed
<1> QED BY <1>1, <1>6, <1>8, <1>9, <1>11, <1>12, <1>13 DEF Framed

LEMMA LeaveFramed == ASSUME Framed, Leave PROVE Framed'
<1>1. /\ Leaving(Top) /\ Halting(Top, stopped) /\ Top.step = "leave" /\ at = "tests"
  <2>1. frames # <<>>
    <3>1. frames \in Seq(Frame) /\ Len(frames) = 1
      BY DEF Leave, Framed
    <3> QED BY <3>1, NonEmpty
  <2> QED BY <2>1, TopFacts DEF Leave
<1>2. frames' = <<>> /\ stopped' = (stopped \/ Top.pending \in Aborts)
      /\ at' = (IF Top.pending = "none" THEN at ELSE "teardown class")
  BY DEF Leave
<1>3. stopped' => Top.pending # "none"
  BY <1>1, <1>2 DEF Halting, Signals, Aborts
<1>4. frames' \in Seq(Frame) /\ Len(frames') = 0
  BY <1>2, EmptySequence
<1>5. stopped' \in BOOLEAN
  BY <1>2 DEF Framed
<1>6. stopped' => at' \in {"teardown class", "over"}
  BY <1>2, <1>3
<1>7. ~(Len(frames') = 2) /\ Len(frames') <= 2 /\ \A i \in 1 .. Len(frames') : FALSE
  BY <1>4
<1> QED BY <1>2, <1>4, <1>5, <1>6, <1>7 DEF Framed

LEMMA StartTestFramed == ASSUME Framed, Counted, StartTest PROVE Framed'
<1>1. /\ at = "tests" /\ frames = <<>> /\ next \in Nat \ {0} /\ next <= Len(Tests)
      /\ frames' = <<NewFrame(Tests[next])>> /\ at' = at /\ stopped' = stopped
  BY DEF StartTest, control, Counted
<1>2. ~stopped
  BY <1>1 DEF Framed
<1>3. Tests[next] \in Names
  <2>1. Tests \in Seq(ToSet(Tests))
    BY TestsAssumption
  <2>2. next \in 1 .. Len(Tests)
    BY <1>1, <2>1
  <2> QED BY <2>1, <2>2 DEF Names
<1> DEFINE f == NewFrame(Tests[next])
<1>4. f \in Frame /\ Honest(f) /\ Leaving(f)
  BY <1>3, NewFrameGood
<1> HIDE DEF f
<1>5. <<f>> \in Seq(Frame) /\ Len(<<f>>) = 1 /\ <<f>>[1] = f
  BY <1>4
<1>6. frames' = <<f>>
  BY <1>1 DEF f
<1>7. \A i \in 1 .. 1 : i = 1
  OBVIOUS
<1>8. Halting(f, stopped')
  BY <1>1, <1>2 DEF Halting
<1> QED BY <1>1, <1>2, <1>4, <1>5, <1>6, <1>7, <1>8 DEF Framed

(* The other steps of run() find no test case active, and none starts      *)
(* while an abort signal is under way.                                     *)
LEMMA OutsideFramed ==
  ASSUME Framed, frames' = <<>>, frames = <<>>, stopped' = stopped,
         stopped => at' \in {"teardown class", "over"}
  PROVE  Framed'
<1>1. frames' \in Seq(Frame) /\ Len(frames') = 0
  BY EmptySequence
<1>2. ~(Len(frames') = 2) /\ Len(frames') <= 2 /\ \A i \in 1 .. Len(frames') : FALSE
  BY <1>1, NoIndex
<1> QED BY <1>1, <1>2 DEF Framed

LEMMA FramedStep ==
  ASSUME Framed, Counted, Next
  PROVE  Framed'
<1>1. CASE SetupClass
  BY <1>1, OutsideFramed DEF SetupClass, Framed
<1>2. CASE ExceptSetup
  BY <1>2, OutsideFramed DEF ExceptSetup, Framed
<1>3. CASE BlockOne
  BY <1>3, OutsideFramed DEF BlockOne, Framed
<1>4. CASE Blocked
  BY <1>4, OutsideFramed DEF Blocked, Framed
<1>5. CASE StartTest
  BY <1>5, StartTestFramed
<1>6. CASE AllTestsRun
  BY <1>6, OutsideFramed DEF AllTestsRun, Framed
<1>7. CASE TeardownClass
  BY <1>7, OutsideFramed DEF TeardownClass, Framed
<1>8. CASE ExecOneTestcase
  BY <1>8, SetupTestFramed, BodyFramed, GenerateFramed, TeardownTestFramed,
     OnTeardownExceptionFramed, VerdictFramed, SilenceFramed, ProcedureFuncFramed,
     AddRecordFramed, LeaveGeneratedFramed, LeaveFramed DEF ExecOneTestcase
<1>9. CASE Over
  BY <1>9 DEF Over, vars, control, Framed, Halting
<1> QED BY <1>1, <1>2, <1>3, <1>4, <1>5, <1>6, <1>7, <1>8, <1>9 DEF Next, Run

-----------------------------------------------------------------------------
(* The index of the test, and the records.                                 *)
LEMMA CountedStep == ASSUME Counted, Next PROVE Counted'
<1>1. next' = next \/ next' = next + 1 \/ next' = 1
  <2>1. CASE SetupClass \/ ExceptSetup \/ BlockOne \/ Leave
    BY <2>1 DEF SetupClass, ExceptSetup, BlockOne, Leave
  <2>2. CASE Blocked \/ StartTest \/ AllTestsRun \/ TeardownClass \/ Over
    BY <2>2 DEF Blocked, StartTest, AllTestsRun, TeardownClass, Over, vars, control
  <2>3. CASE SetupTest \/ Body \/ Generate \/ TeardownTest \/ OnTeardownException
             \/ Verdict \/ Silence \/ ProcedureFunc \/ AddRecord \/ LeaveGenerated
    BY <2>3 DEF SetupTest, Body, Generate, TeardownTest, OnTeardownException, Verdict, Silence,
       ProcedureFunc, AddRecord, LeaveGenerated, control
  <2> QED BY <2>1, <2>2, <2>3 DEF Next, Run, ExecOneTestcase
<1>2. guarded' \in BOOLEAN
  <2>1. CASE SetupClass
    <3>1. PICK e \in SetupClassEnds : guarded' = (e = "false")
      BY <2>1 DEF SetupClass
    <3> QED BY <3>1
  <2>2. CASE ExceptSetup
    <3>1. guarded' = guarded \/ guarded' = FALSE
      BY <2>2 DEF ExceptSetup
    <3> QED BY <3>1 DEF Counted
  <2>3. CASE BlockOne \/ Leave \/ Blocked \/ StartTest \/ AllTestsRun \/ TeardownClass \/ Over
    <3>1. guarded' = guarded
      BY <2>3 DEF BlockOne, Leave, Blocked, StartTest, AllTestsRun, TeardownClass, Over, vars, control
    <3> QED BY <3>1 DEF Counted
  <2>4. CASE SetupTest \/ Body \/ Generate \/ TeardownTest \/ OnTeardownException
             \/ Verdict \/ Silence \/ ProcedureFunc \/ AddRecord \/ LeaveGenerated
    <3>1. guarded' = guarded
      BY <2>4 DEF SetupTest, Body, Generate, TeardownTest, OnTeardownException, Verdict, Silence,
         ProcedureFunc, AddRecord, LeaveGenerated, control
    <3> QED BY <3>1 DEF Counted
  <2> QED BY <2>1, <2>2, <2>3, <2>4 DEF Next, Run, ExecOneTestcase
<1>3. at' \in Places
  <2>1. CASE SetupClass
    <3>1. PICK e \in SetupClassEnds :
            at' = CASE e = "false" -> "block" [] e = "exit" -> "over" [] e = "none" -> "tests"
                    [] OTHER -> "except"
      BY <2>1 DEF SetupClass
    <3> QED BY <3>1 DEF Places
  <2>2. CASE ExceptSetup
    BY <2>2 DEF ExceptSetup, Places
  <2>3. CASE BlockOne \/ Leave \/ Blocked \/ StartTest \/ AllTestsRun \/ TeardownClass \/ Over
    <3>1. at' = at \/ at' \in {"except", "over", "teardown class"}
      BY <2>3 DEF BlockOne, Leave, Blocked, StartTest, AllTestsRun, TeardownClass, Over, vars, control
    <3> QED BY <3>1 DEF Counted, Places
  <2>4. CASE SetupTest \/ Body \/ Generate \/ TeardownTest \/ OnTeardownException
             \/ Verdict \/ Silence \/ ProcedureFunc \/ AddRecord \/ LeaveGenerated
    <3>1. at' = at
      BY <2>4 DEF SetupTest, Body, Generate, TeardownTest, OnTeardownException, Verdict, Silence,
         ProcedureFunc, AddRecord, LeaveGenerated, control
    <3> QED BY <3>1 DEF Counted
  <2> QED BY <2>1, <2>2, <2>3, <2>4 DEF Next, Run, ExecOneTestcase
<1>4. next' \in Nat \ {0}
  BY <1>1, NextIsPositive DEF Counted
<1> QED BY <1>2, <1>3, <1>4 DEF Counted

LEMMA Appended ==
  ASSUME NEW S, NEW s \in Seq(S), NEW e \in S
  PROVE  /\ Append(s, e) \in Seq(S) /\ Append(s, e) # <<>>
         /\ \A i \in 1 .. Len(Append(s, e)) : (i \in 1 .. Len(s) /\ Append(s, e)[i] = s[i])
                                            \/ Append(s, e)[i] = e
OBVIOUS

(* A record is added by two steps only: a test that is blocked, and a test *)
(* case at the end of its hooks.                                           *)
LEMMA RecordsGrow ==
  ASSUME Framed, Counted, Next, records' # records
  PROVE  \E r \in Record : /\ records' = Append(records, r)
                           /\ r.result = "PASS" => ~r.dirty
                           /\ \/ at = "block" /\ r.result = "BLOCKED"
                              \/ at = "tests" /\ UNCHANGED <<at, guarded, teardowns>>
<1>1. CASE BlockOne
  <2>1. at = "block" /\ next \in Nat \ {0} /\ next <= Len(Tests)
    BY <1>1 DEF BlockOne, Counted
  <2>2. Tests[next] \in Names
    <3>1. Tests \in Seq(ToSet(Tests))
      BY TestsAssumption
    <3>2. next \in 1 .. Len(Tests)
      BY <2>1, <3>1
    <3> QED BY <3>1, <3>2 DEF Names
  <2> DEFINE r == [name |-> Tests[next], result |-> "BLOCKED", dirty |-> TRUE]
  <2>3. r \in Record /\ r.result = "BLOCKED"
    BY <2>2 DEF Record, Results
  <2>4. records' = Append(records, r)
    BY <1>1 DEF BlockOne
  <2> HIDE DEF r
  <2> QED BY <2>1, <2>3, <2>4
<1>2. CASE AddRecord
  <2>1. Top \in Frame /\ Honest(Top) /\ Top.step = "hooks" /\ at = "tests"
    BY <1>2, TopFacts DEF AddRecord
  <2> DEFINE r == [name |-> Top.name, result |-> Top.result, dirty |-> Top.dirty]
  <2>2. r \in Record /\ (r.result = "PASS" => ~r.dirty)
    BY <2>1 DEF Record, Frame, Honest
  <2>3. records' = Append(records, r) /\ UNCHANGED <<at, guarded, teardowns>>
    BY <1>2 DEF AddRecord, control
  <2> HIDE DEF r
  <2> QED BY <2>1, <2>2, <2>3
<1>3. CASE ~BlockOne /\ ~AddRecord
  <2>1. SetupClass \/ ExceptSetup \/ Blocked \/ StartTest \/ AllTestsRun \/ TeardownClass
        \/ SetupTest \/ Body \/ Generate \/ TeardownTest \/ OnTeardownException
        \/ Verdict \/ Silence \/ ProcedureFunc \/ LeaveGenerated \/ Leave \/ Over
    BY <1>3 DEF Next, Run, ExecOneTestcase
  <2>2. records' = records
    BY <2>1 DEF SetupClass, ExceptSetup, Blocked, StartTest, AllTestsRun, TeardownClass,
       SetupTest, Body, Generate, TeardownTest, OnTeardownException, Verdict, Silence,
       ProcedureFunc, LeaveGenerated, Leave, Over, vars
  <2> QED BY <2>2
<1> QED BY <1>1, <1>2, <1>3

LEMMA RecordedStep == ASSUME Framed, Counted, Recorded, Next PROVE Recorded'
<1>1. CASE records' = records
  BY <1>1 DEF Recorded
<1>2. CASE records' # records
  <2>1. PICK r \in Record : records' = Append(records, r) /\ (r.result = "PASS" => ~r.dirty)
    BY <1>2, RecordsGrow
  <2>2. records \in Seq(Record)
    BY DEF Recorded
  <2>3. /\ records' \in Seq(Record)
        /\ \A i \in 1 .. Len(records') :
             (i \in 1 .. Len(records) /\ records'[i] = records[i]) \/ records'[i] = r
    BY <2>1, <2>2, Appended
  <2> QED BY <2>1, <2>3 DEF Recorded
<1> QED BY <1>1, <1>2

-----------------------------------------------------------------------------
(* teardown_class.                                                         *)
LEMMA BlockedKept ==
  ASSUME Framed, Counted, Recorded, Torn, Next, guarded
  PROVE  \A i \in 1 .. Len(records') : records'[i].result = "BLOCKED"
<1>1. CASE records' = records
  BY <1>1 DEF Torn
<1>2. CASE records' # records
  <2>1. PICK r \in Record : records' = Append(records, r) /\ r.result = "BLOCKED"
    BY <1>2, RecordsGrow DEF Torn
  <2>2. records \in Seq(Record)
    BY DEF Recorded
  <2>3. \A i \in 1 .. Len(records') :
             (i \in 1 .. Len(records) /\ records'[i] = records[i]) \/ records'[i] = r
    BY <2>1, <2>2, Appended
  <2> QED BY <2>1, <2>3 DEF Torn
<1> QED BY <1>1, <1>2

LEMMA TornStep == ASSUME Framed, Counted, Recorded, Torn, Next PROVE Torn'
<1>0. guarded => \A i \in 1 .. Len(records') : records'[i].result = "BLOCKED"
  BY BlockedKept
<1>1. CASE SetupClass
  <2>1. /\ at = "setup class" /\ records' = records /\ teardowns' = teardowns
        /\ records = <<>> /\ teardowns = 0
    BY <1>1 DEF SetupClass, Torn
  <2>2. PICK e \in SetupClassEnds :
          /\ at' = CASE e = "false" -> "block" [] e = "exit" -> "over"
                     [] e = "none" -> "tests" [] OTHER -> "except"
          /\ guarded' = (e = "false")
    BY <1>1 DEF SetupClass
  <2>3. \A i \in 1 .. Len(records') : FALSE
    <3>1. Len(records') = 0
      BY <2>1, EmptySequence
    <3> QED BY <3>1, NoIndex
  <2> QED BY <2>1, <2>2, <2>3 DEF Torn
<1>2. CASE ExceptSetup
  <2>1. at = "except" /\ teardowns = 0 /\ teardowns' = teardowns + 1 /\ records' = records
    BY <1>2 DEF ExceptSetup, Torn
  <2>2. (at' = "over" /\ guarded' = guarded) \/ (at' = "block" /\ ~guarded')
    BY <1>2 DEF ExceptSetup
  <2>3. teardowns' = 1
    BY <2>1
  <2>4. CASE at' = "over" /\ guarded' = guarded
    BY <1>0, <2>3, <2>4 DEF Torn
  <2>5. CASE at' = "block" /\ ~guarded'
    BY <2>3, <2>5 DEF Torn
  <2> QED BY <2>2, <2>4, <2>5
<1>3. CASE BlockOne
  <2>1. at = "block" /\ guarded' = guarded /\ teardowns' = teardowns
    BY <1>3 DEF BlockOne
  <2>2. at' \in {"block", "over"} \/ (at' = "except" /\ guarded)
    BY <1>3 DEF BlockOne
  <2> QED BY <1>0, <2>1, <2>2 DEF Torn
<1>4. CASE Blocked
  <2>1. at = "block" /\ at' = "over" /\ guarded' = guarded /\ teardowns' = teardowns
    BY <1>4 DEF Blocked
  <2> QED BY <1>0, <2>1 DEF Torn
<1>5. CASE AllTestsRun \/ Leave
  <2>1. /\ at = "tests" /\ at' \in {"tests", "teardown class"} /\ guarded' = guarded
        /\ teardowns' = teardowns
    <3>1. CASE AllTestsRun
      BY <3>1 DEF AllTestsRun
    <3>2. CASE Leave
      <4>1. frames # <<>>
        <5>1. frames \in Seq(Frame) /\ Len(frames) = 1
          BY <3>2 DEF Leave, Framed
        <5> QED BY <5>1, NonEmpty
      <4>2. at = "tests"
        BY <4>1 DEF Framed
      <4> QED BY <3>2, <4>2 DEF Leave
    <3> QED BY <1>5, <3>1, <3>2
  <2> QED BY <2>1 DEF Torn
<1>6. CASE TeardownClass
  <2>1. at = "teardown class" /\ at' = "over" /\ guarded' = guarded /\ teardowns' = teardowns + 1
    BY <1>6 DEF TeardownClass
  <2>2. ~guarded
    BY <2>1 DEF Torn
  <2>3. teardowns' = 1
    <3>1. teardowns = 0 /\ teardowns' = teardowns + 1
      BY <1>6, <2>1 DEF TeardownClass, Torn
    <3> QED BY <3>1
  <2> QED BY <2>1, <2>2, <2>3 DEF Torn
<1>7. CASE StartTest \/ SetupTest \/ Body \/ Generate \/ TeardownTest \/ OnTeardownException
           \/ Verdict \/ Silence \/ ProcedureFunc \/ AddRecord \/ LeaveGenerated \/ Over
  <2>1. UNCHANGED <<control, teardowns>>
    BY <1>7 DEF StartTest, SetupTest, Body, Generate, TeardownTest, OnTeardownException, Verdict,
       Silence, ProcedureFunc, AddRecord, LeaveGenerated, Over, vars
  <2>2. at' = at /\ guarded' = guarded /\ teardowns' = teardowns
    BY <2>1 DEF control
  <2>3. at # "tests" => records' = records
    <3>1. CASE Over
      BY <3>1 DEF Over, vars
    <3>2. CASE StartTest
      BY <3>2 DEF StartTest
    <3>3. CASE ~Over /\ ~StartTest
      <4>1. frames # <<>>
        <5>1. CASE LeaveGenerated
          <6>1. frames \in Seq(Frame) /\ Len(frames) > 1
            BY <5>1 DEF LeaveGenerated, Framed
          <6>2. Len(frames) > 0
            BY <6>1
          <6> QED BY <6>1, <6>2, NonEmpty
        <5>2. CASE ~LeaveGenerated
          BY <1>7, <3>3, <5>2 DEF SetupTest, Body, Generate, TeardownTest, OnTeardownException,
             Verdict, Silence, ProcedureFunc, AddRecord
        <5> QED BY <5>1, <5>2
      <4> QED BY <4>1 DEF Framed
    <3> QED BY <3>1, <3>2, <3>3
  <2> QED BY <1>0, <2>2, <2>3 DEF Torn
<1> QED BY <1>1, <1>2, <1>3, <1>4, <1>5, <1>6, <1>7 DEF Next, Run, ExecOneTestcase

-----------------------------------------------------------------------------
LEMMA InitRun == Init => RunInv
<1> SUFFICES ASSUME Init PROVE RunInv
  OBVIOUS
<1>1. frames \in Seq(Frame) /\ Len(frames) = 0 /\ records \in Seq(Record) /\ Len(records) = 0
  BY EmptySequence DEF Init
<1>2. /\ \A i \in 1 .. Len(frames) : FALSE
      /\ \A i \in 1 .. Len(records) : FALSE
      /\ ~(Len(frames) = 2) /\ Len(frames) <= 2
  BY <1>1, NoIndex
<1>3. Framed
  BY <1>1, <1>2 DEF Init, Framed
<1>4. Counted /\ Recorded
  BY <1>1, <1>2 DEF Init, Counted, Recorded, Places
<1>5. Torn
  BY <1>2 DEF Init, Torn
<1> QED BY <1>3, <1>4, <1>5 DEF RunInv

LEMMA NextRun == RunInv /\ [Next]_vars => RunInv'
<1> SUFFICES ASSUME RunInv, [Next]_vars PROVE RunInv'
  OBVIOUS
<1>1. CASE Next
  BY <1>1, FramedStep, CountedStep, RecordedStep, TornStep DEF RunInv
<1>2. CASE UNCHANGED vars
  BY <1>2 DEF vars, control, RunInv, Framed, Halting, Counted, Recorded, Torn
<1> QED BY <1>1, <1>2

THEOREM RunSound == Spec => []RunInv
<1>1. Init => RunInv
  BY InitRun
<1>2. RunInv /\ [Next]_vars => RunInv'
  BY NextRun
<1> QED BY <1>1, <1>2, PTL DEF Spec

(* No record says PASS for a test case any part of which did not end well, *)
(* in whatever way its setup, body, teardown and procedure functions end.  *)
THEOREM PassesClean == Spec => []PassIsClean
<1>1. RunInv => PassIsClean
  <2> SUFFICES ASSUME RunInv PROVE PassIsClean
    OBVIOUS
  <2>1. DOMAIN records = 1 .. Len(records)
    <3>1. records \in Seq(Record)
      BY DEF RunInv, Recorded
    <3> QED BY <3>1
  <2> QED BY <2>1 DEF RunInv, Recorded, PassIsClean
<1> QED BY <1>1, RunSound, PTL

(* Once an abort signal has left a test case, of whatever depth, no setup  *)
(* and no body of a test case begins any more.                             *)
THEOREM Stops == Spec => []NothingAfterStop
<1>1. RunInv => NothingAfterStop
  <2> SUFFICES ASSUME RunInv PROVE NothingAfterStop
    OBVIOUS
  <2>1. DOMAIN frames = 1 .. Len(frames)
    <3>1. frames \in Seq(Frame)
      BY DEF RunInv, Framed
    <3> QED BY <3>1
  <2> QED BY <2>1 DEF RunInv, Framed, Halting, NothingAfterStop
<1> QED BY <1>1, RunSound, PTL

(* However setup_class, the tests and run() end, teardown_class is called  *)
(* at most once, and exactly once when a test has run.                     *)
THEOREM TearsDown == Spec => []TornDownOnce
<1>1. RunInv => TornDownOnce
  <2> SUFFICES ASSUME RunInv PROVE TornDownOnce
    OBVIOUS
  <2>1. teardowns \in {0, 1}
    BY DEF RunInv, Torn, Counted, Places
  <2>2. DOMAIN records = 1 .. Len(records)
    <3>1. records \in Seq(Record)
      BY DEF RunInv, Recorded
    <3> QED BY <3>1
  <2>3. ASSUME at = "over", NEW i \in DOMAIN records, records[i].result # "BLOCKED" \/ ~guarded
        PROVE  teardowns = 1
    <3>1. records # <<>>
      BY <2>2, <2>3
    <3> QED BY <2>2, <2>3, <3>1 DEF RunInv, Torn
  <2> QED BY <2>1, <2>3 DEF TornDownOnce
<1> QED BY <1>1, RunSound, PTL
=============================================================================

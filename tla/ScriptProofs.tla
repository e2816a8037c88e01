---------------------------- MODULE ScriptProofs ----------------------------
(***************************************************************************)
(* Proofs about the two kinds of helpers whose model is a sequence of      *)
(* steps left to do, the lab's call helpers (CallBox) and the functions    *)
(* that set a phone up (PhoneSetup), as MCTestbed drives them, for any     *)
(* values of their constants.                                              *)
(***************************************************************************)
EXTENDS MCTestbed, TLAPS

bed == <<driven, vars, helper, devices, wifi, calls, bluetooth, setup, messages, coex,
         lab>>

-----------------------------------------------------------------------------
(* The base station simulator.  What the steps left of a helper are, and   *)
(* in which order: a call is made once, before the simulator is seen       *)
(* connected, the ring is heard and the phone is seen out of calls; and    *)
(* the simulator is not awaited connected after the latter.                *)
LabStep ==
  ({"await"} \X X!Domains \X {"idle", "calling", "ringing", "connected"})
    \union ({"release", "offer"} \X X!Domains)
    \union {<<"dial">>, <<"offhook">>, <<"rings">>, <<"accept">>, <<"answered">>, <<"in call">>,
            <<"not in call">>, <<"hang up">>, <<"end">>, <<"raise">>}

Makes == {<<"dial">>} \union ({"offer"} \X X!Domains)
Connects == {"await"} \X X!Domains \X {"connected"}
RingsHeard == {<<"rings">>}
OutOfCall == {<<"not in call">>}
Milestones == ((Makes \union Connects) \union RingsHeard) \union OutOfCall

Has(s, K) == \E i \in DOMAIN s : s[i] \in K
Never(s, K, L) == \A i, j \in DOMAIN s : i < j /\ s[i] \in K => s[j] \notin L
LastIs(s, x) == s # <<>> => s[Len(s)] = x

(* Which of them a sequence holds.                                         *)
Marks(s) ==
  {k \in {"make", "connect", "ring", "out"} :
     Has(s, CASE k = "make" -> Makes [] k = "connect" -> Connects [] k = "ring" -> RingsHeard
              [] k = "out" -> OutOfCall)}

Ordered(s) == Never(s, Milestones, Makes) /\ Never(s, OutOfCall, Connects)

(* The helpers that see the simulator connected; that tear the call down,  *)
(* and the end of the simulator that they see idle last.                   *)
ByConnection == {"mo ims", "mo cs", "make", "to cs", "ho"}
TearingDown == {"mo ims", "mo cs", "to cs", "tear down"}
BoxEnd(o) == IF o \in {"mo cs", "to cs"} THEN "cs" ELSE "ims"

LabTyped ==
  /\ made \in 0 .. MaxMade /\ taken \subseteq X!Calls
  /\ ue \in [X!Calls -> {"none", "dialing", "alerting", "ringing", "active", "ended"}]
  /\ box \in [X!Domains -> [state : {"idle", "calling", "offered", "ringing", "connected"},
                            call : 0 .. MaxMade]]
  /\ \A d \in X!Domains : IF box[d].state = "idle" THEN box[d].call = 0
                          ELSE box[d].call \in X!Calls
  /\ op \in X!Helpers \union {"none"} /\ at \in {"idle", "running", "finally"}
  /\ busy \in BOOLEAN

Scripted ==
  /\ script \in Seq(LabStep) /\ Ordered(script) /\ ok \in BOOLEAN
  /\ (at = "running") = (script # <<>>)
  /\ at # "idle" => op # "none" /\ ~ok
  /\ op = "none" => ~ok
  /\ op \in TearingDown => LastIs(script, <<"await", BoxEnd(op), "idle">>)
  /\ op = "ho" => LastIs(script, <<"raise">>) /\ ~ok
  /\ op = "tear down" => ~Has(script, Makes)
  /\ Has(script, Makes) => made < MaxMade

(* The phone knows of a call that the simulator has taken, or that came to *)
(* the simulator from it; and a connected one was taken.                   *)
TakenKnown ==
  /\ \A c \in taken : ue[c] # "none"
  /\ \A d \in X!Domains :
       /\ box[d].state \notin {"idle", "offered"} => ue[box[d].call] # "none"
       /\ box[d].state = "connected" => box[d].call \in taken

(* On its way to True, or there.                                           *)
OnCourse == at = "running" \/ (at = "idle" /\ ok)

(* Unless an earlier call was about: until its call is made there is none; *)
(* from then on there is no other.                                         *)
FreshBox == ~X!InCall /\ \A d \in X!Domains : box[d] = X!Idle
OnlyMade ==
  /\ \A c \in X!Calls \ {made} : ue[c] \notin X!Live
  /\ \A d \in X!Domains : box[d].state # "idle" => box[d].call = made
NoOther ==
  OnCourse /\ ~busy =>
    OnlyMade /\ (Has(script, Makes) \/ op = "tear down" => FreshBox)

ConnectedTo ==
  OnCourse /\ op \in ByConnection /\ ~Has(script, Connects) =>
    ~Has(script, Makes) /\ (busy \/ made \in taken)

RangFor ==
  OnCourse /\ op = "mt" /\ ~Has(script, RingsHeard) =>
    ~Has(script, Makes) /\ (busy \/ (made \in X!Calls /\ ue[made] # "none"))

(* Past the look that the phone is in no call, none is dialled any more,   *)
(* and unless an earlier call was about none rings.                        *)
NoMore ==
  /\ \A c \in X!Calls : ue[c] \notin X!Live
  /\ \A d \in X!Domains : box[d].state = "offered" => ue[box[d].call] # "none"
NoneDialing == \A c \in X!Calls : ue[c] # "dialing"
OutFor ==
  OnCourse /\ op \in TearingDown /\ ~Has(script, OutOfCall) =>
    ~Has(script, Makes) /\ NoneDialing /\ (busy \/ NoMore)

EndsIdle == at = "idle" /\ ok /\ op \in TearingDown => box[BoxEnd(op)] = X!Idle

Boxed ==
  /\ LabTyped /\ Scripted /\ TakenKnown /\ NoOther /\ ConnectedTo /\ RangFor /\ OutFor
  /\ EndsIdle

-----------------------------------------------------------------------------
(* Sequences, whatever their elements.                                     *)
LEMMA ConcatParts ==
  ASSUME NEW S, NEW s \in Seq(S), NEW t \in Seq(S)
  PROVE  /\ s \o t \in Seq(S) /\ Len(s) \in Nat /\ Len(t) \in Nat /\ Len(s \o t) = Len(s) + Len(t)
         /\ DOMAIN s = 1 .. Len(s) /\ DOMAIN t = 1 .. Len(t)
         /\ DOMAIN (s \o t) = 1 .. (Len(s) + Len(t))
         /\ \A i \in 1 .. Len(s) : (s \o t)[i] = s[i]
         /\ \A i \in 1 .. Len(t) : (s \o t)[Len(s) + i] = t[i]
<1>1. s \o t \in Seq(S) /\ Len(s) \in Nat /\ Len(t) \in Nat /\ Len(s \o t) = Len(s) + Len(t)
  OBVIOUS
<1>2. DOMAIN s = 1 .. Len(s) /\ DOMAIN t = 1 .. Len(t)
  OBVIOUS
<1>3. DOMAIN (s \o t) = 1 .. (Len(s) + Len(t))
  BY <1>1
<1>4. \A i \in 1 .. Len(s) : (s \o t)[i] = s[i]
  BY <1>1
<1>5. \A i \in 1 .. Len(t) : (s \o t)[Len(s) + i] = t[i]
  BY <1>1
<1> QED BY <1>1, <1>2, <1>3, <1>4, <1>5

LEMMA ConcatPlace ==
  ASSUME NEW m \in Nat, NEW n \in Nat, NEW i \in 1 .. (m + n)
  PROVE  i \in 1 .. m \/ (i - m \in 1 .. n /\ i = m + (i - m) /\ i > m)
OBVIOUS

LEMMA HasConcat ==
  ASSUME NEW S, NEW s \in Seq(S), NEW t \in Seq(S), NEW K
  PROVE  Has(s \o t, K) <=> Has(s, K) \/ Has(t, K)
<1> DEFINE m == Len(s)
           n == Len(t)
<1>1. /\ m \in Nat /\ n \in Nat /\ DOMAIN s = 1 .. m /\ DOMAIN t = 1 .. n
      /\ DOMAIN (s \o t) = 1 .. (m + n)
      /\ \A i \in 1 .. m : (s \o t)[i] = s[i]
      /\ \A i \in 1 .. n : (s \o t)[m + i] = t[i]
  BY ConcatParts
<1> HIDE DEF m, n
<1>2. ASSUME Has(s \o t, K) PROVE Has(s, K) \/ Has(t, K)
  <2>1. PICK i \in 1 .. (m + n) : (s \o t)[i] \in K
    BY <1>1, <1>2 DEF Has
  <2>2. CASE i \in 1 .. m
    BY <1>1, <2>1, <2>2 DEF Has
  <2>3. CASE i - m \in 1 .. n /\ i = m + (i - m)
    BY <1>1, <2>1, <2>3 DEF Has
  <2> QED BY <1>1, <2>1, <2>2, <2>3, ConcatPlace
<1>3. ASSUME Has(s, K) PROVE Has(s \o t, K)
  <2>1. PICK i \in 1 .. m : s[i] \in K
    BY <1>1, <1>3 DEF Has
  <2>2. i \in 1 .. (m + n)
    BY <1>1, <2>1
  <2> QED BY <1>1, <2>1, <2>2 DEF Has
<1>4. ASSUME Has(t, K) PROVE Has(s \o t, K)
  <2>1. PICK i \in 1 .. n : t[i] \in K
    BY <1>1, <1>4 DEF Has
  <2>2. m + i \in 1 .. (m + n)
    BY <1>1, <2>1
  <2> QED BY <1>1, <2>1, <2>2 DEF Has
<1> QED BY <1>2, <1>3, <1>4

LEMMA NeverConcat ==
  ASSUME NEW S, NEW s \in Seq(S), NEW t \in Seq(S), NEW K, NEW L,
         Never(s, K, L), Never(t, K, L), ~Has(s, K) \/ ~Has(t, L)
  PROVE  Never(s \o t, K, L)
<1> DEFINE m == Len(s)
           n == Len(t)
<1>1. /\ m \in Nat /\ n \in Nat /\ DOMAIN s = 1 .. m /\ DOMAIN t = 1 .. n
      /\ DOMAIN (s \o t) = 1 .. (m + n)
      /\ \A i \in 1 .. m : (s \o t)[i] = s[i]
      /\ \A i \in 1 .. n : (s \o t)[m + i] = t[i]
  BY ConcatParts
<1> HIDE DEF m, n
<1>2. SUFFICES ASSUME NEW i \in 1 .. (m + n), NEW j \in 1 .. (m + n), i < j, (s \o t)[i] \in K
               PROVE  (s \o t)[j] \notin L
  BY <1>1 DEF Never
<1>3. CASE i \in 1 .. m /\ j \in 1 .. m
  BY <1>1, <1>2, <1>3 DEF Never
<1>4. CASE i \in 1 .. m /\ j - m \in 1 .. n /\ j = m + (j - m)
  <2>1. s[i] \in K /\ (s \o t)[j] = t[j - m]
    BY <1>1, <1>2, <1>4
  <2> QED BY <1>1, <1>4, <2>1 DEF Has
<1>5. CASE i - m \in 1 .. n /\ i = m + (i - m) /\ j - m \in 1 .. n /\ j = m + (j - m)
  <2>1. t[i - m] \in K /\ (s \o t)[j] = t[j - m]
    BY <1>1, <1>2, <1>5
  <2>2. i - m < j - m
    BY <1>1, <1>2
  <2> QED BY <1>1, <1>5, <2>1, <2>2 DEF Never
<1>6. i \in 1 .. m \/ (i - m \in 1 .. n /\ i = m + (i - m) /\ i > m)
  BY <1>1, ConcatPlace
<1>7. j \in 1 .. m \/ (j - m \in 1 .. n /\ j = m + (j - m) /\ j > m)
  BY <1>1, ConcatPlace
<1>8. ~(i > m /\ j \in 1 .. m)
  BY <1>1, <1>2
<1> QED BY <1>3, <1>4, <1>5, <1>6, <1>7, <1>8

LEMMA LastConcat ==
  ASSUME NEW S, NEW s \in Seq(S), NEW t \in Seq(S), NEW x, t # <<>>, LastIs(t, x)
  PROVE  s \o t # <<>> /\ LastIs(s \o t, x)
<1>1. Len(t) \in 1 .. Len(t) /\ Len(s) \in Nat /\ Len(s \o t) = Len(s) + Len(t)
  BY ConcatParts
<1>2. (s \o t)[Len(s) + Len(t)] = t[Len(t)]
  BY <1>1, ConcatParts
<1>3. s \o t # <<>>
  BY <1>1
<1> QED BY <1>1, <1>2, <1>3 DEF LastIs

LEMMA TailParts ==
  ASSUME NEW S, NEW s \in Seq(S), s # <<>>
  PROVE  /\ Tail(s) \in Seq(S) /\ Len(s) \in Nat \ {0} /\ DOMAIN s = 1 .. Len(s) /\ 1 \in DOMAIN s
         /\ Len(Tail(s)) = Len(s) - 1 /\ DOMAIN Tail(s) = 1 .. (Len(s) - 1) /\ s[1] \in S
         /\ \A i \in 1 .. (Len(s) - 1) : Tail(s)[i] = s[i + 1] /\ i + 1 \in 1 .. Len(s)
         /\ (Tail(s) = <<>>) <=> (Len(s) = 1)
<1>1. /\ Tail(s) \in Seq(S) /\ Len(s) \in Nat \ {0} /\ DOMAIN s = 1 .. Len(s)
      /\ Len(Tail(s)) = Len(s) - 1 /\ s[1] \in S
  OBVIOUS
<1>2. DOMAIN Tail(s) = 1 .. (Len(s) - 1)
  BY <1>1
<1>3. \A i \in 1 .. (Len(s) - 1) : Tail(s)[i] = s[i + 1] /\ i + 1 \in 1 .. Len(s)
  BY <1>1
<1>4. 1 \in DOMAIN s
  BY <1>1
<1>5. (Tail(s) = <<>>) <=> (Len(s) = 1)
  <2>1. \A q \in Seq(S) : q = <<>> <=> Len(q) = 0
    OBVIOUS
  <2>2. Len(s) - 1 = 0 <=> Len(s) = 1
    BY <1>1
  <2> QED BY <1>1, <2>1, <2>2
<1> QED BY <1>1, <1>2, <1>3, <1>4, <1>5

LEMMA HasTail ==
  ASSUME NEW S, NEW s \in Seq(S), s # <<>>, NEW K
  PROVE  Has(s, K) <=> s[1] \in K \/ Has(Tail(s), K)
<1>1. ASSUME Has(s, K) PROVE s[1] \in K \/ Has(Tail(s), K)
  <2>1. PICK i \in 1 .. Len(s) : s[i] \in K
    BY <1>1, TailParts DEF Has
  <2>2. CASE i = 1
    BY <2>1, <2>2
  <2>3. CASE i # 1
    <3>1. Len(s) \in Nat \ {0}
      BY TailParts
    <3>2. i - 1 \in 1 .. (Len(s) - 1) /\ (i - 1) + 1 = i
      BY <2>1, <2>3, <3>1
    <3>3. Tail(s)[i - 1] = s[(i - 1) + 1] /\ DOMAIN Tail(s) = 1 .. (Len(s) - 1)
      BY <3>2, TailParts
    <3> QED BY <2>1, <3>2, <3>3 DEF Has
  <2> QED BY <2>2, <2>3
<1>2. ASSUME Has(Tail(s), K) PROVE Has(s, K)
  <2>1. PICK i \in 1 .. (Len(s) - 1) : Tail(s)[i] \in K
    BY <1>2, TailParts DEF Has
  <2> QED BY <2>1, TailParts DEF Has
<1>3. s[1] \in K => Has(s, K)
  BY TailParts DEF Has
<1> QED BY <1>1, <1>2, <1>3

LEMMA NeverTail ==
  ASSUME NEW S, NEW s \in Seq(S), s # <<>>, NEW K, NEW L, Never(s, K, L)
  PROVE  Never(Tail(s), K, L) /\ (s[1] \in K => ~Has(Tail(s), L))
<1>1. /\ DOMAIN s = 1 .. Len(s) /\ DOMAIN Tail(s) = 1 .. (Len(s) - 1) /\ Len(s) \in Nat \ {0}
      /\ 1 \in DOMAIN s
      /\ \A i \in 1 .. (Len(s) - 1) : Tail(s)[i] = s[i + 1] /\ i + 1 \in 1 .. Len(s)
  BY TailParts
<1>2. Never(Tail(s), K, L)
  <2> SUFFICES ASSUME NEW i \in 1 .. (Len(s) - 1), NEW j \in 1 .. (Len(s) - 1), i < j,
                      Tail(s)[i] \in K
               PROVE  Tail(s)[j] \notin L
    BY <1>1 DEF Never
  <2>1. i + 1 < j + 1
    BY <1>1
  <2> QED BY <1>1, <2>1 DEF Never
<1>3. ASSUME s[1] \in K, NEW i \in 1 .. (Len(s) - 1) PROVE Tail(s)[i] \notin L
  <2>1. 1 < i + 1
    BY <1>1
  <2> QED BY <1>1, <1>3, <2>1 DEF Never
<1> QED BY <1>1, <1>2, <1>3 DEF Has

LEMMA LastTail ==
  ASSUME NEW S, NEW s \in Seq(S), s # <<>>, NEW x, LastIs(s, x)
  PROVE  LastIs(Tail(s), x) /\ (Tail(s) = <<>> => s[1] = x)
<1>1. Tail(s) # <<>> => Len(s) - 1 \in 1 .. (Len(s) - 1) /\ (Len(s) - 1) + 1 = Len(s)
  BY TailParts
<1>2. Len(Tail(s)) = Len(s) - 1 /\ \A i \in 1 .. (Len(s) - 1) : Tail(s)[i] = s[i + 1]
  BY TailParts
<1>3. Tail(s) = <<>> => Len(s) = 1
  BY TailParts
<1> QED BY <1>1, <1>2, <1>3 DEF LastIs

LEMMA EmptyHas ==
  /\ \A K : ~Has(<<>>, K)
  /\ \A K, L : Never(<<>>, K, L)
BY DEF Has, Never

LEMMA OneHas ==
  ASSUME NEW S, NEW x \in S
  PROVE  /\ <<x>> \in Seq(S) /\ <<x>> # <<>> /\ LastIs(<<x>>, x)
         /\ \A K : Has(<<x>>, K) <=> x \in K
         /\ \A K, L : Never(<<x>>, K, L)
<1>1. <<x>> \in Seq(S) /\ Len(<<x>>) = 1 /\ <<x>>[1] = x /\ DOMAIN <<x>> = {1}
  OBVIOUS
<1>2. \A K : Has(<<x>>, K) <=> x \in K
  BY <1>1 DEF Has
<1>3. \A K, L : Never(<<x>>, K, L)
  BY <1>1 DEF Never
<1> QED BY <1>1, <1>2, <1>3 DEF LastIs

-----------------------------------------------------------------------------
(* The scripts of the helpers, piece by piece.                             *)
Fit(s) == s \in Seq(LabStep) /\ Ordered(s)

LEMMA MarksAre ==
  ASSUME NEW s
  PROVE  /\ Marks(s) \subseteq {"make", "connect", "ring", "out"}
         /\ "make" \in Marks(s) <=> Has(s, Makes)
         /\ "connect" \in Marks(s) <=> Has(s, Connects)
         /\ "ring" \in Marks(s) <=> Has(s, RingsHeard)
         /\ "out" \in Marks(s) <=> Has(s, OutOfCall)
BY DEF Marks

LEMMA MilestonesAre ==
  ASSUME NEW s, Marks(s) = {}
  PROVE  ~Has(s, Milestones)
<1>1. ~Has(s, Makes) /\ ~Has(s, Connects) /\ ~Has(s, RingsHeard) /\ ~Has(s, OutOfCall)
  BY MarksAre
<1> HIDE DEF Makes, Connects, RingsHeard, OutOfCall
<1> QED BY <1>1 DEF Has, Milestones

LEMMA JoinFit ==
  ASSUME NEW s, NEW t, Fit(s), Fit(t),
         "make" \in Marks(t) => Marks(s) = {}, "connect" \in Marks(t) => "out" \notin Marks(s)
  PROVE  Fit(s \o t) /\ Marks(s \o t) = Marks(s) \union Marks(t)
<1>1. s \in Seq(LabStep) /\ t \in Seq(LabStep) /\ s \o t \in Seq(LabStep)
  BY ConcatParts DEF Fit
<1>2. \A K : Has(s \o t, K) <=> Has(s, K) \/ Has(t, K)
  BY <1>1, HasConcat
<1>3. ~Has(s, Milestones) \/ ~Has(t, Makes)
  BY MarksAre, MilestonesAre
<1>4. Never(s \o t, Milestones, Makes)
  BY <1>1, <1>3, NeverConcat DEF Fit, Ordered
<1>5. ~Has(s, OutOfCall) \/ ~Has(t, Connects)
  BY MarksAre
<1>6. Never(s \o t, OutOfCall, Connects)
  BY <1>1, <1>5, NeverConcat DEF Fit, Ordered
<1>7. Marks(s \o t) = Marks(s) \union Marks(t)
  <2>1. \A k \in {"make", "connect", "ring", "out"} : k \in Marks(s \o t) <=> k \in Marks(s) \/ k \in Marks(t)
    BY <1>2, MarksAre
  <2> QED BY <2>1, MarksAre
<1> QED BY <1>1, <1>4, <1>6, <1>7 DEF Fit, Ordered

LEMMA EmptyFit == Fit(<<>>) /\ Marks(<<>>) = {}
<1>1. <<>> \in Seq(LabStep)
  OBVIOUS
<1> QED BY <1>1, EmptyHas, MarksAre DEF Fit, Ordered

LEMMA OneFit ==
  ASSUME NEW x \in LabStep
  PROVE  /\ Fit(<<x>>) /\ <<x>> # <<>> /\ LastIs(<<x>>, x)
         /\ "make" \in Marks(<<x>>) <=> x \in Makes
         /\ "connect" \in Marks(<<x>>) <=> x \in Connects
         /\ "ring" \in Marks(<<x>>) <=> x \in RingsHeard
         /\ "out" \in Marks(<<x>>) <=> x \in OutOfCall
<1>1. /\ <<x>> \in Seq(LabStep) /\ <<x>> # <<>> /\ LastIs(<<x>>, x)
      /\ \A K : Has(<<x>>, K) <=> x \in K
      /\ \A K, L : Never(<<x>>, K, L)
  BY OneHas
<1> QED BY <1>1, MarksAre DEF Fit, Ordered

LEMMA AwaitKind ==
  ASSUME NEW d \in X!Domains, NEW q \in {"idle", "calling", "ringing", "connected"}
  PROVE  /\ <<"await", d, q>> \in LabStep
         /\ <<"await", d, q>> \notin Makes /\ <<"await", d, q>> \notin RingsHeard
         /\ <<"await", d, q>> \notin OutOfCall
         /\ <<"await", d, q>> \in Connects <=> q = "connected"
<1>1. <<"await", d, q>> \in LabStep
  BY DEF LabStep
<1>2. <<"await", d, q>> \notin Makes
  BY DEF Makes
<1>3. <<"await", d, q>> \notin RingsHeard /\ <<"await", d, q>> \notin OutOfCall
  BY DEF RingsHeard, OutOfCall
<1>4. <<"await", d, q>> \in Connects <=> q = "connected"
  BY DEF Connects
<1> QED BY <1>1, <1>2, <1>3, <1>4

LEMMA SideKind ==
  ASSUME NEW d \in X!Domains
  PROVE  /\ <<"offer", d>> \in LabStep /\ <<"offer", d>> \in Makes
         /\ <<"offer", d>> \notin Connects /\ <<"offer", d>> \notin RingsHeard
         /\ <<"offer", d>> \notin OutOfCall
         /\ <<"release", d>> \in LabStep /\ <<"release", d>> \notin Makes
         /\ <<"release", d>> \notin Connects /\ <<"release", d>> \notin RingsHeard
         /\ <<"release", d>> \notin OutOfCall
<1>1. <<"offer", d>> \in LabStep /\ <<"offer", d>> \in Makes
  BY DEF LabStep, Makes
<1>2. <<"offer", d>> \notin Connects /\ <<"offer", d>> \notin RingsHeard /\ <<"offer", d>> \notin OutOfCall
  BY DEF Connects, RingsHeard, OutOfCall
<1>3. <<"release", d>> \in LabStep /\ <<"release", d>> \notin Makes
  BY DEF LabStep, Makes
<1>4. <<"release", d>> \notin Connects /\ <<"release", d>> \notin RingsHeard /\ <<"release", d>> \notin OutOfCall
  BY DEF Connects, RingsHeard, OutOfCall
<1> QED BY <1>1, <1>2, <1>3, <1>4

LEMMA PlainKind ==
  ASSUME NEW n \in {"dial", "offhook", "rings", "accept", "answered", "in call", "not in call",
                    "hang up", "end", "raise"}
  PROVE  /\ <<n>> \in LabStep /\ <<n>> \notin Connects
         /\ <<n>> \in Makes <=> n = "dial"
         /\ <<n>> \in RingsHeard <=> n = "rings"
         /\ <<n>> \in OutOfCall <=> n = "not in call"
<1>1. <<n>> \in LabStep
  BY DEF LabStep
<1>2. <<n>> \notin Connects
  BY DEF Connects
<1>3. <<n>> \in Makes <=> n = "dial"
  BY DEF Makes
<1>4. (<<n>> \in RingsHeard <=> n = "rings") /\ (<<n>> \in OutOfCall <=> n = "not in call")
  BY DEF RingsHeard, OutOfCall
<1> QED BY <1>1, <1>2, <1>3, <1>4

LEMMA AwaitFit ==
  ASSUME NEW d \in X!Domains, NEW q \in {"idle", "calling", "ringing", "connected"}
  PROVE  /\ Fit(X!Await(d, q)) /\ LastIs(X!Await(d, q), <<"await", d, q>>) /\ X!Await(d, q) # <<>>
         /\ Marks(X!Await(d, q)) = IF q = "connected" THEN {"connect"} ELSE {}
<1> DEFINE x == <<"await", d, q>>
<1>1. /\ x \in LabStep /\ x \notin Makes /\ x \notin RingsHeard /\ x \notin OutOfCall
      /\ x \in Connects <=> q = "connected"
  BY AwaitKind
<1> HIDE DEF x
<1>2. X!Await(d, q) = <<x>>
  BY DEF X!Await, x
<1>3. /\ Fit(<<x>>) /\ <<x>> # <<>> /\ LastIs(<<x>>, x)
      /\ "make" \notin Marks(<<x>>) /\ "ring" \notin Marks(<<x>>) /\ "out" \notin Marks(<<x>>)
      /\ "connect" \in Marks(<<x>>) <=> q = "connected"
  BY <1>1, OneFit
<1>4. Marks(<<x>>) = IF q = "connected" THEN {"connect"} ELSE {}
  BY <1>3, MarksAre
<1> QED BY <1>2, <1>3, <1>4 DEF x

LEMMA OfferFit ==
  ASSUME NEW d \in X!Domains
  PROVE  /\ Fit(<< <<"offer", d>> >>) /\ Marks(<< <<"offer", d>> >>) = {"make"}
         /\ Fit(<< <<"release", d>> >>) /\ Marks(<< <<"release", d>> >>) = {}
<1>1. Fit(<< <<"offer", d>> >>) /\ Marks(<< <<"offer", d>> >>) = {"make"}
  BY SideKind, OneFit, MarksAre
<1>2. Fit(<< <<"release", d>> >>) /\ Marks(<< <<"release", d>> >>) = {}
  BY SideKind, OneFit, MarksAre
<1> QED BY <1>1, <1>2

MarkOf(n) == CASE n = "dial" -> {"make"} [] n = "rings" -> {"ring"} [] n = "not in call" -> {"out"}
               [] OTHER -> {}

LEMMA PlainFit ==
  ASSUME NEW n \in {"dial", "offhook", "rings", "accept", "answered", "in call", "not in call",
                    "hang up", "end", "raise"}
  PROVE  /\ Fit(<< <<n>> >>) /\ << <<n>> >> # <<>> /\ LastIs(<< <<n>> >>, <<n>>)
         /\ Marks(<< <<n>> >>) = MarkOf(n)
<1> DEFINE x == <<n>>
<1>1. /\ x \in LabStep /\ x \notin Connects
      /\ x \in Makes <=> n = "dial"
      /\ x \in RingsHeard <=> n = "rings"
      /\ x \in OutOfCall <=> n = "not in call"
  BY PlainKind
<1> HIDE DEF x
<1>2. /\ Fit(<<x>>) /\ <<x>> # <<>> /\ LastIs(<<x>>, x)
      /\ "make" \in Marks(<<x>>) <=> n = "dial"
      /\ "ring" \in Marks(<<x>>) <=> n = "rings"
      /\ "out" \in Marks(<<x>>) <=> n = "not in call"
      /\ "connect" \notin Marks(<<x>>)
  BY <1>1, OneFit
<1>3. Marks(<<x>>) = MarkOf(n)
  BY <1>2, MarksAre DEF MarkOf
<1> QED BY <1>2, <1>3 DEF x

(* A sequence that may be the rest of a script, with these marks.          *)
Kind(s, Ms) == Fit(s) /\ Marks(s) = Ms
Joins(u, s, t) == u = s \o t
MayFollow(N, Ms) == ("make" \in N => Ms = {}) /\ ("connect" \in N => "out" \notin Ms)

LEMMA JoinKind ==
  ASSUME NEW s, NEW t, NEW u, NEW Ms, NEW N, Kind(s, Ms), Kind(t, N), Joins(u, s, t), MayFollow(N, Ms)
  PROVE  Kind(u, Ms \union N)
BY JoinFit DEF Kind, Joins, MayFollow

LEMMA JoinPlain ==
  ASSUME NEW s, NEW t, NEW u, NEW Ms, Kind(s, Ms), Kind(t, {}), Joins(u, s, t)
  PROVE  Kind(u, Ms)
<1>1. MayFollow({}, Ms) /\ Ms \union {} = Ms
  BY DEF MayFollow
<1> QED BY <1>1, JoinKind

LEMMA PlainJoin ==
  ASSUME NEW s, NEW t, NEW u, NEW N, Kind(s, {}), Kind(t, N), Joins(u, s, t)
  PROVE  Kind(u, N)
<1>1. MayFollow(N, {}) /\ {} \union N = N
  BY DEF MayFollow
<1> QED BY <1>1, JoinKind

LEMMA AwaitIs ==
  ASSUME NEW d \in X!Domains, NEW q \in {"idle", "calling", "ringing", "connected"}
  PROVE  Kind(X!Await(d, q), IF q = "connected" THEN {"connect"} ELSE {})
BY AwaitFit DEF Kind

LEMMA WordIs ==
  ASSUME NEW n \in {"dial", "offhook", "rings", "accept", "answered", "in call", "not in call",
                    "hang up", "end", "raise"}
  PROVE  Kind(<< <<n>> >>, MarkOf(n))
BY PlainFit DEF Kind

LEMMA WordsAre ==
  /\ Kind(<< <<"dial">> >>, {"make"}) /\ Kind(<< <<"rings">> >>, {"ring"})
  /\ Kind(<< <<"not in call">> >>, {"out"})
  /\ \A n \in {"offhook", "accept", "answered", "in call", "hang up", "end", "raise"} :
       Kind(<< <<n>> >>, {})
BY WordIs DEF MarkOf

LEMMA AwaitsAre ==
  ASSUME NEW d \in X!Domains
  PROVE  /\ Kind(X!Await(d, "idle"), {}) /\ Kind(X!Await(d, "calling"), {})
         /\ Kind(X!Await(d, "ringing"), {}) /\ Kind(X!Await(d, "connected"), {"connect"})
         /\ X!Await(d, "idle") # <<>> /\ LastIs(X!Await(d, "idle"), <<"await", d, "idle">>)
BY AwaitIs, AwaitFit

LEMMA OffersAre ==
  ASSUME NEW d \in X!Domains
  PROVE  Kind(<< <<"offer", d>> >>, {"make"}) /\ Kind(<< <<"release", d>> >>, {})
BY OfferFit DEF Kind

LEMMA EmptyIs == Kind(<<>>, {})
BY EmptyFit DEF Kind

LEMMA SameSequence ==
  ASSUME NEW S, NEW p \in Seq(S), NEW q \in Seq(S), Len(p) = Len(q), \A i \in 1 .. Len(p) : p[i] = q[i]
  PROVE  p = q
OBVIOUS

LEMMA PairJoins == ASSUME NEW a, NEW b PROVE Joins(<<a, b>>, <<a>>, <<b>>)
<1> DEFINE S == {a, b}
<1>1. /\ <<a>> \in Seq(S) /\ <<b>> \in Seq(S) /\ <<a, b>> \in Seq(S)
      /\ Len(<<a>>) = 1 /\ Len(<<b>>) = 1 /\ Len(<<a, b>>) = 2
      /\ <<a>>[1] = a /\ <<b>>[1] = b /\ <<a, b>>[1] = a /\ <<a, b>>[2] = b
  OBVIOUS
<1> DEFINE q == <<a>> \o <<b>>
<1>2. q \in Seq(S) /\ Len(q) = 2
  BY <1>1, ConcatParts
<1>3. q[1] = a /\ q[2] = b
  <2>1. 1 \in 1 .. Len(<<a>>) /\ 1 \in 1 .. Len(<<b>>) /\ Len(<<a>>) + 1 = 2
    BY <1>1
  <2>2. q[1] = <<a>>[1]
    BY <1>1, <2>1, ConcatParts
  <2>3. q[Len(<<a>>) + 1] = <<b>>[1]
    BY <1>1, <2>1, ConcatParts
  <2> QED BY <1>1, <2>1, <2>2, <2>3
<1> HIDE DEF q
<1>4. q = <<a, b>>
  <2>1. \A i \in 1 .. Len(q) : i = 1 \/ i = 2
    BY <1>2
  <2> QED BY <1>1, <1>2, <1>3, <2>1, SameSequence
<1> QED BY <1>4 DEF Joins, q

LEMMA TripleJoins == ASSUME NEW a, NEW b, NEW c PROVE Joins(<<a, b, c>>, <<a, b>>, <<c>>)
<1> DEFINE S == {a, b, c}
<1>1. /\ <<a, b>> \in Seq(S) /\ <<c>> \in Seq(S) /\ <<a, b, c>> \in Seq(S)
      /\ Len(<<a, b>>) = 2 /\ Len(<<c>>) = 1 /\ Len(<<a, b, c>>) = 3
      /\ <<a, b>>[1] = a /\ <<a, b>>[2] = b /\ <<c>>[1] = c
      /\ <<a, b, c>>[1] = a /\ <<a, b, c>>[2] = b /\ <<a, b, c>>[3] = c
  OBVIOUS
<1> DEFINE q == <<a, b>> \o <<c>>
<1>2. q \in Seq(S) /\ Len(q) = 3
  BY <1>1, ConcatParts
<1>3. q[1] = a /\ q[2] = b /\ q[3] = c
  <2>1. /\ 1 \in 1 .. Len(<<a, b>>) /\ 2 \in 1 .. Len(<<a, b>>) /\ 1 \in 1 .. Len(<<c>>)
        /\ Len(<<a, b>>) + 1 = 3
    BY <1>1
  <2>2. q[1] = <<a, b>>[1] /\ q[2] = <<a, b>>[2]
    BY <1>1, <2>1, ConcatParts
  <2>3. q[Len(<<a, b>>) + 1] = <<c>>[1]
    BY <1>1, <2>1, ConcatParts
  <2> QED BY <1>1, <2>1, <2>2, <2>3
<1> HIDE DEF q
<1>4. q = <<a, b, c>>
  <2>1. \A i \in 1 .. Len(q) : i = 1 \/ i = 2 \/ i = 3
    BY <1>2
  <2> QED BY <1>1, <1>2, <1>3, <2>1, SameSequence
<1> QED BY <1>4 DEF Joins, q

LEMMA DialIs == Kind(X!Dial, {"make"})
BY WordsAre, PairJoins, JoinPlain DEF X!Dial

LEMMA AnswerIs == Kind(X!Answer, {"ring"})
<1>1. Kind(<< <<"rings">>, <<"accept">> >>, {"ring"})
  BY WordsAre, PairJoins, JoinPlain
<1>2. Joins(<< <<"rings">>, <<"accept">>, <<"answered">> >>, << <<"rings">>, <<"accept">> >>, << <<"answered">> >>)
  BY TripleJoins
<1>3. Kind(<< <<"answered">> >>, {})
  BY WordsAre
<1> QED BY <1>1, <1>2, <1>3, JoinPlain DEF X!Answer

LEMMA HangUpIs == Kind(<< <<"hang up">>, <<"not in call">> >>, {"out"})
<1>1. Kind(<< <<"hang up">> >>, {}) /\ Kind(<< <<"not in call">> >>, {"out"})
  BY WordsAre
<1>2. Joins(<< <<"hang up">>, <<"not in call">> >>, << <<"hang up">> >>, << <<"not in call">> >>)
  BY PairJoins
<1> QED BY <1>1, <1>2, PlainJoin

LEMMA EndIs ==
  ASSUME NEW d \in X!Domains, NEW side
  PROVE  Kind(X!End(d, side), {"out"})
<1>1. CASE side = "remote"
  <2>1. Kind(<< <<"release", d>>, <<"not in call">> >>, {"out"})
    <3>1. Kind(<< <<"release", d>> >>, {}) /\ Kind(<< <<"not in call">> >>, {"out"})
      BY WordsAre, OffersAre
    <3>2. Joins(<< <<"release", d>>, <<"not in call">> >>, << <<"release", d>> >>, << <<"not in call">> >>)
      BY PairJoins
    <3> QED BY <3>1, <3>2, PlainJoin
  <2> QED BY <1>1, <2>1 DEF X!End
<1>2. CASE side # "remote"
  BY <1>2, HangUpIs DEF X!End
<1> QED BY <1>1, <1>2

LEMMA MoIs ==
  ASSUME NEW d \in X!Domains, NEW e \in BOOLEAN, NEW side
  PROVE  /\ Kind(X!Mo(d, e, side), ({"make"} \union {"connect"}) \union {"out"})
         /\ X!Mo(d, e, side) # <<>> /\ LastIs(X!Mo(d, e, side), <<"await", d, "idle">>)
<1> DEFINE s0 == X!IfSo(d = "ims", X!Await(d, "calling"))
           s1 == X!IfSo(d = "cs" \/ ~e, X!Await(d, "idle"))
           s2 == s1 \o X!Dial
           s3 == s2 \o s0
           s4 == s3 \o X!Await(d, "connected")
           s5 == s4 \o << <<"in call">> >>
           s6 == s5 \o X!End(d, side)
           s7 == s6 \o X!Await(d, "idle")
<1>1. X!Mo(d, e, side) = s7
  BY DEF X!Mo
<1>2. Kind(s0, {}) /\ Kind(s1, {})
  BY AwaitsAre, EmptyIs DEF X!IfSo
<1>3. /\ Joins(s2, s1, X!Dial) /\ Joins(s3, s2, s0) /\ Joins(s4, s3, X!Await(d, "connected"))
      /\ Joins(s5, s4, << <<"in call">> >>) /\ Joins(s6, s5, X!End(d, side))
      /\ Joins(s7, s6, X!Await(d, "idle"))
  BY DEF Joins
<1> HIDE DEF s0, s1, s2, s3, s4, s5, s6, s7
<1>4. Kind(s2, {"make"})
  BY <1>2, <1>3, DialIs, PlainJoin
<1>5. Kind(s3, {"make"})
  BY <1>2, <1>3, <1>4, JoinPlain
<1>6. Kind(s4, {"make"} \union {"connect"})
  BY <1>3, <1>5, AwaitsAre, JoinKind DEF MayFollow
<1>7. Kind(s5, {"make"} \union {"connect"})
  BY <1>3, <1>6, WordsAre, JoinPlain
<1>8. Kind(s6, ({"make"} \union {"connect"}) \union {"out"})
  BY <1>3, <1>7, EndIs, JoinKind DEF MayFollow
<1>9. Kind(s7, ({"make"} \union {"connect"}) \union {"out"})
  BY <1>3, <1>8, AwaitsAre, JoinPlain
<1>10. LastIs(s7, <<"await", d, "idle">>) /\ s7 # <<>>
  BY <1>3, <1>8, AwaitsAre, LastConcat DEF Fit, Joins, Kind
<1> QED BY <1>1, <1>9, <1>10

LEMMA MakeIs ==
  ASSUME NEW r \in BOOLEAN, NEW mo \in BOOLEAN
  PROVE  \E Ms \in SUBSET {"make", "connect", "ring"} :
           Kind(X!Make(r, mo), Ms) /\ "connect" \in Ms /\ X!Make(r, mo) # <<>>
<1> DEFINE s0 == X!IfSo(r, X!Await("ims", "idle"))
           m1 == X!Dial \o X!Await("ims", "calling")
           t1 == << <<"offer", "ims">> >> \o X!Await("ims", "ringing")
           t2 == t1 \o X!Answer
           s1 == IF mo THEN m1 ELSE t2
           s2 == s0 \o s1
           s3 == s2 \o X!Await("ims", "connected")
<1>0. "ims" \in X!Domains
  BY DEF X!Domains
<1>1. X!Make(r, mo) = s3
  BY DEF X!Make
<1>2. Kind(s0, {})
  BY <1>0, AwaitsAre, EmptyIs DEF X!IfSo
<1>3. /\ Joins(m1, X!Dial, X!Await("ims", "calling"))
      /\ Joins(t1, << <<"offer", "ims">> >>, X!Await("ims", "ringing")) /\ Joins(t2, t1, X!Answer)
      /\ Joins(s2, s0, s1) /\ Joins(s3, s2, X!Await("ims", "connected"))
  BY DEF Joins
<1>4. s1 = m1 \/ s1 = t2
  OBVIOUS
<1> HIDE DEF s0, m1, t1, t2, s1, s2, s3
<1>5. Kind(m1, {"make"})
  BY <1>0, <1>3, DialIs, AwaitsAre, JoinPlain
<1>6. Kind(t1, {"make"})
  BY <1>0, <1>3, OffersAre, AwaitsAre, JoinPlain
<1>7. Kind(t2, {"make"} \union {"ring"})
  BY <1>3, <1>6, AnswerIs, JoinKind DEF MayFollow
<1>8. PICK Ms \in {{"make"}, {"make"} \union {"ring"}} : Kind(s1, Ms)
  BY <1>4, <1>5, <1>7
<1>9. Kind(s2, Ms)
  BY <1>2, <1>3, <1>8, PlainJoin
<1>10. Kind(s3, Ms \union {"connect"})
  <2>1. MayFollow({"connect"}, Ms)
    BY DEF MayFollow
  <2>2. Kind(X!Await("ims", "connected"), {"connect"})
    BY <1>0, AwaitsAre
  <2> QED BY <1>3, <1>9, <2>1, <2>2, JoinKind
<1>11. s3 # <<>>
  <2>1. /\ s2 \in Seq(LabStep) /\ X!Await("ims", "connected") \in Seq(LabStep)
        /\ X!Await("ims", "connected") # <<>>
        /\ LastIs(X!Await("ims", "connected"), <<"await", "ims", "connected">>)
    BY <1>0, <1>9, AwaitFit DEF Kind, Fit
  <2> QED BY <1>3, <2>1, LastConcat DEF Joins
<1> QED BY <1>1, <1>10, <1>11

LEMMA ToCsIs ==
  ASSUME NEW r \in BOOLEAN, NEW k \in BOOLEAN, NEW i \in BOOLEAN, NEW mo \in BOOLEAN, NEW side
  PROVE  \E Ms \in SUBSET {"make", "connect", "ring", "out"} :
           /\ Kind(X!ToCs(r, k, i, mo, side), Ms) /\ "connect" \in Ms /\ "out" \in Ms
           /\ X!ToCs(r, k, i, mo, side) # <<>>
           /\ LastIs(X!ToCs(r, k, i, mo, side), <<"await", "cs", "idle">>)
<1> DEFINE p1 == X!IfSo(r, X!Await("ims", "idle"))
           p2 == IF mo THEN X!Dial ELSE << <<"offer", "ims">> >>
           p3 == X!IfSo(k, X!Await("ims", IF mo THEN "calling" ELSE "ringing"))
           p4 == X!IfSo(k /\ i, X!Await("ims", "connected"))
           p5 == X!IfSo(~mo, X!Answer)
           s1 == p1 \o X!Await("cs", "idle")
           s2 == s1 \o p2
           s3 == s2 \o p3
           s4 == s3 \o p4
           s5 == s4 \o p5
           s6 == s5 \o X!Await("cs", "connected")
           s7 == s6 \o << <<"in call">> >>
           s8 == s7 \o X!End("cs", side)
           s9 == s8 \o X!Await("cs", "idle")
<1>0. "ims" \in X!Domains /\ "cs" \in X!Domains
  BY DEF X!Domains
<1>1. X!ToCs(r, k, i, mo, side) = s9
  BY DEF X!ToCs
<1>2. /\ Kind(p1, {}) /\ Kind(p2, {"make"}) /\ Kind(p3, {})
      /\ Kind(p4, {}) \/ Kind(p4, {"connect"})
      /\ Kind(p5, {}) \/ Kind(p5, {"ring"})
  <2>1. Kind(p1, {})
    BY <1>0, AwaitsAre, EmptyIs DEF X!IfSo
  <2>2. Kind(p2, {"make"})
    BY <1>0, DialIs, OffersAre
  <2>3. Kind(p3, {})
    BY <1>0, AwaitsAre, EmptyIs DEF X!IfSo
  <2>4. Kind(p4, {}) \/ Kind(p4, {"connect"})
    BY <1>0, AwaitsAre, EmptyIs DEF X!IfSo
  <2>5. Kind(p5, {}) \/ Kind(p5, {"ring"})
    BY AnswerIs, EmptyIs DEF X!IfSo
  <2> QED BY <2>1, <2>2, <2>3, <2>4, <2>5
<1>3. /\ Joins(s1, p1, X!Await("cs", "idle")) /\ Joins(s2, s1, p2) /\ Joins(s3, s2, p3)
      /\ Joins(s4, s3, p4) /\ Joins(s5, s4, p5) /\ Joins(s6, s5, X!Await("cs", "connected"))
      /\ Joins(s7, s6, << <<"in call">> >>) /\ Joins(s8, s7, X!End("cs", side))
      /\ Joins(s9, s8, X!Await("cs", "idle"))
  BY DEF Joins
<1> HIDE DEF p1, p2, p3, p4, p5, s1, s2, s3, s4, s5, s6, s7, s8, s9
<1>4. Kind(s1, {})
  BY <1>0, <1>2, <1>3, AwaitsAre, PlainJoin
<1>5. Kind(s2, {"make"})
  BY <1>2, <1>3, <1>4, PlainJoin
<1>6. Kind(s3, {"make"})
  BY <1>2, <1>3, <1>5, JoinPlain
<1>7. PICK M4 \in SUBSET {"make", "connect"} : Kind(s4, M4)
  <2>1. CASE Kind(p4, {})
    BY <1>3, <1>6, <2>1, JoinPlain
  <2>2. CASE Kind(p4, {"connect"})
    <3>1. Kind(s4, {"make"} \union {"connect"})
      BY <1>3, <1>6, <2>2, JoinKind DEF MayFollow
    <3> QED BY <3>1
  <2> QED BY <1>2, <2>1, <2>2
<1>8. PICK M5 \in SUBSET {"make", "connect", "ring"} : Kind(s5, M5)
  <2>1. CASE Kind(p5, {})
    BY <1>3, <1>7, <2>1, JoinPlain
  <2>2. CASE Kind(p5, {"ring"})
    <3>1. Kind(s5, M4 \union {"ring"})
      BY <1>3, <1>7, <2>2, JoinKind DEF MayFollow
    <3> QED BY <3>1
  <2> QED BY <1>2, <2>1, <2>2
<1>9. Kind(s6, M5 \union {"connect"})
  <2>1. MayFollow({"connect"}, M5) /\ Kind(X!Await("cs", "connected"), {"connect"})
    BY <1>0, AwaitsAre DEF MayFollow
  <2> QED BY <1>3, <1>8, <2>1, JoinKind
<1>10. Kind(s7, M5 \union {"connect"})
  BY <1>3, <1>9, WordsAre, JoinPlain
<1>11. Kind(s8, (M5 \union {"connect"}) \union {"out"})
  <2>1. MayFollow({"out"}, M5 \union {"connect"}) /\ Kind(X!End("cs", side), {"out"})
    BY <1>0, EndIs DEF MayFollow
  <2> QED BY <1>3, <1>10, <2>1, JoinKind
<1>12. Kind(s9, (M5 \union {"connect"}) \union {"out"})
  BY <1>0, <1>3, <1>11, AwaitsAre, JoinPlain
<1>13. LastIs(s9, <<"await", "cs", "idle">>) /\ s9 # <<>>
  <2>1. /\ s8 \in Seq(LabStep) /\ X!Await("cs", "idle") \in Seq(LabStep) /\ X!Await("cs", "idle") # <<>>
        /\ LastIs(X!Await("cs", "idle"), <<"await", "cs", "idle">>)
    BY <1>0, <1>11, AwaitsAre DEF Fit, Kind
  <2> QED BY <1>3, <2>1, LastConcat DEF Joins
<1> QED BY <1>1, <1>12, <1>13

LEMMA HoIs ==
  ASSUME NEW r \in BOOLEAN, NEW mo \in BOOLEAN
  PROVE  \E Ms \in SUBSET {"make", "connect", "ring"} :
           /\ Kind(X!Ho(r, mo), Ms) /\ "connect" \in Ms
           /\ X!Ho(r, mo) # <<>> /\ LastIs(X!Ho(r, mo), <<"raise">>)
<1>1. Joins(X!Ho(r, mo), X!Make(r, mo), << <<"raise">> >>)
  BY DEF Joins, X!Ho
<1>2. PICK Ms \in SUBSET {"make", "connect", "ring"} : Kind(X!Make(r, mo), Ms) /\ "connect" \in Ms
  BY MakeIs
<1>3. Kind(<< <<"raise">> >>, {}) /\ << <<"raise">> >> # <<>> /\ LastIs(<< <<"raise">> >>, <<"raise">>)
  BY WordsAre, PlainFit
<1>4. Kind(X!Ho(r, mo), Ms)
  BY <1>1, <1>2, <1>3, JoinPlain
<1>5. X!Make(r, mo) \in Seq(LabStep) /\ << <<"raise">> >> \in Seq(LabStep)
  BY <1>2, <1>3 DEF Kind, Fit
<1>6. X!Ho(r, mo) # <<>> /\ LastIs(X!Ho(r, mo), <<"raise">>)
  BY <1>1, <1>3, <1>5, LastConcat DEF Joins
<1> QED BY <1>2, <1>4, <1>6

LEMMA MtIs ==
  ASSUME NEW side
  PROVE  Kind(X!Mt(side), {"make"} \union {"ring"}) /\ X!Mt(side) # <<>>
<1> DEFINE x == IF side = "remote" THEN <<"release", "cs">> ELSE <<"end">>
           y == << <<"in call">>, x >>
           z == << <<"in call">>, x, <<"end">> >>
           s1 == X!Await("cs", "idle") \o << <<"offer", "cs">> >>
           s2 == s1 \o X!Answer
           s3 == s2 \o z
<1>0. "cs" \in X!Domains
  BY DEF X!Domains
<1>1. X!Mt(side) = s3
  BY DEF X!Mt
<1>2. Kind(<<x>>, {}) /\ Kind(<< <<"in call">> >>, {}) /\ Kind(<< <<"end">> >>, {})
  BY <1>0, WordsAre, OffersAre
<1>3. Joins(y, << <<"in call">> >>, <<x>>) /\ Joins(z, y, << <<"end">> >>)
  BY PairJoins, TripleJoins
<1>4. /\ Joins(s1, X!Await("cs", "idle"), << <<"offer", "cs">> >>) /\ Joins(s2, s1, X!Answer)
      /\ Joins(s3, s2, z)
  BY DEF Joins
<1>5. z # <<>> /\ LastIs(z, <<"end">>)
  BY DEF LastIs
<1> HIDE DEF x, y, z, s1, s2, s3
<1>6. Kind(y, {})
  BY <1>2, <1>3, JoinPlain
<1>7. Kind(z, {})
  BY <1>2, <1>3, <1>6, JoinPlain
<1>8. Kind(s1, {"make"})
  BY <1>0, <1>4, AwaitsAre, OffersAre, PlainJoin
<1>9. Kind(s2, {"make"} \union {"ring"})
  BY <1>4, <1>8, AnswerIs, JoinKind DEF MayFollow
<1>10. Kind(s3, {"make"} \union {"ring"})
  BY <1>4, <1>7, <1>9, JoinPlain
<1>11. s2 \in Seq(LabStep) /\ z \in Seq(LabStep)
  BY <1>7, <1>9 DEF Kind, Fit
<1>12. s3 # <<>>
  BY <1>4, <1>5, <1>11, LastConcat DEF Joins
<1> QED BY <1>1, <1>10, <1>12

TearDownScript == << <<"hang up">>, <<"not in call">> >> \o X!Await("ims", "idle")

LEMMA TearDownIs ==
  /\ Kind(TearDownScript, {"out"}) /\ TearDownScript # <<>>
  /\ LastIs(TearDownScript, <<"await", "ims", "idle">>)
<1>1. Joins(TearDownScript, << <<"hang up">>, <<"not in call">> >>, X!Await("ims", "idle"))
  BY DEF TearDownScript, Joins
<1>2. /\ Kind(X!Await("ims", "idle"), {}) /\ X!Await("ims", "idle") # <<>>
      /\ LastIs(X!Await("ims", "idle"), <<"await", "ims", "idle">>)
  BY AwaitsAre DEF X!Domains
<1>3. Kind(<< <<"hang up">>, <<"not in call">> >>, {"out"})
  BY HangUpIs
<1>4. Kind(TearDownScript, {"out"})
  BY <1>1, <1>2, <1>3, JoinPlain
<1>5. << <<"hang up">>, <<"not in call">> >> \in Seq(LabStep) /\ X!Await("ims", "idle") \in Seq(LabStep)
  BY <1>2, <1>3 DEF Kind, Fit
<1> QED BY <1>1, <1>2, <1>4, <1>5, LastConcat DEF Joins

(* What Begin finds in Scripts.                                            *)
RightFor(o, s, Ms) ==
  /\ Kind(s, Ms) /\ s # <<>>
  /\ o \in ByConnection => "connect" \in Ms
  /\ o = "mt" => "ring" \in Ms
  /\ o \in TearingDown => "out" \in Ms /\ LastIs(s, <<"await", BoxEnd(o), "idle">>)
  /\ o = "ho" => LastIs(s, <<"raise">>)
  /\ o = "tear down" => "make" \notin Ms

LEMMA MoImsScripts ==
  ASSUME NEW s \in X!Scripts("mo ims")
  PROVE  \E e \in BOOLEAN, side \in X!Sides : s = X!Mo("ims", e, side)
BY DEF X!Scripts

LEMMA MoCsScripts == X!Scripts("mo cs") = {X!Mo("cs", FALSE, side) : side \in X!Sides}
BY DEF X!Scripts

LEMMA MakeScripts == X!Scripts("make") = {X!Make(r, m) : r, m \in BOOLEAN}
BY DEF X!Scripts

LEMMA ToCsScripts ==
  ASSUME NEW s \in X!Scripts("to cs")
  PROVE  \E r, c, i, m \in BOOLEAN, side \in X!Sides : s = X!ToCs(r, c, i, m, side)
BY DEF X!Scripts

LEMMA MtScripts == X!Scripts("mt") = {X!Mt(side) : side \in X!Sides}
BY DEF X!Scripts

LEMMA HoScripts == X!Scripts("ho") = {X!Ho(r, m) : r, m \in BOOLEAN}
BY DEF X!Scripts

LEMMA TearDownScripts == X!Scripts("tear down") = {TearDownScript}
BY DEF X!Scripts, TearDownScript

LEMMA ScriptsRight ==
  ASSUME NEW o \in X!Helpers, NEW s \in X!Scripts(o)
  PROVE  \E Ms : RightFor(o, s, Ms)
<1>0. "ims" \in X!Domains /\ "cs" \in X!Domains
  BY DEF X!Domains
<1>1. CASE o = "mo ims"
  <2>1. PICK e \in BOOLEAN, side \in X!Sides : s = X!Mo("ims", e, side)
    BY <1>1, MoImsScripts
  <2>2. /\ Kind(s, ({"make"} \union {"connect"}) \union {"out"}) /\ s # <<>>
        /\ LastIs(s, <<"await", "ims", "idle">>)
    BY <1>0, <2>1, MoIs
  <2>3. RightFor(o, s, ({"make"} \union {"connect"}) \union {"out"})
    BY <1>1, <2>2 DEF RightFor, ByConnection, TearingDown, BoxEnd
  <2> QED BY <2>3
<1>2. CASE o = "mo cs"
  <2>1. PICK side \in X!Sides : s = X!Mo("cs", FALSE, side)
    BY <1>2, MoCsScripts
  <2>2. /\ Kind(s, ({"make"} \union {"connect"}) \union {"out"}) /\ s # <<>>
        /\ LastIs(s, <<"await", "cs", "idle">>)
    BY <1>0, <2>1, MoIs
  <2>3. RightFor(o, s, ({"make"} \union {"connect"}) \union {"out"})
    BY <1>2, <2>2 DEF RightFor, ByConnection, TearingDown, BoxEnd
  <2> QED BY <2>3
<1>3. CASE o = "make"
  <2>1. PICK r \in BOOLEAN, m \in BOOLEAN : s = X!Make(r, m)
    BY <1>3, MakeScripts
  <2>2. PICK Ms \in SUBSET {"make", "connect", "ring"} : Kind(s, Ms) /\ "connect" \in Ms /\ s # <<>>
    BY <2>1, MakeIs
  <2>3. RightFor(o, s, Ms)
    BY <1>3, <2>2 DEF RightFor, TearingDown
  <2> QED BY <2>3
<1>4. CASE o = "to cs"
  <2>1. PICK r \in BOOLEAN, c \in BOOLEAN, i \in BOOLEAN, m \in BOOLEAN, side \in X!Sides :
          s = X!ToCs(r, c, i, m, side)
    BY <1>4, ToCsScripts
  <2>2. PICK Ms \in SUBSET {"make", "connect", "ring", "out"} :
          /\ Kind(s, Ms) /\ "connect" \in Ms /\ "out" \in Ms /\ s # <<>>
          /\ LastIs(s, <<"await", "cs", "idle">>)
    BY <2>1, ToCsIs
  <2>3. RightFor(o, s, Ms)
    BY <1>4, <2>2 DEF RightFor, BoxEnd
  <2> QED BY <2>3
<1>5. CASE o = "mt"
  <2>1. PICK side \in X!Sides : s = X!Mt(side)
    BY <1>5, MtScripts
  <2>2. Kind(s, {"make"} \union {"ring"}) /\ s # <<>>
    BY <2>1, MtIs
  <2>3. RightFor(o, s, {"make"} \union {"ring"})
    BY <1>5, <2>2 DEF RightFor, ByConnection, TearingDown
  <2> QED BY <2>3
<1>6. CASE o = "ho"
  <2>1. PICK r \in BOOLEAN, m \in BOOLEAN : s = X!Ho(r, m)
    BY <1>6, HoScripts
  <2>2. PICK Ms \in SUBSET {"make", "connect", "ring"} :
          Kind(s, Ms) /\ "connect" \in Ms /\ s # <<>> /\ LastIs(s, <<"raise">>)
    BY <2>1, HoIs
  <2>3. RightFor(o, s, Ms)
    BY <1>6, <2>2 DEF RightFor, TearingDown
  <2> QED BY <2>3
<1>7. CASE o = "tear down"
  <2>1. s = TearDownScript
    BY <1>7, TearDownScripts
  <2>2. Kind(s, {"out"}) /\ s # <<>> /\ LastIs(s, <<"await", "ims", "idle">>)
    BY <2>1, TearDownIs
  <2>3. RightFor(o, s, {"out"})
    BY <1>7, <2>2 DEF RightFor, ByConnection, TearingDown, BoxEnd
  <2> QED BY <2>3
<1> QED BY <1>1, <1>2, <1>3, <1>4, <1>5, <1>6, <1>7 DEF X!Helpers

LEMMA ScriptIs ==
  ASSUME NEW o \in X!Helpers, NEW s \in X!Scripts(o)
  PROVE  /\ s \in Seq(LabStep) /\ Ordered(s) /\ s # <<>>
         /\ o \in ByConnection => Has(s, Connects)
         /\ o = "mt" => Has(s, RingsHeard)
         /\ o \in TearingDown => Has(s, OutOfCall) /\ LastIs(s, <<"await", BoxEnd(o), "idle">>)
         /\ o = "ho" => LastIs(s, <<"raise">>)
         /\ o = "tear down" => ~Has(s, Makes)
<1>1. PICK Ms : RightFor(o, s, Ms)
  BY ScriptsRight
<1> QED BY <1>1, MarksAre DEF RightFor, Kind, Fit

-----------------------------------------------------------------------------
(* What the first step left is.                                            *)
Words == {"dial", "offhook", "rings", "accept", "answered", "in call", "not in call", "hang up", "end",
          "raise"}

LEMMA StepShape ==
  ASSUME NEW x \in LabStep
  PROVE  \/ \E d \in X!Domains : \E q \in {"idle", "calling", "ringing", "connected"} :
              x = <<"await", d, q>> /\ x[1] = "await" /\ x[2] = d /\ x[3] = q
         \/ \E n \in {"release", "offer"} : \E d \in X!Domains :
              x = <<n, d>> /\ x[1] = n /\ x[2] = d
         \/ \E n \in Words : x = <<n>> /\ x[1] = n
<1>1. CASE x \in {"await"} \X X!Domains \X {"idle", "calling", "ringing", "connected"}
  <2>1. PICK w \in {"await"}, d \in X!Domains, q \in {"idle", "calling", "ringing", "connected"} :
          x = <<w, d, q>>
    BY <1>1
  <2>2. x[1] = w /\ x[2] = d /\ x[3] = q /\ w = "await"
    BY <2>1
  <2>3. x = <<"await", d, q>>
    BY <2>1, <2>2
  <2> QED BY <2>2, <2>3
<1>2. CASE x \in {"release", "offer"} \X X!Domains
  <2>1. PICK n \in {"release", "offer"}, d \in X!Domains : x = <<n, d>>
    BY <1>2
  <2>2. x[1] = n /\ x[2] = d
    BY <2>1
  <2> QED BY <2>1, <2>2
<1>3. CASE x \in {<<"dial">>, <<"offhook">>, <<"rings">>, <<"accept">>, <<"answered">>, <<"in call">>,
                  <<"not in call">>, <<"hang up">>, <<"end">>, <<"raise">>}
  <2>1. PICK n \in Words : x = <<n>>
    BY <1>3 DEF Words
  <2>2. x[1] = n
    BY <2>1
  <2> QED BY <2>1, <2>2
<1> QED BY <1>1, <1>2, <1>3 DEF LabStep

LEMMA StepMarks ==
  ASSUME NEW x \in LabStep
  PROVE  /\ x \in Makes <=> x[1] \in {"dial", "offer"}
         /\ x \in Connects <=> (x[1] = "await" /\ x[3] = "connected")
         /\ x \in RingsHeard <=> x[1] = "rings"
         /\ x \in OutOfCall <=> x[1] = "not in call"
<1>1. ASSUME NEW d \in X!Domains, NEW q \in {"idle", "calling", "ringing", "connected"},
             x = <<"await", d, q>>, x[1] = "await", x[3] = q
      PROVE  /\ x \notin Makes /\ x \notin RingsHeard /\ x \notin OutOfCall
             /\ x \in Connects <=> x[3] = "connected"
  BY <1>1, AwaitKind
<1>2. ASSUME NEW d \in X!Domains, x = <<"offer", d>>
      PROVE  x \in Makes /\ x \notin Connects /\ x \notin RingsHeard /\ x \notin OutOfCall
  BY <1>2, SideKind
<1>3. ASSUME NEW d \in X!Domains, x = <<"release", d>>
      PROVE  x \notin Makes /\ x \notin Connects /\ x \notin RingsHeard /\ x \notin OutOfCall
  BY <1>3, SideKind
<1>4. ASSUME NEW n \in Words, x = <<n>>
      PROVE  /\ x \notin Connects /\ (x \in Makes <=> n = "dial") /\ (x \in RingsHeard <=> n = "rings")
             /\ x \in OutOfCall <=> n = "not in call"
  <2>1. /\ <<n>> \notin Connects /\ (<<n>> \in Makes <=> n = "dial")
        /\ (<<n>> \in RingsHeard <=> n = "rings") /\ (<<n>> \in OutOfCall <=> n = "not in call")
    BY PlainKind DEF Words
  <2> QED BY <1>4, <2>1
<1>5. CASE \E d \in X!Domains : \E q \in {"idle", "calling", "ringing", "connected"} :
             x = <<"await", d, q>> /\ x[1] = "await" /\ x[2] = d /\ x[3] = q
  BY <1>1, <1>5
<1>6. CASE \E n \in {"release", "offer"} : \E d \in X!Domains : x = <<n, d>> /\ x[1] = n /\ x[2] = d
  BY <1>2, <1>3, <1>6
<1>7. CASE \E n \in Words : x = <<n>> /\ x[1] = n
  BY <1>4, <1>7 DEF Words
<1> QED BY <1>5, <1>6, <1>7, StepShape

(* A helper goes on to its next step, or returns True.                     *)
LEMMA GoesOn ==
  ASSUME Boxed, at = "running", X!Goes
  PROVE  /\ script # <<>> /\ script[1] \in LabStep /\ script' = Tail(script)
         /\ script' \in Seq(LabStep) /\ Ordered(script') /\ UNCHANGED <<op, busy>>
         /\ at' \in {"running", "idle"} /\ (at' = "running" <=> script' # <<>>)
         /\ ok' \in BOOLEAN /\ (ok' <=> script' = <<>>)
         /\ \A K : Has(script, K) <=> script[1] \in K \/ Has(script', K)
         /\ (script[1] \in Milestones => ~Has(script', Makes))
         /\ (script[1] \in OutOfCall => ~Has(script', Connects))
         /\ op \in TearingDown =>
              /\ LastIs(script', <<"await", BoxEnd(op), "idle">>)
              /\ script' = <<>> => script[1] = <<"await", BoxEnd(op), "idle">>
         /\ op = "ho" => LastIs(script', <<"raise">>) /\ (script' = <<>> => script[1] = <<"raise">>)
         /\ op # "none"
<1>1. script # <<>> /\ script \in Seq(LabStep) /\ ~ok /\ Ordered(script) /\ op # "none"
  BY DEF Boxed, Scripted
<1>2. /\ script' = Tail(script) /\ UNCHANGED <<op, busy>>
      /\ IF Len(script) = 1 THEN at' = "idle" /\ ok' = TRUE ELSE at' = at /\ ok' = ok
  BY DEF X!Goes
<1>3. Tail(script) \in Seq(LabStep) /\ script[1] \in LabStep /\ ((Tail(script) = <<>>) <=> (Len(script) = 1))
  BY <1>1, TailParts
<1>4. \A K : Has(script, K) <=> script[1] \in K \/ Has(Tail(script), K)
  BY <1>1, HasTail
<1>5. /\ Never(Tail(script), Milestones, Makes) /\ (script[1] \in Milestones => ~Has(Tail(script), Makes))
      /\ Never(Tail(script), OutOfCall, Connects)
      /\ (script[1] \in OutOfCall => ~Has(Tail(script), Connects))
  BY <1>1, NeverTail DEF Ordered
<1>6. ASSUME op \in TearingDown
      PROVE  /\ LastIs(Tail(script), <<"await", BoxEnd(op), "idle">>)
             /\ Tail(script) = <<>> => script[1] = <<"await", BoxEnd(op), "idle">>
  <2>1. LastIs(script, <<"await", BoxEnd(op), "idle">>)
    BY <1>6 DEF Boxed, Scripted
  <2> QED BY <1>1, <2>1, LastTail
<1>7. ASSUME op = "ho"
      PROVE  LastIs(Tail(script), <<"raise">>) /\ (Tail(script) = <<>> => script[1] = <<"raise">>)
  <2>1. LastIs(script, <<"raise">>)
    BY <1>7 DEF Boxed, Scripted
  <2> QED BY <1>1, <2>1, LastTail
<1>8. /\ at' \in {"running", "idle"} /\ (at' = "running" <=> Tail(script) # <<>>)
      /\ ok' \in BOOLEAN /\ (ok' <=> Tail(script) = <<>>)
  <2>1. CASE Len(script) = 1
    <3>1. at' = "idle" /\ ok' = TRUE /\ Tail(script) = <<>>
      BY <1>2, <1>3, <2>1
    <3> QED BY <3>1
  <2>2. CASE Len(script) # 1
    <3>1. at' = "running" /\ ok' = ok /\ Tail(script) # <<>> /\ ok = FALSE
      BY <1>1, <1>2, <1>3, <2>2 DEF Boxed, Scripted
    <3> QED BY <3>1
  <2> QED BY <2>1, <2>2
<1> QED BY <1>1, <1>2, <1>3, <1>4, <1>5, <1>6, <1>7, <1>8 DEF Ordered

(* A step that makes no call and puts none in the simulator.               *)
Settles ==
  /\ made' = made /\ taken' = taken
  /\ \A c \in X!Calls : /\ ue'[c] \in X!Live => ue[c] \in X!Live
                        /\ ue[c] # "none" => ue'[c] # "none"
                        /\ ue'[c] = "dialing" => ue[c] = "dialing"
  /\ \A d \in X!Domains : box'[d] \in {box[d], X!Idle}

LEMMA SettlesKeeps ==
  ASSUME Boxed, Settles
  PROVE  /\ TakenKnown' /\ (FreshBox => FreshBox') /\ (OnlyMade => OnlyMade') /\ (NoMore => NoMore')
         /\ NoneDialing => NoneDialing'
<1>1. /\ \A d \in X!Domains : box'[d] = box[d] \/ box'[d].state = "idle"
      /\ \A d \in X!Domains : box[d].state # "idle" => box[d].call \in X!Calls
  BY DEF Settles, X!Idle, Boxed, LabTyped
<1>2. TakenKnown'
  BY <1>1 DEF Settles, TakenKnown, Boxed, LabTyped, X!Domains, X!Calls
<1>3. FreshBox => FreshBox'
  BY DEF Settles, FreshBox, X!InCall, X!InCallWith, X!Domains, X!Calls
<1>4. OnlyMade => OnlyMade'
  BY <1>1 DEF Settles, OnlyMade, X!Domains, X!Calls
<1>5. NoMore => NoMore'
  BY <1>1 DEF Settles, NoMore, X!Domains, X!Calls
<1>6. NoneDialing => NoneDialing'
  BY DEF Settles, NoneDialing, X!Calls
<1> QED BY <1>2, <1>3, <1>4, <1>5, <1>6

LEMMA OnwardBoxed ==
  ASSUME Boxed, at = "running", X!Goes, Settles, LabTyped', script[1] \notin Makes,
         script[1] \in Connects /\ op \in ByConnection => busy \/ made \in taken,
         script[1] \in RingsHeard => busy \/ (made \in X!Calls /\ ue'[made] # "none"),
         script[1] \in OutOfCall /\ op \in TearingDown => NoneDialing' /\ (busy \/ NoMore'),
         script[1] = <<"await", BoxEnd(op), "idle">> => box'[BoxEnd(op)] = X!Idle,
         script[1] # <<"raise">>
  PROVE  Boxed'
<1>1. TakenKnown' /\ (FreshBox => FreshBox') /\ (OnlyMade => OnlyMade') /\ (NoMore => NoMore')
      /\ (NoneDialing => NoneDialing')
  BY SettlesKeeps
<1>2. /\ UNCHANGED <<op, busy>> /\ script' \in Seq(LabStep) /\ Ordered(script')
      /\ at' \in {"running", "idle"} /\ (at' = "running" <=> script' # <<>>)
      /\ ok' \in BOOLEAN /\ (ok' <=> script' = <<>>)
      /\ \A K : Has(script, K) <=> script[1] \in K \/ Has(script', K)
      /\ (script[1] \in Milestones => ~Has(script', Makes))
      /\ op # "none"
      /\ op \in TearingDown =>
           /\ LastIs(script', <<"await", BoxEnd(op), "idle">>)
           /\ script' = <<>> => script[1] = <<"await", BoxEnd(op), "idle">>
      /\ op = "ho" => LastIs(script', <<"raise">>) /\ (script' = <<>> => script[1] = <<"raise">>)
  BY GoesOn
<1>3. made' = made /\ taken' = taken
  BY DEF Settles
<1>4. Has(script', Makes) <=> Has(script, Makes)
  BY <1>2
<1>5. OnCourse
  BY DEF OnCourse
<1>6. Scripted'
  BY <1>2, <1>3, <1>4 DEF Boxed, Scripted
<1>7. NoOther'
  BY <1>1, <1>2, <1>4, <1>5 DEF Boxed, NoOther
<1>8. ConnectedTo'
  BY <1>2, <1>3, <1>4, <1>5 DEF Boxed, ConnectedTo, Milestones
<1>9. RangFor'
  <2>1. \A c \in X!Calls : ue[c] # "none" => ue'[c] # "none"
    BY DEF Settles
  <2> QED BY <1>2, <1>3, <1>4, <1>5, <2>1 DEF Boxed, RangFor, Milestones, X!Calls
<1>10. OutFor'
  BY <1>1, <1>2, <1>4, <1>5 DEF Boxed, OutFor, Milestones
<1>11. EndsIdle'
  BY <1>2 DEF EndsIdle
<1> QED BY <1>1, <1>6, <1>7, <1>8, <1>9, <1>10, <1>11 DEF Boxed

-----------------------------------------------------------------------------
(* The phone and the simulator.                                            *)
UeStates == {"none", "dialing", "alerting", "ringing", "active", "ended"}

LEMMA BecomeTyped ==
  ASSUME LabTyped, NEW c \in X!Calls, NEW q \in UeStates, X!Become(c, q)
  PROVE  /\ ue' \in [X!Calls -> UeStates] /\ ue'[c] = q
         /\ \A e \in X!Calls : e # c => ue'[e] = ue[e]
BY DEF LabTyped, X!Become, UeStates

BoxStates == {"idle", "calling", "offered", "ringing", "connected"}

LEMMA SetTyped ==
  ASSUME LabTyped, NEW d \in X!Domains, NEW q \in BoxStates, NEW c \in 0 .. MaxMade, X!Set(d, q, c)
  PROVE  /\ box' \in [X!Domains -> [state : BoxStates, call : 0 .. MaxMade]]
         /\ box'[d].state = q /\ box'[d].call = c
         /\ \A e \in X!Domains : e # d => box'[e] = box[e]
<1>1. box' = [box EXCEPT ![d] = [state |-> q, call |-> c]]
  BY DEF X!Set
<1>2. [state |-> q, call |-> c] \in [state : BoxStates, call : 0 .. MaxMade]
  OBVIOUS
<1>3. box \in [X!Domains -> [state : BoxStates, call : 0 .. MaxMade]]
  BY DEF LabTyped, BoxStates
<1> QED BY <1>1, <1>2, <1>3

LEMMA CallsIn == ASSUME NEW c \in X!Calls PROVE c \in 0 .. MaxMade
BY DEF X!Calls

LEMMA NotIdle ==
  ASSUME LabTyped, NEW d \in X!Domains
  PROVE  /\ box[d].state = "idle" <=> box[d] = X!Idle
         /\ box[d].state # "idle" => box[d].call \in X!Calls
<1>1. box[d] \in [state : BoxStates, call : 0 .. MaxMade]
  BY DEF LabTyped, BoxStates
<1>2. box[d].state = "idle" => box[d].call = 0
  BY DEF LabTyped
<1>3. box[d].state # "idle" => box[d].call \in X!Calls
  BY DEF LabTyped
<1>4. box[d] = [state |-> box[d].state, call |-> box[d].call]
  BY <1>1
<1> QED BY <1>2, <1>3, <1>4 DEF X!Idle

(* What the network does leaves the helper as it is; what is true of the   *)
(* helper stays true when this does.                                       *)
LEMMA NetworkKeeps ==
  ASSUME Boxed, UNCHANGED <<X!helper, busy, made>>, LabTyped', TakenKnown', taken \subseteq taken',
         FreshBox => FreshBox', OnlyMade => OnlyMade', NoneDialing => NoneDialing',
         NoneDialing /\ NoMore => NoMore',
         \A c \in X!Calls : ue[c] # "none" => ue'[c] # "none",
         NoneDialing /\ at = "idle" /\ box[BoxEnd(op)] = X!Idle => box'[BoxEnd(op)] = X!Idle
  PROVE  Boxed'
<1>1. UNCHANGED <<at, op, script, ok, busy, made>>
  BY DEF X!helper
<1>2. Scripted'
  BY <1>1 DEF Boxed, Scripted
<1>3. OnCourse' <=> OnCourse
  BY <1>1 DEF OnCourse
<1>4. NoOther'
  <2>1. Makes' = Makes /\ (Has(script, Makes)' <=> Has(script, Makes))
    BY <1>1 DEF Has, Makes, X!Domains
  <2> SUFFICES ASSUME OnCourse', ~busy' PROVE OnlyMade' /\ ((Has(script, Makes) \/ op = "tear down")' => FreshBox')
    BY DEF NoOther
  <2>2. OnCourse /\ ~busy
    BY <1>1, <1>3
  <2>3. OnlyMade /\ (Has(script, Makes) \/ op = "tear down" => FreshBox)
    BY <2>2 DEF Boxed, NoOther
  <2> QED BY <1>1, <2>1, <2>3
<1>5. ConnectedTo' /\ RangFor'
  BY <1>1, <1>3 DEF Boxed, ConnectedTo, RangFor, X!Calls
<1>6. OutFor'
  BY <1>1, <1>3 DEF Boxed, OutFor
<1>7. EndsIdle'
  <2> SUFFICES ASSUME at = "idle", ok, op \in TearingDown PROVE box'[BoxEnd(op)] = X!Idle
    BY <1>1 DEF EndsIdle
  <2>1. script = <<>>
    BY DEF Boxed, Scripted
  <2>2. NoneDialing
    BY <2>1, EmptyHas DEF Boxed, OutFor, OnCourse
  <2> QED BY <2>2 DEF Boxed, EndsIdle
<1> QED BY <1>2, <1>4, <1>5, <1>6, <1>7 DEF Boxed

LEMMA ReachesBoxed ==
  ASSUME Boxed, NEW d \in X!Domains, NEW c \in X!Calls, X!Reaches(d, c) PROVE Boxed'
<1>1. /\ ue[c] = "dialing" /\ box[d] = X!Idle /\ X!Set(d, "calling", c) /\ X!Become(c, "alerting")
      /\ UNCHANGED <<made, taken, X!helper, busy>>
  BY DEF X!Reaches
<1>2. /\ ue' \in [X!Calls -> UeStates] /\ ue'[c] = "alerting"
      /\ \A e \in X!Calls : e # c => ue'[e] = ue[e]
  BY <1>1, BecomeTyped DEF Boxed, UeStates
<1>3. /\ box' \in [X!Domains -> [state : BoxStates, call : 0 .. MaxMade]]
      /\ box'[d].state = "calling" /\ box'[d].call = c
      /\ \A e \in X!Domains : e # d => box'[e] = box[e]
  BY <1>1, SetTyped, CallsIn DEF Boxed, BoxStates
<1>4. LabTyped'
  BY <1>1, <1>2, <1>3 DEF Boxed, LabTyped, BoxStates, UeStates, X!helper, X!Calls
<1>5. TakenKnown'
  BY <1>1, <1>2, <1>3 DEF Boxed, TakenKnown, LabTyped
<1>6. ~FreshBox /\ ~NoneDialing /\ (OnlyMade => c = made)
  BY <1>1 DEF FreshBox, NoneDialing, OnlyMade, X!InCall, X!InCallWith, X!Live
<1>7. OnlyMade => OnlyMade'
  BY <1>1, <1>2, <1>3, <1>6 DEF OnlyMade, X!Calls, X!Domains
<1>8. \A e \in X!Calls : ue[e] # "none" => ue'[e] # "none"
  BY <1>2
<1> QED BY <1>1, <1>4, <1>5, <1>6, <1>7, <1>8, NetworkKeeps

LEMMA TakesBoxed == ASSUME Boxed, NEW d \in X!Domains, X!Takes(d) PROVE Boxed'
<1> DEFINE c == box[d].call
<1>1. /\ box[d].state = "calling" \/ (box[d].state = "ringing" /\ ue[c] = "active")
      /\ X!Set(d, "connected", c) /\ taken' = taken \union {c} /\ UNCHANGED <<made, ue, X!helper, busy>>
  BY DEF X!Takes
<1>2. c \in X!Calls /\ box[d] # X!Idle
  BY <1>1, NotIdle DEF Boxed
<1>3. /\ box' \in [X!Domains -> [state : BoxStates, call : 0 .. MaxMade]]
      /\ box'[d].state = "connected" /\ box'[d].call = c
      /\ \A e \in X!Domains : e # d => box'[e] = box[e]
  BY <1>1, <1>2, SetTyped, CallsIn DEF Boxed, BoxStates
<1>4. LabTyped'
  BY <1>1, <1>2, <1>3 DEF Boxed, LabTyped, BoxStates, X!helper, X!Calls
<1>5. TakenKnown'
  <2>1. ue[c] # "none"
    BY <1>1 DEF Boxed, TakenKnown
  <2> QED BY <1>1, <1>3, <2>1 DEF Boxed, TakenKnown
<1>6. ~FreshBox
  BY <1>2 DEF FreshBox
<1>7. OnlyMade => OnlyMade'
  BY <1>1, <1>3 DEF OnlyMade, X!Calls, X!Domains
<1>8. (NoMore => NoMore') /\ (NoneDialing => NoneDialing')
  BY <1>1, <1>3 DEF NoMore, NoneDialing, X!Calls, X!Domains
<1>9. box[BoxEnd(op)] = X!Idle => box'[BoxEnd(op)] = X!Idle
  BY <1>2, <1>3 DEF BoxEnd, X!Domains
<1> QED BY <1>1, <1>4, <1>5, <1>6, <1>7, <1>8, <1>9, NetworkKeeps

LEMMA RingsBoxed == ASSUME Boxed, NEW d \in X!Domains, X!Rings(d) PROVE Boxed'
<1> DEFINE c == box[d].call
<1>1. /\ box[d].state = "offered" /\ ue[c] = "none" /\ X!Set(d, "ringing", c) /\ X!Become(c, "ringing")
      /\ UNCHANGED <<made, taken, X!helper, busy>>
  BY DEF X!Rings
<1>2. c \in X!Calls /\ box[d] # X!Idle
  BY <1>1, NotIdle DEF Boxed
<1>3. /\ box' \in [X!Domains -> [state : BoxStates, call : 0 .. MaxMade]]
      /\ box'[d].state = "ringing" /\ box'[d].call = c
      /\ \A e \in X!Domains : e # d => box'[e] = box[e]
  BY <1>1, <1>2, SetTyped, CallsIn DEF Boxed, BoxStates
<1>4. /\ ue' \in [X!Calls -> UeStates] /\ ue'[c] = "ringing"
      /\ \A e \in X!Calls : e # c => ue'[e] = ue[e]
  BY <1>1, <1>2, BecomeTyped DEF Boxed, UeStates
<1>5. LabTyped'
  BY <1>1, <1>2, <1>3, <1>4 DEF Boxed, LabTyped, BoxStates, UeStates, X!helper, X!Calls
<1>6. TakenKnown'
  BY <1>1, <1>2, <1>3, <1>4 DEF Boxed, TakenKnown, LabTyped
<1>7. ~FreshBox /\ ~NoMore /\ (OnlyMade => c = made)
  BY <1>1, <1>2 DEF FreshBox, NoMore, OnlyMade
<1>8. OnlyMade => OnlyMade'
  BY <1>1, <1>3, <1>4, <1>7 DEF OnlyMade, X!Calls, X!Domains
<1>9. NoneDialing => NoneDialing'
  BY <1>4 DEF NoneDialing, X!Calls
<1>10. box[BoxEnd(op)] = X!Idle => box'[BoxEnd(op)] = X!Idle
  BY <1>2, <1>3 DEF BoxEnd, X!Domains
<1>11. \A e \in X!Calls : ue[e] # "none" => ue'[e] # "none"
  BY <1>4
<1> QED BY <1>1, <1>5, <1>6, <1>7, <1>8, <1>9, <1>10, <1>11, NetworkKeeps

LEMMA IsTakenBoxed == ASSUME Boxed, NEW d \in X!Domains, X!IsTaken(d) PROVE Boxed'
<1> DEFINE c == box[d].call
<1>1. /\ box[d].state = "connected" /\ ue[c] = "alerting" /\ X!Become(c, "active")
      /\ UNCHANGED <<made, box, taken, X!helper, busy>>
  BY DEF X!IsTaken
<1>2. c \in X!Calls /\ box[d] # X!Idle
  BY <1>1, NotIdle DEF Boxed
<1>3. /\ ue' \in [X!Calls -> UeStates] /\ ue'[c] = "active"
      /\ \A e \in X!Calls : e # c => ue'[e] = ue[e]
  BY <1>1, <1>2, BecomeTyped DEF Boxed, UeStates
<1>4. LabTyped'
  BY <1>1, <1>3 DEF Boxed, LabTyped, UeStates, X!helper
<1>5. TakenKnown'
  BY <1>1, <1>3, NotIdle DEF Boxed, TakenKnown, LabTyped
<1>6. ~FreshBox /\ ~NoMore /\ (OnlyMade => c = made)
  BY <1>1, <1>2 DEF FreshBox, NoMore, OnlyMade, X!Live
<1>7. OnlyMade => OnlyMade'
  BY <1>1, <1>3, <1>6 DEF OnlyMade, X!Calls
<1>8. NoneDialing => NoneDialing'
  BY <1>3 DEF NoneDialing, X!Calls
<1>9. \A e \in X!Calls : ue[e] # "none" => ue'[e] # "none"
  BY <1>3
<1> QED BY <1>1, <1>4, <1>5, <1>6, <1>7, <1>8, <1>9, NetworkKeeps

LEMMA MovesBoxed == ASSUME Boxed, X!Moves PROVE Boxed'
<1>1. /\ at = "running" /\ box["cs"] = X!Idle /\ box["ims"].state \in {"calling", "ringing", "connected"}
      /\ ue[box["ims"].call] \in X!Live /\ box' = [ims |-> X!Idle, cs |-> box["ims"]]
      /\ UNCHANGED <<made, ue, taken, X!helper, busy>>
  BY DEF X!Moves
<1>2. /\ X!Domains = {"ims", "cs"} /\ box'["ims"] = X!Idle /\ box'["cs"] = box["ims"]
      /\ DOMAIN box' = X!Domains
  BY <1>1 DEF X!Domains
<1>3. box["ims"] # X!Idle /\ box["ims"].call \in X!Calls
  BY <1>1, <1>2, NotIdle DEF Boxed
<1>4. LabTyped'
  <2>1. X!Idle \in [state : BoxStates, call : 0 .. MaxMade]
    BY <1>1, <1>2 DEF Boxed, LabTyped, BoxStates
  <2>2. box["ims"] \in [state : BoxStates, call : 0 .. MaxMade]
    BY <1>2 DEF Boxed, LabTyped, BoxStates
  <2>3. box' \in [X!Domains -> [state : BoxStates, call : 0 .. MaxMade]]
    BY <1>1, <1>2, <2>1, <2>2
  <2>4. X!Idle.state = "idle" /\ X!Idle.call = 0
    BY DEF X!Idle
  <2> QED BY <1>1, <1>2, <2>3, <2>4 DEF Boxed, LabTyped, BoxStates, X!helper, X!Calls
<1>5. TakenKnown'
  BY <1>1, <1>2 DEF Boxed, TakenKnown, X!Idle
<1>6. ~FreshBox /\ ~NoMore
  BY <1>1, <1>2, <1>3 DEF FreshBox, NoMore
<1>7. OnlyMade => OnlyMade'
  BY <1>1, <1>2 DEF OnlyMade, X!Idle, X!Calls
<1>8. NoneDialing => NoneDialing'
  BY <1>1 DEF NoneDialing, X!Calls
<1> QED BY <1>1, <1>4, <1>5, <1>6, <1>7, <1>8, NetworkKeeps

(* Whichever side drops a call.                                            *)
LEMMA DropsBoxed ==
  ASSUME Boxed, Settles, LabTyped', UNCHANGED <<X!helper, busy>> PROVE Boxed'
<1>1. /\ TakenKnown' /\ (FreshBox => FreshBox') /\ (OnlyMade => OnlyMade') /\ (NoMore => NoMore')
      /\ NoneDialing => NoneDialing'
  BY SettlesKeeps
<1>2. made' = made /\ taken' = taken /\ \A c \in X!Calls : ue[c] # "none" => ue'[c] # "none"
  BY DEF Settles
<1>3. box[BoxEnd(op)] = X!Idle => box'[BoxEnd(op)] = X!Idle
  BY DEF Settles, BoxEnd, X!Domains
<1> QED BY <1>1, <1>2, <1>3, NetworkKeeps

LEMMA IdleTyped ==
  ASSUME LabTyped, NEW d \in X!Domains, box' = [box EXCEPT ![d] = X!Idle], MaxMade \in Nat
  PROVE  /\ box' \in [X!Domains -> [state : BoxStates, call : 0 .. MaxMade]]
         /\ \A e \in X!Domains : /\ box'[e] \in {box[e], X!Idle}
                                 /\ IF box'[e].state = "idle" THEN box'[e].call = 0
                                    ELSE box'[e].call \in X!Calls
<1>1. X!Idle \in [state : BoxStates, call : 0 .. MaxMade] /\ X!Idle.state = "idle" /\ X!Idle.call = 0
  BY DEF X!Idle, BoxStates
<1>2. box \in [X!Domains -> [state : BoxStates, call : 0 .. MaxMade]]
  BY DEF LabTyped, BoxStates
<1>3. \A e \in X!Domains : box'[e] = IF e = d THEN X!Idle ELSE box[e]
  BY <1>2
<1> QED BY <1>1, <1>2, <1>3 DEF LabTyped

LEMMA NetworkBoxed == ASSUME MaxMade \in Nat, Boxed, X!Network PROVE Boxed'
<1>1. ASSUME NEW d \in X!Domains, X!BoxDrops(d) PROVE Boxed'
  <2>1. box' = [box EXCEPT ![d] = X!Idle] /\ UNCHANGED <<made, ue, taken, X!helper, busy>>
    BY <1>1 DEF X!BoxDrops
  <2>2. LabTyped' /\ Settles
    BY <2>1, IdleTyped DEF Boxed, LabTyped, BoxStates, X!helper, Settles, X!Calls
  <2> QED BY <2>1, <2>2, DropsBoxed
<1>2. ASSUME NEW c \in X!Calls, X!PhoneDrops(c) PROVE Boxed'
  <2>1. ue[c] \in X!Live /\ X!Become(c, "ended") /\ UNCHANGED <<made, box, taken, X!helper, busy>>
    BY <1>2 DEF X!PhoneDrops
  <2>2. /\ ue' \in [X!Calls -> UeStates] /\ ue'[c] = "ended"
        /\ \A e \in X!Calls : e # c => ue'[e] = ue[e]
    BY <2>1, BecomeTyped DEF Boxed, UeStates
  <2>3. LabTyped' /\ Settles
    BY <2>1, <2>2 DEF Boxed, LabTyped, UeStates, X!helper, Settles, X!Live
  <2> QED BY <2>1, <2>3, DropsBoxed
<1> QED BY <1>1, <1>2, ReachesBoxed, TakesBoxed, RingsBoxed, IsTakenBoxed, MovesBoxed DEF X!Network

-----------------------------------------------------------------------------
(* The helper.                                                             *)
LEMMA DoingIs ==
  ASSUME NEW s, X!Doing(s)
  PROVE  at = "running" /\ script[1][1] = s
BY DEF X!Doing, X!step

LEMMA FirstStep ==
  ASSUME Boxed, at = "running"
  PROVE  /\ script[1] \in LabStep
         /\ script[1] \in Makes <=> script[1][1] \in {"dial", "offer"}
         /\ script[1] \in Connects <=> (script[1][1] = "await" /\ script[1][3] = "connected")
         /\ script[1] \in RingsHeard <=> script[1][1] = "rings"
         /\ script[1] \in OutOfCall <=> script[1][1] = "not in call"
         /\ script[1] = <<"raise">> => script[1][1] = "raise"
         /\ script[1][1] \in {"await", "offer", "release"} => script[1][2] \in X!Domains
         /\ script[1] = <<"await", BoxEnd(op), "idle">> =>
              script[1][1] = "await" /\ script[1][2] = BoxEnd(op) /\ script[1][3] = "idle"
<1>1. script[1] \in LabStep
  BY TailParts DEF Boxed, Scripted
<1>2. script[1][1] \in {"await", "offer", "release"} => script[1][2] \in X!Domains
  BY <1>1, StepShape DEF Words
<1>3. script[1] = <<"raise">> => script[1][1] = "raise"
  OBVIOUS
<1>4. script[1] = <<"await", BoxEnd(op), "idle">> =>
        script[1][1] = "await" /\ script[1][2] = BoxEnd(op) /\ script[1][3] = "idle"
  OBVIOUS
<1> QED BY <1>1, <1>2, <1>3, <1>4, StepMarks

LEMMA LookBoxed ==
  ASSUME Boxed, at = "running", X!Goes, UNCHANGED X!network,
         script[1] \notin Makes, script[1] # <<"raise">>,
         script[1] \in Connects => \E d \in X!Domains : box[d].state = "connected",
         script[1] \in RingsHeard =>
           \E c \in X!Calls : ue[c] = "ringing" \/ (c = made /\ ue[c] = "ended"),
         script[1] \in OutOfCall => ~X!InCall,
         script[1] = <<"await", BoxEnd(op), "idle">> => box[BoxEnd(op)] = X!Idle
  PROVE  Boxed'
<1>1. UNCHANGED <<made, ue, box, taken>>
  BY DEF X!network
<1>2. UNCHANGED <<op, busy>> /\ at' \in {"running", "idle"}
  BY GoesOn
<1>3. Settles /\ LabTyped'
  BY <1>1, <1>2 DEF Settles, Boxed, LabTyped
<1>4. OnCourse /\ (busy \/ OnlyMade)
  BY DEF Boxed, NoOther, OnCourse
<1>5. ASSUME script[1] \in Connects, op \in ByConnection PROVE busy \/ made \in taken
  <2>1. PICK d \in X!Domains : box[d].state = "connected"
    BY <1>5
  <2>2. box[d].call \in taken /\ (busy \/ box[d].call = made)
    BY <1>4, <2>1 DEF OnlyMade, Boxed, TakenKnown
  <2> QED BY <2>2
<1>6. ASSUME script[1] \in RingsHeard PROVE busy \/ (made \in X!Calls /\ ue'[made] # "none")
  <2>1. PICK c \in X!Calls : ue[c] = "ringing" \/ (c = made /\ ue[c] = "ended")
    BY <1>6
  <2>2. busy \/ c = made
    BY <1>4, <2>1 DEF OnlyMade, X!Live
  <2> QED BY <1>1, <2>1, <2>2
<1>7. ASSUME script[1] \in OutOfCall, op \in TearingDown PROVE NoneDialing' /\ (busy \/ NoMore')
  <2>1. \A c \in X!Calls : ue[c] \notin X!Live
    BY <1>7 DEF X!InCall, X!InCallWith
  <2>2. NoneDialing
    BY <2>1 DEF NoneDialing, X!Live
  <2>3. CASE op = "tear down" /\ ~busy
    <3>1. \A d \in X!Domains : box[d] = X!Idle
      BY <1>4, <2>3 DEF Boxed, NoOther, FreshBox
    <3> QED BY <1>1, <2>1, <2>2, <3>1 DEF NoMore, X!Idle, NoneDialing, X!Calls
  <2>4. CASE op # "tear down" /\ ~busy
    <3>1. ~Has(script, Connects)
      BY <1>7, GoesOn DEF OutOfCall, Connects
    <3>2. made \in taken /\ ue[made] # "none"
      BY <1>4, <1>7, <2>4, <3>1 DEF Boxed, ConnectedTo, TakenKnown, TearingDown, ByConnection
    <3>3. NoMore
      BY <1>4, <2>1, <2>4, <3>2 DEF NoMore, OnlyMade
    <3> QED BY <1>1, <2>2, <3>3 DEF NoMore, NoneDialing, X!Calls
  <2> QED BY <1>1, <2>2, <2>3, <2>4 DEF NoneDialing, X!Calls
<1>8. script[1] = <<"await", BoxEnd(op), "idle">> => box'[BoxEnd(op)] = X!Idle
  BY <1>1
<1> QED BY <1>3, <1>5, <1>6, <1>7, <1>8, OnwardBoxed

LEMMA AwaitBoxed == ASSUME Boxed, X!AwaitBox PROVE Boxed'
<1>1. /\ at = "running" /\ script[1][1] = "await" /\ box[script[1][2]].state = script[1][3]
      /\ X!Goes /\ UNCHANGED X!network
  BY DEF X!AwaitBox, X!Doing, X!step, X!arg
<1>2. /\ script[1] \notin Makes /\ script[1] # <<"raise">> /\ script[1] \notin RingsHeard
      /\ script[1] \notin OutOfCall /\ script[1][2] \in X!Domains
      /\ script[1] \in Connects => script[1][3] = "connected"
  BY <1>1, FirstStep
<1>3. script[1] = <<"await", BoxEnd(op), "idle">> => box[BoxEnd(op)] = X!Idle
  <2> SUFFICES ASSUME script[1] = <<"await", BoxEnd(op), "idle">> PROVE box[BoxEnd(op)] = X!Idle
    OBVIOUS
  <2>1. script[1][2] = BoxEnd(op) /\ script[1][3] = "idle"
    BY <1>1, FirstStep
  <2> QED BY <1>1, <1>2, <2>1, NotIdle DEF Boxed
<1> QED BY <1>1, <1>2, <1>3, LookBoxed

LEMMA SeesBoxed ==
  ASSUME Boxed, X!OffHook \/ X!HearsRing \/ X!Answered \/ X!CheckInCall \/ X!CheckNotInCall
  PROVE  Boxed'
<1>1. /\ at = "running" /\ X!Goes /\ UNCHANGED X!network
      /\ script[1][1] \in {"offhook", "rings", "answered", "in call", "not in call"}
      /\ script[1][1] = "rings" => \E c \in X!Calls : ue[c] = "ringing" \/ (c = made /\ ue[c] = "ended")
      /\ script[1][1] = "not in call" => ~X!InCall
  BY DEF X!OffHook, X!HearsRing, X!Answered, X!CheckInCall, X!CheckNotInCall, X!Doing, X!step
<1>2. /\ script[1] \notin Makes /\ script[1] \notin Connects /\ script[1] # <<"raise">>
      /\ script[1] # <<"await", BoxEnd(op), "idle">>
      /\ (script[1] \in RingsHeard <=> script[1][1] = "rings")
      /\ script[1] \in OutOfCall <=> script[1][1] = "not in call"
  BY <1>1, FirstStep
<1> QED BY <1>1, <1>2, LookBoxed

(* The steps that accept or end a call.                                    *)
LEMMA ActBoxed ==
  ASSUME Boxed, at = "running", X!Goes, Settles, LabTyped',
         script[1][1] \in {"accept", "hang up", "end", "release"}
  PROVE  Boxed'
<1>1. /\ script[1] \notin Makes /\ script[1] \notin Connects /\ script[1] # <<"raise">>
      /\ script[1] # <<"await", BoxEnd(op), "idle">> /\ script[1] \notin RingsHeard
      /\ script[1] \notin OutOfCall
  BY FirstStep
<1> QED BY <1>1, OnwardBoxed

LEMMA EndsCallTyped ==
  ASSUME LabTyped, X!EndsCall
  PROVE  /\ ue' \in [X!Calls -> UeStates]
         /\ \A c \in X!Calls : ue'[c] = ue[c] \/ (ue[c] \in X!Live /\ ue'[c] = "ended")
<1>1. CASE UNCHANGED ue
  BY <1>1 DEF LabTyped, UeStates
<1>2. ASSUME NEW c \in X!Calls, ue[c] \in X!Live /\ X!Become(c, "ended")
      PROVE  /\ ue' \in [X!Calls -> UeStates]
             /\ \A e \in X!Calls : ue'[e] = ue[e] \/ (ue[e] \in X!Live /\ ue'[e] = "ended")
  <2>1. /\ ue' \in [X!Calls -> UeStates] /\ ue'[c] = "ended"
        /\ \A e \in X!Calls : e # c => ue'[e] = ue[e]
    BY <1>2, BecomeTyped DEF UeStates
  <2> QED BY <1>2, <2>1
<1> QED BY <1>1, <1>2 DEF X!EndsCall

LEMMA AcceptBoxed == ASSUME Boxed, X!Accept PROVE Boxed'
<1>1. /\ at = "running" /\ script[1][1] = "accept" /\ X!Goes /\ UNCHANGED <<made, box, taken>>
      /\ (\E c \in X!Calls : ue[c] = "ringing" /\ X!Become(c, "active")) \/ UNCHANGED ue
  BY DEF X!Accept, X!Doing, X!step
<1>2. UNCHANGED <<op, busy>> /\ at' \in {"running", "idle"}
  BY <1>1, GoesOn
<1>3. /\ ue' \in [X!Calls -> UeStates]
      /\ \A c \in X!Calls : ue'[c] = ue[c] \/ (ue[c] = "ringing" /\ ue'[c] = "active")
  <2>1. CASE UNCHANGED ue
    BY <2>1 DEF Boxed, LabTyped, UeStates
  <2>2. ASSUME NEW c \in X!Calls, ue[c] = "ringing" /\ X!Become(c, "active")
        PROVE  /\ ue' \in [X!Calls -> UeStates]
               /\ \A e \in X!Calls : ue'[e] = ue[e] \/ (ue[e] = "ringing" /\ ue'[e] = "active")
    <3>1. /\ ue' \in [X!Calls -> UeStates] /\ ue'[c] = "active"
          /\ \A e \in X!Calls : e # c => ue'[e] = ue[e]
      BY <2>2, BecomeTyped DEF UeStates, Boxed
    <3> QED BY <2>2, <3>1
  <2> QED BY <1>1, <2>1, <2>2
<1>4. Settles /\ LabTyped'
  BY <1>1, <1>2, <1>3 DEF Settles, Boxed, LabTyped, UeStates, X!Live
<1> QED BY <1>1, <1>4, ActBoxed

LEMMA EndCallBoxed == ASSUME Boxed, X!EndCall PROVE Boxed'
<1>1. /\ at = "running" /\ script[1][1] \in {"hang up", "end"} /\ X!EndsCall /\ X!Goes
      /\ UNCHANGED <<made, box, taken>>
  BY DEF X!EndCall, X!Doing, X!step
<1>2. UNCHANGED <<op, busy>> /\ at' \in {"running", "idle"}
  BY <1>1, GoesOn
<1>3. /\ ue' \in [X!Calls -> UeStates]
      /\ \A c \in X!Calls : ue'[c] = ue[c] \/ (ue[c] \in X!Live /\ ue'[c] = "ended")
  BY <1>1, EndsCallTyped DEF Boxed
<1>4. Settles /\ LabTyped'
  BY <1>1, <1>2, <1>3 DEF Settles, Boxed, LabTyped, UeStates, X!Live
<1> QED BY <1>1, <1>4, ActBoxed

LEMMA ReleaseBoxed == ASSUME MaxMade \in Nat, Boxed, X!Release PROVE Boxed'
<1>1. /\ at = "running" /\ script[1][1] = "release" /\ X!Goes /\ UNCHANGED <<made, ue, taken>>
      /\ box' = box \/ box' = [box EXCEPT ![script[1][2]] = X!Idle]
  BY DEF X!Release, X!Doing, X!step, X!arg
<1>2. script[1][2] \in X!Domains
  BY <1>1, FirstStep
<1>3. UNCHANGED <<op, busy>> /\ at' \in {"running", "idle"}
  BY <1>1, GoesOn
<1>4. /\ box' \in [X!Domains -> [state : BoxStates, call : 0 .. MaxMade]]
      /\ \A e \in X!Domains : /\ box'[e] \in {box[e], X!Idle}
                              /\ IF box'[e].state = "idle" THEN box'[e].call = 0
                                 ELSE box'[e].call \in X!Calls
  BY <1>1, <1>2, IdleTyped DEF Boxed, LabTyped, BoxStates
<1>5. Settles /\ LabTyped'
  BY <1>1, <1>3, <1>4 DEF Settles, Boxed, LabTyped, BoxStates, X!Calls
<1> QED BY <1>1, <1>5, ActBoxed

(* A call is made, by the phone or by the simulator.                       *)
LEMMA MadeBoxed ==
  ASSUME Boxed, at = "running", X!Goes, script[1] \in Makes, LabTyped', TakenKnown', taken' = taken,
         ~busy => /\ \A c \in X!Calls \ {made'} : ue'[c] \notin X!Live
                  /\ \A d \in X!Domains : box'[d].state # "idle" => box'[d].call = made'
  PROVE  Boxed'
<1>1. /\ UNCHANGED <<op, busy>> /\ script' \in Seq(LabStep) /\ Ordered(script')
      /\ at' \in {"running", "idle"} /\ (at' = "running" <=> script' # <<>>)
      /\ ok' \in BOOLEAN /\ (ok' <=> script' = <<>>)
      /\ \A K : Has(script, K) <=> script[1] \in K \/ Has(script', K)
      /\ (script[1] \in Milestones => ~Has(script', Makes))
      /\ op # "none"
      /\ op \in TearingDown =>
           /\ LastIs(script', <<"await", BoxEnd(op), "idle">>)
           /\ script' = <<>> => script[1] = <<"await", BoxEnd(op), "idle">>
      /\ op = "ho" => LastIs(script', <<"raise">>) /\ (script' = <<>> => script[1] = <<"raise">>)
  BY GoesOn
<1>2. /\ Has(script, Makes) /\ ~Has(script', Makes) /\ OnCourse
  BY <1>1 DEF Milestones, OnCourse
<1>3. /\ script[1] \notin Connects /\ script[1] \notin RingsHeard /\ script[1] \notin OutOfCall
      /\ script[1] # <<"raise">> /\ script[1] # <<"await", BoxEnd(op), "idle">>
  BY FirstStep
<1>4. op # "tear down"
  BY <1>2 DEF Boxed, Scripted
<1>5. Scripted'
  BY <1>1, <1>2, <1>3, <1>4 DEF Boxed, Scripted
<1>6. NoOther'
  <2>1. OnlyMade' \/ busy
    BY DEF OnlyMade, X!Calls
  <2> QED BY <1>1, <1>2, <1>4, <2>1 DEF NoOther
<1>7. ConnectedTo'
  BY <1>1, <1>2, <1>3 DEF Boxed, ConnectedTo
<1>8. RangFor'
  BY <1>1, <1>2, <1>3 DEF Boxed, RangFor
<1>9. OutFor'
  BY <1>1, <1>2, <1>3 DEF Boxed, OutFor
<1>10. EndsIdle'
  BY <1>1, <1>3 DEF EndsIdle
<1> QED BY <1>5, <1>6, <1>7, <1>8, <1>9, <1>10 DEF Boxed

LEMMA OneMore ==
  ASSUME MaxMade \in Nat, made \in 0 .. MaxMade, made < MaxMade
  PROVE  made + 1 \in X!Calls /\ made + 1 \in 0 .. MaxMade /\ made + 1 # 0
BY DEF X!Calls

LEMMA DialBoxed == ASSUME MaxMade \in Nat, Boxed, X!DialNumber PROVE Boxed'
<1>1. /\ at = "running" /\ script[1][1] = "dial" /\ made' = made + 1 /\ X!Become(made', "dialing")
      /\ X!Goes /\ UNCHANGED <<box, taken>>
  BY DEF X!DialNumber, X!Doing, X!step
<1>2. script[1] \in Makes
  BY <1>1, FirstStep
<1>3. Has(script, Makes)
  BY <1>1, <1>2, GoesOn
<1>4. made' \in X!Calls /\ made' \in 0 .. MaxMade
  BY <1>1, <1>3, OneMore DEF Boxed, Scripted, LabTyped
<1>5. /\ ue' \in [X!Calls -> UeStates] /\ ue'[made'] = "dialing"
      /\ \A e \in X!Calls : e # made' => ue'[e] = ue[e]
  <2> DEFINE n == made'
  <2>1. n \in X!Calls /\ X!Become(n, "dialing") /\ LabTyped /\ "dialing" \in UeStates
    BY <1>1, <1>4 DEF Boxed, UeStates
  <2> HIDE DEF n
  <2>2. /\ ue' \in [X!Calls -> UeStates] /\ ue'[n] = "dialing"
        /\ \A e \in X!Calls : e # n => ue'[e] = ue[e]
    BY <2>1, BecomeTyped
  <2> QED BY <2>2 DEF n
<1>6. UNCHANGED <<op, busy>> /\ at' \in {"running", "idle"}
  BY <1>1, GoesOn
<1>7. LabTyped'
  BY <1>1, <1>4, <1>5, <1>6 DEF Boxed, LabTyped, UeStates
<1>8. TakenKnown'
  BY <1>1, <1>5 DEF Boxed, TakenKnown, LabTyped
<1>9. ASSUME ~busy PROVE FreshBox
  BY <1>1, <1>3, <1>9 DEF Boxed, NoOther, OnCourse
<1>10. ~busy => /\ \A c \in X!Calls \ {made'} : ue'[c] \notin X!Live
                /\ \A d \in X!Domains : box'[d].state # "idle" => box'[d].call = made'
  BY <1>1, <1>5, <1>9 DEF FreshBox, X!InCall, X!InCallWith, X!Idle
<1> QED BY <1>1, <1>2, <1>7, <1>8, <1>10, MadeBoxed

LEMMA OfferBoxed == ASSUME MaxMade \in Nat, Boxed, X!Offer PROVE Boxed'
<1> DEFINE d == script[1][2]
<1>1. /\ at = "running" /\ script[1][1] = "offer" /\ X!Goes /\ UNCHANGED <<ue, taken>>
      /\ IF box[d] = X!Idle THEN made' = made + 1 /\ X!Set(d, "offered", made') ELSE UNCHANGED <<made, box>>
  BY DEF X!Offer, X!Doing, X!step, X!arg
<1>2. script[1] \in Makes /\ d \in X!Domains
  BY <1>1, FirstStep
<1> HIDE DEF d
<1>3. Has(script, Makes)
  BY <1>1, <1>2, GoesOn
<1>4. UNCHANGED <<op, busy>> /\ at' \in {"running", "idle"}
  BY <1>1, GoesOn
<1>5. ASSUME ~busy PROVE FreshBox
  BY <1>1, <1>3, <1>5 DEF Boxed, NoOther, OnCourse
<1>6. CASE box[d] = X!Idle
  <2> DEFINE n == made'
  <2>1. made' = made + 1 /\ X!Set(d, "offered", n)
    BY <1>1, <1>6
  <2>2. n \in X!Calls /\ n \in 0 .. MaxMade
    BY <1>3, <2>1, OneMore DEF Boxed, Scripted, LabTyped
  <2>3. LabTyped /\ "offered" \in BoxStates
    BY DEF Boxed, BoxStates
  <2> HIDE DEF n
  <2>4. /\ box' \in [X!Domains -> [state : BoxStates, call : 0 .. MaxMade]]
        /\ box'[d].state = "offered" /\ box'[d].call = n
        /\ \A e \in X!Domains : e # d => box'[e] = box[e]
    BY <1>2, <2>1, <2>2, <2>3, SetTyped
  <2> USE DEF n
  <2>5. LabTyped'
    BY <1>1, <1>4, <2>2, <2>4 DEF Boxed, LabTyped, BoxStates, X!Calls
  <2>6. TakenKnown'
    BY <1>1, <1>2, <2>4 DEF Boxed, TakenKnown
  <2>7. ~busy => /\ \A c \in X!Calls \ {made'} : ue'[c] \notin X!Live
                 /\ \A e \in X!Domains : box'[e].state # "idle" => box'[e].call = made'
    BY <1>1, <1>5, <2>4 DEF FreshBox, X!InCall, X!InCallWith, X!Idle
  <2> QED BY <1>1, <1>2, <2>5, <2>6, <2>7, MadeBoxed
<1>7. CASE box[d] # X!Idle
  <2>1. UNCHANGED <<made, box, ue, taken>>
    BY <1>1, <1>7
  <2>2. busy
    BY <1>2, <1>5, <1>7 DEF FreshBox
  <2>3. LabTyped' /\ TakenKnown'
    BY <1>4, <2>1 DEF Boxed, LabTyped, TakenKnown
  <2> QED BY <1>1, <1>2, <2>1, <2>2, <2>3, MadeBoxed
<1> QED BY <1>6, <1>7

LEMMA FailsBoxed == ASSUME Boxed, X!StepFails PROVE Boxed'
<1>1. /\ at = "running" /\ at' \in {"idle", "finally"} /\ script' = <<>>
      /\ UNCHANGED <<op, ok, made, ue, box, taken, busy>>
  BY DEF X!StepFails, X!network
<1>2. ok = FALSE /\ op # "none"
  BY <1>1 DEF Boxed, Scripted
<1>3. /\ <<>> \in Seq(LabStep) /\ Ordered(<<>>) /\ \A x : LastIs(<<>>, x)
  BY EmptyFit DEF Fit, LastIs
<1>4. \A K : ~Has(<<>>, K)
  BY EmptyHas
<1>5. Scripted'
  BY <1>1, <1>2, <1>3, <1>4 DEF Boxed, Scripted
<1>6. LabTyped' /\ TakenKnown'
  BY <1>1 DEF Boxed, LabTyped, TakenKnown
<1>7. OnCourse' = FALSE
  BY <1>1, <1>2 DEF OnCourse
<1> QED BY <1>1, <1>2, <1>5, <1>6, <1>7 DEF Boxed, NoOther, ConnectedTo, RangFor, OutFor, EndsIdle

LEMMA FinallyBoxed == ASSUME Boxed, X!Finally PROVE Boxed'
<1>1. /\ at = "finally" /\ at' = "idle" /\ X!EndsCall /\ UNCHANGED <<op, script, ok, made, box, taken, busy>>
  BY DEF X!Finally
<1>2. ok = FALSE /\ op # "none" /\ script = <<>>
  BY <1>1 DEF Boxed, Scripted
<1>3. /\ ue' \in [X!Calls -> UeStates]
      /\ \A c \in X!Calls : ue'[c] = ue[c] \/ (ue[c] \in X!Live /\ ue'[c] = "ended")
  BY <1>1, EndsCallTyped DEF Boxed
<1>4. Settles /\ LabTyped'
  BY <1>1, <1>3 DEF Settles, Boxed, LabTyped, UeStates, X!Live
<1>5. TakenKnown'
  BY <1>4, SettlesKeeps
<1>6. Scripted'
  BY <1>1, <1>2 DEF Boxed, Scripted
<1>7. OnCourse' = FALSE
  BY <1>1, <1>2 DEF OnCourse
<1> QED BY <1>1, <1>2, <1>4, <1>5, <1>6, <1>7 DEF Boxed, NoOther, ConnectedTo, RangFor, OutFor, EndsIdle

LEMMA FreshIsOnly == ASSUME FreshBox PROVE OnlyMade
BY DEF FreshBox, OnlyMade, X!InCall, X!InCallWith, X!Idle

LEMMA BeginBoxed == ASSUME Boxed, NEW o \in X!Helpers, X!Begin(o) PROVE Boxed'
<1>1. /\ at = "idle" /\ (made < MaxMade \/ o = "tear down")
      /\ op' = o /\ at' = "running" /\ ok' = FALSE /\ script' \in X!Scripts(o)
      /\ busy' = (X!InCall \/ \E d \in X!Domains : box[d] # X!Idle)
      /\ UNCHANGED <<made, ue, box, taken>>
  BY DEF X!Begin, X!network
<1>2. /\ script' \in Seq(LabStep) /\ Ordered(script') /\ script' # <<>>
      /\ o \in ByConnection => Has(script', Connects)
      /\ o = "mt" => Has(script', RingsHeard)
      /\ o \in TearingDown => Has(script', OutOfCall) /\ LastIs(script', <<"await", BoxEnd(o), "idle">>)
      /\ o = "ho" => LastIs(script', <<"raise">>)
      /\ o = "tear down" => ~Has(script', Makes)
  BY <1>1, ScriptIs
<1>3. o # "none" /\ busy' \in BOOLEAN
  BY <1>1 DEF X!Helpers
<1>4. LabTyped' /\ TakenKnown'
  BY <1>1, <1>3 DEF Boxed, LabTyped, TakenKnown
<1>5. Scripted'
  BY <1>1, <1>2, <1>3 DEF Boxed, Scripted
<1>6. NoOther'
  <2>1. ~busy' => FreshBox'
    BY <1>1 DEF FreshBox, X!InCall, X!InCallWith, X!Domains, X!Calls
  <2>2. FreshBox' => OnlyMade'
    BY FreshIsOnly, PTL
  <2> QED BY <2>1, <2>2 DEF NoOther
<1>7. ConnectedTo' /\ RangFor' /\ OutFor' /\ EndsIdle'
  BY <1>1, <1>2 DEF ConnectedTo, RangFor, OutFor, EndsIdle
<1> QED BY <1>4, <1>5, <1>6, <1>7 DEF Boxed

LEMMA InitBoxed == ASSUME MaxMade \in Nat, X!Init PROVE Boxed
<1>1. /\ made = 0 /\ ue = [c \in X!Calls |-> "none"] /\ box = [d \in X!Domains |-> X!Idle]
      /\ at = "idle" /\ op = "none" /\ script = <<>> /\ ok = FALSE /\ taken = {} /\ busy = FALSE
  BY DEF X!Init
<1>2. X!Idle \in [state : BoxStates, call : 0 .. MaxMade] /\ X!Idle.state = "idle" /\ X!Idle.call = 0
  BY DEF X!Idle, BoxStates
<1>3. LabTyped
  BY <1>1, <1>2 DEF LabTyped, BoxStates
<1>4. Scripted
  <2>1. <<>> \in Seq(LabStep) /\ Ordered(<<>>) /\ ~Has(<<>>, Makes)
    BY EmptyFit, EmptyHas DEF Fit
  <2> QED BY <1>1, <2>1 DEF Scripted, TearingDown
<1>5. TakenKnown
  BY <1>1, <1>2 DEF TakenKnown
<1> QED BY <1>1, <1>3, <1>4, <1>5 DEF Boxed, OnCourse, NoOther, ConnectedTo, RangFor, OutFor, EndsIdle

LEMMA NextBoxed == ASSUME MaxMade \in Nat, Boxed, X!Next PROVE Boxed'
BY NetworkBoxed, BeginBoxed, AwaitBoxed, SeesBoxed, AcceptBoxed, EndCallBoxed, ReleaseBoxed, DialBoxed,
   OfferBoxed, FailsBoxed, FinallyBoxed DEF X!Next

LEMMA BoxedCalls == ASSUME Boxed PROVE X!CallThroughBox
<1> SUFFICES ASSUME at = "idle", ok PROVE X!CallThroughBox
  BY DEF X!CallThroughBox
<1>1. script = <<>> /\ OnCourse /\ op \in X!Helpers /\ op # "ho"
  BY DEF Boxed, Scripted, OnCourse, LabTyped
<1>2. \A K : ~Has(script, K)
  BY <1>1, EmptyHas
<1>3. op \in ByConnection => busy \/ made \in taken
  BY <1>1, <1>2 DEF Boxed, ConnectedTo
<1>4. op = "mt" => busy \/ ue[made] # "none"
  BY <1>1, <1>2 DEF Boxed, RangFor
<1>5. op \in TearingDown => (busy \/ ~X!InCall) /\ box[BoxEnd(op)] = X!Idle
  BY <1>1, <1>2 DEF Boxed, OutFor, EndsIdle, NoMore, X!InCall, X!InCallWith
<1> QED BY <1>1, <1>3, <1>4, <1>5 DEF X!CallThroughBox, ByConnection, TearingDown, BoxEnd, X!Helpers

LEMMA NextLab ==
  ASSUME MaxMade \in Nat, driven = "lab" => Boxed, [BedNext]_bed PROVE driven' = "lab" => Boxed'
<1> SUFFICES ASSUME driven' = "lab" PROVE Boxed'
  OBVIOUS
<1>1. CASE BedNext
  <2>1. driven = "lab"
    BY <1>1 DEF BedNext
  <2>2. X!Next
    BY <1>1, <2>1 DEF BedNext, DriveAccessPoint, DriveDevices, DriveWifi, DriveCalls,
       DriveBluetooth, DrivePhoneSetup, DriveMessages, DriveCoex, DriveLab
  <2> QED BY <2>1, <2>2, NextBoxed
<1>2. CASE UNCHANGED bed
  <2>1. driven = "lab" /\ UNCHANGED <<lab, op, ok, at>>
    BY <1>2 DEF bed, helper, vars
  <2>2. UNCHANGED <<made, ue, box, script, taken, busy, op, ok, at>>
    BY <2>1 DEF lab
  <2>3. Settles /\ LabTyped' /\ UNCHANGED <<X!helper, busy>>
    BY <2>1, <2>2 DEF Settles, Boxed, LabTyped, X!helper
  <2> QED BY <2>1, <2>3, DropsBoxed
<1> QED BY <1>1, <1>2

(* For any number of calls, whatever the phone and the simulator do and    *)
(* however late they learn of each other: a lab helper that returns True   *)
(* made its own call and saw it through the simulator, and where it tears  *)
(* the call down neither is in one (anritsu_utils.py, lines 1303 and 1507). *)
THEOREM CallsGoThroughBox == ASSUME MaxMade \in Nat PROVE BedSpec => []CallThroughBox
<1> DEFINE I == driven = "lab" => Boxed
<1>1. BedInit => I
  BY InitBoxed DEF BedInit
<1>2. I /\ [BedNext]_bed => I'
  BY NextLab
<1>3. I => CallThroughBox
  BY BoxedCalls DEF CallThroughBox
<1> QED BY <1>1, <1>2, <1>3, PTL DEF BedSpec, bed

-----------------------------------------------------------------------------
(* How phones are set up.  What each function may have left to do.         *)
Whats == {"3g", "4g", "lte", "listed", "iwlan", "not iwlan", "attached", "cell", "no cell", "wifi"}

Asked(g) ==
  {<<"airplane", FALSE>>, <<"wifi default">>, <<"wfc", FALSE>>, <<"preference", g>>, <<"if", g, 1>>,
   <<"await", g>>, <<"may">>}
BearerSteps(g) ==
  {<<"preference", g>>, <<"if", g, 1>>, <<"await", g>>, <<"try">>, <<"airplane", FALSE>>,
   <<"data", TRUE>>, <<"data", FALSE>>, <<"await", "cell">>, <<"await", "no cell">>,
   <<"internet", TRUE>>, <<"internet", FALSE>>}
SwitchingSteps(g) ==
  {<<"try">>, <<"preference", g>>, <<"if", g, 1>>, <<"await", g>>, <<"join">>, <<"airplane", FALSE>>,
   <<"wifi", TRUE>>, <<"wifi", FALSE>>, <<"data", TRUE>>, <<"await", "wifi">>, <<"await", "cell">>,
   <<"internet", TRUE>>}
AirplaneSteps ==
  {<<"may">>, <<"try">>, <<"data", TRUE>>, <<"wifi", FALSE>>, <<"airplane on cell">>,
   <<"airplane off cell">>, <<"internet", TRUE>>, <<"internet", FALSE>>, <<"await", "no cell">>,
   <<"await", "cell">>, <<"airplane", FALSE>>}
TetheringSteps ==
  {<<"may">>, <<"try">>, <<"wifi", FALSE>>, <<"data", FALSE>>, <<"data", TRUE>>, <<"internet", FALSE>>,
   <<"internet", TRUE>>, <<"tether">>, <<"untether">>, <<"join">>, <<"await", "wifi">>,
   <<"wifi default">>}
Tame ==
  {<<"airplane", FALSE>>, <<"wifi default">>, <<"reset preference">>, <<"join">>, <<"may">>}
    \union (({"wfc"} \X BOOLEAN) \union (({"preference", "set"} \X P!Generations)
    \union (({"await"} \X Whats) \union (({"if"} \X Whats \X Nat)
    \union ({"may skip", "volte"} \X Nat)))))

AskedOf == {"data", "voice", "volte", "video"}
Toggled == {"generation", "ensure rat", "ensure preference"}
Trying == {"switching", "airplane", "bearer", "tethering"}
Even == AskedOf \union (Trying \union {"csfb"})
Rough == {"rat", "voice general", "data general", "iwlan no apm", "cellular preferred", "none"}

Alphabet(o, g) ==
  CASE o \in AskedOf -> Asked(g)
    [] o = "csfb" -> Asked(g) \union {<<"await", "lte">>}
    [] o = "bearer" -> BearerSteps(g)
    [] o = "switching" -> SwitchingSteps(g)
    [] o = "airplane" -> AirplaneSteps
    [] o = "tethering" -> TetheringSteps
    [] o = "iwlan" -> Tame \union {<<"airplane", TRUE>>}
    [] o \in Rough -> Tame

(* The rests of a function that toggles airplane mode.                     *)
Setting(o, g) == IF o = "generation" THEN <<"preference", g>> ELSE <<"set", g>>
Ensured(o, g) ==
  CASE o = "generation" -> g [] o = "ensure rat" -> P!Family(g)
    [] o = "ensure preference" -> (IF g = "4g" THEN "listed" ELSE g)
Back(o) == IF o = "ensure rat" THEN <<"airplane other">> ELSE <<"airplane", FALSE>>
RestsOfFive(a, b, c, d, e) ==
  {<<a, b, c, d, e>>, <<b, c, d, e>>, <<c, d, e>>, <<d, e>>, <<e>>, <<>>}
ToggledRests(o, g) ==
  RestsOfFive(Setting(o, g), <<"if", Ensured(o, g), 3>>, <<"airplane", TRUE>>, Back(o),
              <<"await", Ensured(o, g)>>)

(* Each of K is followed by one of L.                                      *)
ThenNext(s, K, L) == \A i \in DOMAIN s : s[i] \in K => i + 1 \in DOMAIN s /\ s[i + 1] \in L

SkipOne == {"if"} \X P!Generations \X {1}
GenAwaits == {"await"} \X P!Generations
Prefs == {"preference"} \X P!Generations
Trys == {<<"try">>}
Risky == {<<"data", FALSE>>, <<"airplane off cell">>}

Shaped(o, g, s) ==
  /\ o \in Toggled => s \in ToggledRests(o, g)
  /\ o \notin Toggled => s \in Seq(Alphabet(o, g))
  /\ o \in Even => ThenNext(s, SkipOne, GenAwaits)
  /\ o \in Trying => Never(s, Risky, Trys)
  /\ o = "csfb" => LastIs(s, <<"await", "lte">>)

SetupTyped ==
  /\ apm \in BOOLEAN /\ data \in BOOLEAN /\ ok \in BOOLEAN /\ wfc \in BOOLEAN /\ inherited \in BOOLEAN
  /\ gen \in P!Generations /\ at \in {"idle", "running"}
  /\ op \in (P!AnyGeneration \union P!Only4g) \union {"none"}
  /\ op \in P!Only4g => gen = "4g"
  /\ at = "idle" => steps = <<>> /\ cleanup = <<>>
  /\ op = "none" => at = "idle" /\ ~ok
  /\ cleanup # <<>> => op \in Trying /\ cleanup = P!CleanupOf(op)

StepsShaped == Shaped(op, gen, steps)

(* A function with a finally puts nothing at risk before its try.          *)
CleaningUp == cleanup # <<>>
Risked == op \in Trying /\ ~CleaningUp => Has(steps, Trys) \/ ~Has(steps, Risky)

(* What is switched off, or on, for a while is put back.                   *)
DataBack ==
  ~data => op \in {"bearer", "tethering"} /\ (CleaningUp \/ steps = P!CleanupOf(op))
ApmBack ==
  apm => \/ inherited \/ "apm" \in ignored \/ op = "iwlan"
         \/ (op = "airplane" /\ (CleaningUp \/ steps = P!CleanupOf(op)))
         \/ (op \in Toggled /\ steps # <<>> /\ steps[1] = Back(op))
ApmOther ==
  op = "ensure rat" /\ steps # <<>> /\ steps[1] = Back(op) => apm \/ "apm" \in ignored
WifiBack ==
  op = "switching" =>
    \/ (steps # <<>> /\ steps[1] = <<"try">>)
    \/ CleaningUp \/ steps = P!CleanupOf(op)
    \/ (steps = <<>> /\ (wifiState = "off" \/ "wifi" \in ignored))
TetherBack ==
  op = "tethering" /\ ok =>
    \/ Has(steps, Trys) \/ CleaningUp
    \/ (steps # <<>> /\ LastIs(steps, <<"untether">>))
    \/ (steps = <<>> /\ ~ap)

(* What the functions that set up have done once its steps are behind them.*)
PrefSet ==
  op \in AskedOf \union {"csfb", "generation", "bearer"} /\ ok /\ ~Has(steps, Prefs) =>
    pref = gen \/ inUse
WfcOff ==
  op \in AskedOf \union {"csfb"} /\ ok /\ ~Has(steps, {<<"wfc", FALSE>>}) => ~wfc
WifiOff ==
  op \in {"data", "voice", "volte", "csfb"} /\ ok /\ ~Has(steps, {<<"wifi default">>}) =>
    wifiState = "off"
OnGeneration ==
  op \in AskedOf /\ ok /\ ~Has(steps, GenAwaits) =>
    lastRat = gen \/ (gen = "4g" /\ lastRat = "iwlan")
OnLte == op = "csfb" /\ ok /\ steps = <<>> => lastRat = "4g"

SetUp ==
  /\ SetupTyped /\ StepsShaped /\ Risked
  /\ DataBack /\ ApmBack /\ ApmOther /\ WifiBack /\ TetherBack
  /\ PrefSet /\ WfcOff /\ WifiOff /\ OnGeneration /\ OnLte

-----------------------------------------------------------------------------
(* Sequences in which some elements are followed by others.                *)
LEMMA ThenNextConcat ==
  ASSUME NEW S, NEW s \in Seq(S), NEW t \in Seq(S), NEW K, NEW L,
         ThenNext(s, K, L), ThenNext(t, K, L)
  PROVE  ThenNext(s \o t, K, L)
<1> DEFINE m == Len(s)
           n == Len(t)
<1>1. /\ m \in Nat /\ n \in Nat /\ DOMAIN s = 1 .. m /\ DOMAIN t = 1 .. n
      /\ DOMAIN (s \o t) = 1 .. (m + n)
      /\ \A i \in 1 .. m : (s \o t)[i] = s[i]
      /\ \A i \in 1 .. n : (s \o t)[m + i] = t[i]
  BY ConcatParts
<1> HIDE DEF m, n
<1>2. SUFFICES ASSUME NEW i \in 1 .. (m + n), (s \o t)[i] \in K
               PROVE  i + 1 \in 1 .. (m + n) /\ (s \o t)[i + 1] \in L
  BY <1>1 DEF ThenNext
<1>3. CASE i \in 1 .. m
  <2>1. i + 1 \in 1 .. m /\ s[i + 1] \in L
    BY <1>1, <1>2, <1>3 DEF ThenNext
  <2> QED BY <1>1, <2>1
<1>4. CASE i - m \in 1 .. n /\ i = m + (i - m)
  <2>1. t[i - m] \in K
    BY <1>1, <1>2, <1>4
  <2>2. (i - m) + 1 \in 1 .. n /\ t[(i - m) + 1] \in L
    BY <1>1, <1>4, <2>1 DEF ThenNext
  <2>3. i + 1 = m + ((i - m) + 1) /\ i + 1 \in 1 .. (m + n)
    BY <1>1, <2>2
  <2> QED BY <1>1, <2>2, <2>3
<1> QED BY <1>1, <1>3, <1>4, ConcatPlace

LEMMA ThenNextTail ==
  ASSUME NEW S, NEW s \in Seq(S), s # <<>>, NEW K, NEW L, ThenNext(s, K, L)
  PROVE  /\ ThenNext(Tail(s), K, L)
         /\ s[1] \in K => Tail(s) # <<>> /\ Tail(s)[1] \in L
<1>1. /\ DOMAIN s = 1 .. Len(s) /\ DOMAIN Tail(s) = 1 .. (Len(s) - 1) /\ Len(s) \in Nat \ {0}
      /\ 1 \in DOMAIN s /\ ((Tail(s) = <<>>) <=> (Len(s) = 1))
      /\ \A i \in 1 .. (Len(s) - 1) : Tail(s)[i] = s[i + 1] /\ i + 1 \in 1 .. Len(s)
  BY TailParts
<1>2. ThenNext(Tail(s), K, L)
  <2> SUFFICES ASSUME NEW i \in 1 .. (Len(s) - 1), Tail(s)[i] \in K
               PROVE  i + 1 \in 1 .. (Len(s) - 1) /\ Tail(s)[i + 1] \in L
    BY <1>1 DEF ThenNext
  <2>1. s[i + 1] \in K /\ i + 1 \in 1 .. Len(s)
    BY <1>1
  <2>2. (i + 1) + 1 \in 1 .. Len(s) /\ s[(i + 1) + 1] \in L
    BY <1>1, <2>1 DEF ThenNext
  <2>3. i + 1 \in 1 .. (Len(s) - 1)
    BY <1>1, <2>2
  <2> QED BY <1>1, <2>2, <2>3
<1>3. ASSUME s[1] \in K PROVE Tail(s) # <<>> /\ Tail(s)[1] \in L
  <2>1. 1 + 1 \in 1 .. Len(s) /\ s[1 + 1] \in L
    BY <1>1, <1>3 DEF ThenNext
  <2>2. Len(s) # 1 /\ 1 \in 1 .. (Len(s) - 1)
    BY <1>1, <2>1
  <2> QED BY <1>1, <2>1, <2>2
<1> QED BY <1>2, <1>3

LEMMA TailTail ==
  ASSUME NEW S, NEW s \in Seq(S), s # <<>>, Tail(s) # <<>>
  PROVE  SubSeq(s, 3, Len(s)) = Tail(Tail(s))
<1> DEFINE t == SubSeq(s, 3, Len(s))
           u == Tail(Tail(s))
<1>1. /\ Tail(s) \in Seq(S) /\ Len(s) \in Nat \ {0} /\ Len(s) # 1 /\ Len(Tail(s)) = Len(s) - 1
      /\ \A i \in 1 .. (Len(s) - 1) : Tail(s)[i] = s[i + 1]
  BY TailParts
<1>2. /\ u \in Seq(S) /\ Len(u) = Len(Tail(s)) - 1
      /\ \A i \in 1 .. (Len(Tail(s)) - 1) : u[i] = Tail(s)[i + 1]
  BY <1>1, TailParts
<1>3. /\ t \in Seq(S) /\ Len(t) = Len(s) - 2
      /\ \A i \in 1 .. (Len(s) - 2) : t[i] = s[i + 2]
  BY <1>1
<1> HIDE DEF t, u
<1>4. \A i \in 1 .. (Len(s) - 2) : u[i] = s[i + 2]
  <2> TAKE i \in 1 .. (Len(s) - 2)
  <2>1. i \in 1 .. (Len(Tail(s)) - 1) /\ i + 1 \in 1 .. (Len(s) - 1) /\ (i + 1) + 1 = i + 2
    BY <1>1
  <2> QED BY <1>1, <1>2, <2>1
<1>5. Len(u) = Len(s) - 2
  BY <1>1, <1>2
<1>6. t = u
  BY <1>2, <1>3, <1>4, <1>5, SameSequence
<1> QED BY <1>6 DEF t, u

LEMMA SubSeqIn ==
  ASSUME NEW S, NEW s \in Seq(S), NEW n \in Nat
  PROVE  SubSeq(s, n + 2, Len(s)) \in Seq(S)
OBVIOUS

(* Of short tuples.                                                        *)
LEMMA TwoHave ==
  ASSUME NEW a, NEW b, NEW A, a \in A, b \in A
  PROVE  /\ <<a, b>> \in Seq(A) /\ <<a, b>> # <<>> /\ LastIs(<<a, b>>, b)
         /\ \A K : Has(<<a, b>>, K) <=> a \in K \/ b \in K
<1> DEFINE s == <<a, b>>
<1>1. s \in Seq(A) /\ s # <<>> /\ Len(s) = 2 /\ DOMAIN s = 1 .. 2 /\ s[1] = a /\ s[2] = b
  OBVIOUS
<1> HIDE DEF s
<1>2. \A K : Has(s, K) <=> a \in K \/ b \in K
  BY <1>1 DEF Has
<1> QED BY <1>1, <1>2 DEF LastIs, s

LEMMA ThreeHave ==
  ASSUME NEW a, NEW b, NEW c, NEW A, a \in A, b \in A, c \in A
  PROVE  /\ <<a, b, c>> \in Seq(A) /\ <<a, b, c>> # <<>> /\ LastIs(<<a, b, c>>, c)
         /\ \A K : Has(<<a, b, c>>, K) <=> a \in K \/ b \in K \/ c \in K
         /\ \A K, L : ThenNext(<<a, b, c>>, K, L) <=>
                        (a \in K => b \in L) /\ (b \in K => c \in L) /\ c \notin K
<1> DEFINE s == <<a, b, c>>
<1>1. /\ s \in Seq(A) /\ s # <<>> /\ Len(s) = 3 /\ DOMAIN s = 1 .. 3
      /\ s[1] = a /\ s[2] = b /\ s[3] = c
  OBVIOUS
<1> HIDE DEF s
<1>2. \A K : Has(s, K) <=> a \in K \/ b \in K \/ c \in K
  BY <1>1 DEF Has
<1>3. \A K, L : ThenNext(s, K, L) <=> (a \in K => b \in L) /\ (b \in K => c \in L) /\ c \notin K
  BY <1>1 DEF ThenNext
<1> QED BY <1>1, <1>2, <1>3 DEF LastIs, s

LEMMA StepsAre ==
  ASSUME NEW g \in P!Generations
  PROVE  /\ <<"preference", g>> \in Prefs /\ <<"preference", g>> \notin (SkipOne \union GenAwaits)
         /\ <<"if", g, 1>> \in SkipOne /\ <<"if", g, 1>> \notin Prefs
         /\ <<"await", g>> \in GenAwaits /\ <<"await", g>> \notin (SkipOne \union Prefs)
         /\ ({<<"preference", g>>, <<"if", g, 1>>, <<"await", g>>} \cap (Risky \union Trys)) = {}
<1>1. <<"preference", g>> \in Prefs
  BY DEF Prefs
<1>2. <<"preference", g>> \notin (SkipOne \union GenAwaits)
  BY DEF SkipOne, GenAwaits
<1>3. <<"if", g, 1>> \in SkipOne
  BY DEF SkipOne
<1>4. <<"if", g, 1>> \notin Prefs
  BY DEF Prefs
<1>5. <<"await", g>> \in GenAwaits
  BY DEF GenAwaits
<1>6. <<"await", g>> \notin (SkipOne \union Prefs)
  BY DEF SkipOne, Prefs
<1>7. ({<<"preference", g>>, <<"if", g, 1>>, <<"await", g>>} \cap (Risky \union Trys)) = {}
  BY DEF Risky, Trys
<1> QED BY <1>1, <1>2, <1>3, <1>4, <1>5, <1>6, <1>7

-----------------------------------------------------------------------------
(* What each function has to do when it is called.  Of a sequence put      *)
(* together from two, what holds of both holds.                            *)
Form(s, A) == s \in Seq(A) /\ s # <<>> /\ ThenNext(s, SkipOne, GenAwaits)

LEMMA FormConcat ==
  ASSUME NEW A, NEW s, NEW t, Form(s, A), Form(t, A)
  PROVE  /\ Form(s \o t, A)
         /\ \A K : Has(s \o t, K) <=> Has(s, K) \/ Has(t, K)
         /\ \A x : LastIs(t, x) => LastIs(s \o t, x)
<1>1. s \in Seq(A) /\ t \in Seq(A) /\ s # <<>> /\ t # <<>>
  BY DEF Form
<1>2. s \o t \in Seq(A) /\ Len(s \o t) = Len(s) + Len(t) /\ Len(s) \in Nat \ {0} /\ Len(t) \in Nat
  BY <1>1, ConcatParts, TailParts
<1>3. s \o t # <<>>
  BY <1>2
<1>4. ThenNext(s \o t, SkipOne, GenAwaits)
  BY <1>1, ThenNextConcat DEF Form
<1>5. \A K : Has(s \o t, K) <=> Has(s, K) \/ Has(t, K)
  BY <1>1, HasConcat
<1>6. \A x : LastIs(t, x) => LastIs(s \o t, x)
  BY <1>1, LastConcat
<1> QED BY <1>2, <1>3, <1>4, <1>5, <1>6 DEF Form

LEMMA ConcatEmpty == ASSUME NEW S, NEW s \in Seq(S) PROVE s \o <<>> = s
<1>1. <<>> \in Seq(S) /\ Len(<<>>) = 0
  OBVIOUS
<1> DEFINE t == s \o <<>>
<1>2. t \in Seq(S) /\ Len(t) = Len(s) /\ \A i \in 1 .. Len(s) : t[i] = s[i]
  BY <1>1, ConcatParts
<1> HIDE DEF t
<1>3. t = s
  BY <1>2, SameSequence
<1> QED BY <1>3 DEF t

EnsureScript(g) == << <<"preference", g>>, <<"if", g, 1>>, <<"await", g>> >>

LEMMA EnsureScriptIs ==
  ASSUME NEW g \in P!Generations
  PROVE  P!EnsureGeneration(g, <<>>) = EnsureScript(g)
<1> DEFINE a == <<"preference", g>>
           b == <<"if", g, 1>>
           c == <<"await", g>>
           T == {a, b, c}
<1>1. Len(<<>>) + 1 = 1
  OBVIOUS
<1>2. P!EnsureGeneration(g, <<>>) = (<<a, b>> \o <<>>) \o <<c>>
  BY <1>1 DEF P!EnsureGeneration, P!Ensure
<1>3. EnsureScript(g) = <<a, b, c>>
  BY DEF EnsureScript
<1>4. a \in T /\ b \in T /\ c \in T
  OBVIOUS
<1> HIDE DEF a, b, c, T
<1>5. (<<a, b>> \o <<>>) \o <<c>> = <<a, b, c>>
  <2>1. <<a, b>> \in Seq(T)
    BY <1>4
  <2>2. <<a, b>> \o <<>> = <<a, b>>
    BY <2>1, ConcatEmpty
  <2> QED BY <2>2, TripleJoins DEF Joins
<1> QED BY <1>2, <1>3, <1>5

LEMMA EnsureIs ==
  ASSUME NEW g \in P!Generations, NEW A,
         {<<"preference", g>>, <<"if", g, 1>>, <<"await", g>>} \subseteq A
  PROVE  /\ Form(EnsureScript(g), A)
         /\ Has(EnsureScript(g), Prefs) /\ Has(EnsureScript(g), GenAwaits)
         /\ ~Has(EnsureScript(g), Risky) /\ ~Has(EnsureScript(g), Trys)
<1> DEFINE a == <<"preference", g>>
           b == <<"if", g, 1>>
           c == <<"await", g>>
<1>1. EnsureScript(g) = <<a, b, c>>
  BY DEF EnsureScript
<1>2. a \in A /\ b \in A /\ c \in A
  OBVIOUS
<1>3. /\ a \in Prefs /\ a \notin SkipOne /\ b \notin Prefs /\ c \in GenAwaits /\ c \notin SkipOne
      /\ ({a, b, c} \cap (Risky \union Trys)) = {}
  BY StepsAre
<1> HIDE DEF a, b, c
<1>4. /\ <<a, b, c>> \in Seq(A) /\ <<a, b, c>> # <<>>
      /\ \A K : Has(<<a, b, c>>, K) <=> a \in K \/ b \in K \/ c \in K
      /\ \A K, L : ThenNext(<<a, b, c>>, K, L) <=>
                     (a \in K => b \in L) /\ (b \in K => c \in L) /\ c \notin K
  BY <1>2, ThreeHave
<1>5. ThenNext(<<a, b, c>>, SkipOne, GenAwaits)
  BY <1>3, <1>4
<1> QED BY <1>1, <1>3, <1>4, <1>5 DEF Form

LEMMA PrepareIs ==
  ASSUME NEW A, {<<"airplane", FALSE>>, <<"wifi default">>, <<"wfc", FALSE>>} \subseteq A
  PROVE  /\ Form(P!Prepare, A)
         /\ Has(P!Prepare, {<<"wfc", FALSE>>}) /\ Has(P!Prepare, {<<"wifi default">>})
<1> DEFINE a == <<"airplane", FALSE>>
           b == <<"wifi default">>
           c == <<"wfc", FALSE>>
<1>1. P!Prepare = <<a, b, c>>
  BY DEF P!Prepare
<1>2. a \in A /\ b \in A /\ c \in A
  OBVIOUS
<1>3. a \notin SkipOne /\ b \notin SkipOne /\ c \notin SkipOne
  BY DEF SkipOne
<1>4. b \in {<<"wifi default">>} /\ c \in {<<"wfc", FALSE>>}
  OBVIOUS
<1> HIDE DEF a, b, c
<1>5. /\ <<a, b, c>> \in Seq(A) /\ <<a, b, c>> # <<>>
      /\ \A K : Has(<<a, b, c>>, K) <=> a \in K \/ b \in K \/ c \in K
      /\ \A K, L : ThenNext(<<a, b, c>>, K, L) <=>
                     (a \in K => b \in L) /\ (b \in K => c \in L) /\ c \notin K
  BY ONLY <1>2, ThreeHave
<1> QED BY <1>1, <1>3, <1>4, <1>5 DEF Form

(* Steps that are no look, one after the other.                            *)
LEMMA OnesForm ==
  ASSUME NEW A, NEW x \in A, x \notin SkipOne
  PROVE  Form(<<x>>, A) /\ LastIs(<<x>>, x) /\ \A K : Has(<<x>>, K) <=> x \in K
<1>1. ThenNext(<<x>>, SkipOne, GenAwaits)
  <2>1. DOMAIN <<x>> = {1} /\ <<x>>[1] = x
    OBVIOUS
  <2> QED BY <2>1 DEF ThenNext
<1> QED BY <1>1, OneHas DEF Form

LEMMA TwosForm ==
  ASSUME NEW A, NEW x \in A, NEW y \in A, x \notin SkipOne, y \notin SkipOne
  PROVE  /\ Form(<<x, y>>, A) /\ LastIs(<<x, y>>, y)
         /\ \A K : Has(<<x, y>>, K) <=> x \in K \/ y \in K
<1>1. Form(<<x>> \o <<y>>, A) /\ <<x, y>> = <<x>> \o <<y>>
  BY OnesForm, FormConcat, PairJoins DEF Joins
<1> QED BY <1>1, TwoHave

LEMMA ThreesForm ==
  ASSUME NEW A, NEW x \in A, NEW y \in A, NEW z \in A,
         x \notin SkipOne, y \notin SkipOne, z \notin SkipOne
  PROVE  /\ Form(<<x, y, z>>, A) /\ LastIs(<<x, y, z>>, z)
         /\ \A K : Has(<<x, y, z>>, K) <=> x \in K \/ y \in K \/ z \in K
<1>1. Form(<<x, y>> \o <<z>>, A) /\ <<x, y, z>> = <<x, y>> \o <<z>>
  BY OnesForm, TwosForm, FormConcat, TripleJoins DEF Joins
<1> QED BY <1>1, ThreeHave

LEMMA NoLook == \A x : x[1] # "if" => x \notin SkipOne
BY DEF SkipOne

LEMMA DataIs ==
  ASSUME NEW g \in P!Generations, NEW A, Asked(g) \subseteq A
  PROVE  /\ Form(P!SetupData(g), A)
         /\ Has(P!SetupData(g), {<<"wfc", FALSE>>}) /\ Has(P!SetupData(g), {<<"wifi default">>})
         /\ Has(P!SetupData(g), Prefs) /\ Has(P!SetupData(g), GenAwaits)
<1>1. P!SetupData(g) = P!Prepare \o EnsureScript(g)
  BY EnsureScriptIs DEF P!SetupData
<1>2. /\ {<<"airplane", FALSE>>, <<"wifi default">>, <<"wfc", FALSE>>} \subseteq A
      /\ {<<"preference", g>>, <<"if", g, 1>>, <<"await", g>>} \subseteq A
  BY DEF Asked
<1>3. /\ Form(P!Prepare, A) /\ Form(EnsureScript(g), A)
      /\ Has(P!Prepare, {<<"wfc", FALSE>>}) /\ Has(P!Prepare, {<<"wifi default">>})
      /\ Has(EnsureScript(g), Prefs) /\ Has(EnsureScript(g), GenAwaits)
  BY <1>2, EnsureIs, PrepareIs
<1> DEFINE s == P!Prepare
           e == EnsureScript(g)
<1> HIDE DEF s, e
<1>4. Form(s \o e, A) /\ \A K : Has(s \o e, K) <=> Has(s, K) \/ Has(e, K)
  BY <1>3, FormConcat DEF s, e
<1> QED BY <1>1, <1>3, <1>4 DEF s, e

(* ... and with more after it.                                             *)
LEMMA DataThen ==
  ASSUME NEW g \in P!Generations, NEW A, Asked(g) \subseteq A, NEW t, Form(t, A)
  PROVE  /\ Form(P!SetupData(g) \o t, A)
         /\ Has(P!SetupData(g) \o t, {<<"wfc", FALSE>>})
         /\ Has(P!SetupData(g) \o t, {<<"wifi default">>})
         /\ Has(P!SetupData(g) \o t, Prefs) /\ Has(P!SetupData(g) \o t, GenAwaits)
         /\ \A x : LastIs(t, x) => LastIs(P!SetupData(g) \o t, x)
<1> DEFINE s == P!SetupData(g)
<1>1. /\ Form(s, A)
      /\ Has(s, {<<"wfc", FALSE>>}) /\ Has(s, {<<"wifi default">>})
      /\ Has(s, Prefs) /\ Has(s, GenAwaits)
  BY DataIs
<1> HIDE DEF s
<1>2. /\ Form(s \o t, A) /\ \A K : Has(s \o t, K) <=> Has(s, K) \/ Has(t, K)
      /\ \A x : LastIs(t, x) => LastIs(s \o t, x)
  BY <1>1, FormConcat
<1>3. /\ Form(s \o t, A)
      /\ Has(s \o t, {<<"wfc", FALSE>>}) /\ Has(s \o t, {<<"wifi default">>})
      /\ Has(s \o t, Prefs) /\ Has(s \o t, GenAwaits)
      /\ \A x : LastIs(t, x) => LastIs(s \o t, x)
  BY <1>1, <1>2
<1> QED BY <1>3 DEF s

(* Of the functions that set up: what they have to do.                     *)
Preparing(o, s) ==
  /\ Has(s, {<<"wfc", FALSE>>}) /\ Has(s, Prefs)
  /\ o # "video" => Has(s, {<<"wifi default">>})
  /\ o # "csfb" => Has(s, GenAwaits)
  /\ o = "csfb" => LastIs(s, <<"await", "lte">>)

LEMMA VideoIs ==
  ASSUME NEW A, Asked("4g") \subseteq A
  PROVE  Form(P!SetupVideo, A) /\ Preparing("video", P!SetupVideo)
<1> DEFINE a == <<"airplane", FALSE>>
           b == <<"wfc", FALSE>>
           c == <<"may">>
           d == <<"await", "4g">>
           e == EnsureScript("4g")
<1>1. "4g" \in P!Generations
  BY DEF P!Generations
<1>2. P!SetupVideo = (<<a, b, c>> \o e) \o <<d, c>>
  BY <1>1, EnsureScriptIs DEF P!SetupVideo
<1>3. a \in A /\ b \in A /\ c \in A /\ d \in A
  BY DEF Asked
<1>4. a \notin SkipOne /\ b \notin SkipOne /\ c \notin SkipOne /\ d \notin SkipOne
  BY DEF SkipOne
<1>5. Form(e, A) /\ Has(e, Prefs) /\ Has(e, GenAwaits)
  <2>1. {<<"preference", "4g">>, <<"if", "4g", 1>>, <<"await", "4g">>} \subseteq A
    BY DEF Asked
  <2> QED BY <1>1, <2>1, EnsureIs
<1>6. {<<"wfc", FALSE>>} = {b}
  OBVIOUS
<1> HIDE DEF a, b, c, d, e
<1>7. Form(<<a, b, c>>, A) /\ Has(<<a, b, c>>, {b})
  BY ONLY <1>3, <1>4, ThreesForm
<1>8. Form(<<d, c>>, A)
  BY <1>3, <1>4, TwosForm
<1>9. /\ Form(<<a, b, c>> \o e, A) /\ Has(<<a, b, c>> \o e, {b})
      /\ Has(<<a, b, c>> \o e, Prefs) /\ Has(<<a, b, c>> \o e, GenAwaits)
  BY <1>5, <1>7, FormConcat
<1>10. /\ Form((<<a, b, c>> \o e) \o <<d, c>>, A)
       /\ \A K : Has((<<a, b, c>> \o e) \o <<d, c>>, K) <=> Has(<<a, b, c>> \o e, K) \/ Has(<<d, c>>, K)
  BY <1>8, <1>9, FormConcat
<1> QED BY <1>2, <1>6, <1>9, <1>10 DEF Preparing

LEMMA CsfbIs ==
  ASSUME NEW A, Asked("4g") \subseteq A, <<"await", "lte">> \in A
  PROVE  Form(P!SetupCsfb, A) /\ Preparing("csfb", P!SetupCsfb)
<1> DEFINE s == P!SetupData("4g")
           e == EnsureScript("4g")
           c == <<"may">>
           d == <<"await", "lte">>
<1>1. "4g" \in P!Generations
  BY DEF P!Generations
<1>2. P!SetupCsfb = (s \o e) \o <<c, d>>
  BY <1>1, EnsureScriptIs DEF P!SetupCsfb
<1>3. c \in A /\ d \in A
  BY DEF Asked
<1>4. c \notin SkipOne /\ d \notin SkipOne
  BY DEF SkipOne
<1>5. Form(e, A)
  <2>1. {<<"preference", "4g">>, <<"if", "4g", 1>>, <<"await", "4g">>} \subseteq A
    BY DEF Asked
  <2> QED BY <1>1, <2>1, EnsureIs
<1>6. /\ Form(s \o e, A) /\ Has(s \o e, {<<"wfc", FALSE>>}) /\ Has(s \o e, {<<"wifi default">>})
      /\ Has(s \o e, Prefs)
  BY <1>1, <1>5, DataThen
<1>7. d = <<"await", "lte">>
  OBVIOUS
<1> HIDE DEF c, d, e, s
<1>8. Form(<<c, d>>, A) /\ LastIs(<<c, d>>, d)
  BY <1>3, <1>4, TwosForm
<1>9. /\ Form((s \o e) \o <<c, d>>, A) /\ LastIs((s \o e) \o <<c, d>>, d)
      /\ \A K : Has((s \o e) \o <<c, d>>, K) <=> Has(s \o e, K) \/ Has(<<c, d>>, K)
  BY <1>6, <1>8, FormConcat
<1> QED BY <1>2, <1>6, <1>7, <1>9 DEF Preparing

LEMMA StepsOf ==
  /\ \A g : /\ P!Steps("data", g) = P!SetupData(g) /\ P!Steps("voice", g) = P!SetupVoice(g)
           /\ P!Steps("volte", g) = P!SetupVolte /\ P!Steps("video", g) = P!SetupVideo
           /\ P!Steps("csfb", g) = P!SetupCsfb /\ P!Steps("rat", g) = P!SetupRat(g)
           /\ P!Steps("voice general", g) = P!SetupVoiceGeneral
           /\ P!Steps("data general", g) = P!SetupDataGeneral
           /\ P!Steps("iwlan", g) = P!SetupIwlan(TRUE)
           /\ P!Steps("iwlan no apm", g) = P!SetupIwlan(FALSE)
           /\ P!Steps("cellular preferred", g) = P!SetupCellularPreferred
           /\ P!Steps("switching", g) = P!Switching(g) /\ P!Steps("airplane", g) = P!AirplaneTest
           /\ P!Steps("bearer", g) = P!Bearer(g) /\ P!Steps("tethering", g) = P!Tethering
BY DEF P!Steps

LEMMA AlphabetOf ==
  ASSUME NEW g
  PROVE  /\ \A o \in AskedOf : Alphabet(o, g) = Asked(g)
         /\ Alphabet("csfb", g) = Asked(g) \union {<<"await", "lte">>}
         /\ Alphabet("bearer", g) = BearerSteps(g)
         /\ Alphabet("switching", g) = SwitchingSteps(g)
         /\ Alphabet("airplane", g) = AirplaneSteps
         /\ Alphabet("tethering", g) = TetheringSteps
         /\ Alphabet("iwlan", g) = Tame \union {<<"airplane", TRUE>>}
         /\ \A o \in Rough : Alphabet(o, g) = Tame
<1>1. \A o \in AskedOf : Alphabet(o, g) = Asked(g)
  BY DEF Alphabet, AskedOf, Rough
<1>2. Alphabet("csfb", g) = Asked(g) \union {<<"await", "lte">>}
  BY DEF Alphabet, AskedOf, Rough
<1>3. Alphabet("bearer", g) = BearerSteps(g)
  BY DEF Alphabet, AskedOf, Rough
<1>4. Alphabet("switching", g) = SwitchingSteps(g)
  BY DEF Alphabet, AskedOf, Rough
<1>5. Alphabet("airplane", g) = AirplaneSteps
  BY DEF Alphabet, AskedOf, Rough
<1>6. Alphabet("tethering", g) = TetheringSteps
  BY DEF Alphabet, AskedOf, Rough
<1>7. Alphabet("iwlan", g) = Tame \union {<<"airplane", TRUE>>}
  BY DEF Alphabet, AskedOf, Rough
<1>8. \A o \in Rough : Alphabet(o, g) = Tame
  BY DEF Alphabet, AskedOf, Rough
<1> QED BY <1>1, <1>2, <1>3, <1>4, <1>5, <1>6, <1>7, <1>8

LEMMA AskedSteps ==
  ASSUME NEW o \in AskedOf \union {"csfb"}, NEW g \in P!Generations, o \in P!Only4g => g = "4g"
  PROVE  Form(P!Steps(o, g), Alphabet(o, g)) /\ Preparing(o, P!Steps(o, g))
<1>1. <<"may">> \in Asked(g) /\ <<"may">> \notin SkipOne
  BY NoLook DEF Asked
<1>2. CASE o = "data"
  BY <1>2, DataIs, StepsOf, AlphabetOf DEF AskedOf, Preparing
<1>3. CASE o = "voice"
  <2>1. P!Steps(o, g) = P!SetupData(g) \o << <<"may">>, <<"may">> >> /\ Alphabet(o, g) = Asked(g)
    BY <1>3, StepsOf, AlphabetOf DEF P!SetupVoice, AskedOf
  <2>2. Form(<< <<"may">>, <<"may">> >>, Asked(g))
    BY <1>1, TwosForm
  <2> QED BY <1>3, <2>1, <2>2, DataThen DEF Preparing
<1>4. CASE o = "volte"
  <2>1. g = "4g"
    BY <1>4 DEF P!Only4g
  <2>2. P!Steps(o, g) = P!SetupData(g) \o << <<"may">>, <<"may">>, <<"may">> >> /\ Alphabet(o, g) = Asked(g)
    BY <1>4, <2>1, StepsOf, AlphabetOf DEF P!SetupVolte, AskedOf
  <2>3. Form(<< <<"may">>, <<"may">>, <<"may">> >>, Asked(g))
    BY <1>1, ThreesForm
  <2> QED BY <1>4, <2>2, <2>3, DataThen DEF Preparing
<1>5. CASE o = "video"
  <2>1. g = "4g"
    BY <1>5 DEF P!Only4g
  <2>2. P!Steps(o, g) = P!SetupVideo /\ Alphabet(o, g) = Asked("4g")
    BY <1>5, <2>1, StepsOf, AlphabetOf DEF AskedOf
  <2> QED BY <1>5, <2>2, VideoIs
<1>6. CASE o = "csfb"
  <2>1. g = "4g"
    BY <1>6 DEF P!Only4g
  <2>2. P!Steps(o, g) = P!SetupCsfb /\ Alphabet(o, g) = Asked("4g") \union {<<"await", "lte">>}
    BY <1>6, <2>1, StepsOf, AlphabetOf
  <2> QED BY <1>6, <2>2, CsfbIs
<1> QED BY <1>2, <1>3, <1>4, <1>5, <1>6 DEF AskedOf

LEMMA FoursForm ==
  ASSUME NEW A, NEW w \in A, NEW x \in A, NEW y \in A, NEW z \in A,
         w \notin SkipOne, x \notin SkipOne, y \notin SkipOne, z \notin SkipOne
  PROVE  /\ Form(<<w, x, y, z>>, A)
         /\ \A K : Has(<<w, x, y, z>>, K) <=> w \in K \/ x \in K \/ y \in K \/ z \in K
<1> DEFINE s == <<w, x, y, z>>
<1>1. /\ s \in Seq(A) /\ s # <<>> /\ DOMAIN s = 1 .. 4
      /\ s[1] = w /\ s[2] = x /\ s[3] = y /\ s[4] = z
  OBVIOUS
<1> HIDE DEF s
<1>2. \A K : Has(s, K) <=> w \in K \/ x \in K \/ y \in K \/ z \in K
  BY <1>1 DEF Has
<1>3. ThenNext(s, SkipOne, GenAwaits)
  BY <1>1 DEF ThenNext
<1> QED BY <1>1, <1>2, <1>3 DEF Form, s

LEMMA LacksNever ==
  ASSUME NEW s, ~Has(s, Risky) \/ ~Has(s, Trys) PROVE Never(s, Risky, Trys)
BY DEF Has, Never

(* What starts with x, then tries; what comes after the try holds none.    *)
Tried(s, A, x) == Form(s, A) /\ Never(s, Risky, Trys) /\ Has(s, Trys) /\ s[1] = x
Untried(t, A) == Form(t, A) /\ ~Has(t, Trys)

LEMMA FirstStays ==
  ASSUME NEW A, NEW s, NEW t, Form(s, A), Form(t, A)
  PROVE  (s \o t)[1] = s[1]
<1>1. s \in Seq(A) /\ t \in Seq(A) /\ s # <<>>
  BY DEF Form
<1>2. Len(s) \in Nat \ {0} /\ 1 \in 1 .. Len(s)
  BY <1>1, TailParts
<1> QED BY <1>1, <1>2, ConcatParts

LEMMA ThenUntried ==
  ASSUME NEW A, NEW x, NEW s, NEW t, Tried(s, A, x), Untried(t, A)
  PROVE  Tried(s \o t, A, x)
<1>1. s \in Seq(A) /\ t \in Seq(A) /\ Form(s, A) /\ Form(t, A)
  BY DEF Tried, Untried, Form
<1>2. Never(s \o t, Risky, Trys)
  BY <1>1, LacksNever, NeverConcat DEF Tried, Untried
<1>3. Form(s \o t, A) /\ Has(s \o t, Trys)
  BY <1>1, FormConcat DEF Tried
<1>4. (s \o t)[1] = s[1]
  <2>1. Len(s) \in Nat \ {0} /\ 1 \in 1 .. Len(s)
    BY <1>1, TailParts DEF Form
  <2> QED BY <1>1, <2>1, ConcatParts
<1> QED BY <1>2, <1>3, <1>4 DEF Tried

LEMMA VerifiedIs ==
  ASSUME NEW network, NEW A, <<"await", network>> \in A, <<"internet", TRUE>> \in A
  PROVE  Untried(P!Verified(network), A)
<1> DEFINE a == <<"await", network>>
           b == <<"internet", TRUE>>
<1>1. a \notin SkipOne /\ b \notin SkipOne /\ a \notin Trys /\ b \notin Trys
  BY DEF SkipOne, Trys
<1>2. a \in A /\ b \in A
  OBVIOUS
<1>3. P!Verified(network) = <<a, b>>
  BY DEF P!Verified
<1> HIDE DEF a, b
<1>4. Form(<<a, b>>, A) /\ \A K : Has(<<a, b>>, K) <=> a \in K \/ b \in K
  BY ONLY <1>1, <1>2, TwosForm
<1> QED BY <1>1, <1>3, <1>4 DEF Untried

LEMMA BearerIs ==
  ASSUME NEW g \in P!Generations
  PROVE  Tried(P!Bearer(g), BearerSteps(g), <<"preference", g>>)
<1> DEFINE A == BearerSteps(g)
           p == <<"preference", g>>
           a == <<"try">>
           b == <<"airplane", FALSE>>
           c == <<"data", TRUE>>
           d == <<"data", FALSE>>
           e == <<"await", "no cell">>
           f == <<"internet", FALSE>>
           h == <<"await", g>>
           v == P!Verified("cell")
           s0 == EnsureScript(g)
           s1 == s0 \o <<a, b, c>>
           s2 == s1 \o v
           s3 == s2 \o <<d, e, f, c>>
           s4 == s3 \o v
           s5 == s4 \o <<h>>
<1>1. P!Bearer(g) = s5
  BY EnsureScriptIs DEF P!Bearer
<1>2. a \in A /\ b \in A /\ c \in A /\ d \in A /\ e \in A /\ f \in A /\ h \in A
  BY DEF BearerSteps
<1>3. /\ a \notin SkipOne /\ b \notin SkipOne /\ c \notin SkipOne /\ d \notin SkipOne
      /\ e \notin SkipOne /\ f \notin SkipOne /\ h \notin SkipOne
  BY DEF SkipOne
<1>4. /\ a \in Trys /\ c \notin Trys /\ d \notin Trys /\ e \notin Trys /\ f \notin Trys /\ h \notin Trys
      /\ a \notin Risky /\ b \notin Risky /\ c \notin Risky
  BY DEF Trys, Risky
<1>5. Untried(v, A)
  <2>1. <<"await", "cell">> \in A /\ <<"internet", TRUE>> \in A
    BY DEF BearerSteps
  <2> QED BY <2>1, VerifiedIs
<1>6. Form(s0, A) /\ ~Has(s0, Risky) /\ s0[1] = p
  <2>1. {<<"preference", g>>, <<"if", g, 1>>, <<"await", g>>} \subseteq A
    BY DEF BearerSteps
  <2>2. s0[1] = p
    BY DEF EnsureScript
  <2> QED BY <2>1, <2>2, EnsureIs
<1> HIDE DEF A, p, a, b, c, d, e, f, h, v, s0
<1>7. /\ Form(<<a, b, c>>, A) /\ Has(<<a, b, c>>, Trys) /\ ~Has(<<a, b, c>>, Risky)
  BY ONLY <1>2, <1>3, <1>4, ThreesForm
<1>8. Untried(<<d, e, f, c>>, A)
  BY ONLY <1>2, <1>3, <1>4, FoursForm DEF Untried
<1>9. Untried(<<h>>, A)
  BY ONLY <1>2, <1>3, <1>4, OnesForm DEF Untried
<1>10. Tried(s1, A, p)
  <2>1. Form(s1, A) /\ Has(s1, Trys) /\ ~Has(s1, Risky)
    BY <1>6, <1>7, FormConcat
  <2>2. s1[1] = p
    BY <1>6, <1>7, FirstStays
  <2> QED BY <2>1, <2>2, LacksNever DEF Tried
<1> HIDE DEF s1
<1>11. Tried(s2, A, p)
  BY <1>5, <1>10, ThenUntried
<1> HIDE DEF s2
<1>12. Tried(s3, A, p)
  BY <1>8, <1>11, ThenUntried
<1> HIDE DEF s3
<1>13. Tried(s4, A, p)
  BY <1>5, <1>12, ThenUntried
<1> HIDE DEF s4
<1>14. Tried(s5, A, p)
  BY <1>9, <1>13, ThenUntried
<1> QED BY <1>1, <1>14 DEF A, p

LEMMA SwitchingIs ==
  ASSUME NEW g \in P!Generations
  PROVE  Tried(P!Switching(g), SwitchingSteps(g), <<"try">>)
<1> DEFINE A == SwitchingSteps(g)
           a == <<"try">>
           b == <<"join">>
           c == <<"airplane", FALSE>>
           d == <<"wifi", TRUE>>
           e == <<"data", TRUE>>
           f == <<"wifi", FALSE>>
           v == P!Verified("wifi")
           w == P!Verified("cell")
           i == EnsureScript(g)
           s0 == <<a>> \o i
           s1 == s0 \o <<b, c, d, e>>
           s2 == s1 \o v
           s3 == s2 \o <<f>>
           s4 == s3 \o w
           s5 == s4 \o <<d>>
           s6 == s5 \o v
           s7 == s6 \o <<f>>
           s8 == s7 \o w
<1>1. P!Switching(g) = s8
  BY EnsureScriptIs DEF P!Switching
<1>2. a \in A /\ b \in A /\ c \in A /\ d \in A /\ e \in A /\ f \in A
  BY DEF SwitchingSteps
<1>3. /\ a \notin SkipOne /\ b \notin SkipOne /\ c \notin SkipOne /\ d \notin SkipOne
      /\ e \notin SkipOne /\ f \notin SkipOne
  BY DEF SkipOne
<1>4. /\ a \in Trys /\ b \notin Trys /\ c \notin Trys /\ d \notin Trys /\ e \notin Trys /\ f \notin Trys
      /\ a \notin Risky
  BY DEF Trys, Risky
<1>5. Untried(v, A) /\ Untried(w, A)
  <2>1. <<"await", "cell">> \in A /\ <<"await", "wifi">> \in A /\ <<"internet", TRUE>> \in A
    BY DEF SwitchingSteps
  <2> QED BY <2>1, VerifiedIs
<1>6. Untried(i, A)
  <2>1. {<<"preference", g>>, <<"if", g, 1>>, <<"await", g>>} \subseteq A
    BY DEF SwitchingSteps
  <2> QED BY <2>1, EnsureIs DEF Untried
<1>7. <<a>>[1] = a /\ a = <<"try">>
  OBVIOUS
<1> HIDE DEF A, a, b, c, d, e, f, v, w, i
<1>8. Tried(<<a>>, A, a)
  <2>1. Form(<<a>>, A) /\ Has(<<a>>, Trys) /\ ~Has(<<a>>, Risky)
    BY ONLY <1>2, <1>3, <1>4, OnesForm
  <2> QED BY <1>7, <2>1, LacksNever DEF Tried
<1>9. Untried(<<b, c, d, e>>, A)
  BY ONLY <1>2, <1>3, <1>4, FoursForm DEF Untried
<1>10. Untried(<<f>>, A) /\ Untried(<<d>>, A)
  BY ONLY <1>2, <1>3, <1>4, OnesForm DEF Untried
<1>11. Tried(s0, A, a)
  BY <1>6, <1>8, ThenUntried
<1> HIDE DEF s0
<1>12. Tried(s1, A, a)
  BY <1>9, <1>11, ThenUntried
<1> HIDE DEF s1
<1>13. Tried(s2, A, a)
  BY <1>5, <1>12, ThenUntried
<1> HIDE DEF s2
<1>14. Tried(s3, A, a)
  BY <1>10, <1>13, ThenUntried
<1> HIDE DEF s3
<1>15. Tried(s4, A, a)
  BY <1>5, <1>14, ThenUntried
<1> HIDE DEF s4
<1>16. Tried(s5, A, a)
  BY <1>10, <1>15, ThenUntried
<1> HIDE DEF s5
<1>17. Tried(s6, A, a)
  BY <1>5, <1>16, ThenUntried
<1> HIDE DEF s6
<1>18. Tried(s7, A, a)
  BY <1>10, <1>17, ThenUntried
<1> HIDE DEF s7
<1>19. Tried(s8, A, a)
  BY <1>5, <1>18, ThenUntried
<1> QED BY <1>1, <1>7, <1>19 DEF A

LEMMA AirplaneIs == Tried(P!AirplaneTest, AirplaneSteps, <<"may">>)
<1> DEFINE a == <<"may">>
           b == <<"try">>
           c == <<"data", TRUE>>
           d == <<"wifi", FALSE>>
           e == <<"airplane on cell">>
           f == <<"internet", TRUE>>
           h == <<"airplane off cell">>
           k == <<"await", "no cell">>
           l == <<"internet", FALSE>>
           m == <<"await", "cell">>
           A == AirplaneSteps
           s == <<a, b, c, d, e, f, h, k, l, e, m, f>>
<1>1. P!AirplaneTest = s
  BY DEF P!AirplaneTest
<1>2. /\ a \in A /\ b \in A /\ c \in A /\ d \in A /\ e \in A /\ f \in A /\ h \in A /\ k \in A
      /\ l \in A /\ m \in A
  BY DEF AirplaneSteps
<1>3. /\ a \notin SkipOne /\ b \notin SkipOne /\ c \notin SkipOne /\ d \notin SkipOne
      /\ e \notin SkipOne /\ f \notin SkipOne /\ h \notin SkipOne /\ k \notin SkipOne
      /\ l \notin SkipOne /\ m \notin SkipOne
  BY DEF SkipOne
<1>4. a \notin Risky /\ b \notin Risky /\ b \in Trys
  BY DEF Risky, Trys
<1>5. /\ c \notin Trys /\ d \notin Trys /\ e \notin Trys /\ f \notin Trys /\ h \notin Trys
      /\ k \notin Trys /\ l \notin Trys /\ m \notin Trys
  BY DEF Trys
<1> HIDE DEF a, b, c, d, e, f, h, k, l, m, A
<1>6. DOMAIN s = 1 .. 12 /\ s # <<>> /\ s[1] = a /\ s[2] = b
  OBVIOUS
<1>7. /\ s[3] = c /\ s[4] = d /\ s[5] = e /\ s[6] = f /\ s[7] = h /\ s[8] = k /\ s[9] = l
      /\ s[10] = e /\ s[11] = m /\ s[12] = f
  OBVIOUS
<1>8. s \in Seq(A)
  BY ONLY <1>2
<1> HIDE DEF s
<1>9. \A i \in 3 .. 12 : s[i] \notin SkipOne /\ s[i] \notin Trys
  BY ONLY <1>3, <1>5, <1>7
<1>10. Never(s, Risky, Trys)
  <2> SUFFICES ASSUME NEW i \in 1 .. 12, NEW j \in 1 .. 12, i < j, s[i] \in Risky PROVE s[j] \notin Trys
    BY <1>6 DEF Never
  <2>1. i # 1 /\ i # 2
    BY <1>4, <1>6
  <2>2. j \in 3 .. 12
    BY <2>1
  <2> QED BY <1>9, <2>2
<1>11. Has(s, Trys)
  BY <1>4, <1>6 DEF Has
<1>12. \A i \in DOMAIN s : s[i] \notin SkipOne
  <2> SUFFICES ASSUME NEW i \in 1 .. 12 PROVE s[i] \notin SkipOne
    BY <1>6
  <2>1. i = 1 \/ i = 2 \/ i \in 3 .. 12
    OBVIOUS
  <2> QED BY <1>3, <1>6, <1>9, <2>1
<1>13. ThenNext(s, SkipOne, GenAwaits)
  BY <1>12 DEF ThenNext
<1>14. Tried(s, A, a)
  BY <1>6, <1>8, <1>10, <1>11, <1>13 DEF Tried, Form
<1> QED BY <1>1, <1>14 DEF A, a

LEMMA TetheringIs ==
  Tried(P!Tethering, TetheringSteps, <<"may">>)
<1> DEFINE A == TetheringSteps
           s == << <<"may">>, <<"try">>, <<"wifi", FALSE>>, <<"data", FALSE>>, <<"internet", FALSE>>,
                   <<"tether">>, <<"may">>, <<"join">>, <<"may">> >>
           v == P!Verified("wifi")
           a == <<"may">>
<1>1. P!Tethering = (s \o v) \o <<a>>
  BY DEF P!Tethering
<1>2. Untried(v, A)
  <2>1. <<"await", "wifi">> \in A /\ <<"internet", TRUE>> \in A
    BY DEF TetheringSteps
  <2> QED BY <2>1, VerifiedIs
<1>3. Untried(<<a>>, A)
  <2>1. a \in A /\ a \notin SkipOne /\ a \notin Trys
    BY DEF TetheringSteps, SkipOne, Trys
  <2> QED BY <2>1, OnesForm DEF Untried
<1>0. DOMAIN s = 1 .. 9 /\ s # <<>>
  OBVIOUS
<1>4. /\ s[1] = <<"may">> /\ s[2] = <<"try">> /\ s[3] = <<"wifi", FALSE>> /\ s[4] = <<"data", FALSE>>
      /\ s[5] = <<"internet", FALSE>> /\ s[6] = <<"tether">> /\ s[7] = <<"may">>
      /\ s[8] = <<"join">> /\ s[9] = <<"may">>
  OBVIOUS
<1>5. s \in Seq(A)
  BY DEF TetheringSteps
<1> HIDE DEF s
<1>6. \A i \in 1 .. 9 : s[i] \notin SkipOne /\ (i > 2 => s[i] \notin Trys)
  BY <1>4 DEF SkipOne, Trys
<1>7. s[1] \notin Risky /\ s[2] \notin Risky /\ s[2] \in Trys
  BY <1>4 DEF Risky, Trys
<1>8. Never(s, Risky, Trys)
  <2> SUFFICES ASSUME NEW i \in 1 .. 9, NEW j \in 1 .. 9, i < j, s[i] \in Risky PROVE s[j] \notin Trys
    BY <1>0 DEF Never
  <2>1. i # 1 /\ i # 2
    BY <1>7
  <2>2. j > 2
    BY <2>1
  <2> QED BY <1>6, <2>2
<1>9. Has(s, Trys) /\ ThenNext(s, SkipOne, GenAwaits)
  BY <1>0, <1>6, <1>7 DEF Has, ThenNext
<1>10. Tried(s, A, a)
  BY <1>0, <1>4, <1>5, <1>8, <1>9 DEF Tried, Form
<1> HIDE DEF v, a, A
<1>11. Tried((s \o v) \o <<a>>, A, a)
  BY <1>2, <1>3, <1>10, ThenUntried
<1> QED BY <1>1, <1>11 DEF A, a

(* What each tries first, and what it puts back.                           *)
FirstOf(o, g) ==
  CASE o = "switching" -> <<"try">> [] o = "bearer" -> <<"preference", g>> [] OTHER -> <<"may">>

LEMMA TryingSteps ==
  ASSUME NEW o \in Trying, NEW g \in P!Generations
  PROVE  Tried(P!Steps(o, g), Alphabet(o, g), FirstOf(o, g))
<1>1. CASE o = "switching"
  BY <1>1, SwitchingIs, StepsOf, AlphabetOf DEF FirstOf
<1>2. CASE o = "bearer"
  BY <1>2, BearerIs, StepsOf, AlphabetOf DEF FirstOf
<1>3. CASE o = "airplane"
  BY <1>3, AirplaneIs, StepsOf, AlphabetOf DEF FirstOf
<1>4. CASE o = "tethering"
  BY <1>4, TetheringIs, StepsOf, AlphabetOf DEF FirstOf
<1> QED BY <1>1, <1>2, <1>3, <1>4 DEF Trying

FirstPutBack(o) ==
  CASE o = "switching" -> <<"wifi", FALSE>> [] o = "airplane" -> <<"airplane", FALSE>>
    [] OTHER -> <<"data", TRUE>>

LEMMA CleanupIs ==
  ASSUME NEW o \in Trying, NEW g \in P!Generations
  PROVE  /\ Form(P!CleanupOf(o), Alphabet(o, g))
         /\ ~Has(P!CleanupOf(o), Risky) /\ ~Has(P!CleanupOf(o), Trys) /\ ~Has(P!CleanupOf(o), Prefs)
         /\ P!CleanupOf(o)[1] = FirstPutBack(o)
         /\ o = "switching" => Tail(P!CleanupOf(o)) = <<>>
         /\ o = "tethering" => LastIs(P!CleanupOf(o), <<"untether">>)
<1>1. CASE o = "switching"
  <2> DEFINE a == <<"wifi", FALSE>>
  <2>1. P!CleanupOf(o) = <<a>> /\ FirstPutBack(o) = a /\ <<a>>[1] = a
    BY <1>1 DEF P!CleanupOf, FirstPutBack
  <2>2. a \in Alphabet(o, g)
    BY <1>1, AlphabetOf DEF SwitchingSteps
  <2>3. a \notin SkipOne /\ a \notin Risky /\ a \notin Trys /\ a \notin Prefs
    BY DEF SkipOne, Risky, Trys, Prefs
  <2> HIDE DEF a
  <2>4. Tail(<<a>>) = <<>>
    <3>1. <<a>> \in Seq({a}) /\ <<a>> # <<>> /\ Len(<<a>>) = 1
      OBVIOUS
    <3> QED BY <3>1, TailParts
  <2>5. /\ Form(<<a>>, Alphabet(o, g))
        /\ ~Has(<<a>>, Risky) /\ ~Has(<<a>>, Trys) /\ ~Has(<<a>>, Prefs)
    BY <2>2, <2>3, OnesForm
  <2> QED BY <1>1, <2>1, <2>4, <2>5
<1>2. CASE o = "airplane"
  <2> DEFINE a == <<"airplane", FALSE>>
  <2>1. P!CleanupOf(o) = <<a>> /\ FirstPutBack(o) = a /\ <<a>>[1] = a
    BY <1>2 DEF P!CleanupOf, FirstPutBack
  <2>2. a \in Alphabet(o, g)
    BY <1>2, AlphabetOf DEF AirplaneSteps
  <2>3. a \notin SkipOne /\ a \notin Risky /\ a \notin Trys /\ a \notin Prefs
    BY DEF SkipOne, Risky, Trys, Prefs
  <2> HIDE DEF a
  <2> QED BY <1>2, <2>1, <2>2, <2>3, OnesForm
<1>3. CASE o = "bearer"
  <2> DEFINE a == <<"data", TRUE>>
  <2>1. P!CleanupOf(o) = <<a>> /\ FirstPutBack(o) = a /\ <<a>>[1] = a
    BY <1>3 DEF P!CleanupOf, FirstPutBack
  <2>2. a \in Alphabet(o, g)
    BY <1>3, AlphabetOf DEF BearerSteps
  <2>3. a \notin SkipOne /\ a \notin Risky /\ a \notin Trys /\ a \notin Prefs
    BY DEF SkipOne, Risky, Trys, Prefs
  <2> HIDE DEF a
  <2> QED BY <1>3, <2>1, <2>2, <2>3, OnesForm
<1>4. CASE o = "tethering"
  <2> DEFINE a == <<"data", TRUE>>
             b == <<"wifi default">>
             c == <<"untether">>
             A == Alphabet(o, g)
  <2>1. P!CleanupOf(o) = <<a, b, c>> /\ FirstPutBack(o) = a /\ <<a, b, c>>[1] = a
    BY <1>4 DEF P!CleanupOf, FirstPutBack
  <2>2. a \in A /\ b \in A /\ c \in A
    BY <1>4, AlphabetOf DEF TetheringSteps
  <2>3. /\ a \notin SkipOne /\ a \notin Risky /\ a \notin Trys /\ a \notin Prefs
        /\ b \notin SkipOne /\ b \notin Risky /\ b \notin Trys /\ b \notin Prefs
        /\ c \notin SkipOne /\ c \notin Risky /\ c \notin Trys /\ c \notin Prefs
    BY DEF SkipOne, Risky, Trys, Prefs
  <2>4. c = <<"untether">>
    OBVIOUS
  <2> HIDE DEF a, b, c, A
  <2>5. /\ Form(<<a, b, c>>, A) /\ LastIs(<<a, b, c>>, c)
        /\ ~Has(<<a, b, c>>, Risky) /\ ~Has(<<a, b, c>>, Trys) /\ ~Has(<<a, b, c>>, Prefs)
    BY <2>2, <2>3, ThreesForm
  <2> QED BY <1>4, <2>1, <2>4, <2>5 DEF A
<1> QED BY <1>1, <1>2, <1>3, <1>4 DEF Trying

-----------------------------------------------------------------------------
(* The functions that toggle airplane mode.                                *)
LEMMA FiveJoins ==
  ASSUME NEW a, NEW b, NEW c, NEW d, NEW e
  PROVE  (<<a, b>> \o <<c, d>>) \o <<e>> = <<a, b, c, d, e>>
<1> DEFINE S == {a, b, c, d, e}
           p == <<a, b>>
           q == <<c, d>>
           r == <<e>>
           t == <<a, b, c, d, e>>
<1>1. /\ p \in Seq(S) /\ q \in Seq(S) /\ r \in Seq(S) /\ t \in Seq(S)
      /\ Len(p) = 2 /\ Len(q) = 2 /\ Len(r) = 1 /\ Len(t) = 5
  OBVIOUS
<1>2. /\ p[1] = a /\ p[2] = b /\ q[1] = c /\ q[2] = d /\ r[1] = e
      /\ t[1] = a /\ t[2] = b /\ t[3] = c /\ t[4] = d /\ t[5] = e
  OBVIOUS
<1> HIDE DEF S, p, q, r, t
<1> DEFINE u == p \o q
<1>3. u \in Seq(S) /\ Len(u) = 4 /\ u[1] = a /\ u[2] = b /\ u[3] = c /\ u[4] = d
  <2>0. p \in Seq(S) /\ q \in Seq(S)
    BY <1>1
  <2>1. /\ u \in Seq(S) /\ Len(u) = Len(p) + Len(q)
        /\ \A i \in 1 .. Len(p) : u[i] = p[i]
        /\ \A i \in 1 .. Len(q) : u[Len(p) + i] = q[i]
    BY ONLY <2>0, ConcatParts
  <2>2. 1 \in 1 .. Len(p) /\ 2 \in 1 .. Len(p) /\ 1 \in 1 .. Len(q) /\ 2 \in 1 .. Len(q)
    BY <1>1
  <2>3. u[1] = p[1] /\ u[2] = p[2] /\ u[Len(p) + 1] = q[1] /\ u[Len(p) + 2] = q[2]
    BY <2>1, <2>2
  <2>4. Len(p) + 1 = 3 /\ Len(p) + 2 = 4 /\ Len(p) + Len(q) = 4
    BY <1>1
  <2> QED BY <1>2, <2>1, <2>3, <2>4
<1> HIDE DEF u
<1> DEFINE v == u \o r
<1>4. v \in Seq(S) /\ Len(v) = 5 /\ v[1] = a /\ v[2] = b /\ v[3] = c /\ v[4] = d /\ v[5] = e
  <2>0. u \in Seq(S) /\ r \in Seq(S)
    BY <1>1, <1>3
  <2>1. /\ v \in Seq(S) /\ Len(v) = Len(u) + Len(r)
        /\ \A i \in 1 .. Len(u) : v[i] = u[i]
        /\ \A i \in 1 .. Len(r) : v[Len(u) + i] = r[i]
    BY ONLY <2>0, ConcatParts
  <2>2. 1 \in 1 .. Len(u) /\ 2 \in 1 .. Len(u) /\ 3 \in 1 .. Len(u) /\ 4 \in 1 .. Len(u) /\ 1 \in 1 .. Len(r)
    BY <1>1, <1>3
  <2>3. v[1] = u[1] /\ v[2] = u[2] /\ v[3] = u[3] /\ v[4] = u[4] /\ v[Len(u) + 1] = r[1]
    BY <2>1, <2>2
  <2>4. Len(u) + 1 = 5 /\ Len(u) + Len(r) = 5
    BY <1>1, <1>3
  <2> QED BY <1>2, <1>3, <2>1, <2>3, <2>4
<1> HIDE DEF v
<1>5. \A i \in 1 .. Len(v) : v[i] = t[i]
  <2>1. \A i \in 1 .. Len(v) : i = 1 \/ i = 2 \/ i = 3 \/ i = 4 \/ i = 5
    BY <1>4
  <2> QED BY <1>2, <1>4, <2>1
<1>6. v = t
  BY <1>1, <1>4, <1>5, SameSequence
<1> QED BY <1>6 DEF v, u, t, p, q, r

LEMMA EnsureToggles ==
  ASSUME NEW set, NEW what, NEW back
  PROVE  P!Ensure(set, what, P!Toggles(back))
           = <<set, <<"if", what, 3>>, <<"airplane", TRUE>>, back, <<"await", what>> >>
<1>1. Len(P!Toggles(back)) + 1 = 3
  BY DEF P!Toggles
<1>2. P!Ensure(set, what, P!Toggles(back))
        = (<<set, <<"if", what, 3>> >> \o << <<"airplane", TRUE>>, back>>) \o << <<"await", what>> >>
  BY <1>1 DEF P!Ensure, P!Toggles
<1> DEFINE b == <<"if", what, 3>>
           c == <<"airplane", TRUE>>
           e == <<"await", what>>
<1> HIDE DEF b, c, e
<1>3. (<<set, b>> \o <<c, back>>) \o <<e>> = <<set, b, c, back, e>>
  BY FiveJoins
<1> QED BY <1>2, <1>3 DEF b, c, e

LEMMA ToggledSteps ==
  ASSUME NEW o \in Toggled, NEW g \in P!Generations
  PROVE  /\ P!Steps(o, g) \in ToggledRests(o, g)
         /\ P!Steps(o, g)[1] = Setting(o, g) /\ P!Steps(o, g) # <<>>
         /\ P!Steps(o, g)[1] # Back(o)
<1> DEFINE t == <<Setting(o, g), <<"if", Ensured(o, g), 3>>, <<"airplane", TRUE>>, Back(o),
                  <<"await", Ensured(o, g)>> >>
<1>1. o = "generation" => P!Steps(o, g) = P!Ensure(Setting(o, g), Ensured(o, g), P!Toggles(Back(o)))
  <2> HAVE o = "generation"
  <2>1. P!Steps(o, g) = P!EnsureGeneration(g, P!Toggles(<<"airplane", FALSE>>))
    BY DEF P!Steps
  <2>2. Setting(o, g) = <<"preference", g>> /\ Ensured(o, g) = g /\ Back(o) = <<"airplane", FALSE>>
    BY DEF Setting, Ensured, Back
  <2>3. P!Steps(o, g) = P!Ensure(Setting(o, g), Ensured(o, g), P!Toggles(Back(o)))
    BY <2>1, <2>2 DEF P!EnsureGeneration
  <2> QED BY <2>3
<1>2. o = "ensure rat" => P!Steps(o, g) = P!Ensure(Setting(o, g), Ensured(o, g), P!Toggles(Back(o)))
  <2> HAVE o = "ensure rat"
  <2>1. P!Steps(o, g) = P!EnsureRat(g, P!Toggles(<<"airplane other">>))
    BY DEF P!Steps
  <2>2. Setting(o, g) = <<"set", g>> /\ Ensured(o, g) = P!Family(g) /\ Back(o) = <<"airplane other">>
    BY DEF Setting, Ensured, Back
  <2>3. P!Steps(o, g) = P!Ensure(Setting(o, g), Ensured(o, g), P!Toggles(Back(o)))
    BY <2>1, <2>2 DEF P!EnsureRat
  <2> QED BY <2>3
<1>3. o = "ensure preference" => P!Steps(o, g) = P!Ensure(Setting(o, g), Ensured(o, g), P!Toggles(Back(o)))
  <2> HAVE o = "ensure preference"
  <2>1. P!Steps(o, g) = P!EnsurePreference(g, P!Toggles(<<"airplane", FALSE>>))
    BY DEF P!Steps
  <2>2. /\ Setting(o, g) = <<"set", g>> /\ Ensured(o, g) = (IF g = "4g" THEN "listed" ELSE g)
        /\ Back(o) = <<"airplane", FALSE>>
    BY DEF Setting, Ensured, Back
  <2>3. P!Steps(o, g) = P!Ensure(Setting(o, g), Ensured(o, g), P!Toggles(Back(o)))
    BY <2>1, <2>2 DEF P!EnsurePreference
  <2> QED BY <2>3
<1>4. P!Steps(o, g) = t
  <2>1. P!Steps(o, g) = P!Ensure(Setting(o, g), Ensured(o, g), P!Toggles(Back(o)))
    BY <1>1, <1>2, <1>3 DEF Toggled
  <2> QED BY <2>1, EnsureToggles
<1>5. t \in ToggledRests(o, g) /\ t[1] = Setting(o, g) /\ t # <<>>
  BY DEF ToggledRests, RestsOfFive
<1>6. Setting(o, g)[1] # Back(o)[1]
  BY DEF Setting, Back
<1> HIDE DEF t
<1> QED BY <1>4, <1>5, <1>6

LEMMA FiveRests ==
  ASSUME NEW a, NEW b, NEW c, NEW d, NEW e, a \notin {b, c, d, e}, b \notin {c, d, e}, c \notin {d, e},
         d # e,
         NEW s \in RestsOfFive(a, b, c, d, e), s # <<>>
  PROVE  /\ Tail(s) \in RestsOfFive(a, b, c, d, e)
         /\ s[1] \in {a, b, c, d, e} /\ (s[1] = b => Len(s) = 4)
         /\ s[1] = c => Tail(s) # <<>> /\ Tail(s)[1] = d
         /\ Tail(s) # <<>> /\ Tail(s)[1] = d => s[1] = c
         /\ \A i \in DOMAIN Tail(s) : Tail(s)[i] \in {b, c, d, e}
<1> USE DEF RestsOfFive
<1>1. CASE s = <<a, b, c, d, e>>
  <2>1. Tail(s) = <<b, c, d, e>> /\ s[1] = a
    BY <1>1
  <2>2. <<b, c, d, e>>[1] = b /\ \A i \in DOMAIN <<b, c, d, e>> : <<b, c, d, e>>[i] \in {b, c, d, e}
    OBVIOUS
  <2> QED BY <2>1, <2>2
<1>2. CASE s = <<b, c, d, e>>
  <2>1. Tail(s) = <<c, d, e>> /\ s[1] = b /\ Len(s) = 4
    BY <1>2
  <2>2. <<c, d, e>>[1] = c /\ \A i \in DOMAIN <<c, d, e>> : <<c, d, e>>[i] \in {b, c, d, e}
    OBVIOUS
  <2> QED BY <2>1, <2>2
<1>3. CASE s = <<c, d, e>>
  <2>1. Tail(s) = <<d, e>> /\ s[1] = c
    BY <1>3
  <2>2. /\ <<d, e>>[1] = d /\ <<d, e>> # <<>>
        /\ \A i \in DOMAIN <<d, e>> : <<d, e>>[i] \in {b, c, d, e}
    OBVIOUS
  <2> QED BY <2>1, <2>2
<1>4. CASE s = <<d, e>>
  <2>1. Tail(s) = <<e>> /\ s[1] = d
    BY <1>4
  <2>2. <<e>>[1] = e /\ \A i \in DOMAIN <<e>> : <<e>>[i] \in {b, c, d, e}
    OBVIOUS
  <2> QED BY <2>1, <2>2
<1>5. CASE s = <<e>>
  <2>1. Tail(s) = <<>> /\ s[1] = e
    BY <1>5
  <2>2. \A i \in DOMAIN <<>> : <<>>[i] \in {b, c, d, e}
    OBVIOUS
  <2> QED BY <2>1, <2>2
<1> QED BY <1>1, <1>2, <1>3, <1>4, <1>5

(* A rest of them: what it starts with, and what is left after that.       *)
LEMMA RestOf ==
  ASSUME NEW o \in Toggled, NEW g \in P!Generations, NEW s \in ToggledRests(o, g), s # <<>>
  PROVE  /\ Tail(s) \in ToggledRests(o, g)
         /\ \/ s[1] = Setting(o, g) \/ s[1] = <<"if", Ensured(o, g), 3>>
            \/ s[1] = <<"airplane", TRUE>> \/ s[1] = Back(o) \/ s[1] = <<"await", Ensured(o, g)>>
         /\ s[1] = <<"if", Ensured(o, g), 3>> => Len(s) = 4
         /\ s[1] = <<"airplane", TRUE>> => Tail(s) # <<>> /\ Tail(s)[1] = Back(o)
         /\ Tail(s) # <<>> /\ Tail(s)[1] = Back(o) => s[1] = <<"airplane", TRUE>>
         /\ ~Has(Tail(s), Prefs)
<1> DEFINE a == Setting(o, g)
           b == <<"if", Ensured(o, g), 3>>
           c == <<"airplane", TRUE>>
           d == Back(o)
           e == <<"await", Ensured(o, g)>>
<1>1. a[1] \in {"preference", "set"} /\ b[1] = "if" /\ c[1] = "airplane" /\ e[1] = "await"
  BY DEF Setting
<1>2. d[1] \in {"airplane", "airplane other"} /\ c # d
  BY DEF Back
<1>3. b \notin Prefs /\ c \notin Prefs /\ d \notin Prefs /\ e \notin Prefs
  BY DEF Prefs, Back
<1>4. ToggledRests(o, g) = RestsOfFive(a, b, c, d, e)
  BY DEF ToggledRests
<1>5. s[1] \in {a, b, c, d, e} =>
        \/ s[1] = Setting(o, g) \/ s[1] = <<"if", Ensured(o, g), 3>>
        \/ s[1] = <<"airplane", TRUE>> \/ s[1] = Back(o) \/ s[1] = <<"await", Ensured(o, g)>>
  OBVIOUS
<1> HIDE DEF a, b, c, d, e
<1>6. a \notin {b, c, d, e} /\ b \notin {c, d, e} /\ c \notin {d, e} /\ d # e
  BY <1>1, <1>2
<1>7. /\ Tail(s) \in RestsOfFive(a, b, c, d, e)
      /\ s[1] \in {a, b, c, d, e} /\ (s[1] = b => Len(s) = 4)
      /\ s[1] = c => Tail(s) # <<>> /\ Tail(s)[1] = d
      /\ Tail(s) # <<>> /\ Tail(s)[1] = d => s[1] = c
      /\ \A i \in DOMAIN Tail(s) : Tail(s)[i] \in {b, c, d, e}
  <2>1. s \in RestsOfFive(a, b, c, d, e) /\ s # <<>>
    BY <1>4
  <2> QED BY ONLY <1>6, <2>1, FiveRests
<1>8. ~Has(Tail(s), Prefs)
  BY <1>3, <1>7 DEF Has
<1> QED BY <1>4, <1>5, <1>7, <1>8 DEF a, b, c, d, e

-----------------------------------------------------------------------------
(* The others, which only have to be tame.                                 *)
LEMMA TameAre ==
  /\ <<"airplane", FALSE>> \in Tame /\ <<"wifi default">> \in Tame /\ <<"reset preference">> \in Tame
  /\ <<"join">> \in Tame /\ <<"may">> \in Tame
  /\ \A on_ \in BOOLEAN : <<"wfc", on_>> \in Tame
  /\ \A g \in P!Generations : <<"preference", g>> \in Tame /\ <<"set", g>> \in Tame
  /\ \A w \in Whats : <<"await", w>> \in Tame
  /\ \A w \in Whats, n \in Nat : <<"if", w, n>> \in Tame
  /\ \A n \in Nat : <<"may skip", n>> \in Tame /\ <<"volte", n>> \in Tame
<1>1. /\ <<"airplane", FALSE>> \in Tame /\ <<"wifi default">> \in Tame /\ <<"reset preference">> \in Tame
      /\ <<"join">> \in Tame /\ <<"may">> \in Tame
  BY DEF Tame
<1>2. \A on_ \in BOOLEAN : <<"wfc", on_>> \in Tame
  BY DEF Tame
<1>3. \A g \in P!Generations : <<"preference", g>> \in Tame /\ <<"set", g>> \in Tame
  BY DEF Tame
<1>4. \A w \in Whats : <<"await", w>> \in Tame
  BY DEF Tame
<1>5. \A w \in Whats, n \in Nat : <<"if", w, n>> \in Tame
  BY DEF Tame
<1>6. \A n \in Nat : <<"may skip", n>> \in Tame /\ <<"volte", n>> \in Tame
  BY DEF Tame
<1> QED BY <1>1, <1>2, <1>3, <1>4, <1>5, <1>6

LEMMA TamePrepare == P!Prepare \in Seq(Tame)
<1>1. {<<"airplane", FALSE>>, <<"wifi default">>, <<"wfc", FALSE>>} \subseteq Tame
  BY TameAre
<1> QED BY <1>1, PrepareIs DEF Form

LEMMA TameEnsure ==
  ASSUME NEW g \in P!Generations
  PROVE  P!EnsureGeneration(g, <<>>) \in Seq(Tame) /\ Len(P!EnsureGeneration(g, <<>>)) \in Nat
<1>1. g \in Whats /\ 1 \in Nat
  BY DEF P!Generations, Whats
<1>2. <<"preference", g>> \in Tame /\ <<"if", g, 1>> \in Tame /\ <<"await", g>> \in Tame
  BY <1>1, TameAre
<1>3. EnsureScript(g) \in Seq(Tame)
  BY <1>2 DEF EnsureScript
<1> QED BY <1>3, EnsureScriptIs

LEMMA TameConcat ==
  ASSUME NEW S, NEW s \in Seq(S), NEW t \in Seq(S) PROVE s \o t \in Seq(S)
OBVIOUS

LEMMA TameVoice == P!SetupVoice("3g") \in Seq(Tame) /\ Len(P!SetupVoice("3g")) \in Nat
<1>1. "3g" \in P!Generations
  BY DEF P!Generations
<1>2. P!SetupData("3g") \in Seq(Tame)
  BY <1>1, TamePrepare, TameEnsure, TameConcat DEF P!SetupData
<1>3. << <<"may">>, <<"may">> >> \in Seq(Tame)
  <2>1. <<"may">> \in Tame /\ <<"may">> \notin SkipOne
    BY TameAre DEF SkipOne
  <2> QED BY <2>1, TwosForm DEF Form
<1>4. P!SetupVoice("3g") \in Seq(Tame)
  BY <1>2, <1>3, TameConcat DEF P!SetupVoice
<1> QED BY <1>4

LEMMA TameRat == ASSUME NEW g \in P!Generations PROVE P!SetupRat(g) \in Seq(Tame)
<1> DEFINE what == P!Family(g)
           a == <<"set", g>>
           b == <<"if", what, 1>>
           c == <<"await", what>>
<1>1. Len(<<>>) + 1 = 1 /\ 1 \in Nat
  OBVIOUS
<1>2. what \in Whats
  BY DEF P!Family, P!Generations, Whats
<1>3. a \in Tame /\ b \in Tame /\ c \in Tame
  BY <1>1, <1>2, TameAre
<1>4. P!EnsureRat(g, <<>>) = (<<a, b>> \o <<>>) \o <<c>>
  BY <1>1 DEF P!EnsureRat, P!Ensure
<1> HIDE DEF a, b, c
<1>5. <<a, b>> \in Seq(Tame) /\ <<c>> \in Seq(Tame) /\ <<>> \in Seq(Tame)
  BY <1>3
<1>6. P!EnsureRat(g, <<>>) \in Seq(Tame)
  BY <1>4, <1>5, TameConcat
<1> QED BY <1>6, TamePrepare, TameConcat DEF P!SetupRat

LEMMA TameIwlan ==
  ASSUME NEW on_ \in BOOLEAN, NEW S, Tame \subseteq S, <<"airplane", on_>> \in S
  PROVE  P!SetupIwlan(on_) \in Seq(S)
<1> DEFINE a == <<"airplane", on_>>
           b == <<"may">>
           c == <<"may skip", 1>>
           d == <<"join">>
           e == <<"wfc", TRUE>>
           f == <<"await", "iwlan">>
<1>1. a \in S /\ b \in S /\ c \in S /\ d \in S /\ e \in S /\ f \in S
  <2>1. "iwlan" \in Whats /\ 1 \in Nat
    BY DEF Whats
  <2>2. b \in Tame /\ c \in Tame /\ d \in Tame /\ e \in Tame /\ f \in Tame
    BY <2>1, TameAre
  <2> QED BY <2>2
<1>2. P!SetupIwlan(on_) = (<<a, b>> \o <<c, d>>) \o <<e, b, f>>
  BY DEF P!SetupIwlan, P!Join
<1> HIDE DEF a, b, c, d, e, f
<1>3. <<a, b>> \in Seq(S) /\ <<c, d>> \in Seq(S) /\ <<e, b, f>> \in Seq(S)
  BY ONLY <1>1
<1>4. (<<a, b>> \o <<c, d>>) \o <<e, b, f>> \in Seq(S)
  BY ONLY <1>3, TameConcat
<1> QED BY <1>2, <1>4

LEMMA TamePreferred == P!SetupCellularPreferred \in Seq(Tame)
<1> DEFINE s == P!EnsureGeneration("4g", <<>>)
           n == Len(s)
           a == <<"airplane", FALSE>>
           b == <<"volte", 1 + n>>
           c == <<"if", "4g", n>>
           d == <<"wfc", TRUE>>
           e == <<"may skip", 1>>
           f == <<"join">>
           h == <<"await", "not iwlan">>
           k == <<"may">>
<1>1. s \in Seq(Tame) /\ n \in Nat
  BY TameEnsure DEF P!Generations
<1>2. P!SetupCellularPreferred = (((<<a, b, c>> \o s) \o <<d>>) \o <<e, f>>) \o <<h, k>>
  BY DEF P!SetupCellularPreferred, P!Join
<1> HIDE DEF s
<1>3. a \in Tame /\ b \in Tame /\ c \in Tame /\ d \in Tame /\ e \in Tame /\ f \in Tame /\ h \in Tame /\ k \in Tame
  <2>1. "4g" \in Whats /\ "not iwlan" \in Whats /\ 1 + n \in Nat /\ 1 \in Nat
    BY <1>1 DEF Whats
  <2> QED BY <1>1, <2>1, TameAre
<1> HIDE DEF a, b, c, d, e, f, h, k
<1>4. <<a, b, c>> \in Seq(Tame) /\ <<d>> \in Seq(Tame) /\ <<e, f>> \in Seq(Tame) /\ <<h, k>> \in Seq(Tame)
  BY ONLY <1>3
<1>5. (((<<a, b, c>> \o s) \o <<d>>) \o <<e, f>>) \o <<h, k>> \in Seq(Tame)
  BY ONLY <1>1, <1>4, TameConcat
<1> QED BY <1>2, <1>5

LEMMA TameGeneral == P!SetupVoiceGeneral \in Seq(Tame) /\ P!SetupDataGeneral \in Seq(Tame)
<1>1. P!SetupVoiceGeneral \in Seq(Tame)
  <2> DEFINE s == P!SetupVoice("3g")
             n == Len(s)
             a == <<"airplane", FALSE>>
             b == <<"may skip", n>>
  <2>1. s \in Seq(Tame) /\ n \in Nat
    BY TameVoice
  <2>2. P!SetupVoiceGeneral = <<a, b>> \o s
    BY DEF P!SetupVoiceGeneral
  <2>3. a \in Tame /\ b \in Tame
    BY <2>1, TameAre
  <2> HIDE DEF s, a, b
  <2>4. <<a, b>> \in Seq(Tame)
    BY ONLY <2>3
  <2> QED BY <2>1, <2>2, <2>4, TameConcat
<1>2. P!SetupDataGeneral \in Seq(Tame)
  <2> DEFINE a == <<"airplane", FALSE>>
             b == <<"if", "attached", 1>>
             c == <<"reset preference">>
             d == <<"await", "attached">>
  <2>1. a \in Tame /\ b \in Tame /\ c \in Tame /\ d \in Tame
    <3>1. "attached" \in Whats /\ 1 \in Nat
      BY DEF Whats
    <3> QED BY <3>1, TameAre
  <2>2. P!SetupDataGeneral = <<a, b, c, d>>
    BY DEF P!SetupDataGeneral
  <2> HIDE DEF a, b, c, d
  <2>3. <<a, b, c, d>> \in Seq(Tame)
    BY ONLY <2>1
  <2> QED BY <2>2, <2>3
<1> QED BY <1>1, <1>2

(* What each function has to do when it is called.                         *)
LEMMA OpsAre ==
  /\ P!AnyGeneration \union P!Only4g
       = ((AskedOf \union {"csfb"}) \union (Toggled \union Trying)) \union ({"iwlan"} \union (Rough \ {"none"}))
  /\ "none" \notin P!AnyGeneration \union P!Only4g
  /\ (AskedOf \union {"csfb"}) \cap ((Toggled \union Trying) \union ({"iwlan"} \union Rough)) = {}
  /\ Toggled \cap (Trying \union ({"iwlan"} \union Rough)) = {}
  /\ Trying \cap ({"iwlan"} \union Rough) = {}
  /\ Even = (AskedOf \union {"csfb"}) \union Trying
BY DEF P!AnyGeneration, P!Only4g, AskedOf, Toggled, Trying, Rough, Even

LEMMA FormShaped ==
  ASSUME NEW o, NEW g, NEW s, o \notin Toggled, Form(s, Alphabet(o, g)),
         o \in Trying => Never(s, Risky, Trys), o = "csfb" => LastIs(s, <<"await", "lte">>)
  PROVE  Shaped(o, g, s)
BY DEF Shaped, Form

LEMMA StepsFit ==
  ASSUME NEW o \in P!AnyGeneration \union P!Only4g, NEW g \in P!Generations, o \in P!Only4g => g = "4g"
  PROVE  Shaped(o, g, P!Steps(o, g))
<1>1. CASE o \in AskedOf \union {"csfb"}
  <2>1. o \notin Toggled /\ o \notin Trying
    BY <1>1, OpsAre
  <2>2. Form(P!Steps(o, g), Alphabet(o, g)) /\ Preparing(o, P!Steps(o, g))
    BY <1>1, AskedSteps
  <2> QED BY <2>1, <2>2, FormShaped DEF Preparing
<1>2. CASE o \in Toggled
  <2>1. o \notin Even /\ o \notin Trying /\ o # "csfb"
    BY <1>2, OpsAre
  <2> QED BY <1>2, <2>1, ToggledSteps DEF Shaped
<1>3. CASE o \in Trying
  <2>1. o \notin Toggled /\ o # "csfb"
    BY <1>3, OpsAre
  <2>2. Tried(P!Steps(o, g), Alphabet(o, g), FirstOf(o, g))
    BY <1>3, TryingSteps
  <2> QED BY <2>1, <2>2, FormShaped DEF Tried
<1>4. CASE o \in {"iwlan"} \union (Rough \ {"none"})
  <2>1. o \notin Even /\ o \notin Trying /\ o # "csfb" /\ o \notin Toggled
    BY <1>4, OpsAre
  <2>2. P!Steps(o, g) \in Seq(Alphabet(o, g))
    <3>1. CASE o = "iwlan"
      <4>1. P!SetupIwlan(TRUE) \in Seq(Tame \union {<<"airplane", TRUE>>})
        BY TameIwlan
      <4> QED BY <3>1, <4>1, StepsOf, AlphabetOf
    <3>2. CASE o \in Rough \ {"none"}
      <4>1. Alphabet(o, g) = Tame
        BY <3>2, AlphabetOf
      <4>2. P!SetupIwlan(FALSE) \in Seq(Tame)
        BY TameIwlan, TameAre
      <4>3. P!Steps(o, g) \in Seq(Tame)
        BY <3>2, <4>2, StepsOf, TameRat, TameGeneral, TamePreferred DEF Rough
      <4> QED BY <4>1, <4>3
    <3> QED BY <1>4, <3>1, <3>2
  <2> QED BY <2>1, <2>2 DEF Shaped
<1> QED BY <1>1, <1>2, <1>3, <1>4, OpsAre

LEMMA CleanupFits ==
  ASSUME NEW o \in Trying, NEW g \in P!Generations PROVE Shaped(o, g, P!CleanupOf(o))
<1>1. o \notin Toggled /\ o # "csfb"
  BY OpsAre
<1> QED BY <1>1, CleanupIs, LacksNever, FormShaped

LEMMA EmptyFits == ASSUME NEW o, NEW g PROVE Shaped(o, g, <<>>)
<1>1. <<>> \in Seq(Alphabet(o, g))
  OBVIOUS
<1>2. <<>> \in ToggledRests(o, g)
  BY DEF ToggledRests, RestsOfFive
<1>3. ThenNext(<<>>, SkipOne, GenAwaits) /\ Never(<<>>, Risky, Trys) /\ LastIs(<<>>, <<"await", "lte">>)
  BY DEF ThenNext, Never, LastIs
<1> QED BY <1>1, <1>2, <1>3 DEF Shaped

(* In either form there are elements, of which the lemmas speak.           *)
LEMMA AnySequence ==
  ASSUME NEW o, NEW g \in P!Generations, NEW s, Shaped(o, g, s)
  PROVE  \E S : s \in Seq(S)
<1>1. CASE o \in Toggled
  <2> DEFINE a == Setting(o, g)
             b == <<"if", Ensured(o, g), 3>>
             c == <<"airplane", TRUE>>
             d == Back(o)
             e == <<"await", Ensured(o, g)>>
             S == {a, b, c, d, e}
  <2>1. s \in RestsOfFive(a, b, c, d, e)
    BY <1>1 DEF Shaped, ToggledRests
  <2> HIDE DEF a, b, c, d, e
  <2>2. a \in S /\ b \in S /\ c \in S /\ d \in S /\ e \in S
    OBVIOUS
  <2> HIDE DEF S
  <2>3. /\ <<a, b, c, d, e>> \in Seq(S) /\ <<b, c, d, e>> \in Seq(S) /\ <<c, d, e>> \in Seq(S)
        /\ <<d, e>> \in Seq(S) /\ <<e>> \in Seq(S) /\ <<>> \in Seq(S)
    BY ONLY <2>2
  <2>4. s \in Seq(S)
    BY ONLY <2>1, <2>3 DEF RestsOfFive
  <2> QED BY <2>4
<1>2. CASE o \notin Toggled
  BY <1>2 DEF Shaped
<1> QED BY <1>1, <1>2

LEMMA TailFits ==
  ASSUME NEW o, NEW g \in P!Generations, NEW s, Shaped(o, g, s), s # <<>>
  PROVE  Shaped(o, g, Tail(s))
<1>1. PICK S : s \in Seq(S)
  BY AnySequence
<1>2. o \in Toggled => Tail(s) \in ToggledRests(o, g)
  BY RestOf DEF Shaped
<1>3. o \notin Toggled => Tail(s) \in Seq(Alphabet(o, g))
  BY TailParts DEF Shaped
<1>4. o \in Even => ThenNext(Tail(s), SkipOne, GenAwaits)
  BY <1>1, ThenNextTail DEF Shaped
<1>5. o \in Trying => Never(Tail(s), Risky, Trys)
  BY <1>1, NeverTail DEF Shaped
<1>6. o = "csfb" => LastIs(Tail(s), <<"await", "lte">>)
  BY <1>1, LastTail DEF Shaped
<1> QED BY <1>2, <1>3, <1>4, <1>5, <1>6 DEF Shaped

-----------------------------------------------------------------------------
(* What the step a function is at can be.  Read(o, g, e) holds of the      *)
(* first of its steps.                                                     *)
Places == {"airplane", "airplane other", "airplane on cell", "airplane off cell"}

ReadPhone(o, e) ==
  /\ e[1] = "airplane" => e[2] = FALSE \/ (e[2] = TRUE /\ o \in Toggled \union {"iwlan"})
  /\ e[1] = "airplane other" => o = "ensure rat"
  /\ e[1] = "airplane off cell" => o = "airplane" /\ e \in Risky
  /\ e[1] = "data" => e[2] = TRUE \/ (e[2] = FALSE /\ o \in {"bearer", "tethering"} /\ e \in Risky)
  /\ e[1] = "try" => o \in Trying
ReadSettings(o, g, e) ==
  /\ e[1] = "wfc" => e[2] \in BOOLEAN /\ (o \in AskedOf \union {"csfb"} => e[2] = FALSE)
  /\ o \in AskedOf \union {"csfb", "generation", "bearer"} =>
       e[1] \notin {"set", "reset preference"} /\ (e[1] = "preference" => e[2] = g)
  /\ o \in AskedOf \union {"csfb"} => e[1] \notin {"wifi", "join", "data", "try"}
  /\ o \in AskedOf /\ e[1] \in {"await", "if"} => e[2] = g
ReadSkips(o, e) ==
  /\ e[1] = "if" => IF o \in Even THEN e \in SkipOne ELSE e[3] \in Nat
  /\ e[1] \in {"may skip", "volte"} => o \notin Even \union Toggled /\ e[2] \in Nat
Read(o, g, e) == ReadPhone(o, e) /\ ReadSettings(o, g, e) /\ ReadSkips(o, e)

LEMMA ReadAsked ==
  ASSUME NEW o \in AskedOf \union {"csfb"}, NEW g \in P!Generations,
         NEW e \in Asked(g) \union {<<"await", "lte">>}, o # "csfb" => e \in Asked(g)
  PROVE  Read(o, g, e)
<1> DEFINE a == <<"airplane", FALSE>>
           b == <<"wifi default">>
           c == <<"wfc", FALSE>>
           d == <<"preference", g>>
           f == <<"if", g, 1>>
           h == <<"await", g>>
           k == <<"may">>
           l == <<"await", "lte">>
<1>1. /\ o \notin Toggled \union (Trying \union {"generation", "bearer", "airplane", "iwlan", "ensure rat"})
      /\ o \in Even /\ (o \in AskedOf => o # "csfb")
  BY OpsAre DEF Toggled, Trying, AskedOf, Even
<1>2. e \in {a, b, c, d, f, h, k} \/ (o = "csfb" /\ e = l)
  BY DEF Asked
<1>3. a[1] = "airplane" /\ a[2] = FALSE /\ b[1] = "wifi default"
  OBVIOUS
<1>4. c[1] = "wfc" /\ c[2] = FALSE /\ d[1] = "preference" /\ d[2] = g
  OBVIOUS
<1>5. f[1] = "if" /\ f[2] = g /\ h[1] = "await" /\ h[2] = g
  OBVIOUS
<1>6. k[1] = "may" /\ l[1] = "await" /\ f \in SkipOne
  BY StepsAre
<1> HIDE DEF a, b, c, d, f, h, k, l
<1>7. ReadPhone(o, e)
  BY ONLY <1>2, <1>3, <1>4, <1>5, <1>6 DEF ReadPhone
<1>8. ReadSettings(o, g, e)
  BY ONLY <1>1, <1>2, <1>3, <1>4, <1>5, <1>6 DEF ReadSettings
<1>9. ReadSkips(o, e)
  BY ONLY <1>1, <1>2, <1>3, <1>4, <1>5, <1>6 DEF ReadSkips
<1> QED BY <1>7, <1>8, <1>9 DEF Read

(* What the tests that try do, in one set.                                 *)
LEMMA ReadTrying ==
  ASSUME NEW o \in Trying, NEW g \in P!Generations, NEW e \in Alphabet(o, g)
  PROVE  Read(o, g, e)
<1> DEFINE a == <<"airplane", FALSE>>
           b == <<"airplane on cell">>
           c == <<"airplane off cell">>
           d == <<"data", FALSE>>
           f == <<"data", TRUE>>
           h == <<"preference", g>>
           k == <<"if", g, 1>>
           a1_ == <<"try">>
           a2_ == <<"may">>
           a3_ == <<"wifi", FALSE>>
           a4_ == <<"wifi", TRUE>>
           a5_ == <<"join">>
           a6_ == <<"await", g>>
           a7_ == <<"await", "cell">>
           a8_ == <<"await", "no cell">>
           b1_ == <<"await", "wifi">>
           b2_ == <<"internet", TRUE>>
           b3_ == <<"internet", FALSE>>
           b4_ == <<"tether">>
           b5_ == <<"untether">>
           b6_ == <<"wifi default">>
           Others == {a1_, a2_, a3_, a4_, a5_, a6_, a7_, a8_, b1_, b2_, b3_, b4_, b5_, b6_}
<1>1. /\ o \notin AskedOf \union {"csfb", "generation"} /\ o \notin Toggled
      /\ o \in Even /\ o # "ensure rat" /\ o # "iwlan"
  BY OpsAre DEF Toggled, Trying, AskedOf, Even
<1>2. \/ e \in {a, f, h, k} \union Others
      \/ o = "airplane" /\ e \in {b, c}
      \/ o \in {"bearer", "tethering"} /\ e = d
  <2>1. CASE o = "bearer"
    <3>1. e \in BearerSteps(g)
      BY <2>1, AlphabetOf
    <3>2. BearerSteps(g) \subseteq {a, d, f, h, k} \union Others
      BY DEF BearerSteps
    <3> HIDE DEF a, b, c, d, f, h, k, Others
    <3> QED BY <2>1, <3>1, <3>2
  <2>2. CASE o = "switching"
    <3>1. e \in SwitchingSteps(g)
      BY <2>2, AlphabetOf
    <3>2. SwitchingSteps(g) \subseteq {a, f, h, k} \union Others
      BY DEF SwitchingSteps
    <3> HIDE DEF a, b, c, d, f, h, k, Others
    <3> QED BY <2>2, <3>1, <3>2
  <2>3. CASE o = "airplane"
    <3>1. e \in AirplaneSteps
      BY <2>3, AlphabetOf
    <3>2. AirplaneSteps \subseteq {a, b, c, f} \union Others
      BY DEF AirplaneSteps
    <3> HIDE DEF a, b, c, d, f, h, k, Others
    <3> QED BY <2>3, <3>1, <3>2
  <2>4. CASE o = "tethering"
    <3>1. e \in TetheringSteps
      BY <2>4, AlphabetOf
    <3>2. TetheringSteps \subseteq {d, f} \union Others
      BY DEF TetheringSteps
    <3> HIDE DEF a, b, c, d, f, h, k, Others
    <3> QED BY <2>4, <3>1, <3>2
  <2> QED BY <2>1, <2>2, <2>3, <2>4 DEF Trying
<1>3. a[1] = "airplane" /\ a[2] = FALSE /\ b[1] = "airplane on cell" /\ c[1] = "airplane off cell"
  OBVIOUS
<1>4. d[1] = "data" /\ d[2] = FALSE /\ f[1] = "data" /\ f[2] = TRUE
  OBVIOUS
<1>5. h[1] = "preference" /\ h[2] = g /\ k[1] = "if" /\ k \in SkipOne
  BY StepsAre
<1>6. c \in Risky /\ d \in Risky
  BY DEF Risky
<1>7. \A x \in Others : x[1] \in {"try", "may", "wifi", "join", "await", "internet", "tether",
                                 "untether", "wifi default"}
  <2>1. /\ a1_[1] = "try" /\ a2_[1] = "may" /\ a3_[1] = "wifi" /\ a4_[1] = "wifi"
    OBVIOUS
  <2>2. /\ a5_[1] = "join" /\ a6_[1] = "await" /\ a7_[1] = "await" /\ a8_[1] = "await"
    OBVIOUS
  <2>3. /\ b1_[1] = "await" /\ b2_[1] = "internet" /\ b3_[1] = "internet"
    OBVIOUS
  <2>4. b4_[1] = "tether" /\ b5_[1] = "untether" /\ b6_[1] = "wifi default"
    OBVIOUS
  <2> HIDE DEF a1_, a2_, a3_, a4_, a5_, a6_, a7_, a8_, b1_, b2_, b3_, b4_, b5_, b6_
  <2> QED BY ONLY <2>1, <2>2, <2>3, <2>4 DEF Others
<1> HIDE DEF a, b, c, d, f, h, k, Others
<1>8. ReadPhone(o, e)
  BY <1>2, <1>3, <1>4, <1>5, <1>6, <1>7 DEF ReadPhone
<1>9. ReadSettings(o, g, e)
  BY <1>1, <1>2, <1>3, <1>4, <1>5, <1>7 DEF ReadSettings
<1>10. ReadSkips(o, e)
  BY <1>1, <1>2, <1>3, <1>4, <1>5, <1>7 DEF ReadSkips
<1> QED BY <1>8, <1>9, <1>10 DEF Read

LEMMA TameKinds ==
  ASSUME NEW e \in Tame
  PROVE  /\ e[1] \notin {"airplane other", "airplane off cell", "airplane on cell", "data", "try", "wifi"}
         /\ e[1] = "airplane" => e[2] = FALSE
         /\ e[1] = "wfc" => e[2] \in BOOLEAN
         /\ e[1] = "if" => e[3] \in Nat
         /\ e[1] \in {"may skip", "volte"} => e[2] \in Nat
<1>1. CASE e \in {<<"airplane", FALSE>>, <<"wifi default">>, <<"reset preference">>, <<"join">>, <<"may">>}
  <2> DEFINE a == <<"airplane", FALSE>>
             b == <<"wifi default">>
             c == <<"reset preference">>
             d == <<"join">>
             f == <<"may">>
  <2>1. e \in {a, b, c, d, f}
    BY <1>1
  <2>2. a[1] = "airplane" /\ a[2] = FALSE /\ b[1] = "wifi default" /\ c[1] = "reset preference"
    OBVIOUS
  <2>3. d[1] = "join" /\ f[1] = "may"
    OBVIOUS
  <2> HIDE DEF a, b, c, d, f
  <2> QED BY ONLY <2>1, <2>2, <2>3
<1>2. CASE e \in {"wfc"} \X BOOLEAN
  BY <1>2
<1>3. CASE e \in {"preference", "set"} \X P!Generations
  BY <1>3
<1>4. CASE e \in {"await"} \X Whats
  BY <1>4
<1>5. CASE e \in {"if"} \X Whats \X Nat
  BY <1>5
<1>6. CASE e \in {"may skip", "volte"} \X Nat
  BY <1>6
<1> QED BY <1>1, <1>2, <1>3, <1>4, <1>5, <1>6 DEF Tame

LEMMA ReadTame ==
  ASSUME NEW o \in {"iwlan"} \union Rough, NEW g \in P!Generations, NEW e \in Alphabet(o, g)
  PROVE  Read(o, g, e)
<1>1. /\ o \notin AskedOf \union {"csfb", "generation", "bearer"} /\ o \notin Toggled \union Trying
      /\ o \notin Even
  BY OpsAre DEF Toggled, Trying, AskedOf, Even
<1>2. e \in Tame \/ (o = "iwlan" /\ e = <<"airplane", TRUE>>)
  BY AlphabetOf
<1>3. CASE e \in Tame
  <2>1. ReadPhone(o, e)
    BY <1>3, TameKinds DEF ReadPhone
  <2>2. ReadSettings(o, g, e) /\ ReadSkips(o, e)
    BY <1>1, <1>3, TameKinds DEF ReadSettings, ReadSkips
  <2> QED BY <2>1, <2>2 DEF Read
<1>4. CASE o = "iwlan" /\ e = <<"airplane", TRUE>>
  <2>1. e[1] = "airplane" /\ e[2] = TRUE
    BY <1>4
  <2> QED BY <1>1, <1>4, <2>1 DEF Read, ReadPhone, ReadSettings, ReadSkips
<1> QED BY <1>2, <1>3, <1>4

LEMMA ReadToggled ==
  ASSUME NEW o \in Toggled, NEW g \in P!Generations, NEW s \in ToggledRests(o, g), s # <<>>
  PROVE  Read(o, g, s[1])
<1> DEFINE e == s[1]
<1>1. /\ o \notin AskedOf \union {"csfb", "bearer"} /\ o \notin Trying /\ o \notin Even
      /\ o # "airplane" /\ o # "tethering"
  BY OpsAre DEF Toggled, Trying, AskedOf, Even
<1>2. \/ e = Setting(o, g) \/ e = <<"if", Ensured(o, g), 3>>
      \/ e = <<"airplane", TRUE>> \/ e = Back(o) \/ e = <<"await", Ensured(o, g)>>
  BY RestOf
<1> HIDE DEF e
<1>3. /\ e[1] \in {"preference", "set", "if", "airplane", "airplane other", "await"}
      /\ e[1] = "if" => e[3] = 3
      /\ e[1] = "airplane" => e[2] \in BOOLEAN
      /\ e[1] = "airplane other" => o = "ensure rat"
      /\ o = "generation" => e[1] # "set" /\ (e[1] = "preference" => e[2] = g)
  <2>1. CASE e = Setting(o, g)
    BY <2>1 DEF Setting
  <2>2. CASE e = <<"if", Ensured(o, g), 3>>
    BY <2>2
  <2>3. CASE e = <<"airplane", TRUE>>
    BY <2>3
  <2>4. CASE e = Back(o)
    BY <2>4 DEF Back
  <2>5. CASE e = <<"await", Ensured(o, g)>>
    BY <2>5
  <2> QED BY <1>2, <2>1, <2>2, <2>3, <2>4, <2>5
<1>4. ReadPhone(o, e)
  BY <1>3 DEF ReadPhone
<1>5. ReadSettings(o, g, e)
  BY <1>1, <1>3 DEF ReadSettings
<1>6. ReadSkips(o, e)
  <2>1. 3 \in Nat
    OBVIOUS
  <2>2. e[1] = "if" => e[3] \in Nat
    BY <1>3, <2>1
  <2> QED BY <1>1, <1>3, <2>2 DEF ReadSkips
<1> QED BY <1>4, <1>5, <1>6 DEF Read, e

AnyOp == (P!AnyGeneration \union P!Only4g) \union {"none"}

LEMMA Reading ==
  ASSUME NEW o \in AnyOp, NEW g \in P!Generations, NEW s, Shaped(o, g, s), s # <<>>
  PROVE  Read(o, g, s[1])
<1>1. o \notin Toggled => s[1] \in Alphabet(o, g)
  BY TailParts DEF Shaped
<1>2. CASE o \in AskedOf \union {"csfb"}
  <2>1. o \notin Toggled
    BY <1>2, OpsAre
  <2>2. Alphabet(o, g) = Asked(g) \/ (o = "csfb" /\ Alphabet(o, g) = Asked(g) \union {<<"await", "lte">>})
    BY <1>2, AlphabetOf
  <2> QED BY <1>1, <1>2, <2>1, <2>2, ReadAsked
<1>3. CASE o \in Toggled
  BY <1>3, ReadToggled DEF Shaped
<1>4. CASE o \in Trying
  BY <1>1, <1>4, OpsAre, ReadTrying
<1>5. CASE o \in {"iwlan"} \union Rough
  BY <1>1, <1>5, OpsAre, ReadTame
<1> QED BY <1>2, <1>3, <1>4, <1>5, OpsAre DEF AnyOp, Rough

(* A step that skips some: what is left, and what was skipped.             *)
Skips == {"if", "may skip", "volte"}
SkippedBy(e, n) == (e[1] = "if" => n = e[3]) /\ (e[1] # "if" => n = e[2])

LEMMA SkipOneIs == \A e \in SkipOne : e[1] = "if" /\ e[2] \in P!Generations /\ e[3] = 1
BY DEF SkipOne

LEMMA LeapIs ==
  ASSUME NEW o \in AnyOp, NEW g \in P!Generations, NEW s, Shaped(o, g, s), s # <<>>,
         s[1][1] \in Skips, NEW n, SkippedBy(s[1], n)
  PROVE  /\ Shaped(o, g, SubSeq(s, n + 2, Len(s)))
         /\ o \in Even => /\ s[1] \in SkipOne /\ Tail(s) # <<>> /\ Tail(s)[1] \in GenAwaits
                          /\ SubSeq(s, n + 2, Len(s)) = Tail(Tail(s))
         /\ o \in Toggled => SubSeq(s, n + 2, Len(s)) = <<>>
<1> DEFINE r == SubSeq(s, n + 2, Len(s))
<1>1. ReadSkips(o, s[1])
  BY Reading DEF Read
<1>2. PICK S : s \in Seq(S)
  BY AnySequence
<1>3. CASE o \in Even
  <2>1. s[1] \in SkipOne /\ n = 1
    BY <1>1, <1>3, SkipOneIs DEF ReadSkips, SkippedBy, Skips
  <2>2. Tail(s) # <<>> /\ Tail(s)[1] \in GenAwaits
    BY <1>2, <1>3, <2>1, ThenNextTail DEF Shaped
  <2>3. n + 2 = 3
    BY <2>1
  <2>4. r = Tail(Tail(s))
    BY <1>2, <2>2, <2>3, TailTail
  <2>5. Shaped(o, g, Tail(Tail(s)))
    BY <2>2, TailFits
  <2>6. o \notin Toggled
    BY <1>3, OpsAre
  <2> QED BY <2>1, <2>2, <2>4, <2>5, <2>6
<1>4. CASE o \in Toggled
  <2>1. s \in ToggledRests(o, g) /\ o \notin Even
    BY <1>4, OpsAre DEF Shaped
  <2>2. s[1] = <<"if", Ensured(o, g), 3>>
    <3>1. /\ \/ s[1] = Setting(o, g) \/ s[1] = <<"if", Ensured(o, g), 3>>
             \/ s[1] = <<"airplane", TRUE>> \/ s[1] = Back(o) \/ s[1] = <<"await", Ensured(o, g)>>
      BY <1>4, <2>1, RestOf
    <3>2. s[1][1] = "if"
      BY <1>1, <1>4 DEF ReadSkips, Skips
    <3>3. Setting(o, g)[1] # "if" /\ Back(o)[1] # "if"
      BY DEF Setting, Back
    <3>4. <<"airplane", TRUE>>[1] # "if" /\ <<"await", Ensured(o, g)>>[1] # "if"
      OBVIOUS
    <3> QED BY <3>1, <3>2, <3>3, <3>4
  <2>3. Len(s) = 4
    BY <1>4, <2>1, <2>2, RestOf
  <2>4. s[1][1] = "if" /\ s[1][3] = 3
    BY <2>2
  <2>5. n = 3
    BY <2>4 DEF SkippedBy
  <2>6. r = <<>>
    <3>1. SubSeq(s, 5, 4) = <<>>
      BY <1>2
    <3>2. n + 2 = 5
      BY <2>5
    <3> QED BY <2>3, <3>1, <3>2
  <2> QED BY <2>1, <2>6, EmptyFits
<1>5. CASE o \notin Even \union Toggled
  <2>1. s \in Seq(Alphabet(o, g)) /\ o # "csfb" /\ o \notin Trying
    BY <1>5, OpsAre DEF Shaped
  <2>2. n \in Nat
    BY <1>1, <1>5 DEF ReadSkips, SkippedBy, Skips
  <2>3. r \in Seq(Alphabet(o, g))
    BY <2>1, <2>2, SubSeqIn
  <2> QED BY <1>5, <2>1, <2>3 DEF Shaped
<1> QED BY <1>3, <1>4, <1>5

(* It skips what waits for a generation, and no other step that matters.   *)
LEMMA LeapKeeps ==
  ASSUME NEW o \in Even, NEW g \in P!Generations, NEW s, Shaped(o, g, s), s # <<>>,
         s[1] \in SkipOne, Tail(s) # <<>>, Tail(s)[1] \in GenAwaits, NEW K,
         K \cap (SkipOne \union GenAwaits) = {}
  PROVE  Has(Tail(Tail(s)), K) <=> Has(s, K)
<1>1. PICK S : s \in Seq(S)
  BY AnySequence
<1>2. Tail(s) \in Seq(S)
  BY <1>1, TailParts
<1>3. Has(s, K) <=> Has(Tail(s), K)
  BY <1>1, HasTail
<1>4. Has(Tail(s), K) <=> Has(Tail(Tail(s)), K)
  BY <1>2, HasTail
<1> QED BY <1>3, <1>4

LEMMA Apart ==
  /\ Trys \cap (SkipOne \union GenAwaits) = {} /\ Risky \cap (SkipOne \union GenAwaits) = {}
  /\ Prefs \cap (SkipOne \union GenAwaits) = {}
  /\ {<<"wfc", FALSE>>} \cap (SkipOne \union GenAwaits) = {}
  /\ {<<"wifi default">>} \cap (SkipOne \union GenAwaits) = {}
  /\ Trys \cap Risky = {} /\ <<"await", "lte">> \notin GenAwaits
<1>1. /\ \A e \in SkipOne : e[1] = "if"
      /\ \A e \in GenAwaits : e[1] = "await" /\ e[2] \in P!Generations
      /\ \A e \in Prefs : e[1] = "preference"
      /\ \A e \in Trys : e[1] = "try"
  <2>1. \A e \in SkipOne : e[1] = "if"
    BY SkipOneIs
  <2>2. \A e \in GenAwaits : e[1] = "await" /\ e[2] \in P!Generations
    BY DEF GenAwaits
  <2>3. \A e \in Prefs : e[1] = "preference"
    BY DEF Prefs
  <2>4. \A e \in Trys : e[1] = "try"
    BY DEF Trys
  <2> QED BY <2>1, <2>2, <2>3, <2>4
<1>2. \A e \in Risky : e[1] \in {"data", "airplane off cell"}
  <2> DEFINE a == <<"data", FALSE>>
             b == <<"airplane off cell">>
  <2>1. a[1] = "data" /\ b[1] = "airplane off cell" /\ Risky = {a, b}
    BY DEF Risky
  <2> HIDE DEF a, b
  <2> QED BY <2>1
<1>3. <<"wfc", FALSE>>[1] = "wfc" /\ <<"wifi default">>[1] = "wifi default"
  OBVIOUS
<1>4. <<"await", "lte">>[2] = "lte" /\ "lte" \notin P!Generations
  BY DEF P!Generations
<1> DEFINE c == <<"wfc", FALSE>>
           d == <<"wifi default">>
           e == <<"await", "lte">>
<1> HIDE DEF c, d, e
<1>5. {c} \cap (SkipOne \union GenAwaits) = {} /\ {d} \cap (SkipOne \union GenAwaits) = {}
  BY <1>1, <1>3 DEF c, d
<1>6. e \notin GenAwaits
  BY <1>1, <1>4 DEF e
<1> QED BY <1>1, <1>2, <1>5, <1>6 DEF c, d, e

(* The kinds, by their first words.                                        *)
LEMMA KindsAre ==
  /\ \A e \in Trys : e[1] = "try"
  /\ \A e \in Prefs : e[1] = "preference"
  /\ \A e \in GenAwaits : e[1] = "await"
  /\ <<"wfc", FALSE>>[1] = "wfc" /\ <<"wifi default">>[1] = "wifi default"
  /\ <<"untether">>[1] = "untether" /\ <<"try">>[1] = "try"
  /\ <<"try">> \in Trys
<1>1. \A e \in Trys : e[1] = "try"
  BY DEF Trys
<1>2. \A e \in Prefs : e[1] = "preference"
  BY DEF Prefs
<1>3. \A e \in GenAwaits : e[1] = "await"
  BY DEF GenAwaits
<1>4. <<"wfc", FALSE>>[1] = "wfc" /\ <<"wifi default">>[1] = "wifi default"
  OBVIOUS
<1>5. <<"untether">>[1] = "untether" /\ <<"try">>[1] = "try" /\ <<"try">> \in Trys
  BY DEF Trys
<1> QED BY <1>1, <1>2, <1>3, <1>4, <1>5

-----------------------------------------------------------------------------
(* A step, by what it does to the steps that are left: none of them is     *)
(* done, the first is, some are skipped, one fails, the function enters    *)
(* its try, or it is through with them.                                    *)
Working == at = "running" /\ steps # <<>>

Waiting ==
  /\ UNCHANGED <<at, op, gen, steps, cleanup, ok>>
  /\ UNCHANGED <<apm, pref, wfc, data, ap, lastRat, inUse, ignored, inherited>>
  /\ wifiState = "off" => wifiState' = "off"

Effects(e) ==
  /\ e[1] = "data" => data' = e[2]
  /\ e[1] # "data" => data' = data
  /\ e[1] \notin Places => apm' = apm /\ inherited' = inherited /\ ignored \subseteq ignored'
  /\ e[1] = "airplane" => P!Toggle(e[2])
  /\ e[1] = "airplane other" => P!Toggle(~apm)
  /\ e[1] = "airplane on cell" => P!Toggle(FALSE)
  /\ e[1] = "airplane off cell" => P!Toggle(TRUE)
  /\ e[1] \notin {"wifi", "join"} /\ wifiState = "off" => wifiState' = "off"
  /\ e[1] = "wifi default" => wifiState' = "off"
  /\ e[1] = "wifi" /\ e[2] = FALSE => wifiState' = "off" \/ "wifi" \in ignored'
  /\ e[1] = "untether" => ap' = FALSE
  /\ e[1] = "preference" => pref' = e[2] \/ inUse'
  /\ e[1] \notin {"preference", "set", "reset preference"} => pref' = pref /\ inUse' = inUse
  /\ e[1] = "wfc" => wfc' = e[2] \/ (~e[2] /\ ~wfc /\ wfc' = wfc)
  /\ e[1] # "wfc" => wfc' = wfc
  /\ e[1] = "await" => P!Holds(e[2]) /\ lastRat' = rat
  /\ e[1] # "await" => lastRat' = lastRat
Passing ==
  /\ Working /\ steps[1][1] # "try" /\ steps' = Tail(steps)
  /\ UNCHANGED <<at, op, gen, cleanup, ok>>
  /\ Effects(steps[1])

Leaping ==
  /\ Working /\ steps[1][1] \in Skips
  /\ \E n : SkippedBy(steps[1], n) /\ steps' = SubSeq(steps, n + 2, Len(steps))
  /\ UNCHANGED <<at, op, gen, cleanup, ok>>
  /\ UNCHANGED <<apm, pref, wfc, wifiState, ap, inUse, ignored, inherited>> /\ data' \in {data, TRUE}
  /\ steps[1][1] = "if" => P!Holds(steps[1][2]) /\ lastRat' = rat
  /\ steps[1][1] # "if" => lastRat' = lastRat

Failing ==
  /\ Working /\ steps[1][1] \notin {"try", "data", "airplane", "airplane other", "wifi"}
  /\ steps' = cleanup /\ cleanup' = <<>> /\ ok' = FALSE /\ UNCHANGED <<at, op, gen>>
  /\ data' = data
  /\ steps[1][1] \notin {"airplane on cell", "airplane off cell"} => UNCHANGED <<apm, ignored, inherited>>
  /\ steps[1][1] = "airplane on cell" => P!Toggle(FALSE)
  /\ steps[1][1] = "airplane off cell" => P!Toggle(TRUE)
  /\ steps[1][1] = "wfc" => wfc' \in {wfc, steps[1][2]}
  /\ steps[1][1] # "wfc" => wfc' = wfc

Entering ==
  /\ Working /\ steps[1][1] = "try" /\ steps' = Tail(steps) /\ cleanup' = P!CleanupOf(op)
  /\ UNCHANGED <<at, op, gen, ok>>
  /\ UNCHANGED <<apm, pref, wfc, wifiState, data, ap, lastRat, inUse, ignored, inherited>>

Ending ==
  /\ at = "running" /\ steps = <<>> /\ UNCHANGED <<op, gen, ok>>
  /\ \/ cleanup = <<>> /\ at' = "idle" /\ UNCHANGED <<steps, cleanup>>
     \/ cleanup # <<>> /\ steps' = cleanup /\ cleanup' = <<>> /\ UNCHANGED at
  /\ UNCHANGED <<apm, pref, wfc, wifiState, data, ap, lastRat, inUse, ignored, inherited>>

Moving == Waiting \/ Passing \/ Leaping \/ Failing \/ Entering \/ Ending

LEMMA PassIs ==
  ASSUME P!Pass, UNCHANGED P!Here, Working, steps[1][1] # "try", Effects(steps[1])
  PROVE  Passing
BY DEF Passing, P!Pass, P!Here

LEMMA FailIs ==
  ASSUME P!Fail, UNCHANGED P!Here, Working,
         steps[1][1] \notin {"try", "data", "airplane", "airplane other", "wifi"}, data' = data
  PROVE  /\ UNCHANGED <<apm, wfc, ignored, inherited>> /\ steps[1][1] \notin Places => Failing
         /\ UNCHANGED <<apm, ignored, inherited>> /\ steps[1][1] = "wfc" /\ wfc' \in {wfc, steps[1][2]} => Failing
         /\ steps[1][1] = "airplane on cell" /\ P!Toggle(FALSE) /\ wfc' = wfc => Failing
         /\ steps[1][1] = "airplane off cell" /\ P!Toggle(TRUE) /\ wfc' = wfc => Failing
BY DEF Failing, P!Fail, P!Here, Places

LEMMA CurrentIs == ASSUME NEW name, P!Current(name) PROVE Working /\ steps[1][1] = name
BY DEF P!Current, Working

LEMMA AirplaneMoves == ASSUME P!Airplane PROVE Passing
<1>1. /\ UNCHANGED <<pref, rat, wfc, data, ap>> /\ UNCHANGED P!Here /\ lastRat' = lastRat /\ inUse' = inUse
      /\ P!Pass
  BY DEF P!Airplane
<1>2. CASE P!Current("airplane") /\ P!Toggle(P!arg)
  <2>1. Working /\ steps[1][1] = "airplane" /\ P!Toggle(steps[1][2])
    BY <1>2, CurrentIs DEF P!arg
  <2>2. wifiState = "off" => wifiState' = "off"
    BY <2>1 DEF P!Toggle
  <2>3. Effects(steps[1])
    BY <1>1, <2>1, <2>2 DEF Effects, Places
  <2> QED BY <1>1, <2>1, <2>3, PassIs
<1>3. CASE P!Current("airplane other") /\ P!Toggle(~apm)
  <2>1. Working /\ steps[1][1] = "airplane other" /\ P!Toggle(~apm)
    BY <1>3, CurrentIs
  <2>2. wifiState = "off" => wifiState' = "off"
    BY <2>1 DEF P!Toggle
  <2>3. Effects(steps[1])
    BY <1>1, <2>1, <2>2 DEF Effects, Places
  <2> QED BY <1>1, <2>1, <2>3, PassIs
<1> QED BY <1>2, <1>3 DEF P!Airplane

LEMMA AirplaneStrictMoves == ASSUME P!AirplaneStrict PROVE Passing \/ Failing
<1>1. /\ UNCHANGED <<pref, rat, wfc, data, ap>> /\ UNCHANGED P!Here /\ lastRat' = lastRat /\ inUse' = inUse
      /\ P!Pass \/ P!Fail
  BY DEF P!AirplaneStrict
<1>2. CASE P!Current("airplane on cell") /\ P!Toggle(FALSE)
  <2>1. Working /\ steps[1][1] = "airplane on cell" /\ P!Toggle(FALSE)
    BY <1>2, CurrentIs
  <2>2. wifiState = "off" => wifiState' = "off"
    BY <2>1 DEF P!Toggle
  <2>3. Effects(steps[1])
    BY <1>1, <2>1, <2>2 DEF Effects, Places
  <2> QED BY <1>1, <2>1, <2>3, PassIs, FailIs
<1>3. CASE P!Current("airplane off cell") /\ P!Toggle(TRUE)
  <2>1. Working /\ steps[1][1] = "airplane off cell" /\ P!Toggle(TRUE)
    BY <1>3, CurrentIs
  <2>2. wifiState = "off" => wifiState' = "off"
    BY <2>1 DEF P!Toggle
  <2>3. Effects(steps[1])
    BY <1>1, <2>1, <2>2 DEF Effects, Places
  <2> QED BY <1>1, <2>1, <2>3, PassIs, FailIs
<1> QED BY <1>2, <1>3 DEF P!AirplaneStrict

LEMMA WifiDefaultMoves == ASSUME P!WifiDefault PROVE Passing
<1>1. Working /\ steps[1][1] = "wifi default" /\ P!Pass /\ UNCHANGED P!Here /\ wifiState' = "off"
  BY CurrentIs DEF P!WifiDefault
<1>2. UNCHANGED <<apm, pref, rat, wfc, data, ap, lastRat, inUse, ignored, inherited>>
  BY DEF P!WifiDefault, P!history
<1>3. Effects(steps[1])
  BY <1>1, <1>2 DEF Effects, Places
<1> QED BY <1>1, <1>3, PassIs

LEMMA ToggleWifiMoves == ASSUME P!ToggleWifi PROVE Passing
<1>1. Working /\ steps[1][1] = "wifi" /\ P!Pass /\ UNCHANGED P!Here
  BY CurrentIs DEF P!ToggleWifi
<1>2. UNCHANGED <<apm, pref, rat, wfc, data, ap, lastRat, inUse, inherited>> /\ ignored \subseteq ignored'
  BY DEF P!ToggleWifi
<1>3. steps[1][2] = FALSE => wifiState' = "off" \/ "wifi" \in ignored'
  BY DEF P!ToggleWifi, P!arg
<1>4. Effects(steps[1])
  BY <1>1, <1>2, <1>3 DEF Effects, Places
<1> QED BY <1>1, <1>4, PassIs

LEMMA JoinWifiMoves == ASSUME P!JoinWifi PROVE Passing \/ Failing
<1>1. Working /\ steps[1][1] = "join" /\ (P!Pass \/ P!Fail) /\ UNCHANGED P!Here
  BY CurrentIs DEF P!JoinWifi
<1>2. UNCHANGED <<apm, pref, rat, wfc, data, ap, lastRat, inUse, ignored, inherited>>
  BY DEF P!JoinWifi, P!history
<1>3. Effects(steps[1])
  BY <1>1, <1>2 DEF Effects, Places
<1> QED BY <1>1, <1>2, <1>3, PassIs, FailIs DEF Places

LEMMA SetWfcMoves == ASSUME P!SetWfc PROVE Passing \/ Failing
<1>1. Working /\ steps[1][1] = "wfc" /\ UNCHANGED P!Here
  BY CurrentIs DEF P!SetWfc
<1>2. UNCHANGED <<apm, pref, rat, wifiState, data, ap, lastRat, inUse, ignored, inherited>>
  BY DEF P!SetWfc, P!history
<1>3. CASE P!Pass /\ (wfc' = steps[1][2] \/ (~steps[1][2] /\ ~wfc /\ wfc' = wfc))
  <2>1. Effects(steps[1])
    BY <1>1, <1>2, <1>3 DEF Effects, Places
  <2> QED BY <1>1, <1>3, <2>1, PassIs
<1>4. CASE P!Fail /\ wfc' \in {wfc, steps[1][2]}
  BY <1>1, <1>2, <1>4, FailIs
<1> QED BY <1>3, <1>4 DEF P!SetWfc, P!arg

LEMMA PreferenceMoves == ASSUME P!Preference PROVE Passing \/ Failing
<1>1. Working /\ steps[1][1] = "preference" /\ UNCHANGED P!Here
  BY CurrentIs DEF P!Preference
<1>2. UNCHANGED <<apm, rat, wfc, wifiState, data, ap, lastRat, ignored, inherited>>
  BY DEF P!Preference
<1>3. CASE P!Pass /\ (pref' = steps[1][2] \/ inUse')
  <2>1. Effects(steps[1])
    BY <1>1, <1>2, <1>3 DEF Effects, Places
  <2> QED BY <1>1, <1>3, <2>1, PassIs
<1>4. CASE P!Fail
  BY <1>1, <1>2, <1>4, FailIs DEF Places
<1> QED BY <1>3, <1>4 DEF P!Preference, P!arg

LEMMA SetMoves == ASSUME P!Set PROVE Passing \/ Failing
<1>1. Working /\ steps[1][1] = "set" /\ (P!Pass \/ P!Fail) /\ UNCHANGED P!Here
  BY CurrentIs DEF P!Set
<1>2. UNCHANGED <<apm, rat, wfc, wifiState, data, ap, lastRat, inUse, ignored, inherited>>
  BY DEF P!Set, P!history
<1>3. Effects(steps[1])
  BY <1>1, <1>2 DEF Effects, Places
<1> QED BY <1>1, <1>2, <1>3, PassIs, FailIs DEF Places

LEMMA ResetPreferenceMoves == ASSUME P!ResetPreference PROVE Passing
<1>1. Working /\ steps[1][1] = "reset preference" /\ P!Pass /\ UNCHANGED P!Here
  BY CurrentIs DEF P!ResetPreference
<1>2. UNCHANGED <<apm, rat, wfc, wifiState, data, ap, lastRat, inUse, ignored, inherited>>
  BY DEF P!ResetPreference, P!history
<1>3. Effects(steps[1])
  BY <1>1, <1>2 DEF Effects, Places
<1> QED BY <1>1, <1>3, PassIs

LEMMA AwaitMoves == ASSUME P!Await PROVE Passing \/ Failing
<1>1. Working /\ steps[1][1] = "await" /\ UNCHANGED P!Here
  BY CurrentIs DEF P!Await
<1>2. UNCHANGED <<apm, pref, rat, wfc, wifiState, data, ap, inUse, ignored, inherited>>
  BY DEF P!Await, P!phone
<1>3. CASE P!Holds(steps[1][2]) /\ P!Pass /\ lastRat' = rat
  <2>1. Effects(steps[1])
    BY <1>1, <1>2, <1>3 DEF Effects, Places
  <2> QED BY <1>1, <1>3, <2>1, PassIs
<1>4. CASE P!Fail
  BY <1>1, <1>2, <1>4, FailIs DEF Places
<1> QED BY <1>3, <1>4 DEF P!Await, P!arg

LEMMA SkipIs ==
  ASSUME NEW n, P!Skip(n), UNCHANGED P!Here, Working, steps[1][1] \in Skips, SkippedBy(steps[1], n),
         UNCHANGED <<apm, pref, wfc, wifiState, ap, inUse, ignored, inherited>>, data' \in {data, TRUE},
         steps[1][1] = "if" => P!Holds(steps[1][2]) /\ lastRat' = rat,
         steps[1][1] # "if" => lastRat' = lastRat
  PROVE  Leaping
BY DEF Leaping, P!Skip, P!Here

LEMMA IfMoves == ASSUME P!If PROVE Passing \/ Leaping
<1>1. Working /\ steps[1][1] = "if" /\ UNCHANGED P!Here
  BY CurrentIs DEF P!If
<1>2. UNCHANGED <<apm, pref, rat, wfc, wifiState, data, ap, inUse, ignored, inherited>>
  BY DEF P!If, P!phone
<1>3. CASE P!Pass /\ lastRat' = lastRat
  <2>1. Effects(steps[1])
    BY <1>1, <1>2, <1>3 DEF Effects, Places
  <2> QED BY <1>1, <1>3, <2>1, PassIs
<1>4. CASE P!Holds(steps[1][2]) /\ P!Skip(steps[1][3]) /\ lastRat' = rat
  <2>1. SkippedBy(steps[1], steps[1][3]) /\ steps[1][1] \in Skips
    BY <1>1 DEF SkippedBy, Skips
  <2> QED BY <1>1, <1>2, <1>4, <2>1, SkipIs
<1> QED BY <1>3, <1>4 DEF P!If, P!arg

LEMMA MayMoves == ASSUME P!May PROVE Passing \/ Leaping \/ Failing
<1>1. UNCHANGED <<apm, pref, rat, wfc, wifiState, data, ap, lastRat, inUse, ignored, inherited>> /\ UNCHANGED P!Here
  BY DEF P!May, P!phone, P!history
<1>2. CASE P!Current("may") /\ (P!Pass \/ P!Fail)
  <2>1. Working /\ steps[1][1] = "may"
    BY <1>2, CurrentIs
  <2>2. Effects(steps[1])
    BY <1>1, <2>1 DEF Effects, Places
  <2> QED BY <1>1, <1>2, <2>1, <2>2, PassIs, FailIs DEF Places
<1>3. CASE P!Current("may skip") /\ P!Pass
  <2>1. Working /\ steps[1][1] = "may skip"
    BY <1>3, CurrentIs
  <2>2. Effects(steps[1])
    BY <1>1, <2>1 DEF Effects, Places
  <2> QED BY <1>1, <1>3, <2>1, <2>2, PassIs
<1>4. CASE P!Current("may skip") /\ P!Skip(steps[1][2])
  <2>1. Working /\ steps[1][1] = "may skip"
    BY <1>4, CurrentIs
  <2>2. SkippedBy(steps[1], steps[1][2]) /\ steps[1][1] \in Skips /\ steps[1][1] # "if"
    BY <2>1 DEF SkippedBy, Skips
  <2> QED BY <1>1, <1>4, <2>1, <2>2, SkipIs
<1> QED BY <1>2, <1>3, <1>4 DEF P!May, P!arg

LEMMA VolteMoves == ASSUME P!Volte PROVE Passing \/ Leaping
<1>1. Working /\ steps[1][1] = "volte" /\ UNCHANGED P!Here
  BY CurrentIs DEF P!Volte
<1>2. UNCHANGED <<apm, pref, rat, wfc, wifiState, ap, lastRat, inUse, ignored, inherited>>
  BY DEF P!Volte, P!history
<1>3. CASE P!Pass /\ data' = data
  <2>1. Effects(steps[1])
    BY <1>1, <1>2, <1>3 DEF Effects, Places
  <2> QED BY <1>1, <1>3, <2>1, PassIs
<1>4. CASE data' = TRUE /\ P!Skip(steps[1][2])
  <2>1. SkippedBy(steps[1], steps[1][2]) /\ steps[1][1] \in Skips /\ steps[1][1] # "if"
    BY <1>1 DEF SkippedBy, Skips
  <2> QED BY <1>1, <1>2, <1>4, <2>1, SkipIs
<1> QED BY <1>3, <1>4 DEF P!Volte, P!arg

LEMMA ToggleDataMoves == ASSUME P!ToggleData PROVE Passing
<1>1. Working /\ steps[1][1] = "data" /\ P!Pass /\ UNCHANGED P!Here /\ data' = steps[1][2]
  BY CurrentIs DEF P!ToggleData, P!arg
<1>2. UNCHANGED <<apm, pref, rat, wfc, wifiState, ap, lastRat, inUse, ignored, inherited>>
  BY DEF P!ToggleData, P!history
<1>3. Effects(steps[1])
  BY <1>1, <1>2 DEF Effects, Places
<1> QED BY <1>1, <1>3, PassIs

LEMMA InternetMoves == ASSUME P!Internet PROVE Passing \/ Failing
<1>1. Working /\ steps[1][1] = "internet" /\ UNCHANGED P!Here /\ (P!Pass \/ P!Fail)
  BY CurrentIs DEF P!Internet
<1>2. UNCHANGED <<apm, pref, rat, wfc, wifiState, data, ap, lastRat, inUse, ignored, inherited>>
  BY DEF P!Internet, P!phone, P!history
<1>3. Effects(steps[1])
  BY <1>1, <1>2 DEF Effects, Places
<1> QED BY <1>1, <1>2, <1>3, PassIs, FailIs DEF Places

LEMMA TetherMoves == ASSUME P!Tether PROVE Passing \/ Failing
<1>1. UNCHANGED <<apm, pref, rat, wfc, wifiState, data, lastRat, inUse, ignored, inherited>> /\ UNCHANGED P!Here
  BY DEF P!Tether, P!history
<1>2. CASE P!Current("tether") /\ (P!Pass \/ P!Fail)
  <2>1. Working /\ steps[1][1] = "tether"
    BY <1>2, CurrentIs
  <2>2. Effects(steps[1])
    BY <1>1, <2>1 DEF Effects, Places
  <2> QED BY <1>1, <1>2, <2>1, <2>2, PassIs, FailIs DEF Places
<1>3. CASE P!Current("untether") /\ (P!Fail \/ (P!Pass /\ ap' = FALSE))
  <2>1. Working /\ steps[1][1] = "untether"
    BY <1>3, CurrentIs
  <2>2. ap' = FALSE => Effects(steps[1])
    BY <1>1, <2>1 DEF Effects, Places
  <2> QED BY <1>1, <1>3, <2>1, <2>2, PassIs, FailIs DEF Places
<1> QED BY <1>2, <1>3 DEF P!Tether

LEMMA TryMoves == ASSUME P!Try PROVE Entering
<1>1. Working /\ steps[1][1] = "try"
  BY CurrentIs DEF P!Try
<1> QED BY <1>1 DEF Entering, P!Try, P!Here, P!phone, P!history

LEMMA EndMoves == ASSUME P!End PROVE Ending
BY DEF P!End, Ending, P!phone, P!history

LEMMA WaitingMoves == ASSUME P!Register \/ P!WifiChanges PROVE Waiting
BY DEF P!Register, P!WifiChanges, Waiting, P!Here, P!history

Beginning == \E o \in P!AnyGeneration \union P!Only4g, g \in P!Generations :
               (o \in P!Only4g => g = "4g") /\ P!Begin(o, g)

LEMMA BeginMoves ==
  ASSUME \/ \E o \in P!AnyGeneration, g \in P!Generations : P!Begin(o, g)
         \/ \E o \in P!Only4g : P!Begin(o, "4g")
  PROVE  Beginning
<1>1. P!AnyGeneration \cap P!Only4g = {} /\ "4g" \in P!Generations
  BY DEF P!AnyGeneration, P!Only4g, P!Generations
<1> QED BY <1>1 DEF Beginning

LEMMA NextMoves == ASSUME P!Next PROVE Beginning \/ Moving
BY BeginMoves, AirplaneMoves, AirplaneStrictMoves, WifiDefaultMoves, ToggleWifiMoves, JoinWifiMoves,
   SetWfcMoves, PreferenceMoves, SetMoves, ResetPreferenceMoves, AwaitMoves, IfMoves, MayMoves, VolteMoves,
   ToggleDataMoves, InternetMoves, TetherMoves, TryMoves, EndMoves, WaitingMoves DEF P!Next, Moving

-----------------------------------------------------------------------------
(* Each step keeps what is claimed of a set-up.                            *)
LEMMA AtWork ==
  ASSUME SetUp, steps # <<>>
  PROVE  /\ op \in AnyOp /\ gen \in P!Generations /\ Shaped(op, gen, steps)
         /\ ReadPhone(op, steps[1]) /\ ReadSettings(op, gen, steps[1]) /\ ReadSkips(op, steps[1])
BY Reading DEF SetUp, SetupTyped, StepsShaped, AnyOp, Read

LEMMA ToggleIs ==
  ASSUME NEW new \in BOOLEAN, P!Toggle(new), apm \in BOOLEAN, inherited \in BOOLEAN
  PROVE  /\ apm' \in BOOLEAN /\ inherited' \in BOOLEAN /\ ignored \subseteq ignored'
         /\ apm' => new \/ "apm" \in ignored'
         /\ new => (inherited => inherited')
         /\ new /\ ~apm' => "apm" \in ignored'
<1>1. /\ apm' \in {apm, new} /\ inherited' = (inherited /\ new)
      /\ ignored' = IF apm' = new THEN ignored ELSE ignored \union {"apm"}
  BY DEF P!Toggle
<1>2. apm' \in BOOLEAN /\ inherited' \in BOOLEAN
  BY <1>1
<1>3. apm' # new => "apm" \in ignored'
  BY <1>1
<1>4. ignored \subseteq ignored'
  BY <1>1
<1>5. new => (inherited => inherited')
  BY <1>1
<1> QED BY <1>2, <1>3, <1>4, <1>5

(* The toggles, with what they ask for.                                    *)
LEMMA ToggledBy ==
  ASSUME SetUp, steps # <<>>
  PROVE  /\ Effects(steps[1]) =>
              \/ /\ steps[1][1] \notin Places /\ apm' = apm /\ inherited' = inherited
                 /\ ignored \subseteq ignored'
              \/ /\ steps[1][1] \in Places
                 /\ \E new \in BOOLEAN :
                      /\ P!Toggle(new)
                      /\ steps[1][1] = "airplane" => new = steps[1][2]
                      /\ steps[1][1] = "airplane other" => new = ~apm
                      /\ steps[1][1] = "airplane on cell" => new = FALSE
                      /\ steps[1][1] = "airplane off cell" => new = TRUE
         /\ Failing =>
              \/ /\ steps[1][1] \notin Places /\ apm' = apm /\ inherited' = inherited
                 /\ ignored \subseteq ignored'
              \/ /\ steps[1][1] \in {"airplane on cell", "airplane off cell"}
                 /\ \E new \in BOOLEAN :
                      /\ P!Toggle(new)
                      /\ steps[1][1] = "airplane on cell" => new = FALSE
                      /\ steps[1][1] = "airplane off cell" => new = TRUE
<1>1. apm \in BOOLEAN
  BY DEF SetUp, SetupTyped
<1>2. steps[1][1] = "airplane" => steps[1][2] \in BOOLEAN
  BY AtWork DEF ReadPhone
<1>3. (~apm) \in BOOLEAN /\ TRUE \in BOOLEAN /\ FALSE \in BOOLEAN
  BY <1>1
<1> DEFINE e == steps[1][1]
           v == steps[1][2]
<1>4. ASSUME Effects(steps[1])
      PROVE  /\ e \notin Places => apm' = apm /\ inherited' = inherited /\ ignored \subseteq ignored'
             /\ (e = "airplane" => P!Toggle(v)) /\ (e = "airplane other" => P!Toggle(~apm))
             /\ (e = "airplane on cell" => P!Toggle(FALSE)) /\ (e = "airplane off cell" => P!Toggle(TRUE))
  BY <1>4 DEF Effects
<1>5. ASSUME Failing
      PROVE  /\ e \notin {"airplane", "airplane other"}
             /\ e \notin {"airplane on cell", "airplane off cell"} =>
                  apm' = apm /\ inherited' = inherited /\ ignored \subseteq ignored'
             /\ (e = "airplane on cell" => P!Toggle(FALSE)) /\ (e = "airplane off cell" => P!Toggle(TRUE))
  BY <1>5 DEF Failing
<1> HIDE DEF e, v
<1>6. ASSUME Effects(steps[1]), e \in Places
      PROVE  \E new \in BOOLEAN :
               /\ P!Toggle(new)
               /\ e = "airplane" => new = v
               /\ e = "airplane other" => new = ~apm
               /\ e = "airplane on cell" => new = FALSE
               /\ e = "airplane off cell" => new = TRUE
  <2>1. CASE e = "airplane"
    <3>1. P!Toggle(v)
      BY <1>4, <1>6, <2>1
    <3>2. v \in BOOLEAN
      BY <1>2, <2>1 DEF e, v
    <3> WITNESS v \in BOOLEAN
    <3> QED BY <2>1, <3>1
  <2>2. CASE e = "airplane other"
    <3>1. P!Toggle(~apm)
      BY <1>4, <1>6, <2>2
    <3> WITNESS (~apm) \in BOOLEAN
    <3> QED BY <2>2, <3>1
  <2>3. CASE e = "airplane on cell"
    <3>1. P!Toggle(FALSE)
      BY <1>4, <1>6, <2>3
    <3> WITNESS FALSE \in BOOLEAN
    <3> QED BY <2>3, <3>1
  <2>4. CASE e = "airplane off cell"
    <3>1. P!Toggle(TRUE)
      BY <1>4, <1>6, <2>4
    <3> WITNESS TRUE \in BOOLEAN
    <3> QED BY <2>4, <3>1
  <2> QED BY <1>6, <2>1, <2>2, <2>3, <2>4 DEF Places
<1>7. ASSUME Failing, e \in {"airplane on cell", "airplane off cell"}
      PROVE  \E new \in BOOLEAN :
               /\ P!Toggle(new)
               /\ e = "airplane on cell" => new = FALSE
               /\ e = "airplane off cell" => new = TRUE
  <2>1. CASE e = "airplane on cell"
    <3>1. P!Toggle(FALSE)
      BY <1>5, <1>7, <2>1
    <3> WITNESS FALSE \in BOOLEAN
    <3> QED BY <2>1, <3>1
  <2>2. CASE e = "airplane off cell"
    <3>1. P!Toggle(TRUE)
      BY <1>5, <1>7, <2>2
    <3> WITNESS TRUE \in BOOLEAN
    <3> QED BY <2>2, <3>1
  <2> QED BY <1>7, <2>1, <2>2
<1> QED BY <1>4, <1>5, <1>6, <1>7 DEF Places, e, v

LEMMA MovesPhoneTyped ==
  ASSUME SetUp, Moving
  PROVE  /\ apm' \in BOOLEAN /\ data' \in BOOLEAN /\ ok' \in BOOLEAN /\ wfc' \in BOOLEAN
         /\ inherited' \in BOOLEAN
<1>1. apm \in BOOLEAN /\ data \in BOOLEAN /\ ok \in BOOLEAN /\ wfc \in BOOLEAN /\ inherited \in BOOLEAN
  BY DEF SetUp, SetupTyped
<1>2. CASE Waiting
  BY <1>1, <1>2 DEF Waiting
<1>3. CASE Passing
  <2>1. steps # <<>> /\ ok' = ok /\ Effects(steps[1])
    BY <1>3 DEF Passing, Working
  <2>2. apm' \in BOOLEAN /\ inherited' \in BOOLEAN
    BY <1>1, <2>1, ToggledBy, ToggleIs
  <2>3. data' \in BOOLEAN
    <3>1. steps[1][1] = "data" => steps[1][2] \in BOOLEAN
      BY <2>1, AtWork DEF ReadPhone
    <3> QED BY <1>1, <2>1, <3>1 DEF Effects
  <2>4. wfc' \in BOOLEAN
    <3>1. steps[1][1] = "wfc" => steps[1][2] \in BOOLEAN
      BY <2>1, AtWork DEF ReadSettings
    <3> QED BY <1>1, <2>1, <3>1 DEF Effects
  <2> QED BY <1>1, <2>1, <2>2, <2>3, <2>4
<1>4. CASE Leaping
  BY <1>1, <1>4 DEF Leaping
<1>5. CASE Failing
  <2>1. steps # <<>> /\ ok' = FALSE /\ data' = data
    BY <1>5 DEF Failing, Working
  <2>2. apm' \in BOOLEAN /\ inherited' \in BOOLEAN
    BY <1>1, <1>5, <2>1, ToggledBy, ToggleIs
  <2>3. wfc' \in BOOLEAN
    <3>1. steps[1][1] = "wfc" => steps[1][2] \in BOOLEAN
      BY <2>1, AtWork DEF ReadSettings
    <3> QED BY <1>1, <1>5, <3>1 DEF Failing
  <2> QED BY <1>1, <2>1, <2>2, <2>3
<1>6. CASE Entering
  BY <1>1, <1>6 DEF Entering
<1>7. CASE Ending
  BY <1>1, <1>7 DEF Ending
<1> QED BY <1>2, <1>3, <1>4, <1>5, <1>6, <1>7 DEF Moving

LEMMA MovesTyped == ASSUME SetUp, Moving PROVE SetupTyped'
<1>1. UNCHANGED <<op, gen>>
  BY DEF Moving, Waiting, Passing, Leaping, Failing, Entering, Ending
<1>2. at' \in {"idle", "running"} /\ (at' = "idle" => at = "idle" \/ Ending)
  BY DEF SetUp, SetupTyped, Moving, Waiting, Passing, Leaping, Failing, Entering, Ending, Working
<1>3. at' = "idle" => steps' = <<>> /\ cleanup' = <<>>
  <2>1. CASE Waiting
    BY <2>1 DEF Waiting, SetUp, SetupTyped
  <2>2. CASE Passing \/ Leaping \/ Failing \/ Entering
    BY <2>2 DEF Passing, Leaping, Failing, Entering, Working
  <2>3. CASE Ending
    BY <2>3 DEF Ending
  <2> QED BY <2>1, <2>2, <2>3 DEF Moving
<1>4. op = "none" => at' = "idle" /\ ~ok'
  <2>1. op = "none" => at = "idle" /\ ~ok
    BY DEF SetUp, SetupTyped
  <2> QED BY <2>1 DEF Moving, Waiting, Passing, Leaping, Failing, Entering, Ending, Working
<1>5. cleanup' # <<>> => op \in Trying /\ cleanup' = P!CleanupOf(op)
  <2>1. cleanup # <<>> => op \in Trying /\ cleanup = P!CleanupOf(op)
    BY DEF SetUp, SetupTyped
  <2>2. CASE Entering
    <3>1. steps # <<>> /\ steps[1][1] = "try" /\ cleanup' = P!CleanupOf(op)
      BY <2>2 DEF Entering, Working
    <3>2. op \in Trying
      BY <3>1, AtWork DEF ReadPhone
    <3> QED BY <3>1, <3>2
  <2>3. CASE Waiting \/ Passing \/ Leaping \/ Failing \/ Ending
    BY <2>1, <2>3 DEF Waiting, Passing, Leaping, Failing, Ending
  <2> QED BY <2>2, <2>3 DEF Moving
<1>6. /\ gen \in P!Generations /\ op \in (P!AnyGeneration \union P!Only4g) \union {"none"}
      /\ op \in P!Only4g => gen = "4g"
  BY DEF SetUp, SetupTyped
<1> QED BY <1>1, <1>2, <1>3, <1>4, <1>5, <1>6, MovesPhoneTyped DEF SetupTyped

(* After a failure, or at the end, there is its finally or nothing.        *)
LEMMA CleaningIs ==
  ASSUME SetUp
  PROVE  /\ CleaningUp => op \in Trying /\ cleanup = P!CleanupOf(op)
         /\ op \in AnyOp /\ gen \in P!Generations /\ Shaped(op, gen, steps) /\ Shaped(op, gen, cleanup)
<1>1. /\ cleanup # <<>> => op \in Trying /\ cleanup = P!CleanupOf(op)
      /\ op \in AnyOp /\ gen \in P!Generations /\ Shaped(op, gen, steps)
  BY DEF SetUp, SetupTyped, StepsShaped, AnyOp
<1>2. Shaped(op, gen, cleanup)
  <2>1. CASE cleanup = <<>>
    BY <2>1, EmptyFits
  <2>2. CASE cleanup # <<>>
    BY <1>1, <2>2, CleanupFits
  <2> QED BY <2>1, <2>2
<1> QED BY <1>1, <1>2 DEF CleaningUp

LEMMA LeapingIs ==
  ASSUME SetUp, Leaping
  PROVE  /\ steps # <<>> /\ steps[1][1] \in Skips /\ Shaped(op, gen, steps')
         /\ op \in Even => /\ steps[1] \in SkipOne /\ Tail(steps) # <<>> /\ Tail(steps)[1] \in GenAwaits
                           /\ steps' = Tail(Tail(steps)) /\ steps[1][1] = "if"
         /\ op \in Toggled => steps' = <<>> /\ steps[1][1] = "if"
<1>1. steps # <<>> /\ steps[1][1] \in Skips
  BY DEF Leaping, Working
<1>2. PICK n : SkippedBy(steps[1], n) /\ steps' = SubSeq(steps, n + 2, Len(steps))
  BY DEF Leaping
<1>3. op \in AnyOp /\ gen \in P!Generations /\ Shaped(op, gen, steps) /\ ReadSkips(op, steps[1])
  BY <1>1, AtWork
<1>4. op \in Even \union Toggled => steps[1][1] = "if"
  BY <1>1, <1>3 DEF ReadSkips, Skips
<1> QED BY <1>1, <1>2, <1>3, <1>4, LeapIs

LEMMA MovesShaped == ASSUME SetUp, Moving PROVE StepsShaped'
<1>1. UNCHANGED <<op, gen>>
  BY DEF Moving, Waiting, Passing, Leaping, Failing, Entering, Ending
<1>2. gen \in P!Generations /\ Shaped(op, gen, steps) /\ Shaped(op, gen, cleanup)
  BY CleaningIs
<1>3. Shaped(op, gen, steps')
  <2>1. CASE Waiting
    BY <1>2, <2>1 DEF Waiting
  <2>2. CASE Passing \/ Entering
    BY <1>2, <2>2, TailFits DEF Passing, Entering, Working
  <2>3. CASE Leaping
    BY <2>3, LeapingIs
  <2>4. CASE Failing \/ Ending
    BY <1>2, <2>4 DEF Failing, Ending
  <2> QED BY <2>1, <2>2, <2>3, <2>4 DEF Moving
<1> QED BY <1>1, <1>3 DEF StepsShaped

(* What is still to come: after the first step is done or skipped.         *)
LEMMA StillToCome ==
  ASSUME SetUp, NEW K
  PROVE  /\ Passing \/ Entering => (Has(steps, K) <=> steps[1] \in K \/ Has(steps', K))
         /\ Leaping /\ op \in Even /\ K \cap (SkipOne \union GenAwaits) = {} =>
              (Has(steps, K) <=> Has(steps', K))
         /\ Passing \/ Leaping \/ Entering => steps # <<>>
<1>1. op \in AnyOp /\ gen \in P!Generations /\ Shaped(op, gen, steps)
  BY CleaningIs
<1>2. PICK S : steps \in Seq(S)
  BY <1>1, AnySequence
<1>3. Passing \/ Leaping \/ Entering => steps # <<>>
  BY DEF Passing, Leaping, Entering, Working
<1>4. Passing \/ Entering => steps' = Tail(steps)
  BY DEF Passing, Entering
<1>5. steps # <<>> => (Has(steps, K) <=> steps[1] \in K \/ Has(Tail(steps), K))
  BY <1>2, HasTail
<1>6. ASSUME Leaping, op \in Even, K \cap (SkipOne \union GenAwaits) = {}
      PROVE  Has(steps, K) <=> Has(steps', K)
  BY <1>1, <1>6, LeapingIs, LeapKeeps
<1> QED BY <1>3, <1>4, <1>5, <1>6

LEMMA MovesRisked == ASSUME SetUp, Moving PROVE Risked'
<1> SUFFICES ASSUME op' \in Trying, cleanup' = <<>> PROVE Has(steps', Trys) \/ ~Has(steps', Risky)
  BY DEF Risked, CleaningUp
<1>1. op \in Trying /\ op \in Even
  BY OpsAre DEF Moving, Waiting, Passing, Leaping, Failing, Entering, Ending
<1>2. cleanup = <<>> => Has(steps, Trys) \/ ~Has(steps, Risky)
  BY <1>1 DEF SetUp, Risked, CleaningUp
<1>3. \A K : ~Has(<<>>, K)
  BY EmptyHas
<1>4. CASE Waiting
  BY <1>2, <1>4 DEF Waiting
<1>5. CASE Passing
  <2>1. cleanup = <<>> /\ steps[1] \notin Trys
    BY <1>5, KindsAre DEF Passing
  <2> QED BY <1>2, <1>5, <2>1, StillToCome
<1>6. CASE Leaping
  <2>1. cleanup = <<>>
    BY <1>6 DEF Leaping
  <2> QED BY <1>1, <1>2, <1>6, <2>1, StillToCome, Apart
<1>7. CASE Failing \/ Ending
  <2>1. steps' = cleanup
    BY <1>7 DEF Failing, Ending
  <2>2. cleanup # <<>> => ~Has(cleanup, Risky)
    BY CleaningIs, CleanupIs DEF CleaningUp
  <2> QED BY <1>3, <2>1, <2>2
<1>8. CASE Entering
  <2>1. cleanup' # <<>>
    <3>1. Form(P!CleanupOf(op), Alphabet(op, gen)) /\ cleanup' = P!CleanupOf(op)
      BY <1>1, <1>8, CleaningIs, CleanupIs DEF Entering
    <3> QED BY <3>1 DEF Form
  <2> QED BY <2>1
<1> QED BY <1>4, <1>5, <1>6, <1>7, <1>8 DEF Moving

LEMMA SameFunction == ASSUME Moving PROVE op' = op /\ gen' = gen
BY DEF Moving, Waiting, Passing, Leaping, Failing, Entering, Ending

(* Its finally is ahead of it until it has begun.                          *)
LEMMA CleaningKept ==
  ASSUME SetUp, Moving, CleaningUp PROVE CleaningUp' \/ steps' = P!CleanupOf(op)
<1>1. op \in Trying /\ cleanup = P!CleanupOf(op) /\ cleanup # <<>>
  BY CleaningIs DEF CleaningUp
<1> QED BY <1>1 DEF Moving, Waiting, Passing, Leaping, Failing, Entering, Ending, CleaningUp

LEMMA EnteringCleans ==
  ASSUME SetUp, Entering PROVE op \in Trying /\ CleaningUp'
<1>1. op \in Trying
  BY AtWork DEF ReadPhone, Entering, Working
<1>2. Form(P!CleanupOf(op), Alphabet(op, gen)) /\ cleanup' = P!CleanupOf(op)
  BY <1>1, CleaningIs, CleanupIs DEF Entering
<1> QED BY <1>1, <1>2 DEF Form, CleaningUp

(* Where the finally is all that is left, it is at its first step.         *)
LEMMA PuttingBack ==
  ASSUME SetUp, op \in Trying, steps = P!CleanupOf(op)
  PROVE  /\ steps # <<>> /\ steps[1] = FirstPutBack(op) /\ ~Leaping /\ ~Entering /\ ~Ending
         /\ op \in {"bearer", "tethering"} => steps[1][1] = "data" /\ steps[1][2] = TRUE /\ ~Failing
         /\ op = "airplane" => steps[1][1] = "airplane" /\ steps[1][2] = FALSE /\ ~Failing
         /\ op = "switching" => steps[1][1] = "wifi" /\ steps[1][2] = FALSE /\ ~Failing /\ Tail(steps) = <<>>
<1>1. /\ Form(steps, Alphabet(op, gen)) /\ steps[1] = FirstPutBack(op)
      /\ op = "switching" => Tail(steps) = <<>>
  BY CleaningIs, CleanupIs
<1>2. <<"data", TRUE>>[1] = "data" /\ <<"data", TRUE>>[2] = TRUE
  OBVIOUS
<1>3. <<"airplane", FALSE>>[1] = "airplane" /\ <<"airplane", FALSE>>[2] = FALSE
  OBVIOUS
<1>4. <<"wifi", FALSE>>[1] = "wifi" /\ <<"wifi", FALSE>>[2] = FALSE
  OBVIOUS
<1>5. op \in {"bearer", "tethering"} => steps[1][1] = "data" /\ steps[1][2] = TRUE
  BY <1>1, <1>2 DEF FirstPutBack
<1>6. op = "airplane" => steps[1][1] = "airplane" /\ steps[1][2] = FALSE
  BY <1>1, <1>3 DEF FirstPutBack
<1>7. op = "switching" => steps[1][1] = "wifi" /\ steps[1][2] = FALSE
  BY <1>1, <1>4 DEF FirstPutBack
<1>8. steps[1][1] \in {"data", "airplane", "wifi"}
  BY <1>5, <1>6, <1>7 DEF Trying
<1>9. ~Leaping /\ ~Entering /\ ~Failing
  BY <1>8 DEF Leaping, Entering, Failing, Skips
<1>10. steps # <<>> /\ ~Ending
  BY <1>1 DEF Form, Ending
<1> QED BY <1>1, <1>5, <1>6, <1>7, <1>9, <1>10

(* Nothing is put at risk but with a finally ahead.                        *)
LEMMA RiskyIsCovered ==
  ASSUME SetUp, steps # <<>>, steps[1] \in Risky, op \in Trying PROVE CleaningUp
<1>1. op \in AnyOp /\ gen \in P!Generations /\ Shaped(op, gen, steps)
  BY CleaningIs
<1>2. PICK S : steps \in Seq(S)
  BY <1>1, AnySequence
<1>3. Has(steps, Risky)
  BY <1>2, HasTail
<1>4. ~Has(Tail(steps), Trys)
  BY <1>1, <1>2, NeverTail DEF Shaped
<1>5. ~Has(steps, Trys)
  BY <1>2, <1>4, HasTail, Apart
<1> QED BY <1>3, <1>5 DEF SetUp, Risked

LEMMA MovesData == ASSUME SetUp, Moving PROVE DataBack'
<1> SUFFICES ASSUME ~data'
             PROVE  op \in {"bearer", "tethering"} /\ (CleaningUp' \/ steps' = P!CleanupOf(op))
  BY SameFunction DEF DataBack
<1>1. data \in BOOLEAN
  BY DEF SetUp, SetupTyped
<1>2. CASE ~data
  <2>1. op \in {"bearer", "tethering"} /\ (CleaningUp \/ steps = P!CleanupOf(op))
    BY <1>2 DEF SetUp, DataBack
  <2>2. op \in Trying
    BY <2>1 DEF Trying
  <2>3. CASE CleaningUp
    BY <2>1, <2>3, CleaningKept
  <2>4. CASE steps = P!CleanupOf(op)
    <3>1. /\ ~Leaping /\ ~Entering /\ ~Ending /\ ~Failing
          /\ steps[1][1] = "data" /\ steps[1][2] = TRUE
      BY <2>1, <2>2, <2>4, PuttingBack
    <3>2. ~Passing
      BY <3>1 DEF Passing, Effects
    <3>3. Waiting
      BY <3>1, <3>2 DEF Moving
    <3> QED BY <2>1, <2>4, <3>3 DEF Waiting
  <2> QED BY <2>1, <2>3, <2>4
<1>3. CASE data
  <2>1. Passing /\ steps[1][1] = "data" /\ data' = steps[1][2]
    BY <1>3 DEF Moving, Waiting, Passing, Effects, Leaping, Failing, Entering, Ending
  <2>2. steps # <<>> /\ cleanup' = cleanup
    BY <2>1 DEF Passing, Working
  <2>3. op \in {"bearer", "tethering"} /\ steps[1] \in Risky
    BY <2>1, <2>2, AtWork DEF ReadPhone
  <2>4. CleaningUp
    BY <2>2, <2>3, RiskyIsCovered DEF Trying
  <2> QED BY <2>2, <2>3, <2>4 DEF CleaningUp
<1> QED BY <1>1, <1>2, <1>3

(* In a function that toggles airplane mode.                               *)
LEMMA TogglingIs ==
  ASSUME SetUp, op \in Toggled, steps # <<>>
  PROVE  /\ steps[1][1] = "airplane" /\ steps[1][2] = TRUE => Tail(steps) # <<>> /\ Tail(steps)[1] = Back(op)
         /\ Tail(steps) # <<>> /\ Tail(steps)[1] = Back(op) => steps[1][1] = "airplane" /\ steps[1][2] = TRUE
         /\ steps[1][1] = "airplane other" => steps[1] = Back(op)
         /\ ~Has(Tail(steps), Prefs)
<1>1. gen \in P!Generations /\ steps \in ToggledRests(op, gen)
  BY CleaningIs DEF Shaped
<1>2. /\ \/ steps[1] = Setting(op, gen) \/ steps[1] = <<"if", Ensured(op, gen), 3>>
         \/ steps[1] = <<"airplane", TRUE>> \/ steps[1] = Back(op) \/ steps[1] = <<"await", Ensured(op, gen)>>
      /\ steps[1] = <<"airplane", TRUE>> => Tail(steps) # <<>> /\ Tail(steps)[1] = Back(op)
      /\ Tail(steps) # <<>> /\ Tail(steps)[1] = Back(op) => steps[1] = <<"airplane", TRUE>>
      /\ ~Has(Tail(steps), Prefs)
  BY <1>1, RestOf
<1>3. Setting(op, gen)[1] \notin {"airplane", "airplane other"}
  BY DEF Setting
<1>4. Back(op)[1] = "airplane" => Back(op)[2] = FALSE
  BY DEF Back
<1>5. <<"airplane", TRUE>>[1] = "airplane" /\ <<"airplane", TRUE>>[2] = TRUE
  OBVIOUS
<1>6. <<"if", Ensured(op, gen), 3>>[1] = "if" /\ <<"await", Ensured(op, gen)>>[1] = "await"
  OBVIOUS
<1> DEFINE a == Setting(op, gen)
           b == <<"if", Ensured(op, gen), 3>>
           c == <<"airplane", TRUE>>
           d == Back(op)
           e == <<"await", Ensured(op, gen)>>
<1> HIDE DEF a, b, c, d, e
<1>7. steps[1] = a \/ steps[1] = b \/ steps[1] = c \/ steps[1] = d \/ steps[1] = e
  BY <1>2 DEF a, b, c, d, e
<1>8. /\ a[1] \notin {"airplane", "airplane other"} /\ (d[1] = "airplane" => d[2] = FALSE)
      /\ c[1] = "airplane" /\ c[2] = TRUE /\ b[1] = "if" /\ e[1] = "await"
  BY <1>3, <1>4, <1>5, <1>6 DEF a, b, c, d, e
<1>9. steps[1][1] = "airplane" /\ steps[1][2] = TRUE => steps[1] = c
  BY ONLY <1>7, <1>8
<1>10. steps[1][1] = "airplane other" => steps[1] = d
  BY ONLY <1>7, <1>8
<1> QED BY <1>2, <1>5, <1>9, <1>10 DEF c, d

LEMMA BackIs == \A o : Back(o)[1] \in {"airplane", "airplane other"}
BY DEF Back

ApmExcused == inherited \/ "apm" \in ignored \/ op = "iwlan"

LEMMA ApmWas ==
  ASSUME SetUp, apm
  PROVE  \/ ApmExcused
         \/ op = "airplane" /\ op \in Trying /\ (CleaningUp \/ steps = P!CleanupOf(op))
         \/ op \in Toggled /\ steps # <<>> /\ steps[1] = Back(op)
BY DEF SetUp, ApmBack, ApmExcused, Trying

LEMMA MovesApm == ASSUME SetUp, Moving PROVE ApmBack'
<1> SUFFICES ASSUME apm'
             PROVE  \/ ApmExcused'
                    \/ op = "airplane" /\ (CleaningUp' \/ steps' = P!CleanupOf(op))
                    \/ op \in Toggled /\ steps' # <<>> /\ steps'[1] = Back(op)
  BY SameFunction DEF ApmBack, ApmExcused
(* What keeps airplane mode, and is not about to put it back.              *)
<1>1. ASSUME apm' = apm, inherited' = inherited, ignored \subseteq ignored',
             steps = <<>> \/ steps[1][1] \notin {"airplane", "airplane other"}
      PROVE  ApmExcused' \/ (op = "airplane" /\ (CleaningUp' \/ steps' = P!CleanupOf(op)))
  <2>1. CASE ApmExcused
    BY <1>1, <2>1, SameFunction DEF ApmExcused
  <2>2. CASE op = "airplane" /\ CleaningUp
    BY <2>2, CleaningKept
  <2>3. CASE op = "airplane" /\ op \in Trying /\ steps = P!CleanupOf(op)
    BY <1>1, <2>3, PuttingBack
  <2>4. CASE steps # <<>> /\ steps[1] = Back(op)
    BY <1>1, <2>4, BackIs
  <2> QED BY <1>1, <2>1, <2>2, <2>3, <2>4, ApmWas
<1>2. CASE Waiting
  <2>1. /\ UNCHANGED <<at, op, gen, steps, cleanup, ok>>
        /\ UNCHANGED <<apm, inherited, ignored>>
    BY <1>2 DEF Waiting
  <2> QED BY <2>1, ApmWas DEF ApmExcused, CleaningUp
<1>3. CASE Passing
  <2>1. steps # <<>> /\ Effects(steps[1]) /\ steps' = Tail(steps) /\ cleanup' = cleanup
    BY <1>3 DEF Passing, Working
  <2>2. CASE steps[1][1] \notin Places /\ apm' = apm /\ inherited' = inherited /\ ignored \subseteq ignored'
    BY <1>1, <2>2 DEF Places
  <2>3. CASE /\ steps[1][1] \in Places
             /\ \E new \in BOOLEAN :
                      /\ P!Toggle(new)
                      /\ steps[1][1] = "airplane" => new = steps[1][2]
                      /\ steps[1][1] = "airplane other" => new = ~apm
                      /\ steps[1][1] = "airplane on cell" => new = FALSE
                      /\ steps[1][1] = "airplane off cell" => new = TRUE
    <3>1. PICK new \in BOOLEAN :
                      /\ P!Toggle(new)
                      /\ steps[1][1] = "airplane" => new = steps[1][2]
                      /\ steps[1][1] = "airplane other" => new = ~apm
                      /\ steps[1][1] = "airplane on cell" => new = FALSE
                      /\ steps[1][1] = "airplane off cell" => new = TRUE
      BY <2>3
    <3>2. (new \/ "apm" \in ignored') /\ ignored \subseteq ignored'
      BY <3>1, ToggleIs DEF SetUp, SetupTyped
    <3>3. CASE "apm" \in ignored'
      BY <3>3 DEF ApmExcused
    <3>4. CASE new /\ steps[1][1] = "airplane"
      <4>1. steps[1][2] = TRUE
        BY <3>1, <3>4
      <4>2. op \in Toggled \union {"iwlan"}
        BY <2>1, <3>4, <4>1, AtWork DEF ReadPhone
      <4>3. CASE op = "iwlan"
        BY <4>3, SameFunction DEF ApmExcused
      <4>4. CASE op \in Toggled
        BY <2>1, <3>4, <4>1, <4>4, TogglingIs
      <4> QED BY <4>2, <4>3, <4>4
    <3>5. CASE new /\ steps[1][1] = "airplane other"
      <4>1. op = "ensure rat" /\ op \in Toggled
        BY <2>1, <3>5, AtWork DEF ReadPhone, Toggled
      <4>2. steps[1] = Back(op) /\ ~apm
        BY <2>1, <3>1, <3>5, <4>1, TogglingIs
      <4>3. "apm" \in ignored
        BY <2>1, <4>1, <4>2 DEF SetUp, ApmOther
      <4> QED BY <3>2, <4>3 DEF ApmExcused
    <3>6. CASE new /\ steps[1][1] = "airplane off cell"
      <4>1. op = "airplane" /\ op \in Trying /\ steps[1] \in Risky
        BY <2>1, <3>6, AtWork DEF ReadPhone, Trying
      <4>2. CleaningUp
        BY <2>1, <4>1, RiskyIsCovered
      <4> QED BY <2>1, <4>1, <4>2 DEF CleaningUp
    <3>7. ~(new /\ steps[1][1] = "airplane on cell")
      BY <3>1
    <3> QED BY <2>3, <3>2, <3>3, <3>4, <3>5, <3>6, <3>7 DEF Places
  <2> QED BY <2>1, <2>2, <2>3, ToggledBy
<1>4. CASE Leaping
  <2>1. /\ steps[1][1] \notin {"airplane", "airplane other"}
        /\ apm' = apm /\ inherited' = inherited /\ ignored \subseteq ignored'
    BY <1>4 DEF Leaping, Skips
  <2> QED BY <1>1, <2>1
<1>5. CASE Failing
  <2>1. steps # <<>> /\ steps' = cleanup
    BY <1>5 DEF Failing, Working
  <2>2. CASE steps[1][1] \notin Places /\ apm' = apm /\ inherited' = inherited /\ ignored \subseteq ignored'
    BY <1>1, <2>2 DEF Places
  <2>3. CASE /\ steps[1][1] \in {"airplane on cell", "airplane off cell"}
             /\ \E new \in BOOLEAN :
                      /\ P!Toggle(new)
                      /\ steps[1][1] = "airplane on cell" => new = FALSE
                      /\ steps[1][1] = "airplane off cell" => new = TRUE
    <3>1. PICK new \in BOOLEAN :
                      /\ P!Toggle(new)
                      /\ steps[1][1] = "airplane on cell" => new = FALSE
                      /\ steps[1][1] = "airplane off cell" => new = TRUE
      BY <2>3
    <3>2. new \/ "apm" \in ignored'
      BY <3>1, ToggleIs DEF SetUp, SetupTyped
    <3>3. CASE "apm" \in ignored'
      BY <3>3 DEF ApmExcused
    <3>4. CASE steps[1][1] = "airplane off cell"
      <4>1. op = "airplane" /\ op \in Trying /\ steps[1] \in Risky
        BY <2>1, <3>4, AtWork DEF ReadPhone, Trying
      <4>2. CleaningUp
        BY <2>1, <4>1, RiskyIsCovered
      <4> QED BY <4>1, <4>2, CleaningKept
    <3> QED BY <2>3, <3>1, <3>2, <3>3, <3>4
  <2> QED BY <1>5, <2>1, <2>2, <2>3, ToggledBy
<1>6. CASE Entering
  <2>1. /\ steps[1][1] \notin {"airplane", "airplane other"}
        /\ apm' = apm /\ inherited' = inherited /\ ignored \subseteq ignored'
    BY <1>6 DEF Entering
  <2> QED BY <1>1, <2>1
<1>7. CASE Ending
  <2>1. /\ steps = <<>> /\ apm' = apm /\ inherited' = inherited /\ ignored \subseteq ignored'
    BY <1>7 DEF Ending
  <2> QED BY <1>1, <2>1
<1> QED BY <1>2, <1>3, <1>4, <1>5, <1>6, <1>7 DEF Moving

LEMMA MovesApmOther == ASSUME SetUp, Moving PROVE ApmOther'
<1> SUFFICES ASSUME op = "ensure rat", steps' # <<>>, steps'[1] = Back(op)
             PROVE  apm' \/ "apm" \in ignored'
  BY SameFunction DEF ApmOther
<1>1. op \in Toggled /\ op \notin Trying
  BY OpsAre DEF Toggled
<1>2. cleanup = <<>>
  BY <1>1, CleaningIs DEF CleaningUp
<1>3. CASE Waiting
  <2>1. UNCHANGED <<apm, ignored, op, steps>>
    BY <1>3 DEF Waiting
  <2> QED BY <2>1 DEF SetUp, ApmOther
<1>4. CASE Passing
  <2>1. steps # <<>> /\ Effects(steps[1]) /\ steps' = Tail(steps)
    BY <1>4 DEF Passing, Working
  <2>2. steps[1][1] = "airplane" /\ steps[1][2] = TRUE
    BY <1>1, <2>1, TogglingIs
  <2>3. P!Toggle(TRUE)
    BY <2>1, <2>2 DEF Effects
  <2> QED BY <2>3, ToggleIs DEF SetUp, SetupTyped
<1>5. ~Leaping
  BY <1>1, LeapingIs
<1>6. ~Failing /\ ~Ending
  BY <1>2 DEF Failing, Ending
<1>7. ~Entering
  BY <1>1, EnteringCleans
<1> QED BY <1>3, <1>4, <1>5, <1>6, <1>7 DEF Moving

LEMMA MovesWifi == ASSUME SetUp, Moving PROVE WifiBack'
<1> SUFFICES ASSUME op = "switching"
             PROVE  \/ steps' # <<>> /\ steps'[1] = <<"try">>
                    \/ CleaningUp' \/ steps' = P!CleanupOf(op)
                    \/ steps' = <<>> /\ (wifiState' = "off" \/ "wifi" \in ignored')
  BY SameFunction DEF WifiBack
<1>1. op \in Trying
  BY DEF Trying
<1>2. CASE Waiting
  <2>1. UNCHANGED <<steps, cleanup, op, ignored>> /\ (wifiState = "off" => wifiState' = "off")
    BY <1>2 DEF Waiting
  <2> QED BY <2>1 DEF SetUp, WifiBack, CleaningUp
<1>3. CASE Entering
  BY <1>3, EnteringCleans
<1>4. CASE CleaningUp
  BY <1>4, CleaningKept
<1>5. CASE steps # <<>> /\ steps[1] = <<"try">>
  <2>1. steps[1][1] = "try"
    BY <1>5, KindsAre
  <2>2. ~Passing /\ ~Leaping /\ ~Failing /\ ~Ending
    BY <1>5, <2>1 DEF Passing, Leaping, Failing, Ending, Skips
  <2> QED BY <1>2, <1>3, <2>2 DEF Moving
<1>6. CASE steps = P!CleanupOf(op)
  <2>1. /\ ~Leaping /\ ~Entering /\ ~Ending /\ ~Failing
        /\ steps[1][1] = "wifi" /\ steps[1][2] = FALSE /\ Tail(steps) = <<>>
    BY <1>1, <1>6, PuttingBack
  <2>2. CASE Passing
    <3>1. steps' = <<>> /\ (wifiState' = "off" \/ "wifi" \in ignored')
      BY <2>1, <2>2 DEF Passing, Effects
    <3> QED BY <3>1
  <2> QED BY <1>2, <2>1, <2>2 DEF Moving
<1>7. CASE steps = <<>> /\ cleanup = <<>> /\ (wifiState = "off" \/ "wifi" \in ignored)
  <2>1. ~Passing /\ ~Leaping /\ ~Failing /\ ~Entering
    BY <1>7 DEF Passing, Leaping, Failing, Entering, Working
  <2>2. CASE Ending
    <3>1. steps' = <<>> /\ wifiState' = wifiState /\ ignored' = ignored
      BY <1>7, <2>2 DEF Ending
    <3> QED BY <1>7, <3>1
  <2> QED BY <1>2, <2>1, <2>2 DEF Moving
<1> QED BY <1>4, <1>5, <1>6, <1>7 DEF SetUp, WifiBack, CleaningUp

LEMMA FirstOrRest ==
  ASSUME SetUp, steps # <<>>
  PROVE  /\ \A K : Has(steps, K) <=> steps[1] \in K \/ Has(Tail(steps), K)
         /\ \A x : LastIs(steps, x) => LastIs(Tail(steps), x) /\ (Tail(steps) = <<>> => steps[1] = x)
<1>1. op \in AnyOp /\ gen \in P!Generations /\ Shaped(op, gen, steps)
  BY CleaningIs
<1>2. PICK S : steps \in Seq(S)
  BY <1>1, AnySequence
<1> QED BY <1>2, HasTail, LastTail

LEMMA TetheringKinds == \A e \in TetheringSteps : e[1] # "if"
<1> DEFINE a == <<"may">>
           b == <<"try">>
           c == <<"wifi", FALSE>>
           d == <<"data", FALSE>>
           e == <<"data", TRUE>>
           f == <<"internet", FALSE>>
           h == <<"internet", TRUE>>
           k == <<"tether">>
           l == <<"untether">>
           m == <<"join">>
           n == <<"await", "wifi">>
           p == <<"wifi default">>
<1>1. TetheringSteps = {a, b, c, d, e, f, h, k, l, m, n, p}
  BY DEF TetheringSteps
<1>2. a[1] # "if" /\ b[1] # "if" /\ c[1] # "if" /\ d[1] # "if" /\ e[1] # "if" /\ f[1] # "if"
  OBVIOUS
<1>3. h[1] # "if" /\ k[1] # "if" /\ l[1] # "if" /\ m[1] # "if" /\ n[1] # "if" /\ p[1] # "if"
  OBVIOUS
<1> HIDE DEF a, b, c, d, e, f, h, k, l, m, n, p
<1> QED BY ONLY <1>1, <1>2, <1>3

LEMMA MovesTether == ASSUME SetUp, Moving PROVE TetherBack'
<1> SUFFICES ASSUME op = "tethering", ok'
             PROVE  \/ Has(steps', Trys) \/ CleaningUp'
                    \/ steps' # <<>> /\ LastIs(steps', <<"untether">>)
                    \/ steps' = <<>> /\ ~ap'
  BY SameFunction DEF TetherBack
<1>1. op \in Trying /\ op \in Even
  BY OpsAre DEF Trying
<1>2. ~Failing
  BY DEF Failing
<1>3. ok
  BY <1>2 DEF Moving, Waiting, Passing, Leaping, Entering, Ending
<1>4. CASE Waiting
  <2>1. UNCHANGED <<steps, cleanup, op, ap>>
    BY <1>4 DEF Waiting
  <2> QED BY <1>3, <2>1 DEF SetUp, TetherBack, CleaningUp
<1>5. CASE Entering
  BY <1>5, EnteringCleans
<1>6. CASE Leaping
  <2>1. steps # <<>> /\ steps[1][1] = "if"
    BY <1>1, <1>6, LeapingIs
  <2>2. steps \in Seq(TetheringSteps)
    BY CleaningIs, AlphabetOf, OpsAre DEF Shaped, Trying
  <2>3. steps[1] \in TetheringSteps
    BY <2>1, <2>2, TailParts
  <2>4. steps[1][1] # "if"
    BY <2>3, TetheringKinds
  <2> QED BY <2>1, <2>4
<1>7. CASE CleaningUp
  <2>1. CleaningUp' \/ steps' = P!CleanupOf(op)
    BY <1>7, CleaningKept
  <2>2. P!CleanupOf(op) # <<>> /\ LastIs(P!CleanupOf(op), <<"untether">>)
    BY <1>1, CleaningIs, CleanupIs DEF Form
  <2> QED BY <2>1, <2>2
<1>8. CASE Passing
  <2>1. /\ steps # <<>> /\ steps' = Tail(steps) /\ steps[1][1] # "try" /\ cleanup' = cleanup
        /\ steps[1][1] = "untether" => ap' = FALSE
    BY <1>8 DEF Passing, Working, Effects
  <2>2. CASE Has(steps, Trys)
    <3>1. steps[1] \notin Trys
      BY <2>1, KindsAre
    <3> QED BY <2>1, <2>2, <3>1, FirstOrRest
  <2>3. CASE LastIs(steps, <<"untether">>)
    <3>1. LastIs(Tail(steps), <<"untether">>) /\ (Tail(steps) = <<>> => steps[1] = <<"untether">>)
      BY <2>1, <2>3, FirstOrRest
    <3>2. Tail(steps) = <<>> => ap' = FALSE
      BY <2>1, <3>1, KindsAre
    <3> QED BY <2>1, <3>1, <3>2
  <2> QED BY <1>3, <1>7, <2>1, <2>2, <2>3 DEF SetUp, TetherBack
<1>9. CASE Ending /\ ~CleaningUp
  <2>1. steps = <<>> /\ steps' = <<>> /\ ap' = ap
    BY <1>9 DEF Ending, CleaningUp
  <2>2. ~Has(steps, Trys)
    BY <2>1, EmptyHas
  <2> QED BY <1>3, <1>9, <2>1, <2>2 DEF SetUp, TetherBack
<1> QED BY <1>2, <1>4, <1>5, <1>6, <1>7, <1>8, <1>9 DEF Moving

(* A function that has not failed: what was done is done.                  *)
LEMMA NotFailed ==
  ASSUME SetUp, Moving, ok' PROVE ok /\ (Waiting \/ Passing \/ Leaping \/ Entering \/ Ending)
BY DEF Moving, Waiting, Passing, Leaping, Failing, Entering, Ending

LEMMA MovesPref == ASSUME SetUp, Moving PROVE PrefSet'
<1> SUFFICES ASSUME op \in AskedOf \union {"csfb", "generation", "bearer"}, ok', ~Has(steps', Prefs)
             PROVE  pref' = gen \/ inUse'
  BY SameFunction DEF PrefSet
<1>1. ok /\ (Waiting \/ Passing \/ Leaping \/ Entering \/ Ending)
  BY NotFailed
<1>2. op \in Even \/ (op = "generation" /\ op \in Toggled)
  BY DEF Even, Trying, Toggled
<1>3. ~Has(steps, Prefs) => pref = gen \/ inUse
  BY <1>1 DEF SetUp, PrefSet
<1>4. CASE Waiting
  <2>1. UNCHANGED <<steps, pref, inUse>>
    BY <1>4 DEF Waiting
  <2> QED BY <1>3, <2>1
<1>5. CASE Passing
  <2>1. steps # <<>> /\ steps' = Tail(steps)
    BY <1>5 DEF Passing, Working
  <2>2. /\ steps[1][1] = "preference" => steps[1][2] = gen
        /\ steps[1][1] \notin {"set", "reset preference"}
    BY <2>1, AtWork DEF ReadSettings
  <2>3. /\ steps[1][1] = "preference" => pref' = steps[1][2] \/ inUse'
        /\ steps[1][1] \notin {"preference", "set", "reset preference"} => pref' = pref /\ inUse' = inUse
    BY <1>5 DEF Passing, Effects
  <2>4. steps[1][1] # "preference" => steps[1] \notin Prefs
    BY KindsAre
  <2>5. steps[1][1] # "preference" => ~Has(steps, Prefs)
    BY <2>1, <2>4, FirstOrRest
  <2>6. CASE steps[1][1] = "preference"
    BY <2>2, <2>3, <2>6
  <2>7. CASE steps[1][1] # "preference"
    <3>1. pref = gen \/ inUse
      BY <1>3, <2>5, <2>7
    <3>2. pref' = pref /\ inUse' = inUse
      BY <2>2, <2>3, <2>7
    <3> QED BY <3>1, <3>2
  <2> QED BY <2>6, <2>7
<1>6. CASE Leaping
  <2>1. pref' = pref /\ inUse' = inUse
    BY <1>6 DEF Leaping
  <2>2. CASE op \in Even
    BY <1>3, <1>6, <2>1, <2>2, StillToCome, Apart
  <2>3. CASE op \in Toggled
    <3>1. steps # <<>> /\ steps[1][1] = "if" /\ ~Has(Tail(steps), Prefs)
      BY <1>6, <2>3, LeapingIs, TogglingIs
    <3>2. ~Has(steps, Prefs)
      BY <3>1, FirstOrRest, KindsAre
    <3> QED BY <1>3, <2>1, <3>2
  <2> QED BY <1>2, <2>2, <2>3
<1>7. CASE Entering
  <2>1. steps[1] \notin Prefs /\ pref' = pref /\ inUse' = inUse
    BY <1>7, KindsAre DEF Entering
  <2> QED BY <1>3, <1>7, <2>1, StillToCome
<1>8. CASE Ending
  <2>1. pref' = pref /\ inUse' = inUse /\ ~Has(steps, Prefs)
    BY <1>8, EmptyHas DEF Ending
  <2> QED BY <1>3, <2>1
<1> QED BY <1>1, <1>4, <1>5, <1>6, <1>7, <1>8

LEMMA AskedEven ==
  ASSUME SetUp, op \in AskedOf \union {"csfb"}
  PROVE  op \in Even /\ ~Entering /\ op \notin Trying
<1>1. op \in Even /\ op \notin Trying
  BY OpsAre
<1> QED BY <1>1, EnteringCleans

LEMMA MovesWfc == ASSUME SetUp, Moving PROVE WfcOff'
<1> SUFFICES ASSUME op \in AskedOf \union {"csfb"}, ok', ~Has(steps', {<<"wfc", FALSE>>})
             PROVE  ~wfc'
  BY SameFunction DEF WfcOff
<1> DEFINE K == {<<"wfc", FALSE>>}
<1>1. ok /\ (Waiting \/ Passing \/ Leaping \/ Ending) /\ op \in Even
  BY NotFailed, AskedEven
<1>2. ~Has(steps, K) => ~wfc
  BY <1>1 DEF SetUp, WfcOff
<1>3. K \cap (SkipOne \union GenAwaits) = {}
  BY Apart
<1>4. \A e \in K : e[1] = "wfc"
  BY KindsAre
<1>5. ~Has(steps', K)
  OBVIOUS
<1> HIDE DEF K
<1>6. CASE Waiting
  <2>1. UNCHANGED <<steps, wfc>>
    BY <1>6 DEF Waiting
  <2> QED BY <1>2, <1>5, <2>1
<1>7. CASE Passing
  <2>1. steps # <<>> /\ steps' = Tail(steps)
    BY <1>7 DEF Passing, Working
  <2>2. steps[1][1] = "wfc" => steps[1][2] = FALSE
    BY <2>1, AtWork DEF ReadSettings
  <2>3. /\ steps[1][1] = "wfc" => wfc' = steps[1][2] \/ (~steps[1][2] /\ ~wfc /\ wfc' = wfc)
        /\ steps[1][1] # "wfc" => wfc' = wfc
    BY <1>7 DEF Passing, Effects
  <2>4. steps[1][1] # "wfc" => ~Has(steps, K)
    BY <1>4, <1>5, <2>1, FirstOrRest
  <2> QED BY <1>2, <2>2, <2>3, <2>4
<1>8. CASE Leaping
  <2>1. wfc' = wfc
    BY <1>8 DEF Leaping
  <2> QED BY <1>1, <1>2, <1>3, <1>5, <1>8, <2>1, StillToCome
<1>9. CASE Ending
  <2>1. wfc' = wfc /\ ~Has(steps, K)
    BY <1>9, EmptyHas DEF Ending
  <2> QED BY <1>2, <2>1
<1> QED BY <1>1, <1>6, <1>7, <1>8, <1>9

LEMMA MovesWifiOff == ASSUME SetUp, Moving PROVE WifiOff'
<1> SUFFICES ASSUME op \in {"data", "voice", "volte", "csfb"}, ok', ~Has(steps', {<<"wifi default">>})
             PROVE  wifiState' = "off"
  BY SameFunction DEF WifiOff
<1> DEFINE K == {<<"wifi default">>}
<1>1. op \in AskedOf \union {"csfb"}
  BY DEF AskedOf
<1>2. ok /\ (Waiting \/ Passing \/ Leaping \/ Ending) /\ op \in Even
  BY <1>1, NotFailed, AskedEven
<1>3. ~Has(steps, K) => wifiState = "off"
  BY <1>2 DEF SetUp, WifiOff
<1>4. K \cap (SkipOne \union GenAwaits) = {}
  BY Apart
<1>5. \A e \in K : e[1] = "wifi default"
  BY KindsAre
<1>6. ~Has(steps', K)
  OBVIOUS
<1> HIDE DEF K
<1>7. CASE Waiting
  <2>1. steps' = steps /\ (wifiState = "off" => wifiState' = "off")
    BY <1>7 DEF Waiting
  <2> QED BY <1>3, <1>6, <2>1
<1>8. CASE Passing
  <2>1. steps # <<>> /\ steps' = Tail(steps)
    BY <1>8 DEF Passing, Working
  <2>2. steps[1][1] \notin {"wifi", "join"}
    BY <1>1, <2>1, AtWork DEF ReadSettings
  <2>3. /\ steps[1][1] = "wifi default" => wifiState' = "off"
        /\ steps[1][1] \notin {"wifi", "join"} /\ wifiState = "off" => wifiState' = "off"
    BY <1>8 DEF Passing, Effects
  <2>4. steps[1][1] # "wifi default" => ~Has(steps, K)
    BY <1>5, <1>6, <2>1, FirstOrRest
  <2> QED BY <1>3, <2>2, <2>3, <2>4
<1>9. CASE Leaping
  <2>1. wifiState' = wifiState
    BY <1>9 DEF Leaping
  <2> QED BY <1>2, <1>3, <1>4, <1>6, <1>9, <2>1, StillToCome
<1>10. CASE Ending
  <2>1. wifiState' = wifiState /\ ~Has(steps, K)
    BY <1>10, EmptyHas DEF Ending
  <2> QED BY <1>3, <2>1
<1> QED BY <1>2, <1>7, <1>8, <1>9, <1>10

LEMMA HoldsOf ==
  /\ \A g \in P!Generations : P!Holds(g) => rat = g \/ (g = "4g" /\ rat = "iwlan")
  /\ P!Holds("lte") => rat = "4g"
<1>1. P!Holds("3g") => rat = "3g"
  BY DEF P!Holds
<1>2. P!Holds("4g") => rat \in {"4g", "iwlan"}
  BY DEF P!Holds
<1>3. P!Holds("lte") => rat = "4g"
  BY DEF P!Holds
<1> QED BY <1>1, <1>2, <1>3 DEF P!Generations

LEMMA MovesGeneration == ASSUME SetUp, Moving PROVE OnGeneration'
<1> SUFFICES ASSUME op \in AskedOf, ok', ~Has(steps', GenAwaits)
             PROVE  lastRat' = gen \/ (gen = "4g" /\ lastRat' = "iwlan")
  BY SameFunction DEF OnGeneration
<1>1. ok /\ (Waiting \/ Passing \/ Leaping \/ Ending) /\ op \in Even
  BY NotFailed, AskedEven
<1>2. ~Has(steps, GenAwaits) => lastRat = gen \/ (gen = "4g" /\ lastRat = "iwlan")
  BY <1>1 DEF SetUp, OnGeneration
<1>3. gen \in P!Generations
  BY CleaningIs
<1>4. CASE Waiting
  <2>1. UNCHANGED <<steps, lastRat>>
    BY <1>4 DEF Waiting
  <2> QED BY <1>2, <2>1
<1>5. CASE Passing
  <2>1. steps # <<>> /\ steps' = Tail(steps)
    BY <1>5 DEF Passing, Working
  <2>2. steps[1][1] = "await" => steps[1][2] = gen
    BY <2>1, AtWork DEF ReadSettings
  <2>3. /\ steps[1][1] = "await" => P!Holds(steps[1][2]) /\ lastRat' = rat
        /\ steps[1][1] # "await" => lastRat' = lastRat
    BY <1>5 DEF Passing, Effects
  <2>4. steps[1][1] # "await" => ~Has(steps, GenAwaits)
    BY <2>1, FirstOrRest, KindsAre
  <2>5. CASE steps[1][1] = "await"
    <3>1. P!Holds(gen) /\ lastRat' = rat
      BY <2>2, <2>3, <2>5
    <3> QED BY <1>3, <3>1, HoldsOf
  <2> QED BY <1>2, <2>3, <2>4, <2>5
<1>6. CASE Leaping
  <2>1. steps # <<>> /\ steps[1][1] = "if"
    BY <1>1, <1>6, LeapingIs
  <2>2. steps[1][2] = gen
    BY <2>1, AtWork DEF ReadSettings
  <2>3. P!Holds(gen) /\ lastRat' = rat
    BY <1>6, <2>1, <2>2 DEF Leaping
  <2> QED BY <1>3, <2>3, HoldsOf
<1>7. CASE Ending
  <2>1. lastRat' = lastRat /\ ~Has(steps, GenAwaits)
    BY <1>7, EmptyHas DEF Ending
  <2> QED BY <1>2, <2>1
<1> QED BY <1>1, <1>4, <1>5, <1>6, <1>7

LEMMA MovesLte == ASSUME SetUp, Moving PROVE OnLte'
<1> SUFFICES ASSUME op = "csfb", ok', steps' = <<>> PROVE lastRat' = "4g"
  BY SameFunction DEF OnLte
<1>1. ok /\ (Waiting \/ Passing \/ Leaping \/ Ending) /\ op \in Even /\ op \notin Trying
  BY NotFailed, AskedEven
<1>2. LastIs(steps, <<"await", "lte">>)
  BY CleaningIs DEF Shaped
<1>3. steps = <<>> => lastRat = "4g"
  BY <1>1 DEF SetUp, OnLte
<1>4. CASE Waiting \/ Ending
  <2>1. cleanup = <<>>
    BY <1>1, CleaningIs DEF CleaningUp
  <2>2. UNCHANGED <<steps, lastRat>>
    BY <1>4, <2>1 DEF Waiting, Ending
  <2> QED BY <1>3, <2>2
<1>5. CASE Passing
  <2>1. steps # <<>> /\ steps' = Tail(steps)
    BY <1>5 DEF Passing, Working
  <2>2. steps[1] = <<"await", "lte">>
    BY <1>2, <2>1, FirstOrRest
  <2>3. steps[1][1] = "await" /\ steps[1][2] = "lte"
    BY <2>2
  <2>4. P!Holds("lte") /\ lastRat' = rat
    BY <1>5, <2>3 DEF Passing, Effects
  <2> QED BY <2>4, HoldsOf
<1>6. CASE Leaping
  <2>1. steps # <<>> /\ Tail(steps) # <<>> /\ Tail(steps)[1] \in GenAwaits /\ steps' = Tail(Tail(steps))
    BY <1>1, <1>6, LeapingIs
  <2>2. LastIs(Tail(steps), <<"await", "lte">>)
    BY <1>2, <2>1, FirstOrRest
  <2>3. PICK S : steps \in Seq(S)
    BY CleaningIs, AnySequence
  <2>4. Tail(steps) \in Seq(S)
    BY <2>1, <2>3, TailParts
  <2>5. Tail(steps)[1] = <<"await", "lte">>
    BY <2>1, <2>2, <2>4, LastTail
  <2> QED BY <2>1, <2>5, Apart
<1> QED BY <1>1, <1>4, <1>5, <1>6

LEMMA MovesSetUp == ASSUME SetUp, Moving PROVE SetUp'
BY MovesTyped, MovesShaped, MovesRisked, MovesData, MovesApm, MovesApmOther, MovesWifi, MovesTether,
   MovesPref, MovesWfc, MovesWifiOff, MovesGeneration, MovesLte DEF SetUp

LEMMA InitSetUp == ASSUME P!Init PROVE SetUp
<1>1. /\ apm = FALSE /\ data = TRUE /\ ok = FALSE /\ wfc = FALSE /\ inherited = FALSE /\ gen = "4g"
      /\ at = "idle" /\ op = "none" /\ steps = <<>> /\ cleanup = <<>>
  BY DEF P!Init
<1>2. SetupTyped
  <2>1. "none" \notin P!Only4g /\ "4g" \in P!Generations
    BY OpsAre DEF P!Generations
  <2> QED BY <1>1, <2>1 DEF SetupTyped
<1>3. StepsShaped
  BY <1>1, EmptyFits DEF StepsShaped
<1>4. Risked
  BY <1>1, EmptyHas DEF Risked
<1>5. DataBack /\ ApmBack /\ ApmOther
  BY <1>1 DEF DataBack, ApmBack, ApmOther
<1>6. WifiBack /\ TetherBack
  BY <1>1 DEF WifiBack, TetherBack
<1>7. PrefSet /\ WfcOff /\ WifiOff /\ OnGeneration /\ OnLte
  BY <1>1 DEF PrefSet, WfcOff, WifiOff, OnGeneration, OnLte
<1> QED BY <1>2, <1>3, <1>4, <1>5, <1>6, <1>7 DEF SetUp

LEMMA BeginsSetUp == ASSUME SetUp, Beginning PROVE SetUp'
<1>1. PICK o \in P!AnyGeneration \union P!Only4g, g \in P!Generations :
        (o \in P!Only4g => g = "4g") /\ P!Begin(o, g)
  BY DEF Beginning
<1>2. /\ at' = "running" /\ op' = o /\ gen' = g /\ steps' = P!Steps(o, g) /\ cleanup' = <<>>
      /\ ok' = TRUE /\ inherited' = apm /\ at = "idle"
      /\ UNCHANGED <<apm, pref, rat, wfc, wifiState, data, ap>>
  BY <1>1 DEF P!Begin, P!phone
<1>3. o # "none"
  BY <1>1, OpsAre
<1>4. SetupTyped'
  BY <1>1, <1>2, <1>3 DEF SetUp, SetupTyped
<1>5. StepsShaped'
  BY <1>1, <1>2, StepsFit DEF StepsShaped
<1>6. o \in Trying =>
        /\ Form(P!Steps(o, g), Alphabet(o, g)) /\ Has(P!Steps(o, g), Trys)
        /\ P!Steps(o, g)[1] = FirstOf(o, g)
  BY <1>1, TryingSteps DEF Tried
<1>7. o \in AskedOf \union {"csfb"} =>
        Form(P!Steps(o, g), Alphabet(o, g)) /\ Preparing(o, P!Steps(o, g))
  BY <1>1, AskedSteps
<1>8. Risked'
  BY <1>2, <1>6 DEF Risked
<1>9. data
  <2>1. steps = <<>> /\ cleanup = <<>> /\ data \in BOOLEAN
    BY <1>2 DEF SetUp, SetupTyped
  <2>2. op \in Trying => P!CleanupOf(op) # <<>>
    BY CleaningIs, CleanupIs DEF Form
  <2> QED BY <2>1, <2>2 DEF SetUp, DataBack, CleaningUp, Trying
<1>10. DataBack' /\ ApmBack'
  BY <1>2, <1>9 DEF DataBack, ApmBack
<1>11. ApmOther'
  <2>1. o = "ensure rat" => P!Steps(o, g)[1] # Back(o)
    BY <1>1, ToggledSteps DEF Toggled
  <2> QED BY <1>2, <2>1 DEF ApmOther
<1>12. WifiBack'
  <2>1. o = "switching" => o \in Trying /\ FirstOf(o, g) = <<"try">>
    BY DEF Trying, FirstOf
  <2>2. o = "switching" => P!Steps(o, g) # <<>> /\ P!Steps(o, g)[1] = <<"try">>
    BY <1>6, <2>1 DEF Form
  <2> QED BY <1>2, <2>2 DEF WifiBack
<1>13. TetherBack'
  <2>1. "tethering" \in Trying
    BY DEF Trying
  <2> QED BY <1>2, <1>6, <2>1 DEF TetherBack
<1>14. PrefSet'
  <2>1. CASE o \in AskedOf \union {"csfb"}
    <3>1. Has(steps', Prefs)
      BY <1>2, <1>7, <2>1 DEF Preparing
    <3> QED BY <3>1 DEF PrefSet
  <2>2. CASE o \in {"generation", "bearer"}
    <3>1. <<"preference", g>> \in Prefs
      BY <1>1, StepsAre
    <3>2. P!Steps(o, g) # <<>> /\ P!Steps(o, g)[1] = <<"preference", g>>
      <4>1. o = "generation" => o \in Toggled /\ Setting(o, g) = <<"preference", g>>
        BY DEF Toggled, Setting
      <4>2. o = "bearer" => o \in Trying /\ FirstOf(o, g) = <<"preference", g>>
        BY DEF Trying, FirstOf
      <4> QED BY <1>1, <1>6, <2>2, <4>1, <4>2, ToggledSteps DEF Form
    <3>3. PICK S : P!Steps(o, g) \in Seq(S)
      BY <1>1, StepsFit, AnySequence
    <3>4. Has(steps', Prefs)
      BY <1>2, <3>1, <3>2, <3>3, HasTail
    <3> QED BY <3>4 DEF PrefSet
  <2> QED BY <1>2, <2>1, <2>2 DEF PrefSet
<1>15. WfcOff'
  BY <1>2, <1>7 DEF WfcOff, Preparing
<1>16. WifiOff'
  <2>1. o \in {"data", "voice", "volte", "csfb"} => o \in AskedOf \union {"csfb"} /\ o # "video"
    BY DEF AskedOf
  <2> QED BY <1>2, <1>7, <2>1 DEF WifiOff, Preparing
<1>17. OnGeneration'
  <2>1. o \in AskedOf => o # "csfb"
    BY DEF AskedOf
  <2> QED BY <1>2, <1>7, <2>1 DEF OnGeneration, Preparing
<1>18. OnLte'
  BY <1>2, <1>7 DEF OnLte, Form
<1> QED BY <1>4, <1>5, <1>8, <1>10, <1>11, <1>12, <1>13, <1>14, <1>15, <1>16, <1>17, <1>18 DEF SetUp

LEMMA NextSetUp == ASSUME SetUp, P!Next PROVE SetUp'
BY NextMoves, BeginsSetUp, MovesSetUp

LEMMA IdleIs ==
  ASSUME SetUp, at = "idle"
  PROVE  /\ steps = <<>> /\ ~CleaningUp /\ \A K : ~Has(steps, K)
         /\ op \in Trying => steps # P!CleanupOf(op)
<1>1. steps = <<>> /\ cleanup = <<>>
  BY DEF SetUp, SetupTyped
<1>2. op \in Trying => P!CleanupOf(op) # <<>>
  BY CleaningIs, CleanupIs DEF Form
<1> QED BY <1>1, <1>2, EmptyHas DEF CleaningUp

LEMMA SetUpRestores == ASSUME SetUp PROVE P!Restored
<1> SUFFICES ASSUME at = "idle" PROVE P!Restored
  BY DEF P!Restored
<1>1. /\ steps = <<>> /\ ~CleaningUp /\ \A K : ~Has(steps, K)
      /\ op \in Trying => steps # P!CleanupOf(op)
  BY IdleIs
<1>2. {"bearer", "tethering", "airplane", "switching"} \subseteq Trying
  BY DEF Trying
<1>3. data
  BY <1>1, <1>2 DEF SetUp, SetupTyped, DataBack
<1>4. apm => inherited \/ "apm" \in ignored \/ op = "iwlan"
  BY <1>1, <1>2 DEF SetUp, ApmBack
<1>5. op = "switching" => wifiState = "off" \/ "wifi" \in ignored
  BY <1>1, <1>2 DEF SetUp, WifiBack
<1>6. op = "tethering" /\ ok => ~ap
  BY <1>1 DEF SetUp, TetherBack
<1> QED BY <1>3, <1>4, <1>5, <1>6 DEF P!Restored

LEMMA SetUpAsks == ASSUME SetUp PROVE P!SetUpAsAsked
<1> SUFFICES ASSUME at = "idle", ok PROVE P!SetUpAsAsked
  BY DEF P!SetUpAsAsked
<1>1. steps = <<>> /\ \A K : ~Has(steps, K)
  BY IdleIs
<1>2. op \in AskedOf \union {"csfb", "generation", "bearer"} => pref = gen \/ inUse
  BY <1>1 DEF SetUp, PrefSet
<1>3. op \in AskedOf \union {"csfb"} => ~wfc
  BY <1>1 DEF SetUp, WfcOff
<1>4. op \in {"data", "voice", "volte", "csfb"} => wifiState = "off"
  BY <1>1 DEF SetUp, WifiOff
<1>5. op \in AskedOf => lastRat = gen \/ (gen = "4g" /\ lastRat = "iwlan")
  BY <1>1 DEF SetUp, OnGeneration
<1>6. op = "csfb" => lastRat = "4g"
  BY <1>1 DEF SetUp, OnLte
<1>7. op \in {"csfb", "video"} => gen = "4g"
  BY DEF SetUp, SetupTyped, P!Only4g
<1>8. "csfb" \notin AskedOf
  BY DEF AskedOf
<1>9. op \in {"data", "voice", "volte", "csfb"} =>
        /\ pref = gen \/ inUse
        /\ ~wfc /\ wifiState = "off"
        /\ lastRat = gen \/ (gen = "4g" /\ lastRat = "iwlan" /\ op # "csfb")
  BY <1>2, <1>3, <1>4, <1>5, <1>6, <1>7 DEF AskedOf
<1>10. op \in {"generation", "bearer", "video"} => pref = gen \/ inUse
  BY <1>2 DEF AskedOf
<1>11. op = "video" => ~wfc /\ lastRat \in {"4g", "iwlan"}
  BY <1>3, <1>5, <1>7 DEF AskedOf
<1> QED BY <1>9, <1>10, <1>11 DEF P!SetUpAsAsked

LEMMA SameSetUp == ASSUME SetUp, UNCHANGED <<setup, op, ok, at>> PROVE SetUp'
<1>1. /\ UNCHANGED <<at, op, gen, steps, cleanup, ok>>
      /\ UNCHANGED <<apm, pref, wfc, data, ap, lastRat, inUse, ignored, inherited>>
      /\ wifiState = "off" => wifiState' = "off"
  BY DEF setup
<1>2. Waiting
  BY <1>1 DEF Waiting
<1> QED BY <1>2, MovesSetUp DEF Moving

LEMMA NextBedSetUp ==
  ASSUME driven = "phone setup" => SetUp, [BedNext]_bed PROVE driven' = "phone setup" => SetUp'
<1> SUFFICES ASSUME driven' = "phone setup" PROVE SetUp'
  OBVIOUS
<1>1. CASE BedNext
  <2>1. driven = "phone setup"
    BY <1>1 DEF BedNext
  <2>2. P!Next
    BY <1>1, <2>1 DEF BedNext, DriveAccessPoint, DriveDevices, DriveWifi, DriveCalls,
       DriveBluetooth, DrivePhoneSetup, DriveMessages, DriveCoex, DriveLab
  <2> QED BY <2>1, <2>2, NextSetUp
<1>2. CASE UNCHANGED bed
  <2>1. driven = "phone setup" /\ UNCHANGED <<setup, op, ok, at>>
    BY <1>2 DEF bed, helper, vars
  <2> QED BY <2>1, SameSetUp
<1> QED BY <1>1, <1>2

(* Wherever the phone registers meanwhile, and whatever step of it fails:  *)
(* a set-up that returns True has the preference set, Wi-Fi calling and    *)
(* Wi-Fi off, and saw the generation it was asked for                      *)
(* (phone_setup_voice_3g_for_subscription, tel_voice_utils.py;             *)
(* ensure_network_generation_for_subscription, tel_test_utils.py).         *)
THEOREM SetsUpAsAsked == BedSpec => []SetUpAsAsked
<1> DEFINE I == driven = "phone setup" => SetUp
<1>1. BedInit => I
  BY InitSetUp DEF BedInit
<1>2. I /\ [BedNext]_bed => I'
  BY NextBedSetUp
<1>3. I => SetUpAsAsked
  BY SetUpAsks DEF SetUpAsAsked
<1> QED BY <1>1, <1>2, <1>3, PTL DEF BedSpec, bed

(* However a set-up or a data test ends, by a failed step or not, cell     *)
(* data is on again and airplane mode, Wi-Fi and tethering are where its   *)
(* finally puts them (airplane_mode_test, wifi_cell_switching and          *)
(* data_connectivity_single_bearer, tel_data_utils.py).                    *)
THEOREM PutsBack == BedSpec => []Restored
<1> DEFINE I == driven = "phone setup" => SetUp
<1>1. BedInit => I
  BY InitSetUp DEF BedInit
<1>2. I /\ [BedNext]_bed => I'
  BY NextBedSetUp
<1>3. I => Restored
  BY SetUpRestores DEF Restored
<1> QED BY <1>1, <1>2, <1>3, PTL DEF BedSpec, bed
=============================================================================

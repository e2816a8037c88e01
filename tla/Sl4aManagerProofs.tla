-------------------------- MODULE Sl4aManagerProofs --------------------------
(***************************************************************************)
(* Proofs about Sl4aManager, for any threads, ports and failing calls, and *)
(* about its error reporter R, first by itself.                            *)
(***************************************************************************)
EXTENDS Sl4aManager, FiniteSetTheorems, TLAPS

-----------------------------------------------------------------------------
(* The error reporter: a step is of any thread, whatever the manager does. *)
LEMMA Bounds == IsFiniteSet(Threads) /\ Nobody \notin Threads /\ MaxReports \in Nat
BY ActorsAssumption, BoundsAssumption

(* A thread about to write the ticket number holds the lock, and what it   *)
(* read is still the number.                                               *)
Holding ==
  \A r \in Threads : step[r] = "draw" => ticketLock = r /\ read[r] = tickets

(* Those that hold a ticket within the limit and have not begun yet.       *)
Admissible == {r \in Threads : step[r] = "drawn" /\ read[r] <= MaxReports}

(* The reports begun and those that will be: one for each ticket at most,  *)
(* and none for a ticket over the limit.  This is what makes ReportsBounded*)
(* inductive.                                                              *)
Counted ==
  /\ reports + Cardinality(Admissible) <= tickets
  /\ reports + Cardinality(Admissible) <= MaxReports

Bounding == R!TypeOK /\ Holding /\ Counted

LEMMA AdmissibleFinite ==
  IsFiniteSet(Admissible) /\ Cardinality(Admissible) \in Nat
<1>1. Admissible \subseteq Threads
  BY DEF Admissible
<1> QED
  BY <1>1, Bounds, FS_Subset, FS_CardinalityType

LEMMA InitBounding == ASSUME R!Init PROVE Bounding
<1>1. Cardinality(Admissible) = 0
  <2>1. Admissible = {}
    BY DEF R!Init, Admissible
  <2> QED
    BY <2>1, FS_EmptySet
<1>2. R!TypeOK
  <2>1. step \in [Threads -> R!Steps] /\ read \in [Threads -> Int]
    BY DEF R!Init, R!Steps
  <2>2. accept \in BOOLEAN /\ overlapped \in BOOLEAN
    BY DEF R!Init
  <2> QED
    BY <2>1, <2>2 DEF R!Init, R!TypeOK
<1>3. Holding
  BY DEF R!Init, Holding
<1>4. Counted
  BY <1>1, Bounds DEF R!Init, Counted
<1> QED
  BY <1>2, <1>3, <1>4 DEF Bounding

(* The actions that admit nobody and draw no ticket.                       *)
LEMMA ElsewhereCounted ==
  ASSUME Counted, Admissible' = Admissible, UNCHANGED <<reports, tickets>>
  PROVE  Counted'
BY DEF Counted

LEMMA TestBounding ==
  ASSUME Bounding, NEW r \in Threads, R!Test(r) PROVE Bounding'
<1> USE DEF Bounding, R!TypeOK, R!Steps, R!Test, R!Goto, R!ticketing
<1>1. R!TypeOK'
  OBVIOUS
<1>2. Holding'
  BY DEF Holding
<1>3. Admissible' = Admissible
  BY DEF Admissible
<1> QED
  BY <1>1, <1>2, <1>3, ElsewhereCounted

LEMMA ReadCounterBounding ==
  ASSUME Bounding, NEW r \in Threads, R!ReadCounter(r) PROVE Bounding'
<1> USE DEF Bounding, R!TypeOK, R!Steps, R!ReadCounter, R!Goto, R!Read, R!ticketing
<1>1. R!TypeOK'
  OBVIOUS
<1>2. Holding'
  BY DEF Holding
<1>3. Admissible' = Admissible
  BY DEF Admissible
<1> QED
  BY <1>1, <1>2, <1>3, ElsewhereCounted

LEMMA WriteCounterBounding ==
  ASSUME Bounding, NEW r \in Threads, R!WriteCounter(r) PROVE Bounding'
<1> USE DEF Bounding, R!TypeOK, R!Steps, R!Goto, R!Read, R!ticketing
<1>1. overlapped' \in BOOLEAN
  BY Zenon DEF R!WriteCounter
<1>2. R!TypeOK'
  BY <1>1 DEF R!WriteCounter
<1>3. Holding'
  BY DEF Holding, R!WriteCounter
<1>4. Admissible' = Admissible
  BY DEF Admissible, R!WriteCounter
<1> QED
  BY <1>2, <1>3, <1>4, ElsewhereCounted DEF R!WriteCounter

LEMMA LockTicketsBounding ==
  ASSUME Bounding, NEW r \in Threads, R!LockTickets(r) PROVE Bounding'
<1> USE DEF Bounding, R!TypeOK, R!Steps, R!LockTickets, R!Goto, R!Read
<1>1. R!TypeOK'
  OBVIOUS
<1>2. Holding'
  BY Bounds DEF Holding
<1>3. Admissible' = Admissible
  BY DEF Admissible
<1> QED
  BY <1>1, <1>2, <1>3, ElsewhereCounted

(* A new ticket within the limit adds one to both sides of Counted; the    *)
(* first conjunct bounds the second, since the ticket is the new number.   *)
LEMMA DrawBounding ==
  ASSUME Bounding, NEW r \in Threads, R!Draw(r) PROVE Bounding'
<1> USE DEF Bounding, R!TypeOK, R!Steps, R!Draw, R!Goto, R!Read
<1>1. read[r] = tickets /\ ticketLock = r /\ tickets' = tickets + 1
  BY DEF Holding
<1>2. R!TypeOK'
  BY <1>1
<1>3. Holding'
  BY <1>1 DEF Holding
<1>4. CASE tickets + 1 <= MaxReports
  <2>1. Admissible' = Admissible \union {r} /\ r \notin Admissible
    BY <1>1, <1>4 DEF Admissible
  <2>2. Cardinality(Admissible') = Cardinality(Admissible) + 1
    BY <2>1, AdmissibleFinite, FS_AddElement
  <2> QED
    BY <1>1, <1>2, <1>3, <1>4, <2>2, AdmissibleFinite, Bounds DEF Counted
<1>5. CASE ~(tickets + 1 <= MaxReports)
  <2>1. Admissible' = Admissible
    BY <1>1, <1>5 DEF Admissible
  <2> QED
    BY <1>1, <1>2, <1>3, <2>1, AdmissibleFinite, Bounds DEF Counted
<1> QED
  BY <1>4, <1>5

(* A thread that begins its report leaves Admissible: the sum is the same. *)
LEMMA AdmitBounding ==
  ASSUME Bounding, NEW r \in Threads, R!Admit(r) PROVE Bounding'
<1> USE DEF Bounding, R!TypeOK, R!Steps, R!Admit, R!Goto, R!Read, R!ticketing
<1>1. R!TypeOK'
  OBVIOUS
<1>2. Holding'
  BY DEF Holding
<1>3. CASE read[r] <= MaxReports
  <2>1. r \in Admissible /\ Admissible' = Admissible \ {r}
    BY <1>3 DEF Admissible
  <2>2. Cardinality(Admissible') = Cardinality(Admissible) - 1
    BY <2>1, AdmissibleFinite, FS_RemoveElement
  <2> QED
    BY <1>1, <1>2, <1>3, <2>2, AdmissibleFinite, Bounds DEF Counted
<1>4. CASE ~(read[r] <= MaxReports)
  <2>1. Admissible' = Admissible
    BY <1>4 DEF Admissible
  <2> QED
    BY <1>1, <1>2, <1>4, <2>1, ElsewhereCounted
<1> QED
  BY <1>3, <1>4

LEMMA ReportBounding ==
  ASSUME Bounding, NEW r \in Threads, R!Report(r) PROVE Bounding'
<1> USE DEF Bounding, R!TypeOK, R!Steps, R!Report, R!Goto, R!ticketing
<1>1. R!TypeOK'
  OBVIOUS
<1>2. Holding'
  BY DEF Holding
<1>3. Admissible' = Admissible
  BY DEF Admissible
<1> QED
  BY <1>1, <1>2, <1>3, ElsewhereCounted

(* The steps of finalize_reports, and no step.                             *)
LEMMA OtherBounding ==
  ASSUME Bounding, R!BeginFinalize \/ R!EndFinalize \/ UNCHANGED R!vars
  PROVE  Bounding'
<1> USE DEF Bounding, R!TypeOK, R!Steps, R!BeginFinalize, R!EndFinalize, R!vars, R!ticketing
<1>1. R!TypeOK'
  OBVIOUS
<1>2. Holding'
  BY DEF Holding
<1>3. Admissible' = Admissible
  BY DEF Admissible
<1> QED
  BY <1>1, <1>2, <1>3, ElsewhereCounted

LEMMA NextBounding == Bounding /\ [R!Next]_(R!vars) => Bounding'
BY TestBounding, ReadCounterBounding, WriteCounterBounding, LockTicketsBounding,
   DrawBounding, AdmitBounding, ReportBounding, OtherBounding DEF R!Next, R!Proceed

LEMMA BoundingImplies == ASSUME Bounding PROVE R!ReportsBounded
BY AdmissibleFinite, Bounds DEF Bounding, R!TypeOK, Counted, R!ReportsBounded

(* The variables of the reporter keep their types; the ticket number stays *)
(* a natural number because of the lock (_get_report_ticket).              *)
THEOREM Typing == R!Spec => []R!TypeOK
<1>1. Bounding => R!TypeOK
  BY DEF Bounding
<1> QED
  BY <1>1, InitBounding, NextBounding, PTL DEF R!Spec

(* However many calls of however many threads fail at once, no more than   *)
(* max_reports reports are written (create_error_report).                  *)
THEOREM ReportsAlwaysBounded == R!Spec => []R!ReportsBounded
<1>1. R!Init => Bounding
  BY InitBounding
<1>2. Bounding /\ [R!Next]_(R!vars) => Bounding'
  BY NextBounding
<1>3. Bounding => R!ReportsBounded
  BY BoundingImplies
<1> QED
  BY <1>1, <1>2, <1>3, PTL DEF R!Spec

(* Nobody holds a ticket beyond the ticket number, so a new one differs    *)
(* from all that are held.                                                 *)
Older == \A r \in Threads : step[r] = "drawn" => read[r] <= tickets

LEMMA NextApart ==
  ASSUME Bounding, Older, R!TicketsApart, [R!Next]_(R!vars)
  PROVE  Older' /\ R!TicketsApart'
<1> USE Bounds DEF Bounding, R!TypeOK, Older, R!TicketsApart, R!Goto, R!Read, R!ticketing
<1>1. ASSUME NEW r \in Threads, R!Test(r) \/ R!Report(r) PROVE Older' /\ R!TicketsApart'
  BY <1>1 DEF R!Test, R!Report
<1>2. ASSUME NEW r \in Threads, R!ReadCounter(r) PROVE Older' /\ R!TicketsApart'
  BY <1>2 DEF R!ReadCounter
<1>3. ASSUME NEW r \in Threads, R!WriteCounter(r) PROVE Older' /\ R!TicketsApart'
  BY <1>3 DEF R!WriteCounter
<1>4. ASSUME NEW r \in Threads, R!LockTickets(r) PROVE Older' /\ R!TicketsApart'
  BY <1>4 DEF R!LockTickets
<1>5. ASSUME NEW r \in Threads, R!Draw(r) PROVE Older' /\ R!TicketsApart'
  <2>1. read[r] = tickets /\ tickets' = tickets + 1 /\ ticketLock = r
    BY <1>5 DEF R!Draw
  <2> QED
    BY <1>5, <2>1 DEF R!Draw
<1>6. ASSUME NEW r \in Threads, R!Admit(r) PROVE Older' /\ R!TicketsApart'
  BY <1>6 DEF R!Admit
<1>7. CASE R!BeginFinalize \/ R!EndFinalize \/ UNCHANGED R!vars
  BY <1>7 DEF R!BeginFinalize, R!EndFinalize, R!vars
<1> QED
  BY <1>1, <1>2, <1>3, <1>4, <1>5, <1>6, <1>7 DEF R!Next, R!Proceed

(* The ticket lock does what it is for: no two threads hold the same       *)
(* ticket, and the number does not change under a thread that has read it. *)
THEOREM TicketsAlwaysApart == R!Spec => []R!TicketsApart
<1> DEFINE Inv == Bounding /\ Older /\ R!TicketsApart
<1>1. R!Init => Inv
  <2>1. R!Init => Older /\ R!TicketsApart
    BY DEF R!Init, Older, R!TicketsApart
  <2> QED
    BY <2>1, InitBounding
<1>2. Inv /\ [R!Next]_(R!vars) => Inv'
  BY NextBounding, NextApart
<1>3. Inv => R!TicketsApart
  OBVIOUS
<1> QED
  BY <1>1, <1>2, <1>3, PTL DEF R!Spec

-----------------------------------------------------------------------------
(* Every step of the manager is a step of its error reporter or leaves the *)
(* reporter alone, so what is proved of the reporter holds here.           *)
THEOREM ReporterImplemented == Spec => R!Spec
<1>1. Init => R!Init
  BY DEF Init
<1>2. [Next]_vars => [R!Next]_(R!vars)
  <2> SUFFICES ASSUME [Next]_vars PROVE R!Next \/ UNCHANGED R!vars
    OBVIOUS
  <2> USE DEF R!vars, reporter
  <2>1. ASSUME NEW t \in Threads, CallFails(t) \/ Diagnose(t) PROVE R!Next
    BY <2>1 DEF CallFails, Diagnose, R!Next
  <2>2. CASE TerminateAll \/ TerminateSessions
    BY <2>2 DEF TerminateAll, TerminateSessions, R!Next
  <2>3. ASSUME NEW t \in Threads,
               Create(t) \/ \E p \in Ports \union {NoPort} : CreateSession(t, p)
        PROVE  UNCHANGED R!vars
    BY <2>3 DEF Create, CreateSession, TestStarted, SetStarted, IsMissing,
                KillOthers, Obtain, Connect, Register
  <2>4. ASSUME NEW a \in Actors, FindPort(a) PROVE UNCHANGED R!vars
    BY <2>4 DEF FindPort, GetAllPorts, LockPorts, ChoosePort, AddPort, NoNewPort
  <2>5. CASE CloseServers \/ ForgetPorts \/ StopService \/ ServerUp \/ ServerDown
             \/ UNCHANGED vars
    BY <2>5 DEF CloseServers, ForgetPorts, StopService, ServerUp, ServerDown, vars
  <2> QED
    BY <2>1, <2>2, <2>3, <2>4, <2>5 DEF Next
<1> QED
  BY <1>1, <1>2, PTL DEF Spec, R!Spec

(* Bounded reports, with sessions created, used and terminated at the same *)
(* time (create_error_report under terminate_all_sessions).                *)
THEOREM ManagerReportsBounded == Spec => []ReportsBounded
<1>1. R!ReportsBounded => ReportsBounded
  BY DEF ReportsBounded
<1> QED
  BY <1>1, ReportsAlwaysBounded, ReporterImplemented, PTL

-----------------------------------------------------------------------------
Places == {"idle", "test", "set", "kill", "obtain", "list", "lock", "choose", "add",
           "connect", "register", "finalize", "close", "closed"}

(* The tables of the manager are functions of the actors and the threads.  *)
Tables ==
  /\ at \in [Actors -> Places] /\ listed \in [Actors -> SUBSET Ports]
  /\ sessions \in [Threads -> Ports \union {NoPort}]
  /\ port \in [Threads -> Ports \union {NoPort}] /\ listening \subseteq Ports

(* A thread that creates a session has none yet; while the owner is at     *)
(* work no session is created, and past the reports none is left.          *)
Phases ==
  /\ \A t \in Threads : at[t] # "idle" => sessions[t] = NoPort
  /\ at[Owner] # "idle" => \A t \in Threads : at[t] = "idle"
  /\ at[Owner] \notin {"idle", "finalize"} => \A t \in Threads : sessions[t] = NoPort

(* The lock spans the choice of a port and its entry in _sl4a_ports: the   *)
(* port chosen stays unknown until then, and the port of every session     *)
(* found that way is known, so no later choice can fall on it.             *)
Choosing ==
  /\ \A a \in Actors : at[a] \in {"choose", "add"} => portLock = a
  /\ \A a \in Actors : at[a] = "add" => listed[a] \intersect known = {}
  /\ \A t \in Threads : Found(t) => listed[t] \subseteq known

Separation == Tables /\ Phases /\ Choosing /\ ServersApart

LEMMA InitSeparation == Init => Separation
<1> SUFFICES ASSUME Init PROVE Separation
  OBVIOUS
<1>1. \A a \in Actors : at[a] = "idle" /\ listed[a] = {}
  BY DEF Init
<1>2. \A t \in Threads : sessions[t] = NoPort /\ at[t] = "idle"
  BY <1>1 DEF Init, Actors
<1>3. Tables
  BY DEF Init, Tables, Places, Actors
<1>4. at[Owner] = "idle"
  BY <1>1 DEF Actors
<1> QED
  BY <1>1, <1>2, <1>3, <1>4 DEF Separation, Phases, Choosing, ServersApart, Found

LEMMA NextSeparation == Separation /\ [Next]_vars => Separation'
<1> SUFFICES ASSUME Separation, [Next]_vars PROVE Separation'
  OBVIOUS
<1> USE ActorsAssumption
    DEF Separation, Tables, Places, Phases, Choosing, ServersApart, Found, Actors, book,
        phone, Goto, GiveUp, Creating
<1>1. ASSUME NEW t \in Threads, NEW p \in Ports \union {NoPort}, CreateSession(t, p)
      PROVE  Separation'
  BY <1>1 DEF CreateSession
<1>2. ASSUME NEW t \in Threads, TestStarted(t) \/ SetStarted(t) \/ KillOthers(t)
      PROVE  Separation'
  BY <1>2 DEF TestStarted, SetStarted, KillOthers
<1>3. ASSUME NEW t \in Threads, IsMissing(t) PROVE Separation'
  BY <1>3 DEF IsMissing
<1>4. ASSUME NEW t \in Threads, Obtain(t) PROVE Separation'
  BY <1>4 DEF Obtain
<1>5. ASSUME NEW t \in Threads, Connect(t) PROVE Separation'
  BY <1>5 DEF Connect
<1>6. ASSUME NEW t \in Threads, Register(t) PROVE Separation'
  BY <1>6 DEF Register
<1>7. ASSUME NEW a \in Actors, GetAllPorts(a) PROVE Separation'
  BY <1>7 DEF GetAllPorts
<1>8. ASSUME NEW a \in Actors, LockPorts(a) PROVE Separation'
  BY <1>8 DEF LockPorts
<1>9. ASSUME NEW a \in Actors, ChoosePort(a) PROVE Separation'
  BY <1>9 DEF ChoosePort
<1>10. ASSUME NEW a \in Actors, AddPort(a) PROVE Separation'
  BY <1>10 DEF AddPort
<1>11. ASSUME NEW a \in Actors, NoNewPort(a) PROVE Separation'
  BY <1>11 DEF NoNewPort
<1>12. ASSUME NEW t \in Threads, CallFails(t) \/ Diagnose(t) PROVE Separation'
  BY <1>12 DEF CallFails, Diagnose
<1>13. CASE TerminateAll
  BY <1>13 DEF TerminateAll
<1>14. CASE TerminateSessions
  BY <1>14 DEF TerminateSessions
<1>15. CASE CloseServers \/ ForgetPorts \/ StopService
  BY <1>15 DEF CloseServers, ForgetPorts, StopService
<1>16. CASE ServerUp \/ ServerDown \/ UNCHANGED vars
  BY <1>16 DEF ServerUp, ServerDown, vars
<1> QED
  BY <1>1, <1>2, <1>3, <1>4, <1>5, <1>6, <1>7, <1>8, <1>9, <1>10, <1>11, <1>12,
     <1>13, <1>14, <1>15, <1>16 DEF Next, Create, FindPort

(* No two sessions that asked for a server of their own get the same one,  *)
(* though every thread reads the open ports before it takes the lock       *)
(* (_get_open_listening_port).                                             *)
THEOREM ServersAlwaysApart == Spec => []ServersApart
<1>1. Separation => ServersApart
  BY DEF Separation
<1> QED
  BY InitSeparation, NextSeparation, <1>1, PTL DEF Spec

-----------------------------------------------------------------------------
(* A creation past its test of _started, and every session, found or made  *)
(* _started true; unless misled it is cleared under none of them.          *)
Started ==
  \A t \in Threads :
    at[t] \notin {"idle", "test", "set"} \/ sessions[t] # NoPort => started = TRUE

(* Unless misled: whoever is on its way to the kill is alone with threads  *)
(* that have not passed the test, and what a creation was given is not     *)
(* about to close, so that the port it connected to goes on listening.     *)
KillerAlone ==
  \A t, u \in Threads :
    at[t] \in {"set", "kill"} /\ u # t =>
      at[u] \in {"idle", "test"} /\ sessions[u] = NoPort

GivenOpen ==
  \A t \in Threads :
    /\ at[t] = "connect" => port[t] \notin closing
    /\ at[t] = "register" => port[t] \in listening \ closing
    /\ sessions[t] # NoPort => sessions[t] \in listening \ closing

Service ==
  /\ Separation
  /\ closing \subseteq listening /\ misled \in BOOLEAN
  /\ misled = FALSE => Started /\ KillerAlone /\ GivenOpen

LEMMA InitService == Init => Service
<1> SUFFICES ASSUME Init PROVE Service
  OBVIOUS
<1>1. \A t \in Threads : sessions[t] = NoPort /\ at[t] = "idle"
  BY DEF Init, Actors
<1>2. closing \subseteq listening /\ misled = FALSE
  BY DEF Init
<1> QED
  BY <1>1, <1>2, InitSeparation DEF Service, Started, KillerAlone, GivenOpen

(* misled is never cleared.                                                *)
LEMMA StaysMisled ==
  ASSUME Service, [Next]_vars
  PROVE  misled' \in BOOLEAN /\ (misled' = FALSE => misled = FALSE)
<1> USE DEF Service
<1>1. ASSUME NEW t \in Threads, TestStarted(t)
      PROVE  misled' \in BOOLEAN /\ (misled' = FALSE => misled = FALSE)
  BY <1>1, Zenon DEF TestStarted
<1>2. ASSUME NEW a \in Actors, AddPort(a)
      PROVE  misled' \in BOOLEAN /\ (misled' = FALSE => misled = FALSE)
  BY <1>2, Zenon DEF AddPort
<1>3. ASSUME StopService PROVE misled' \in BOOLEAN /\ (misled' = FALSE => misled = FALSE)
  BY <1>3, Zenon DEF StopService
<1>4. (\E t \in Threads : TestStarted(t)) \/ (\E a \in Actors : AddPort(a)) \/ StopService
      \/ UNCHANGED misled
  BY DEF Next, Create, FindPort, CreateSession, SetStarted, IsMissing, KillOthers,
         Obtain, GetAllPorts, LockPorts, ChoosePort, NoNewPort, Connect, Register,
         CallFails, Diagnose, TerminateAll, TerminateSessions, CloseServers,
         ForgetPorts, ServerUp, ServerDown, vars
<1> QED
  BY <1>1, <1>2, <1>3, <1>4

LEMMA NextService == Service /\ [Next]_vars => Service'
<1> SUFFICES ASSUME Service, [Next]_vars PROVE Service'
  OBVIOUS
<1> DEFINE Rest == closing \subseteq listening
                   /\ (misled = FALSE => Started /\ KillerAlone /\ GivenOpen)
<1>a. Separation'
  BY NextSeparation DEF Service
<1>b. misled' \in BOOLEAN /\ (misled' = FALSE => misled = FALSE)
  BY StaysMisled
<1> SUFFICES Rest'
  BY <1>a, <1>b DEF Service
<1> USE ActorsAssumption, <1>b
    DEF Service, Separation, Tables, Places, Phases, Started, KillerAlone, GivenOpen,
        Actors, book, phone, Goto, GiveUp, Creating
<1>1. ASSUME NEW t \in Threads, NEW p \in Ports \union {NoPort}, CreateSession(t, p)
      PROVE  Rest'
  BY <1>1 DEF CreateSession
<1>2. ASSUME NEW t \in Threads, TestStarted(t) PROVE Rest'
  BY <1>2 DEF TestStarted
<1>3. ASSUME NEW t \in Threads, SetStarted(t) PROVE Rest'
  BY <1>3 DEF SetStarted
<1>4. ASSUME NEW t \in Threads, IsMissing(t) PROVE Rest'
  BY <1>4 DEF IsMissing
<1>5. ASSUME NEW t \in Threads, KillOthers(t) PROVE Rest'
  BY <1>5 DEF KillOthers
<1>6. ASSUME NEW t \in Threads, Obtain(t) PROVE Rest'
  BY <1>6 DEF Obtain, InUse
<1>7. ASSUME NEW t \in Threads, Connect(t) PROVE Rest'
  BY <1>7 DEF Connect
<1>8. ASSUME NEW t \in Threads, Register(t) PROVE Rest'
  BY <1>8 DEF Register
<1>9. ASSUME NEW a \in Actors, GetAllPorts(a) \/ LockPorts(a) \/ ChoosePort(a)
      PROVE  Rest'
  BY <1>9 DEF GetAllPorts, LockPorts, ChoosePort
<1>10. ASSUME NEW a \in Actors, AddPort(a) PROVE Rest'
  BY <1>10 DEF AddPort
<1>11. ASSUME NEW a \in Actors, NoNewPort(a) PROVE Rest'
  BY <1>11 DEF NoNewPort
<1>12. ASSUME NEW t \in Threads, CallFails(t) \/ Diagnose(t) PROVE Rest'
  BY <1>12 DEF CallFails, Diagnose
<1>13. CASE TerminateAll \/ TerminateSessions
  BY <1>13 DEF TerminateAll, TerminateSessions
<1>14. CASE CloseServers \/ ForgetPorts
  BY <1>14 DEF CloseServers, ForgetPorts
<1>15. CASE ServerUp \/ ServerDown \/ UNCHANGED vars
  BY <1>15 DEF ServerUp, ServerDown, vars
<1>16. CASE StopService
  <2>1. misled' = FALSE => \A t \in Threads : sessions[t] = NoPort /\ at[t] = "idle"
    BY <1>16, Zenon DEF StopService, InUse
  <2> QED
    BY <1>16, <2>1 DEF StopService
<1> QED
  BY <1>1, <1>2, <1>3, <1>4, <1>5, <1>6, <1>7, <1>8, <1>9, <1>10, <1>11, <1>12,
     <1>13, <1>14, <1>15, <1>16 DEF Next, Create, FindPort

(* A session of the manager is served, except in the two cases of misled,  *)
(* whatever threads create sessions and however often they are terminated  *)
(* (start_sl4a_server, _close_all_ports).                                  *)
THEOREM SessionsAlwaysServed == Spec => []SessionServed
<1>1. Service => SessionServed
  BY DEF Service, GivenOpen, SessionServed
<1> QED
  BY InitService, NextService, <1>1, PTL DEF Spec
=============================================================================

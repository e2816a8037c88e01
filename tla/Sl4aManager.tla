----------------------------- MODULE Sl4aManager -----------------------------
(***************************************************************************)
(* The SL4A manager of one phone (sl4a_lib/sl4a_manager.py) with the error *)
(* reporter it owns.                                                       *)
(*                                                                         *)
(* Threads create sessions.  A session needs a server: that of an existing *)
(* session, or a new one, for which the manager sends a command and then   *)
(* looks which ports of the phone are listening until there is one it does *)
(* not know yet.  The owner, who made the threads, terminates all sessions *)
(* when no creation is under way; calls may still be failing, and their    *)
(* threads be at work on error reports.  It uses the same lookup of ports. *)
(***************************************************************************)
EXTENDS Integers, FiniteSets

CONSTANTS
  Threads,     \* threads with a session each
  Owner,       \* the thread that terminates the sessions
  Ports,       \* ports of the phone
  NoPort,      \* port 0, and no session
  Nobody,      \* holds no lock
  MaxReports,  \* ErrorReporter.max_reports
  MaxErrors,   \* bound: calls that fail
  LateStops    \* bound: whether stop_service is called after a termination, too

ASSUME ActorsAssumption == Owner \notin Threads /\ Nobody \notin Threads \union {Owner}
ASSUME PortsAssumption == NoPort \notin Ports
ASSUME BoundsAssumption ==
  IsFiniteSet(Threads) /\ MaxReports \in Nat /\ MaxErrors \in Nat /\ LateStops \in BOOLEAN

Actors == Threads \union {Owner}

VARIABLES
  started,    \* _started
  sessions,   \* sessions: the server port of each thread's session, or NoPort
  known,      \* _sl4a_ports
  portLock,   \* holder of _listen_for_port_lock
  at,         \* where each actor is
  port,       \* server_port of the session being created
  listed,     \* possible_ports of each actor
  listening,  \* phone: ports with a server
  launching,  \* phone: servers that were asked for and are not up yet
  closing,    \* phone: servers told to close
  misled,     \* history: a creation that may lose its server, see below
  accept, requests, tickets, ticketLock, step, read, reports, finalizing,
  overlapped  \* of the error reporter

R == INSTANCE ErrorReporter WITH Reporters <- Threads, NoReporter <- Nobody

book  == <<started, sessions, known>>
phone == <<listening, launching, closing>>
reporter == <<accept, requests, tickets, ticketLock, step, read, reports,
              finalizing, overlapped>>
vars == <<book, portLock, at, port, listed, phone, misled, reporter>>

Init ==
  /\ started = FALSE /\ sessions = [t \in Threads |-> NoPort] /\ known = {}
  /\ portLock = Nobody /\ at = [a \in Actors |-> "idle"]
  /\ port = [t \in Threads |-> NoPort] /\ listed = [a \in Actors |-> {}]
  /\ listening \in SUBSET Ports /\ Cardinality(listening) <= 1
  /\ launching = 0 /\ closing = {} /\ misled = FALSE
  /\ R!Init

Goto(a, s) == at' = [at EXCEPT ![a] = s]
GiveUp(t) ==     \* an exception ends the creation, and with it its local variables
  /\ Goto(t, "idle")
  /\ port' = [port EXCEPT ![t] = NoPort] /\ listed' = [listed EXCEPT ![t] = {}]
InUse == {sessions[t] : t \in Threads} \ {NoPort}     \* sl4a_ports_in_use
Creating == {t \in Threads : at[t] # "idle"}

(* create_session: the port of an existing session, or 0 for a new server. *)
CreateSession(t, p) ==
  /\ at[t] = "idle" /\ sessions[t] = NoPort /\ at[Owner] = "idle"
  /\ Cardinality(listening) + launching + Cardinality(Creating) < Cardinality(Ports)
  /\ p \in InUse \union {NoPort}
  /\ port' = [port EXCEPT ![t] = p] /\ Goto(t, "test")
  /\ UNCHANGED <<book, portLock, listed, phone, misled, reporter>>

(* Mutant of TestStarted: every creation starts the service.               *)
TestNothing(t) ==
  /\ at[t] = "test"
  /\ Goto(t, "set")
  /\ misled' = (misled \/ \E u \in Threads \ {t} : at[u] \in {"set", "kill"})
  /\ UNCHANGED <<book, portLock, port, listed, phone, reporter>>

(* start_sl4a_service tests _started.  While another thread is on its way  *)
(* to the kill below, a creation that goes on may lose its server to it.   *)
TestStarted(t) ==
  /\ at[t] = "test"
  /\ Goto(t, IF started THEN "obtain" ELSE "set")
  /\ misled' = (misled \/ \E u \in Threads \ {t} : at[u] \in {"set", "kill"})
  /\ UNCHANGED <<book, portLock, port, listed, phone, reporter>>

SetStarted(t) ==
  /\ at[t] = "set"
  /\ started' = TRUE /\ Goto(t, "kill")
  /\ UNCHANGED <<sessions, known, portLock, port, listed, phone, misled, reporter>>

(* Sl4aIsMissingError, which leaves _started set.                          *)
IsMissing(t) ==
  /\ at[t] = "kill" /\ GiveUp(t)
  /\ UNCHANGED <<book, portLock, phone, misled, reporter>>

(* kill -9 of the app takes every server with it; the service starts anew. *)
KillOthers(t) ==
  /\ at[t] = "kill"
  /\ listening' = {} /\ launching' = 0 /\ closing' = {}
  /\ Goto(t, "obtain")
  /\ UNCHANGED <<book, portLock, port, listed, misled, reporter>>

(* obtain_sl4a_server: a port in use is kept, else a server is launched.   *)
Obtain(t) ==
  /\ at[t] = "obtain"
  /\ IF port[t] \in InUse
       THEN Goto(t, "connect") /\ UNCHANGED launching
       ELSE Goto(t, "list") /\ launching' = launching + 1
  /\ listed' = [listed EXCEPT ![t] = {}]
  /\ UNCHANGED <<book, portLock, port, listening, closing, misled, reporter>>

-----------------------------------------------------------------------------
(* _get_open_listening_port: the ports are read before the lock is taken.  *)
GetAllPorts(a) ==
  /\ at[a] = "list"
  /\ listed' = [listed EXCEPT ![a] = listening] /\ Goto(a, "lock")
  /\ UNCHANGED <<book, portLock, port, phone, misled, reporter>>

(* Mutant of LockPorts: no lock.                                           *)
LockNoPorts(a) ==
  /\ at[a] = "lock"
  /\ Goto(a, "choose")
  /\ UNCHANGED <<book, portLock, port, listed, phone, misled, reporter>>

LockPorts(a) ==
  /\ at[a] = "lock" /\ portLock = Nobody
  /\ portLock' = a /\ Goto(a, "choose")
  /\ UNCHANGED <<book, port, listed, phone, misled, reporter>>

(* The first listed port that is not known (adb gives them in any order),  *)
(* remembered as the only element of listed ...                            *)
ChoosePort(a) ==
  /\ at[a] = "choose"
  /\ \E p \in listed[a] \ known : listed' = [listed EXCEPT ![a] = {p}]
  /\ Goto(a, "add")
  /\ UNCHANGED <<book, portLock, port, phone, misled, reporter>>

(* ... is added and returned.  A thread connects to it; the owner, who     *)
(* waits for the servers to close, tries again or runs out of time.        *)
AddPort(a) ==
  /\ at[a] = "add"
  /\ known' = known \union listed[a] /\ portLock' = Nobody
  /\ IF a \in Threads
       THEN /\ \E p \in listed[a] : port' = [port EXCEPT ![a] = p]
            /\ Goto(a, "connect")
            /\ misled' = (misled \/ listed[a] \intersect closing # {})
            /\ UNCHANGED listed
       ELSE /\ Goto(a, "list") \/ Goto(a, "closed")
            /\ listed' = [listed EXCEPT ![a] = {}]
            /\ UNCHANGED <<port, misled>>
  /\ UNCHANGED <<started, sessions, phone, reporter>>

(* None is new: a thread tries again or times out, the owner is done.      *)
NoNewPort(a) ==
  /\ at[a] = "choose" /\ listed[a] \subseteq known
  /\ portLock' = Nobody
  /\ \/ a \in Threads /\ GiveUp(a)
     \/ /\ Goto(a, IF a = Owner THEN "closed" ELSE "list")
        /\ listed' = [listed EXCEPT ![a] = {}] /\ UNCHANGED port
  /\ UNCHANGED <<book, phone, misled, reporter>>

-----------------------------------------------------------------------------
(* Sl4aSession connects to its server and opens the session there.         *)
Connect(t) ==
  /\ at[t] = "connect"
  /\ \/ port[t] \in listening /\ Goto(t, "register") /\ UNCHANGED <<port, listed>>
     \/ GiveUp(t)
  /\ UNCHANGED <<book, portLock, phone, misled, reporter>>

Register(t) ==
  /\ at[t] = "register"
  /\ sessions' = [sessions EXCEPT ![t] = port[t]] /\ Goto(t, "idle")
  /\ port' = [port EXCEPT ![t] = NoPort]
  /\ UNCHANGED <<started, known, portLock, listed, phone, misled, reporter>>

(* A call over the session fails: diagnose_failure and the steps of        *)
(* create_error_report.                                                    *)
CallFails(t) ==
  /\ at[t] = "idle" /\ sessions[t] # NoPort /\ R!Test(t)
  /\ UNCHANGED <<book, portLock, at, port, listed, phone, misled>>

Diagnose(t) ==
  /\ R!Proceed(t)
  /\ UNCHANGED <<book, portLock, at, port, listed, phone, misled>>

(* terminate_all_sessions: first the reports ...                           *)
TerminateAll ==
  /\ at[Owner] = "idle" /\ Creating = {}
  /\ R!BeginFinalize /\ Goto(Owner, "finalize")
  /\ UNCHANGED <<book, portLock, port, listed, phone, misled>>

(* ... then every session, and the dictionary is emptied ...               *)
TerminateSessions ==
  /\ at[Owner] = "finalize" /\ R!EndFinalize
  /\ sessions' = [t \in Threads |-> NoPort] /\ Goto(Owner, "close")
  /\ listed' = [a \in Actors |-> {}]
  /\ UNCHANGED <<started, known, portLock, port, phone, misled>>

(* ... then _close_all_ports: every known or listening server is told to   *)
(* close, and the lookup is repeated until it finds no port it does not    *)
(* know, which says nothing of the known ones.                             *)
CloseServers ==
  /\ at[Owner] = "close"
  /\ closing' = closing \union ((known \union listening) \intersect listening)
  /\ Goto(Owner, "list")
  /\ UNCHANGED <<book, portLock, port, listed, listening, launching, misled, reporter>>

ForgetPorts ==
  /\ at[Owner] = "closed"
  /\ known' = {} /\ Goto(Owner, "idle")
  /\ UNCHANGED <<started, sessions, portLock, port, listed, phone, misled, reporter>>

(* stop_service, when no creation is under way.  The next creation starts  *)
(* the service anew, and kills the servers of the sessions there are.      *)
StopService ==
  /\ at[Owner] = "idle" /\ Creating = {} /\ started /\ (LateStops \/ finalizing = "no")
  /\ started' = FALSE /\ misled' = (misled \/ InUse # {})
  /\ UNCHANGED <<sessions, known, portLock, at, port, listed, phone, reporter>>

(* The phone: a launched server comes up, one told to close goes down.     *)
ServerUp ==
  /\ launching > 0 /\ launching' = launching - 1
  /\ \E p \in Ports \ listening : listening' = listening \union {p}
  /\ UNCHANGED <<book, portLock, at, port, listed, closing, misled, reporter>>

ServerDown ==
  /\ \E p \in closing : closing' = closing \ {p} /\ listening' = listening \ {p}
  /\ UNCHANGED <<book, portLock, at, port, listed, launching, misled, reporter>>

FindPort(a) ==
  GetAllPorts(a) \/ LockPorts(a) \/ ChoosePort(a) \/ AddPort(a) \/ NoNewPort(a)
Create(t) ==
  \/ TestStarted(t) \/ SetStarted(t) \/ IsMissing(t) \/ KillOthers(t)
  \/ Obtain(t) \/ Connect(t) \/ Register(t)

Next ==
  \/ \E t \in Threads : \/ \E p \in Ports \union {NoPort} : CreateSession(t, p)
                        \/ Create(t) \/ CallFails(t) \/ Diagnose(t)
  \/ \E a \in Actors : FindPort(a)
  \/ TerminateAll \/ TerminateSessions \/ CloseServers \/ ForgetPorts \/ StopService
  \/ ServerUp \/ ServerDown

Spec == Init /\ [][Next]_vars

(* A thread at work on a report goes on: its commands to adb time out; the *)
(* loop of finalize_reports ends when its test lets it.                    *)
FairSpec ==
  /\ Spec /\ WF_vars(TerminateSessions)
  /\ \A t \in Threads : WF_vars(Diagnose(t))

-----------------------------------------------------------------------------
TypeOK ==
  /\ R!TypeOK
  /\ started \in BOOLEAN /\ misled \in BOOLEAN
  /\ sessions \in [Threads -> Ports \union {NoPort}]
  /\ port \in [Threads -> Ports \union {NoPort}]
  /\ known \subseteq Ports /\ listed \in [Actors -> SUBSET Ports]
  /\ portLock \in Actors \union {Nobody}
  /\ listening \subseteq Ports /\ closing \subseteq listening /\ launching \in Nat
  /\ at \in [Actors -> {"idle", "test", "set", "kill", "obtain", "list", "lock",
                        "choose", "add", "connect", "register", "finalize",
                        "close", "closed"}]

(* Two sessions for which a new server was launched never share a port,    *)
(* from the lookup until both are terminated: the comment in               *)
(* _get_open_listening_port says what its lock is for, and the ports each  *)
(* thread tests were read before the lock was taken.                       *)
Found(t) == at[t] \in {"connect", "register"} \/ sessions[t] # NoPort

ServersApart ==
  \A t, u \in Threads :
    t # u /\ Found(t) /\ Found(u) => listed[t] \intersect listed[u] = {}

(* A session the manager keeps has a server that listens and was not told  *)
(* to close (start_sl4a_server, _close_all_ports), with three exceptions,  *)
(* in which misled is true: it was created while another thread was on its *)
(* way to kill the servers, it was given a server that an earlier          *)
(* terminate_all_sessions had told to close and did not wait for, or       *)
(* stop_service was called under it.                                       *)
SessionServed ==
  \A t \in Threads :
    sessions[t] # NoPort => sessions[t] \in listening \ closing \/ misled

(* Reports are bounded, and so is the wait for them: see ErrorReporter.    *)
ReportsBounded == R!ReportsBounded
FinalizeEnds == R!FinalizeEnds
=============================================================================

------------------------- MODULE PacketCaptureProofs -------------------------
(***************************************************************************)
(* Proofs about PacketCapture and the ssh connection its threads share,    *)
(* for any set of bands, each with a thread, and any failure of a command. *)
(***************************************************************************)
EXTENDS PacketCapture, TLAPS

Cleaning(u) == phase[u] \in {"kill", "forget", "rmdir"}

(* Inside setup_master_ssh, a cleanup made there included.                 *)
Critical(u) ==
  \/ phase[u] \in {"check", "start", "wait", "unlock"}
  \/ Cleaning(u) /\ after[u] \in {"start", "unlock"}

LockHeld ==
  \A u \in Users :
    /\ Critical(u) <=> lock = u
    /\ after[u] \in {"start", "unlock", "lock", "out"}

(* Unless raced: whoever cleans up without the lock does so while nobody   *)
(* has it, and is the only one.                                            *)
Alone ==
  \A u \in Users : S!CleansUnlocked(u) => lock = NoUser /\ ~S!OthersClean(u)

(* Unless raced: a master is started, and a directory removed, when there  *)
(* is no master; the one that is forgotten has been killed.                *)
Sound ==
  /\ ~orphaned /\ (proc # "none" => dir)
  /\ \A u \in Users : phase[u] \in {"start", "rmdir"} => proc = "none"
  /\ \A u \in Users : phase[u] = "forget" => proc # "up"

Keeping == S!TypeOK /\ LockHeld /\ (raced \/ (Alone /\ Sound))

-----------------------------------------------------------------------------
(* Every step of the capturer is a step of the connection or leaves it     *)
(* alone.                                                                  *)
LEMMA StepImplemented == ASSUME [Next]_vars PROVE S!Next \/ UNCHANGED ssh
<1>1. Main \in Users /\ Bands \subseteq Users
  BY DEF Users
<1>2. CASE Command \/ CloseCapturer \/ StartPuller \/ Register \/ Unregister \/ Join
  BY <1>2 DEF Command, CloseCapturer, StartPuller, Register, Unregister, Join
<1>3. CASE CommandDone \/ MakeDir \/ StartTcpdump \/ Confirm \/ Killed \/ RemoveDir
           \/ CloseSsh \/ Closed \/ Raised
  <2>1. S!Answer(Main) \/ S!Close(Main) \/ S!Raise(Main)
    BY <1>3 DEF CommandDone, MakeDir, StartTcpdump, Confirm, Killed, RemoveDir,
                CloseSsh, Closed, Raised, Answered
  <2> QED
    BY <2>1, <1>1 DEF S!Next
<1>4. ASSUME NEW u \in Users, RunCommand(u) \/ SshStep(u) PROVE S!Next
  BY <1>4 DEF RunCommand, SshStep, S!Next
<1>5. ASSUME NEW b \in Bands, List(b) \/ Removed(b) \/ PullerRaises(b) PROVE S!Next
  BY <1>5, <1>1 DEF List, Removed, PullerRaises, S!Next
<1>6. ASSUME NEW b \in Bands,
             StartCapture(b) \/ Rotate(b) \/ Pull(b) \/ CheckStopped(b) \/ PullLast(b)
      PROVE  UNCHANGED ssh
  BY <1>6 DEF StartCapture, Rotate, Pull, CheckStopped, PullLast
<1>7. ASSUME NEW p \in Bands \union {NoBand}, StopCapture(p) PROVE UNCHANGED ssh
  BY <1>7 DEF StopCapture
<1>8. CASE MasterDies
  BY <1>8 DEF MasterDies, S!Next
<1>9. CASE UNCHANGED vars
  BY <1>9 DEF vars
<1> QED
  BY <1>1, <1>2, <1>3, <1>4, <1>5, <1>6, <1>7, <1>8, <1>9
     DEF Next, MainStep, PullerStep

(* PacketCapture uses the connection as SshConnection says: it inherits    *)
(* what is proved of that alone.                                           *)
THEOREM ConnectionImplemented == Spec => S!Spec
<1>1. Init => S!Init
  BY DEF Init
<1>2. [Next]_vars => [S!Next]_(S!vars)
  BY StepImplemented DEF S!vars, ssh
<1> QED
  BY <1>1, <1>2, PTL DEF Spec, S!Spec

-----------------------------------------------------------------------------
LEMMA InitKeeping == S!Init => Keeping
BY UsersAssumption
   DEF S!Init, Keeping, S!TypeOK, S!Phases, S!Procs, LockHeld, Alone, Sound, Critical,
       Cleaning, S!CleansUnlocked, S!OthersClean, Users

(* Every action of a user moves only that user.                            *)
LEMMA NextTyped ==
  ASSUME S!TypeOK, [S!Next]_(S!vars) PROVE S!TypeOK'
<1> USE DEF S!TypeOK, S!Phases, S!Procs, S!Goto, S!Cleanup, S!master
<1>1. ASSUME NEW u \in Users, S!Run(u) \/ S!Close(u) \/ S!Answer(u) \/ S!Raise(u)
      PROVE  S!TypeOK'
  BY <1>1 DEF S!Run, S!Close, S!Answer, S!Raise, S!Leave, S!OthersClean, S!CleansUnlocked
<1>2. ASSUME NEW u \in Users, S!Lock(u) \/ S!Check(u) \/ S!Start(u) \/ S!Wait(u) \/ S!Unlock(u)
      PROVE  S!TypeOK'
  BY <1>2 DEF S!Lock, S!Check, S!Start, S!Wait, S!Unlock, S!OthersClean, S!CleansUnlocked
<1>3. ASSUME NEW u \in Users,
             S!Path(u) \/ S!Job(u) \/ S!Kill(u) \/ S!Forget(u) \/ S!RemoveDir(u)
      PROVE  S!TypeOK'
  BY <1>3 DEF S!Path, S!Job, S!Kill, S!Forget, S!RemoveDir, S!OthersClean, S!CleansUnlocked
<1>4. CASE S!MasterDies \/ UNCHANGED S!vars
  BY <1>4 DEF S!MasterDies, S!vars
<1> QED
  BY <1>1, <1>2, <1>3, <1>4 DEF S!Next, S!Proceed

LEMMA NextLockHeld ==
  ASSUME S!TypeOK, LockHeld, [S!Next]_(S!vars) PROVE LockHeld'
<1> USE UsersAssumption DEF S!TypeOK, S!Phases, LockHeld, Critical, Cleaning, S!Goto, S!Cleanup,
        S!master, Users
<1>1. ASSUME NEW u \in Users, S!Run(u) \/ S!Close(u) \/ S!Answer(u) \/ S!Raise(u)
      PROVE  LockHeld'
  BY <1>1 DEF S!Run, S!Close, S!Answer, S!Raise, S!Leave
<1>2. ASSUME NEW u \in Users, S!Lock(u) \/ S!Check(u) \/ S!Start(u) \/ S!Wait(u) \/ S!Unlock(u)
      PROVE  LockHeld'
  BY <1>2 DEF S!Lock, S!Check, S!Start, S!Wait, S!Unlock
<1>3. ASSUME NEW u \in Users,
             S!Path(u) \/ S!Job(u) \/ S!Kill(u) \/ S!Forget(u) \/ S!RemoveDir(u)
      PROVE  LockHeld'
  BY <1>3 DEF S!Path, S!Job, S!Kill, S!Forget, S!RemoveDir
<1>4. CASE S!MasterDies \/ UNCHANGED S!vars
  BY <1>4 DEF S!MasterDies, S!vars
<1> QED
  BY <1>1, <1>2, <1>3, <1>4 DEF S!Next, S!Proceed

(* While no cleanup has overlapped another user's work, every step keeps   *)
(* the unlocked cleanup alone ...                                          *)
LEMMA NextAlone ==
  ASSUME S!TypeOK, LockHeld, Alone, raced' = FALSE, [S!Next]_(S!vars) PROVE Alone'
<1> USE UsersAssumption DEF S!TypeOK, S!Phases, LockHeld, Critical, Cleaning, Alone,
        S!CleansUnlocked, S!OthersClean, S!Goto, S!Cleanup, S!master, Users
<1>1. ASSUME NEW u \in Users, S!Run(u) \/ S!Answer(u) \/ S!Raise(u) PROVE Alone'
  BY <1>1 DEF S!Run, S!Answer, S!Raise, S!Leave
<1>2. ASSUME NEW u \in Users, S!Close(u) PROVE Alone'
  BY <1>2 DEF S!Close
<1>3. ASSUME NEW u \in Users, S!Lock(u) PROVE Alone'
  BY <1>3 DEF S!Lock
<1>4. ASSUME NEW u \in Users, S!Check(u) PROVE Alone'
  BY <1>4 DEF S!Check
<1>5. ASSUME NEW u \in Users, S!Start(u) \/ S!Wait(u) PROVE Alone'
  BY <1>5 DEF S!Start, S!Wait
<1>6. ASSUME NEW u \in Users, S!Unlock(u) \/ S!Path(u) PROVE Alone'
  BY <1>6 DEF S!Unlock, S!Path
<1>7. ASSUME NEW u \in Users, S!Job(u) PROVE Alone'
  <2>1. CASE phase' = [phase EXCEPT ![u] = "kill"] /\ after' = [after EXCEPT ![u] = "lock"]
             /\ lock = NoUser /\ ~S!OthersClean(u) /\ UNCHANGED lock
    BY <2>1
  <2>2. CASE /\ UNCHANGED <<lock, after>> /\ phase[u] = "job"
             /\ \E p \in {"answered", "raised"} : phase' = [phase EXCEPT ![u] = p]
    BY <2>2
  <2> QED
    BY <1>7, <2>1, <2>2 DEF S!Job
<1>8. ASSUME NEW u \in Users, S!Kill(u) \/ S!Forget(u) PROVE Alone'
  BY <1>8 DEF S!Kill, S!Forget
<1>9. ASSUME NEW u \in Users, S!RemoveDir(u) PROVE Alone'
  BY <1>9 DEF S!RemoveDir
<1>10. CASE S!MasterDies \/ UNCHANGED S!vars
  BY <1>10 DEF S!MasterDies, S!vars
<1> QED
  BY <1>1, <1>2, <1>3, <1>4, <1>5, <1>6, <1>7, <1>8, <1>9, <1>10 DEF S!Next, S!Proceed

(* ... and the master known and in its directory.                          *)
LEMMA NextSound ==
  ASSUME S!TypeOK, LockHeld, Alone, Sound, [S!Next]_(S!vars) PROVE Sound'
<1>1. ASSUME NEW u \in Users, NEW v \in Users, u # v, Cleaning(u) \/ phase[u] = "start"
      PROVE  ~Cleaning(v) /\ phase[v] # "start"
  BY <1>1, UsersAssumption
     DEF S!TypeOK, LockHeld, Critical, Cleaning, Alone, S!CleansUnlocked, S!OthersClean, Users
<1> USE DEF S!TypeOK, S!Phases, S!Procs, LockHeld, Cleaning, Sound, S!Goto, S!Cleanup, S!master
<1>2. ASSUME NEW u \in Users, S!Run(u) \/ S!Close(u) \/ S!Answer(u) \/ S!Raise(u)
      PROVE  Sound'
  BY <1>2 DEF S!Run, S!Close, S!Answer, S!Raise, S!Leave
<1>3. ASSUME NEW u \in Users, S!Lock(u) \/ S!Check(u) \/ S!Wait(u) \/ S!Unlock(u)
      PROVE  Sound'
  BY <1>3 DEF S!Lock, S!Check, S!Wait, S!Unlock
<1>4. ASSUME NEW u \in Users, S!Start(u) PROVE Sound'
  BY <1>1, <1>4 DEF S!Start
<1>5. ASSUME NEW u \in Users, S!Path(u) \/ S!Job(u) PROVE Sound'
  BY <1>5 DEF S!Path, S!Job
<1>6. ASSUME NEW u \in Users, S!Kill(u) PROVE Sound'
  BY <1>1, <1>6 DEF S!Kill
<1>7. ASSUME NEW u \in Users, S!Forget(u) PROVE Sound'
  BY <1>1, <1>7 DEF S!Forget
<1>8. ASSUME NEW u \in Users, S!RemoveDir(u) PROVE Sound'
  BY <1>1, <1>8 DEF S!RemoveDir
<1>9. CASE S!MasterDies \/ UNCHANGED S!vars
  BY <1>9 DEF S!MasterDies, S!vars
<1> QED
  BY <1>2, <1>3, <1>4, <1>5, <1>6, <1>7, <1>8, <1>9 DEF S!Next, S!Proceed

(* raced is never taken back.                                              *)
LEMMA RacedStays == ASSUME S!TypeOK, raced, [S!Next]_(S!vars) PROVE raced'
BY DEF S!TypeOK, S!Next, S!Proceed, S!Run, S!Close, S!Answer, S!Raise, S!Leave, S!Lock,
       S!Check, S!Start, S!Wait, S!Unlock, S!Path, S!Job, S!Kill, S!Forget, S!RemoveDir,
       S!MasterDies, S!vars

LEMMA NextKeeping == Keeping /\ [S!Next]_(S!vars) => Keeping'
<1> SUFFICES ASSUME Keeping, [S!Next]_(S!vars) PROVE Keeping'
  OBVIOUS
<1>1. S!TypeOK' /\ LockHeld'
  BY NextTyped, NextLockHeld DEF Keeping
<1>2. CASE raced'
  BY <1>1, <1>2 DEF Keeping
<1>3. CASE ~raced'
  <2>1. raced' = FALSE
    BY <1>1, <1>3 DEF S!TypeOK
  <2>2. Alone /\ Sound
    BY <1>3, RacedStays DEF Keeping
  <2> QED
    BY <1>1, <2>1, <2>2, NextAlone, NextSound DEF Keeping
<1> QED
  BY <1>2, <1>3

-----------------------------------------------------------------------------
(* The master connection is kept (setup_master_ssh under its lock,         *)
(* _cleanup_master_ssh with and without it), however many threads use it.  *)
THEOREM MasterAlwaysKept == Spec => []MasterKept
<1>1. S!Init => Keeping
  BY InitKeeping
<1>2. Keeping /\ [S!Next]_(S!vars) => Keeping'
  BY NextKeeping
<1>3. Keeping => MasterKept
  BY DEF Keeping, Sound, MasterKept, S!MasterKept, S!TypeOK
<1> QED
  BY <1>1, <1>2, <1>3, ConnectionImplemented, PTL DEF S!Spec

-----------------------------------------------------------------------------
(* The files.                                                              *)
Alive(b) == puller[b] \notin {"none", "dead"}

Starting == {"mktemp", "tcpdump", "confirm", "thread", "register"}
Stopping == {"kill", "unregister", "join", "rmdir"}

FilesTyped ==
  /\ registered \in Seq(Bands) /\ missed \subseteq Bands
  /\ puller \in [Bands -> {"none", "dead", "ls", "pull", "rm", "check", "last"}]
  /\ current \in [Bands -> Nat] /\ written \in [Bands -> Nat]
  /\ pulled \in [Bands -> SUBSET Nat]
  /\ at \in Starting \union Stopping => band \in Bands

(* pcap_properties has a band once.                                        *)
EachOnce == \A i, j \in DOMAIN registered : registered[i] = registered[j] => i = j

(* A thread that runs has its entry, or is about to get or to lose it.     *)
Entered ==
  /\ \A b \in Bands : Alive(b) => Registered(b) \/ (at \in {"register", "join"} /\ band = b)
  /\ at \in Starting \union {"join", "rmdir"} => ~Registered(band)
  /\ at \in {"kill", "unregister"} => Registered(band)
  /\ EachOnce


(* Past the kill the tcpdump of the capture is over, unless it is missed.  *)
Ended ==
  /\ at \in Stopping => band = pid \/ band \in missed
  /\ at \in {"unregister", "join", "rmdir"} \/ (at = "kill" /\ phase[Main] = "answered")
       => pid \notin dumping
  /\ at \notin Commands \union {"closed"} => phase[Main] = "out"

(* The thread has pulled the files below its number, which tcpdump has     *)
(* reached; it has seen that there is no other when it pulls the last.     *)
Pulled(b) ==
  /\ Alive(b) => current[b] <= written[b] /\ \A k \in Nat : k < current[b] => k \in pulled[b]
  /\ puller[b] \in {"pull", "rm"} => current[b] < written[b]
  /\ puller[b] = "rm" => current[b] \in pulled[b]
  /\ puller[b] = "check" => current[b] = written[b] \/ b \in missed
  /\ puller[b] = "last" => b \in missed \/ (current[b] = written[b] /\ at = "join" /\ band = b)
  /\ puller[b] = "none" /\ (Registered(b) \/ (at = "register" /\ band = b)) => b \in missed
  /\ puller[b] = "none" /\ at \in {"join", "rmdir"} /\ band = b
       => b \in missed \/ \A k \in Nat : k <= written[b] => k \in pulled[b]

Pulling == FilesTyped /\ Entered /\ Ended /\ \A b \in Bands : Pulled(b)

Connected == S!TypeOK /\ LockHeld

LEMMA UsersTyped == Main \in Users /\ Bands \subseteq Users /\ Main \notin Bands
BY UsersAssumption DEF Users

LEMMA InitPulling == Init => Pulling
<1> SUFFICES ASSUME Init PROVE Pulling
  OBVIOUS
<1>1. registered = <<>> /\ EachOnce /\ \A b \in Bands : ~Registered(b)
  BY DEF Init, Registered, EachOnce
<1>2. registered \in Seq(Bands)
  BY <1>1
<1>3. phase[Main] = "out"
  BY UsersTyped DEF Init, S!Init
<1> QED
  BY <1>1, <1>2, <1>3, MaxFileAssumption
     DEF Init, Pulling, FilesTyped, Entered, Ended, Pulled, Alive, Starting, Stopping, Commands

LEMMA SameEntries ==
  ASSUME UNCHANGED registered
  PROVE  (\A b : Registered(b)' <=> Registered(b)) /\ (EachOnce' <=> EachOnce)
BY DEF Registered, EachOnce

(* A step of the connection taken by one user.                             *)
LEMMA OthersPhase ==
  ASSUME Connected, NEW u \in Users, S!Run(u) \/ S!Proceed(u) \/ S!Answer(u) \/ S!Raise(u)
  PROVE  /\ u # Main => phase'[Main] = phase[Main]
         /\ S!Answer(u) \/ S!Raise(u) => phase'[u] = "out"
         /\ S!Run(u) => phase'[u] # "answered"
         /\ S!Proceed(u) /\ phase[u] # "job" => phase'[u] # "answered"
<1> USE UsersTyped DEF Connected, S!TypeOK, S!Goto, S!Cleanup
<1>1. CASE S!Run(u) \/ S!Answer(u) \/ S!Raise(u)
  BY <1>1 DEF S!Run, S!Answer, S!Raise, S!Leave
<1>2. CASE S!Proceed(u)
  <2>1. CASE S!Lock(u) \/ S!Check(u) \/ S!Start(u) \/ S!Wait(u) \/ S!Unlock(u) \/ S!Path(u)
    BY <1>2, <2>1 DEF S!Lock, S!Check, S!Start, S!Wait, S!Unlock, S!Path, S!Answer, S!Raise, S!Leave, S!Run
  <2>2. CASE S!Job(u) \/ S!Kill(u) \/ S!Forget(u)
    BY <1>2, <2>2 DEF S!Job, S!Kill, S!Forget, S!Answer, S!Raise, S!Leave, S!Run
  <2>3. CASE S!RemoveDir(u)
    BY <1>2, <2>3 DEF S!RemoveDir, LockHeld, S!Answer, S!Raise, S!Leave, S!Run
  <2> QED BY <1>2, <2>1, <2>2, <2>3 DEF S!Proceed
<1> QED BY <1>1, <1>2

LEMMA UnchangedPulls ==
  ASSUME Pulling, UNCHANGED <<control, pull, host, phase>> PROVE Pulling'
<1>1. FilesTyped' /\ Entered' /\ Ended'
  BY SameEntries DEF Pulling, FilesTyped, Entered, Ended, Alive, control, pull, host
<1>2. \A b \in Bands : Pulled(b)'
  BY SameEntries DEF Pulling, Pulled, Alive, control, pull, host
<1> QED BY <1>1, <1>2 DEF Pulling

(* The main thread goes on, and neither a file nor an entry changes.       *)
LEMMA GoesOn ==
  ASSUME Pulling, UNCHANGED <<registered, puller, current, pulled, written, missed>>,
         at' \in Starting \union Stopping => band' \in Bands,
         at' \in Starting => ~Registered(band'),
         at' \in {"kill", "unregister"} => Registered(band'),
         at' \notin {"join", "rmdir", "register"},
         at \in {"join", "register"} => ~Alive(band),
         Ended'
  PROVE  Pulling'
<1>1. FilesTyped'
  BY DEF Pulling, FilesTyped
<1>2. Entered'
  BY SameEntries DEF Pulling, Entered, Alive
<1>3. ASSUME NEW b \in Bands PROVE Pulled(b)'
  BY <1>3, SameEntries DEF Pulling, Pulled, Alive
<1> QED BY <1>1, <1>2, <1>3 DEF Pulling

LEMMA CommandPulls ==
  ASSUME Pulling, Connected,
         Command \/ CloseCapturer \/ CommandDone \/ MakeDir \/ StartTcpdump \/ Confirm \/ Killed
         \/ RemoveDir \/ CloseSsh \/ Closed \/ Raised \/ \E b \in Bands : StartCapture(b)
  PROVE  Pulling'
<1>1. UNCHANGED <<registered, puller, current, pulled, written, missed, dumping>>
  BY DEF Command, CloseCapturer, CommandDone, MakeDir, StartTcpdump, Confirm, Killed,
         RemoveDir, CloseSsh, Closed, Raised, StartCapture, pull, host
<1>2. /\ at' \in Starting \union Stopping => band' \in Bands
      /\ at' \in Starting => ~Registered(band')
      /\ at' \in {"kill", "unregister"} => Registered(band')
      /\ at' \notin {"join", "rmdir", "register"} /\ at \notin {"join", "register"}
  BY DEF Command, CloseCapturer, CommandDone, MakeDir, StartTcpdump, Confirm, Killed,
         RemoveDir, CloseSsh, Closed, Raised, StartCapture, Answered, Return, Starting, Stopping,
         Commands, Pulling, FilesTyped, Entered
<1>3. Ended'
  <2>1. CASE Command \/ CloseCapturer \/ \E b \in Bands : StartCapture(b)
    BY <1>1, <2>1 DEF Command, CloseCapturer, StartCapture, Pulling, Ended, Stopping, Commands, ssh
  <2>2. CASE CommandDone \/ MakeDir \/ StartTcpdump \/ Confirm \/ Killed \/ RemoveDir \/ CloseSsh \/ Raised
    <3>1. S!Answer(Main) \/ S!Raise(Main)
      BY <2>2 DEF CommandDone, MakeDir, StartTcpdump, Confirm, Killed, RemoveDir, CloseSsh, Raised, Answered
    <3>2. phase'[Main] = "out" /\ (S!Answer(Main) => phase[Main] = "answered")
      BY <3>1, OthersPhase, UsersTyped DEF S!Answer, S!Leave
    <3> QED
      BY <1>1, <2>2, <3>2 DEF CommandDone, MakeDir, StartTcpdump, Confirm, Killed, RemoveDir, CloseSsh,
         Raised, Answered, Return, Pulling, Ended, Stopping, Commands
  <2>3. CASE Closed
    BY <1>1, <2>3 DEF Closed, Pulling, Ended, Stopping, Commands
  <2> QED BY <2>1, <2>2, <2>3
<1> QED BY <1>1, <1>2, <1>3, GoesOn

LEMMA StopCapturePulls ==
  ASSUME Pulling, NEW p \in Bands \union {NoBand}, StopCapture(p) PROVE Pulling'
<1> USE DEF StopCapture
<1>1. band' \in Bands /\ Registered(band')
  <2>1. CASE Registered(p)
    BY <2>1 DEF Registered, Pulling, FilesTyped
  <2>2. CASE ~Registered(p)
    <3>1. registered \in Seq(Bands) /\ Len(registered) \in DOMAIN registered
      BY DEF Pulling, FilesTyped
    <3> QED BY <2>2, <3>1 DEF Registered
  <2> QED BY <2>1, <2>2
<1>2. /\ UNCHANGED <<registered, puller, current, pulled, dumping, written>> /\ UNCHANGED phase
      /\ at = "idle" /\ at' = "kill" /\ pid' = p
      /\ missed' \subseteq Bands /\ missed \subseteq missed' /\ (band' = pid' \/ band' \in missed')
  BY <1>1 DEF Pulling, FilesTyped, pull, ssh
<1>3. FilesTyped'
  BY <1>1, <1>2 DEF Pulling, FilesTyped
<1>4. Entered' /\ Ended'
  BY <1>1, <1>2, SameEntries DEF Pulling, Entered, Ended, Alive, Starting, Stopping, Commands
<1>5. ASSUME NEW b \in Bands PROVE Pulled(b)'
  BY <1>2, <1>5, SameEntries DEF Pulling, Pulled, Alive
<1> QED BY <1>3, <1>4, <1>5 DEF Pulling

LEMMA StartPullerPulls == ASSUME Pulling, StartPuller PROVE Pulling'
<1> USE DEF StartPuller
<1>1. band \in Bands /\ ~Registered(band) /\ phase[Main] = "out" /\ UNCHANGED phase
  BY DEF Pulling, FilesTyped, Entered, Ended, Starting, Commands, ssh
<1>2. FilesTyped'
  BY <1>1 DEF Pulling, FilesTyped
<1>3. Entered' /\ Ended'
  BY <1>1, SameEntries DEF Pulling, FilesTyped, Entered, Ended, Alive, Starting, Stopping, Commands
<1>4. ASSUME NEW b \in Bands PROVE Pulled(b)'
  <2>1. CASE b = band
    BY <1>1, <2>1 DEF Pulling, FilesTyped, Pulled, Alive
  <2>2. CASE b # band
    BY <1>1, <2>2, SameEntries DEF Pulling, FilesTyped, Pulled, Alive
  <2> QED BY <2>1, <2>2
<1> QED BY <1>2, <1>3, <1>4 DEF Pulling

LEMMA RegisterPulls == ASSUME Pulling, Register PROVE Pulling'
<1> USE DEF Register
<1>1. band \in Bands /\ registered \in Seq(Bands) /\ registered' = Append(registered, band)
  BY DEF Pulling, FilesTyped, Starting
<1>2. /\ registered' \in Seq(Bands)
      /\ \A b \in Bands : Registered(b)' <=> Registered(b) \/ b = band
  BY <1>1 DEF Registered
<1>3. EachOnce'
  <2>1. /\ EachOnce /\ ~Registered(band)
        /\ Len(registered) \in Nat /\ DOMAIN registered = 1 .. Len(registered)
    BY <1>1 DEF Pulling, Entered, Starting
  <2>2. /\ DOMAIN registered' = 1 .. Len(registered) + 1
        /\ \A i \in DOMAIN registered' : registered'[i] = IF i = Len(registered) + 1 THEN band
                                                         ELSE registered[i]
    BY <1>1
  <2>3. \A i \in DOMAIN registered' : i = Len(registered) + 1 \/ i \in DOMAIN registered
    BY <2>1, <2>2
  <2> QED BY <2>1, <2>2, <2>3 DEF EachOnce, Registered
<1>4. /\ at = "register" /\ at' = "idle" /\ phase[Main] = "out" /\ UNCHANGED phase
      /\ UNCHANGED <<puller, current, pulled, dumping, written, missed>>
  BY DEF Pulling, Ended, Commands, Return, pull, host, ssh
<1>5. FilesTyped' /\ Entered' /\ Ended'
  BY <1>1, <1>2, <1>3, <1>4 DEF Pulling, FilesTyped, Entered, Ended, Alive, Starting, Stopping, Commands
<1>6. ASSUME NEW b \in Bands PROVE Pulled(b)'
  BY <1>2, <1>4, <1>6 DEF Pulling, Pulled, Alive
<1> QED BY <1>5, <1>6 DEF Pulling

LEMMA Joined ==
  ASSUME NEW S1, NEW x \in Seq(S1), NEW y \in Seq(S1)
  PROVE  /\ x \o y \in Seq(S1) /\ Len(x \o y) = Len(x) + Len(y)
         /\ \A j \in 1 .. Len(x) + Len(y) :
              (x \o y)[j] = IF j <= Len(x) THEN x[j] ELSE y[j - Len(x)]
OBVIOUS

(* The entry of one band goes, those of the others stay.                   *)
LEMMA DropKeeps ==
  ASSUME registered \in Seq(Bands), EachOnce, NEW c, DropEntry(c)
  PROVE  /\ registered' \in Seq(Bands) /\ EachOnce' /\ ~Registered(c)'
         /\ \A b \in Bands \ {c} : Registered(b) => Registered(b)'
         /\ \A b \in Bands : Registered(b)' => Registered(b)
<1>1. PICK i \in DOMAIN registered : registered[i] = c /\ registered' = RemoveAt(registered, i)
  BY DEF DropEntry
<1> DEFINE n == Len(registered)
<1> DEFINE s == SubSeq(registered, 1, i-1)
<1> DEFINE r == SubSeq(registered, i+1, n)
<1>2. n \in Nat /\ i \in 1 .. n /\ DOMAIN registered = 1 .. n
  OBVIOUS
<1>3. /\ s \in Seq(Bands) /\ Len(s) = i - 1 /\ \A j \in 1 .. i-1 : s[j] = registered[j]
  BY <1>2
<1>4. /\ r \in Seq(Bands) /\ Len(r) = n - i
      /\ \A j \in 1 .. n-i : r[j] = registered[i + j]
  BY <1>2
<1>5. registered' = s \o r
  BY <1>1 DEF RemoveAt
<1> HIDE DEF s, r
<1>6. /\ registered' \in Seq(Bands) /\ Len(registered') = n - 1 /\ DOMAIN registered' = 1 .. n-1
      /\ \A j \in 1 .. n-1 : registered'[j] = IF j < i THEN registered[j] ELSE registered[j + 1]
  <2>1. /\ registered' \in Seq(Bands) /\ Len(registered') = Len(s) + Len(r)
    BY <1>3, <1>4, <1>5, Joined
  <2>2. Len(registered') = n - 1 /\ DOMAIN registered' = 1 .. n-1
    BY <1>2, <1>3, <1>4, <2>1
  <2>3. ASSUME NEW j \in 1 .. n-1
        PROVE  registered'[j] = IF j < i THEN registered[j] ELSE registered[j + 1]
    <3>1. registered'[j] = IF j <= Len(s) THEN s[j] ELSE r[j - Len(s)]
      BY <1>3, <1>4, <1>5, <1>2, Joined
    <3>2. CASE j < i
      BY <3>1, <3>2, <1>2, <1>3
    <3>3. CASE ~(j < i)
      <4>1. j - Len(s) = j - i + 1 /\ ~(j <= Len(s)) /\ j - i + 1 \in 1 .. n-i
        BY <3>3, <1>2, <1>3
      <4>2. i + (j - i + 1) = j + 1
        BY <1>2
      <4> QED BY <3>1, <3>3, <4>1, <4>2, <1>4
    <3> QED BY <3>2, <3>3
  <2> QED BY <2>1, <2>2, <2>3
<1>7. ASSUME NEW b \in Bands \ {c}, Registered(b) PROVE Registered(b)'
  <2>1. PICK j \in 1 .. n : registered[j] = b
    BY <1>7, <1>2 DEF Registered
  <2>2. CASE j < i
    <3>1. j \in 1 .. n-1
      BY <2>2, <1>2
    <3> QED BY <1>6, <2>1, <2>2, <3>1 DEF Registered
  <2>3. CASE j > i
    <3>1. j - 1 \in 1 .. n-1 /\ ~(j - 1 < i) /\ (j - 1) + 1 = j
      BY <2>3, <1>2
    <3> QED BY <1>6, <2>1, <3>1 DEF Registered
  <2>4. j # i
    BY <1>1, <1>7, <2>1
  <2> QED BY <1>2, <2>2, <2>3, <2>4
<1>8. ASSUME NEW b \in Bands, Registered(b)' PROVE Registered(b)
  <2>1. PICK j \in 1 .. n-1 : registered'[j] = b
    BY <1>8, <1>6 DEF Registered
  <2>2. j \in 1 .. n /\ j + 1 \in 1 .. n
    BY <1>2
  <2> QED BY <2>1, <2>2, <1>2, <1>6 DEF Registered
<1>9. EachOnce' /\ ~Registered(c)'
  <2> DEFINE old(j) == IF j < i THEN j ELSE j + 1
  <2>1. \A j \in 1 .. n-1 : /\ old(j) \in 1 .. n /\ old(j) # i /\ registered'[j] = registered[old(j)]
                           /\ \A k \in 1 .. n-1 : old(j) = old(k) => j = k
    BY <1>2, <1>6
  <2> HIDE DEF old
  <2> QED BY <2>1, <1>1, <1>2, <1>6 DEF EachOnce, Registered
<1> QED BY <1>6, <1>7, <1>8, <1>9

LEMMA UnregisterPulls == ASSUME Pulling, Unregister PROVE Pulling'
<1> USE DEF Unregister
<1>1. /\ registered' \in Seq(Bands) /\ EachOnce' /\ ~Registered(band)'
      /\ \A b \in Bands \ {band} : Registered(b) => Registered(b)'
      /\ \A b \in Bands : Registered(b)' => Registered(b)
  BY DropKeeps DEF Pulling, FilesTyped, Entered
<1>2. /\ at = "unregister" /\ at' = "join" /\ phase[Main] = "out" /\ UNCHANGED phase
      /\ UNCHANGED <<puller, current, pulled, dumping, written, missed, band, pid>>
      /\ band \in Bands /\ Registered(band)
  BY DEF Pulling, FilesTyped, Entered, Ended, Commands, Stopping, pull, host, ssh
<1>3. FilesTyped' /\ Entered' /\ Ended'
  BY <1>1, <1>2 DEF Pulling, FilesTyped, Entered, Ended, Alive, Starting, Stopping, Commands
<1>4. ASSUME NEW b \in Bands PROVE Pulled(b)'
  BY <1>1, <1>2, <1>4 DEF Pulling, Pulled, Alive
<1> QED BY <1>3, <1>4 DEF Pulling

LEMMA JoinPulls == ASSUME Pulling, Join PROVE Pulling'
<1>1. /\ at = "join" /\ at' = "rmdir" /\ phase[Main] = "out" /\ UNCHANGED phase
      /\ UNCHANGED <<registered, puller, current, pulled, dumping, written, missed, band, pid>>
      /\ ~Alive(band)
  BY DEF Join, Pulling, Ended, Commands, Alive, pull, host, ssh
<1>2. FilesTyped' /\ Entered' /\ Ended'
  BY <1>1, SameEntries DEF Pulling, FilesTyped, Entered, Ended, Alive, Starting, Stopping, Commands
<1>3. ASSUME NEW b \in Bands PROVE Pulled(b)'
  BY <1>1, <1>3, SameEntries DEF Pulling, Pulled, Alive
<1> QED BY <1>2, <1>3 DEF Pulling

(* The threads that pull.                                                  *)
LEMMA PullerPulls ==
  ASSUME Pulling, Connected, NEW b \in Bands,
         List(b) \/ Pull(b) \/ Removed(b) \/ PullerRaises(b) \/ CheckStopped(b) \/ PullLast(b)
  PROVE  Pulling'
<1> USE DEF GotoP
<1>1. /\ UNCHANGED <<registered, at, band, pid, dumping, written>>
      /\ phase'[Main] = phase[Main]
      /\ Alive(b)
  <2>1. UNCHANGED <<registered, at, band, pid, dumping, written>> /\ Alive(b)
    BY DEF List, Pull, Removed, PullerRaises, CheckStopped, PullLast, control, host, Alive
  <2>2. CASE List(b) \/ Removed(b) \/ PullerRaises(b)
    BY <2>1, <2>2, OthersPhase, UsersTyped DEF List, Removed, PullerRaises
  <2>3. CASE Pull(b) \/ CheckStopped(b) \/ PullLast(b)
    BY <2>1, <2>3 DEF Pull, CheckStopped, PullLast, ssh
  <2> QED BY <2>1, <2>2, <2>3
<1>2. FilesTyped'
  <2>1. FilesTyped
    BY DEF Pulling
  <2>2. CASE List(b) \/ PullerRaises(b)
    BY <1>1, <2>1, <2>2 DEF List, PullerRaises, FilesTyped, host
  <2>3. CASE Pull(b) \/ PullLast(b)
    <3>1. /\ \E p \in {"rm", "none", "dead"} : puller' = [puller EXCEPT ![b] = p]
          /\ pulled' = [pulled EXCEPT ![b] = @ \union {current[b]}] \/ UNCHANGED pulled
          /\ UNCHANGED <<current, missed>>
      BY <2>3 DEF Pull, PullLast, host
    <3>2. pulled[b] \union {current[b]} \in SUBSET Nat /\ pulled \in [Bands -> SUBSET Nat]
      BY <2>1 DEF FilesTyped
    <3>3. pulled' \in [Bands -> SUBSET Nat]
      BY <3>1, <3>2
    <3> QED BY <1>1, <2>1, <3>1, <3>3 DEF FilesTyped
  <2>4. CASE Removed(b)
    BY <1>1, <2>1, <2>4 DEF Removed, FilesTyped, host
  <2>5. CASE CheckStopped(b)
    BY <1>1, <2>1, <2>5 DEF CheckStopped, FilesTyped
  <2> QED BY <2>2, <2>3, <2>4, <2>5
<1>3. /\ \A c \in Bands \ {b} : puller'[c] = puller[c] /\ current'[c] = current[c] /\ pulled'[c] = pulled[c]
      /\ missed \subseteq missed'
  BY DEF List, Pull, Removed, PullerRaises, CheckStopped, PullLast, Pulling, FilesTyped, host
<1>4. Entered' /\ Ended'
  BY <1>1, <1>3, SameEntries DEF Pulling, FilesTyped, Entered, Ended, Alive, Starting, Stopping, Commands
<1>5. ASSUME NEW c \in Bands \ {b} PROVE Pulled(c)'
  BY <1>1, <1>3, <1>5, SameEntries DEF Pulling, Pulled, Alive
<1>6. Pulled(b)'
  <2>1. Registered(b) \/ (at \in {"register", "join"} /\ band = b)
    BY <1>1 DEF Pulling, Entered
  <2>2. Pulled(b) /\ FilesTyped
    BY DEF Pulling
  <2>3. CASE List(b)
    <3>1. /\ puller'[b] = IF current[b] < written[b] THEN "pull" ELSE "check"
          /\ UNCHANGED <<current, pulled, missed>> /\ puller[b] = "ls"
      BY <2>2, <2>3 DEF List, FilesTyped, host
    <3>2. /\ current[b] <= written[b] /\ current[b] \in Nat /\ written[b] \in Nat
          /\ \A k \in Nat : k < current[b] => k \in pulled[b]
      BY <2>2, <3>1 DEF FilesTyped, Pulled, Alive
    <3>3. current[b] < written[b] \/ current[b] = written[b]
      BY <3>2
    <3> QED BY <1>1, <3>1, <3>2, <3>3 DEF Pulled, Alive
  <2>4. CASE Pull(b)
    BY <2>2, <2>4, <1>1, SameEntries DEF Pull, FilesTyped, Pulled, Alive, host
  <2>5. CASE Removed(b)
    BY <2>2, <2>5, <1>1, SameEntries DEF Removed, FilesTyped, Pulled, Alive, host
  <2>6. CASE PullerRaises(b)
    BY <2>2, <2>6, <1>1, SameEntries DEF PullerRaises, FilesTyped, Pulled, Alive, host
  <2>7. CASE CheckStopped(b)
    BY <2>1, <2>2, <2>7, <1>1, SameEntries DEF CheckStopped, FilesTyped, Pulled, Alive
  <2>8. CASE PullLast(b)
    <3>1. Entered
      BY DEF Pulling
    <3>2. b \in missed \/ (current[b] = written[b] /\ at = "join" /\ band = b)
      BY <2>2, <2>8 DEF PullLast, Pulled
    <3>3. UNCHANGED <<current, missed>>
      BY <2>8 DEF PullLast, host
    <3>4. CASE puller' = [puller EXCEPT ![b] = "dead"]
      BY <2>2, <3>4, <1>1 DEF Pulled, FilesTyped, Alive
    <3>5. CASE puller' = [puller EXCEPT ![b] = "none"]
                /\ pulled' = [pulled EXCEPT ![b] = @ \union {current[b]}]
      <4>1. /\ puller'[b] = "none" /\ pulled'[b] = pulled[b] \union {current[b]}
            /\ current[b] \in Nat /\ written[b] \in Nat /\ puller[b] = "last"
        BY <2>2, <2>8, <3>5 DEF FilesTyped, PullLast
      <4>2. \A k \in Nat : k < current[b] => k \in pulled[b]
        BY <2>2, <4>1 DEF Pulled, Alive
      <4>3. b \in missed \/ \A k \in Nat : k <= written[b] => k < current[b] \/ k = current[b]
        BY <3>2, <4>1
      <4>4. Registered(b)' => b \in missed'
        BY <1>1, <2>1, <3>1, <3>2, <3>3, SameEntries DEF Entered
      <4> QED BY <1>1, <3>2, <3>3, <4>1, <4>2, <4>3, <4>4, SameEntries DEF Pulled, Alive
    <3> QED BY <2>8, <3>4, <3>5 DEF PullLast
  <2> QED BY <2>3, <2>4, <2>5, <2>6, <2>7, <2>8
<1> QED BY <1>2, <1>4, <1>5, <1>6 DEF Pulling

(* The host and the connection.                                            *)
LEMMA RotatePulls == ASSUME Pulling, NEW b \in Bands, Rotate(b) PROVE Pulling'
<1> USE DEF Rotate
<1>1. /\ UNCHANGED <<registered, at, band, pid, dumping, phase, puller, current, pulled>>
      /\ b \in dumping /\ missed \subseteq missed' /\ missed' \subseteq Bands
  BY DEF Pulling, FilesTyped, control, pull, ssh
<1>2. FilesTyped'
  BY <1>1 DEF Pulling, FilesTyped
<1>3. Entered' /\ Ended'
  BY <1>1, SameEntries DEF Pulling, Entered, Ended, Alive, Starting, Stopping, Commands
<1>4. ASSUME NEW c \in Bands PROVE Pulled(c)'
  <2>1. CASE c # b
    BY <1>1, <2>1, SameEntries DEF Pulling, FilesTyped, Pulled, Alive
  <2>2. CASE c = b
    <3>1. at \in {"join", "rmdir"} /\ band = b => b \in missed
      BY <1>1 DEF Pulling, Ended, Stopping
    <3> QED BY <1>1, <2>2, <3>1, SameEntries DEF Pulling, FilesTyped, Pulled, Alive
  <2> QED BY <2>1, <2>2
<1> QED BY <1>2, <1>3, <1>4 DEF Pulling

LEMMA SshPulls ==
  ASSUME Pulling, Connected, NEW u \in Users, RunCommand(u) \/ SshStep(u) PROVE Pulling'
<1>1. /\ UNCHANGED <<registered, at, band, pid, puller, current, pulled, missed>>
      /\ S!Run(u) \/ S!Proceed(u)
  BY DEF RunCommand, SshStep, control, pull, host
<1>2. S!Proceed(u) => phase[u] # "out"
  BY DEF S!Proceed, S!Lock, S!Check, S!Start, S!Wait, S!Unlock, S!Path, S!Job, S!Kill, S!Forget,
         S!RemoveDir
<1>3. u = Main => at \in Commands \union {"closed"}
  BY <1>2 DEF RunCommand, SshStep, Commanding, Pulling, Ended
<1>4. \/ UNCHANGED <<dumping, written>> /\ (u = Main => phase'[Main] # "answered")
      \/ u = Main /\ RunsOnHost
  BY OthersPhase DEF RunCommand, SshStep, host
<1>5. CASE UNCHANGED <<dumping, written>> /\ (u = Main => phase'[Main] # "answered")
  <2>1. FilesTyped' /\ Entered' /\ \A b \in Bands : Pulled(b)'
    BY <1>1, <1>5, SameEntries DEF Pulling, FilesTyped, Entered, Pulled, Alive
  <2>2. Ended'
    BY <1>1, <1>3, <1>5, OthersPhase DEF Pulling, Ended
  <2> QED BY <2>1, <2>2 DEF Pulling
<1>6. CASE u = Main /\ RunsOnHost
  <2>1. /\ at = "tcpdump" => written' = [written EXCEPT ![band] = 0]
        /\ at = "kill" => dumping' = dumping \ {pid}
        /\ at # "tcpdump" => UNCHANGED written /\ dumping' \subseteq dumping
    BY <1>6 DEF RunsOnHost
  <2>2. at = "tcpdump" => band \in Bands /\ ~Registered(band) /\ ~Alive(band)
    BY DEF Pulling, FilesTyped, Entered, Starting
  <2>3. FilesTyped' /\ Entered'
    BY <1>1, <2>1, <2>2, SameEntries DEF Pulling, FilesTyped, Entered, Alive
  <2>4. Ended'
    BY <1>1, <1>3, <1>6, <2>1 DEF Pulling, Ended, Stopping
  <2>5. ASSUME NEW b \in Bands PROVE Pulled(b)'
    <3>1. CASE at = "tcpdump" /\ b = band
      BY <3>1, <1>1, <2>2, SameEntries DEF Pulling, Pulled, Alive
    <3>2. CASE ~(at = "tcpdump" /\ b = band)
      <4>1. written'[b] = written[b]
        BY <3>2, <2>1, <2>2 DEF Pulling, FilesTyped
      <4> QED BY <4>1, <1>1, SameEntries DEF Pulling, Pulled, Alive
    <3> QED BY <3>1, <3>2
  <2> QED BY <2>3, <2>4, <2>5 DEF Pulling
<1> QED BY <1>4, <1>5, <1>6

LEMMA NextPulling == ASSUME Pulling, Connected, [Next]_vars PROVE Pulling'
<1>1. CASE Next
  <2>1. CASE MainStep
    <3>1. CASE RunCommand(Main) \/ SshStep(Main)
      BY <3>1, SshPulls, UsersTyped
    <3>2. CASE StartPuller
      BY <3>2, StartPullerPulls
    <3>3. CASE Register
      BY <3>3, RegisterPulls
    <3>4. CASE Unregister
      BY <3>4, UnregisterPulls
    <3>5. CASE Join
      BY <3>5, JoinPulls
    <3>6. CASE CommandDone \/ MakeDir \/ StartTcpdump \/ Confirm \/ Killed \/ RemoveDir
               \/ CloseSsh \/ Closed \/ Raised
      BY <3>6, CommandPulls
    <3> QED BY <2>1, <3>1, <3>2, <3>3, <3>4, <3>5, <3>6 DEF MainStep
  <2>2. ASSUME NEW b \in Bands, PullerStep(b) PROVE Pulling'
    <3>1. CASE RunCommand(b) \/ SshStep(b)
      BY <3>1, SshPulls, UsersTyped
    <3>2. CASE List(b) \/ Pull(b) \/ Removed(b) \/ PullerRaises(b) \/ CheckStopped(b) \/ PullLast(b)
      BY <3>2, PullerPulls
    <3> QED BY <2>2, <3>1, <3>2 DEF PullerStep
  <2>3. CASE Command \/ CloseCapturer \/ \E b \in Bands : StartCapture(b)
    BY <2>3, CommandPulls
  <2>4. CASE \E b \in Bands : Rotate(b)
    BY <2>4, RotatePulls
  <2>5. CASE \E p \in Bands \union {NoBand} : StopCapture(p)
    BY <2>5, StopCapturePulls
  <2>6. CASE MasterDies
    <3>1. UNCHANGED <<control, pull, host, phase>>
      BY <2>6 DEF MasterDies, S!MasterDies
    <3> QED BY <3>1, UnchangedPulls
  <2> QED BY <1>1, <2>1, <2>2, <2>3, <2>4, <2>5, <2>6 DEF Next
<1>2. CASE UNCHANGED vars
  <2>1. UNCHANGED <<control, pull, host, phase>>
    BY <1>2 DEF vars, ssh
  <2> QED BY <2>1, UnchangedPulls
<1> QED BY <1>1, <1>2

(* What stop_packet_capture leaves pulled (_pull_pcap, start_packet_capture *)
(* and stop_packet_capture), for any bands, each with its thread, any      *)
(* number of files and any failure of a command.                           *)
THEOREM FilesAlwaysPulled == Spec => []FilesPulled
<1>1. Init => Pulling /\ Connected
  <2>1. Init => S!Init
    BY DEF Init
  <2> QED BY <2>1, InitPulling, InitKeeping DEF Keeping, Connected
<1>2. Pulling /\ Connected /\ [Next]_vars => Pulling' /\ Connected'
  <2>1. [Next]_vars => [S!Next]_(S!vars)
    BY StepImplemented DEF S!vars, ssh
  <2> QED BY <2>1, NextPulling, NextTyped, NextLockHeld DEF Connected
<1>3. Pulling => FilesPulled
  <2> SUFFICES ASSUME Pulling, at = "rmdir", puller[band] = "none", band \notin missed
               PROVE  0 .. written[band] \subseteq pulled[band]
    BY DEF FilesPulled
  <2>1. band \in Bands /\ written[band] \in Nat
    BY DEF Pulling, FilesTyped, Stopping
  <2>2. \A k \in Nat : k <= written[band] => k \in pulled[band]
    BY <2>1 DEF Pulling, Pulled
  <2> QED BY <2>1, <2>2
<1> QED BY <1>1, <1>2, <1>3, PTL DEF Spec
=============================================================================

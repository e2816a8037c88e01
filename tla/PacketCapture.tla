---------------------------- MODULE PacketCapture ----------------------------
(***************************************************************************)
(* A packet capturer (controllers/packet_capture.py) over its ssh          *)
(* connection.                                                             *)
(*                                                                         *)
(* The test's thread starts and stops captures.  A capture is a tcpdump on *)
(* the host, which writes numbered files, and a thread here that pulls a   *)
(* file once the next one exists, and the current one when the capture is  *)
(* no longer registered.  All threads send their commands over the same    *)
(* SshConnection: a step below that runs a command is taken with the       *)
(* answer of SshConnection, and its effect on the host with the job.       *)
(***************************************************************************)
EXTENDS Integers, Sequences, FiniteSets, SequencesExt

CONSTANTS
  Bands,     \* each has a thread that pulls, and is its name as a user of ssh
  Main,      \* the test's thread
  NoBand, NoUser,
  MaxFile    \* bound: the last file tcpdump writes

ASSUME UsersAssumption == Main \notin Bands /\ NoUser \notin Bands \union {Main}
ASSUME MaxFileAssumption == MaxFile \in Nat

VARIABLES
  at,          \* where the test's thread is
  band,        \* the band of its operation
  registered,  \* pcap_properties, in insertion order
  pid,         \* stop: the band whose tcpdump has the given pid, or NoBand
  puller,      \* where the thread of each band is
  stopLock,    \* holder of _pcap_stop_lock
  current,     \* curr_no of each thread
  pulled,      \* the files it has pulled
  dumping,     \* host: the bands with a tcpdump
  written,     \* host: the number of the file tcpdump is writing
  missed,      \* history: bands that may lose a file, see FilesPulled
  lock, proc, dir, phase, after, second, orphaned, raced    \* of ssh

Users == Bands \union {Main}
S == INSTANCE SshConnection

control == <<at, band, registered, pid>>
pull    == <<puller, stopLock, current, pulled>>
host    == <<dumping, written, missed>>
ssh     == <<lock, proc, dir, phase, after, second, orphaned, raced>>
vars    == <<control, pull, host, ssh>>

Registered(b) == \E i \in DOMAIN registered : registered[i] = b

Init ==
  /\ at = "idle" /\ band = NoBand /\ registered = <<>> /\ pid = NoBand
  /\ puller = [b \in Bands |-> "none"] /\ stopLock = NoUser
  /\ current = [b \in Bands |-> 0] /\ pulled = [b \in Bands |-> {}]
  /\ dumping = {} /\ written = [b \in Bands |-> 0] /\ missed = {}
  /\ S!Init

-----------------------------------------------------------------------------
(* The commands over ssh: Commanding users run them; the effect of a       *)
(* command on the host comes with its job, even if an error is reported.   *)
Commands == {"command", "mktemp", "tcpdump", "confirm", "kill", "rmdir", "cleanup"}
Commanding(u) == IF u = Main THEN at \in Commands ELSE puller[u] \in {"ls", "rm"}

RunCommand(u) ==
  /\ Commanding(u) /\ S!Run(u)
  /\ UNCHANGED <<control, pull, host>>

RunsOnHost ==
  CASE at = "tcpdump" -> /\ dumping' = dumping \union {band}
                         /\ written' = [written EXCEPT ![band] = 0]
    [] at = "kill"    -> dumping' = dumping \ {pid} /\ UNCHANGED written
    [] at = "cleanup" -> dumping' = {} /\ UNCHANGED written
    [] OTHER          -> UNCHANGED <<dumping, written>>

SshStep(u) ==
  /\ S!Proceed(u)
  /\ \/ u = Main /\ phase[u] = "job" /\ RunsOnHost
     \/ UNCHANGED <<dumping, written>>
        /\ (u = Main /\ phase[u] = "job" => phase'[u] # "answered")
  /\ UNCHANGED <<control, pull, missed>>

MasterDies == S!MasterDies /\ UNCHANGED <<control, pull, host>>

Return == at' = "idle" /\ band' = NoBand /\ pid' = NoBand
Answered(from, to) == at = from /\ S!Answer(Main) /\ at' = to
(* An exception out of ssh.run ends the operation.                         *)
Raised ==
  /\ at \in Commands /\ S!Raise(Main) /\ Return
  /\ UNCHANGED <<registered, pull, host>>

-----------------------------------------------------------------------------
(* A scan, or configure_monitor_mode: commands that change nothing here.   *)
Command ==
  /\ at = "idle" /\ at' = "command"
  /\ UNCHANGED <<band, registered, pid, pull, host, ssh>>
CommandDone ==
  /\ Answered("command", "idle")
  /\ UNCHANGED <<band, registered, pid, pull, host>>

(* start_packet_capture of a band that is not registered: a directory, a   *)
(* tcpdump, its confirmation in the log (or None is returned and tcpdump   *)
(* left alone), the thread, and only then the properties.                  *)
StartCapture(b) ==
  /\ at = "idle" /\ ~Registered(b)
  /\ band' = b /\ at' = "mktemp"
  /\ UNCHANGED <<registered, pid, pull, host, ssh>>

MakeDir ==
  /\ Answered("mktemp", "tcpdump")
  /\ UNCHANGED <<band, registered, pid, pull, host>>
StartTcpdump ==
  /\ Answered("tcpdump", "confirm")
  /\ UNCHANGED <<band, registered, pid, pull, host>>

Confirm ==
  /\ at = "confirm" /\ S!Answer(Main)
  /\ \/ Return
     \/ at' = "confirm" /\ UNCHANGED <<band, pid>>
     \/ band \in dumping /\ at' = "thread" /\ UNCHANGED <<band, pid>>
  /\ UNCHANGED <<registered, pull, host>>

StartPuller ==
  /\ at = "thread" /\ at' = "register"
  /\ puller' = [puller EXCEPT ![band] = "ls"]
  /\ current' = [current EXCEPT ![band] = 0] /\ pulled' = [pulled EXCEPT ![band] = {}]
  /\ missed' = missed \ {band}
  /\ UNCHANGED <<band, registered, pid, stopLock, dumping, written, ssh>>

Register ==
  /\ at = "register" /\ Return
  /\ registered' = Append(registered, band)
  /\ UNCHANGED <<pull, host, ssh>>

-----------------------------------------------------------------------------
(* stop_packet_capture: the capture with this pid, or, if there is none,   *)
(* the last one, whose tcpdump then is not the one that is killed.         *)
StopCapture(p) ==
  /\ at = "idle" /\ registered # <<>>
  /\ pid' = p /\ band' = IF Registered(p) THEN p ELSE registered[Len(registered)]
  /\ missed' = IF Registered(p) THEN missed ELSE missed \union {band'}
  /\ at' = "kill"
  /\ UNCHANGED <<registered, pull, dumping, written, ssh>>

Killed ==
  /\ Answered("kill", "unregister")
  /\ UNCHANGED <<band, registered, pid, pull, host>>

(* del pcap_properties[key]                                                *)
DropEntry(b) ==
  \E i \in DOMAIN registered : registered[i] = b /\ registered' = RemoveAt(registered, i)

(* Mutant of Unregister: the thread is awaited with the lock held.         *)
UnregisterLocked ==
  /\ at = "unregister" /\ stopLock = NoUser
  /\ stopLock' = Main
  /\ DropEntry(band) /\ at' = "join"
  /\ UNCHANGED <<band, pid, puller, current, pulled, host, ssh>>

Unregister ==
  /\ at = "unregister" /\ stopLock = NoUser
  /\ DropEntry(band) /\ at' = "join"
  /\ UNCHANGED <<band, pid, pull, host, ssh>>

Join ==
  /\ at = "join" /\ puller[band] \in {"none", "dead"}
  /\ at' = "rmdir"
  /\ UNCHANGED <<band, registered, pid, pull, host, ssh>>

RemoveDir ==
  /\ at = "rmdir" /\ S!Answer(Main) /\ Return
  /\ UNCHANGED <<registered, pull, host>>

(* close: the interfaces are deleted, the directories removed, and the ssh *)
(* connection closed.  Captures are not stopped.                           *)
CloseCapturer ==
  /\ at = "idle" /\ at' = "cleanup"
  /\ UNCHANGED <<band, registered, pid, pull, host, ssh>>
CloseSsh ==
  /\ Answered("cleanup", "close ssh")
  /\ UNCHANGED <<band, registered, pid, pull, host>>
Closed ==
  /\ at = "close ssh" /\ S!Close(Main) /\ at' = "closed"
  /\ UNCHANGED <<band, registered, pid, pull, host>>

-----------------------------------------------------------------------------
GotoP(b, p) == puller' = [puller EXCEPT ![b] = p]

(* _pull_pcap: is there a next file?                                       *)
List(b) ==
  /\ puller[b] = "ls" /\ S!Answer(b)
  /\ GotoP(b, IF current[b] < written[b] THEN "pull" ELSE "check")
  /\ UNCHANGED <<control, stopLock, current, pulled, host>>

(* scp of the current file, then its removal and the next number; scp      *)
(* raises when it fails, and the thread is dead.                           *)
Pull(b) ==
  /\ puller[b] = "pull"
  /\ \/ GotoP(b, "rm") /\ pulled' = [pulled EXCEPT ![b] = @ \union {current[b]}]
     \/ GotoP(b, "dead") /\ UNCHANGED pulled
  /\ UNCHANGED <<control, stopLock, current, host, ssh>>

Removed(b) ==
  /\ puller[b] = "rm" /\ S!Answer(b)
  /\ GotoP(b, "ls") /\ current' = [current EXCEPT ![b] = @ + 1]
  /\ UNCHANGED <<control, stopLock, pulled, host>>

PullerRaises(b) ==
  /\ puller[b] \in {"ls", "rm"} /\ S!Raise(b) /\ GotoP(b, "dead")
  /\ UNCHANGED <<control, stopLock, current, pulled, host>>

(* Is the capture still registered?  If not (yet), the last file is pulled *)
(* under the lock, and the thread ends.                                    *)
CheckStopped(b) ==
  /\ puller[b] = "check" /\ stopLock = NoUser
  /\ IF Registered(b) THEN GotoP(b, "ls") /\ UNCHANGED <<stopLock, missed>>
     ELSE /\ GotoP(b, "last") /\ stopLock' = b
          /\ missed' = IF at = "register" /\ band = b THEN missed \union {b} ELSE missed
  /\ UNCHANGED <<control, current, pulled, dumping, written, ssh>>

(* Mutant of PullLast: the thread ends without the last file.              *)
PullNoLast(b) ==
  /\ puller[b] = "last" /\ stopLock' = NoUser
  /\ GotoP(b, "none")
  /\ UNCHANGED <<control, current, pulled, host, ssh>>

PullLast(b) ==
  /\ puller[b] = "last" /\ stopLock' = NoUser
  /\ \/ GotoP(b, "none") /\ pulled' = [pulled EXCEPT ![b] = @ \union {current[b]}]
     \/ GotoP(b, "dead") /\ UNCHANGED pulled
  /\ UNCHANGED <<control, current, host, ssh>>

(* tcpdump goes on to its next file.  If that happens after the thread     *)
(* looked for the file and before it sees the capture stopped, nobody      *)
(* looks again.                                                            *)
Rotate(b) ==
  /\ b \in dumping /\ written[b] < MaxFile
  /\ written' = [written EXCEPT ![b] = @ + 1]
  /\ missed' = IF puller[b] = "check" THEN missed \union {b} ELSE missed
  /\ UNCHANGED <<control, pull, dumping, ssh>>

PullerStep(b) ==
  \/ List(b) \/ Pull(b) \/ Removed(b) \/ PullerRaises(b)
  \/ CheckStopped(b) \/ PullLast(b) \/ RunCommand(b) \/ SshStep(b)
MainStep ==
  \/ CommandDone \/ MakeDir \/ StartTcpdump \/ Confirm \/ StartPuller \/ Register
  \/ Killed \/ Unregister \/ Join \/ RemoveDir \/ CloseSsh \/ Closed
  \/ Raised \/ RunCommand(Main) \/ SshStep(Main)

Next ==
  \/ Command \/ CloseCapturer
  \/ \E b \in Bands : StartCapture(b) \/ PullerStep(b) \/ Rotate(b)
  \/ \E p \in Bands \union {NoBand} : StopCapture(p)
  \/ MainStep \/ MasterDies

Spec == Init /\ [][Next]_vars

(* The threads are scheduled, and commands end: they have timeouts.        *)
FairSpec == Spec /\ WF_vars(MainStep) /\ \A b \in Bands : WF_vars(PullerStep(b))

-----------------------------------------------------------------------------
(* stop_packet_capture returns with every file of the capture pulled, up   *)
(* to the one tcpdump was writing when it was killed, unless the thread    *)
(* died, or the capture is one of missed: it was stopped by the pid of     *)
(* another, its thread looked before it was registered, or tcpdump changed *)
(* files between the thread's two looks.                                   *)
FilesPulled ==
  at = "rmdir" /\ puller[band] = "none" =>
    0 .. written[band] \subseteq pulled[band] \/ band \in missed

(* stop_packet_capture returns: the thread sees that its capture is gone,  *)
(* whatever the ssh connection does meanwhile.                             *)
StopReturns == at = "join" ~> at # "join"

(* See SshConnection.                                                      *)
MasterKept == S!MasterKept
=============================================================================

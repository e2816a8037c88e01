---------------------------- MODULE SshConnection ----------------------------
(***************************************************************************)
(* One ssh connection object (utils_lib/ssh/connection.py) used by several *)
(* threads.                                                                *)
(*                                                                         *)
(* Every command goes over a master connection, a process with a socket in *)
(* a temporary directory, which setup_master_ssh makes under a lock.       *)
(* _cleanup_master_ssh, which ends the process, forgets it and removes the *)
(* directory, is also called without the lock: by a command that failed    *)
(* for an unknown reason before its second attempt, and by close().        *)
(***************************************************************************)
CONSTANTS
  Users,    \* the threads
  NoUser    \* nobody holds the lock; no thread

VARIABLES
  lock,      \* holder of _lock
  proc,      \* _master_ssh_proc: "none", or a process that is "up" or "dead"
  dir,       \* _master_ssh_tempdir is set
  phase,     \* where each user is in run() or close()
  after,     \* where each user goes after _cleanup_master_ssh
  second,    \* each user is in the recursive call of run()
  orphaned,  \* history: a live master was forgotten
  raced      \* history: an unlocked cleanup overlapped another user's work

vars == <<lock, proc, dir, phase, after, second, orphaned, raced>>
master == <<proc, dir, orphaned>>

Phases == {"out", "lock", "check", "start", "wait", "path", "job", "kill",
           "forget", "rmdir", "unlock", "answered", "raised"}
Procs == {"none", "up", "dead"}

Init ==
  /\ lock = NoUser /\ proc = "none" /\ dir = FALSE
  /\ phase = [u \in Users |-> "out"] /\ after = [u \in Users |-> "out"]
  /\ second = [u \in Users |-> FALSE] /\ orphaned = FALSE /\ raced = FALSE

Goto(u, p) == phase' = [phase EXCEPT ![u] = p]
Cleanup(u, p) == Goto(u, "kill") /\ after' = [after EXCEPT ![u] = p]
CleansUnlocked(u) == phase[u] \in {"kill", "forget", "rmdir"} /\ lock # u
OthersClean(u) == \E v \in Users \ {u} : CleansUnlocked(v)

Run(u) ==
  /\ phase[u] = "out" /\ Goto(u, "lock")
  /\ UNCHANGED <<lock, master, after, second, raced>>

(* Mutant of Lock: setup_master_ssh without its lock.                      *)
LockNever(u) ==
  /\ phase[u] = "lock"
  /\ Goto(u, "check") /\ raced' = (raced \/ OthersClean(u))
  /\ UNCHANGED <<lock, master, after, second>>

Lock(u) ==
  /\ phase[u] = "lock" /\ lock = NoUser
  /\ lock' = u /\ Goto(u, "check") /\ raced' = (raced \/ OthersClean(u))
  /\ UNCHANGED <<master, after, second>>

(* The socket is looked for, and the process polled.  Without a directory  *)
(* socket_path raises TypeError, which run() does not catch.               *)
Check(u) ==
  /\ phase[u] = "check"
  /\ \/ proc = "none" /\ Goto(u, "start") /\ UNCHANGED <<lock, after>>
     \/ proc # "none" /\ ~dir /\ Goto(u, "raised") /\ lock' = NoUser /\ UNCHANGED after
     \/ proc # "none" /\ dir /\ Cleanup(u, "start") /\ UNCHANGED lock
     \/ proc = "up" /\ dir /\ Goto(u, "path") /\ lock' = NoUser /\ UNCHANGED after
  /\ UNCHANGED <<master, second, raced>>

Start(u) ==
  /\ phase[u] = "start"
  /\ dir' = TRUE /\ proc' = "up" /\ orphaned' = (orphaned \/ proc = "up")
  /\ Goto(u, "wait")
  /\ UNCHANGED <<lock, after, second, raced>>

(* The socket appears, or the time is over: cleanup, and an Error that     *)
(* run() swallows.                                                         *)
Wait(u) ==
  /\ phase[u] = "wait"
  /\ \/ dir /\ Goto(u, "path") /\ lock' = NoUser /\ UNCHANGED after
     \/ dir /\ Cleanup(u, "unlock") /\ UNCHANGED lock
     \/ ~dir /\ Goto(u, "raised") /\ lock' = NoUser /\ UNCHANGED after
  /\ UNCHANGED <<master, second, raced>>

Unlock(u) ==
  /\ phase[u] = "unlock" /\ lock' = NoUser /\ Goto(u, "path")
  /\ UNCHANGED <<master, after, second, raced>>

(* Without a master the command goes over a connection of its own.         *)
Path(u) ==
  /\ phase[u] = "path"
  /\ Goto(u, IF proc # "none" /\ ~dir THEN "raised" ELSE "job")
  /\ UNCHANGED <<lock, master, after, second, raced>>

(* job.run: a marked answer; an error that names its cause; or an unknown  *)
(* error, after which the command is run once more, and the result of that *)
(* run is dropped: the first attempt always raises.                        *)
Job(u) ==
  /\ phase[u] = "job"
  /\ \/ ~second[u] /\ Goto(u, "answered") /\ UNCHANGED <<after, second, raced>>
     \/ Goto(u, "raised") /\ UNCHANGED <<after, second, raced>>
     \/ /\ ~second[u] /\ second' = [second EXCEPT ![u] = TRUE]
        /\ Cleanup(u, "lock")
        /\ raced' = (raced \/ lock # NoUser \/ OthersClean(u))
  /\ UNCHANGED <<lock, master>>

Close(u) ==
  /\ phase[u] = "out" /\ Cleanup(u, "out")
  /\ raced' = (raced \/ lock # NoUser \/ OthersClean(u))
  /\ UNCHANGED <<lock, master, second>>

(* _cleanup_master_ssh: the process is killed and awaited ...              *)
Kill(u) ==
  /\ phase[u] = "kill"
  /\ proc' = IF proc = "up" THEN "dead" ELSE proc
  /\ Goto(u, IF proc = "none" THEN "rmdir" ELSE "forget")
  /\ UNCHANGED <<lock, dir, after, second, orphaned, raced>>

(* ... whatever process is there now is forgotten ...                      *)
Forget(u) ==
  /\ phase[u] = "forget"
  /\ proc' = "none" /\ orphaned' = (orphaned \/ proc = "up")
  /\ Goto(u, "rmdir")
  /\ UNCHANGED <<lock, dir, after, second, raced>>

(* ... and whatever directory is there now is removed.                     *)
RemoveDir(u) ==
  /\ phase[u] = "rmdir"
  /\ dir' = FALSE /\ Goto(u, after[u]) /\ after' = [after EXCEPT ![u] = "out"]
  /\ UNCHANGED <<lock, proc, second, orphaned, raced>>

Leave(u, p) ==
  /\ phase[u] = p /\ Goto(u, "out") /\ second' = [second EXCEPT ![u] = FALSE]
  /\ UNCHANGED <<lock, master, after, raced>>
Answer(u) == Leave(u, "answered")
Raise(u)  == Leave(u, "raised")

MasterDies ==
  /\ proc = "up" /\ proc' = "dead"
  /\ UNCHANGED <<lock, dir, phase, after, second, orphaned, raced>>

Proceed(u) ==
  \/ Lock(u) \/ Check(u) \/ Start(u) \/ Wait(u) \/ Unlock(u) \/ Path(u)
  \/ Job(u) \/ Kill(u) \/ Forget(u) \/ RemoveDir(u)

Next ==
  \/ \E u \in Users : Run(u) \/ Close(u) \/ Proceed(u) \/ Answer(u) \/ Raise(u)
  \/ MasterDies

Spec == Init /\ [][Next]_vars

-----------------------------------------------------------------------------
TypeOK ==
  /\ lock \in Users \union {NoUser} /\ proc \in Procs /\ dir \in BOOLEAN
  /\ phase \in [Users -> Phases] /\ after \in [Users -> Phases]
  /\ second \in [Users -> BOOLEAN]
  /\ orphaned \in BOOLEAN /\ raced \in BOOLEAN

(* What the lock of setup_master_ssh achieves: a live master is never      *)
(* forgotten, and a known one has its directory, so that no command fails  *)
(* with a TypeError; unless an unlocked _cleanup_master_ssh overlapped     *)
(* another user's setup or cleanup.                                        *)
MasterKept ==
  raced \/ /\ ~orphaned
           /\ proc # "none" /\ (\A u \in Users : phase[u] # "rmdir") => dir
=============================================================================

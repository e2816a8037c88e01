------------------------------ MODULE RpcClient ------------------------------
(***************************************************************************)
(* The pool of connections behind every SL4A remote call                   *)
(* (acts/controllers/sl4a_lib/rpc_client.py with rpc_connection.py).       *)
(*                                                                         *)
(* Any number of host threads issue calls through one RpcClient: test      *)
(* threads call it directly, the workers of AsyncClient's executor run the *)
(* calls submitted through `future', and the event poller is one more      *)
(* caller.  A call takes a connection from _free_connections or creates    *)
(* one, exchanges one request and one response over it, and gives it back. *)
(* Another thread may run terminate() at any point; it takes no lock.      *)
(*                                                                         *)
(* Grain of atomicity: one access to a shared list or attribute.  A        *)
(* critical section is split wherever terminate(), or the lock-free        *)
(* remove of the timeout handler, can come between two of its statements   *)
(* with an effect that the section can observe.                            *)
(***************************************************************************)
EXTENDS Integers, FiniteSets, Sequences, SequencesExt

CONSTANTS
  Callers,       \* threads that call client.method(...) directly
  Workers,       \* threads of AsyncClient's executor
  BadCallers,    \* callers that may pass arguments json.dumps cannot encode
  MainThread,    \* the caller that runs the signal handlers, or NoThread
  Conns,         \* identities of RpcConnection objects
  MaxConn,       \* max_connections
  Retries,       \* the tries of one call (rpc's argument `retries')
  MaxCalls,      \* bound: calls started by one caller
  MaxFutures,    \* bound: calls submitted through `future'
  CloseMayFail,  \* TRUE: adb may be offline when a connection is closed
  ServerMayDie,  \* TRUE: the server may drop a connection
  MayTerminate,  \* TRUE: some thread may call terminate()
  NoThread, NoConn

Threads == Callers \union Workers

ASSUME ThreadsAssumption == /\ IsFiniteSet(Threads)
                            /\ NoThread \notin Threads
                            /\ Callers \intersect Workers = {}
                            /\ BadCallers \subseteq Callers
                            /\ MainThread \in Callers \union {NoThread}
ASSUME ConnsAssumption == Conns # {} /\ IsFiniteSet(Conns) /\ NoConn \notin Conns
ASSUME BoundsAssumption == /\ MaxConn \in Nat \ {0}
                           /\ Retries \in Nat \ {0}
                           /\ MaxCalls \in Nat /\ MaxFutures \in Nat
(* AsyncClient.__init__: max_workers=max(max_connections - 2, 1).          *)
MaxWorkers == IF MaxConn - 2 > 1 THEN MaxConn - 2 ELSE 1
ASSUME WorkersAssumption == Cardinality(Workers) <= MaxWorkers
ASSUME SwitchesAssumption == /\ CloseMayFail \in BOOLEAN
                             /\ ServerMayDie \in BOOLEAN
                             /\ MayTerminate \in BOOLEAN

VARIABLES
  free,      \* _free_connections, used as a stack
  working,   \* _working_connections
  lock,      \* the holder of _lock
  alive,     \* is_alive
  made,      \* the connections created so far
  closed,    \* those on which close() has run
  broken,    \* those whose stream the server has ended
  counter,   \* RpcConnection._ticket_counter
  pending,   \* the requests the server has not answered, oldest first
  pc,        \* where each thread stands in rpc()
  conn,      \* the local `connection'
  ticket,    \* the local `ticket'
  tries,     \* the loop variable i
  reply,     \* the local `response'
  outcome,   \* how the thread's last call ended
  calls,     \* history: the number of calls each thread has started
  queued,    \* calls waiting in the executor's queue
  submitted, \* history: calls submitted so far
  lost,      \* history: connections whose call ended without giving them back
  term,      \* where terminate() stands
  snapshot   \* its local `connections', those not closed yet

pool      == <<free, working, lock, alive>>
wire      == <<made, closed, broken, counter, pending>>
local     == <<conn, ticket, tries, reply>>
history   == <<calls, queued, submitted, lost>>
terminator == <<term, snapshot>>
vars == <<pool, wire, pc, local, outcome, history, terminator>>

(* A response carries the ticket of the request it answers; `call' is the  *)
(* call that sent the request, which only the properties look at.          *)
Requests == [id : Nat, call : Threads \X Nat]
NoReply == [id |-> 0, call |-> <<NoThread, 0>>]

PoolSize == Len(free) + Cardinality(working)

-----------------------------------------------------------------------------
(* __init__ creates the first connection before any other thread can hold  *)
(* the client.                                                             *)
Init ==
  /\ \E c \in Conns : free = <<c>> /\ made = {c}
  /\ working = {}
  /\ lock = NoThread
  /\ alive = TRUE
  /\ closed = {} /\ broken = {}
  /\ counter = [c \in Conns |-> 0]
  /\ pending = [c \in Conns |-> <<>>]
  /\ pc = [t \in Threads |-> "idle"]
  /\ conn = [t \in Threads |-> NoConn]
  /\ ticket = [t \in Threads |-> 0]
  /\ tries = [t \in Threads |-> 0]
  /\ reply = [t \in Threads |-> NoReply]
  /\ outcome = [t \in Threads |-> "none"]
  /\ calls = [t \in Threads |-> 0]
  /\ queued = 0 /\ submitted = 0 /\ lost = {}
  /\ term = "idle" /\ snapshot = {}

Goto(t, label) == pc' = [pc EXCEPT ![t] = label]

(* The call of t returns or raises: its locals are gone.                   *)
EndCall(t, how) ==
  /\ Goto(t, "idle")
  /\ outcome' = [outcome EXCEPT ![t] = how]
  /\ conn' = [conn EXCEPT ![t] = NoConn]
  /\ ticket' = [ticket EXCEPT ![t] = 0]
  /\ tries' = [tries EXCEPT ![t] = 0]
  /\ reply' = [reply EXCEPT ![t] = NoReply]

(* The call of t ends without giving its connection back.                  *)
Lose(t) == lost' = lost \union {conn[t]}

-----------------------------------------------------------------------------
(* client.method(...): __getattr__ looks at is_alive before rpc() starts.  *)
StartCall(t) ==
  /\ pc[t] = "idle" /\ t \in Callers /\ calls[t] < MaxCalls
  /\ calls' = [calls EXCEPT ![t] = @ + 1]
  /\ IF alive THEN Goto(t, "get") /\ UNCHANGED <<local, outcome>>
              ELSE EndCall(t, "Sl4aStartError")
  /\ UNCHANGED <<pool, wire, queued, submitted, lost, terminator>>

(* client.future.method(...): is_alive is looked at when the call is       *)
(* submitted, by the submitting thread, not when a worker runs it.         *)
SubmitFuture ==
  /\ alive /\ submitted < MaxFutures
  /\ submitted' = submitted + 1
  /\ queued' = queued + 1
  /\ UNCHANGED <<pool, wire, pc, local, outcome, calls, lost, terminator>>

RunFuture(t) ==
  /\ pc[t] = "idle" /\ t \in Workers /\ queued > 0
  /\ queued' = queued - 1
  /\ calls' = [calls EXCEPT ![t] = @ + 1]
  /\ Goto(t, "get")
  /\ UNCHANGED <<pool, wire, local, outcome, submitted, lost, terminator>>

-----------------------------------------------------------------------------
(* _get_free_connection                                                    *)

(* The lock-free look at _free_connections.                                *)
LookForFree(t) ==
  /\ pc[t] = "get"
  /\ Goto(t, IF free # <<>> THEN "lock pop" ELSE "count")
  /\ UNCHANGED <<pool, wire, local, outcome, history, terminator>>

(* Mutant of LockToPop: no second look under the lock.                     *)
LockToPopUnchecked(t) ==
  /\ pc[t] = "lock pop" /\ lock = NoThread
  /\ Goto(t, "pop") /\ lock' = t
  /\ UNCHANGED <<free, working, alive, wire, local, outcome, history, terminator>>

(* `with self._lock' and the second look: when the connection is gone the  *)
(* lock is released and the loop starts over.                              *)
LockToPop(t) ==
  /\ pc[t] = "lock pop" /\ lock = NoThread
  /\ IF free = <<>> THEN Goto(t, "get") /\ UNCHANGED lock
                    ELSE Goto(t, "pop") /\ lock' = t
  /\ UNCHANGED <<free, working, alive, wire, local, outcome, history, terminator>>

(* Mutant of Pop: the connection stays on offer.                           *)
PopKeeps(t) ==
  /\ pc[t] = "pop" /\ free # <<>>
  /\ conn' = [conn EXCEPT ![t] = Last(free)]
  /\ Goto(t, "append")
  /\ UNCHANGED <<pool, wire, ticket, tries, reply, outcome, history, terminator>>

(* _free_connections.pop() takes the connection released last.  It raises  *)
(* IndexError when terminate() has emptied the list after the second look. *)
Pop(t) ==
  /\ pc[t] = "pop"
  /\ IF free = <<>>
     THEN EndCall(t, "IndexError") /\ lock' = NoThread /\ UNCHANGED free
     ELSE /\ conn' = [conn EXCEPT ![t] = Last(free)]
          /\ free' = Front(free)
          /\ Goto(t, "append")
          /\ UNCHANGED <<lock, ticket, tries, reply, outcome>>
  /\ UNCHANGED <<working, alive, wire, history, terminator>>

(* The lock-free count; a full pool means sleep and look again.            *)
Count(t) ==
  /\ pc[t] = "count"
  /\ Goto(t, IF PoolSize < MaxConn THEN "lock create" ELSE "get")
  /\ UNCHANGED <<pool, wire, local, outcome, history, terminator>>

(* Mutant of LockToCreate: no second count under the lock.                 *)
LockToCreateUnchecked(t) ==
  /\ pc[t] = "lock create" /\ lock = NoThread
  /\ Goto(t, "create") /\ lock' = t
  /\ UNCHANGED <<free, working, alive, wire, local, outcome, history, terminator>>

(* `with self._lock' and the second count.                                 *)
LockToCreate(t) ==
  /\ pc[t] = "lock create" /\ lock = NoThread
  /\ IF PoolSize < MaxConn THEN Goto(t, "create") /\ lock' = t
                           ELSE Goto(t, "get") /\ UNCHANGED lock
  /\ UNCHANGED <<free, working, alive, wire, local, outcome, history, terminator>>

(* _create_connection_func runs with the lock held, for as long as the     *)
(* handshake takes; what it raises leaves the pool as it was.              *)
Create(t) ==
  /\ pc[t] = "create"
  /\ \/ \E c \in Conns \ made :
          /\ made' = made \union {c}
          /\ conn' = [conn EXCEPT ![t] = c]
          /\ Goto(t, "append")
          /\ UNCHANGED <<lock, ticket, tries, reply, outcome>>
     \/ /\ EndCall(t, "create failed")
        /\ lock' = NoThread
        /\ UNCHANGED made
  /\ UNCHANGED <<free, working, alive, closed, broken, counter, pending,
                 history, terminator>>

(* _working_connections.append and the end of the critical section.        *)
AppendWorking(t) ==
  /\ pc[t] = "append"
  /\ working' = working \union {conn[t]}
  /\ lock' = NoThread
  /\ Goto(t, "encode")
  /\ UNCHANGED <<free, alive, wire, local, outcome, history, terminator>>

-----------------------------------------------------------------------------
(* rpc, once it has a connection                                           *)

(* get_new_ticket and json.dumps, both before the `try': a request that    *)
(* cannot be encoded leaves rpc() without passing through its `finally'.   *)
Encode(t) ==
  /\ pc[t] = "encode"
  /\ counter' = [counter EXCEPT ![conn[t]] = @ + 1]
  /\ \/ t \in BadCallers /\ EndCall(t, "TypeError") /\ Lose(t)
     \/ /\ ticket' = [ticket EXCEPT ![t] = counter[conn[t]] + 1]
        /\ tries' = [tries EXCEPT ![t] = 1]
        /\ Goto(t, "send")
        /\ UNCHANGED <<conn, reply, outcome, lost>>
  /\ UNCHANGED <<pool, made, closed, broken, pending, calls, queued, submitted, terminator>>

(* On a stream the server has ended, a write is lost or breaks the pipe.   *)
Send(t) ==
  /\ pc[t] = "send"
  /\ IF conn[t] \in broken
     THEN /\ Goto(t, "receive") \/ Goto(t, "broken pipe")
          /\ UNCHANGED pending
     ELSE /\ pending' = [pending EXCEPT ![conn[t]] =
                Append(@, [id |-> ticket[t], call |-> <<t, calls[t]>>])]
          /\ Goto(t, "receive")
  /\ UNCHANGED <<pool, made, closed, broken, counter, local, outcome, history,
                 terminator>>

(* The server answers a connection's requests in order, so readline        *)
(* returns the answer to the oldest one not yet read.                      *)
Receive(t) ==
  /\ pc[t] = "receive" /\ pending[conn[t]] # <<>>
  /\ reply' = [reply EXCEPT ![t] = Head(pending[conn[t]])]
  /\ pending' = [pending EXCEPT ![conn[t]] = Tail(@)]
  /\ Goto(t, "release")
  /\ UNCHANGED <<pool, made, closed, broken, counter, conn, ticket, tries,
                 outcome, history, terminator>>

(* readline returns nothing: try again on the same connection, or give up  *)
(* with Sl4aProtocolError after the last try.                              *)
ReceiveNothing(t) ==
  /\ pc[t] = "receive" /\ conn[t] \in broken
  /\ IF tries[t] < Retries
     THEN /\ tries' = [tries EXCEPT ![t] = @ + 1]
          /\ Goto(t, "send") /\ UNCHANGED outcome
     ELSE /\ outcome' = [outcome EXCEPT ![t] = "Sl4aProtocolError"]
          /\ Goto(t, "release") /\ UNCHANGED tries
  /\ UNCHANGED <<pool, wire, conn, ticket, reply, history, terminator>>

(* except BrokenPipeError: Sl4aConnectionError, through the `finally'.     *)
PipeBreaks(t) ==
  /\ pc[t] = "broken pipe"
  /\ outcome' = [outcome EXCEPT ![t] = "Sl4aConnectionError"]
  /\ Goto(t, "release")
  /\ UNCHANGED <<pool, wire, local, history, terminator>>

(* except socket.timeout: close the connection.  When adb cannot remove    *)
(* the forwarded port, its exception replaces the timeout, and the entry   *)
(* of _working_connections stays: timed_out is already True.               *)
TimeOut(t) ==
  /\ pc[t] = "receive" /\ conn[t] \notin broken
  /\ closed' = closed \union {conn[t]}
  /\ \/ Goto(t, "remove") /\ UNCHANGED <<local, outcome, lost>>
     \/ CloseMayFail /\ EndCall(t, "AdbError") /\ Lose(t)
  /\ UNCHANGED <<pool, made, broken, counter, pending, calls, queued, submitted, terminator>>

(* Mutant of RemoveTimedOut: the connection is not taken out of the pool.  *)
RemoveTimedOutForgets(t) ==
  /\ pc[t] = "remove"
  /\ EndCall(t, "Sl4aRpcTimeoutError")
  /\ UNCHANGED <<pool, wire, history, terminator>>

(* ... and take it out of the pool, without the lock.  list.remove raises  *)
(* ValueError when terminate() has emptied the list.                       *)
RemoveTimedOut(t) ==
  /\ pc[t] = "remove"
  /\ working' = working \ {conn[t]}
  /\ EndCall(t, IF conn[t] \in working THEN "Sl4aRpcTimeoutError"
                                       ELSE "ValueError")
  /\ UNCHANGED <<free, lock, alive, wire, history, terminator>>

(* Mutant of Release: removed from the working list, never offered again.  *)
ReleaseDrops(t) ==
  /\ pc[t] = "release" /\ lock = NoThread
  /\ working' = working \ {conn[t]}
  /\ EndCall(t, outcome[t])
  /\ UNCHANGED <<free, lock, alive, wire, history, terminator>>

(* finally: _release_working_connection.  A ValueError replaces whatever   *)
(* the call would have returned or raised.  A call with a response goes on *)
(* to look at it; the others end with the exception they recorded.         *)
Release(t) ==
  /\ pc[t] = "release" /\ lock = NoThread
  /\ IF conn[t] \in working
     THEN /\ working' = working \ {conn[t]}
          /\ free' = Append(free, conn[t])
          /\ IF reply[t] # NoReply
             THEN /\ Goto(t, "check")
                  /\ conn' = [conn EXCEPT ![t] = NoConn]
                  /\ UNCHANGED <<ticket, tries, reply, outcome>>
             ELSE EndCall(t, outcome[t])
     ELSE EndCall(t, "ValueError") /\ UNCHANGED <<free, working>>
  /\ UNCHANGED <<lock, alive, wire, history, terminator>>

(* Mutant of Check: the id of the response is not compared.                *)
CheckIgnoresId(t) ==
  /\ pc[t] = "check"
  /\ Goto(t, "return")
  /\ UNCHANGED <<pool, wire, local, outcome, history, terminator>>

(* The response is looked at after the connection went back to the pool.   *)
Check(t) ==
  /\ pc[t] = "check"
  /\ \/ EndCall(t, "Sl4aApiError")
     \/ /\ reply[t].id # ticket[t]
        /\ EndCall(t, "mismatched id")
     \/ /\ reply[t].id = ticket[t]
        /\ Goto(t, "return")
        /\ UNCHANGED <<local, outcome>>
  /\ UNCHANGED <<pool, wire, history, terminator>>

Return(t) ==
  /\ pc[t] = "return"
  /\ EndCall(t, "result")
  /\ UNCHANGED <<pool, wire, history, terminator>>

-----------------------------------------------------------------------------
(* An exception that a signal handler raises in the main thread            *)
(* (utils.timeout's TimeoutError from SIGALRM, SystemExit from act.py's    *)
(* handler) comes between any two statements of rpc().                     *)

(* Inside the `try' the `finally' gives the connection back: the answer,   *)
(* if one was read, is dropped; if not, it is still to come.               *)
InterruptTry(t) ==
  /\ pc[t] \in {"send", "receive", "broken pipe", "release"}
  /\ outcome' = [outcome EXCEPT ![t] = "interrupted"]
  /\ reply' = [reply EXCEPT ![t] = NoReply]
  /\ Goto(t, "release")
  /\ UNCHANGED <<pool, conn, ticket, tries, lost>>

(* The call holds no connection and not the lock.                          *)
InterruptEmpty(t) ==
  /\ pc[t] \in {"get", "lock pop", "count", "lock create", "check", "return"}
  /\ EndCall(t, "interrupted")
  /\ UNCHANGED <<pool, lost>>

(* `with self._lock' releases the lock; nothing was popped or created yet. *)
InterruptLocked(t) ==
  /\ pc[t] \in {"pop", "create"}
  /\ EndCall(t, "interrupted")
  /\ lock' = NoThread
  /\ UNCHANGED <<free, working, alive, lost>>

(* Before the `try', once timed_out is set, and in the `finally' before    *)
(* the release, the connection stays where it is: listed as working, or,   *)
(* between pop() or the creation and append(), in no list at all.          *)
InterruptHolding(t) ==
  /\ pc[t] \in {"append", "encode", "receive", "remove", "release"}
  /\ EndCall(t, "interrupted")
  /\ Lose(t)
  /\ lock' = IF pc[t] = "append" THEN NoThread ELSE lock
  /\ UNCHANGED <<free, working, alive>>

(* Between the two statements of _release_working_connection.              *)
InterruptRelease(t) ==
  /\ pc[t] = "release" /\ lock = NoThread /\ conn[t] \in working
  /\ working' = working \ {conn[t]}
  /\ EndCall(t, "interrupted")
  /\ Lose(t)
  /\ UNCHANGED <<free, lock, alive>>

Interrupt(t) ==
  /\ t = MainThread
  /\ \/ InterruptTry(t) \/ InterruptEmpty(t) \/ InterruptLocked(t)
     \/ InterruptHolding(t) \/ InterruptRelease(t)
  /\ UNCHANGED <<wire, calls, queued, submitted, terminator>>

-----------------------------------------------------------------------------
(* terminate.  It reads the two lists one after the other, closes what it  *)
(* read, empties the two lists and clears is_alive, all without the lock.  *)
AtTerm(from, to) == term = from /\ term' = to

TermReadFree ==
  /\ MayTerminate /\ AtTerm("idle", "read working")
  /\ snapshot' = ToSet(free)
  /\ UNCHANGED <<pool, wire, pc, local, outcome, history>>

TermReadWorking ==
  /\ AtTerm("read working", "close")
  /\ snapshot' = snapshot \union working
  /\ UNCHANGED <<pool, wire, pc, local, outcome, history>>

(* connection.close(); an AdbError leaves terminate() half done.           *)
TermClose ==
  /\ term = "close"
  /\ \E c \in snapshot :
       /\ closed' = closed \union {c}
       /\ \/ snapshot' = snapshot \ {c} /\ UNCHANGED term
          \/ CloseMayFail /\ term' = "failed" /\ UNCHANGED snapshot
  /\ UNCHANGED <<pool, made, broken, counter, pending, pc, local, outcome, history>>

TermEmptyFree ==
  /\ snapshot = {} /\ AtTerm("close", "empty working")
  /\ free' = <<>>
  /\ UNCHANGED <<working, lock, alive, wire, pc, local, outcome, history, snapshot>>

TermEmptyWorking ==
  /\ AtTerm("empty working", "clear alive")
  /\ working' = {}
  /\ UNCHANGED <<free, lock, alive, wire, pc, local, outcome, history, snapshot>>

TermClearAlive ==
  /\ AtTerm("clear alive", "done")
  /\ alive' = FALSE
  /\ UNCHANGED <<free, working, lock, wire, pc, local, outcome, history, snapshot>>

(* The environment: the server drops a connection, unread answers are lost. *)
ServerDrops(c) ==
  /\ ServerMayDie /\ c \in made \ (broken \union closed)
  /\ broken' = broken \union {c}
  /\ pending' = [pending EXCEPT ![c] = <<>>]
  /\ UNCHANGED <<pool, made, closed, counter, pc, local, outcome, history, terminator>>

-----------------------------------------------------------------------------
Proceed(t) ==
  \/ StartCall(t) \/ RunFuture(t)
  \/ LookForFree(t) \/ LockToPop(t) \/ Pop(t)
  \/ Count(t) \/ LockToCreate(t) \/ Create(t) \/ AppendWorking(t)
  \/ Encode(t) \/ Send(t) \/ Receive(t) \/ ReceiveNothing(t)
  \/ PipeBreaks(t) \/ TimeOut(t) \/ RemoveTimedOut(t)
  \/ Release(t) \/ Check(t) \/ Return(t)

Step(t) == Proceed(t) \/ Interrupt(t)

Terminate ==
  \/ TermReadFree \/ TermReadWorking \/ TermClose
  \/ TermEmptyFree \/ TermEmptyWorking \/ TermClearAlive

(* The bounded workload is over.                                           *)
Done ==
  /\ \A t \in Threads : pc[t] = "idle"
  /\ \A t \in Callers : calls[t] = MaxCalls
  /\ queued = 0
  /\ UNCHANGED vars

Next ==
  \/ \E t \in Threads : Step(t)
  \/ SubmitFuture
  \/ Terminate
  \/ \E c \in Conns : ServerDrops(c)
  \/ Done

(* Every runnable thread is scheduled, a wait for a response ends (by the  *)
(* socket's timeout at the latest), and a terminate() once begun goes on.  *)
(* No signal has to come.                                                  *)
Spec == Init /\ [][Next]_vars
FairSpec == /\ Spec
            /\ \A t \in Threads : WF_vars(Proceed(t))
            /\ WF_vars(term # "idle" /\ Terminate)

-----------------------------------------------------------------------------
Labels == {"idle", "get", "lock pop", "pop", "count", "lock create", "create",
           "append", "encode", "send", "receive", "broken pipe", "remove",
           "release", "check", "return"}
Outcomes == {"none", "Sl4aStartError", "IndexError", "create failed", "TypeError",
             "Sl4aProtocolError", "Sl4aConnectionError", "interrupted", "AdbError",
             "Sl4aRpcTimeoutError", "ValueError", "Sl4aApiError", "mismatched id",
             "result"}
TermLabels == {"idle", "read working", "close", "failed", "empty working",
               "clear alive", "done"}

PoolType ==
  /\ free \in Seq(Conns) /\ working \in SUBSET Conns
  /\ lock \in Threads \union {NoThread}
  /\ alive \in BOOLEAN
WireType ==
  /\ made \in SUBSET Conns /\ closed \in SUBSET Conns /\ broken \in SUBSET Conns
  /\ counter \in [Conns -> Nat]
  /\ pending \in [Conns -> Seq(Requests)]
ThreadType ==
  /\ pc \in [Threads -> Labels]
  /\ conn \in [Threads -> Conns \union {NoConn}]
  /\ ticket \in [Threads -> Nat] /\ tries \in [Threads -> Nat]
  /\ reply \in [Threads -> Requests \union {NoReply}]
  /\ outcome \in [Threads -> Outcomes]
OtherType ==
  /\ calls \in [Threads -> Nat]
  /\ queued \in Nat /\ submitted \in Nat /\ lost \in SUBSET Conns
  /\ term \in TermLabels /\ snapshot \in SUBSET Conns

TypeOK == PoolType /\ WireType /\ ThreadType /\ OtherType

(* terminate() has not yet begun to empty the lists.                       *)
ListsIntact == term \in {"idle", "read working", "close", "failed"}
Used == {conn[t] : t \in Threads} \ {NoConn}

(* No two threads ever talk over one connection, and a connection a thread *)
(* talks over is not on offer: what _get_free_connection promises ("prevent *)
(* multiple users from obtaining the same client"), terminate() or not.    *)
ConnectionExclusive ==
  \A t \in Threads : conn[t] # NoConn =>
    /\ conn[t] \notin ToSet(free)
    /\ \A u \in Threads \ {t} : conn[u] # conn[t]

(* Until terminate() empties the lists, no more than max_connections       *)
(* connections are open, those under creation and those between two lists  *)
(* included: the lock-free counts must not let two creators through.  Only *)
(* a connection that a signal left in neither list is not counted.         *)
OpenBound ==
  ListsIntact => Cardinality((made \ closed) \ (lost \ working)) <= MaxConn

(* A call that returns a result returns the server's answer to its own     *)
(* request, also when an interrupted call left its answer unread on the    *)
(* connection: the ticket check in rpc() and fresh tickets.                *)
ReturnsOwnAnswer ==
  \A t \in Threads : pc[t] = "return" => reply[t].call = <<t, calls[t]>>

(* The list operations of the pool (pop, remove) never fail while the      *)
(* lists are intact: the second look under the lock is enough.             *)
PoolNeverCorrupt ==
  ListsIntact => \A t \in Threads : outcome[t] \notin {"IndexError", "ValueError"}

(* While the lists are intact, an open connection is on offer or in the    *)
(* hands of the code that will give it back, and one listed as working has *)
(* a thread working with it, whatever rpc() lets out, except on the paths  *)
(* that lose one (`lost'): a request that cannot be encoded (line 228), a  *)
(* close() that raises in the timeout handler (266), and a signal at a     *)
(* moment the `finally' does not cover.  A lost one is nobody's for ever.  *)
NoConnectionLost ==
  ListsIntact =>
    /\ made \ closed \subseteq ToSet(free) \union working \union Used \union lost
    /\ working \subseteq Used \union lost
    /\ lost \intersect (ToSet(free) \union Used) = {}


(* The pool implements the leases of ConnectionLease: through every        *)
(* interleaving of pop, append, remove, the lock-free removal of a timed   *)
(* out connection and terminate(), a connection goes back on offer only    *)
(* through the call that holds it, and never after it was given up.        *)
Lease == INSTANCE ConnectionLease WITH Clients <- Threads, idle <- ToSet(free), lease <- conn
ImplementsLease == Lease!Spec

(* Every place of the pool is taken by a lost connection.                  *)
PoolExhausted == Cardinality(working \intersect lost) >= MaxConn

(* Every call ends: no thread waits for ever for the lock, for a connection *)
(* or for a response, whatever the server and terminate() do, unless lost  *)
(* connections have taken every place of the pool for good.                *)
CallsEnd == \A t \in Threads : pc[t] # "idle" ~> (pc[t] = "idle" \/ []PoolExhausted)
=============================================================================

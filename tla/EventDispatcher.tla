--------------------------- MODULE EventDispatcher ---------------------------
(***************************************************************************)
(* The event dispatcher of one SL4A session                                *)
(* (acts/controllers/sl4a_lib/event_dispatcher.py).                        *)
(*                                                                         *)
(* One thread of the dispatcher's executor polls the phone and either      *)
(* hands an event to its registered handler (another task of the executor) *)
(* or puts it into the queue of its name.  Test threads and the workers    *)
(* started by handle_event take events out of the queues.  The thread that *)
(* owns the session starts and closes the dispatcher.                      *)
(*                                                                         *)
(* _event_dict maps a name to a Queue object.  A thread keeps a reference  *)
(* to the Queue it waits on, so queues have an identity here: a queue may  *)
(* be replaced in the dictionary while somebody still waits on the old one.*)
(***************************************************************************)
EXTENDS Integers, FiniteSets, Sequences, SequencesExt

CONSTANTS
  Names,         \* names of events
  Users,         \* threads that take events
  Workers,       \* tasks submitted through handle_event
  Ops,           \* the operations the users call
  Wanted,        \* the events (by number) that satisfy the users' predicate
  MaxEvents,     \* bound: events the phone emits
  MaxOps,        \* bound: operations of one user or worker
  MaxStarts,     \* bound: calls of start()
  MaxQueues,     \* bound: Queue objects created
  RpcMayFail,    \* TRUE: eventWait may raise
  WaitForever,   \* TRUE: handle_event is called without a timeout
  NoThread, NoQueue, NoName, NoEvent

Threads == Users \union Workers

ASSUME ThreadsAssumption == /\ NoThread \notin Threads
                            /\ Users \intersect Workers = {}
ASSUME NamesAssumption == Names # {} /\ IsFiniteSet(Names) /\ NoName \notin Names
ASSUME OpsAssumption ==
  Ops \subseteq {"pop", "pop events", "pop all", "wait", "wait keep", "clear", "clear all"}
ASSUME BoundsAssumption ==
  /\ MaxEvents \in Nat /\ MaxOps \in Nat /\ MaxStarts \in Nat /\ MaxQueues \in Nat
  /\ NoQueue \notin 1 .. MaxQueues /\ Wanted \subseteq 1 .. MaxEvents

VARIABLES
  started,   \* _started
  executor,  \* _executor: "none", "up" or "shutdown"
  dict,      \* _event_dict
  content,   \* the events in each Queue object
  queues,    \* history: the number of Queue objects created
  handlers,  \* the names with an entry in _handlers
  lock,      \* the holder of _lock
  poll,      \* where poll_events stands
  inHand,    \* the event poll_events has received and not yet stored
  tasks,     \* events whose handler is queued in the executor or running
  emitted,   \* history: the number of events emitted by the phone
  feed,      \* events emitted and not yet polled
  session,   \* "open", or "closed" after closeSl4aSession
  rpcAlive,  \* _rpc_client.is_alive
  owner,     \* where the thread that starts and closes stands
  starts,    \* history: calls of start()
  pc, op, name, queue, ignored, ops,   \* per user or worker: program counter,
             \* operation, its event name, the local queue and ignored_events,
             \* and the number of operations begun
  taken,     \* history: the events taken out of the queues for good, in order
  handled,   \* history: events whose handler has run
  discarded  \* history: events that a clear or a non-matching wait threw away,
             \* or that an exception took along with ignored_events

dispatcher == <<started, executor, dict, content, queues, handlers, lock>>
poller  == <<poll, inHand, tasks>>
phone   == <<emitted, feed, session, rpcAlive>>
control == <<owner, starts>>
client  == <<pc, op, name, queue, ignored, ops>>
history == <<taken, handled, discarded>>
vars == <<dispatcher, poller, phone, control, client, history>>

Event == [name : Names, no : 1 .. MaxEvents]

ASSUME EventAssumption == NoEvent \notin Event

(* The events in the queues that the dictionary refers to.                 *)
Stored == UNION {ToSet(content[dict[n]]) : n \in {m \in Names : dict[m] # NoQueue}}

-----------------------------------------------------------------------------
Init ==
  /\ started = FALSE /\ executor = "none"
  /\ dict = [n \in Names |-> NoQueue]
  /\ content = [q \in 1 .. MaxQueues |-> <<>>]
  /\ queues = 0
  /\ handlers = {}
  /\ lock = NoThread
  /\ poll = "none" /\ inHand = NoEvent /\ tasks = {}
  /\ emitted = 0 /\ feed = <<>> /\ session = "open" /\ rpcAlive = TRUE
  /\ owner = "idle" /\ starts = 0
  /\ pc = [t \in Threads |-> "idle"]
  /\ op = [t \in Threads |-> "none"]
  /\ name = [t \in Threads |-> NoName]
  /\ queue = [t \in Threads |-> NoQueue]
  /\ ignored = [t \in Threads |-> <<>>]
  /\ ops = [t \in Threads |-> 0]
  /\ taken = <<>> /\ handled = {} /\ discarded = {}

(* self._event_dict[n] = queue.Queue() when n has no queue; lock held.     *)
EnsureQueue(n) ==
  IF dict[n] = NoQueue
  THEN /\ queues < MaxQueues
       /\ queues' = queues + 1
       /\ dict' = [dict EXCEPT ![n] = queues + 1]
  ELSE UNCHANGED <<dict, queues>>

-----------------------------------------------------------------------------
(* The phone.                                                              *)
Emit ==
  /\ emitted < MaxEvents /\ session = "open"
  /\ \E n \in Names : feed' = Append(feed, [name |-> n, no |-> emitted + 1])
  /\ emitted' = emitted + 1
  /\ UNCHANGED <<dispatcher, poller, session, rpcAlive, control, client, history>>

(* Some thread terminates the rpc client.                                  *)
RpcDies ==
  /\ RpcMayFail /\ rpcAlive
  /\ rpcAlive' = FALSE
  /\ UNCHANGED <<dispatcher, poller, emitted, feed, session, control, client, history>>

-----------------------------------------------------------------------------
(* The owner: register_handler, start, closeSl4aSession, close.            *)
RegisterHandler(n) ==
  /\ owner = "idle" /\ ~started /\ n \notin handlers /\ lock = NoThread
  /\ handlers' = handlers \union {n}
  /\ UNCHANGED <<started, executor, dict, content, queues, lock, poller, phone,
                 control, client, history>>

Start ==
  /\ owner = "idle" /\ ~started /\ starts < MaxStarts
  /\ starts' = starts + 1
  /\ started' = TRUE /\ executor' = "up" /\ poll' = "top"
  /\ UNCHANGED <<dict, content, queues, handlers, lock, inHand, tasks, phone, owner,
                 client, history>>

(* Sl4aSession.terminate closes the session on the phone first; the phone  *)
(* answers the pending eventWait with EventDispatcherShutdown.             *)
CloseSession ==
  /\ owner = "idle" /\ session = "open" /\ starts > 0
  /\ session' = "closed"
  /\ owner' = "close"
  /\ UNCHANGED <<dispatcher, poller, emitted, feed, rpcAlive, starts, client, history>>

(* close(): nothing to do, or clear _started and shut the executor down.   *)
Close ==
  /\ owner = "close"
  /\ IF started THEN started' = FALSE /\ executor' = "shutdown" /\ owner' = "join"
                ELSE owner' = "idle" /\ UNCHANGED <<started, executor>>
  /\ UNCHANGED <<dict, content, queues, handlers, lock, poller, phone, starts,
                 client, history>>

PollerOver == poll \in {"none", "returned", "broken off", "failed"}
ExecutorIdle == PollerOver /\ tasks = {} /\ \A t \in Workers : pc[t] = "idle"

(* Mutant of Join: shutdown(wait=False).                                   *)
JoinNobody ==
  /\ owner = "join"
  /\ owner' = "clear"
  /\ UNCHANGED <<dispatcher, poller, phone, starts, client, history>>

(* shutdown(wait=True) returns when every task of the executor is over.    *)
Join ==
  /\ owner = "join" /\ ExecutorIdle
  /\ owner' = "clear"
  /\ UNCHANGED <<dispatcher, poller, phone, starts, client, history>>

(* clear_all_events: the dictionary forgets its queues.                    *)
ForgetQueues ==
  /\ lock = NoThread
  /\ dict' = [n \in Names |-> NoQueue]
  /\ discarded' = discarded \union Stored

CloseClears ==
  /\ owner = "clear" /\ ForgetQueues
  /\ owner' = "idle"
  /\ UNCHANGED <<started, executor, content, queues, handlers, lock, poller,
                 phone, starts, client, taken, handled>>

-----------------------------------------------------------------------------
(* poll_events                                                             *)
PollTop ==
  /\ poll = "top"
  /\ poll' = IF started THEN "wait" ELSE "returned"
  /\ UNCHANGED <<dispatcher, inHand, tasks, phone, control, client, history>>

(* eventWait returns the oldest event of the phone, or nothing when none   *)
(* came in time, or the shutdown event once the session is closed.         *)
PollReceives ==
  /\ poll = "wait"
  /\ \/ /\ feed # <<>>
        /\ inHand' = Head(feed) /\ feed' = Tail(feed) /\ poll' = "dispatch"
     \/ /\ feed = <<>>
        /\ poll' = IF session = "closed" THEN "returned" ELSE "top"
        /\ UNCHANGED <<inHand, feed>>
  /\ UNCHANGED <<dispatcher, tasks, emitted, session, rpcAlive, control, client, history>>

(* eventWait raises Sl4aConnectionError while the client is alive: the     *)
(* loop is left and nothing else happens.                                  *)
PollBreaksOff ==
  /\ poll = "wait" /\ RpcMayFail /\ rpcAlive
  /\ poll' = "broken off"
  /\ UNCHANGED <<dispatcher, inHand, tasks, phone, control, client, history>>

(* It raises Sl4aConnectionError after the client was terminated: close()  *)
(* called from the executor's own thread.  It clears _started and shuts    *)
(* the executor down; joining itself raises RuntimeError, so the queues    *)
(* are not cleared.                                                        *)
PollClosesItself ==
  /\ poll = "wait" /\ ~rpcAlive
  /\ poll' = "failed"
  /\ started' = FALSE
  /\ executor' = IF started THEN "shutdown" ELSE executor
  /\ UNCHANGED <<dict, content, queues, handlers, lock, inHand, tasks, phone,
                 control, client, history>>

(* Any other exception of eventWait (Sl4aRpcTimeoutError, Sl4aApiError,    *)
(* Sl4aProtocolError) ends the task; the executor keeps it in a Future     *)
(* that nobody looks at.                                                   *)
PollFails ==
  /\ poll = "wait" /\ RpcMayFail
  /\ poll' = "failed"
  /\ UNCHANGED <<dispatcher, inHand, tasks, phone, control, client, history>>

(* A handler takes the event; a shut-down executor refuses the task, and   *)
(* the RuntimeError ends the poller.                                       *)
Dispatch ==
  /\ poll = "dispatch" /\ inHand.name \in handlers
  /\ inHand' = NoEvent
  /\ IF executor = "up"
     THEN poll' = "top" /\ tasks' = tasks \union {inHand} /\ UNCHANGED discarded
     ELSE poll' = "failed" /\ discarded' = discarded \union {inHand} /\ UNCHANGED tasks
  /\ UNCHANGED <<dispatcher, phone, control, client, taken, handled>>

(* Mutant of Store: the new event goes in front of the older ones.         *)
StoreFirst ==
  /\ poll = "dispatch" /\ inHand.name \notin handlers /\ lock = NoThread
  /\ EnsureQueue(inHand.name)
  /\ content' = [content EXCEPT ![dict'[inHand.name]] = <<inHand>> \o @]
  /\ inHand' = NoEvent /\ poll' = "top"
  /\ UNCHANGED <<started, executor, handlers, lock, tasks, phone, control, client,
                 history>>

(* No handler: the event goes to the end of the queue of its name.         *)
Store ==
  /\ poll = "dispatch" /\ inHand.name \notin handlers /\ lock = NoThread
  /\ EnsureQueue(inHand.name)
  /\ content' = [content EXCEPT ![dict'[inHand.name]] = Append(@, inHand)]
  /\ inHand' = NoEvent /\ poll' = "top"
  /\ UNCHANGED <<started, executor, handlers, lock, tasks, phone, control, client,
                 history>>

RunHandler ==
  /\ \E e \in tasks : tasks' = tasks \ {e} /\ handled' = handled \union {e}
  /\ UNCHANGED <<dispatcher, poll, inHand, phone, control, client, taken, discarded>>

-----------------------------------------------------------------------------
(* The users.                                                              *)
Goto(t, label) == pc' = [pc EXCEPT ![t] = label]

(* The operation of t returns or raises.                                   *)
EndOp(t) ==
  /\ Goto(t, "idle")
  /\ op' = [op EXCEPT ![t] = "none"]
  /\ name' = [name EXCEPT ![t] = NoName]
  /\ queue' = [queue EXCEPT ![t] = NoQueue]
  /\ ignored' = [ignored EXCEPT ![t] = <<>>]

(* It raises, and what it held in ignored_events is gone.                  *)
Raise(t) == EndOp(t) /\ discarded' = discarded \union ToSet(ignored[t])

(* A user calls an operation; all but the clears look at _started.         *)
Begin(t, o, n) ==
  /\ pc[t] = "idle" /\ t \in Users /\ ops[t] < MaxOps
  /\ ops' = [ops EXCEPT ![t] = @ + 1]
  /\ op' = [op EXCEPT ![t] = o]
  /\ name' = [name EXCEPT ![t] = n]
  /\ Goto(t, IF o \in {"clear", "clear all"} THEN o ELSE "check")
  /\ UNCHANGED <<dispatcher, poller, phone, control, queue, ignored, history>>

(* handle_event submits a worker that pops one event for its handler.  A   *)
(* shut-down executor refuses it.                                          *)
HandleEvent(t, n) ==
  /\ pc[t] = "idle" /\ t \in Workers /\ ops[t] < MaxOps /\ executor = "up"
  /\ ops' = [ops EXCEPT ![t] = @ + 1]
  /\ op' = [op EXCEPT ![t] = "handle"]
  /\ name' = [name EXCEPT ![t] = n]
  /\ Goto(t, "check")
  /\ UNCHANGED <<dispatcher, poller, phone, control, queue, ignored, history>>

(* pop_event, pop_all: IllegalStateError when the dispatcher is not        *)
(* started.  wait_for_event comes here once a second, and then loses what  *)
(* it holds in ignored_events.                                             *)
CheckStarted(t) ==
  /\ pc[t] = "check"
  /\ IF started
     THEN /\ Goto(t, IF op[t] \in {"pop all", "pop events"} THEN op[t] ELSE "get_event_q")
          /\ UNCHANGED <<op, name, queue, ignored, discarded>>
     ELSE Raise(t)
  /\ UNCHANGED <<dispatcher, poller, phone, control, ops, taken, handled>>

(* Mutant of GetEventQ: the queue is created without a look at the         *)
(* dictionary.                                                             *)
GetFreshQ(t) ==
  /\ pc[t] = "get_event_q" /\ lock = NoThread
  /\ queues < MaxQueues
  /\ queues' = queues + 1
  /\ dict' = [dict EXCEPT ![name[t]] = queues + 1]
  /\ Goto(t, "read queue")
  /\ UNCHANGED <<started, executor, content, handlers, lock, poller, phone,
                 control, op, name, queue, ignored, ops, history>>

(* get_event_q makes sure there is a queue while it holds the lock ...     *)
GetEventQ(t) ==
  /\ pc[t] = "get_event_q" /\ lock = NoThread
  /\ EnsureQueue(name[t])
  /\ Goto(t, "read queue")
  /\ UNCHANGED <<started, executor, content, handlers, lock, poller, phone,
                 control, op, name, queue, ignored, ops, history>>

(* ... and reads the dictionary after it let go of it: KeyError when       *)
(* clear_all_events came in between.                                       *)
ReadQueue(t) ==
  /\ pc[t] = "read queue"
  /\ IF dict[name[t]] = NoQueue
     THEN Raise(t)
     ELSE /\ queue' = [queue EXCEPT ![t] = dict[name[t]]]
          /\ Goto(t, "get")
          /\ UNCHANGED <<op, name, ignored, discarded>>
  /\ UNCHANGED <<dispatcher, poller, phone, control, ops, taken, handled>>

(* Queue.get: pop_event (and the worker of handle_event) returns the head. *)
Get(t) ==
  /\ pc[t] = "get" /\ content[queue[t]] # <<>> /\ op[t] \in {"pop", "handle"}
  /\ taken' = Append(taken, Head(content[queue[t]]))
  /\ content' = [content EXCEPT ![queue[t]] = Tail(@)]
  /\ EndOp(t)
  /\ UNCHANGED <<started, executor, dict, queues, handlers, lock, poller, phone,
                 control, ops, handled, discarded>>

(* Queue.Empty after the timeout.                                          *)
GetTimesOut(t) ==
  /\ pc[t] = "get" /\ content[queue[t]] = <<>>
  /\ op[t] = "pop" \/ (op[t] = "handle" /\ ~WaitForever)
  /\ EndOp(t)
  /\ UNCHANGED <<dispatcher, poller, phone, control, ops, history>>

(* wait_for_event, consuming: an event that does not satisfy the predicate *)
(* is gone; the next pop_event follows unless the deadline has passed.     *)
GetAndTest(t) ==
  /\ pc[t] = "get" /\ op[t] = "wait" /\ content[queue[t]] # <<>>
  /\ content' = [content EXCEPT ![queue[t]] = Tail(@)]
  /\ LET e == Head(content[queue[t]]) IN
       IF e.no \in Wanted
       THEN /\ taken' = Append(taken, e)
            /\ EndOp(t)
            /\ UNCHANGED discarded
       ELSE /\ discarded' = discarded \union {e}
            /\ \/ Goto(t, "check") /\ UNCHANGED <<op, name, queue, ignored>>
               \/ EndOp(t)
            /\ UNCHANGED taken
  /\ UNCHANGED <<started, executor, dict, queues, handlers, lock, poller, phone,
                 control, ops, handled>>

(* wait_for_event with consume_ignored_events=False: every popped event is *)
(* remembered, the one that satisfies the predicate too, and put back when *)
(* the search is over.                                                     *)
GetAndKeep(t) ==
  /\ pc[t] = "get" /\ op[t] = "wait keep" /\ content[queue[t]] # <<>>
  /\ content' = [content EXCEPT ![queue[t]] = Tail(@)]
  /\ LET e == Head(content[queue[t]]) IN
       /\ ignored' = [ignored EXCEPT ![t] = Append(@, e)]
       /\ IF e.no \in Wanted THEN Goto(t, "put back")
                             ELSE Goto(t, "check") \/ Goto(t, "put back")
  /\ UNCHANGED <<started, executor, dict, queues, handlers, lock, poller, phone,
                 control, op, name, queue, ops, history>>

(* Nothing came within the second of one pop_event.                        *)
WaitGetsNothing(t) ==
  /\ pc[t] = "get" /\ op[t] \in {"wait", "wait keep"} /\ content[queue[t]] = <<>>
  /\ \/ Goto(t, "check") /\ UNCHANGED <<op, name, queue, ignored>>
     \/ op[t] = "wait" /\ EndOp(t)
     \/ op[t] = "wait keep" /\ Goto(t, "put back") /\ UNCHANGED <<op, name, queue, ignored>>
  /\ UNCHANGED <<dispatcher, poller, phone, control, ops, history>>

(* get_event_q(name).put(event) for each event in ignored_events.          *)
PutBack(t) ==
  /\ pc[t] = "put back"
  /\ IF ignored[t] = <<>>
     THEN EndOp(t) /\ UNCHANGED <<dict, queues>>
     ELSE /\ lock = NoThread /\ EnsureQueue(name[t])
          /\ Goto(t, "read to put") /\ UNCHANGED <<op, name, queue, ignored>>
  /\ UNCHANGED <<started, executor, content, handlers, lock, poller, phone,
                 control, ops, history>>

(* It reads the dictionary after it let go of the lock, and puts the event *)
(* into that queue whatever happens to the dictionary meanwhile.           *)
ReadQueueToPut(t) ==
  /\ pc[t] = "read to put"
  /\ IF dict[name[t]] = NoQueue
     THEN Raise(t)
     ELSE /\ queue' = [queue EXCEPT ![t] = dict[name[t]]]
          /\ Goto(t, "put")
          /\ UNCHANGED <<op, name, ignored, discarded>>
  /\ UNCHANGED <<dispatcher, poller, phone, control, ops, taken, handled>>

(* A queue that the dictionary no longer knows swallows the event.         *)
Put(t) ==
  /\ pc[t] = "put"
  /\ content' = [content EXCEPT ![queue[t]] = Append(@, Head(ignored[t]))]
  /\ ignored' = [ignored EXCEPT ![t] = Tail(@)]
  /\ discarded' = IF queue[t] = dict[name[t]] THEN discarded
                  ELSE discarded \union {Head(ignored[t])}
  /\ Goto(t, "put back")
  /\ UNCHANGED <<started, executor, dict, queues, handlers, lock, poller, phone,
                 control, op, name, queue, ops, taken, handled>>

(* Mutant of PopAllTakes: the lock is not released when nothing is left.   *)
PopAllKeepsLock(t) ==
  /\ pc[t] = "pop all take"
  /\ LET q == dict[name[t]] IN
       IF q = NoQueue \/ (q # NoQueue /\ content[q] = <<>>)
       THEN EndOp(t) /\ UNCHANGED <<content, taken>>
       ELSE /\ taken' = Append(taken, Head(content[q]))
            /\ content' = [content EXCEPT ![q] = Tail(@)]
            /\ UNCHANGED <<pc, op, name, queue, ignored>>
  /\ UNCHANGED <<started, executor, dict, queues, handlers, lock, poller, phone,
                 control, ops, handled, discarded>>

(* pop_all holds the lock while it takes one event after the other; those  *)
(* who already wait on the queue take theirs in between.                   *)
PopAllLocks(t) ==
  /\ pc[t] = "pop all" /\ lock = NoThread
  /\ lock' = t
  /\ Goto(t, "pop all take")
  /\ UNCHANGED <<started, executor, dict, content, queues, handlers, poller, phone,
                 control, op, name, queue, ignored, ops, history>>

PopAllTakes(t) ==
  /\ pc[t] = "pop all take"
  /\ LET q == dict[name[t]] IN
       IF q = NoQueue \/ (q # NoQueue /\ content[q] = <<>>)
       THEN /\ EndOp(t) /\ lock' = NoThread
            /\ UNCHANGED <<content, taken>>
       ELSE /\ taken' = Append(taken, Head(content[q]))
            /\ content' = [content EXCEPT ![q] = Tail(@)]
            /\ UNCHANGED <<lock, pc, op, name, queue, ignored>>
  /\ UNCHANGED <<started, executor, dict, queues, handlers, poller, phone,
                 control, ops, handled, discarded>>

(* pop_events with a pattern that every name matches: under the lock, one  *)
(* event of every queue that has any.  When there is none it tries again   *)
(* (a step that changes nothing) until the deadline has passed.            *)
MatchAndPop(t) ==
  /\ pc[t] = "pop events" /\ lock = NoThread
  /\ LET ready == {n \in Names : dict[n] # NoQueue /\ content[dict[n]] # <<>>}
         results == {Head(content[dict[n]]) : n \in ready}
     IN  /\ \E sorted \in SetToSeqs(results) :
              /\ \A i, j \in DOMAIN sorted : i < j => sorted[i].no < sorted[j].no
              /\ taken' = taken \o sorted
         /\ content' = [q \in DOMAIN content |->
              IF \E n \in ready : q = dict[n] THEN Tail(content[q]) ELSE content[q]]
  /\ EndOp(t)
  /\ UNCHANGED <<started, executor, dict, queues, handlers, lock, poller, phone,
                 control, ops, handled, discarded>>

(* clear_events empties the deque under the Queue, without the Queue's own *)
(* mutex: a getter between its look at the length and its popleft raises   *)
(* IndexError.                                                             *)
ClearEvents(t) ==
  /\ pc[t] = "clear" /\ lock = NoThread
  /\ EnsureQueue(name[t])
  /\ LET q == dict'[name[t]]
         caught == {u \in Threads : pc[u] = "get" /\ queue[u] = q /\ content[q] # <<>>}
     IN  /\ content' = [content EXCEPT ![q] = <<>>]
         /\ \E victims \in {{}} \union {{u} : u \in caught} :
              LET ended == {t} \union victims IN
              /\ discarded' = discarded \union ToSet(content[q])
                                \union UNION {ToSet(ignored[u]) : u \in victims}
              /\ pc' = [u \in Threads |-> IF u \in ended THEN "idle" ELSE pc[u]]
              /\ op' = [u \in Threads |-> IF u \in ended THEN "none" ELSE op[u]]
              /\ name' = [u \in Threads |-> IF u \in ended THEN NoName ELSE name[u]]
              /\ queue' = [u \in Threads |-> IF u \in ended THEN NoQueue ELSE queue[u]]
              /\ ignored' = [u \in Threads |-> IF u \in ended THEN <<>> ELSE ignored[u]]
  /\ UNCHANGED <<started, executor, handlers, lock, poller, phone, control, ops,
                 taken, handled>>

ClearAllEvents(t) ==
  /\ pc[t] = "clear all" /\ ForgetQueues
  /\ EndOp(t)
  /\ UNCHANGED <<started, executor, content, queues, handlers, lock, poller,
                 phone, control, ops, taken, handled>>

-----------------------------------------------------------------------------
Step(t) ==
  \/ CheckStarted(t) \/ GetEventQ(t) \/ ReadQueue(t)
  \/ Get(t) \/ GetTimesOut(t) \/ GetAndTest(t) \/ GetAndKeep(t) \/ WaitGetsNothing(t)
  \/ PutBack(t) \/ ReadQueueToPut(t) \/ Put(t)
  \/ PopAllLocks(t) \/ PopAllTakes(t) \/ MatchAndPop(t)
  \/ ClearEvents(t) \/ ClearAllEvents(t)

Poll == PollTop \/ PollReceives \/ PollClosesItself \/ Dispatch \/ Store
PollError == PollBreaksOff \/ PollFails
Owner == Close \/ Join \/ CloseClears

(* The bounded workload is over.                                           *)
Done ==
  /\ \A t \in Threads : pc[t] = "idle"
  /\ PollerOver /\ tasks = {} /\ owner = "idle" /\ session = "closed"
  /\ UNCHANGED vars

Next ==
  \/ Emit \/ RpcDies
  \/ \E n \in Names : RegisterHandler(n)
  \/ Start \/ CloseSession \/ Owner
  \/ Poll \/ PollError \/ RunHandler
  \/ \E t \in Users, o \in Ops, n \in Names : Begin(t, o, n)
  \/ \E t \in Workers, n \in Names : HandleEvent(t, n)
  \/ \E t \in Threads : Step(t)
  \/ Done

Spec == Init /\ [][Next]_vars

(* The threads are scheduled, eventWait and the bounded Queue.get end.     *)
FairSpec ==
  /\ Spec
  /\ WF_vars(Poll) /\ WF_vars(RunHandler) /\ WF_vars(Owner)
  /\ \A t \in Threads : WF_vars(Step(t))

-----------------------------------------------------------------------------
Labels == {"idle", "check", "get_event_q", "read queue", "get", "put back",
           "read to put", "put", "pop all", "pop all take", "pop events",
           "clear", "clear all"}

DispatcherType ==
  /\ started \in BOOLEAN /\ executor \in {"none", "up", "shutdown"}
  /\ dict \in [Names -> 1 .. MaxQueues \union {NoQueue}]
  /\ content \in [1 .. MaxQueues -> Seq(Event)]
  /\ queues \in 0 .. MaxQueues
  /\ handlers \in SUBSET Names
  /\ lock \in Threads \union {NoThread}
PollerType ==
  /\ poll \in {"none", "top", "wait", "dispatch", "returned", "broken off", "failed"}
  /\ inHand \in Event \union {NoEvent}
  /\ tasks \in SUBSET Event
PhoneType ==
  /\ emitted \in 0 .. MaxEvents /\ feed \in Seq(Event)
  /\ session \in {"open", "closed"} /\ rpcAlive \in BOOLEAN
  /\ owner \in {"idle", "close", "join", "clear"} /\ starts \in 0 .. MaxStarts
ClientType ==
  /\ pc \in [Threads -> Labels]
  /\ op \in [Threads -> Ops \union {"none", "handle"}]
  /\ name \in [Threads -> Names \union {NoName}]
  /\ queue \in [Threads -> 1 .. MaxQueues \union {NoQueue}]
  /\ ignored \in [Threads -> Seq(Event)]
  /\ ops \in [Threads -> 0 .. MaxOps]
  /\ \A t \in Threads : pc[t] \in {"get", "put"} => queue[t] # NoQueue
HistoryType ==
  taken \in Seq(Event) /\ handled \in SUBSET Event /\ discarded \in SUBSET Event

TypeOK == DispatcherType /\ PollerType /\ PhoneType /\ ClientType /\ HistoryType

InHands == (UNION {ToSet(ignored[t]) : t \in Threads}) \union ({inHand} \ {NoEvent})

(* The places an event is in: Queues, a caller's ignored_events, the       *)
(* poller, its handler, the caller who took it.                            *)
Places(k) ==
  (UNION {{<<"queue", q, i>> : i \in {j \in DOMAIN content[q] : content[q][j].no = k}}
            : q \in 1 .. MaxQueues})
  \union (UNION {{<<"ignored", t, i>> : i \in {j \in DOMAIN ignored[t] : ignored[t][j].no = k}}
                   : t \in Threads})
  \union {<<"taken", 0, i>> : i \in {j \in DOMAIN taken : taken[j].no = k}}
  \union {<<"handler", 0, e.no>> : e \in {d \in tasks \union handled : d.no = k}}
  \union {<<"poller", 0, e.no>> : e \in {d \in {inHand} \ {NoEvent} : d.no = k}}

(* Every event the phone emitted is still on its way, in a queue somebody  *)
(* can reach, at its handler, in the hands of a caller, was thrown away by *)
(* an operation meant to, or had been set aside by a wait_for_event that a *)
(* close or a clear cut short; and however often it is popped, kept aside  *)
(* and put back, it is in one place only: no interleaving of the poller's  *)
(* and the users' get-or-create of a queue loses or doubles an event.      *)
EventKept ==
  \A k \in 1 .. emitted :
    /\ \E e \in ToSet(feed) \union InHands \union tasks \union handled
                \union Stored \union ToSet(taken) \union discarded : e.no = k
    /\ Cardinality(Places(k)) <= 1

(* "Return and remove the oldest entry of an event" (line 177): the events *)
(* of one name leave the queue in the order the phone emitted them, none   *)
(* of them twice, however many threads take them.                          *)
OldestFirst ==
  \A i, j \in DOMAIN taken :
    i < j /\ taken[i].name = taken[j].name => taken[i].no < taken[j].no

(* After close() has returned, no poller, handler or handle_event worker   *)
(* is left, and nothing they did after the clearing stays behind.          *)
CloseIsFinal == owner = "idle" /\ executor = "shutdown" => ExecutorIdle /\ Stored = {}

(* "Block until an event of specified name is available" (lines 178-179):  *)
(* nobody blocks on an empty queue while the queue of the name has events. *)
BlocksOnlyWithoutEvent ==
  \A t \in Threads :
    pc[t] = "get" /\ content[queue[t]] = <<>> =>
      dict[name[t]] = NoQueue \/ content[dict[name[t]]] = <<>>

(* An event is polled unless the poller is gone; the poller never waits    *)
(* forever for the lock.                                                   *)
EventsPolled == feed # <<>> ~> feed = <<>> \/ PollerOver

(* close() returns, provided the workers of handle_event have a timeout.   *)
CloseReturns == owner = "close" ~> owner = "idle"
=============================================================================

------------------------ MODULE EventDispatcherProofs ------------------------
(***************************************************************************)
(* Proofs about EventDispatcher, for any names, threads and bounds.        *)
(***************************************************************************)
EXTENDS EventDispatcher, FiniteSetTheorems, SequenceTheorems, TLAPS

(* A thread in an operation has its name, one on its way to put has an     *)
(* event to put, and poll_events dispatches an event.                      *)
NamesHeld == \A t \in Threads : pc[t] # "idle" => name[t] \in Names
Ignoring == \A t \in Threads : pc[t] \in {"read to put", "put"} => ignored[t] # <<>>
InHandHeld == poll = "dispatch" => inHand \in Event

Typed == TypeOK /\ NamesHeld /\ Ignoring /\ InHandHeld

-----------------------------------------------------------------------------
(* Sequences.                                                              *)
LEMMA TailType ==
  ASSUME NEW S, NEW s \in Seq(S), s # <<>>
  PROVE  /\ Head(s) \in S /\ Tail(s) \in Seq(S) /\ Len(Tail(s)) = Len(s) - 1
         /\ Len(s) \in Nat \ {0}
         /\ s[1] = Head(s)
         /\ \A i \in DOMAIN Tail(s) : i + 1 \in DOMAIN s /\ Tail(s)[i] = s[i + 1]
OBVIOUS

LEMMA AppendType ==
  ASSUME NEW S, NEW s \in Seq(S), NEW e \in S
  PROVE  /\ Append(s, e) \in Seq(S) /\ Len(Append(s, e)) = Len(s) + 1 /\ Len(s) \in Nat
         /\ Append(s, e)[Len(s) + 1] = e
         /\ \A i \in DOMAIN s : i \in DOMAIN Append(s, e) /\ Append(s, e)[i] = s[i]
         /\ \A i \in DOMAIN Append(s, e) : i \in DOMAIN s \/ i = Len(s) + 1
OBVIOUS

LEMMA EmptyType == ASSUME NEW S PROVE <<>> \in Seq(S) /\ DOMAIN <<>> = {}
OBVIOUS

LEMMA FunctionType == ASSUME NEW S, NEW n \in Nat, NEW f \in [1 .. n -> S] PROVE f \in Seq(S)
OBVIOUS

LEMMA ToSetType == ASSUME NEW S, NEW s \in Seq(S) PROVE ToSet(s) \subseteq S
BY DEF ToSet

-----------------------------------------------------------------------------
(* The types.                                                              *)
LEMMA InitTyped == Init => Typed
<1> SUFFICES ASSUME Init PROVE Typed
  OBVIOUS
<1> USE DEF Init
<1>1. DispatcherType
  <2>1. content \in [1 .. MaxQueues -> Seq(Event)]
    BY EmptyType
  <2>2. queues \in 0 .. MaxQueues
    BY BoundsAssumption
  <2> QED BY <2>1, <2>2 DEF DispatcherType
<1>2. PollerType /\ PhoneType /\ HistoryType
  BY BoundsAssumption, EmptyType DEF PollerType, PhoneType, HistoryType
<1>3. ClientType
  <2>1. ignored \in [Threads -> Seq(Event)]
    BY EmptyType
  <2> QED BY <2>1, BoundsAssumption DEF ClientType, Labels
<1> QED BY <1>1, <1>2, <1>3 DEF Typed, TypeOK, NamesHeld, Ignoring, InHandHeld

(* get-or-create of a queue, and what is in it.                            *)
LEMMA EnsureType ==
  ASSUME TypeOK, NEW n \in Names, EnsureQueue(n)
  PROVE  /\ dict' \in [Names -> 1 .. MaxQueues \union {NoQueue}]
         /\ queues' \in 0 .. MaxQueues /\ queues' >= queues
         /\ dict'[n] \in 1 .. MaxQueues
         /\ \A m \in Names : dict[m] # NoQueue \/ m # n => dict'[m] = dict[m]
         /\ dict[n] = NoQueue => dict'[n] = queues + 1 /\ queues' = queues + 1
<1>1. dict \in [Names -> 1 .. MaxQueues \union {NoQueue}] /\ queues \in 0 .. MaxQueues
  BY DEF TypeOK, DispatcherType
<1>2. CASE dict[n] # NoQueue
  <2>1. dict' = dict /\ queues' = queues
    BY <1>2 DEF EnsureQueue
  <2> QED BY <1>1, <1>2, <2>1
<1>3. CASE dict[n] = NoQueue
  <2>1. queues < MaxQueues /\ queues' = queues + 1 /\ dict' = [dict EXCEPT ![n] = queues + 1]
    BY <1>3 DEF EnsureQueue
  <2>2. queues + 1 \in 1 .. MaxQueues
    BY <1>1, <2>1, BoundsAssumption
  <2>3. queues' \in 0 .. MaxQueues /\ queues' >= queues
    BY <1>1, <2>1, <2>2
  <2> QED BY <1>1, <1>3, <2>1, <2>2, <2>3
<1> QED BY <1>2, <1>3

LEMMA EndOpType ==
  ASSUME Typed, NEW t \in Threads, EndOp(t)
  PROVE  /\ pc' \in [Threads -> Labels] /\ op' \in [Threads -> Ops \union {"none", "handle"}]
         /\ name' \in [Threads -> Names \union {NoName}]
         /\ queue' \in [Threads -> 1 .. MaxQueues \union {NoQueue}]
         /\ ignored' \in [Threads -> Seq(Event)]
         /\ pc'[t] = "idle"
         /\ \A u \in Threads \ {t} : /\ pc'[u] = pc[u] /\ op'[u] = op[u] /\ name'[u] = name[u]
                                     /\ queue'[u] = queue[u] /\ ignored'[u] = ignored[u]
         /\ \A u \in Threads : pc'[u] \in {"get", "put"} => queue'[u] # NoQueue
         /\ NamesHeld' /\ Ignoring'
<1>1. <<>> \in Seq(Event)
  BY EmptyType
<1> QED BY <1>1 DEF EndOp, Goto, Typed, TypeOK, ClientType, NamesHeld, Ignoring, Labels

LEMMA RaiseType ==
  ASSUME Typed, NEW t \in Threads, Raise(t) PROVE EndOp(t) /\ discarded' \in SUBSET Event
<1>1. ignored[t] \in Seq(Event) /\ discarded \in SUBSET Event
  BY DEF Typed, TypeOK, ClientType, HistoryType
<1> QED BY <1>1, ToSetType DEF Raise

LEMMA GotoType ==
  ASSUME Typed, NEW t \in Threads, NEW label \in Labels, Goto(t, label),
         UNCHANGED <<op, name>>, pc[t] # "idle",
         ignored' \in [Threads -> Seq(Event)],
         queue' \in [Threads -> 1 .. MaxQueues \union {NoQueue}],
         \A u \in Threads \ {t} : queue'[u] = queue[u] /\ ignored'[u] = ignored[u],
         label \in {"get", "put"} => queue'[t] # NoQueue,
         label \in {"read to put", "put"} => ignored'[t] # <<>>
  PROVE  /\ pc' \in [Threads -> Labels] /\ pc'[t] = label
         /\ \A u \in Threads \ {t} : pc'[u] = pc[u]
         /\ \A u \in Threads : pc'[u] \in {"get", "put"} => queue'[u] # NoQueue
         /\ NamesHeld' /\ Ignoring'
BY DEF Goto, Typed, TypeOK, ClientType, NamesHeld, Ignoring

(* The queue a thread waits on.                                            *)
LEMMA QueueType ==
  ASSUME Typed, NEW t \in Threads, pc[t] \in {"get", "put"}
  PROVE  queue[t] \in 1 .. MaxQueues /\ content[queue[t]] \in Seq(Event)
BY DEF Typed, TypeOK, ClientType, DispatcherType

LEMMA TakeType ==
  ASSUME Typed, NEW q \in 1 .. MaxQueues, content[q] # <<>>
  PROVE  /\ Head(content[q]) \in Event /\ Append(taken, Head(content[q])) \in Seq(Event)
         /\ [content EXCEPT ![q] = Tail(@)] \in [1 .. MaxQueues -> Seq(Event)]
<1>1. content[q] \in Seq(Event) /\ taken \in Seq(Event)
      /\ content \in [1 .. MaxQueues -> Seq(Event)]
  BY DEF Typed, TypeOK, DispatcherType, HistoryType
<1>2. Head(content[q]) \in Event /\ Tail(content[q]) \in Seq(Event)
  BY <1>1, TailType
<1> QED BY <1>1, <1>2, AppendType

LEMMA PutType ==
  ASSUME Typed, NEW q \in 1 .. MaxQueues, NEW e \in Event
  PROVE  /\ Append(content[q], e) \in Seq(Event)
         /\ [content EXCEPT ![q] = Append(@, e)] \in [1 .. MaxQueues -> Seq(Event)]
<1>1. content[q] \in Seq(Event) /\ content \in [1 .. MaxQueues -> Seq(Event)]
  BY DEF Typed, TypeOK, DispatcherType
<1> QED BY <1>1, AppendType

(* A step of a user or a worker: its own state and the rest apart.         *)
ClientTyped == ClientType /\ NamesHeld /\ Ignoring
RestTyped == DispatcherType /\ PollerType /\ PhoneType /\ HistoryType /\ InHandHeld

LEMMA TypedParts == ASSUME ClientTyped', RestTyped' PROVE Typed'
BY DEF Typed, TypeOK, ClientTyped, RestTyped

LEMMA EndOpTyped ==
  ASSUME Typed, NEW t \in Threads, EndOp(t), UNCHANGED ops PROVE ClientTyped'
<1>1. ops' \in [Threads -> 0 .. MaxOps]
  BY DEF Typed, TypeOK, ClientType
<1>2. ClientType'
  BY <1>1, EndOpType DEF ClientType
<1> QED BY <1>2, EndOpType DEF ClientTyped

LEMMA GotoTyped ==
  ASSUME Typed, NEW t \in Threads, NEW label \in Labels, Goto(t, label),
         UNCHANGED <<op, name, ops>>, pc[t] # "idle",
         ignored' \in [Threads -> Seq(Event)],
         queue' \in [Threads -> 1 .. MaxQueues \union {NoQueue}],
         \A u \in Threads \ {t} : queue'[u] = queue[u] /\ ignored'[u] = ignored[u],
         label \in {"get", "put"} => queue'[t] # NoQueue,
         label \in {"read to put", "put"} => ignored'[t] # <<>>
  PROVE  ClientTyped'
<1>1. /\ op' \in [Threads -> Ops \union {"none", "handle"}]
      /\ name' \in [Threads -> Names \union {NoName}]
      /\ ops' \in [Threads -> 0 .. MaxOps]
  BY DEF Typed, TypeOK, ClientType
<1>2. ClientType'
  BY <1>1, GotoType DEF ClientType
<1> QED BY <1>2, GotoType DEF ClientTyped

(* The same when its queue and its ignored_events stay as they are.        *)
LEMMA StayTyped ==
  ASSUME Typed, NEW t \in Threads, NEW label \in Labels, Goto(t, label),
         UNCHANGED <<op, name, queue, ignored, ops>>, pc[t] # "idle",
         label \in {"get", "put"} => queue[t] # NoQueue,
         label \in {"read to put", "put"} => ignored[t] # <<>>
  PROVE  ClientTyped'
<1>1. /\ ignored' \in [Threads -> Seq(Event)]
      /\ queue' \in [Threads -> 1 .. MaxQueues \union {NoQueue}]
  BY DEF Typed, TypeOK, ClientType
<1> QED BY <1>1, GotoTyped

LEMMA RestKept ==
  ASSUME Typed, UNCHANGED <<dispatcher, poller, phone, control>>, HistoryType'
  PROVE  RestTyped'
BY DEF Typed, TypeOK, RestTyped, DispatcherType, PollerType, PhoneType, InHandHeld,
       dispatcher, poller, phone, control

LEMMA HistoryKept ==
  ASSUME Typed, taken' \in Seq(Event), UNCHANGED handled, discarded' \in SUBSET Event
  PROVE  HistoryType'
BY DEF Typed, TypeOK, HistoryType

LEMMA RestChanged ==
  ASSUME Typed, UNCHANGED <<started, executor, handlers, poller, phone, control>>,
         dict' \in [Names -> 1 .. MaxQueues \union {NoQueue}],
         content' \in [1 .. MaxQueues -> Seq(Event)],
         queues' \in 0 .. MaxQueues, lock' \in Threads \union {NoThread}, HistoryType'
  PROVE  RestTyped'
BY DEF Typed, TypeOK, RestTyped, DispatcherType, PollerType, PhoneType, InHandHeld,
       poller, phone, control

LEMMA HistoryTypes ==
  Typed => taken \in Seq(Event) /\ handled \in SUBSET Event /\ discarded \in SUBSET Event
BY DEF Typed, TypeOK, HistoryType

LEMMA DispatcherTypes ==
  Typed => /\ dict \in [Names -> 1 .. MaxQueues \union {NoQueue}]
           /\ content \in [1 .. MaxQueues -> Seq(Event)]
           /\ queues \in 0 .. MaxQueues /\ lock \in Threads \union {NoThread}
BY DEF Typed, TypeOK, DispatcherType

LEMMA ClientTypes ==
  ASSUME Typed, NEW t \in Threads
  PROVE  /\ pc[t] # "idle" => name[t] \in Names
         /\ ignored[t] \in Seq(Event) /\ ignored \in [Threads -> Seq(Event)]
         /\ queue \in [Threads -> 1 .. MaxQueues \union {NoQueue}]
BY DEF Typed, TypeOK, ClientType, NamesHeld

(* An operation that ends or goes on and touches no queue.                 *)
LEMMA CheckTyped ==
  ASSUME Typed, NEW t \in Threads, CheckStarted(t) PROVE Typed'
<1> USE DEF CheckStarted
<1>1. CASE started
  <2>1. PICK label \in Labels : Goto(t, label) /\ label \notin {"get", "put", "read to put"}
    BY <1>1 DEF Labels
  <2>2. ClientTyped'
    BY <1>1, <2>1, StayTyped
  <2>3. HistoryType'
    BY <1>1, HistoryTypes, HistoryKept
  <2> QED BY <2>2, <2>3, RestKept, TypedParts
<1>2. CASE ~started
  <2>1. EndOp(t) /\ discarded' \in SUBSET Event
    BY <1>2, RaiseType
  <2>2. ClientTyped' /\ HistoryType'
    BY <2>1, EndOpTyped, HistoryTypes, HistoryKept
  <2> QED BY <2>2, RestKept, TypedParts
<1> QED BY <1>1, <1>2

LEMMA GetEventQTyped ==
  ASSUME Typed, NEW t \in Threads, GetEventQ(t) PROVE Typed'
<1> USE DEF GetEventQ
<1>1. name[t] \in Names
  BY ClientTypes
<1>2. /\ dict' \in [Names -> 1 .. MaxQueues \union {NoQueue}] /\ queues' \in 0 .. MaxQueues
  BY <1>1, EnsureType DEF Typed
<1>3. ClientTyped'
  BY StayTyped DEF Labels
<1>4. RestTyped'
  BY <1>2, DispatcherTypes, HistoryTypes, HistoryKept, RestChanged DEF history
<1> QED BY <1>3, <1>4, TypedParts

LEMMA ReadQueueTyped ==
  ASSUME Typed, NEW t \in Threads, ReadQueue(t) \/ ReadQueueToPut(t) PROVE Typed'
<1> USE DEF ReadQueue, ReadQueueToPut
<1>1. CASE dict[name[t]] = NoQueue
  <2>1. EndOp(t) /\ discarded' \in SUBSET Event
    BY <1>1, RaiseType
  <2>2. ClientTyped' /\ HistoryType'
    BY <2>1, EndOpTyped, HistoryTypes, HistoryKept
  <2> QED BY <2>2, RestKept, TypedParts
<1>2. CASE dict[name[t]] # NoQueue
  <2>1. /\ name[t] \in Names /\ dict[name[t]] \in 1 .. MaxQueues
    BY <1>2, ClientTypes, DispatcherTypes
  <2>2. PICK label \in {"get", "put"} :
           Goto(t, label) /\ (label = "put" => pc[t] = "read to put")
    BY <1>2
  <2>3. queue' = [queue EXCEPT ![t] = dict[name[t]]] /\ UNCHANGED <<op, name, ignored, ops>>
    BY <1>2
  <2>4. /\ queue' \in [Threads -> 1 .. MaxQueues \union {NoQueue}]
        /\ \A u \in Threads \ {t} : queue'[u] = queue[u]
        /\ queue'[t] # NoQueue
    BY <2>1, <2>3, ClientTypes, BoundsAssumption
  <2>5. label = "put" => ignored'[t] # <<>>
    BY <2>2, <2>3 DEF Typed, Ignoring
  <2>6. ClientTyped'
    BY <2>2, <2>3, <2>4, <2>5, ClientTypes, GotoTyped DEF Labels
  <2>7. HistoryType'
    BY <1>2, HistoryTypes, HistoryKept
  <2> QED BY <2>6, <2>7, RestKept, TypedParts
<1> QED BY <1>1, <1>2

LEMMA GetTyped ==
  ASSUME Typed, NEW t \in Threads, Get(t) \/ GetAndTest(t) \/ GetAndKeep(t) PROVE Typed'
<1> DEFINE q == queue[t]
<1>1. /\ pc[t] = "get" /\ q \in 1 .. MaxQueues /\ content[q] # <<>>
      /\ content' = [content EXCEPT ![q] = Tail(@)]
      /\ UNCHANGED <<started, executor, dict, queues, handlers, lock, poller, phone,
                     control, ops, handled>>
  BY QueueType DEF Get, GetAndTest, GetAndKeep, history
<1>2. /\ Head(content[q]) \in Event /\ Append(taken, Head(content[q])) \in Seq(Event)
      /\ content' \in [1 .. MaxQueues -> Seq(Event)]
  BY <1>1, TakeType
<1>3. /\ taken' \in {taken, Append(taken, Head(content[q]))}
      /\ discarded' \in {discarded, discarded \union {Head(content[q])}}
  BY DEF Get, GetAndTest, GetAndKeep, history
<1>4. HistoryType'
  BY <1>1, <1>2, <1>3, HistoryTypes, HistoryKept
<1>5. RestTyped'
  BY <1>1, <1>2, <1>4, DispatcherTypes, RestChanged
<1>6. ClientTyped'
  <2>1. CASE EndOp(t)
    BY <2>1, <1>1, EndOpTyped
  <2>2. CASE Goto(t, "check") /\ UNCHANGED <<op, name, queue, ignored>>
    BY <2>2, <1>1, StayTyped DEF Labels
  <2>3. CASE GetAndKeep(t)
    <3>1. PICK label \in {"check", "put back"} : Goto(t, label)
      BY <2>3 DEF GetAndKeep
    <3>2. /\ ignored' = [ignored EXCEPT ![t] = Append(@, Head(content[q]))]
          /\ UNCHANGED <<op, name, queue>>
      BY <2>3 DEF GetAndKeep
    <3>3. Append(ignored[t], Head(content[q])) \in Seq(Event)
      BY <1>2, ClientTypes, AppendType
    <3>4. /\ ignored' \in [Threads -> Seq(Event)]
          /\ \A u \in Threads \ {t} : queue'[u] = queue[u] /\ ignored'[u] = ignored[u]
          /\ queue' \in [Threads -> 1 .. MaxQueues \union {NoQueue}]
      BY <3>2, <3>3, ClientTypes
    <3> QED BY <1>1, <3>1, <3>2, <3>4, GotoTyped DEF Labels
  <2> QED BY <2>1, <2>2, <2>3 DEF Get, GetAndTest
<1> QED BY <1>5, <1>6, TypedParts

LEMMA NothingTyped ==
  ASSUME Typed, NEW t \in Threads, GetTimesOut(t) \/ WaitGetsNothing(t) PROVE Typed'
<1>1. UNCHANGED <<dispatcher, poller, phone, control, ops, history>> /\ pc[t] = "get"
  BY DEF GetTimesOut, WaitGetsNothing
<1>2. ClientTyped'
  <2>1. CASE EndOp(t)
    BY <2>1, <1>1, EndOpTyped
  <2>2. CASE Goto(t, "check") /\ UNCHANGED <<op, name, queue, ignored>>
    BY <2>2, <1>1, StayTyped DEF Labels
  <2>3. CASE Goto(t, "put back") /\ UNCHANGED <<op, name, queue, ignored>>
    BY <2>3, <1>1, StayTyped DEF Labels
  <2> QED BY <2>1, <2>2, <2>3 DEF GetTimesOut, WaitGetsNothing
<1>3. HistoryType'
  BY <1>1, HistoryTypes, HistoryKept DEF history
<1> QED BY <1>1, <1>2, <1>3, RestKept, TypedParts

LEMMA PutBackTyped ==
  ASSUME Typed, NEW t \in Threads, PutBack(t) PROVE Typed'
<1> USE DEF PutBack
<1>1. HistoryType'
  BY HistoryTypes, HistoryKept DEF history
<1>2. /\ dict' \in [Names -> 1 .. MaxQueues \union {NoQueue}] /\ queues' \in 0 .. MaxQueues
  <2>1. name[t] \in Names
    BY ClientTypes
  <2> QED BY <2>1, DispatcherTypes, EnsureType DEF Typed
<1>3. RestTyped'
  BY <1>1, <1>2, DispatcherTypes, RestChanged
<1>4. CASE ignored[t] = <<>>
  BY <1>3, <1>4, EndOpTyped, TypedParts
<1>5. CASE ignored[t] # <<>>
  <2>1. ClientTyped'
    BY <1>5, StayTyped DEF Labels
  <2> QED BY <2>1, <1>3, TypedParts
<1> QED BY <1>4, <1>5

LEMMA PutTyped ==
  ASSUME Typed, NEW t \in Threads, Put(t) PROVE Typed'
<1> USE DEF Put
<1>1. /\ queue[t] \in 1 .. MaxQueues /\ ignored[t] # <<>> /\ ignored[t] \in Seq(Event)
  BY QueueType, ClientTypes DEF Typed, Ignoring
<1>2. Head(ignored[t]) \in Event /\ Tail(ignored[t]) \in Seq(Event)
  BY <1>1, TailType
<1>3. /\ content' \in [1 .. MaxQueues -> Seq(Event)]
  BY <1>1, <1>2, PutType
<1>4. HistoryType'
  BY <1>2, HistoryTypes, HistoryKept
<1>5. RestTyped'
  BY <1>3, <1>4, DispatcherTypes, RestChanged
<1>6. /\ ignored' \in [Threads -> Seq(Event)]
      /\ \A u \in Threads \ {t} : ignored'[u] = ignored[u]
  BY <1>2, ClientTypes
<1>7. ClientTyped'
  BY <1>6, ClientTypes, GotoTyped DEF Labels
<1> QED BY <1>5, <1>7, TypedParts

LEMMA PopAllTyped ==
  ASSUME Typed, NEW t \in Threads, PopAllLocks(t) \/ PopAllTakes(t) PROVE Typed'
<1>1. CASE PopAllLocks(t)
  <2> USE <1>1 DEF PopAllLocks
  <2>1. HistoryType'
    BY HistoryTypes, HistoryKept DEF history
  <2>2. ClientTyped'
    BY StayTyped DEF Labels
  <2>3. RestTyped'
    BY <2>1, DispatcherTypes, RestChanged
  <2> QED BY <2>2, <2>3, TypedParts
<1>2. CASE PopAllTakes(t)
  <2> USE <1>2 DEF PopAllTakes
  <2> DEFINE q == dict[name[t]]
  <2>1. name[t] \in Names
    BY ClientTypes
  <2>2. CASE q = NoQueue \/ (q # NoQueue /\ content[q] = <<>>)
    <3>1. HistoryType'
      BY <2>2, HistoryTypes, HistoryKept
    <3>2. RestTyped'
      BY <2>2, <3>1, DispatcherTypes, RestChanged
    <3> QED BY <2>2, <3>2, EndOpTyped, TypedParts
  <2>3. CASE q # NoQueue /\ content[q] # <<>>
    <3>1. q \in 1 .. MaxQueues
      BY <2>1, <2>3, DispatcherTypes
    <3>2. /\ taken' = Append(taken, Head(content[q]))
          /\ content' = [content EXCEPT ![q] = Tail(@)]
          /\ UNCHANGED <<lock, pc, op, name, queue, ignored, ops>>
      BY <2>3
    <3>3. taken' \in Seq(Event) /\ content' \in [1 .. MaxQueues -> Seq(Event)]
      BY <2>3, <3>1, <3>2, TakeType
    <3>4. HistoryType'
      BY <3>3, HistoryTypes, HistoryKept
    <3>5. RestTyped'
      BY <3>2, <3>3, <3>4, DispatcherTypes, RestChanged
    <3>6. ClientTyped'
      BY <3>2 DEF ClientTyped, Typed, TypeOK, ClientType, NamesHeld, Ignoring
    <3> QED BY <3>5, <3>6, TypedParts
  <2> QED BY <2>2, <2>3
<1> QED BY <1>1, <1>2

(* pop_events: the events it takes are the heads of the queues that have   *)
(* any, in the order of their numbers.                                     *)
Ready == {n \in Names : dict[n] # NoQueue /\ content[dict[n]] # <<>>}

LEMMA ReadyType ==
  ASSUME Typed, NEW n \in Ready
  PROVE  /\ n \in Names /\ dict[n] \in 1 .. MaxQueues /\ content[dict[n]] \in Seq(Event)
         /\ content[dict[n]] # <<>> /\ Head(content[dict[n]]) \in Event
<1>1. /\ n \in Names /\ dict[n] \in 1 .. MaxQueues /\ content[dict[n]] \in Seq(Event)
      /\ content[dict[n]] # <<>>
  BY DispatcherTypes DEF Ready
<1> QED BY <1>1, TailType

LEMMA Matched ==
  ASSUME Typed, NEW t \in Threads, MatchAndPop(t)
  PROVE  \E sorted \in Seq(Event) :
           /\ taken' = taken \o sorted
           /\ \A i \in DOMAIN sorted : \E n \in Ready : sorted[i] = Head(content[dict[n]])
           /\ \A i, j \in DOMAIN sorted : i < j => sorted[i].no < sorted[j].no
           /\ \A n \in Ready : \E i \in DOMAIN sorted : sorted[i] = Head(content[dict[n]])
<1> DEFINE results == {Head(content[dict[n]]) : n \in Ready}
<1>1. PICK sorted \in SetToSeqs(results) :
        /\ \A i, j \in DOMAIN sorted : i < j => sorted[i].no < sorted[j].no
        /\ taken' = taken \o sorted
  BY DEF MatchAndPop, Ready
<1>2. results \subseteq Event
  BY ReadyType
<1>3. IsFiniteSet(results)
  <2> DEFINE head == [n \in Ready |-> Head(content[dict[n]])]
  <2>1. head \in [Ready -> results] /\ \A e \in results : \E n \in Ready : head[n] = e
    OBVIOUS
  <2>2. head \in Surjection(Ready, results)
    BY <2>1 DEF Surjection
  <2>3. IsFiniteSet(Ready)
    <3>1. Ready \in SUBSET Names
      BY DEF Ready
    <3> QED BY <3>1, FS_Subset, NamesAssumption
  <2> QED BY <2>2, <2>3, FS_Surjection
<1>4. Cardinality(results) \in Nat
  BY <1>3, FS_CardinalityType
<1>5. sorted \in [1 .. Cardinality(results) -> results]
  BY DEF SetToSeqs
<1>6. sorted \in Seq(Event)
  <2>1. sorted \in [1 .. Cardinality(results) -> Event]
    BY <1>2, <1>5
  <2> QED BY <1>4, <2>1, FunctionType
<1>7. \A i \in DOMAIN sorted : \E n \in Ready : sorted[i] = Head(content[dict[n]])
  BY <1>5
<1>8. \A n \in Ready : \E i \in DOMAIN sorted : sorted[i] = Head(content[dict[n]])
  <2>1. sorted \in Injection(1 .. Cardinality(results), results)
    BY <1>5 DEF SetToSeqs, Injection, IsInjective
  <2>2. Cardinality(1 .. Cardinality(results)) = Cardinality(results)
    BY <1>4, FS_Interval
  <2>3. sorted \in Surjection(1 .. Cardinality(results), results)
    BY <1>3, <2>1, <2>2, FS_Injection
  <2>4. \A e \in results : \E i \in 1 .. Cardinality(results) : sorted[i] = e
    BY <2>3 DEF Surjection
  <2> QED BY <1>5, <2>4
<1> QED BY <1>1, <1>6, <1>7, <1>8

LEMMA MatchedContent ==
  ASSUME Typed, NEW t \in Threads, MatchAndPop(t)
  PROVE  /\ content' \in [1 .. MaxQueues -> Seq(Event)]
         /\ \A q \in 1 .. MaxQueues :
              \/ content'[q] = content[q] /\ \A n \in Ready : dict[n] # q
              \/ \E n \in Ready : q = dict[n] /\ content'[q] = Tail(content[q])
<1>1. content' = [q \in DOMAIN content |->
                    IF \E n \in Ready : q = dict[n] THEN Tail(content[q]) ELSE content[q]]
  BY DEF MatchAndPop, Ready
<1>2. DOMAIN content = 1 .. MaxQueues /\ \A q \in 1 .. MaxQueues : content[q] \in Seq(Event)
  BY DispatcherTypes
<1>3. \A n \in Ready : Tail(content[dict[n]]) \in Seq(Event)
  BY ReadyType, TailType
<1> QED BY <1>1, <1>2, <1>3

LEMMA MatchTyped ==
  ASSUME Typed, NEW t \in Threads, MatchAndPop(t) PROVE Typed'
<1>1. /\ EndOp(t)
      /\ UNCHANGED <<started, executor, dict, queues, handlers, lock, poller, phone,
                     control, ops, handled, discarded>>
  BY DEF MatchAndPop
<1>2. PICK sorted \in Seq(Event) : taken' = taken \o sorted
  BY Matched
<1>3. taken' \in Seq(Event)
  BY <1>2, HistoryTypes, ConcatProperties
<1>4. HistoryType'
  BY <1>1, <1>3, HistoryTypes, HistoryKept
<1>5. RestTyped'
  BY <1>1, <1>4, MatchedContent, DispatcherTypes, RestChanged
<1> QED BY <1>1, <1>5, EndOpTyped, TypedParts

(* clear_events ends the operation of t and of those it catches.           *)
LEMMA Victims ==
  ASSUME NEW t \in Threads, ClearEvents(t)
  PROVE  \E victims \in SUBSET Threads :
    /\ \A u \in victims : pc[u] = "get" /\ queue[u] = dict'[name[t]]
    /\ discarded' = discarded \union ToSet(content[dict'[name[t]]])
                      \union UNION {ToSet(ignored[u]) : u \in victims}
    /\ pc' = [u \in Threads |-> IF u \in {t} \union victims THEN "idle" ELSE pc[u]]
    /\ op' = [u \in Threads |-> IF u \in {t} \union victims THEN "none" ELSE op[u]]
    /\ name' = [u \in Threads |-> IF u \in {t} \union victims THEN NoName ELSE name[u]]
    /\ queue' = [u \in Threads |-> IF u \in {t} \union victims THEN NoQueue ELSE queue[u]]
    /\ ignored' = [u \in Threads |-> IF u \in {t} \union victims THEN <<>> ELSE ignored[u]]
BY DEF ClearEvents

LEMMA ClearTyped ==
  ASSUME Typed, NEW t \in Threads, ClearEvents(t) PROVE Typed'
<1> DEFINE q == dict'[name[t]]
<1>1. /\ pc[t] = "clear" /\ EnsureQueue(name[t]) /\ content' = [content EXCEPT ![q] = <<>>]
      /\ UNCHANGED <<started, executor, handlers, lock, poller, phone, control, ops,
                     taken, handled>>
  BY DEF ClearEvents
<1>2. PICK victims \in SUBSET Threads :
        /\ discarded' = discarded \union ToSet(content[q])
                          \union UNION {ToSet(ignored[u]) : u \in victims}
        /\ pc' = [u \in Threads |-> IF u \in {t} \union victims THEN "idle" ELSE pc[u]]
        /\ op' = [u \in Threads |-> IF u \in {t} \union victims THEN "none" ELSE op[u]]
        /\ name' = [u \in Threads |-> IF u \in {t} \union victims THEN NoName ELSE name[u]]
        /\ queue' = [u \in Threads |-> IF u \in {t} \union victims THEN NoQueue ELSE queue[u]]
        /\ ignored' = [u \in Threads |-> IF u \in {t} \union victims THEN <<>> ELSE ignored[u]]
  BY Victims
<1>3. /\ dict' \in [Names -> 1 .. MaxQueues \union {NoQueue}] /\ queues' \in 0 .. MaxQueues
      /\ q \in 1 .. MaxQueues
  BY <1>1, ClientTypes, EnsureType DEF Typed
<1>4. /\ content' \in [1 .. MaxQueues -> Seq(Event)]
  BY <1>1, DispatcherTypes, EmptyType
<1>5. discarded' \in SUBSET Event
  <2>1. ToSet(content[q]) \subseteq Event
    BY <1>3, DispatcherTypes, ToSetType
  <2>2. \A u \in victims : ToSet(ignored[u]) \subseteq Event
    BY ClientTypes, ToSetType
  <2> QED BY <1>2, <2>1, <2>2, HistoryTypes
<1>6. HistoryType'
  BY <1>1, <1>5, HistoryTypes, HistoryKept
<1>7. RestTyped'
  BY <1>1, <1>3, <1>4, <1>6, DispatcherTypes, RestChanged
<1>8. ClientTyped'
  <2>1. <<>> \in Seq(Event)
    BY EmptyType
  <2>2. ClientType'
    BY <1>1, <1>2, <2>1 DEF Typed, TypeOK, ClientType, Labels
  <2>3. NamesHeld' /\ Ignoring'
    BY <1>2 DEF Typed, NamesHeld, Ignoring
  <2> QED BY <2>2, <2>3 DEF ClientTyped
<1> QED BY <1>7, <1>8, TypedParts

LEMMA ForgetTypes ==
  ASSUME Typed, ForgetQueues
  PROVE  /\ dict' \in [Names -> 1 .. MaxQueues \union {NoQueue}]
         /\ discarded' \in SUBSET Event
<1>1. Stored \subseteq Event
  <2>1. ASSUME NEW n \in Names, dict[n] # NoQueue PROVE ToSet(content[dict[n]]) \subseteq Event
    BY <2>1, DispatcherTypes, ToSetType
  <2> QED BY <2>1 DEF Stored
<1> QED BY <1>1, HistoryTypes DEF ForgetQueues

LEMMA ClearAllTyped ==
  ASSUME Typed, NEW t \in Threads, ClearAllEvents(t) PROVE Typed'
<1> USE DEF ClearAllEvents
<1>1. HistoryType'
  BY ForgetTypes, HistoryTypes, HistoryKept
<1>2. RestTyped'
  BY <1>1, ForgetTypes, DispatcherTypes, RestChanged
<1> QED BY <1>2, EndOpTyped, TypedParts

LEMMA StepTyped == ASSUME Typed, NEW t \in Threads, Step(t) PROVE Typed'
BY CheckTyped, GetEventQTyped, ReadQueueTyped, GetTyped, NothingTyped, PutBackTyped,
   PutTyped, PopAllTyped, MatchTyped, ClearTyped, ClearAllTyped DEF Step

(* The phone, the owner, the poller and the beginnings of operations.      *)
LEMMA ClientKept == ASSUME Typed, UNCHANGED client PROVE ClientTyped'
BY DEF client, ClientTyped, Typed, TypeOK, ClientType, NamesHeld, Ignoring

LEMMA PhoneTyped ==
  ASSUME Typed, \/ Emit \/ RpcDies \/ \E n \in Names : RegisterHandler(n)
                \/ Start \/ CloseSession \/ Owner
  PROVE  Typed'
<1> USE DEF Typed, TypeOK
<1>1. ClientTyped'
  BY ClientKept DEF Emit, RpcDies, RegisterHandler, Start, CloseSession, Owner, Close, Join,
                    CloseClears
<1> SUFFICES RestTyped'
  BY <1>1, TypedParts
<1>2. CASE Emit
  <2>1. PICK n \in Names : feed' = Append(feed, [name |-> n, no |-> emitted + 1])
    BY <1>2 DEF Emit
  <2>2. emitted' \in 0 .. MaxEvents /\ emitted + 1 \in 1 .. MaxEvents
    BY <1>2, BoundsAssumption DEF Emit, PhoneType
  <2>3. [name |-> n, no |-> emitted + 1] \in Event /\ feed \in Seq(Event)
    BY <2>2 DEF Event, PhoneType
  <2>4. feed' \in Seq(Event)
    BY <2>1, <2>3, AppendType
  <2>5. PhoneType'
    BY <1>2, <2>2, <2>4 DEF Emit, PhoneType, control
  <2>6. DispatcherType' /\ PollerType' /\ HistoryType' /\ InHandHeld'
    BY <1>2 DEF Emit, dispatcher, poller, history, DispatcherType, PollerType, HistoryType,
                InHandHeld
  <2> QED BY <2>5, <2>6 DEF RestTyped
<1>3. CASE RpcDies
  BY <1>3 DEF RpcDies, dispatcher, poller, control, history, RestTyped, DispatcherType,
              PollerType, PhoneType, HistoryType, InHandHeld
<1>4. ASSUME NEW n \in Names, RegisterHandler(n) PROVE RestTyped'
  BY <1>4 DEF RegisterHandler, poller, phone, control, history, RestTyped, DispatcherType,
              PollerType, PhoneType, HistoryType, InHandHeld
<1>5. CASE Start
  <2>1. starts' \in 0 .. MaxStarts
    BY <1>5, BoundsAssumption DEF Start, PhoneType
  <2> QED BY <1>5, <2>1 DEF Start, phone, history, RestTyped, DispatcherType, PollerType,
                            PhoneType, HistoryType, InHandHeld
<1>6. CASE CloseSession
  BY <1>6 DEF CloseSession, dispatcher, poller, history, RestTyped, DispatcherType,
              PollerType, PhoneType, HistoryType, InHandHeld
<1>7. CASE Close
  BY <1>7 DEF Close, poller, phone, history, RestTyped, DispatcherType, PollerType,
              PhoneType, HistoryType, InHandHeld
<1>8. CASE Join
  BY <1>8 DEF Join, dispatcher, poller, phone, history, RestTyped, DispatcherType, PollerType,
              PhoneType, HistoryType, InHandHeld
<1>9. CASE CloseClears
  <2>1. /\ dict' \in [Names -> 1 .. MaxQueues \union {NoQueue}] /\ discarded' \in SUBSET Event
    BY <1>9, ForgetTypes DEF CloseClears
  <2> QED BY <1>9, <2>1 DEF CloseClears, poller, phone, RestTyped, DispatcherType, PollerType,
                            PhoneType, HistoryType, InHandHeld
<1> QED BY <1>2, <1>3, <1>4, <1>5, <1>6, <1>7, <1>8, <1>9 DEF Owner

LEMMA PollTyped == ASSUME Typed, Poll \/ PollError \/ RunHandler PROVE Typed'
<1> USE DEF Typed, TypeOK
<1>1. ClientTyped'
  BY ClientKept DEF Poll, PollError, PollTop, PollReceives, PollBreaksOff, PollClosesItself,
                    PollFails, Dispatch, Store, RunHandler
<1> SUFFICES RestTyped'
  BY <1>1, TypedParts
<1>2. CASE PollTop
  BY <1>2 DEF PollTop, dispatcher, phone, control, history, RestTyped, DispatcherType,
              PollerType, PhoneType, HistoryType, InHandHeld
<1>3. CASE PollReceives
  <2>1. CASE feed # <<>> /\ poll' = "dispatch"
    <3>1. inHand' \in Event /\ feed' \in Seq(Event)
      BY <1>3, <2>1, TailType DEF PollReceives, PhoneType
    <3> QED BY <1>3, <2>1, <3>1 DEF PollReceives, dispatcher, control, history, RestTyped,
                 DispatcherType, PollerType, PhoneType, HistoryType, InHandHeld
  <2>2. CASE poll' \in {"returned", "top"} /\ UNCHANGED <<inHand, feed>>
    BY <1>3, <2>2 DEF PollReceives, dispatcher, control, history, RestTyped,
                 DispatcherType, PollerType, PhoneType, HistoryType, InHandHeld
  <2> QED BY <1>3, <2>1, <2>2 DEF PollReceives
<1>4. CASE PollBreaksOff \/ PollFails
  BY <1>4 DEF PollBreaksOff, PollFails, dispatcher, phone, control, history, RestTyped,
              DispatcherType, PollerType, PhoneType, HistoryType, InHandHeld
<1>5. CASE PollClosesItself
  BY <1>5 DEF PollClosesItself, phone, control, history, RestTyped, DispatcherType,
              PollerType, PhoneType, HistoryType, InHandHeld
<1>6. CASE Dispatch
  <2>1. inHand \in Event
    BY <1>6 DEF Dispatch, InHandHeld
  <2> QED BY <1>6, <2>1 DEF Dispatch, dispatcher, phone, control, RestTyped, DispatcherType,
                            PollerType, PhoneType, HistoryType, InHandHeld
<1>7. CASE Store
  <2>1. inHand \in Event /\ inHand.name \in Names
    BY <1>7 DEF Store, InHandHeld, Event
  <2>2. /\ dict' \in [Names -> 1 .. MaxQueues \union {NoQueue}] /\ queues' \in 0 .. MaxQueues
        /\ dict'[inHand.name] \in 1 .. MaxQueues
    BY <1>7, <2>1, EnsureType DEF Store
  <2>3. content' \in [1 .. MaxQueues -> Seq(Event)]
    BY <1>7, <2>1, <2>2, PutType DEF Store
  <2> QED BY <1>7, <2>2, <2>3 DEF Store, phone, control, history, RestTyped, DispatcherType,
                            PollerType, PhoneType, HistoryType, InHandHeld
<1>8. CASE RunHandler
  <2>1. PICK e \in tasks : tasks' = tasks \ {e} /\ handled' = handled \union {e}
    BY <1>8 DEF RunHandler
  <2>2. PollerType' /\ HistoryType'
    BY <1>8, <2>1 DEF RunHandler, PollerType, HistoryType
  <2> QED BY <1>8, <2>2 DEF RunHandler, dispatcher, phone, control, RestTyped, DispatcherType,
                            PhoneType, InHandHeld
<1> QED BY <1>2, <1>3, <1>4, <1>5, <1>6, <1>7, <1>8 DEF Poll, PollError

LEMMA CountsUp == ASSUME NEW m \in Nat, NEW k \in 0 .. m, k < m PROVE k + 1 \in 0 .. m
OBVIOUS

LEMMA BeginTyped ==
  ASSUME Typed, NEW t \in Threads, NEW n \in Names,
         (\E o \in Ops : Begin(t, o, n)) \/ HandleEvent(t, n)
  PROVE  Typed'
<1>1. PICK called \in Ops \union {"handle"} : op' = [op EXCEPT ![t] = called]
  BY DEF Begin, HandleEvent
<1>2. PICK label \in {"check", "clear", "clear all"} : pc' = [pc EXCEPT ![t] = label]
  BY DEF Begin, HandleEvent, Goto
<1>3. /\ ops[t] < MaxOps /\ ops' = [ops EXCEPT ![t] = @ + 1]
      /\ name' = [name EXCEPT ![t] = n]
      /\ UNCHANGED <<dispatcher, poller, phone, control, queue, ignored, history>>
  BY DEF Begin, HandleEvent
<1>4. ops' \in [Threads -> 0 .. MaxOps]
  <2>1. ops \in [Threads -> 0 .. MaxOps]
    BY DEF Typed, TypeOK, ClientType
  <2>2. ops[t] \in 0 .. MaxOps /\ ops[t] < MaxOps
    BY <1>3, <2>1
  <2>3. MaxOps \in Nat
    BY BoundsAssumption
  <2>4. ops[t] + 1 \in 0 .. MaxOps
    BY <2>2, <2>3, CountsUp
  <2> QED BY <1>3, <2>1, <2>4
<1>5. ClientType'
  BY <1>1, <1>2, <1>3, <1>4 DEF Typed, TypeOK, ClientType, Labels
<1>6. NamesHeld' /\ Ignoring'
  BY <1>2, <1>3 DEF Typed, TypeOK, ClientType, NamesHeld, Ignoring
<1>7. HistoryType'
  BY <1>3, HistoryTypes, HistoryKept DEF history
<1> QED BY <1>3, <1>5, <1>6, <1>7, RestKept, TypedParts DEF ClientTyped

LEMMA NextTyped == Typed /\ [Next]_vars => Typed'
<1> SUFFICES ASSUME Typed, [Next]_vars PROVE Typed'
  OBVIOUS
<1>1. CASE UNCHANGED vars
  <2>1. UNCHANGED <<dispatcher, poller, phone, control, client, history>>
    BY <1>1 DEF vars
  <2>2. HistoryType'
    BY <2>1, HistoryTypes, HistoryKept DEF history
  <2> QED BY <2>1, <2>2, ClientKept, RestKept, TypedParts
<1>2. ASSUME NEW t \in Users, NEW o \in Ops, NEW n \in Names, Begin(t, o, n) PROVE Typed'
  BY <1>2, BeginTyped DEF Threads
<1>3. ASSUME NEW t \in Workers, NEW n \in Names, HandleEvent(t, n) PROVE Typed'
  BY <1>3, BeginTyped DEF Threads
<1> QED BY <1>1, <1>2, <1>3, PhoneTyped, PollTyped, StepTyped DEF Next, Done

(* Whatever the names, the threads, the operations and the bounds, every   *)
(* variable of the dispatcher stays in its type, no thread waits on what   *)
(* is no queue, and nothing that is not an event is stored or taken.       *)
THEOREM TypeCorrect == Spec => []TypeOK
<1>1. Typed => TypeOK
  BY DEF Typed
<1> QED BY <1>1, InitTyped, NextTyped, PTL DEF Spec

-----------------------------------------------------------------------------
(* What a step of a user or a worker leaves alone, when no wait_for_event  *)
(* puts events back.                                                       *)
NoPut == \A t \in Threads : pc[t] \notin {"put back", "read to put", "put"}

(* Only queues of the dictionary have been filled, and a queue that is     *)
(* created is new.                                                         *)
Fresh ==
  /\ \A q \in 1 .. MaxQueues : q > queues => content[q] = <<>>
  /\ \A n \in Names : dict[n] # NoQueue => dict[n] <= queues

(* Queues only get shorter; the dictionary forgets some or gets a new one. *)
Drains ==
  /\ \A q \in 1 .. MaxQueues : content[q] = <<>> => content'[q] = <<>>
  /\ queues' \in {queues, queues + 1}
  /\ \A n \in Names :
       \/ dict'[n] \in {dict[n], NoQueue}
       \/ dict'[n] = queues + 1 /\ queues' = queues + 1

LEMMA NoPutStays ==
  ASSUME Typed, NoPut, NEW t \in Threads, NEW label \in Labels, Goto(t, label),
         label \notin {"put back", "read to put", "put"}
  PROVE  /\ NoPut' /\ \A u \in Threads : pc[u] = "idle" /\ u # t => pc'[u] = "idle"
BY DEF Goto, NoPut, Typed, TypeOK, ClientType

LEMMA StepElsewhere ==
  ASSUME NEW t \in Threads, Step(t)
  PROVE  UNCHANGED <<started, executor, handlers, poller, phone, control, ops, handled>>
BY DEF Step, CheckStarted, GetEventQ, ReadQueue, Get, GetTimesOut, GetAndTest, GetAndKeep,
       WaitGetsNothing, PutBack, ReadQueueToPut, Put, PopAllLocks, PopAllTakes,
       MatchAndPop, ClearEvents, ClearAllEvents, dispatcher, history

LEMMA StepLeaves ==
  ASSUME Typed, NoPut, "wait keep" \notin Ops, NEW t \in Threads, Step(t)
  PROVE  /\ NoPut' /\ \A u \in Threads : pc[u] = "idle" => pc'[u] = "idle"
         /\ UNCHANGED <<started, executor, handlers, poller, phone, control, ops, handled>>
<1>1. UNCHANGED <<started, executor, handlers, poller, phone, control, ops, handled>>
  BY StepElsewhere
<1>2. op[t] # "wait keep"
  BY DEF Typed, TypeOK, ClientType
<1>3. CASE ClearEvents(t)
  <2>1. PICK victims \in SUBSET Threads :
          pc' = [u \in Threads |-> IF u \in {t} \union victims THEN "idle" ELSE pc[u]]
    BY <1>3, Victims
  <2> QED BY <1>1, <2>1 DEF NoPut
<1>4. CASE UNCHANGED pc
  BY <1>1, <1>4 DEF NoPut
<1>5. ASSUME pc[t] # "idle", NEW label \in Labels, Goto(t, label),
             label \notin {"put back", "read to put", "put"}
      PROVE  NoPut' /\ \A u \in Threads : pc[u] = "idle" => pc'[u] = "idle"
  BY <1>5, NoPutStays
<1>6. CASE EndOp(t)
  <2>1. pc' = [pc EXCEPT ![t] = "idle"] /\ pc \in [Threads -> Labels]
    BY <1>6 DEF EndOp, Goto, Typed, TypeOK, ClientType
  <2>2. \A u \in Threads : pc'[u] = pc[u] \/ pc'[u] = "idle"
    BY <2>1
  <2> QED BY <1>1, <2>2 DEF NoPut
<1>7. pc[t] \notin {"idle", "put back", "read to put", "put"}
  BY DEF NoPut, Step, CheckStarted, GetEventQ, ReadQueue, Get, GetTimesOut, GetAndTest,
         GetAndKeep, WaitGetsNothing, PutBack, ReadQueueToPut, Put, PopAllLocks,
         PopAllTakes, MatchAndPop, ClearEvents, ClearAllEvents
<1>8. \/ ClearEvents(t) \/ UNCHANGED pc \/ EndOp(t)
      \/ \E label \in Labels : Goto(t, label) /\ label \notin {"put back", "read to put", "put"}
  <2>1. CASE CheckStarted(t)
    BY <2>1 DEF CheckStarted, Raise, Labels
  <2>2. CASE GetEventQ(t) \/ PopAllLocks(t)
    BY <2>2 DEF GetEventQ, PopAllLocks, Labels
  <2>3. CASE ReadQueue(t) \/ Get(t) \/ GetTimesOut(t) \/ MatchAndPop(t) \/ ClearAllEvents(t)
    BY <2>3 DEF ReadQueue, Get, GetTimesOut, MatchAndPop, ClearAllEvents, Raise, Labels
  <2>4. CASE GetAndTest(t) \/ WaitGetsNothing(t)
    BY <2>4, <1>2 DEF GetAndTest, WaitGetsNothing, Labels
  <2>5. CASE PopAllTakes(t)
    BY <2>5 DEF PopAllTakes
  <2>6. CASE GetAndKeep(t) \/ PutBack(t) \/ ReadQueueToPut(t) \/ Put(t)
    BY <2>6, <1>2, <1>7 DEF GetAndKeep, PutBack, ReadQueueToPut, Put
  <2> QED BY <2>1, <2>2, <2>3, <2>4, <2>5, <2>6 DEF Step
<1> QED BY <1>1, <1>3, <1>4, <1>5, <1>6, <1>7, <1>8

LEMMA EnsureDrains ==
  ASSUME Typed, NEW n \in Names, EnsureQueue(n)
  PROVE  /\ queues' \in {queues, queues + 1}
         /\ \A m \in Names : \/ dict'[m] \in {dict[m], NoQueue}
                             \/ dict'[m] = queues + 1 /\ queues' = queues + 1
<1>1. \A m \in Names : dict[m] # NoQueue \/ m # n => dict'[m] = dict[m]
  BY EnsureType DEF Typed
<1> QED BY <1>1, EnsureType DEF EnsureQueue, Typed

LEMMA StepDrains ==
  ASSUME Typed, NoPut, "wait keep" \notin Ops, NEW t \in Threads, Step(t) PROVE Drains
<1>1. op[t] # "wait keep" /\ pc[t] \notin {"put back", "read to put", "put"}
  BY DEF Typed, TypeOK, ClientType, NoPut
<1>2. content \in [1 .. MaxQueues -> Seq(Event)]
  BY DispatcherTypes
<1>3. pc[t] # "idle" => name[t] \in Names
  BY ClientTypes
<1>4. CASE CheckStarted(t) \/ ReadQueue(t) \/ GetTimesOut(t) \/ WaitGetsNothing(t)
           \/ PopAllLocks(t)
  BY <1>4 DEF CheckStarted, ReadQueue, GetTimesOut, WaitGetsNothing, PopAllLocks,
              dispatcher, Drains
<1>5. CASE GetEventQ(t)
  BY <1>3, <1>5, EnsureDrains DEF GetEventQ, Drains
<1>6. CASE Get(t) \/ GetAndTest(t)
  <2>1. /\ content' = [content EXCEPT ![queue[t]] = Tail(@)] /\ UNCHANGED <<dict, queues>>
        /\ content[queue[t]] # <<>>
    BY <1>6 DEF Get, GetAndTest
  <2> QED BY <1>2, <2>1 DEF Drains
<1>7. CASE PopAllTakes(t)
  <2>1. UNCHANGED <<dict, queues>>
    BY <1>7 DEF PopAllTakes
  <2>2. \/ content' = content
        \/ /\ content' = [content EXCEPT ![dict[name[t]]] = Tail(@)]
           /\ content[dict[name[t]]] # <<>>
    BY <1>7 DEF PopAllTakes
  <2> QED BY <1>2, <2>1, <2>2 DEF Drains
<1>8. CASE MatchAndPop(t)
  <2>1. UNCHANGED <<dict, queues>>
    BY <1>8 DEF MatchAndPop
  <2>2. \A q \in 1 .. MaxQueues : content[q] = <<>> => content'[q] = <<>>
    BY <1>8, MatchedContent, ReadyType
  <2> QED BY <2>1, <2>2 DEF Drains
<1>9. CASE ClearEvents(t)
  <2>1. /\ EnsureQueue(name[t]) /\ name[t] \in Names
        /\ content' = [content EXCEPT ![dict'[name[t]]] = <<>>]
    BY <1>3, <1>9 DEF ClearEvents
  <2> QED BY <1>2, <2>1, EnsureDrains DEF Drains
<1>10. CASE ClearAllEvents(t)
  BY <1>10 DEF ClearAllEvents, ForgetQueues, Drains
<1> QED BY <1>1, <1>4, <1>5, <1>6, <1>7, <1>8, <1>9, <1>10
        DEF Step, GetAndKeep, PutBack, ReadQueueToPut, Put

LEMMA DrainsFresh == ASSUME Typed, Typed', Fresh, Drains PROVE Fresh'
<1>1. queues \in Nat /\ queues' \in Nat /\ queues' >= queues
  BY DispatcherTypes DEF Drains
<1>2. ASSUME NEW q \in 1 .. MaxQueues, q > queues' PROVE content'[q] = <<>>
  BY <1>1, <1>2 DEF Drains, Fresh
<1>3. ASSUME NEW n \in Names, dict'[n] # NoQueue PROVE dict'[n] <= queues'
  <2>1. CASE dict'[n] = dict[n]
    <3>1. dict[n] \in 1 .. MaxQueues /\ dict[n] <= queues
      BY <1>3, <2>1, DispatcherTypes DEF Fresh
    <3> QED BY <1>1, <2>1, <3>1
  <2>2. CASE dict'[n] = queues + 1 /\ queues' = queues + 1
    BY <1>1, <2>2
  <2> QED BY <1>3, <2>1, <2>2 DEF Drains
<1> QED BY <1>2, <1>3 DEF Fresh

(* Nothing is stored in a queue that the dictionary knows.                 *)
Empty == \A n \in Names : dict[n] # NoQueue => content[dict[n]] = <<>>

LEMMA EmptyStored == ASSUME Typed PROVE Stored = {} <=> Empty
<1>1. \A n \in Names : dict[n] # NoQueue =>
         (ToSet(content[dict[n]]) = {} <=> content[dict[n]] = <<>>)
  <2> SUFFICES ASSUME NEW n \in Names, dict[n] # NoQueue
               PROVE  ToSet(content[dict[n]]) = {} <=> content[dict[n]] = <<>>
    OBVIOUS
  <2>1. content[dict[n]] \in Seq(Event)
    BY DispatcherTypes
  <2>2. content[dict[n]] # <<>> => 1 \in DOMAIN content[dict[n]]
    BY <2>1
  <2>3. content[dict[n]] = <<>> => DOMAIN content[dict[n]] = {}
    BY EmptyType
  <2> DEFINE s == content[dict[n]]
  <2>4. ToSet(s) = {s[i] : i \in DOMAIN s}
    BY DEF ToSet
  <2> HIDE DEF s
  <2>5. ToSet(s) = {} <=> DOMAIN s = {}
    BY <2>4
  <2> QED BY <2>2, <2>3, <2>5 DEF s
<1> QED BY <1>1 DEF Stored, Empty

LEMMA DrainsEmpty == ASSUME Typed, Typed', Fresh, Empty, Drains PROVE Empty'
<1> SUFFICES ASSUME NEW n \in Names, dict'[n] # NoQueue PROVE content'[dict'[n]] = <<>>
  BY DEF Empty
<1>1. dict'[n] \in 1 .. MaxQueues /\ queues \in Nat
  BY DispatcherTypes DEF Typed, TypeOK, DispatcherType
<1>2. CASE dict'[n] = dict[n]
  BY <1>1, <1>2 DEF Empty, Drains
<1>3. CASE dict'[n] = queues + 1
  BY <1>1, <1>3 DEF Fresh, Drains
<1> QED BY <1>2, <1>3 DEF Drains

-----------------------------------------------------------------------------
(* close() is final.  _started and the executor go up and down together;   *)
(* once close() has joined the executor nothing of it is left, and what it *)
(* clears stays empty: what a user still creates is a new queue.           *)
Closing ==
  /\ rpcAlive
  /\ started <=> executor = "up"
  /\ owner \in {"join", "clear"} => executor = "shutdown"
  /\ owner = "clear" => ExecutorIdle
  /\ executor = "shutdown" /\ owner \in {"idle", "close"} => ExecutorIdle /\ Empty

ClosingInv == Typed /\ NoPut /\ Fresh /\ Closing

LEMMA InitNoPut == Init => NoPut /\ Fresh
<1> SUFFICES ASSUME Init PROVE NoPut /\ Fresh
  OBVIOUS
<1>1. NoPut
  BY DEF Init, NoPut
<1>2. Fresh
  BY DEF Init, Fresh
<1> QED BY <1>1, <1>2

LEMMA InitClosing == Init => ClosingInv
BY InitTyped, InitNoPut DEF Init, ClosingInv, Closing, ExecutorIdle, PollerOver

(* What the poller stores it stores in the queue of the name.              *)
LEMMA Stores ==
  ASSUME Typed, Store
  PROVE  /\ inHand \in Event /\ inHand.name \in Names /\ dict'[inHand.name] \in 1 .. MaxQueues
         /\ content' = [content EXCEPT ![dict'[inHand.name]] = Append(@, inHand)]
         /\ EnsureQueue(inHand.name)
<1>1. inHand \in Event
  BY DEF Typed, InHandHeld, Store
<1>2. inHand.name \in Names
  BY <1>1 DEF Event
<1>3. dict'[inHand.name] \in 1 .. MaxQueues
  BY <1>2, EnsureType DEF Store, Typed
<1> QED BY <1>1, <1>2, <1>3 DEF Store

LEMMA StoreFresh == ASSUME Typed, Typed', Fresh, Store PROVE Fresh'
<1> DEFINE n == inHand.name
<1>1. /\ n \in Names /\ dict'[n] \in 1 .. MaxQueues /\ EnsureQueue(n)
      /\ content' = [content EXCEPT ![dict'[n]] = Append(@, inHand)]
  BY Stores
<1>2. queues \in Nat /\ queues' \in Nat /\ queues' >= queues
  BY <1>1, EnsureDrains, DispatcherTypes
<1>3. ASSUME NEW m \in Names, dict'[m] # NoQueue PROVE dict'[m] <= queues'
  <2>1. CASE dict'[m] = dict[m]
    <3>1. dict[m] \in 1 .. MaxQueues /\ dict[m] <= queues
      BY <1>3, <2>1, DispatcherTypes DEF Fresh
    <3> QED BY <1>2, <2>1, <3>1
  <2>2. CASE dict'[m] = queues + 1 /\ queues' = queues + 1
    BY <1>2, <2>2
  <2> QED BY <1>1, <1>3, <2>1, <2>2, EnsureDrains
<1>4. ASSUME NEW q \in 1 .. MaxQueues, q > queues' PROVE content'[q] = <<>>
  <2>1. dict'[n] <= queues' /\ dict'[n] \in 1 .. MaxQueues
    BY <1>1, <1>3, BoundsAssumption
  <2>2. q # dict'[n] /\ q > queues
    BY <1>2, <1>4, <2>1
  <2> QED BY <1>1, <2>2, DispatcherTypes DEF Fresh
<1> QED BY <1>3, <1>4 DEF Fresh

LEMMA NextNoPut ==
  ASSUME Typed, Typed', NoPut, Fresh, "wait keep" \notin Ops, Next PROVE NoPut' /\ Fresh'
<1>1. CASE UNCHANGED <<pc, content, dict, queues>>
  BY <1>1 DEF NoPut, Fresh
<1>2. CASE Store
  <2>1. NoPut'
    BY <1>2 DEF Store, client, NoPut
  <2> QED BY <1>2, <2>1, StoreFresh
<1>3. CASE CloseClears
  BY <1>3 DEF CloseClears, ForgetQueues, client, NoPut, Fresh
<1>4. ASSUME NEW t \in Threads, NEW n \in Names,
             (\E o \in Ops : Begin(t, o, n)) \/ HandleEvent(t, n)
      PROVE  NoPut' /\ Fresh'
  <2>1. PICK label \in {"check", "clear", "clear all"} : pc' = [pc EXCEPT ![t] = label]
    BY <1>4 DEF Begin, HandleEvent, Goto
  <2>2. UNCHANGED <<content, dict, queues>>
    BY <1>4 DEF Begin, HandleEvent, dispatcher
  <2>3. \A u \in Threads : pc'[u] = pc[u] \/ pc'[u] = label
    BY <2>1 DEF Typed, TypeOK, ClientType
  <2> QED BY <2>2, <2>3 DEF NoPut, Fresh
<1>5. ASSUME NEW t \in Threads, Step(t) PROVE NoPut' /\ Fresh'
  BY <1>5, StepLeaves, StepDrains, DrainsFresh
<1>6. ASSUME NEW t \in Users, NEW o \in Ops, NEW n \in Names, Begin(t, o, n)
      PROVE  NoPut' /\ Fresh'
  BY <1>4, <1>6 DEF Threads
<1>7. ASSUME NEW t \in Workers, NEW n \in Names, HandleEvent(t, n) PROVE NoPut' /\ Fresh'
  BY <1>4, <1>7 DEF Threads
<1>8. Emit \/ RpcDies \/ Start \/ CloseSession \/ RunHandler \/ PollError \/ Done
      \/ Close \/ Join \/ PollTop \/ PollReceives \/ PollClosesItself \/ Dispatch
      \/ (\E n \in Names : RegisterHandler(n))
      => UNCHANGED <<pc, content, dict, queues>>
  BY DEF Emit, RpcDies, RegisterHandler, Start, CloseSession, RunHandler, PollError,
         PollBreaksOff, PollFails, Done, Close, Join, PollTop, PollReceives,
         PollClosesItself, Dispatch, vars, dispatcher, client
<1> QED BY <1>1, <1>2, <1>3, <1>5, <1>6, <1>7, <1>8 DEF Next, Owner, Poll

LEMMA StepClosing ==
  ASSUME ClosingInv, Typed', "wait keep" \notin Ops, NEW t \in Threads, Step(t)
  PROVE  Closing'
<1> USE DEF ClosingInv
<1>1. UNCHANGED <<started, executor, poll, tasks, rpcAlive, owner>>
  BY StepLeaves DEF poller, phone, control
<1>2. ExecutorIdle => ExecutorIdle'
  BY <1>1, StepLeaves DEF ExecutorIdle, PollerOver, Threads
<1>3. Empty => Empty'
  BY StepDrains, DrainsEmpty
<1> QED BY <1>1, <1>2, <1>3 DEF Closing

LEMMA NextClosing ==
  ASSUME RpcMayFail = FALSE, "wait keep" \notin Ops, ClosingInv, Typed', Next
  PROVE  Closing'
<1> USE DEF ClosingInv
<1>1. CASE UNCHANGED <<started, executor, poll, tasks, rpcAlive, owner, dict, content, pc>>
  BY <1>1 DEF Closing, ExecutorIdle, PollerOver, Empty
<1>2. Emit \/ Done \/ (\E n \in Names : RegisterHandler(n))
      => UNCHANGED <<started, executor, poll, tasks, rpcAlive, owner, dict, content, pc>>
  BY DEF Emit, Done, RegisterHandler, vars, dispatcher, poller, phone, control, client
<1>3. CASE Start
  BY <1>3 DEF Start, phone, Closing, Empty
<1>4. CASE CloseSession
  BY <1>4 DEF CloseSession, dispatcher, poller, client, Closing, ExecutorIdle, PollerOver,
              Empty
<1>5. CASE Close
  <2>1. /\ owner = "close" /\ UNCHANGED <<poll, tasks, rpcAlive, dict, content, pc>>
        /\ \/ started' = FALSE /\ executor' = "shutdown" /\ owner' = "join"
           \/ owner' = "idle" /\ UNCHANGED <<started, executor>>
    BY <1>5 DEF Close, poller, phone, client
  <2>2. (ExecutorIdle => ExecutorIdle') /\ (Empty => Empty')
    BY <2>1 DEF ExecutorIdle, PollerOver, Empty
  <2>3. CASE started' = FALSE /\ executor' = "shutdown" /\ owner' = "join"
    BY <2>1, <2>3 DEF Closing
  <2>4. CASE owner' = "idle" /\ UNCHANGED <<started, executor>>
    BY <2>1, <2>2, <2>4 DEF Closing
  <2> QED BY <2>1, <2>3, <2>4
<1>6. CASE Join
  BY <1>6 DEF Join, dispatcher, poller, phone, client, Closing, ExecutorIdle, PollerOver
<1>7. CASE CloseClears
  BY <1>7 DEF CloseClears, ForgetQueues, poller, phone, client, Closing, ExecutorIdle,
              PollerOver, Empty
<1>8. CASE PollTop \/ PollReceives
  <2>1. ~PollerOver /\ UNCHANGED <<started, executor, rpcAlive, owner>>
    BY <1>8 DEF PollTop, PollReceives, PollerOver, dispatcher, phone, control
  <2> QED BY <2>1 DEF Closing, ExecutorIdle
<1>9. CASE Dispatch \/ Store
  <2>1. ~PollerOver /\ UNCHANGED <<started, executor, rpcAlive, owner>>
    BY <1>9 DEF Dispatch, Store, PollerOver, dispatcher, phone, control
  <2> QED BY <2>1 DEF Closing, ExecutorIdle
<1>10. CASE RunHandler
  <2>1. tasks # {} /\ UNCHANGED <<started, executor, rpcAlive, owner>>
    BY <1>10 DEF RunHandler, dispatcher, phone, control
  <2> QED BY <2>1 DEF Closing, ExecutorIdle
<1>11. ~ (RpcDies \/ PollClosesItself \/ PollError)
  BY DEF RpcDies, PollClosesItself, PollError, PollBreaksOff, PollFails, Closing
<1>12. ASSUME NEW t \in Users, NEW o \in Ops, NEW n \in Names, Begin(t, o, n)
       PROVE  Closing'
  <2>1. \A u \in Workers : pc'[u] = pc[u]
    BY <1>12, ThreadsAssumption DEF Begin, Goto, Typed, TypeOK, ClientType, Threads
  <2>2. UNCHANGED <<started, executor, poll, tasks, rpcAlive, owner, dict, content>>
    BY <1>12 DEF Begin, dispatcher, poller, phone, control
  <2> QED BY <2>1, <2>2 DEF Closing, ExecutorIdle, PollerOver, Empty
<1>13. ASSUME NEW t \in Workers, NEW n \in Names, HandleEvent(t, n) PROVE Closing'
  <2>1. executor = "up" /\ UNCHANGED <<started, executor, rpcAlive, owner>>
    BY <1>13 DEF HandleEvent, dispatcher, phone, control
  <2> QED BY <2>1 DEF Closing
<1>14. ASSUME NEW t \in Threads, Step(t) PROVE Closing'
  BY <1>14, StepClosing
<1> QED BY <1>1, <1>2, <1>3, <1>4, <1>5, <1>6, <1>7, <1>8, <1>9, <1>10, <1>11, <1>12, <1>13,
           <1>14 DEF Next, Owner, Poll

(* Whatever the names, the threads and the bounds: after close() has       *)
(* returned no poller, handler or worker is left and nothing is stored,    *)
(* as long as eventWait does not raise (PollClosesItself shuts the         *)
(* executor down without clearing) and nobody puts events back into a      *)
(* cleared dispatcher (event_dispatcher.py, close and clear_all_events).   *)
THEOREM StaysClosed ==
  ASSUME RpcMayFail = FALSE, "wait keep" \notin Ops PROVE Spec => []CloseIsFinal
<1>1. ClosingInv /\ [Next]_vars => ClosingInv'
  <2> SUFFICES ASSUME ClosingInv, [Next]_vars PROVE ClosingInv'
    OBVIOUS
  <2>1. Typed'
    BY NextTyped DEF ClosingInv
  <2>2. CASE Next
    BY <2>1, <2>2, NextNoPut, NextClosing DEF ClosingInv
  <2>3. CASE UNCHANGED vars
    BY <2>1, <2>3 DEF vars, dispatcher, poller, phone, control, client, ClosingInv, NoPut,
                      Fresh, Closing, ExecutorIdle, PollerOver, Empty
  <2> QED BY <2>2, <2>3
<1>2. ClosingInv => CloseIsFinal
  BY EmptyStored DEF ClosingInv, Closing, CloseIsFinal
<1> QED BY <1>1, <1>2, InitClosing, PTL DEF Spec

-----------------------------------------------------------------------------
(* The oldest first.  Events have their numbers in the order in which they *)
(* are taken, stored, in the poller's hands and still on the phone, and    *)
(* all stored events of one name are in one queue: the one that the        *)
(* dictionary has for it, until the poller is over for good.               *)
Increasing(s) == \A i, j \in DOMAIN s : i < j => s[i].no < s[j].no

Coming ==
  /\ Increasing(feed) /\ \A i \in DOMAIN feed : feed[i].no <= emitted
  /\ poll = "dispatch" =>
       inHand.no <= emitted /\ \A i \in DOMAIN feed : inHand.no < feed[i].no

(* e has come before what the poller has and what is still to come.        *)
Earlier(e) ==
  /\ e.no <= emitted
  /\ poll = "dispatch" => e.no < inHand.no
  /\ \A i \in DOMAIN feed : e.no < feed[i].no

Queued ==
  \A q \in 1 .. MaxQueues :
    Increasing(content[q]) /\ \A i \in DOMAIN content[q] : Earlier(content[q][i])

TakenFirst ==
  \A i \in DOMAIN taken : \A q \in 1 .. MaxQueues : \A j \in DOMAIN content[q] :
    taken[i].name = content[q][j].name => taken[i].no < content[q][j].no
Taken == OldestFirst /\ TakenFirst /\ \A i \in DOMAIN taken : Earlier(taken[i])

SameQueue ==
  \A q, r \in 1 .. MaxQueues : \A i \in DOMAIN content[q], j \in DOMAIN content[r] :
    content[q][i].name = content[r][j].name => q = r

Forgotten ==
  /\ owner # "idle" => starts > 0
  /\ owner = "clear" => PollerOver
Homes ==
  \/ \A q \in 1 .. MaxQueues : \A i \in DOMAIN content[q] : dict[content[q][i].name] = q
  \/ PollerOver /\ starts >= MaxStarts

Ordered == Coming /\ Queued /\ Taken /\ SameQueue /\ Forgotten /\ Homes

OrderInv == Typed /\ NoPut /\ Ordered

LEMMA InitOrdered == Init => OrderInv
<1> SUFFICES ASSUME Init PROVE OrderInv
  OBVIOUS
<1>1. Typed /\ NoPut
  BY InitTyped, InitNoPut
<1>2. /\ DOMAIN feed = {} /\ DOMAIN taken = {}
      /\ \A q \in 1 .. MaxQueues : DOMAIN content[q] = {}
  BY EmptyType DEF Init
<1>3. poll = "none" /\ owner = "idle"
  BY DEF Init
<1>4. Coming /\ Queued /\ Taken /\ SameQueue /\ Homes
  BY <1>2, <1>3 DEF Coming, Increasing, Queued, Taken, OldestFirst, TakenFirst, SameQueue, Homes
<1> QED BY <1>1, <1>3, <1>4 DEF OrderInv, Ordered, Forgotten

LEMMA EventTypes ==
  ASSUME Typed
  PROVE  /\ \A q \in 1 .. MaxQueues : \A i \in DOMAIN content[q] : content[q][i] \in Event
         /\ \A i \in DOMAIN taken : taken[i] \in Event
         /\ \A i \in DOMAIN feed : feed[i] \in Event
         /\ \A e \in Event : e.no \in Nat /\ e.name \in Names
<1>1. \A e \in Event : e.no \in Nat /\ e.name \in Names
  BY BoundsAssumption DEF Event
<1>2. feed \in Seq(Event)
  BY DEF Typed, TypeOK, PhoneType
<1>3. taken \in Seq(Event)
  BY HistoryTypes
<1>4. \A q \in 1 .. MaxQueues : content[q] \in Seq(Event)
  BY DispatcherTypes
<1> QED BY <1>1, <1>2, <1>3, <1>4

(* The owner and the poller.                                               *)
LEMMA EmitOrdered == ASSUME OrderInv, Emit PROVE Ordered'
<1> USE DEF OrderInv, Ordered
<1>1. PICK n \in Names : feed' = Append(feed, [name |-> n, no |-> emitted + 1])
  BY DEF Emit
<1> DEFINE e == [name |-> n, no |-> emitted + 1]
<1>2. /\ emitted' = emitted + 1 /\ emitted \in Nat /\ emitted + 1 \in 1 .. MaxEvents
      /\ UNCHANGED <<dict, content, poll, inHand, taken, owner, starts>>
  BY BoundsAssumption DEF Emit, dispatcher, poller, control, history, Typed, TypeOK, PhoneType
<1>3. e \in Event /\ e.no = emitted + 1 /\ feed \in Seq(Event)
  BY <1>2 DEF Event, Typed, TypeOK, PhoneType
<1>4. /\ Len(feed) \in Nat /\ feed'[Len(feed) + 1] = e
      /\ \A i \in DOMAIN feed : feed'[i] = feed[i]
      /\ \A i \in DOMAIN feed' : i \in DOMAIN feed \/ i = Len(feed) + 1
      /\ DOMAIN feed = 1 .. Len(feed)
  BY <1>1, <1>3, AppendType
<1> HIDE DEF e
<1>5. ASSUME NEW d, d.no \in Nat, Earlier(d) PROVE Earlier(d)'
  BY <1>2, <1>3, <1>4, <1>5 DEF Earlier
<1>6. Coming'
  <2>1. Increasing(feed')
    BY <1>2, <1>3, <1>4, EventTypes DEF Coming, Increasing
  <2>2. \A i \in DOMAIN feed' : feed'[i].no <= emitted'
    BY <1>2, <1>3, <1>4, EventTypes DEF Coming
  <2>3. poll' = "dispatch" =>
          inHand'.no <= emitted' /\ \A i \in DOMAIN feed' : inHand'.no < feed'[i].no
    BY <1>2, <1>3, <1>4, EventTypes DEF Coming, Typed, InHandHeld
  <2> QED BY <2>1, <2>2, <2>3 DEF Coming
<1>7. Queued'
  BY <1>2, <1>5, EventTypes DEF Queued, Increasing
<1>8. Taken'
  BY <1>2, <1>5, EventTypes DEF Taken, OldestFirst, TakenFirst
<1>9. SameQueue' /\ Forgotten' /\ Homes'
  BY <1>2 DEF SameQueue, Forgotten, Homes, PollerOver
<1> QED BY <1>6, <1>7, <1>8, <1>9

LEMMA ReceivesOrdered == ASSUME OrderInv, PollReceives PROVE Ordered'
<1> USE DEF OrderInv, Ordered
<1>1. /\ poll = "wait" /\ UNCHANGED <<dict, content, taken, emitted, owner, starts>>
  BY DEF PollReceives, dispatcher, control, history
<1>2. CASE UNCHANGED <<inHand, feed>> /\ poll' \in {"returned", "top"}
  <2>1. \A e : Earlier(e) => Earlier(e)'
    BY <1>1, <1>2 DEF Earlier
  <2>2. PollerOver => PollerOver'
    BY <1>1 DEF PollerOver
  <2> QED BY <1>1, <1>2, <2>1, <2>2 DEF Coming, Queued, Increasing, Taken, OldestFirst,
                TakenFirst, SameQueue, Forgotten, Homes
<1>3. CASE feed # <<>> /\ inHand' = Head(feed) /\ feed' = Tail(feed) /\ poll' = "dispatch"
  <2>1. feed \in Seq(Event)
    BY DEF Typed, TypeOK, PhoneType
  <2>2. /\ Head(feed) = feed[1] /\ Len(feed) \in Nat \ {0}
        /\ \A i \in DOMAIN feed' : i + 1 \in DOMAIN feed /\ feed'[i] = feed[i + 1]
        /\ DOMAIN feed = 1 .. Len(feed)
    BY <1>3, <2>1, TailType
  <2>3. 1 \in DOMAIN feed /\ inHand' = feed[1]
    BY <1>3, <2>2
  <2>4. \A i \in DOMAIN feed' : i \in Nat /\ 1 < i + 1
    BY <2>2
  <2>5. ASSUME NEW e, Earlier(e) PROVE Earlier(e)'
    BY <1>1, <2>2, <2>3, <2>5 DEF Earlier
  <2>6. Coming'
    <3>1. Increasing(feed')
      BY <2>2, <2>4 DEF Coming, Increasing
    <3>2. \A i \in DOMAIN feed' : feed'[i].no <= emitted'
      BY <1>1, <2>2 DEF Coming
    <3>3. inHand'.no <= emitted' /\ \A i \in DOMAIN feed' : inHand'.no < feed'[i].no
      BY <1>1, <2>2, <2>3, <2>4 DEF Coming, Increasing
    <3> QED BY <3>1, <3>2, <3>3 DEF Coming
  <2>7. ~PollerOver
    BY <1>1 DEF PollerOver
  <2> QED BY <1>1, <2>5, <2>6, <2>7 DEF Queued, Increasing, Taken, OldestFirst, TakenFirst,
                SameQueue, Forgotten, Homes
<1> QED BY <1>2, <1>3 DEF PollReceives

(* What changes neither the events nor the dictionary, and lets no event   *)
(* into the poller's hands.                                                *)
LEMMA AsideOrdered ==
  ASSUME OrderInv, UNCHANGED <<dict, content, taken, emitted, feed, inHand>>,
         poll' = "dispatch" => poll = "dispatch",
         PollerOver /\ starts >= MaxStarts => PollerOver' /\ starts' >= MaxStarts,
         Forgotten'
  PROVE  Ordered'
<1>1. \A e : Earlier(e) => Earlier(e)'
  BY DEF Earlier
<1> QED BY <1>1 DEF OrderInv, Ordered, Coming, Queued, Increasing, Taken, OldestFirst,
                    TakenFirst, SameQueue, Homes

LEMMA DispatchOrdered == ASSUME OrderInv, Dispatch PROVE Ordered'
<1>1. /\ poll = "dispatch" /\ poll' \in {"top", "failed"}
      /\ UNCHANGED <<dict, content, taken, emitted, feed, owner, starts>>
  BY DEF Dispatch, dispatcher, phone, control
<1>2. \A e : Earlier(e) => Earlier(e)'
  BY <1>1 DEF Earlier
<1>3. ~PollerOver
  BY <1>1 DEF PollerOver
<1> QED BY <1>1, <1>2, <1>3 DEF OrderInv, Ordered, Coming, Queued, Increasing, Taken,
             OldestFirst, TakenFirst, SameQueue, Homes, Forgotten

LEMMA StoreOrdered == ASSUME OrderInv, Store PROVE Ordered'
<1> USE DEF OrderInv, Ordered
<1> DEFINE n == inHand.name
           h == dict'[n]
<1>1. /\ inHand \in Event /\ n \in Names /\ h \in 1 .. MaxQueues /\ EnsureQueue(n)
      /\ content' = [content EXCEPT ![h] = Append(@, inHand)]
  BY Stores
<1>2. /\ poll = "dispatch" /\ poll' = "top"
      /\ UNCHANGED <<taken, emitted, feed, owner, starts>>
  BY DEF Store, phone, control, history
<1>3. ~PollerOver
  BY <1>2 DEF PollerOver
<1>4. \A q \in 1 .. MaxQueues : \A i \in DOMAIN content[q] : dict[content[q][i].name] = q
  BY <1>3 DEF Homes
<1>5. \A m \in Names : dict[m] # NoQueue \/ m # n => dict'[m] = dict[m]
  BY <1>1, EnsureType DEF Typed
<1>6. content \in [1 .. MaxQueues -> Seq(Event)]
  BY DispatcherTypes
<1>7. /\ content'[h] = Append(content[h], inHand)
      /\ \A q \in 1 .. MaxQueues : q # h => content'[q] = content[q]
  BY <1>1, <1>6
<1>8. content[h] \in Seq(Event)
  BY <1>1, <1>6
<1>9. /\ Len(content[h]) \in Nat /\ content'[h][Len(content[h]) + 1] = inHand
      /\ \A i \in DOMAIN content[h] : i \in DOMAIN content'[h] /\ content'[h][i] = content[h][i]
      /\ \A i \in DOMAIN content'[h] : i \in DOMAIN content[h] \/ i = Len(content[h]) + 1
      /\ DOMAIN content[h] = 1 .. Len(content[h])
  BY <1>1, <1>7, <1>8, AppendType
<1>10. \A q \in 1 .. MaxQueues : \A i \in DOMAIN content'[q] :
         \/ i \in DOMAIN content[q] /\ content'[q][i] = content[q][i]
         \/ q = h /\ i = Len(content[h]) + 1 /\ content'[q][i] = inHand
  BY <1>7, <1>9
<1>11. \A q \in 1 .. MaxQueues : \A i \in DOMAIN content[q] :
         content[q][i] \in Event /\ content[q][i].name \in Names /\ content[q][i].no \in Nat
         /\ content[q][i].no < inHand.no /\ Earlier(content[q][i])
         /\ i \in Nat /\ (q = h => i < Len(content[h]) + 1)
  <2>1. \A q \in 1 .. MaxQueues : \A i \in DOMAIN content[q] : i \in Nat
    BY <1>6
  <2>2. \A i \in DOMAIN content[h] : i < Len(content[h]) + 1
    BY <1>9
  <2> QED BY <1>2, <2>1, <2>2, EventTypes DEF Queued, Earlier
<1>12. \A e : Earlier(e) => Earlier(e)'
  BY <1>2 DEF Earlier
<1>13. \A e : e = inHand => Earlier(e)'
  BY <1>2 DEF Coming, Earlier
<1>14. Coming'
  BY <1>2 DEF Coming, Increasing
<1>15. Queued'
  <2> SUFFICES ASSUME NEW q \in 1 .. MaxQueues
               PROVE  /\ Increasing(content'[q])
                      /\ \A i \in DOMAIN content'[q] : \A e : e = content'[q][i] => Earlier(e)'
    BY DEF Queued, Increasing, Earlier
  <2>1. \A i \in DOMAIN content'[q] : \A e : e = content'[q][i] => Earlier(e)'
    BY <1>2, <1>10, <1>11, <1>12, <1>13
  <2>2. Increasing(content'[q])
    <3> SUFFICES ASSUME NEW i \in DOMAIN content'[q], NEW j \in DOMAIN content'[q], i < j
                 PROVE  content'[q][i].no < content'[q][j].no
      BY DEF Increasing
    <3>1. CASE j \in DOMAIN content[q] /\ i \in DOMAIN content[q]
      <4>1. content'[q][i] = content[q][i] /\ content'[q][j] = content[q][j]
        BY <1>7, <1>9, <3>1
      <4>2. Increasing(content[q])
        BY DEF Queued
      <4> QED BY <3>1, <4>1, <4>2 DEF Increasing
    <3>2. CASE q = h /\ j = Len(content[h]) + 1
      BY <1>9, <1>10, <1>11, <3>2
    <3>3. i = Len(content[h]) + 1 /\ q = h => j \notin DOMAIN content[q]
      BY <1>9
    <3> QED BY <1>9, <1>10, <3>1, <3>2, <3>3
  <2> QED BY <2>1, <2>2
<1>16. Taken'
  <2>1. TakenFirst'
    <3> SUFFICES ASSUME NEW i \in DOMAIN taken, NEW q \in 1 .. MaxQueues,
                        NEW j \in DOMAIN content'[q], taken[i].name = content'[q][j].name
                 PROVE  taken[i].no < content'[q][j].no
      BY <1>2 DEF TakenFirst
    <3>1. taken[i].no < inHand.no
      BY <1>2 DEF Taken, Earlier
    <3> QED BY <1>10, <3>1 DEF Taken, TakenFirst
  <2> QED BY <1>2, <1>12, <2>1 DEF Taken, OldestFirst
<1>17. \A q \in 1 .. MaxQueues : \A i \in DOMAIN content'[q] : dict'[content'[q][i].name] = q
  <2> SUFFICES ASSUME NEW q \in 1 .. MaxQueues, NEW i \in DOMAIN content'[q]
               PROVE  dict'[content'[q][i].name] = q
    OBVIOUS
  <2>1. CASE i \in DOMAIN content[q] /\ content'[q][i] = content[q][i]
    BY <1>4, <1>5, <1>11, <2>1, BoundsAssumption
  <2> QED BY <1>10, <2>1
<1>18. SameQueue' /\ Homes' /\ Forgotten'
  BY <1>2, <1>3, <1>17 DEF SameQueue, Homes, Forgotten
<1> QED BY <1>14, <1>15, <1>16, <1>18

(* What the steps of the users and workers do with the events: some heads  *)
(* of queues are taken, in the order of their numbers, and besides that    *)
(* queues lose their head or everything.                                   *)
Shorter(q) ==
  \/ content'[q] \in {content[q], <<>>}
  \/ content[q] # <<>> /\ content'[q] = Tail(content[q])
TakenFrom(e, q) == content[q] # <<>> /\ e = Head(content[q]) /\ content'[q] = Tail(content[q])
Takes(sorted) ==
  /\ taken' = taken \o sorted /\ Increasing(sorted)
  /\ \A i \in DOMAIN sorted : \E q \in 1 .. MaxQueues : TakenFrom(sorted[i], q)
  /\ \A q \in 1 .. MaxQueues : Shorter(q)

LEMMA TakesNothing ==
  ASSUME Typed, UNCHANGED taken, \A q \in 1 .. MaxQueues : Shorter(q)
  PROVE  \E sorted \in Seq(Event) : Takes(sorted)
<1>1. <<>> \in Seq(Event) /\ DOMAIN <<>> = {}
  BY EmptyType
<1>2. taken \o <<>> = taken
  BY HistoryTypes, ConcatEmptySeq
<1>3. Takes(<<>>)
  BY <1>1, <1>2 DEF Takes, Increasing
<1> QED BY <1>1, <1>3

LEMMA TakesOne ==
  ASSUME Typed, NEW q \in 1 .. MaxQueues, content[q] # <<>>,
         content' = [content EXCEPT ![q] = Tail(@)],
         taken' \in {taken, Append(taken, Head(content[q]))}
  PROVE  \E sorted \in Seq(Event) : Takes(sorted)
<1>1. /\ content'[q] = Tail(content[q]) /\ \A r \in 1 .. MaxQueues : Shorter(r)
  BY DispatcherTypes DEF Shorter
<1>2. CASE taken' = taken
  BY <1>1, <1>2, TakesNothing
<1>3. CASE taken' = Append(taken, Head(content[q]))
  <2>1. Head(content[q]) \in Event
    BY TakeType
  <2> DEFINE sorted == <<Head(content[q])>>
  <2>2. sorted \in Seq(Event) /\ DOMAIN sorted = {1} /\ sorted[1] = Head(content[q])
    BY <2>1
  <2>3. taken' = taken \o sorted
    BY <1>3, <2>1, HistoryTypes, AppendIsConcat
  <2> HIDE DEF sorted
  <2>4. Takes(sorted)
    BY <1>1, <2>2, <2>3 DEF Takes, Increasing, TakenFrom
  <2> QED BY <2>2, <2>4
<1> QED BY <1>2, <1>3

LEMMA StepTakes ==
  ASSUME Typed, NEW t \in Threads, Step(t), ~GetAndKeep(t), ~Put(t)
  PROVE  \E sorted \in Seq(Event) : Takes(sorted)
<1>2. content \in [1 .. MaxQueues -> Seq(Event)]
  BY DispatcherTypes
<1>3. CASE UNCHANGED <<content, taken>>
  BY <1>3, TakesNothing DEF Shorter
<1>4. CASE CheckStarted(t) \/ GetEventQ(t) \/ ReadQueue(t) \/ GetTimesOut(t)
           \/ WaitGetsNothing(t) \/ PutBack(t) \/ ReadQueueToPut(t) \/ PopAllLocks(t)
           \/ ClearAllEvents(t)
  BY <1>3, <1>4 DEF CheckStarted, GetEventQ, ReadQueue, GetTimesOut, WaitGetsNothing, PutBack,
              ReadQueueToPut, PopAllLocks, ClearAllEvents, dispatcher, history
<1>5. CASE Get(t) \/ GetAndTest(t)
  <2>1. /\ queue[t] \in 1 .. MaxQueues /\ content[queue[t]] # <<>>
        /\ content' = [content EXCEPT ![queue[t]] = Tail(@)]
        /\ taken' \in {taken, Append(taken, Head(content[queue[t]]))}
    BY <1>5, QueueType DEF Get, GetAndTest
  <2> QED BY <2>1, TakesOne
<1>6. CASE PopAllTakes(t)
  <2>1. CASE dict[name[t]] = NoQueue \/ content[dict[name[t]]] = <<>>
    BY <1>3, <1>6, <2>1 DEF PopAllTakes
  <2>2. CASE dict[name[t]] # NoQueue /\ content[dict[name[t]]] # <<>>
    <3>1. dict[name[t]] \in 1 .. MaxQueues
      BY <1>6, <2>2, ClientTypes, DispatcherTypes DEF PopAllTakes
    <3>2. /\ content' = [content EXCEPT ![dict[name[t]]] = Tail(@)]
          /\ taken' = Append(taken, Head(content[dict[name[t]]]))
      BY <1>6, <2>2 DEF PopAllTakes
    <3> QED BY <2>2, <3>1, <3>2, TakesOne
  <2> QED BY <2>1, <2>2
<1>7. CASE MatchAndPop(t)
  <2>1. PICK sorted \in Seq(Event) :
           /\ taken' = taken \o sorted
           /\ \A i \in DOMAIN sorted : \E n \in Ready : sorted[i] = Head(content[dict[n]])
           /\ \A i, j \in DOMAIN sorted : i < j => sorted[i].no < sorted[j].no
    BY <1>7, Matched
  <2>2. \A q \in 1 .. MaxQueues : Shorter(q)
    BY <1>7, MatchedContent, ReadyType DEF Shorter
  <2>3. \A n \in Ready : content'[dict[n]] = Tail(content[dict[n]])
    BY <1>7, MatchedContent, ReadyType
  <2>4. \A i \in DOMAIN sorted : \E q \in 1 .. MaxQueues : TakenFrom(sorted[i], q)
    BY <2>1, <2>3, ReadyType DEF TakenFrom
  <2> QED BY <2>1, <2>2, <2>4 DEF Takes, Increasing
<1>8. CASE ClearEvents(t)
  <2>1. /\ UNCHANGED taken /\ content' = [content EXCEPT ![dict'[name[t]]] = <<>>]
    BY <1>8 DEF ClearEvents
  <2> QED BY <1>2, <2>1, TakesNothing DEF Shorter
<1> QED BY <1>4, <1>5, <1>6, <1>7, <1>8 DEF Step

(* What is left in a queue was there, d places further back.               *)
LEMMA ShorterShifts ==
  ASSUME Typed, NEW q \in 1 .. MaxQueues, Shorter(q)
  PROVE  \E d \in {0, 1} :
           \A j \in DOMAIN content'[q] :
             j \in Nat /\ j + d \in DOMAIN content[q] /\ content'[q][j] = content[q][j + d]
<1>1. content[q] \in Seq(Event)
  BY DispatcherTypes
<1>2. CASE content'[q] = content[q]
  <2>1. \A j \in DOMAIN content[q] : j \in Nat /\ j + 0 = j
    BY <1>1
  <2>2. \A j \in DOMAIN content'[q] :
          j \in Nat /\ j + 0 \in DOMAIN content[q] /\ content'[q][j] = content[q][j + 0]
    BY <1>2, <2>1
  <2> QED BY <2>2
<1>3. CASE content'[q] = <<>>
  BY <1>3, EmptyType
<1>4. CASE content[q] # <<>> /\ content'[q] = Tail(content[q])
  <2>1. \A j \in DOMAIN content'[q] : j \in Nat
    BY <1>1, <1>4
  <2>2. \A j \in DOMAIN content'[q] :
          j + 1 \in DOMAIN content[q] /\ content'[q][j] = content[q][j + 1]
    BY <1>1, <1>4, TailType
  <2> QED BY <2>1, <2>2
<1> QED BY <1>2, <1>3, <1>4 DEF Shorter

LEMMA TakenFromType ==
  ASSUME Typed, NEW q \in 1 .. MaxQueues, NEW e, TakenFrom(e, q)
  PROVE  /\ 1 \in DOMAIN content[q] /\ e = content[q][1]
         /\ \A j \in DOMAIN content'[q] :
              j + 1 \in DOMAIN content[q] /\ 1 < j + 1 /\ content'[q][j] = content[q][j + 1]
<1>1. content[q] \in Seq(Event) /\ content[q] # <<>>
  BY DispatcherTypes DEF TakenFrom
<1>2. /\ content[q][1] = Head(content[q]) /\ Len(content[q]) \in Nat \ {0}
      /\ \A j \in DOMAIN Tail(content[q]) :
           j + 1 \in DOMAIN content[q] /\ Tail(content[q])[j] = content[q][j + 1]
  BY <1>1, TailType
<1>3. \A j \in DOMAIN Tail(content[q]) : j \in Nat /\ 1 < j + 1
  BY <1>1
<1>4. 1 \in DOMAIN content[q]
  BY <1>1, <1>2
<1> QED BY <1>2, <1>3, <1>4 DEF TakenFrom

LEMMA StepOrdered ==
  ASSUME OrderInv, NEW sorted \in Seq(Event), Takes(sorted),
         UNCHANGED <<poller, phone, control>>,
         \A n \in Names : dict[n] # NoQueue => dict'[n] = dict[n]
  PROVE  Ordered'
<1> USE DEF OrderInv, Ordered
<1>1. UNCHANGED <<poll, inHand, feed, emitted, owner, starts>>
  BY DEF poller, phone, control
<1>2. \A e : Earlier(e) <=> Earlier(e)'
  BY <1>1 DEF Earlier
<1>3. \A q \in 1 .. MaxQueues : \E d \in {0, 1} :
        \A j \in DOMAIN content'[q] :
          j \in Nat /\ j + d \in DOMAIN content[q] /\ content'[q][j] = content[q][j + d]
  BY ShorterShifts DEF Takes
<1>4. \A q \in 1 .. MaxQueues : \A j \in DOMAIN content'[q] : \E k \in DOMAIN content[q] :
        content'[q][j] = content[q][k]
  BY <1>3
<1>5. Queued'
  <2> SUFFICES ASSUME NEW q \in 1 .. MaxQueues
               PROVE  /\ Increasing(content'[q])
                      /\ \A i \in DOMAIN content'[q] : \A e : e = content'[q][i] => Earlier(e)'
    BY DEF Queued, Increasing, Earlier
  <2>1. \A i \in DOMAIN content'[q] : \A e : e = content'[q][i] => Earlier(e)'
    BY <1>2, <1>4 DEF Queued
  <2>2. PICK d \in {0, 1} :
          \A j \in DOMAIN content'[q] :
            j \in Nat /\ j + d \in DOMAIN content[q] /\ content'[q][j] = content[q][j + d]
    BY <1>3
  <2>3. \A i, j \in DOMAIN content'[q] : i < j => i + d < j + d
    BY <2>2
  <2>4. Increasing(content'[q])
    BY <2>2, <2>3 DEF Queued, Increasing
  <2> QED BY <2>1, <2>4
<1>6. SameQueue'
  <2> SUFFICES ASSUME NEW q \in 1 .. MaxQueues, NEW r \in 1 .. MaxQueues,
                      NEW i \in DOMAIN content'[q], NEW j \in DOMAIN content'[r],
                      content'[q][i].name = content'[r][j].name
               PROVE  q = r
    BY DEF SameQueue
  <2>1. PICK k \in DOMAIN content[q] : content'[q][i] = content[q][k]
    BY <1>4
  <2>2. PICK l \in DOMAIN content[r] : content'[r][j] = content[r][l]
    BY <1>4
  <2> QED BY <2>1, <2>2 DEF SameQueue
<1>7. Homes'
  <2>1. CASE \A q \in 1 .. MaxQueues : \A i \in DOMAIN content[q] : dict[content[q][i].name] = q
    <3>1. ASSUME NEW q \in 1 .. MaxQueues, NEW i \in DOMAIN content'[q]
          PROVE  dict'[content'[q][i].name] = q
      <4>1. PICK k \in DOMAIN content[q] : content'[q][i] = content[q][k]
        BY <1>4
      <4>2. content[q][k].name \in Names /\ dict[content[q][k].name] = q /\ q # NoQueue
        BY <2>1, EventTypes, BoundsAssumption
      <4> QED BY <4>1, <4>2
    <3> QED BY <3>1 DEF Homes
  <2>2. CASE PollerOver /\ starts >= MaxStarts
    BY <1>1, <2>2 DEF Homes, PollerOver
  <2> QED BY <2>1, <2>2 DEF Homes
<1>8. /\ taken' \in Seq(Event) /\ taken \in Seq(Event) /\ Len(taken) \in Nat
      /\ \A i \in DOMAIN taken' :
           \/ i \in DOMAIN taken /\ taken'[i] = taken[i]
           \/ /\ i - Len(taken) \in DOMAIN sorted /\ taken'[i] = sorted[i - Len(taken)]
              /\ ~ (i <= Len(taken))
  <2>1. taken \in Seq(Event)
    BY HistoryTypes
  <2>2. taken' = taken \o sorted
    BY DEF Takes
  <2>3. /\ taken' \in Seq(Event) /\ Len(taken') = Len(taken) + Len(sorted)
        /\ \A i \in 1 .. Len(taken) + Len(sorted) :
             taken'[i] = IF i <= Len(taken) THEN taken[i] ELSE sorted[i - Len(taken)]
    BY <2>1, <2>2, ConcatProperties
  <2>4. /\ DOMAIN taken = 1 .. Len(taken) /\ DOMAIN sorted = 1 .. Len(sorted)
        /\ DOMAIN taken' = 1 .. Len(taken) + Len(sorted)
        /\ Len(taken) \in Nat /\ Len(sorted) \in Nat
    BY <2>1, <2>3, LenProperties
  <2> QED BY <2>1, <2>3, <2>4
<1>9. \A i \in DOMAIN taken' :
        \/ i \in DOMAIN taken /\ taken'[i] = taken[i]
        \/ \E q \in 1 .. MaxQueues : TakenFrom(taken'[i], q)
  BY <1>8 DEF Takes
<1>10. OldestFirst'
  <2> SUFFICES ASSUME NEW i \in DOMAIN taken', NEW j \in DOMAIN taken', i < j,
                      taken'[i].name = taken'[j].name
               PROVE  taken'[i].no < taken'[j].no
    BY DEF OldestFirst
  <2>1. i \in Nat /\ j \in Nat
    BY <1>8
  <2>2. CASE j \in DOMAIN taken /\ taken'[j] = taken[j]
    <3>1. j <= Len(taken)
      BY <1>8, <2>2
    <3>2. i \in DOMAIN taken /\ taken'[i] = taken[i]
      BY <1>8, <2>1, <3>1
    <3> QED BY <2>2, <3>2 DEF Taken, OldestFirst
  <2>3. CASE j - Len(taken) \in DOMAIN sorted /\ taken'[j] = sorted[j - Len(taken)]
    <3>1. CASE i \in DOMAIN taken /\ taken'[i] = taken[i]
      <4>1. PICK q \in 1 .. MaxQueues : TakenFrom(taken'[j], q)
        BY <2>3 DEF Takes
      <4>2. 1 \in DOMAIN content[q] /\ taken'[j] = content[q][1]
        BY <4>1, TakenFromType
      <4> QED BY <3>1, <4>2 DEF Taken, TakenFirst
    <3>2. CASE i - Len(taken) \in DOMAIN sorted /\ taken'[i] = sorted[i - Len(taken)]
      <4>1. i - Len(taken) < j - Len(taken)
        BY <1>8, <2>1
      <4> QED BY <2>3, <3>2, <4>1 DEF Takes, Increasing
    <3> QED BY <1>8, <3>1, <3>2
  <2> QED BY <1>8, <2>2, <2>3
<1>11. TakenFirst'
  <2> SUFFICES ASSUME NEW i \in DOMAIN taken', NEW q \in 1 .. MaxQueues,
                      NEW j \in DOMAIN content'[q], taken'[i].name = content'[q][j].name
               PROVE  taken'[i].no < content'[q][j].no
    BY DEF TakenFirst
  <2>1. PICK k \in DOMAIN content[q] : content'[q][j] = content[q][k]
    BY <1>4
  <2>2. CASE i \in DOMAIN taken /\ taken'[i] = taken[i]
    BY <2>1, <2>2 DEF Taken, TakenFirst
  <2>3. ASSUME NEW r \in 1 .. MaxQueues, TakenFrom(taken'[i], r)
        PROVE  taken'[i].no < content'[q][j].no
    <3>1. 1 \in DOMAIN content[r] /\ taken'[i] = content[r][1]
      BY <2>3, TakenFromType
    <3>2. r = q
      BY <2>1, <3>1 DEF SameQueue
    <3>3. j + 1 \in DOMAIN content[q] /\ 1 < j + 1 /\ content'[q][j] = content[q][j + 1]
      BY <2>3, <3>2, TakenFromType
    <3> QED BY <3>1, <3>2, <3>3 DEF Queued, Increasing
  <2> QED BY <1>9, <2>2, <2>3
<1>12. ASSUME NEW i \in DOMAIN taken', NEW e, e = taken'[i] PROVE Earlier(e)'
  <2>1. CASE i \in DOMAIN taken /\ taken'[i] = taken[i]
    BY <1>2, <1>12, <2>1 DEF Taken
  <2>2. ASSUME NEW q \in 1 .. MaxQueues, TakenFrom(taken'[i], q) PROVE Earlier(e)'
    BY <1>2, <1>12, <2>2, TakenFromType DEF Queued
  <2> QED BY <1>9, <2>1, <2>2
<1>13. Taken'
  BY <1>10, <1>11, <1>12 DEF Taken, Earlier
<1>14. Coming' /\ Forgotten'
  BY <1>1 DEF Coming, Increasing, Forgotten, PollerOver
<1> QED BY <1>5, <1>6, <1>7, <1>13, <1>14

LEMMA StepKeepsDict ==
  ASSUME Typed, NoPut, "wait keep" \notin Ops, "clear all" \notin Ops,
         NEW t \in Threads, Step(t), pc[t] # "clear all"
  PROVE  \A n \in Names : dict[n] # NoQueue => dict'[n] = dict[n]
<1>1. UNCHANGED dict \/ (EnsureQueue(name[t]) /\ pc[t] # "idle")
  BY DEF Step, CheckStarted, GetEventQ, ReadQueue, Get, GetTimesOut, GetAndTest, GetAndKeep,
         WaitGetsNothing, PutBack, ReadQueueToPut, Put, PopAllLocks, PopAllTakes,
         MatchAndPop, ClearEvents, ClearAllEvents, dispatcher
<1>2. CASE EnsureQueue(name[t]) /\ pc[t] # "idle"
  BY <1>2, ClientTypes, EnsureType DEF Typed
<1> QED BY <1>1, <1>2

(* Without clear_all_events nobody is on his way to it.                    *)
NobodyClears == \A t \in Threads : pc[t] # "clear all"

LEMMA NextNobodyClears ==
  ASSUME Typed, NobodyClears, "clear all" \notin Ops, Next PROVE NobodyClears'
<1> USE DEF NobodyClears
<1>1. CASE UNCHANGED pc
  BY <1>1
<1>2. ASSUME NEW t \in Threads, NEW label, pc' = [pc EXCEPT ![t] = label],
             label # "clear all"
      PROVE  NobodyClears'
  <2>1. \A u \in Threads : pc'[u] = pc[u] \/ pc'[u] = label
    BY <1>2 DEF Typed, TypeOK, ClientType
  <2> QED BY <1>2, <2>1
<1>3. ASSUME NEW t \in Threads, NEW o \in Ops, NEW n \in Names,
             Begin(t, o, n) \/ HandleEvent(t, n)
      PROVE  NobodyClears'
  <2>1. PICK label \in {"check", "clear"} : pc' = [pc EXCEPT ![t] = label]
    BY <1>3 DEF Begin, HandleEvent, Goto
  <2> QED BY <1>2, <2>1
<1>4. ASSUME NEW t \in Threads, NEW n \in Names, HandleEvent(t, n) PROVE NobodyClears'
  <2>1. pc' = [pc EXCEPT ![t] = "check"]
    BY <1>4 DEF HandleEvent, Goto
  <2> QED BY <1>2, <2>1
<1>5. ASSUME NEW t \in Threads, Step(t) PROVE NobodyClears'
  <2>1. CASE ClearEvents(t)
    <3>1. PICK victims \in SUBSET Threads :
            pc' = [u \in Threads |-> IF u \in {t} \union victims THEN "idle" ELSE pc[u]]
      BY <2>1, Victims
    <3> QED BY <3>1
  <2>2. \/ ClearEvents(t) \/ UNCHANGED pc
        \/ \E label \in Labels : pc' = [pc EXCEPT ![t] = label] /\ label # "clear all"
    <3>1. CASE CheckStarted(t)
      <4>1. op[t] # "clear all" 
        BY DEF Typed, TypeOK, ClientType
      <4> QED BY <3>1 DEF CheckStarted, Raise, EndOp, Goto, Labels
    <3>2. CASE GetEventQ(t) \/ PopAllLocks(t) \/ PutBack(t) \/ ReadQueueToPut(t) \/ Put(t)
      BY <3>2 DEF GetEventQ, PopAllLocks, PutBack, ReadQueueToPut, Put, Raise, EndOp, Goto,
                  Labels
    <3>3. CASE ReadQueue(t) \/ Get(t) \/ GetTimesOut(t) \/ MatchAndPop(t) \/ ClearAllEvents(t)
      BY <3>3 DEF ReadQueue, Get, GetTimesOut, MatchAndPop, ClearAllEvents, Raise, EndOp,
                  Goto, Labels
    <3>4. CASE GetAndTest(t) \/ GetAndKeep(t) \/ WaitGetsNothing(t) \/ PopAllTakes(t)
      BY <3>4 DEF GetAndTest, GetAndKeep, WaitGetsNothing, PopAllTakes, EndOp, Goto, Labels
    <3> QED BY <1>5, <3>1, <3>2, <3>3, <3>4 DEF Step
  <2> QED BY <1>1, <1>2, <2>1, <2>2
<1>6. ASSUME NEW t \in Users, NEW o \in Ops, NEW n \in Names, Begin(t, o, n)
      PROVE  NobodyClears'
  BY <1>3, <1>6 DEF Threads
<1>7. ASSUME NEW t \in Workers, NEW n \in Names, HandleEvent(t, n) PROVE NobodyClears'
  BY <1>4, <1>7 DEF Threads
<1>8. Emit \/ RpcDies \/ Start \/ CloseSession \/ RunHandler \/ PollError \/ Done \/ Owner
      \/ Poll \/ (\E n \in Names : RegisterHandler(n))
      => UNCHANGED pc
  BY DEF Emit, RpcDies, RegisterHandler, Start, CloseSession, RunHandler, PollError,
         PollBreaksOff, PollFails, Done, Owner, Close, Join, CloseClears, Poll, PollTop,
         PollReceives, PollClosesItself, Dispatch, Store, vars, client
<1> QED BY <1>1, <1>5, <1>6, <1>7, <1>8 DEF Next

LEMMA CountUpTo ==
  ASSUME NEW m \in Nat, NEW k \in 0 .. m
  PROVE  k \in Nat /\ (k < m => ~ (k >= m)) /\ (m <= 1 /\ k > 0 => k >= m)
OBVIOUS

LEMMA NextOrdered ==
  ASSUME "wait keep" \notin Ops, "clear all" \notin Ops, MaxStarts <= 1,
         OrderInv, NobodyClears, Next
  PROVE  Ordered'
<1> USE DEF OrderInv
<1>1. MaxStarts \in Nat /\ starts \in 0 .. MaxStarts
  BY BoundsAssumption DEF Typed, TypeOK, PhoneType
<1>2. CASE Emit
  BY <1>2, EmitOrdered
<1>3. CASE RpcDies \/ Done \/ \E n \in Names : RegisterHandler(n)
  <2>1. UNCHANGED <<dict, content, taken, emitted, feed, inHand, poll, starts, owner>>
    BY <1>3 DEF RpcDies, Done, RegisterHandler, vars, dispatcher, poller, phone, control,
                history
  <2> QED BY <2>1, AsideOrdered DEF Ordered, Forgotten, PollerOver
<1>4. CASE Start
  <2>1. /\ UNCHANGED <<dict, content, taken, emitted, feed, inHand, owner>>
        /\ poll' = "top" /\ starts < MaxStarts /\ owner = "idle"
    BY <1>4 DEF Start, phone, history
  <2>2. ~ (starts >= MaxStarts)
    BY <1>1, <2>1, CountUpTo
  <2> QED BY <2>1, <2>2, AsideOrdered DEF Forgotten
<1>5. CASE CloseSession \/ Close
  <2>1. /\ UNCHANGED <<dict, content, taken, emitted, feed, inHand, poll, starts>>
        /\ owner' # "clear" /\ (owner' # "idle" => starts > 0)
    BY <1>5 DEF CloseSession, Close, dispatcher, poller, phone, history, Ordered, Forgotten
  <2> QED BY <2>1, AsideOrdered DEF Forgotten, PollerOver
<1>6. CASE Join
  <2>1. /\ UNCHANGED <<dict, content, taken, emitted, feed, inHand, poll, starts>>
        /\ PollerOver /\ starts > 0
    BY <1>6 DEF Join, ExecutorIdle, dispatcher, poller, phone, history, Ordered, Forgotten
  <2> QED BY <2>1, AsideOrdered DEF Forgotten, PollerOver
<1>7. CASE CloseClears
  <2>1. /\ UNCHANGED <<content, taken, emitted, feed, inHand, poll, starts>>
        /\ owner' = "idle" /\ PollerOver /\ starts > 0
    BY <1>7 DEF CloseClears, poller, phone, Ordered, Forgotten
  <2>3. starts >= MaxStarts
    BY <1>1, <2>1, CountUpTo
  <2>2. \A e : Earlier(e) => Earlier(e)'
    BY <2>1 DEF Earlier
  <2> QED BY <2>1, <2>2, <2>3 DEF Ordered, Coming, Queued, Increasing, Taken, OldestFirst,
                TakenFirst, SameQueue, Forgotten, Homes, PollerOver
<1>8. CASE PollTop \/ PollError \/ PollClosesItself
  <2>1. /\ UNCHANGED <<dict, content, taken, emitted, feed, inHand, starts, owner>>
        /\ poll \in {"top", "wait"} /\ poll' # "dispatch"
    BY <1>8 DEF PollTop, PollError, PollBreaksOff, PollFails, PollClosesItself, dispatcher,
                phone, control, history
  <2> QED BY <2>1, AsideOrdered DEF Ordered, Forgotten, PollerOver
<1>9. CASE PollReceives
  BY <1>9, ReceivesOrdered
<1>10. CASE Dispatch
  BY <1>10, DispatchOrdered
<1>11. CASE Store
  BY <1>11, StoreOrdered
<1>12. CASE RunHandler
  <2>1. UNCHANGED <<dict, content, taken, emitted, feed, inHand, poll, starts, owner>>
    BY <1>12 DEF RunHandler, dispatcher, phone, control
  <2> QED BY <2>1, AsideOrdered DEF Ordered, Forgotten, PollerOver
<1>13. ASSUME NEW t \in Threads, NEW n \in Names,
              (\E o \in Ops : Begin(t, o, n)) \/ HandleEvent(t, n)
       PROVE  Ordered'
  <2>1. UNCHANGED <<dict, content, taken, emitted, feed, inHand, poll, starts, owner>>
    BY <1>13 DEF Begin, HandleEvent, dispatcher, poller, phone, control, history
  <2> QED BY <2>1, AsideOrdered DEF Ordered, Forgotten, PollerOver
<1>14. ASSUME NEW t \in Users, NEW o \in Ops, NEW n \in Names, Begin(t, o, n) PROVE Ordered'
  BY <1>13, <1>14 DEF Threads
<1>15. ASSUME NEW t \in Workers, NEW n \in Names, HandleEvent(t, n) PROVE Ordered'
  BY <1>13, <1>15 DEF Threads
<1>16. ASSUME NEW t \in Threads, Step(t) PROVE Ordered'
  <2>0. ~GetAndKeep(t) /\ ~Put(t)
    BY DEF GetAndKeep, Put, Typed, TypeOK, ClientType, NoPut
  <2>1. PICK sorted \in Seq(Event) : Takes(sorted)
    BY <1>16, <2>0, StepTakes
  <2>2. \A n \in Names : dict[n] # NoQueue => dict'[n] = dict[n]
    BY <1>16, StepKeepsDict DEF NobodyClears
  <2>3. UNCHANGED <<poller, phone, control>>
    BY <1>16, StepLeaves
  <2> QED BY <2>1, <2>2, <2>3, StepOrdered
<1> QED BY <1>2, <1>3, <1>4, <1>5, <1>6, <1>7, <1>8, <1>9, <1>10, <1>11, <1>12, <1>14, <1>15,
           <1>16 DEF Next, Owner, Poll

(* Whatever the names, the threads and the bounds: the events of one name  *)
(* leave the queues in the order in which the phone emitted them, however  *)
(* many threads take them, and none twice ("Return and remove the oldest   *)
(* entry", event_dispatcher.py, pop_event), as long as no wait_for_event   *)
(* puts events back behind newer ones, and nobody who already waits on a   *)
(* queue finds it replaced while events still come: by clear_all_events or *)
(* by a second start().                                                    *)
THEOREM TakenInOrder ==
  ASSUME "wait keep" \notin Ops, "clear all" \notin Ops, MaxStarts <= 1
  PROVE  Spec => []OldestFirst
<1> DEFINE Inv == OrderInv /\ Fresh /\ NobodyClears
<1>1. Init => Inv
  BY InitOrdered, InitNoPut DEF Init, NobodyClears
<1>2. Inv /\ [Next]_vars => Inv'
  <2> SUFFICES ASSUME Inv, [Next]_vars PROVE Inv'
    OBVIOUS
  <2>1. Typed'
    BY NextTyped DEF OrderInv
  <2>2. CASE Next
    BY <2>1, <2>2, NextNoPut, NextNobodyClears, NextOrdered DEF OrderInv
  <2>3. CASE UNCHANGED vars
    <3>1. UNCHANGED <<dict, content, queues, taken, emitted, feed, inHand, poll, starts, owner,
                      pc>>
      BY <2>3 DEF vars, dispatcher, poller, phone, control, client, history
    <3>2. Ordered'
      BY <3>1, AsideOrdered DEF OrderInv, Ordered, Forgotten, PollerOver
    <3> QED BY <2>1, <3>1, <3>2 DEF OrderInv, NoPut, Fresh, NobodyClears
  <2> QED BY <2>2, <2>3
<1>3. Inv => OldestFirst
  BY DEF OrderInv, Ordered, Taken
<1> QED BY <1>1, <1>2, <1>3, PTL DEF Spec

-----------------------------------------------------------------------------
(* Every event is kept, and in one place.  The sequences that hold events  *)
(* are lines in boxes: each Queue, each caller's ignored_events and what   *)
(* has been taken.                                                         *)
TakenBox == <<"taken", 0>>
Boxes == ({"queue"} \X (1 .. MaxQueues)) \union ({"ignored"} \X Threads) \union {TakenBox}
Lines == [b \in Boxes |-> IF b[1] = "queue" THEN content[b[2]]
                          ELSE IF b[1] = "ignored" THEN ignored[b[2]] ELSE taken]

Apart(B, L) ==
  \A b, c \in B : \A i \in DOMAIN L[b], j \in DOMAIN L[c] :
    L[b][i].no = L[c][j].no => b = c /\ i = j
In(B, L, k) == \E b \in B : \E i \in DOMAIN L[b] : L[b][i].no = k

(* No two of the lines, the handlers and the poller have the same number.  *)
Single ==
  /\ Apart(Boxes, Lines)
  /\ \A e \in tasks \union handled : ~In(Boxes, Lines, e.no)
  /\ inHand # NoEvent => /\ ~In(Boxes, Lines, inHand.no)
                         /\ \A e \in tasks \union handled : e.no # inHand.no

(* What is anywhere was emitted, and before all that is still to come.     *)
Behind(k) == k <= emitted /\ \A i \in DOMAIN feed : k < feed[i].no
Placed ==
  /\ Increasing(feed) /\ \A i \in DOMAIN feed : feed[i].no <= emitted
  /\ \A k \in Nat : In(Boxes, Lines, k) => Behind(k)
  /\ \A e \in tasks \union handled : Behind(e.no)
  /\ inHand # NoEvent => Behind(inHand.no)

(* Only wait_for_event that keeps has set events aside.                    *)
KeepLabels == {"check", "get_event_q", "read queue", "get", "put back", "read to put", "put"}
Keeps == \A t \in Threads : ignored[t] # <<>> => op[t] = "wait keep" /\ pc[t] \in KeepLabels

(* The poller holds an event only on its way to dispatch it, and a         *)
(* dispatcher that is not started has no poller, unless close awaits it.   *)
PollerHolds ==
  /\ inHand # NoEvent => poll = "dispatch"
  /\ ~started /\ owner # "join" => PollerOver

(* All the places an event may be in, or have gone to on purpose.          *)
All == ToSet(feed) \union InHands \union tasks \union handled \union Stored \union ToSet(taken)
         \union discarded
AllKept == \A k \in 1 .. emitted : \E e \in All : e.no = k

KeptInv == Typed /\ Keeps /\ PollerHolds /\ Placed /\ Single /\ AllKept

ShorterThan(m, s) == m = s \/ m = <<>> \/ (s # <<>> /\ m = Tail(s))

LEMMA ShiftOf ==
  ASSUME NEW S, NEW s \in Seq(S), NEW m, ShorterThan(m, s)
  PROVE  /\ m \in Seq(S)
         /\ \E d \in {0, 1} : \A j \in DOMAIN m :
              j \in Nat /\ j + d \in DOMAIN s /\ m[j] = s[j + d]
<1>1. CASE m = s
  <2>1. \A j \in DOMAIN s : j \in Nat /\ j + 0 = j
    OBVIOUS
  <2> QED BY <1>1, <2>1
<1>2. CASE m = <<>>
  BY <1>2, EmptyType
<1>3. CASE s # <<>> /\ m = Tail(s)
  <2>1. m \in Seq(S) /\ \A j \in DOMAIN m : j + 1 \in DOMAIN s /\ m[j] = s[j + 1]
    BY <1>3, TailType
  <2>2. \A j \in DOMAIN m : j \in Nat
    BY <2>1
  <2> QED BY <2>1, <2>2
<1> QED BY <1>1, <1>2, <1>3 DEF ShorterThan

LEMMA HeadOf ==
  ASSUME NEW S, NEW s \in Seq(S), s # <<>>
  PROVE  1 \in DOMAIN s /\ s[1] = Head(s) /\ Head(s) \in S
OBVIOUS

(* Lines that lose their head or everything stay apart, and what they have *)
(* lost is in none of them.                                                *)
LEMMA LessApart ==
  ASSUME NEW B, NEW S, NEW L \in [B -> Seq(S)], NEW M \in [B -> Seq(S)], Apart(B, L),
         \A b \in B : ShorterThan(M[b], L[b])
  PROVE  /\ Apart(B, M)
         /\ \A k : In(B, M, k) => In(B, L, k)
         /\ \A b \in B : L[b] # <<>> /\ M[b] = Tail(L[b]) => ~In(B, M, Head(L[b]).no)
<1>1. \A b \in B : \E d \in {0, 1} : \A j \in DOMAIN M[b] :
        j \in Nat /\ j + d \in DOMAIN L[b] /\ M[b][j] = L[b][j + d]
  BY ShiftOf
<1>2. Apart(B, M)
  <2> SUFFICES ASSUME NEW b \in B, NEW c \in B, NEW i \in DOMAIN M[b], NEW j \in DOMAIN M[c],
                      M[b][i].no = M[c][j].no
               PROVE  b = c /\ i = j
    BY DEF Apart
  <2>1. PICK d \in {0, 1} : \A n \in DOMAIN M[b] :
          n \in Nat /\ n + d \in DOMAIN L[b] /\ M[b][n] = L[b][n + d]
    BY <1>1
  <2>2. PICK x \in {0, 1} : \A n \in DOMAIN M[c] :
          n \in Nat /\ n + x \in DOMAIN L[c] /\ M[c][n] = L[c][n + x]
    BY <1>1
  <2>3. b = c /\ i + d = j + x
    BY <2>1, <2>2 DEF Apart
  <2>4. j \in DOMAIN M[b] /\ M[b][i].no = M[b][j].no
    BY <2>3
  <2>5. /\ i + d \in DOMAIN L[b] /\ j + d \in DOMAIN L[b]
        /\ L[b][i + d].no = L[b][j + d].no /\ i \in Nat /\ j \in Nat
    BY <2>1, <2>4
  <2>6. i + d = j + d
    BY <2>5 DEF Apart
  <2> QED BY <2>3, <2>5, <2>6
<1>3. ASSUME NEW k, In(B, M, k) PROVE In(B, L, k)
  <2>0. PICK b \in B : \E j \in DOMAIN M[b] : M[b][j].no = k
    BY <1>3 DEF In
  <2>1. PICK j \in DOMAIN M[b] : M[b][j].no = k
    BY <2>0
  <2>2. PICK d \in {0, 1} : j + d \in DOMAIN L[b] /\ M[b][j] = L[b][j + d]
    BY <1>1
  <2> QED BY <2>1, <2>2 DEF In
<1>4. ASSUME NEW b \in B, L[b] # <<>>, M[b] = Tail(L[b]), In(B, M, Head(L[b]).no) PROVE FALSE
  <2>0. PICK c \in B : \E j \in DOMAIN M[c] : M[c][j].no = Head(L[b]).no
    BY <1>4 DEF In
  <2>1. PICK j \in DOMAIN M[c] : M[c][j].no = Head(L[b]).no
    BY <2>0
  <2>2. 1 \in DOMAIN L[b] /\ L[b][1] = Head(L[b])
    BY <1>4, HeadOf
  <2>3. PICK d \in {0, 1} : j \in Nat /\ j + d \in DOMAIN L[c] /\ M[c][j] = L[c][j + d]
    BY <1>1
  <2>4. c = b
    BY <2>1, <2>2, <2>3 DEF Apart
  <2>5. /\ Tail(L[b]) \in Seq(S)
        /\ \A n \in DOMAIN Tail(L[b]) : n + 1 \in DOMAIN L[b] /\ Tail(L[b])[n] = L[b][n + 1]
    BY <1>4, TailType
  <2>6. j \in DOMAIN Tail(L[b]) /\ j >= 1
    BY <1>4, <2>4, <2>5
  <2>7. j + 1 = 1
    BY <1>4, <2>1, <2>2, <2>4, <2>5, <2>6 DEF Apart
  <2> QED BY <2>3, <2>6, <2>7
<1> QED BY <1>2, <1>3, <1>4

LEMMA ConcatType ==
  ASSUME NEW S, NEW x \in Seq(S), NEW y \in Seq(S)
  PROVE  /\ x \o y \in Seq(S) /\ Len(x) \in Nat
         /\ \A j \in DOMAIN (x \o y) :
              \/ j \in DOMAIN x /\ (x \o y)[j] = x[j]
              \/ j \in Nat /\ j > Len(x) /\ j - Len(x) \in DOMAIN y /\ (x \o y)[j] = y[j - Len(x)]
         /\ \A i \in DOMAIN x : i \in DOMAIN (x \o y) /\ (x \o y)[i] = x[i]
         /\ \A i \in DOMAIN y : Len(x) + i \in DOMAIN (x \o y) /\ (x \o y)[Len(x) + i] = y[i]
<1>1. /\ x \o y \in Seq(S) /\ Len(x) \in Nat /\ Len(y) \in Nat
      /\ Len(x \o y) = Len(x) + Len(y)
      /\ DOMAIN x = 1 .. Len(x) /\ DOMAIN y = 1 .. Len(y) /\ DOMAIN (x \o y) = 1 .. Len(x \o y)
      /\ \A j \in 1 .. Len(x) + Len(y) :
           (x \o y)[j] = IF j <= Len(x) THEN x[j] ELSE y[j - Len(x)]
  OBVIOUS
<1>2. ASSUME NEW i \in DOMAIN y
      PROVE  Len(x) + i \in DOMAIN (x \o y) /\ (x \o y)[Len(x) + i] = y[i]
  <2>1. Len(x) + i \in 1 .. Len(x) + Len(y) /\ ~(Len(x) + i <= Len(x)) /\ (Len(x) + i) - Len(x) = i
    BY <1>1
  <2> QED BY <1>1, <2>1
<1>3. ASSUME NEW j \in DOMAIN (x \o y)
      PROVE  \/ j \in DOMAIN x /\ (x \o y)[j] = x[j]
             \/ j \in Nat /\ j > Len(x) /\ j - Len(x) \in DOMAIN y /\ (x \o y)[j] = y[j - Len(x)]
  <2>1. j \in 1 .. Len(x) + Len(y)
    BY <1>1
  <2>2. CASE j <= Len(x)
    BY <1>1, <2>1, <2>2
  <2>3. CASE ~(j <= Len(x))
    <3>1. j \in Nat /\ j > Len(x) /\ j - Len(x) \in 1 .. Len(y)
      BY <1>1, <2>1, <2>3
    <3> QED BY <1>1, <2>1, <2>3, <3>1
  <2> QED BY <2>2, <2>3
<1> QED BY <1>1, <1>2, <1>3

(* Lines to one of which others are added stay apart.                      *)
Adds(B, M, c, s, N) == N[c] = M[c] \o s /\ \A b \in B \ {c} : N[b] = M[b]
Foreign(B, M, s) == \A i \in DOMAIN s : ~In(B, M, s[i].no) /\ s[i].no \in Nat
Within(B, M, s, N) == \A k : In(B, N, k) => In(B, M, k) \/ \E i \in DOMAIN s : s[i].no = k

LEMMA MoreApart ==
  ASSUME NEW B, NEW S, NEW M \in [B -> Seq(S)], NEW c \in B, NEW s \in Seq(S), Apart(B, M),
         Increasing(s), Foreign(B, M, s), NEW N, Adds(B, M, c, s, N)
  PROVE  Apart(B, N) /\ Within(B, M, s, N)
<1> USE DEF Foreign
<1>2. /\ Len(M[c]) \in Nat
      /\ \A j \in DOMAIN (M[c] \o s) :
              \/ j \in DOMAIN M[c] /\ (M[c] \o s)[j] = M[c][j]
              \/ j \in Nat /\ j > Len(M[c]) /\ j - Len(M[c]) \in DOMAIN s
                 /\ (M[c] \o s)[j] = s[j - Len(M[c])]
  BY ConcatType
<1>3. ASSUME NEW b \in B, NEW j \in DOMAIN N[b]
      PROVE  \/ j \in DOMAIN M[b] /\ N[b][j] = M[b][j]
             \/ /\ b = c /\ j \in Nat /\ j > Len(M[c]) /\ j - Len(M[c]) \in DOMAIN s
                /\ N[b][j] = s[j - Len(M[c])]
  BY <1>2 DEF Adds
<1>4. \A i, j \in DOMAIN s : s[i].no = s[j].no => i = j
  <2> SUFFICES ASSUME NEW i \in DOMAIN s, NEW j \in DOMAIN s, s[i].no = s[j].no PROVE i = j
    OBVIOUS
  <2>1. i \in Nat /\ j \in Nat
    OBVIOUS
  <2>2. ~(i < j) /\ ~(j < i)
    <3>1. s[i].no \in Nat /\ ~(s[i].no < s[j].no) /\ ~(s[j].no < s[i].no)
      OBVIOUS
    <3> QED BY <3>1 DEF Increasing
  <2> QED BY <2>1, <2>2
<1>5. Apart(B, N)
  <2> SUFFICES ASSUME NEW a \in B, NEW b \in B, NEW i \in DOMAIN N[a], NEW j \in DOMAIN N[b],
                      N[a][i].no = N[b][j].no
               PROVE  a = b /\ i = j
    BY DEF Apart
  <2>1. CASE i \in DOMAIN M[a] /\ N[a][i] = M[a][i] /\ j \in DOMAIN M[b] /\ N[b][j] = M[b][j]
    BY <2>1 DEF Apart
  <2>2. CASE /\ i \in DOMAIN M[a] /\ N[a][i] = M[a][i]
             /\ j - Len(M[c]) \in DOMAIN s /\ N[b][j] = s[j - Len(M[c])]
    BY <2>2 DEF In
  <2>3. CASE /\ j \in DOMAIN M[b] /\ N[b][j] = M[b][j]
             /\ i - Len(M[c]) \in DOMAIN s /\ N[a][i] = s[i - Len(M[c])]
    BY <2>3 DEF In
  <2>4. CASE /\ a = c /\ b = c /\ i \in Nat /\ j \in Nat
             /\ i - Len(M[c]) \in DOMAIN s /\ N[a][i] = s[i - Len(M[c])]
             /\ j - Len(M[c]) \in DOMAIN s /\ N[b][j] = s[j - Len(M[c])]
    <3>1. i - Len(M[c]) = j - Len(M[c])
      BY <1>4, <2>4
    <3> QED BY <1>2, <2>4, <3>1
  <2> QED BY <1>3, <2>1, <2>2, <2>3, <2>4
<1>6. ASSUME NEW k, In(B, N, k) PROVE In(B, M, k) \/ \E i \in DOMAIN s : s[i].no = k
  <2>0. PICK b \in B : \E j \in DOMAIN N[b] : N[b][j].no = k
    BY <1>6 DEF In
  <2>1. PICK j \in DOMAIN N[b] : N[b][j].no = k
    BY <2>0
  <2> QED BY <1>3, <2>1 DEF In
<1> QED BY <1>5, <1>6 DEF Within

LinesTyped ==
  /\ Lines \in [Boxes -> Seq(Event)]
  /\ \A q \in 1 .. MaxQueues : <<"queue", q>> \in Boxes /\ Lines[<<"queue", q>>] = content[q]
  /\ \A t \in Threads : <<"ignored", t>> \in Boxes /\ Lines[<<"ignored", t>>] = ignored[t]
  /\ TakenBox \in Boxes /\ Lines[TakenBox] = taken

LEMMA LineTypes == Typed => LinesTyped
<1> SUFFICES ASSUME Typed PROVE LinesTyped
  OBVIOUS
<1>1. /\ content \in [1 .. MaxQueues -> Seq(Event)] /\ taken \in Seq(Event)
      /\ ignored \in [Threads -> Seq(Event)]
  BY DispatcherTypes, HistoryTypes DEF Typed, TypeOK, ClientType
<1>2. \A q \in 1 .. MaxQueues : <<"queue", q>> \in Boxes /\ Lines[<<"queue", q>>] = content[q]
  BY DEF Boxes, Lines
<1>3. \A t \in Threads : <<"ignored", t>> \in Boxes /\ Lines[<<"ignored", t>>] = ignored[t]
  BY DEF Boxes, Lines
<1>4. TakenBox \in Boxes /\ Lines[TakenBox] = taken
  BY DEF Boxes, Lines, TakenBox
<1>5. ASSUME NEW b \in Boxes PROVE Lines[b] \in Seq(Event)
  <2>1. CASE b \in {"queue"} \X (1 .. MaxQueues)
    BY <1>1, <2>1 DEF Lines
  <2>2. CASE b \in {"ignored"} \X Threads
    BY <1>1, <2>2 DEF Lines
  <2>3. CASE b = TakenBox
    BY <1>1, <1>4, <2>3
  <2> QED BY <2>1, <2>2, <2>3 DEF Boxes
<1>6. Lines \in [Boxes -> Seq(Event)]
  BY <1>5 DEF Lines
<1> QED BY <1>2, <1>3, <1>4, <1>6 DEF LinesTyped

LEMMA LineTypesNext == Typed' => LinesTyped'
BY LineTypes, PTL

LEMMA BoxKinds ==
  ASSUME NEW b \in Boxes
  PROVE  \/ \E q \in 1 .. MaxQueues : b = <<"queue", q>>
         \/ \E t \in Threads : b = <<"ignored", t>>
         \/ b = TakenBox
BY DEF Boxes

LEMMA BoxesDiffer ==
  ASSUME NEW q, NEW t
  PROVE  <<"queue", q>> # <<"ignored", t>> /\ <<"queue", q>> # TakenBox /\ <<"ignored", t>> # TakenBox
BY DEF TakenBox

(* A step moves the heads of some lines to the end of one, and shortens    *)
(* others.                                                                 *)
Moves(s) ==
  \E c \in Boxes :
    /\ Lines'[c] = Lines[c] \o s /\ Increasing(s)
    /\ \A b \in Boxes \ {c} : ShorterThan(Lines'[b], Lines[b])
    /\ \A i \in DOMAIN s : \E b \in Boxes \ {c} :
         Lines[b] # <<>> /\ Lines'[b] = Tail(Lines[b]) /\ s[i] = Head(Lines[b])

Elsewhere == UNCHANGED <<tasks, handled, inHand, feed, emitted>>

LEMMA NoNumbers ==
  ASSUME Typed, NEW k, In(Boxes, Lines, k) PROVE k \in Nat
<1>1. PICK b \in Boxes : \E i \in DOMAIN Lines[b] : Lines[b][i].no = k
  BY DEF In
<1>2. PICK i \in DOMAIN Lines[b] : Lines[b][i].no = k
  BY <1>1
<1>3. Lines[b][i] \in Event
  BY LineTypes DEF LinesTyped
<1> QED BY <1>2, <1>3, EventTypes

LEMMA MovesSingle ==
  ASSUME Typed, Typed', Single, Placed, NEW s \in Seq(Event), Moves(s), Elsewhere
  PROVE  Single' /\ Placed'
<1>1. PICK c \in Boxes :
        /\ Lines'[c] = Lines[c] \o s /\ Increasing(s)
        /\ \A b \in Boxes \ {c} : ShorterThan(Lines'[b], Lines[b])
        /\ \A i \in DOMAIN s : \E b \in Boxes \ {c} :
             Lines[b] # <<>> /\ Lines'[b] = Tail(Lines[b]) /\ s[i] = Head(Lines[b])
  BY DEF Moves
<1>2. Lines \in [Boxes -> Seq(Event)] /\ Lines' \in [Boxes -> Seq(Event)] /\ Boxes' = Boxes
  BY LineTypes, LineTypesNext DEF LinesTyped, Boxes
<1> DEFINE M == [Lines' EXCEPT ![c] = Lines[c]]
<1>3. /\ M \in [Boxes -> Seq(Event)] /\ M[c] = Lines[c] /\ \A b \in Boxes \ {c} : M[b] = Lines'[b]
  BY <1>2
<1>4. \A b \in Boxes : ShorterThan(M[b], Lines[b])
  BY <1>1, <1>3 DEF ShorterThan
<1> HIDE DEF M
<1>6. /\ Apart(Boxes, M) /\ \A k : In(Boxes, M, k) => In(Boxes, Lines, k)
      /\ \A b \in Boxes : Lines[b] # <<>> /\ M[b] = Tail(Lines[b]) => ~In(Boxes, M, Head(Lines[b]).no)
  BY <1>2, <1>3, <1>4, LessApart DEF Single
<1>7. \A i \in DOMAIN s : /\ ~In(Boxes, M, s[i].no) /\ s[i].no \in Nat
                          /\ In(Boxes, Lines, s[i].no)
  <2> TAKE i \in DOMAIN s
  <2>1. PICK b \in Boxes \ {c} :
          Lines[b] # <<>> /\ Lines'[b] = Tail(Lines[b]) /\ s[i] = Head(Lines[b])
    BY <1>1
  <2>2. ~In(Boxes, M, s[i].no)
    BY <1>3, <1>6, <2>1
  <2>3. 1 \in DOMAIN Lines[b] /\ Lines[b][1] = s[i]
    BY <1>2, <2>1, HeadOf
  <2>4. In(Boxes, Lines, s[i].no)
    BY <2>3 DEF In
  <2> QED BY <2>2, <2>4, NoNumbers
<1>8. /\ Apart(Boxes, Lines')
      /\ \A k : In(Boxes, Lines', k) => In(Boxes, M, k) \/ \E i \in DOMAIN s : s[i].no = k
  <2>1. /\ M \in [Boxes -> Seq(Event)] /\ Apart(Boxes, M) /\ Increasing(s)
        /\ Foreign(Boxes, M, s) /\ Adds(Boxes, M, c, s, Lines')
    BY <1>1, <1>3, <1>6, <1>7 DEF Adds, Foreign
  <2>2. Apart(Boxes, Lines') /\ Within(Boxes, M, s, Lines')
    BY <2>1, MoreApart
  <2> QED BY <2>2 DEF Within
<1>9. \A k : In(Boxes, Lines', k) => In(Boxes, Lines, k)
  BY <1>6, <1>7, <1>8
<1>10. Boxes' = Boxes
  BY DEF Boxes
<1>11. Single'
  BY <1>8, <1>9, <1>10 DEF Single, Elsewhere
<1>12. Placed'
  BY <1>9, <1>10 DEF Placed, Elsewhere, Behind
<1> QED BY <1>11, <1>12

(* What a step does to the queues, the ignored_events and what was taken   *)
(* is a move of lines.                                                     *)
LEMMA ShorterQueue ==
  ASSUME NEW q \in 1 .. MaxQueues, Shorter(q) PROVE ShorterThan(content'[q], content[q])
BY DEF Shorter, ShorterThan

LEMMA MovesToTaken ==
  ASSUME Typed, Typed', NEW s \in Seq(Event), Takes(s),
         \A t \in Threads : ShorterThan(ignored'[t], ignored[t])
  PROVE  Moves(s)
<1>1. LinesTyped /\ LinesTyped' /\ Boxes' = Boxes
  BY LineTypes, LineTypesNext DEF Boxes
<1>2. TakenBox \in Boxes /\ Lines'[TakenBox] = Lines[TakenBox] \o s /\ Increasing(s)
  BY <1>1 DEF LinesTyped, Takes, TakenBox
<1>3. ASSUME NEW b \in Boxes \ {TakenBox} PROVE ShorterThan(Lines'[b], Lines[b])
  <2>1. CASE \E q \in 1 .. MaxQueues : b = <<"queue", q>>
    BY <1>1, <2>1, ShorterQueue DEF LinesTyped, Takes
  <2>2. CASE \E t \in Threads : b = <<"ignored", t>>
    BY <1>1, <2>2 DEF LinesTyped
  <2> QED BY <2>1, <2>2, BoxKinds
<1>4. ASSUME NEW i \in DOMAIN s
      PROVE  \E b \in Boxes \ {TakenBox} :
               Lines[b] # <<>> /\ Lines'[b] = Tail(Lines[b]) /\ s[i] = Head(Lines[b])
  <2>1. PICK q \in 1 .. MaxQueues : TakenFrom(s[i], q)
    BY DEF Takes
  <2>2. <<"queue", q>> \in Boxes \ {TakenBox}
    BY <1>1, BoxesDiffer DEF LinesTyped
  <2> QED BY <1>1, <2>1, <2>2 DEF LinesTyped, TakenFrom
<1> QED BY <1>2, <1>3, <1>4 DEF Moves

(* One event is moved from the head of one line to the end of another.     *)
LEMMA MovesOne ==
  ASSUME NEW b \in Boxes, NEW c \in Boxes, b # c, NEW e \in Event,
         Lines[b] # <<>>, Lines'[b] = Tail(Lines[b]), e = Head(Lines[b]),
         Lines'[c] = Lines[c] \o <<e>>,
         \A d \in Boxes \ {b, c} : Lines'[d] = Lines[d]
  PROVE  <<e>> \in Seq(Event) /\ Moves(<<e>>)
<1>1. <<e>> \in Seq(Event) /\ DOMAIN <<e>> = {1} /\ <<e>>[1] = e
  OBVIOUS
<1> DEFINE s == <<e>>
<1> HIDE DEF s
<1>2. s \in Seq(Event) /\ DOMAIN s = {1} /\ s[1] = e /\ s = <<e>>
  BY <1>1 DEF s
<1>3. Increasing(s) /\ \A d \in Boxes \ {c} : ShorterThan(Lines'[d], Lines[d])
  BY <1>2 DEF Increasing, ShorterThan
<1>4. Moves(s)
  BY <1>2, <1>3 DEF Moves
<1> QED BY <1>2, <1>4

LEMMA MovesToIgnored ==
  ASSUME Typed, Typed', NEW t \in Threads, GetAndKeep(t)
  PROVE  \E s \in Seq(Event) : Moves(s)
<1>1. LinesTyped /\ LinesTyped' /\ Boxes' = Boxes
  BY LineTypes, LineTypesNext DEF Boxes
<1> DEFINE q == queue[t]
           e == Head(content[q])
<1>2. /\ q \in 1 .. MaxQueues /\ content[q] # <<>> /\ content' = [content EXCEPT ![q] = Tail(@)]
      /\ ignored' = [ignored EXCEPT ![t] = Append(@, e)] /\ UNCHANGED taken
  BY QueueType DEF GetAndKeep, history
<1>3. e \in Event
  BY <1>2, TakeType
<1>4. /\ content'[q] = Tail(content[q]) /\ \A r \in 1 .. MaxQueues \ {q} : content'[r] = content[r]
      /\ ignored'[t] = Append(ignored[t], e)
      /\ \A u \in Threads \ {t} : ignored'[u] = ignored[u]
  BY <1>2, ClientTypes, DispatcherTypes
<1>5. Append(ignored[t], e) = ignored[t] \o <<e>>
  BY <1>3, ClientTypes, AppendIsConcat
<1> HIDE DEF q, e
<1> DEFINE b == <<"queue", q>>
           c == <<"ignored", t>>
<1>6. b \in Boxes /\ c \in Boxes /\ b # c
  BY <1>1, <1>2, BoxesDiffer DEF LinesTyped
<1>7. /\ Lines[b] # <<>> /\ Lines'[b] = Tail(Lines[b]) /\ e = Head(Lines[b])
      /\ Lines'[c] = Lines[c] \o <<e>>
  BY <1>1, <1>2, <1>4, <1>5 DEF LinesTyped, e
<1>8. ASSUME NEW d \in Boxes \ {b, c} PROVE Lines'[d] = Lines[d]
  <2>1. ASSUME NEW r \in 1 .. MaxQueues, d = <<"queue", r>> PROVE Lines'[d] = Lines[d]
    <3>1. r # q
      BY <2>1
    <3> QED BY <1>1, <1>4, <2>1, <3>1 DEF LinesTyped
  <2>2. ASSUME NEW u \in Threads, d = <<"ignored", u>> PROVE Lines'[d] = Lines[d]
    <3>1. u # t
      BY <2>2
    <3> QED BY <1>1, <1>4, <2>2, <3>1 DEF LinesTyped
  <2>3. CASE d = TakenBox
    BY <1>1, <1>2, <2>3 DEF LinesTyped, TakenBox
  <2> QED BY <2>1, <2>2, <2>3, BoxKinds
<1> HIDE DEF b, c
<1> QED BY <1>3, <1>6, <1>7, <1>8, MovesOne

LEMMA MovesBack ==
  ASSUME Typed, Typed', NEW t \in Threads, Put(t)
  PROVE  \E s \in Seq(Event) : Moves(s)
<1>1. LinesTyped /\ LinesTyped' /\ Boxes' = Boxes
  BY LineTypes, LineTypesNext DEF Boxes
<1> DEFINE q == queue[t]
           e == Head(ignored[t])
<1>2. /\ q \in 1 .. MaxQueues /\ ignored[t] # <<>> /\ ignored[t] \in Seq(Event)
      /\ content' = [content EXCEPT ![q] = Append(@, e)]
      /\ ignored' = [ignored EXCEPT ![t] = Tail(@)] /\ UNCHANGED taken
  BY QueueType, ClientTypes DEF Put, Typed, Ignoring
<1>3. e \in Event
  BY <1>2, TailType
<1>4. /\ content'[q] = Append(content[q], e)
      /\ \A r \in 1 .. MaxQueues \ {q} : content'[r] = content[r]
      /\ ignored'[t] = Tail(ignored[t])
      /\ \A u \in Threads \ {t} : ignored'[u] = ignored[u]
  BY <1>2, ClientTypes, DispatcherTypes
<1>5. Append(content[q], e) = content[q] \o <<e>>
  BY <1>2, <1>3, DispatcherTypes, AppendIsConcat
<1> HIDE DEF q, e
<1> DEFINE c == <<"queue", q>>
           b == <<"ignored", t>>
<1>6. b \in Boxes /\ c \in Boxes /\ b # c
  BY <1>1, <1>2, BoxesDiffer DEF LinesTyped
<1>7. /\ Lines[b] # <<>> /\ Lines'[b] = Tail(Lines[b]) /\ e = Head(Lines[b])
      /\ Lines'[c] = Lines[c] \o <<e>>
  BY <1>1, <1>2, <1>4, <1>5 DEF LinesTyped, e
<1>8. ASSUME NEW d \in Boxes \ {b, c} PROVE Lines'[d] = Lines[d]
  <2>1. ASSUME NEW r \in 1 .. MaxQueues, d = <<"queue", r>> PROVE Lines'[d] = Lines[d]
    <3>1. r # q
      BY <2>1
    <3> QED BY <1>1, <1>4, <2>1, <3>1 DEF LinesTyped
  <2>2. ASSUME NEW u \in Threads, d = <<"ignored", u>> PROVE Lines'[d] = Lines[d]
    <3>1. u # t
      BY <2>2
    <3> QED BY <1>1, <1>4, <2>2, <3>1 DEF LinesTyped
  <2>3. CASE d = TakenBox
    BY <1>1, <1>2, <2>3 DEF LinesTyped, TakenBox
  <2> QED BY <2>1, <2>2, <2>3, BoxKinds
<1> HIDE DEF b, c
<1> QED BY <1>3, <1>6, <1>7, <1>8, MovesOne

LEMMA StepShortens ==
  ASSUME Typed, NEW t \in Threads, Step(t), ~GetAndKeep(t), ~Put(t)
  PROVE  \A u \in Threads : ShorterThan(ignored'[u], ignored[u])
<1>1. ignored \in [Threads -> Seq(Event)]
  BY ClientTypes
<1>2. CASE ClearEvents(t)
  <2>1. PICK victims \in SUBSET Threads :
          ignored' = [u \in Threads |-> IF u \in {t} \union victims THEN <<>> ELSE ignored[u]]
    BY <1>2, Victims
  <2> QED BY <2>1 DEF ShorterThan
<1>3. CASE UNCHANGED ignored
  BY <1>3 DEF ShorterThan
<1>4. CASE EndOp(t)
  BY <1>1, <1>4 DEF EndOp, ShorterThan
<1>5. UNCHANGED ignored \/ EndOp(t) \/ ClearEvents(t)
  BY DEF Step, CheckStarted, GetEventQ, ReadQueue, Get, GetTimesOut, GetAndTest,
         WaitGetsNothing, PutBack, ReadQueueToPut, PopAllLocks, PopAllTakes,
         MatchAndPop, ClearAllEvents, Raise
<1> QED BY <1>2, <1>3, <1>4, <1>5

(* No step of a user or a worker puts an event into two places.            *)
LEMMA StepSingle ==
  ASSUME Typed, Single, Placed, NEW t \in Threads, Step(t) PROVE Single' /\ Placed'
<1>1. Typed' /\ Elsewhere
  BY StepTyped, StepElsewhere DEF Elsewhere, poller, phone
<1>2. \E s \in Seq(Event) : Moves(s)
  <2>1. CASE GetAndKeep(t)
    BY <1>1, <2>1, MovesToIgnored
  <2>2. CASE Put(t)
    BY <1>1, <2>2, MovesBack
  <2>3. CASE ~GetAndKeep(t) /\ ~Put(t)
    BY <1>1, <2>3, StepTakes, StepShortens, MovesToTaken
  <2> QED BY <2>1, <2>2, <2>3
<1> QED BY <1>1, <1>2, MovesSingle

(* No step of a user or a worker drops an event.                           *)
Kept(S) == S \subseteq All

AllParts ==
  /\ \A u \in Threads : Kept(ToSet(ignored[u]))
  /\ \A n \in Names : dict[n] # NoQueue => Kept(ToSet(content[dict[n]]))
  /\ Kept(ToSet(taken)) /\ Kept(discarded)

LEMMA PartsKept == AllParts
<1>1. ASSUME NEW u \in Threads PROVE Kept(ToSet(ignored[u]))
  BY DEF Kept, All, InHands
<1>2. ASSUME NEW n \in Names, dict[n] # NoQueue PROVE Kept(ToSet(content[dict[n]]))
  BY <1>2 DEF Kept, All, Stored
<1>3. Kept(ToSet(taken)) /\ Kept(discarded)
  BY DEF Kept, All
<1> QED BY <1>1, <1>2, <1>3 DEF AllParts

LEMMA PartsKeptNext == AllParts'
BY PartsKept, PTL

InHandsAre ==
  \A e : e \in InHands <=>
            e \in {inHand} \ {NoEvent} \/ \E u \in Threads : e \in ToSet(ignored[u])

LEMMA Hands == InHandsAre
<1> DEFINE held == UNION {ToSet(ignored[t]) : t \in Threads}
<1>1. \A e : e \in held <=> \E u \in Threads : e \in ToSet(ignored[u])
  OBVIOUS
<1>2. InHands = held \union ({inHand} \ {NoEvent})
  BY DEF InHands
<1> HIDE DEF held
<1> QED BY <1>1, <1>2 DEF InHandsAre

LEMMA HandsNext == InHandsAre'
BY Hands, PTL

LEMMA ClientKeepsAll ==
  ASSUME UNCHANGED <<poller, phone, handled>>,
         \A u \in Threads : ToSet(ignored[u]) \subseteq All',
         \A n \in Names : dict[n] # NoQueue => ToSet(content[dict[n]]) \subseteq All',
         ToSet(taken) \subseteq All', discarded \subseteq All'
  PROVE  All \subseteq All'
<1>1. InHands \subseteq All'
  <2>1. inHand' = inHand /\ InHands' \subseteq All'
    BY DEF poller, All
  <2>2. ASSUME NEW e \in {inHand} \ {NoEvent} PROVE e \in All'
    <3>1. e \in {inHand'} \ {NoEvent}
      BY <2>1
    <3> QED BY <2>1, <3>1, HandsNext DEF InHandsAre
  <2>3. \A u \in Threads : \A e \in ToSet(ignored[u]) : e \in All'
    OBVIOUS
  <2>4. \A e \in InHands : e \in {inHand} \ {NoEvent} \/ \E u \in Threads : e \in ToSet(ignored[u])
    BY Hands DEF InHandsAre
  <2> QED BY <2>2, <2>3, <2>4
<1>2. Stored \subseteq All'
  BY DEF Stored
<1>3. ToSet(feed) \union tasks \union handled \subseteq All'
  BY DEF All, poller, phone
<1> QED BY <1>1, <1>2, <1>3 DEF All

LEMMA Members == ASSUME NEW s PROVE \A e : e \in ToSet(s) <=> \E i \in DOMAIN s : s[i] = e
BY DEF ToSet

LEMMA TailLeaves ==
  ASSUME NEW S, NEW s \in Seq(S), s # <<>>
  PROVE  ToSet(s) = {Head(s)} \union ToSet(Tail(s))
<1>1. /\ Len(s) \in Nat \ {0} /\ DOMAIN s = 1 .. Len(s) /\ s[1] = Head(s)
      /\ DOMAIN Tail(s) = 1 .. Len(s) - 1 /\ \A i \in 1 .. Len(s) - 1 : Tail(s)[i] = s[i + 1]
  OBVIOUS
<1>2. ASSUME NEW i \in DOMAIN s PROVE i = 1 \/ (i - 1 \in DOMAIN Tail(s) /\ s[i] = Tail(s)[i - 1])
  <2>1. CASE i # 1
    <3>1. i \in 1 .. Len(s)
      BY <1>1
    <3>2. i - 1 \in 1 .. Len(s) - 1 /\ (i - 1) + 1 = i
      BY <1>1, <2>1, <3>1
    <3>3. Tail(s)[i - 1] = s[i]
      BY <1>1, <3>2
    <3> QED BY <1>1, <3>2, <3>3
  <2> QED BY <2>1
<1>3. ASSUME NEW i \in DOMAIN Tail(s) PROVE i + 1 \in DOMAIN s /\ Tail(s)[i] = s[i + 1]
  <2>1. i \in 1 .. Len(s) - 1 /\ i + 1 \in 1 .. Len(s)
    BY <1>1
  <2> QED BY <1>1, <2>1
<1>4. 1 \in DOMAIN s
  BY <1>1
<1>5. \A e : e \in ToSet(s) <=> e = Head(s) \/ e \in ToSet(Tail(s))
  <2> TAKE e
  <2>1. e \in ToSet(s) => e = Head(s) \/ e \in ToSet(Tail(s))
    <3> SUFFICES ASSUME e \in ToSet(s) PROVE e = Head(s) \/ e \in ToSet(Tail(s))
      OBVIOUS
    <3>1. PICK i \in DOMAIN s : s[i] = e
      BY Members
    <3> QED BY <1>1, <1>2, <3>1, Members
  <2>2. e \in ToSet(Tail(s)) => e \in ToSet(s)
    <3> SUFFICES ASSUME e \in ToSet(Tail(s)) PROVE e \in ToSet(s)
      OBVIOUS
    <3>1. PICK i \in DOMAIN Tail(s) : Tail(s)[i] = e
      BY Members
    <3> QED BY <1>3, <3>1, Members
  <2>3. Head(s) \in ToSet(s)
    BY <1>1, <1>4, Members
  <2> QED BY <2>1, <2>2, <2>3
<1> QED BY <1>5

LEMMA ConcatHolds ==
  ASSUME NEW S, NEW x \in Seq(S), NEW y \in Seq(S)
  PROVE  ToSet(x \o y) = ToSet(x) \union ToSet(y)
<1>1. /\ \A j \in DOMAIN (x \o y) :
           \/ j \in DOMAIN x /\ (x \o y)[j] = x[j]
           \/ j - Len(x) \in DOMAIN y /\ (x \o y)[j] = y[j - Len(x)]
      /\ \A i \in DOMAIN x : i \in DOMAIN (x \o y) /\ (x \o y)[i] = x[i]
      /\ \A i \in DOMAIN y : Len(x) + i \in DOMAIN (x \o y) /\ (x \o y)[Len(x) + i] = y[i]
  BY ConcatType
<1>2. \A e : e \in ToSet(x \o y) <=> e \in ToSet(x) \/ e \in ToSet(y)
  <2> TAKE e
  <2>1. ASSUME e \in ToSet(x \o y) PROVE e \in ToSet(x) \/ e \in ToSet(y)
    <3>1. PICK j \in DOMAIN (x \o y) : (x \o y)[j] = e
      BY <2>1, Members
    <3> QED BY <1>1, <3>1, Members
  <2>2. ASSUME e \in ToSet(x) PROVE e \in ToSet(x \o y)
    <3>1. PICK i \in DOMAIN x : x[i] = e
      BY <2>2, Members
    <3> QED BY <1>1, <3>1, Members
  <2>3. ASSUME e \in ToSet(y) PROVE e \in ToSet(x \o y)
    <3>1. PICK i \in DOMAIN y : y[i] = e
      BY <2>3, Members
    <3> QED BY <1>1, <3>1, Members
  <2> QED BY <2>1, <2>2, <2>3
<1> QED BY <1>2

LEMMA AppendHolds ==
  ASSUME NEW S, NEW s \in Seq(S), NEW e \in S
  PROVE  ToSet(Append(s, e)) = ToSet(s) \union {e}
BY AppendType DEF ToSet

(* The ways of an operation: nothing changes, the dictionary grows ...     *)
DictGrows == \A n \in Names : dict[n] # NoQueue => dict'[n] = dict[n]

LEMMA EnsureGrows == ASSUME Typed, NEW n \in Names, EnsureQueue(n) PROVE DictGrows
BY EnsureType DEF Typed, DictGrows

(* ... an operation without ignored_events ends ...                        *)
LEMMA EndsEmpty ==
  ASSUME Typed, NEW t \in Threads, EndOp(t), ignored[t] = <<>> PROVE UNCHANGED ignored
<1>1. ignored \in [Threads -> Seq(Event)] /\ ignored' = [ignored EXCEPT ![t] = <<>>]
  BY ClientTypes DEF EndOp
<1> QED BY <1>1

LEMMA QuietKeeps ==
  ASSUME Typed, UNCHANGED <<poller, phone, history, content, ignored>>, DictGrows
  PROVE  All \subseteq All'
<1>1. AllParts'
  BY PartsKeptNext
<1> QED BY <1>1, ClientKeepsAll DEF AllParts, Kept, DictGrows, history

LEMMA RaiseKeeps ==
  ASSUME Typed, NEW t \in Threads, Raise(t),
         UNCHANGED <<poller, phone, taken, handled, content, dict>>
  PROVE  All \subseteq All'
<1>1. AllParts'
  BY PartsKeptNext
<1>2. \A u \in Threads \ {t} : ignored'[u] = ignored[u]
  BY EndOpType DEF Raise
<1>3. ToSet(ignored[t]) \subseteq discarded' /\ discarded \subseteq discarded'
  BY DEF Raise
<1>4. ASSUME NEW u \in Threads PROVE ToSet(ignored[u]) \subseteq All'
  BY <1>1, <1>2, <1>3 DEF AllParts, Kept
<1> QED BY <1>1, <1>3, <1>4, ClientKeepsAll DEF AllParts, Kept

(* ... and the head of a queue goes somewhere else.                        *)
LEMMA PopKeeps ==
  ASSUME Typed, UNCHANGED <<poller, phone, handled, dict>>,
         NEW Q \in SUBSET (1 .. MaxQueues),
         \A q \in Q : content[q] # <<>> /\ content'[q] = Tail(content[q])
                      /\ Head(content[q]) \in All',
         \A q \in 1 .. MaxQueues \ Q : content'[q] = content[q],
         \A u \in Threads : ToSet(ignored[u]) \subseteq All',
         ToSet(taken) \subseteq All', discarded \subseteq All'
  PROVE  All \subseteq All'
<1>1. AllParts'
  BY PartsKeptNext
<1>2. ASSUME NEW n \in Names, dict[n] # NoQueue PROVE ToSet(content[dict[n]]) \subseteq All'
  <2>1. dict[n] \in 1 .. MaxQueues /\ content[dict[n]] \in Seq(Event)
    BY <1>2, DispatcherTypes
  <2>2. ToSet(content'[dict[n]]) \subseteq All'
    BY <1>1, <1>2 DEF AllParts, Kept
  <2>3. CASE dict[n] \in Q
    BY <2>1, <2>2, <2>3, TailLeaves
  <2>4. CASE dict[n] \notin Q
    BY <2>1, <2>2, <2>4
  <2> QED BY <2>3, <2>4
<1> QED BY <1>2, ClientKeepsAll

LEMMA TakesKeep ==
  ASSUME Typed, NEW s \in Seq(Event), taken' = taken \o s
  PROVE  ToSet(taken) \subseteq All' /\ ToSet(s) \subseteq All'
<1>1. ToSet(taken') = ToSet(taken) \union ToSet(s)
  BY HistoryTypes, ConcatHolds
<1>2. AllParts'
  BY PartsKeptNext
<1> QED BY <1>1, <1>2 DEF AllParts, Kept

LEMMA TakeKeeps ==
  ASSUME Typed, NEW q \in 1 .. MaxQueues, content[q] # <<>>,
         content' = [content EXCEPT ![q] = Tail(@)],
         UNCHANGED <<poller, phone, handled, dict, ignored>>,
         \/ taken' = Append(taken, Head(content[q])) /\ UNCHANGED discarded
         \/ discarded' = discarded \union {Head(content[q])} /\ UNCHANGED taken
  PROVE  All \subseteq All'
<1>1. AllParts'
  BY PartsKeptNext
<1>2. \A u \in Threads : ToSet(ignored[u]) \subseteq All'
  BY <1>1 DEF AllParts, Kept
<1>3. Head(content[q]) \in Event /\ taken \in Seq(Event)
  BY TakeType, HistoryTypes
<1>4. /\ Head(content[q]) \in All' /\ ToSet(taken) \subseteq All' /\ discarded \subseteq All'
  <2>1. CASE taken' = Append(taken, Head(content[q])) /\ UNCHANGED discarded
    <3>1. ToSet(taken') = ToSet(taken) \union {Head(content[q])}
      BY <1>3, <2>1, AppendHolds
    <3> QED BY <1>1, <2>1, <3>1 DEF AllParts, Kept
  <2>2. CASE discarded' = discarded \union {Head(content[q])} /\ UNCHANGED taken
    BY <1>1, <2>2 DEF AllParts, Kept
  <2> QED BY <2>1, <2>2
<1>5. content'[q] = Tail(content[q]) /\ \A r \in 1 .. MaxQueues \ {q} : content'[r] = content[r]
  BY DispatcherTypes
<1>6. {q} \in SUBSET (1 .. MaxQueues)
  OBVIOUS
<1> QED BY <1>2, <1>4, <1>5, <1>6, PopKeeps

LEMMA KeepsType ==
  ASSUME Typed, Keeps, NEW t \in Threads
  PROVE  ignored[t] = <<>> \/ (op[t] = "wait keep" /\ pc[t] \in KeepLabels)
BY DEF Keeps

LEMMA QuietStep ==
  ASSUME Typed, Keeps, NEW t \in Threads,
         \/ (CheckStarted(t) /\ started) \/ GetEventQ(t) \/ GetTimesOut(t) \/ WaitGetsNothing(t)
         \/ ((ReadQueue(t) \/ ReadQueueToPut(t)) /\ dict[name[t]] # NoQueue)
         \/ PutBack(t) \/ PopAllLocks(t)
         \/ (PopAllTakes(t) /\ (dict[name[t]] = NoQueue \/ content[dict[name[t]]] = <<>>))
  PROVE  All \subseteq All'
<1>1. UNCHANGED <<poller, phone, history, content>>
  BY DEF CheckStarted, GetEventQ, GetTimesOut, WaitGetsNothing, ReadQueue, ReadQueueToPut,
         PutBack, PopAllLocks, PopAllTakes, dispatcher, history
<1>2. UNCHANGED ignored
  <2>1. UNCHANGED ignored \/ (EndOp(t) /\ (op[t] # "wait keep" \/ ignored[t] = <<>>
                                           \/ pc[t] \notin KeepLabels))
    BY DEF CheckStarted, GetEventQ, GetTimesOut, WaitGetsNothing, ReadQueue, ReadQueueToPut,
           PutBack, PopAllLocks, PopAllTakes, KeepLabels
  <2> QED BY <2>1, KeepsType, EndsEmpty
<1>3. DictGrows
  <2>1. UNCHANGED dict \/ (EnsureQueue(name[t]) /\ pc[t] # "idle")
    BY DEF CheckStarted, GetEventQ, GetTimesOut, WaitGetsNothing, ReadQueue, ReadQueueToPut,
           PutBack, PopAllLocks, PopAllTakes, dispatcher
  <2>2. CASE UNCHANGED dict
    BY <2>2 DEF DictGrows
  <2>3. CASE EnsureQueue(name[t]) /\ pc[t] # "idle"
    BY <2>3, ClientTypes, EnsureGrows
  <2> QED BY <2>1, <2>2, <2>3
<1> QED BY <1>1, <1>2, <1>3, QuietKeeps

LEMMA RaisingStep ==
  ASSUME Typed, NEW t \in Threads,
         \/ (CheckStarted(t) /\ ~started)
         \/ ((ReadQueue(t) \/ ReadQueueToPut(t)) /\ dict[name[t]] = NoQueue)
  PROVE  All \subseteq All'
<1>1. Raise(t) /\ UNCHANGED <<poller, phone, taken, handled, content, dict>>
  BY DEF CheckStarted, ReadQueue, ReadQueueToPut, dispatcher
<1> QED BY <1>1, RaiseKeeps

LEMMA TakingStep ==
  ASSUME Typed, Keeps, NEW t \in Threads,
         \/ Get(t) \/ GetAndTest(t)
         \/ (PopAllTakes(t) /\ dict[name[t]] # NoQueue /\ content[dict[name[t]]] # <<>>)
  PROVE  All \subseteq All'
<1>1. UNCHANGED <<poller, phone, handled, dict>>
  BY DEF Get, GetAndTest, PopAllTakes
<1>2. PICK q \in 1 .. MaxQueues :
        /\ content[q] # <<>> /\ content' = [content EXCEPT ![q] = Tail(@)]
        /\ \/ taken' = Append(taken, Head(content[q])) /\ UNCHANGED discarded
           \/ discarded' = discarded \union {Head(content[q])} /\ UNCHANGED taken
  <2>1. CASE Get(t) \/ GetAndTest(t)
    <3>1. queue[t] \in 1 .. MaxQueues
      BY <2>1, QueueType DEF Get, GetAndTest
    <3>2. /\ content[queue[t]] # <<>> /\ content' = [content EXCEPT ![queue[t]] = Tail(@)]
          /\ \/ taken' = Append(taken, Head(content[queue[t]])) /\ UNCHANGED discarded
             \/ discarded' = discarded \union {Head(content[queue[t]])} /\ UNCHANGED taken
      BY <2>1 DEF Get, GetAndTest
    <3> QED BY <3>1, <3>2
  <2>2. CASE PopAllTakes(t) /\ dict[name[t]] # NoQueue /\ content[dict[name[t]]] # <<>>
    <3>1. dict[name[t]] \in 1 .. MaxQueues
      BY <2>2, ClientTypes, DispatcherTypes DEF PopAllTakes
    <3> QED BY <2>2, <3>1 DEF PopAllTakes
  <2> QED BY <2>1, <2>2
<1>3. UNCHANGED ignored
  <2>1. UNCHANGED ignored \/ (EndOp(t) /\ op[t] # "wait keep")
    BY DEF Get, GetAndTest, PopAllTakes
  <2> QED BY <2>1, KeepsType, EndsEmpty
<1> QED BY <1>1, <1>2, <1>3, TakeKeeps

LEMMA MatchingStep ==
  ASSUME Typed, Keeps, NEW t \in Threads, MatchAndPop(t) PROVE All \subseteq All'
<1>1. /\ EndOp(t) /\ pc[t] = "pop events" /\ UNCHANGED <<poller, phone, handled, dict, discarded>>
  BY DEF MatchAndPop
<1>2. UNCHANGED ignored
  BY <1>1, KeepsType, EndsEmpty DEF KeepLabels
<1>3. PICK sorted \in Seq(Event) :
        /\ taken' = taken \o sorted
        /\ \A n \in Ready : \E i \in DOMAIN sorted : sorted[i] = Head(content[dict[n]])
  BY Matched
<1>4. ToSet(taken) \subseteq All' /\ ToSet(sorted) \subseteq All'
  BY <1>3, TakesKeep
<1>5. AllParts'
  BY PartsKeptNext
<1>6. discarded \subseteq All' /\ \A u \in Threads : ToSet(ignored[u]) \subseteq All'
  BY <1>1, <1>2, <1>5 DEF AllParts, Kept
<1> DEFINE Q == {dict[n] : n \in Ready}
<1>7. Q \in SUBSET (1 .. MaxQueues)
  BY ReadyType
<1>8. ASSUME NEW q \in Q
      PROVE  content[q] # <<>> /\ content'[q] = Tail(content[q]) /\ Head(content[q]) \in All'
  <2>1. PICK n \in Ready : q = dict[n]
    OBVIOUS
  <2>2. PICK i \in DOMAIN sorted : sorted[i] = Head(content[q])
    BY <1>3, <2>1
  <2>3. Head(content[q]) \in ToSet(sorted)
    BY <2>2, Members
  <2>4. q \in 1 .. MaxQueues /\ content[q] # <<>>
    BY <2>1, ReadyType
  <2>5. content'[q] = Tail(content[q])
    BY <2>1, <2>4, MatchedContent
  <2> QED BY <1>4, <2>3, <2>4, <2>5
<1>9. ASSUME NEW q \in 1 .. MaxQueues \ Q PROVE content'[q] = content[q]
  BY MatchedContent
<1> HIDE DEF Q
<1> QED BY <1>1, <1>4, <1>6, <1>7, <1>8, <1>9, PopKeeps

(* wait_for_event sets an event aside, and puts one back.                  *)
LEMMA KeepingStep ==
  ASSUME Typed, NEW t \in Threads, GetAndKeep(t) PROVE All \subseteq All'
<1> DEFINE q == queue[t]
           e == Head(content[q])
<1>1. /\ q \in 1 .. MaxQueues /\ content[q] # <<>> /\ content' = [content EXCEPT ![q] = Tail(@)]
      /\ ignored' = [ignored EXCEPT ![t] = Append(@, e)]
      /\ UNCHANGED <<poller, phone, handled, dict, taken, discarded>>
  BY QueueType DEF GetAndKeep, history
<1>2. e \in Event
  BY <1>1, TakeType
<1>3. /\ ignored'[t] = Append(ignored[t], e) /\ ignored[t] \in Seq(Event)
      /\ \A u \in Threads \ {t} : ignored'[u] = ignored[u]
      /\ content'[q] = Tail(content[q]) /\ \A r \in 1 .. MaxQueues \ {q} : content'[r] = content[r]
  BY <1>1, ClientTypes, DispatcherTypes
<1> HIDE DEF q, e
<1>4. AllParts'
  BY PartsKeptNext
<1>5. ToSet(ignored'[t]) = ToSet(ignored[t]) \union {e}
  BY <1>2, <1>3, AppendHolds
<1>6. ToSet(ignored'[t]) \subseteq All'
  BY <1>4 DEF AllParts, Kept
<1>7. ASSUME NEW u \in Threads PROVE ToSet(ignored[u]) \subseteq All'
  BY <1>3, <1>4, <1>5, <1>6 DEF AllParts, Kept
<1>8. e \in All' /\ ToSet(taken) \subseteq All' /\ discarded \subseteq All'
  BY <1>1, <1>4, <1>5, <1>6 DEF AllParts, Kept
<1>9. {q} \in SUBSET (1 .. MaxQueues)
  BY <1>1
<1> QED BY <1>1, <1>3, <1>7, <1>8, <1>9, PopKeeps DEF e

LEMMA PuttingStep ==
  ASSUME Typed, NEW t \in Threads, Put(t) PROVE All \subseteq All'
<1> DEFINE q == queue[t]
           e == Head(ignored[t])
<1>1. /\ q \in 1 .. MaxQueues /\ name[t] \in Names /\ q # NoQueue
      /\ ignored[t] # <<>> /\ ignored[t] \in Seq(Event)
      /\ content' = [content EXCEPT ![q] = Append(@, e)]
      /\ ignored' = [ignored EXCEPT ![t] = Tail(@)]
      /\ discarded' = IF q = dict[name[t]] THEN discarded ELSE discarded \union {e}
      /\ UNCHANGED <<poller, phone, handled, dict, taken>>
  BY QueueType, ClientTypes, BoundsAssumption DEF Put, Typed, Ignoring
<1>2. e \in Event /\ ToSet(ignored[t]) = {e} \union ToSet(Tail(ignored[t]))
  BY <1>1, TailType, TailLeaves
<1>3. /\ ignored'[t] = Tail(ignored[t]) /\ \A u \in Threads \ {t} : ignored'[u] = ignored[u]
      /\ content'[q] = Append(content[q], e) /\ content[q] \in Seq(Event)
      /\ \A r \in 1 .. MaxQueues \ {q} : content'[r] = content[r]
  BY <1>1, ClientTypes, DispatcherTypes
<1> HIDE DEF q, e
<1>4. AllParts'
  BY PartsKeptNext
<1>5. ToSet(content'[q]) = ToSet(content[q]) \union {e}
  BY <1>2, <1>3, AppendHolds
<1>6. ASSUME NEW n \in Names, dict[n] # NoQueue PROVE ToSet(content[dict[n]]) \subseteq All'
  <2>1. ToSet(content'[dict[n]]) \subseteq All' /\ dict[n] \in 1 .. MaxQueues
    BY <1>1, <1>4, <1>6, DispatcherTypes DEF AllParts, Kept
  <2> QED BY <1>3, <1>5, <2>1
<1>7. ToSet(taken) \subseteq All' /\ discarded \subseteq All'
  BY <1>1, <1>4 DEF AllParts, Kept
<1>8. e \in All'
  <2>1. CASE q = dict[name[t]]
    <3>1. ToSet(content'[dict'[name[t]]]) \subseteq All'
      BY <1>1, <1>4, <2>1 DEF AllParts, Kept
    <3> QED BY <1>1, <1>5, <2>1, <3>1
  <2>2. CASE q # dict[name[t]]
    BY <1>1, <1>4, <2>2 DEF AllParts, Kept
  <2> QED BY <2>1, <2>2
<1>9. ASSUME NEW u \in Threads PROVE ToSet(ignored[u]) \subseteq All'
  <2>1. ToSet(ignored'[u]) \subseteq All'
    BY <1>4 DEF AllParts, Kept
  <2> QED BY <1>2, <1>3, <1>8, <2>1
<1> QED BY <1>1, <1>6, <1>7, <1>9, ClientKeepsAll

(* The clears say what they throw away.                                    *)
LEMMA ClearingStep ==
  ASSUME Typed, Keeps, NEW t \in Threads, ClearEvents(t) PROVE All \subseteq All'
<1> DEFINE q == dict'[name[t]]
<1>1. /\ pc[t] = "clear" /\ EnsureQueue(name[t]) /\ content' = [content EXCEPT ![q] = <<>>]
      /\ UNCHANGED <<poller, phone, handled, taken>>
  BY DEF ClearEvents
<1>2. PICK victims \in SUBSET Threads :
        /\ discarded' = discarded \union ToSet(content[q])
                          \union UNION {ToSet(ignored[u]) : u \in victims}
        /\ ignored' = [u \in Threads |-> IF u \in {t} \union victims THEN <<>> ELSE ignored[u]]
  BY Victims
<1>3. DictGrows /\ q \in 1 .. MaxQueues
  BY <1>1, ClientTypes, EnsureGrows, EnsureType DEF Typed
<1>4. AllParts'
  BY PartsKeptNext
<1>5. ToSet(content[q]) \subseteq All' /\ discarded \subseteq All' /\ ToSet(taken) \subseteq All'
  BY <1>1, <1>2, <1>4 DEF AllParts, Kept
<1>6. ASSUME NEW u \in Threads PROVE ToSet(ignored[u]) \subseteq All'
  <2>1. CASE u \in victims
    <3>1. ToSet(ignored[u]) \subseteq discarded'
      BY <1>2, <2>1
    <3> QED BY <1>4, <3>1 DEF AllParts, Kept
  <2>2. CASE u \notin victims
    <3>1. u = t => ignored[u] = <<>>
      BY <1>1, KeepsType DEF KeepLabels
    <3>2. ignored'[u] = ignored[u]
      BY <1>2, <2>2, <3>1
    <3> QED BY <1>4, <3>2 DEF AllParts, Kept
  <2> QED BY <2>1, <2>2
<1>7. ASSUME NEW n \in Names, dict[n] # NoQueue PROVE ToSet(content[dict[n]]) \subseteq All'
  <2>1. dict'[n] = dict[n] /\ dict[n] \in 1 .. MaxQueues
    BY <1>3, <1>7, DispatcherTypes DEF DictGrows
  <2>2. ToSet(content'[dict[n]]) \subseteq All'
    BY <1>4, <1>7, <2>1 DEF AllParts, Kept
  <2>3. dict[n] # q => content'[dict[n]] = content[dict[n]]
    BY <1>1, <2>1, DispatcherTypes
  <2> QED BY <1>5, <2>2, <2>3
<1> QED BY <1>1, <1>5, <1>6, <1>7, ClientKeepsAll

LEMMA ForgettingKeeps ==
  ASSUME Typed, ForgetQueues, UNCHANGED <<poller, phone, handled, taken, ignored>>
  PROVE  All \subseteq All'
<1>1. AllParts'
  BY PartsKeptNext
<1>2. Stored \subseteq All' /\ discarded \subseteq All' /\ ToSet(taken) \subseteq All'
  BY <1>1 DEF AllParts, Kept, ForgetQueues
<1>3. \A n \in Names : dict[n] # NoQueue => ToSet(content[dict[n]]) \subseteq All'
  BY <1>2 DEF Stored
<1> QED BY <1>1, <1>2, <1>3, ClientKeepsAll DEF AllParts, Kept

LEMMA StepKeepsAll ==
  ASSUME Typed, Keeps, NEW t \in Threads, Step(t) PROVE All \subseteq All'
<1>1. CASE ClearAllEvents(t)
  <2>1. UNCHANGED ignored
    BY <1>1, KeepsType, EndsEmpty DEF ClearAllEvents, KeepLabels
  <2> QED BY <1>1, <2>1, ForgettingKeeps DEF ClearAllEvents
<1> QED BY <1>1, QuietStep, RaisingStep, TakingStep, MatchingStep, KeepingStep, PuttingStep,
           ClearingStep DEF Step

(* Only wait_for_event that keeps sets events aside.                       *)
LEMMA EndOpKeeps ==
  ASSUME Typed, Keeps, NEW t \in Threads, EndOp(t) PROVE Keeps'
<1>1. /\ ignored'[t] = <<>>
      /\ \A u \in Threads \ {t} : pc'[u] = pc[u] /\ op'[u] = op[u] /\ ignored'[u] = ignored[u]
  BY EndOpType, ClientTypes DEF EndOp
<1> QED BY <1>1 DEF Keeps

LEMMA GotoKeeps ==
  ASSUME Typed, Keeps, NEW t \in Threads, NEW label \in Labels, Goto(t, label), UNCHANGED op,
         \A u \in Threads \ {t} : ignored'[u] = ignored[u],
         ignored'[t] # <<>> => op[t] = "wait keep" /\ label \in KeepLabels
  PROVE  Keeps'
<1>1. pc'[t] = label /\ \A u \in Threads \ {t} : pc'[u] = pc[u]
  BY DEF Goto, Typed, TypeOK, ClientType
<1> QED BY <1>1 DEF Keeps

LEMMA StepKeeps ==
  ASSUME Typed, Keeps, NEW t \in Threads, Step(t) PROVE Keeps'
<1>1. ignored[t] = <<>> \/ (op[t] = "wait keep" /\ pc[t] \in KeepLabels)
  BY KeepsType
<1>2. CASE EndOp(t)
  BY <1>2, EndOpKeeps
<1>3. CASE UNCHANGED <<pc, op, ignored>>
  BY <1>3 DEF Keeps
<1>4. CASE ClearEvents(t)
  <2>1. PICK victims \in SUBSET Threads :
          /\ pc' = [u \in Threads |-> IF u \in {t} \union victims THEN "idle" ELSE pc[u]]
          /\ op' = [u \in Threads |-> IF u \in {t} \union victims THEN "none" ELSE op[u]]
          /\ ignored' = [u \in Threads |-> IF u \in {t} \union victims THEN <<>> ELSE ignored[u]]
    BY <1>4, Victims
  <2> QED BY <2>1 DEF Keeps
<1>5. ASSUME NEW label \in Labels, Goto(t, label), UNCHANGED <<op, ignored>>,
             ignored[t] = <<>> \/ label \in KeepLabels
      PROVE  Keeps'
  BY <1>1, <1>5, GotoKeeps
<1>6. CASE CheckStarted(t)
  <2>1. CASE started
    <3>1. PICK label \in Labels : /\ Goto(t, label)
                                  /\ label \in KeepLabels \/ op[t] \in {"pop all", "pop events"}
      BY <1>6, <2>1 DEF CheckStarted, Labels, KeepLabels
    <3> QED BY <1>1, <1>5, <1>6, <2>1, <3>1 DEF CheckStarted
  <2> QED BY <1>2, <1>6, <2>1 DEF CheckStarted, Raise
<1>7. CASE GetEventQ(t) \/ WaitGetsNothing(t)
  BY <1>2, <1>5, <1>7 DEF GetEventQ, WaitGetsNothing, Labels, KeepLabels
<1>8. CASE ReadQueue(t) \/ ReadQueueToPut(t)
  BY <1>2, <1>5, <1>8 DEF ReadQueue, ReadQueueToPut, Labels, KeepLabels, Raise
<1>9. CASE Get(t) \/ GetTimesOut(t) \/ MatchAndPop(t) \/ ClearAllEvents(t)
  BY <1>2, <1>9 DEF Get, GetTimesOut, MatchAndPop, ClearAllEvents
<1>10. CASE GetAndTest(t)
  BY <1>2, <1>5, <1>10 DEF GetAndTest, Labels, KeepLabels
<1>11. CASE GetAndKeep(t)
  <2>1. PICK label \in {"check", "put back"} : Goto(t, label)
    BY <1>11 DEF GetAndKeep
  <2>2. \A u \in Threads \ {t} : ignored'[u] = ignored[u]
    BY <1>11, ClientTypes DEF GetAndKeep
  <2> QED BY <1>11, <2>1, <2>2, GotoKeeps DEF GetAndKeep, Labels, KeepLabels
<1>12. CASE PutBack(t)
  BY <1>2, <1>5, <1>12 DEF PutBack, Labels, KeepLabels
<1>13. CASE Put(t)
  <2>1. \A u \in Threads \ {t} : ignored'[u] = ignored[u]
    BY <1>13, ClientTypes DEF Put
  <2>2. op[t] = "wait keep"
    BY <1>1, <1>13 DEF Put, Typed, Ignoring
  <2> QED BY <1>13, <2>1, <2>2, GotoKeeps DEF Put, Labels, KeepLabels
<1>14. CASE PopAllLocks(t)
  <2>1. ignored[t] = <<>>
    BY <1>1, <1>14 DEF PopAllLocks, KeepLabels
  <2> QED BY <1>5, <1>14, <2>1 DEF PopAllLocks, Labels
<1>15. CASE PopAllTakes(t)
  BY <1>2, <1>3, <1>15 DEF PopAllTakes
<1> QED BY <1>4, <1>6, <1>7, <1>8, <1>9, <1>10, <1>11, <1>12, <1>13, <1>14, <1>15 DEF Step

LEMMA AllStays == ASSUME AllKept, All \subseteq All', UNCHANGED emitted PROVE AllKept'
BY DEF AllKept

LEMMA StepKept ==
  ASSUME KeptInv, NEW t \in Threads, Step(t)
  PROVE  Keeps' /\ PollerHolds' /\ Placed' /\ Single' /\ AllKept'
<1> USE DEF KeptInv
<1>1. UNCHANGED <<started, poller, phone, control>>
  BY StepElsewhere
<1>2. PollerHolds'
  BY <1>1 DEF PollerHolds, PollerOver, poller, control
<1>3. AllKept'
  BY <1>1, StepKeepsAll, AllStays DEF phone
<1> QED BY <1>2, <1>3, StepKeeps, StepSingle

(* What the phone, the owner and the poller do: mostly nothing to events.  *)
LEMMA InKept ==
  ASSUME UNCHANGED <<content, ignored, taken>>
  PROVE  Boxes' = Boxes /\ Lines' = Lines
BY DEF Boxes, Lines

LEMMA NothingMoves ==
  ASSUME KeptInv, UNCHANGED <<content, ignored, taken, handled, inHand, tasks, feed, emitted>>
  PROVE  Single' /\ Placed'
BY InKept DEF KeptInv, Single, Placed, Behind

LEMMA AsideKept ==
  ASSUME KeptInv, UNCHANGED <<dict, content, ignored, taken, handled, discarded, inHand, tasks,
                              feed, emitted>>
  PROVE  Single' /\ Placed' /\ AllKept'
<1>1. All' = All
  BY DEF All, InHands, Stored
<1> QED BY <1>1, NothingMoves, AllStays DEF KeptInv

LEMMA ClientStays ==
  ASSUME KeptInv, UNCHANGED client PROVE Keeps'
BY DEF KeptInv, Keeps, client

LEMMA BeginKept ==
  ASSUME KeptInv, NEW t \in Threads, NEW n \in Names,
         (\E o \in Ops : Begin(t, o, n)) \/ HandleEvent(t, n)
  PROVE  Keeps' /\ PollerHolds' /\ Placed' /\ Single' /\ AllKept'
<1>1. /\ pc[t] = "idle" /\ UNCHANGED <<dispatcher, poller, phone, control, ignored, history>>
      /\ \E o, label : op' = [op EXCEPT ![t] = o] /\ pc' = [pc EXCEPT ![t] = label]
  BY DEF Begin, HandleEvent, Goto
<1>2. ignored[t] = <<>>
  BY <1>1, KeepsType DEF KeptInv, KeepLabels
<1>3. \A u \in Threads \ {t} : pc'[u] = pc[u] /\ op'[u] = op[u]
  BY <1>1 DEF KeptInv, Typed, TypeOK, ClientType
<1>4. Keeps'
  BY <1>1, <1>2, <1>3 DEF KeptInv, Keeps
<1>5. PollerHolds'
  BY <1>1 DEF KeptInv, PollerHolds, PollerOver, dispatcher, poller, control
<1>6. Single' /\ Placed' /\ AllKept'
  BY <1>1, AsideKept DEF dispatcher, poller, phone, history
<1> QED BY <1>4, <1>5, <1>6

LEMMA OwnerKept ==
  ASSUME KeptInv, RpcDies \/ (\E n \in Names : RegisterHandler(n)) \/ Start \/ CloseSession
                  \/ Close \/ Join \/ PollTop \/ PollError \/ PollClosesItself
  PROVE  Keeps' /\ PollerHolds' /\ Placed' /\ Single' /\ AllKept'
<1>1. UNCHANGED <<dict, content, client, taken, handled, discarded, inHand, tasks, feed, emitted>>
  BY DEF RpcDies, RegisterHandler, Start, CloseSession, Close, Join, PollTop, PollError,
         PollBreaksOff, PollFails, PollClosesItself, dispatcher, poller, phone, history
<1>2. PollerHolds'
  <2> USE DEF KeptInv, PollerHolds, PollerOver
  <2>1. CASE RpcDies \/ \E n \in Names : RegisterHandler(n)
    BY <2>1 DEF RpcDies, RegisterHandler, dispatcher, poller, control
  <2>2. CASE Start \/ CloseSession
    BY <2>2 DEF Start, CloseSession, dispatcher, poller
  <2>3. CASE Close \/ Join
    BY <2>3 DEF Close, Join, ExecutorIdle, dispatcher, poller
  <2>4. CASE PollTop
    BY <2>4 DEF PollTop, dispatcher, control
  <2>5. CASE PollError \/ PollClosesItself
    BY <2>5 DEF PollError, PollBreaksOff, PollFails, PollClosesItself, dispatcher, control
  <2> QED BY <2>1, <2>2, <2>3, <2>4, <2>5
<1>3. UNCHANGED ignored
  BY <1>1 DEF client
<1> QED BY <1>1, <1>2, <1>3, ClientStays, AsideKept

LEMMA CloseClearsKept ==
  ASSUME KeptInv, CloseClears
  PROVE  Keeps' /\ PollerHolds' /\ Placed' /\ Single' /\ AllKept'
<1>1. /\ owner = "clear" /\ owner' = "idle" /\ ForgetQueues
      /\ UNCHANGED <<started, content, poller, phone, client, taken, handled>>
  BY DEF CloseClears
<1>2. PollerHolds'
  BY <1>1 DEF KeptInv, PollerHolds, PollerOver, poller
<1>3. UNCHANGED <<ignored, inHand, tasks, feed, emitted>>
  BY <1>1 DEF poller, phone, client
<1>4. AllKept'
  BY <1>1, <1>3, ForgettingKeeps, AllStays DEF KeptInv
<1> QED BY <1>1, <1>2, <1>3, <1>4, ClientStays, NothingMoves

LEMMA EmitKept ==
  ASSUME KeptInv, Emit
  PROVE  Keeps' /\ PollerHolds' /\ Placed' /\ Single' /\ AllKept'
<1>1. /\ emitted' = emitted + 1 /\ emitted \in Nat
      /\ UNCHANGED <<dispatcher, poller, control, client, history>>
  BY DEF Emit, KeptInv, Typed, TypeOK, PhoneType
<1>2. PICK n \in Names : feed' = Append(feed, [name |-> n, no |-> emitted + 1])
  BY DEF Emit
<1> DEFINE e == [name |-> n, no |-> emitted + 1]
<1>3. e \in Event /\ e.no = emitted + 1
  <2>1. emitted + 1 \in 1 .. MaxEvents
    BY BoundsAssumption DEF Emit, KeptInv, Typed, TypeOK, PhoneType
  <2> QED BY <2>1 DEF Event
<1> HIDE DEF e
<1>4. /\ feed \in Seq(Event) /\ feed' = Append(feed, e)
  BY <1>2 DEF KeptInv, Typed, TypeOK, PhoneType, e
<1>5. /\ \A i \in DOMAIN feed : i \in DOMAIN feed' /\ feed'[i] = feed[i]
      /\ \A i \in DOMAIN feed' : (i \in DOMAIN feed /\ feed'[i] = feed[i]) \/ feed'[i] = e
  BY <1>3, <1>4, AppendType
<1>6. Boxes' = Boxes /\ Lines' = Lines /\ UNCHANGED <<tasks, handled, inHand>>
  BY <1>1, InKept DEF dispatcher, poller, client, history
<1>7. Keeps' /\ PollerHolds' /\ Single'
  BY <1>1, <1>6, ClientStays
     DEF KeptInv, PollerHolds, PollerOver, Single, dispatcher, poller, control
<1>8. \A k \in Nat : Behind(k) => Behind(k)'
  BY <1>1, <1>3, <1>5 DEF Behind
<1>9. Increasing(feed') /\ \A i \in DOMAIN feed' : feed'[i].no <= emitted'
  <2>1. \A i \in DOMAIN feed' : feed'[i].no <= emitted'
    <3>1. \A i \in DOMAIN feed : feed[i].no \in Nat /\ feed[i].no <= emitted
      BY <1>4, EventTypes DEF KeptInv, Placed
    <3> QED BY <1>1, <1>3, <1>5, <3>1
  <2>2. ASSUME NEW i \in DOMAIN feed', NEW j \in DOMAIN feed', i < j
        PROVE  feed'[i].no < feed'[j].no
    <3>1. /\ Len(feed) \in Nat /\ DOMAIN feed = 1 .. Len(feed)
          /\ DOMAIN feed' = 1 .. Len(feed) + 1 /\ feed'[Len(feed) + 1] = e
      BY <1>3, <1>4
    <3>2. i \in DOMAIN feed /\ (j \in DOMAIN feed \/ j = Len(feed) + 1)
      BY <2>2, <3>1
    <3>3. CASE j \in DOMAIN feed
      BY <1>5, <2>2, <3>2, <3>3 DEF KeptInv, Placed, Increasing
    <3>4. CASE j = Len(feed) + 1
      <4>1. feed[i].no \in Nat /\ feed[i].no <= emitted
        BY <1>4, <3>2, EventTypes DEF KeptInv, Placed
      <4> QED BY <1>1, <1>3, <1>5, <3>1, <3>2, <3>4, <4>1
    <3> QED BY <3>2, <3>3, <3>4
  <2> QED BY <2>1, <2>2 DEF Increasing
<1>10. Placed'
  <2>1. \A d \in tasks \union handled : d.no \in Nat
    BY EventTypes DEF KeptInv, Typed, TypeOK, PollerType, HistoryType
  <2>2. inHand # NoEvent => inHand.no \in Nat
    BY EventTypes DEF KeptInv, Typed, TypeOK, PollerType
  <2> QED BY <1>6, <1>8, <1>9, <2>1, <2>2 DEF KeptInv, Placed
<1>11. AllKept'
  <2>1. ToSet(feed') = ToSet(feed) \union {e}
    BY <1>3, <1>4, AppendHolds
  <2>2. All \subseteq All' /\ e \in All'
    BY <1>1, <2>1 DEF All, InHands, Stored, dispatcher, poller, client, history
  <2>3. \A k \in 1 .. emitted' : k \in 1 .. emitted \/ k = e.no
    BY <1>1, <1>3
  <2> QED BY <2>2, <2>3 DEF KeptInv, AllKept
<1> QED BY <1>7, <1>10, <1>11

(* The poller: an event it receives is newer than all that went before it. *)
LEMMA ReceivesKept ==
  ASSUME KeptInv, PollReceives
  PROVE  Keeps' /\ PollerHolds' /\ Placed' /\ Single' /\ AllKept'
<1>1. /\ poll = "wait" /\ inHand = NoEvent
      /\ UNCHANGED <<dispatcher, tasks, emitted, control, client, history>>
  BY DEF PollReceives, KeptInv, PollerHolds
<1>2. CASE feed = <<>>
  <2>1. UNCHANGED <<dict, content, ignored, taken, handled, discarded, inHand, tasks, feed, emitted>>
    BY <1>1, <1>2 DEF PollReceives, dispatcher, client, history
  <2>2. PollerHolds'
    BY <1>1, <2>1 DEF KeptInv, PollerHolds, PollerOver, dispatcher, control
  <2> QED BY <1>1, <2>1, <2>2, ClientStays, AsideKept
<1>3. CASE feed # <<>>
  <2> DEFINE e == Head(feed)
  <2>1. feed \in Seq(Event) /\ inHand' = e /\ feed' = Tail(feed) /\ poll' = "dispatch"
    BY <1>3 DEF PollReceives, KeptInv, Typed, TypeOK, PhoneType
  <2>2. /\ e \in Event /\ e.no \in Nat /\ 1 \in DOMAIN feed /\ feed[1] = e
        /\ \A i \in DOMAIN feed' :
             i \in Nat /\ i >= 1 /\ i + 1 \in DOMAIN feed /\ feed'[i] = feed[i + 1]
    <3>1. \A i \in DOMAIN feed' : i \in Nat /\ i >= 1
      BY <1>3, <2>1
    <3>2. e \in Event /\ 1 \in DOMAIN feed /\ feed[1] = e
      BY <1>3, <2>1, HeadOf
    <3>3. \A i \in DOMAIN feed' : i + 1 \in DOMAIN feed /\ feed'[i] = feed[i + 1]
      BY <1>3, <2>1, TailType
    <3> QED BY <3>1, <3>2, <3>3, EventTypes DEF KeptInv
  <2>3. e # NoEvent /\ ToSet(feed) = {e} \union ToSet(feed')
    BY <1>3, <2>1, <2>2, EventAssumption, TailLeaves
  <2> HIDE DEF e
  <2>4. Boxes' = Boxes /\ Lines' = Lines /\ UNCHANGED <<tasks, handled, emitted>>
    BY <1>1, InKept DEF dispatcher, client, history
  <2>5. Keeps' /\ PollerHolds'
    BY <1>1, <2>1, ClientStays DEF KeptInv, PollerHolds, PollerOver, dispatcher, control
  <2>6. \A k : Behind(k) => k < e.no /\ Behind(k)'
    BY <2>2, <2>4 DEF Behind
  <2>7. \A k \in Nat : ~(k < k)
    OBVIOUS
  <2>8. ~In(Boxes, Lines, e.no) /\ \A d \in tasks \union handled : d.no # e.no
    <3>1. ~In(Boxes, Lines, e.no)
      BY <2>2, <2>6, <2>7 DEF KeptInv, Placed
    <3>2. ASSUME NEW d \in tasks \union handled, d.no = e.no PROVE FALSE
      <4>1. d.no < e.no
        BY <2>6 DEF KeptInv, Placed
      <4> QED BY <2>2, <2>7, <3>2, <4>1
    <3> QED BY <3>1, <3>2
  <2>9. Single'
    BY <2>1, <2>4, <2>8 DEF KeptInv, Single
  <2>10. Increasing(feed') /\ \A i \in DOMAIN feed' : feed'[i].no <= emitted'
    <3>1. \A i \in DOMAIN feed' : feed'[i].no <= emitted'
      BY <2>2, <2>4 DEF KeptInv, Placed
    <3>2. ASSUME NEW i \in DOMAIN feed', NEW j \in DOMAIN feed', i < j
          PROVE  feed'[i].no < feed'[j].no
      <4>1. i + 1 < j + 1
        BY <2>2, <3>2
      <4> QED BY <2>2, <4>1 DEF KeptInv, Placed, Increasing
    <3> QED BY <3>1, <3>2 DEF Increasing
  <2>11. Behind(inHand.no)'
    <3>1. ASSUME NEW i \in DOMAIN feed' PROVE e.no < feed'[i].no
      <4>1. 1 < i + 1
        BY <2>2
      <4> QED BY <2>2, <4>1 DEF KeptInv, Placed, Increasing
    <3>2. e.no <= emitted
      BY <2>2 DEF KeptInv, Placed
    <3> QED BY <2>1, <2>4, <3>1, <3>2 DEF Behind
  <2>12. Placed'
    BY <2>1, <2>4, <2>6, <2>10, <2>11 DEF KeptInv, Placed
  <2>13. All \subseteq All'
    <3>1. e \in InHands'
      BY <2>1, <2>3, HandsNext DEF InHandsAre
    <3>2. ToSet(feed) \subseteq All'
      BY <2>3, <3>1 DEF All
    <3>3. InHands \subseteq InHands'
      BY <1>1, Hands, HandsNext DEF InHandsAre, client
    <3> QED BY <1>1, <3>2, <3>3 DEF All, Stored, dispatcher, history
  <2> QED BY <2>4, <2>5, <2>9, <2>12, <2>13, AllStays DEF KeptInv
<1> QED BY <1>2, <1>3

LEMMA DispatchKept ==
  ASSUME KeptInv, Dispatch
  PROVE  Keeps' /\ PollerHolds' /\ Placed' /\ Single' /\ AllKept'
<1>1. /\ inHand \in Event /\ inHand # NoEvent /\ inHand' = NoEvent
      /\ UNCHANGED <<dispatcher, phone, control, client, taken, handled>>
      /\ \/ poll' = "top" /\ tasks' = tasks \union {inHand} /\ UNCHANGED discarded
         \/ poll' = "failed" /\ discarded' = discarded \union {inHand} /\ UNCHANGED tasks
  BY EventAssumption DEF Dispatch, KeptInv, Typed, InHandHeld
<1>2. Keeps' /\ PollerHolds'
  <2>1. poll = "dispatch" /\ UNCHANGED <<started, owner>>
    BY <1>1 DEF Dispatch, dispatcher, control
  <2>2. PollerHolds'
    BY <1>1, <2>1 DEF KeptInv, PollerHolds, PollerOver
  <2> QED BY <1>1, <2>2, ClientStays
<1>3. Boxes' = Boxes /\ Lines' = Lines /\ UNCHANGED <<feed, emitted>>
  BY <1>1, InKept DEF dispatcher, phone, client
<1>4. \A d \in tasks' \union handled' : d \in tasks \union handled \/ d = inHand
  BY <1>1
<1>5. Single'
  BY <1>1, <1>3, <1>4 DEF KeptInv, Single
<1>6. Placed'
  BY <1>1, <1>3, <1>4 DEF KeptInv, Placed, Behind
<1>7. All \subseteq All'
  <2>1. InHands \subseteq InHands' \union {inHand}
    BY <1>1, Hands, HandsNext DEF InHandsAre, client
  <2> QED BY <1>1, <1>3, <2>1 DEF All, Stored, dispatcher
<1> QED BY <1>2, <1>3, <1>5, <1>6, <1>7, AllStays DEF KeptInv

LEMMA RunHandlerKept ==
  ASSUME KeptInv, RunHandler
  PROVE  Keeps' /\ PollerHolds' /\ Placed' /\ Single' /\ AllKept'
<1>1. /\ tasks' \union handled' = tasks \union handled
      /\ UNCHANGED <<dispatcher, poll, inHand, phone, control, client, taken, discarded>>
  BY DEF RunHandler
<1>2. Keeps' /\ PollerHolds'
  BY <1>1, ClientStays DEF KeptInv, PollerHolds, PollerOver, dispatcher, control
<1>3. Boxes' = Boxes /\ Lines' = Lines /\ UNCHANGED <<feed, emitted>>
  BY <1>1, InKept DEF dispatcher, phone, client
<1>4. Single' /\ Placed'
  BY <1>1, <1>3 DEF KeptInv, Single, Placed, Behind
<1>5. All \subseteq All'
  <2>1. tasks \subseteq tasks' \union handled' /\ handled \subseteq tasks' \union handled'
    BY <1>1
  <2>2. InHands' = InHands /\ Stored' = Stored
    BY <1>1 DEF InHands, Stored, dispatcher, client
  <2> QED BY <1>1, <1>3, <2>1, <2>2 DEF All
<1> QED BY <1>2, <1>3, <1>4, <1>5, AllStays DEF KeptInv

(* Store: the event goes from the poller's hands into a line.              *)
LEMMA StoreKept ==
  ASSUME KeptInv, Typed', Store
  PROVE  Keeps' /\ PollerHolds' /\ Placed' /\ Single' /\ AllKept'
<1> DEFINE q == dict'[inHand.name]
<1>1. /\ inHand \in Event /\ inHand # NoEvent /\ inHand.name \in Names /\ inHand.no \in Nat
      /\ inHand' = NoEvent /\ poll' = "top"
      /\ EnsureQueue(inHand.name) /\ content' = [content EXCEPT ![q] = Append(@, inHand)]
      /\ UNCHANGED <<started, tasks, phone, control, client, history>>
  BY EventAssumption, EventTypes DEF Store, KeptInv, Typed, InHandHeld
<1>2. DictGrows /\ q \in 1 .. MaxQueues
  BY <1>1, EnsureGrows, EnsureType DEF KeptInv, Typed
<1>3. /\ content'[q] = Append(content[q], inHand) /\ content[q] \in Seq(Event)
      /\ \A r \in 1 .. MaxQueues \ {q} : content'[r] = content[r]
  BY <1>1, <1>2, DispatcherTypes DEF KeptInv
<1>4. content'[q] = content[q] \o <<inHand>>
  BY <1>1, <1>3, AppendIsConcat
<1>q. q # NoQueue
  BY <1>2, BoundsAssumption
<1> HIDE DEF q
<1>5. Keeps' /\ PollerHolds'
  BY <1>1, ClientStays DEF KeptInv, PollerHolds, PollerOver, Store, control
<1>6. LinesTyped /\ LinesTyped' /\ Boxes' = Boxes
  BY LineTypes, LineTypesNext DEF KeptInv, Boxes
<1>7. UNCHANGED <<ignored, taken, handled, discarded, feed, emitted>>
  BY <1>1 DEF phone, client, history
<1> DEFINE c == <<"queue", q>>
           s == <<inHand>>
<1>8. s \in Seq(Event) /\ DOMAIN s = {1} /\ s[1] = inHand
  BY <1>1
<1>9. c \in Boxes /\ Lines'[c] = Lines[c] \o s
  BY <1>2, <1>4, <1>6 DEF LinesTyped
<1>10. ASSUME NEW d \in Boxes \ {c} PROVE Lines'[d] = Lines[d]
  <2>1. ASSUME NEW r \in 1 .. MaxQueues, d = <<"queue", r>> PROVE Lines'[d] = Lines[d]
    <3>1. r # q
      BY <2>1
    <3> QED BY <1>3, <1>6, <2>1, <3>1 DEF LinesTyped
  <2>2. CASE \E u \in Threads : d = <<"ignored", u>>
    BY <1>6, <1>7, <2>2 DEF LinesTyped
  <2>3. CASE d = TakenBox
    BY <1>6, <1>7, <2>3 DEF LinesTyped, TakenBox
  <2> QED BY <2>1, <2>2, <2>3, BoxKinds
<1> HIDE DEF c, s
<1>11. Apart(Boxes, Lines') /\ Within(Boxes, Lines, s, Lines')
  <2>1. /\ Lines \in [Boxes -> Seq(Event)] /\ Apart(Boxes, Lines) /\ Increasing(s)
        /\ Foreign(Boxes, Lines, s) /\ Adds(Boxes, Lines, c, s, Lines')
    BY <1>1, <1>6, <1>8, <1>9, <1>10
       DEF LinesTyped, KeptInv, Single, Increasing, Foreign, Adds
  <2> QED BY <1>8, <1>9, <2>1, MoreApart
<1>12. \A k : In(Boxes, Lines', k) => In(Boxes, Lines, k) \/ k = inHand.no
  BY <1>8, <1>11 DEF Within
<1>13. Single'
  BY <1>1, <1>6, <1>7, <1>11, <1>12 DEF KeptInv, Single
<1>14. Placed'
  BY <1>1, <1>6, <1>7, <1>12 DEF KeptInv, Placed, Behind
<1>15. All \subseteq All'
  <2>1. AllParts'
    BY PartsKeptNext
  <2>2. ToSet(content'[q]) = ToSet(content[q]) \union {inHand}
    BY <1>1, <1>3, AppendHolds
  <2>3. ToSet(content'[q]) \subseteq All'
    <3>1. dict'[inHand.name] = q
      BY DEF q
    <3> QED BY <1>1, <1>q, <2>1, <3>1 DEF AllParts, Kept
  <2>4. ASSUME NEW n \in Names, dict[n] # NoQueue PROVE ToSet(content[dict[n]]) \subseteq All'
    <3>1. dict'[n] = dict[n] /\ dict[n] \in 1 .. MaxQueues
      BY <1>2, <2>4, DispatcherTypes DEF DictGrows, KeptInv
    <3>2. ToSet(content'[dict[n]]) \subseteq All'
      BY <2>1, <2>4, <3>1 DEF AllParts, Kept
    <3> QED BY <1>3, <2>2, <2>3, <3>1, <3>2
  <2>5. Stored \subseteq All'
    BY <2>4 DEF Stored
  <2>6. InHands \subseteq All'
    <3>1. InHands \subseteq InHands' \union {inHand} /\ InHands' \subseteq All'
      BY <1>7, Hands, HandsNext DEF InHandsAre, All
    <3> QED BY <2>2, <2>3, <3>1
  <2>7. ToSet(feed) \union tasks \union handled \union ToSet(taken) \union discarded \subseteq All'
    BY <1>1, <1>7 DEF All
  <2> QED BY <2>5, <2>6, <2>7 DEF All
<1> QED BY <1>5, <1>7, <1>13, <1>14, <1>15, AllStays DEF KeptInv

LEMMA InitKept == Init => KeptInv
<1> SUFFICES ASSUME Init PROVE KeptInv
  OBVIOUS
<1>1. Typed
  BY InitTyped
<1>2. /\ feed = <<>> /\ taken = <<>> /\ tasks = {} /\ handled = {} /\ inHand = NoEvent
      /\ \A q \in 1 .. MaxQueues : content[q] = <<>>
      /\ \A t \in Threads : ignored[t] = <<>>
      /\ poll = "none" /\ emitted = 0
  BY DEF Init
<1>3. \A b \in Boxes : Lines[b] = <<>>
  BY <1>1, <1>2, LineTypes, BoxKinds DEF LinesTyped
<1>4. DOMAIN <<>> = {}
  BY EmptyType
<1>5. \A k : ~In(Boxes, Lines, k)
  BY <1>3, <1>4 DEF In
<1>6. Apart(Boxes, Lines) /\ Increasing(feed)
  BY <1>2, <1>3, <1>4 DEF Apart, Increasing
<1>7. Keeps /\ PollerHolds /\ AllKept
  <2>1. 1 .. emitted = {}
    BY <1>2
  <2> QED BY <1>2, <2>1 DEF Keeps, PollerHolds, PollerOver, AllKept
<1>8. Placed /\ Single
  BY <1>2, <1>4, <1>5, <1>6 DEF Placed, Single
<1> QED BY <1>1, <1>7, <1>8 DEF KeptInv

LEMMA NextKept == KeptInv /\ [Next]_vars => KeptInv'
<1> SUFFICES ASSUME KeptInv, [Next]_vars PROVE KeptInv'
  OBVIOUS
<1>1. Typed'
  BY NextTyped DEF KeptInv
<1> SUFFICES Keeps' /\ PollerHolds' /\ Placed' /\ Single' /\ AllKept'
  BY <1>1 DEF KeptInv
<1>2. CASE UNCHANGED vars
  <2>1. UNCHANGED <<started, poll, owner, client, dict, content, ignored, taken, handled,
                    discarded, inHand, tasks, feed, emitted>>
    BY <1>2 DEF vars, dispatcher, poller, phone, control, client, history
  <2>2. PollerHolds'
    BY <2>1 DEF KeptInv, PollerHolds, PollerOver
  <2> QED BY <2>1, <2>2, ClientStays, AsideKept
<1>3. CASE Emit
  BY <1>3, EmitKept
<1>4. CASE RpcDies \/ (\E n \in Names : RegisterHandler(n)) \/ Start \/ CloseSession
           \/ Close \/ Join \/ PollTop \/ PollError \/ PollClosesItself
  BY <1>4, OwnerKept
<1>5. CASE CloseClears
  BY <1>5, CloseClearsKept
<1>6. CASE PollReceives
  BY <1>6, ReceivesKept
<1>7. CASE Dispatch
  BY <1>7, DispatchKept
<1>8. CASE Store
  BY <1>1, <1>8, StoreKept
<1>9. CASE RunHandler
  BY <1>9, RunHandlerKept
<1>10. ASSUME NEW t \in Users, NEW o \in Ops, NEW n \in Names, Begin(t, o, n)
       PROVE  Keeps' /\ PollerHolds' /\ Placed' /\ Single' /\ AllKept'
  BY <1>10, BeginKept DEF Threads
<1>11. ASSUME NEW t \in Workers, NEW n \in Names, HandleEvent(t, n)
       PROVE  Keeps' /\ PollerHolds' /\ Placed' /\ Single' /\ AllKept'
  BY <1>11, BeginKept DEF Threads
<1>12. ASSUME NEW t \in Threads, Step(t)
       PROVE  Keeps' /\ PollerHolds' /\ Placed' /\ Single' /\ AllKept'
  BY <1>12, StepKept
<1> QED BY <1>2, <1>3, <1>4, <1>5, <1>6, <1>7, <1>8, <1>9, <1>10, <1>11, <1>12
        DEF Next, Owner, Poll, Done

(* The places of an event: in a line, at its handler, with the poller.     *)
InLine(p, k) ==
  \E b \in Boxes : \E i \in DOMAIN Lines[b] : Lines[b][i].no = k /\ p = <<b[1], b[2], i>>
AtHandler(p, k) == (\E e \in tasks \union handled : e.no = k) /\ p = <<"handler", 0, k>>
InPoller(p, k) == inHand # NoEvent /\ inHand.no = k /\ p = <<"poller", 0, k>>

LEMMA PlaceForms ==
  ASSUME Typed, NEW k, NEW p \in Places(k)
  PROVE  InLine(p, k) \/ AtHandler(p, k) \/ InPoller(p, k)
<1>1. LinesTyped
  BY LineTypes
<1>2. ASSUME NEW q \in 1 .. MaxQueues, NEW i \in DOMAIN content[q], content[q][i].no = k,
             p = <<"queue", q, i>>
      PROVE  InLine(p, k)
  <2> DEFINE b == <<"queue", q>>
  <2>1. b \in Boxes /\ Lines[b] = content[q] /\ b[1] = "queue" /\ b[2] = q
    BY <1>1 DEF LinesTyped
  <2> HIDE DEF b
  <2> QED BY <1>2, <2>1 DEF InLine
<1>3. ASSUME NEW t \in Threads, NEW i \in DOMAIN ignored[t], ignored[t][i].no = k,
             p = <<"ignored", t, i>>
      PROVE  InLine(p, k)
  <2> DEFINE b == <<"ignored", t>>
  <2>1. b \in Boxes /\ Lines[b] = ignored[t] /\ b[1] = "ignored" /\ b[2] = t
    BY <1>1 DEF LinesTyped
  <2> HIDE DEF b
  <2> QED BY <1>3, <2>1 DEF InLine
<1>4. ASSUME NEW i \in DOMAIN taken, taken[i].no = k, p = <<"taken", 0, i>> PROVE InLine(p, k)
  <2>1. TakenBox \in Boxes /\ Lines[TakenBox] = taken /\ TakenBox[1] = "taken" /\ TakenBox[2] = 0
    BY <1>1 DEF LinesTyped, TakenBox
  <2> QED BY <1>4, <2>1 DEF InLine
<1>5. \/ \E q \in 1 .. MaxQueues : \E i \in DOMAIN content[q] :
           content[q][i].no = k /\ p = <<"queue", q, i>>
      \/ \E t \in Threads : \E i \in DOMAIN ignored[t] :
           ignored[t][i].no = k /\ p = <<"ignored", t, i>>
      \/ \E i \in DOMAIN taken : taken[i].no = k /\ p = <<"taken", 0, i>>
      \/ \E e \in tasks \union handled : e.no = k /\ p = <<"handler", 0, e.no>>
      \/ \E e \in {inHand} \ {NoEvent} : e.no = k /\ p = <<"poller", 0, e.no>>
  BY DEF Places
<1> QED BY <1>2, <1>3, <1>4, <1>5 DEF AtHandler, InPoller

LEMMA OnePlace ==
  ASSUME Typed, Single, NEW k, NEW p \in Places(k), NEW r \in Places(k) PROVE p = r
<1>1. /\ InLine(p, k) \/ AtHandler(p, k) \/ InPoller(p, k)
      /\ InLine(r, k) \/ AtHandler(r, k) \/ InPoller(r, k)
  BY PlaceForms
<1>2. CASE InLine(p, k) /\ InLine(r, k)
  <2>1. PICK b \in Boxes : \E i \in DOMAIN Lines[b] : Lines[b][i].no = k /\ p = <<b[1], b[2], i>>
    BY <1>2 DEF InLine
  <2>2. PICK i \in DOMAIN Lines[b] : Lines[b][i].no = k /\ p = <<b[1], b[2], i>>
    BY <2>1
  <2>3. PICK c \in Boxes : \E j \in DOMAIN Lines[c] : Lines[c][j].no = k /\ r = <<c[1], c[2], j>>
    BY <1>2 DEF InLine
  <2>4. PICK j \in DOMAIN Lines[c] : Lines[c][j].no = k /\ r = <<c[1], c[2], j>>
    BY <2>3
  <2>5. b = c /\ i = j
    BY <2>2, <2>4 DEF Single, Apart
  <2> QED BY <2>2, <2>4, <2>5
<1>3. InLine(p, k) \/ InLine(r, k) => In(Boxes, Lines, k)
  BY DEF InLine, In
<1>4. CASE ~InLine(p, k) /\ ~InLine(r, k)
  BY <1>1, <1>4 DEF AtHandler, InPoller, Single
<1> QED BY <1>1, <1>2, <1>3, <1>4 DEF AtHandler, InPoller, Single

LEMMA FewPlaces ==
  ASSUME NEW S, \A x, y \in S : x = y PROVE Cardinality(S) <= 1
<1>1. CASE S = {}
  BY <1>1, FS_EmptySet
<1>2. CASE S # {}
  <2>1. PICK x : x \in S
    BY <1>2
  <2>2. S = {x}
    BY <2>1
  <2> QED BY <2>2, FS_Singleton
<1> QED BY <1>1, <1>2

(* Whatever the names, the threads, the operations and the bounds, and     *)
(* with an rpc that may fail: every event the phone emitted is on its way, *)
(* in a queue somebody can reach, at its handler, in the hands of a caller *)
(* or was thrown away on purpose, and never in two places: no interleaving *)
(* of the poller's store, the callers' get-or-create, pop and put back,    *)
(* the clears and close() (event_dispatcher.py) loses or doubles an event. *)
THEOREM NoEventLost == Spec => []EventKept
<1>1. KeptInv => EventKept
  <2> SUFFICES ASSUME KeptInv, NEW k \in 1 .. emitted
               PROVE  (\E e \in All : e.no = k) /\ Cardinality(Places(k)) <= 1
    BY DEF EventKept, All
  <2>1. \E e \in All : e.no = k
    BY DEF KeptInv, AllKept
  <2>2. \A p, r \in Places(k) : p = r
    BY OnePlace DEF KeptInv
  <2> QED BY <2>1, <2>2, FewPlaces
<1> QED BY InitKept, NextKept, <1>1, PTL DEF Spec
=============================================================================

--------------------------- MODULE RpcClientProofs ---------------------------
(***************************************************************************)
(* Proofs about the connection pool of RpcClient, for any number of        *)
(* threads, connections and tries, and with terminate() at any moment:     *)
(* the types; a connection is in one place at a time (Apart), which is     *)
(* also why the pool implements ConnectionLease; the list operations find  *)
(* what they are called for (ListInv); which connections are lost          *)
(* (OpenKept, WorkingUsed, LostGone); the bound on the open ones (Room); a *)
(* call returns the answer to its own request (AnswerInv).                 *)
(***************************************************************************)
EXTENDS RpcClient, FiniteSetTheorems, SequenceTheorems, TLAPS

(* The labels at which a thread holds a connection.                        *)
Holding == {"append", "encode", "send", "receive", "broken pipe", "remove", "release"}

(* The local `connection' is set exactly while the thread holds one.       *)
HoldsConn == \A t \in Threads : pc[t] \in Holding <=> conn[t] \in Conns

-----------------------------------------------------------------------------
(* What the two list operations on _free_connections do to its elements.   *)
LEMMA FrontLemma ==
  ASSUME NEW S, NEW s \in Seq(S), s # <<>>
  PROVE  /\ Front(s) \in Seq(S)
         /\ Len(Front(s)) = Len(s) - 1
         /\ \A i \in 1 .. Len(s) - 1 : Front(s)[i] = s[i]
         /\ Last(s) \in S
<1>1. /\ Len(s) \in Nat \ {0}
      /\ \A i \in 1 .. Len(s) : s[i] \in S
  BY LenProperties, ElementOfSeq, EmptySeq
<1> DEFINE n == Len(s) - 1
<1>2. n \in Nat /\ \A i \in 1 .. n : s[i] \in S
  BY <1>1
<1> HIDE DEF n
<1>3. /\ SubSeq(s, 1, n) \in Seq(S)
      /\ Len(SubSeq(s, 1, n)) = IF 1 <= n THEN n - 1 + 1 ELSE 0
      /\ \A i \in 1 .. n - 1 + 1 : SubSeq(s, 1, n)[i] = s[1 + i - 1]
  BY <1>2, SubSeqProperties
<1>4. Len(SubSeq(s, 1, n)) = n /\ \A i \in 1 .. n : SubSeq(s, 1, n)[i] = s[i]
  BY <1>2, <1>3
<1> QED
  BY <1>1, <1>3, <1>4 DEF Front, Last, n

(* Moving to another label, and ending the call, keep a thread well typed. *)
LEMMA GotoType ==
  ASSUME ThreadType, NEW t \in Threads, NEW label \in Labels,
         Goto(t, label), UNCHANGED <<local, outcome>>
  PROVE  ThreadType'
BY DEF ThreadType, Goto, local

LEMMA EndCallType ==
  ASSUME ThreadType, NEW t \in Threads, NEW how \in Outcomes, EndCall(t, how)
  PROVE  ThreadType'
BY DEF ThreadType, EndCall, Goto, Labels

(* Both keep HoldsConn: a label that holds no connection, and no local.    *)
LEMMA GotoHolds ==
  ASSUME ThreadType, HoldsConn, NEW t \in Threads, NEW label \in Labels,
         Goto(t, label), UNCHANGED conn, pc[t] \in Holding <=> label \in Holding
  PROVE  HoldsConn'
BY DEF ThreadType, HoldsConn, Goto

LEMMA EndCallHolds ==
  ASSUME ThreadType, HoldsConn, NEW t \in Threads, NEW how, EndCall(t, how)
  PROVE  HoldsConn'
BY ConnsAssumption DEF ThreadType, HoldsConn, Holding, EndCall, Goto

(* Where a signal finds the main thread, and how its call goes on.         *)
LEMMA InterruptWays ==
  ASSUME NEW t \in Threads, Interrupt(t)
  PROVE  /\ UNCHANGED <<free, alive, wire, calls, queued, submitted, terminator>>
         /\ \/ InterruptTry(t) \/ EndCall(t, "interrupted")
BY DEF Interrupt, InterruptTry, InterruptEmpty, InterruptLocked, InterruptHolding,
       InterruptRelease, pool

(* The other effects on the pool, by the case of the signal.               *)
LEMMA InterruptPool ==
  ASSUME HoldsConn, NEW t \in Threads, Interrupt(t)
  PROVE  \/ /\ InterruptTry(t) /\ pc[t] \in Holding \ {"append"}
            /\ UNCHANGED <<working, lock, lost, conn>>
         \/ /\ EndCall(t, "interrupted") /\ pc[t] \notin Holding /\ UNCHANGED <<working, lost>>
            /\ \/ lock' = lock /\ pc[t] \notin {"pop", "create"}
               \/ lock' = NoThread /\ pc[t] \in {"pop", "create"}
         \/ /\ EndCall(t, "interrupted") /\ pc[t] \in Holding /\ UNCHANGED working
            /\ conn[t] \in Conns /\ lost' = lost \union {conn[t]}
            /\ \/ lock' = lock /\ pc[t] # "append"
               \/ lock' = NoThread /\ pc[t] = "append"
         \/ /\ InterruptRelease(t) /\ EndCall(t, "interrupted") /\ pc[t] = "release"
            /\ conn[t] \in Conns /\ working' = working \ {conn[t]}
            /\ lost' = lost \union {conn[t]} /\ UNCHANGED lock
<1>1. CASE InterruptTry(t)
  BY <1>1 DEF InterruptTry, Holding, pool
<1>2. CASE InterruptEmpty(t)
  BY <1>2 DEF InterruptEmpty, Holding, pool
<1>3. CASE InterruptLocked(t)
  BY <1>3 DEF InterruptLocked, Holding
<1>4. CASE InterruptHolding(t)
  BY <1>4 DEF InterruptHolding, Holding, Lose, HoldsConn
<1>5. CASE InterruptRelease(t)
  BY <1>5 DEF InterruptRelease, Holding, Lose, HoldsConn
<1> QED
  BY <1>1, <1>2, <1>3, <1>4, <1>5 DEF Interrupt

-----------------------------------------------------------------------------
(* The types, with HoldsConn, are inductive.                               *)
LEMMA InitType == Init => TypeOK /\ HoldsConn
<1> SUFFICES ASSUME Init PROVE TypeOK /\ HoldsConn
  OBVIOUS
<1>1. PICK c \in Conns : free = <<c>> /\ made = {c}
  BY DEF Init
<1>2. TypeOK
  BY <1>1 DEF Init, TypeOK, PoolType, WireType, ThreadType, OtherType, Labels, Outcomes, TermLabels
<1>3. HoldsConn
  BY ConnsAssumption DEF Init, HoldsConn, Holding
<1> QED
  BY <1>2, <1>3

(* The two halves of what a step of a thread has to keep.                  *)
LocalInv == ThreadType /\ HoldsConn

LEMMA StepLocal ==
  ASSUME TypeOK, HoldsConn, NEW t \in Threads, Step(t)
  PROVE  LocalInv'
<1> USE ConnsAssumption DEF LocalInv
<1>0. ThreadType
  BY DEF TypeOK
<1>1. CASE StartCall(t)
  <2>1. CASE alive
    <3>1. Goto(t, "get") /\ UNCHANGED <<local, outcome>> /\ pc[t] = "idle"
      BY <1>1, <2>1 DEF StartCall
    <3> QED BY <3>1, <1>0, GotoType, GotoHolds DEF Labels, Holding, local
  <2>2. CASE ~alive
    <3>1. EndCall(t, "Sl4aStartError")
      BY <1>1, <2>2 DEF StartCall
    <3> QED BY <3>1, <1>0, EndCallType, EndCallHolds DEF Outcomes
  <2> QED BY <2>1, <2>2
<1>2. CASE RunFuture(t)
  <2>1. Goto(t, "get") /\ UNCHANGED <<local, outcome>> /\ pc[t] = "idle"
    BY <1>2 DEF RunFuture
  <2> QED BY <2>1, <1>0, GotoType, GotoHolds DEF Labels, Holding, local
<1>3. CASE LookForFree(t)
  <2>1. UNCHANGED <<local, outcome>> /\ pc[t] = "get"
    BY <1>3 DEF LookForFree
  <2>2. Goto(t, "lock pop") \/ Goto(t, "count")
    BY <1>3 DEF LookForFree
  <2> QED BY <2>1, <2>2, <1>0, GotoType, GotoHolds DEF Labels, Holding, local
<1>4. CASE LockToPop(t)
  <2>1. UNCHANGED <<local, outcome>> /\ pc[t] = "lock pop"
    BY <1>4 DEF LockToPop
  <2>2. Goto(t, "get") \/ Goto(t, "pop")
    BY <1>4 DEF LockToPop
  <2> QED BY <2>1, <2>2, <1>0, GotoType, GotoHolds DEF Labels, Holding, local
<1>5. CASE Pop(t)
  <2>1. CASE free = <<>>
    <3>1. EndCall(t, "IndexError")
      BY <1>5, <2>1 DEF Pop
    <3> QED BY <3>1, <1>0, EndCallType, EndCallHolds DEF Outcomes
  <2>2. CASE free # <<>>
    <3>1. Last(free) \in Conns
      BY <2>2, FrontLemma DEF TypeOK, PoolType
    <3>2. /\ conn' = [conn EXCEPT ![t] = Last(free)]
          /\ pc' = [pc EXCEPT ![t] = "append"]
          /\ UNCHANGED <<ticket, tries, reply, outcome>>
      BY <1>5, <2>2 DEF Pop, Goto
    <3> QED BY <3>1, <3>2, <1>0 DEF ThreadType, HoldsConn, Labels, Holding
  <2> QED BY <2>1, <2>2
<1>6. CASE Count(t)
  <2>1. UNCHANGED <<local, outcome>> /\ pc[t] = "count"
    BY <1>6 DEF Count
  <2>2. Goto(t, "lock create") \/ Goto(t, "get")
    BY <1>6 DEF Count
  <2> QED BY <2>1, <2>2, <1>0, GotoType, GotoHolds DEF Labels, Holding, local
<1>7. CASE LockToCreate(t)
  <2>1. UNCHANGED <<local, outcome>> /\ pc[t] = "lock create"
    BY <1>7 DEF LockToCreate
  <2>2. Goto(t, "create") \/ Goto(t, "get")
    BY <1>7 DEF LockToCreate
  <2> QED BY <2>1, <2>2, <1>0, GotoType, GotoHolds DEF Labels, Holding, local
<1>8. CASE Create(t)
  <2>1. CASE EndCall(t, "create failed")
    BY <2>1, <1>0, EndCallType, EndCallHolds DEF Outcomes
  <2>2. CASE ~EndCall(t, "create failed")
    <3>1. PICK c \in Conns \ made : /\ conn' = [conn EXCEPT ![t] = c]
                                    /\ pc' = [pc EXCEPT ![t] = "append"]
                                    /\ UNCHANGED <<ticket, tries, reply, outcome>>
      BY <1>8, <2>2 DEF Create, Goto
    <3> QED BY <3>1, <1>0 DEF ThreadType, HoldsConn, Labels, Holding
  <2> QED BY <2>1, <2>2
<1>9. CASE AppendWorking(t)
  <2>1. Goto(t, "encode") /\ UNCHANGED <<local, outcome>> /\ pc[t] = "append"
    BY <1>9 DEF AppendWorking
  <2> QED BY <2>1, <1>0, GotoType, GotoHolds DEF Labels, Holding, local
<1>10. CASE Encode(t)
  <2>1. CASE EndCall(t, "TypeError")
    BY <2>1, <1>0, EndCallType, EndCallHolds DEF Outcomes
  <2>2. CASE ~EndCall(t, "TypeError")
    <3>1. /\ pc[t] = "encode" /\ Goto(t, "send")
          /\ ticket' = [ticket EXCEPT ![t] = counter[conn[t]] + 1]
          /\ tries' = [tries EXCEPT ![t] = 1]
          /\ UNCHANGED <<conn, reply, outcome>>
      BY <1>10, <2>2 DEF Encode
    <3>a. conn[t] \in Conns
      BY <3>1 DEF HoldsConn, Holding
    <3>2. counter[conn[t]] + 1 \in Nat
      BY <3>a DEF TypeOK, WireType
    <3>3. ThreadType'
      BY <3>1, <3>2, <1>0 DEF ThreadType, Goto, Labels
    <3>4. HoldsConn'
      BY <3>1, <1>0, GotoHolds DEF Labels, Holding
    <3> QED BY <3>3, <3>4
  <2> QED BY <2>1, <2>2
<1>11. CASE Send(t)
  <2>1. UNCHANGED <<local, outcome>> /\ pc[t] = "send"
    BY <1>11 DEF Send
  <2>2. Goto(t, "receive") \/ Goto(t, "broken pipe")
    BY <1>11 DEF Send
  <2> QED BY <2>1, <2>2, <1>0, GotoType, GotoHolds DEF Labels, Holding, local
<1>12. CASE Receive(t)
  <2>1. /\ pc[t] = "receive" /\ pending[conn[t]] # <<>> /\ Goto(t, "release")
        /\ reply' = [reply EXCEPT ![t] = Head(pending[conn[t]])]
        /\ UNCHANGED <<conn, ticket, tries, outcome>>
    BY <1>12 DEF Receive
  <2>2. pending[conn[t]] \in Seq(Requests)
    BY <2>1 DEF TypeOK, WireType, HoldsConn, Holding
  <2>3. Head(pending[conn[t]]) \in Requests
    BY <2>1, <2>2
  <2>4. ThreadType'
    BY <2>1, <2>3, <1>0 DEF ThreadType, Goto, Labels
  <2>5. HoldsConn'
    BY <2>1, <1>0, GotoHolds DEF Labels, Holding
  <2> QED BY <2>4, <2>5
<1>13. CASE ReceiveNothing(t)
  <2>1. pc[t] = "receive" /\ UNCHANGED <<conn, ticket, reply>>
    BY <1>13 DEF ReceiveNothing
  <2>2. CASE tries[t] < Retries
    <3>1. Goto(t, "send") /\ tries' = [tries EXCEPT ![t] = @ + 1] /\ UNCHANGED outcome
      BY <1>13, <2>2 DEF ReceiveNothing
    <3>a. tries[t] + 1 \in Nat
      BY <1>0 DEF ThreadType
    <3>b. tries' \in [Threads -> Nat]
      BY <3>a, <3>1, <1>0 DEF ThreadType
    <3>2. ThreadType'
      BY <2>1, <3>1, <3>b, <1>0 DEF ThreadType, Goto, Labels
    <3>3. HoldsConn'
      BY <2>1, <3>1, <1>0, GotoHolds DEF Labels, Holding
    <3> QED BY <3>2, <3>3
  <2>3. CASE ~(tries[t] < Retries)
    <3>1. /\ Goto(t, "release") /\ UNCHANGED tries
          /\ outcome' = [outcome EXCEPT ![t] = "Sl4aProtocolError"]
      BY <1>13, <2>3 DEF ReceiveNothing
    <3>2. ThreadType'
      BY <2>1, <3>1, <1>0 DEF ThreadType, Goto, Labels, Outcomes
    <3>3. HoldsConn'
      BY <2>1, <3>1, <1>0, GotoHolds DEF Labels, Holding
    <3> QED BY <3>2, <3>3
  <2> QED BY <2>2, <2>3
<1>14. CASE PipeBreaks(t)
  <2>1. /\ pc[t] = "broken pipe" /\ Goto(t, "release") /\ UNCHANGED local
        /\ outcome' = [outcome EXCEPT ![t] = "Sl4aConnectionError"]
    BY <1>14 DEF PipeBreaks
  <2>2. ThreadType'
    BY <2>1, <1>0 DEF ThreadType, Goto, Labels, Outcomes, local
  <2>3. HoldsConn'
    BY <2>1, <1>0, GotoHolds DEF Labels, Holding, local
  <2> QED BY <2>2, <2>3
<1>15. CASE Interrupt(t)
  <2>1. CASE InterruptTry(t)
    <3>1. /\ pc[t] \in Holding /\ Goto(t, "release") /\ UNCHANGED <<conn, ticket, tries>>
          /\ outcome' = [outcome EXCEPT ![t] = "interrupted"]
          /\ reply' = [reply EXCEPT ![t] = NoReply]
      BY <2>1 DEF InterruptTry, Holding
    <3>2. ThreadType'
      BY <3>1, <1>0 DEF ThreadType, Goto, Labels, Outcomes
    <3>3. HoldsConn'
      BY <3>1, <1>0, GotoHolds DEF Labels, Holding
    <3> QED BY <3>2, <3>3
  <2>2. CASE EndCall(t, "interrupted")
    BY <2>2, <1>0, EndCallType, EndCallHolds DEF Outcomes
  <2> QED BY <1>15, <2>1, <2>2, InterruptWays
<1>16. CASE TimeOut(t)
  <2>1. CASE EndCall(t, "AdbError")
    BY <2>1, <1>0, EndCallType, EndCallHolds DEF Outcomes
  <2>2. CASE ~EndCall(t, "AdbError")
    <3>1. Goto(t, "remove") /\ UNCHANGED <<local, outcome>> /\ pc[t] = "receive"
      BY <1>16, <2>2 DEF TimeOut
    <3> QED BY <3>1, <1>0, GotoType, GotoHolds DEF Labels, Holding, local
  <2> QED BY <2>1, <2>2
<1>17. CASE RemoveTimedOut(t)
  <2>1. EndCall(t, "Sl4aRpcTimeoutError") \/ EndCall(t, "ValueError")
    BY <1>17 DEF RemoveTimedOut
  <2> QED BY <2>1, <1>0, EndCallType, EndCallHolds DEF Outcomes
<1>18. CASE Release(t)
  <2>1. CASE conn[t] \in working /\ reply[t] # NoReply
    <3>1. /\ pc' = [pc EXCEPT ![t] = "check"]
          /\ conn' = [conn EXCEPT ![t] = NoConn]
          /\ UNCHANGED <<ticket, tries, reply, outcome>>
      BY <1>18, <2>1 DEF Release, Goto
    <3>2. ThreadType'
      BY <3>1, <1>0 DEF ThreadType, Labels
    <3>3. HoldsConn'
      BY <3>1, <1>0 DEF ThreadType, HoldsConn, Holding
    <3> QED BY <3>2, <3>3
  <2>2. CASE ~(conn[t] \in working /\ reply[t] # NoReply)
    <3>1. EndCall(t, outcome[t]) \/ EndCall(t, "ValueError")
      BY <1>18, <2>2 DEF Release
    <3>2. outcome[t] \in Outcomes /\ "ValueError" \in Outcomes
      BY <1>0 DEF ThreadType, Outcomes
    <3> QED BY <3>1, <3>2, <1>0, EndCallType, EndCallHolds
  <2> QED BY <2>1, <2>2
<1>19. CASE Check(t)
  <2>1. CASE EndCall(t, "Sl4aApiError") \/ EndCall(t, "mismatched id")
    BY <2>1, <1>0, EndCallType, EndCallHolds DEF Outcomes
  <2>2. CASE ~(EndCall(t, "Sl4aApiError") \/ EndCall(t, "mismatched id"))
    <3>1. Goto(t, "return") /\ UNCHANGED <<local, outcome>> /\ pc[t] = "check"
      BY <1>19, <2>2 DEF Check
    <3> QED BY <3>1, <1>0, GotoType, GotoHolds DEF Labels, Holding, local
  <2> QED BY <2>1, <2>2
<1>20. CASE Return(t)
  <2>1. EndCall(t, "result")
    BY <1>20 DEF Return
  <2> QED BY <2>1, <1>0, EndCallType, EndCallHolds DEF Outcomes
<1> QED
  BY <1>1, <1>2, <1>3, <1>4, <1>5, <1>6, <1>7, <1>8, <1>9, <1>10, <1>11, <1>12,
     <1>13, <1>14, <1>15, <1>16, <1>17, <1>18, <1>19, <1>20 DEF Step, Proceed

(* What a step of a thread does to the state the threads share.            *)
LEMMA StepShared ==
  ASSUME TypeOK, HoldsConn, NEW t \in Threads, Step(t)
  PROVE  PoolType' /\ WireType' /\ OtherType'
<1> USE DEF TypeOK
<1>1. CASE StartCall(t)
  BY <1>1 DEF StartCall, PoolType, WireType, OtherType, pool, wire, terminator
<1>2. CASE RunFuture(t)
  BY <1>2 DEF RunFuture, PoolType, WireType, OtherType, pool, wire, terminator
<1>3. CASE LookForFree(t) \/ Count(t)
  BY <1>3 DEF LookForFree, Count, PoolType, WireType, OtherType, pool, wire, history, terminator
<1>4. CASE LockToPop(t) \/ LockToCreate(t)
  BY <1>4 DEF LockToPop, LockToCreate, PoolType, WireType, OtherType, wire, history, terminator
<1>5. CASE Pop(t)
  <2>1. Front(free) \in Seq(Conns) \/ free = <<>>
    BY FrontLemma DEF PoolType
  <2>2. lock' \in {lock, NoThread} /\ (free' = free \/ (free # <<>> /\ free' = Front(free)))
    BY <1>5 DEF Pop
  <2>3. UNCHANGED <<working, alive, wire, history, terminator>>
    BY <1>5 DEF Pop
  <2> QED BY <2>1, <2>2, <2>3 DEF PoolType, WireType, OtherType, wire, history, terminator
<1>6. CASE Create(t)
  <2>1. lock' \in {lock, NoThread} /\ made' \in SUBSET Conns
    BY <1>6 DEF Create, WireType
  <2>2. UNCHANGED <<free, working, alive, closed, broken, counter, pending, history, terminator>>
    BY <1>6 DEF Create
  <2> QED BY <2>1, <2>2 DEF PoolType, WireType, OtherType, history, terminator
<1>7. CASE AppendWorking(t)
  <2>1. conn[t] \in Conns
    BY <1>7 DEF AppendWorking, HoldsConn, Holding
  <2> QED BY <1>7, <2>1 DEF AppendWorking, PoolType, WireType, OtherType, wire, history, terminator
<1>8. CASE Encode(t)
  <2>1. conn[t] \in Conns
    BY <1>8 DEF Encode, HoldsConn, Holding
  <2>2. /\ counter' = [counter EXCEPT ![conn[t]] = @ + 1]
        /\ UNCHANGED <<pool, made, closed, broken, pending, calls, queued, submitted, terminator>>
        /\ lost' \in {lost, lost \union {conn[t]}}
    BY <1>8 DEF Encode, Lose
  <2> QED BY <2>1, <2>2 DEF PoolType, WireType, OtherType, pool, terminator
<1>9. CASE Send(t)
  <2>1. conn[t] \in Conns
    BY <1>9 DEF Send, HoldsConn, Holding
  <2> DEFINE r == [id |-> ticket[t], call |-> <<t, calls[t]>>]
  <2>2. r \in Requests
    BY DEF ThreadType, OtherType, Requests
  <2> HIDE DEF r
  <2>3. pending' = pending \/ pending' = [pending EXCEPT ![conn[t]] = Append(@, r)]
    BY <1>9 DEF Send, r
  <2>4. UNCHANGED <<pool, made, closed, broken, counter, history, terminator>>
    BY <1>9 DEF Send
  <2>a. Append(pending[conn[t]], r) \in Seq(Requests)
    BY <2>1, <2>2, AppendProperties DEF WireType
  <2>5. pending' \in [Conns -> Seq(Requests)]
    BY <2>1, <2>3, <2>a DEF WireType
  <2> QED BY <2>4, <2>5 DEF PoolType, WireType, OtherType, pool, history, terminator
<1>10. CASE Receive(t)
  <2>1. conn[t] \in Conns /\ pending[conn[t]] # <<>>
    BY <1>10 DEF Receive, HoldsConn, Holding
  <2>2. /\ pending' = [pending EXCEPT ![conn[t]] = Tail(@)]
        /\ UNCHANGED <<pool, made, closed, broken, counter, history, terminator>>
    BY <1>10 DEF Receive
  <2>3. pending' \in [Conns -> Seq(Requests)]
    BY <2>1, <2>2, HeadTailProperties DEF WireType
  <2> QED BY <2>2, <2>3 DEF PoolType, WireType, OtherType, pool, history, terminator
<1>11. CASE ReceiveNothing(t) \/ PipeBreaks(t) \/ Check(t) \/ Return(t)
  <2>1. UNCHANGED <<pool, wire, history, terminator>>
    BY <1>11 DEF ReceiveNothing, PipeBreaks, Check, Return
  <2> QED BY <2>1 DEF PoolType, WireType, OtherType, pool, wire, history, terminator
<1>12. CASE TimeOut(t)
  <2>1. conn[t] \in Conns
    BY <1>12 DEF TimeOut, HoldsConn, Holding
  <2>2. /\ closed' = closed \union {conn[t]}
        /\ UNCHANGED <<pool, made, broken, counter, pending, calls, queued, submitted, terminator>>
        /\ lost' \in {lost, lost \union {conn[t]}}
    BY <1>12 DEF TimeOut, Lose
  <2> QED BY <2>1, <2>2 DEF PoolType, WireType, OtherType, pool, terminator
<1>13. CASE RemoveTimedOut(t)
  <2>1. /\ working' = working \ {conn[t]}
        /\ UNCHANGED <<free, lock, alive, wire, history, terminator>>
    BY <1>13 DEF RemoveTimedOut
  <2> QED BY <2>1 DEF PoolType, WireType, OtherType, wire, history, terminator
<1>14. CASE Release(t)
  <2>1. \/ /\ conn[t] \in working /\ working' = working \ {conn[t]}
           /\ free' = Append(free, conn[t])
        \/ UNCHANGED <<free, working>>
    BY <1>14 DEF Release
  <2>2. UNCHANGED <<lock, alive, wire, history, terminator>>
    BY <1>14 DEF Release
  <2>3. conn[t] \in working => Append(free, conn[t]) \in Seq(Conns)
    BY AppendProperties DEF PoolType
  <2> QED BY <2>1, <2>2, <2>3 DEF PoolType, WireType, OtherType, wire, history, terminator
<1>15. CASE Interrupt(t)
  <2>1. UNCHANGED <<free, alive, wire, calls, queued, submitted, terminator>>
    BY <1>15, InterruptWays
  <2>2. /\ working' \subseteq working /\ lock' \in {lock, NoThread}
        /\ lost' = lost \/ (conn[t] \in Conns /\ lost' = lost \union {conn[t]})
    BY <1>15, InterruptPool
  <2> QED BY <2>1, <2>2 DEF PoolType, WireType, OtherType, wire, terminator
<1> QED
  BY <1>1, <1>2, <1>3, <1>4, <1>5, <1>6, <1>7, <1>8, <1>9, <1>10, <1>11, <1>12,
     <1>13, <1>14, <1>15 DEF Step, Proceed

LEMMA NextType == TypeOK /\ HoldsConn /\ [Next]_vars => TypeOK' /\ HoldsConn'
<1> SUFFICES ASSUME TypeOK, HoldsConn, [Next]_vars PROVE TypeOK' /\ HoldsConn'
  OBVIOUS
<1>1. CASE \E t \in Threads : Step(t)
  BY <1>1, StepLocal, StepShared DEF TypeOK, LocalInv
<1>2. CASE SubmitFuture
  <2>1. /\ queued' = queued + 1 /\ submitted' = submitted + 1
        /\ UNCHANGED <<pool, wire, pc, local, outcome, calls, lost, terminator>>
    BY <1>2 DEF SubmitFuture
  <2> QED BY <2>1 DEF TypeOK, PoolType, WireType, ThreadType, OtherType, HoldsConn, pool, wire, local, terminator
<1>3. CASE Terminate
  <2>1. UNCHANGED <<pc, local, outcome, history, lock, made, broken, counter, pending>>
    BY <1>3 DEF Terminate, TermReadFree, TermReadWorking, TermClose, TermEmptyFree,
                TermEmptyWorking, TermClearAlive, pool, wire, history
  <2>2. ToSet(free) \subseteq Conns
    BY DEF TypeOK, PoolType, ToSet
  <2>3. /\ free' \in {free, <<>>} /\ working' \in {working, {}} /\ (UNCHANGED alive \/ alive' = FALSE)
        /\ closed' \in SUBSET Conns
    BY <1>3 DEF Terminate, TermReadFree, TermReadWorking, TermClose, TermEmptyFree,
                TermEmptyWorking, TermClearAlive, pool, wire, TypeOK, WireType, OtherType
  <2>4. term' \in TermLabels /\ snapshot' \in SUBSET Conns
    BY <1>3, <2>2 DEF Terminate, TermReadFree, TermReadWorking, TermClose, TermEmptyFree,
                TermEmptyWorking, TermClearAlive, AtTerm, TypeOK, OtherType, PoolType, TermLabels
  <2>a. /\ free \in Seq(Conns) /\ <<>> \in Seq(Conns)
        /\ working \in SUBSET Conns /\ {} \in SUBSET Conns /\ alive \in BOOLEAN
    BY EmptySeq DEF TypeOK, PoolType
  <2>c. free' \in Seq(Conns) /\ working' \in SUBSET Conns /\ alive' \in BOOLEAN
    BY <2>3, <2>a, Zenon
  <2>5. PoolType' /\ WireType'
    BY <2>1, <2>3, <2>c DEF TypeOK, PoolType, WireType
  <2>6. ThreadType' /\ HoldsConn'
    BY <2>1 DEF TypeOK, ThreadType, HoldsConn, local
  <2> QED BY <2>1, <2>4, <2>5, <2>6 DEF TypeOK, OtherType, history
<1>4. CASE \E c \in Conns : ServerDrops(c)
  <2>1. PICK c \in Conns : ServerDrops(c)
    BY <1>4
  <2>2. /\ broken' = broken \union {c}
        /\ pending' = [pending EXCEPT ![c] = <<>>]
        /\ UNCHANGED <<pool, made, closed, counter, pc, local, outcome, history, terminator>>
    BY <2>1 DEF ServerDrops
  <2> QED BY <2>2 DEF TypeOK, PoolType, WireType, ThreadType, OtherType, HoldsConn,
                      pool, local, history, terminator
<1>5. CASE UNCHANGED vars
  BY <1>5 DEF vars, TypeOK, PoolType, WireType, ThreadType, OtherType, HoldsConn,
              pool, wire, local, history, terminator
<1> QED
  BY <1>1, <1>2, <1>3, <1>4, <1>5 DEF Next, Done

(* The client's variables keep their types, whatever the threads, the      *)
(* server and terminate() do.                                              *)
THEOREM Typing == Spec => []TypeOK
<1>1. Spec => [](TypeOK /\ HoldsConn)
  BY InitType, NextType, PTL DEF Spec
<1> QED
  BY <1>1, PTL

-----------------------------------------------------------------------------
(* A connection is in one place at a time.  Every step does one of a few   *)
(* things to the lists, the locals and the set of connections created.     *)
Keep == UNCHANGED <<free, working, conn, made>>
Forget(t) == /\ conn' = [conn EXCEPT ![t] = NoConn]
             /\ UNCHANGED <<free, working, made>>
Take(t) == /\ conn[t] \notin Conns /\ free # <<>>
           /\ conn' = [conn EXCEPT ![t] = Last(free)]
           /\ free' = Front(free)
           /\ UNCHANGED <<working, made>>
New(t) == /\ conn[t] \notin Conns
          /\ \E c \in Conns \ made :
               /\ conn' = [conn EXCEPT ![t] = c]
               /\ made' = made \union {c}
               /\ UNCHANGED <<free, working>>
List(t) == /\ conn[t] \in Conns
           /\ working' = working \union {conn[t]}
           /\ UNCHANGED <<free, conn, made>>
Retire(t) == /\ working' = working \ {conn[t]}
             /\ conn' = [conn EXCEPT ![t] = NoConn]
             /\ UNCHANGED <<free, made>>
GiveBack(t) == /\ conn[t] \in Conns /\ conn[t] \in working
               /\ working' = working \ {conn[t]}
               /\ free' = Append(free, conn[t])
               /\ conn' = [conn EXCEPT ![t] = NoConn]
               /\ UNCHANGED made
EmptyLists == /\ free' = free \/ free' = <<>>
              /\ working' = working \/ working' = {}
              /\ UNCHANGED <<conn, made>>

Effect(t) == \/ Keep \/ Forget(t) \/ Take(t) \/ New(t) \/ List(t)
             \/ Retire(t) \/ GiveBack(t)

LEMMA EndCallForgets ==
  ASSUME NEW t, NEW how, EndCall(t, how), UNCHANGED <<free, working, made>>
  PROVE  Forget(t)
BY DEF EndCall, Forget

LEMMA StepEffect ==
  ASSUME TypeOK, HoldsConn, NEW t \in Threads, Step(t)
  PROVE  Effect(t)
<1> USE DEF Effect
<1>1. CASE StartCall(t)
  BY <1>1, EndCallForgets DEF StartCall, Keep, pool, wire, local
<1>2. CASE RunFuture(t) \/ LookForFree(t) \/ Count(t)
  BY <1>2 DEF RunFuture, LookForFree, Count, Keep, pool, wire, local
<1>3. CASE LockToPop(t) \/ LockToCreate(t)
  BY <1>3 DEF LockToPop, LockToCreate, Keep, wire, local
<1>4. CASE Pop(t)
  <2>1. pc[t] = "pop" /\ UNCHANGED <<working, made>>
    BY <1>4 DEF Pop, wire
  <2>2. conn[t] \notin Conns
    BY <2>1 DEF HoldsConn, Holding
  <2>3. CASE free = <<>>
    <3>1. EndCall(t, "IndexError") /\ UNCHANGED free
      BY <1>4, <2>3 DEF Pop
    <3> QED BY <2>1, <3>1, EndCallForgets
  <2>4. CASE free # <<>>
    <3>1. conn' = [conn EXCEPT ![t] = Last(free)] /\ free' = Front(free)
      BY <1>4, <2>4 DEF Pop
    <3> QED BY <2>1, <2>2, <2>4, <3>1 DEF Take
  <2> QED BY <2>3, <2>4
<1>5. CASE Create(t)
  <2>1. UNCHANGED <<free, working>> /\ conn[t] \notin Conns
    BY <1>5 DEF Create, HoldsConn, Holding
  <2>2. CASE EndCall(t, "create failed") /\ UNCHANGED made
    BY <2>1, <2>2, EndCallForgets
  <2>3. CASE ~(EndCall(t, "create failed") /\ UNCHANGED made)
    <3>1. PICK c \in Conns \ made : made' = made \union {c} /\ conn' = [conn EXCEPT ![t] = c]
      BY <1>5, <2>3 DEF Create
    <3> QED BY <2>1, <3>1 DEF New
  <2> QED BY <2>2, <2>3
<1>6. CASE AppendWorking(t)
  <2>1. conn[t] \in Conns
    BY <1>6 DEF AppendWorking, HoldsConn, Holding
  <2> QED BY <1>6, <2>1 DEF AppendWorking, List, wire, local
<1>7. CASE Encode(t)
  <2>1. UNCHANGED <<free, working, made>>
    BY <1>7 DEF Encode, pool
  <2>2. UNCHANGED conn \/ EndCall(t, "TypeError")
    BY <1>7 DEF Encode
  <2> QED BY <2>1, <2>2, EndCallForgets DEF Keep
<1>8. CASE Send(t) \/ Receive(t) \/ ReceiveNothing(t) \/ PipeBreaks(t)
  BY <1>8 DEF Send, Receive, ReceiveNothing, PipeBreaks, Keep, pool, wire, local
<1>9. CASE TimeOut(t)
  <2>1. UNCHANGED <<free, working, made>>
    BY <1>9 DEF TimeOut, pool
  <2>2. UNCHANGED conn \/ EndCall(t, "AdbError")
    BY <1>9 DEF TimeOut, local
  <2> QED BY <2>1, <2>2, EndCallForgets DEF Keep
<1>10. CASE RemoveTimedOut(t)
  <2>1. working' = working \ {conn[t]} /\ UNCHANGED <<free, made>>
    BY <1>10 DEF RemoveTimedOut, wire
  <2>2. conn' = [conn EXCEPT ![t] = NoConn]
    BY <1>10 DEF RemoveTimedOut, EndCall
  <2> QED BY <2>1, <2>2 DEF Retire
<1>11. CASE Release(t)
  <2>1. UNCHANGED made /\ conn[t] \in Conns
    BY <1>11 DEF Release, wire, HoldsConn, Holding
  <2>2. conn' = [conn EXCEPT ![t] = NoConn]
    BY <1>11 DEF Release, EndCall
  <2>3. \/ /\ conn[t] \in working /\ working' = working \ {conn[t]}
           /\ free' = Append(free, conn[t])
        \/ UNCHANGED <<free, working>>
    BY <1>11 DEF Release
  <2> QED BY <2>1, <2>2, <2>3 DEF GiveBack, Forget
<1>12. CASE Check(t) \/ Return(t)
  <2>1. UNCHANGED <<free, working, made>>
    BY <1>12 DEF Check, Return, pool, wire
  <2>2. UNCHANGED conn \/ \E how \in Outcomes : EndCall(t, how)
    BY <1>12 DEF Check, Return, local, Outcomes
  <2> QED BY <2>1, <2>2, EndCallForgets DEF Keep
<1>13. CASE Interrupt(t)
  <2>1. UNCHANGED <<free, made>>
    BY <1>13, InterruptWays DEF wire
  <2>2. \/ UNCHANGED <<working, conn>>
        \/ EndCall(t, "interrupted") /\ UNCHANGED working
        \/ EndCall(t, "interrupted") /\ working' = working \ {conn[t]}
    BY <1>13, InterruptPool
  <2> QED BY <2>1, <2>2, EndCallForgets DEF Keep, Retire, EndCall
<1> QED
  BY <1>1, <1>2, <1>3, <1>4, <1>5, <1>6, <1>7, <1>8, <1>9, <1>10, <1>11, <1>12, <1>13
     DEF Step, Proceed

(* Everything the client refers to was created by it.                      *)
Tracked == /\ ToSet(free) \subseteq made
           /\ working \subseteq made
           /\ \A t \in Threads : conn[t] \in Conns => conn[t] \in made

(* No connection is offered twice, nor offered while listed as working.    *)
FreeDistinct == \A i, j \in 1 .. Len(free) : free[i] = free[j] => i = j
Disjoint == ToSet(free) \intersect working = {}

(* The inductive strengthening of ConnectionExclusive: a created           *)
(* connection is fresh only because nothing outside `made' is referred to, *)
(* and a popped one is nobody's only because the stack repeats nothing.    *)
Apart == ConnectionExclusive /\ Tracked /\ FreeDistinct /\ Disjoint

LEMMA InitApart == Init => Apart
<1> SUFFICES ASSUME Init PROVE Apart
  OBVIOUS
<1>1. PICK c \in Conns : free = <<c>> /\ made = {c}
  BY DEF Init
<1>2. ToSet(free) = {c} /\ Len(free) = 1
  BY <1>1 DEF ToSet
<1> QED
  BY <1>2, <1>1, ConnsAssumption DEF Init, Apart, ConnectionExclusive, Tracked, FreeDistinct, Disjoint

(* The elements of the stack, by index.                                    *)
LEMMA FreeElements ==
  ASSUME TypeOK
  PROVE  /\ Len(free) \in Nat
         /\ \A c : c \in ToSet(free) <=> \E i \in 1 .. Len(free) : free[i] = c
         /\ ToSet(free) \subseteq Conns
BY LenProperties DEF TypeOK, PoolType, ToSet

(* What Take does to the elements of the stack: its top is gone.           *)
LEMMA TakeElements ==
  ASSUME TypeOK, TypeOK', FreeDistinct, NEW t \in Threads, Take(t)
  PROVE  /\ Last(free) \in Conns /\ Last(free) \in ToSet(free)
         /\ ToSet(free') = ToSet(free) \ {Last(free)}
         /\ FreeDistinct'
<1> DEFINE n == Len(free)
           c == Last(free)
<1>1. /\ free \in Seq(Conns) /\ n \in Nat \ {0} /\ c = free[n]
      /\ free' \in Seq(Conns) /\ Len(free') = n - 1
      /\ \A i \in 1 .. n - 1 : free'[i] = free[i]
      /\ c \in Conns
  <2>1. free \in Seq(Conns) /\ free # <<>> /\ free' = Front(free)
    BY DEF TypeOK, PoolType, Take
  <2>2. n \in Nat \ {0}
    BY <2>1, LenProperties, EmptySeq
  <2> QED BY <2>1, <2>2, FrontLemma DEF Last
<1>2. \A d : d \in ToSet(free) <=> \E i \in 1 .. n : free[i] = d
  BY FreeElements
<1>3. \A d : d \in ToSet(free') <=> \E i \in 1 .. n - 1 : free'[i] = d
  BY <1>1, LenProperties DEF ToSet
<1>4. \A i, j \in 1 .. n : free[i] = free[j] => i = j
  BY DEF FreeDistinct
<1>5. \A d \in ToSet(free') : d \in ToSet(free) /\ d # c
  BY <1>1, <1>2, <1>3, <1>4
<1>6. \A d \in ToSet(free) : d # c => d \in ToSet(free')
  BY <1>1, <1>2, <1>3
<1>7. c \in ToSet(free)
  BY <1>1, <1>2
<1>8. FreeDistinct'
  BY <1>1 DEF FreeDistinct
<1> QED
  BY <1>1, <1>5, <1>6, <1>7, <1>8

LEMMA TakeApart ==
  ASSUME TypeOK, TypeOK', Apart, NEW t \in Threads, Take(t)
  PROVE  Apart'
<1> DEFINE c == Last(free)
<1>1. /\ c \in Conns /\ c \in ToSet(free)
      /\ ToSet(free') = ToSet(free) \ {c}
      /\ FreeDistinct'
  BY TakeElements DEF Apart
<1> HIDE DEF c
<1>2. /\ conn' = [conn EXCEPT ![t] = c] /\ UNCHANGED <<working, made>>
      /\ conn \in [Threads -> Conns \union {NoConn}]
  BY DEF Take, TypeOK, ThreadType, c
<1>3. ConnectionExclusive'
  BY <1>1, <1>2, ConnsAssumption DEF Apart, ConnectionExclusive
<1>4. Tracked' /\ Disjoint'
  BY <1>1, <1>2 DEF Apart, Tracked, Disjoint
<1> QED
  BY <1>1, <1>3, <1>4 DEF Apart

(* What GiveBack does to them: the connection of t is on top.              *)
LEMMA GiveBackElements ==
  ASSUME TypeOK, TypeOK', NEW t \in Threads, GiveBack(t)
  PROVE  /\ ToSet(free') = ToSet(free) \union {conn[t]}
         /\ FreeDistinct /\ conn[t] \notin ToSet(free) => FreeDistinct'
<1> DEFINE n == Len(free)
           c == conn[t]
<1>1. /\ free \in Seq(Conns) /\ n \in Nat /\ c \in Conns
      /\ free' \in Seq(Conns) /\ Len(free') = n + 1
      /\ \A i \in 1 .. n : free'[i] = free[i]
      /\ free'[n + 1] = c
  <2>1. free \in Seq(Conns) /\ c \in Conns /\ free' = Append(free, c)
    BY DEF TypeOK, PoolType, GiveBack
  <2> QED BY <2>1, LenProperties, AppendProperties
<1>2. \A d : d \in ToSet(free) <=> \E i \in 1 .. n : free[i] = d
  BY FreeElements
<1>3. \A d : d \in ToSet(free') <=> \E i \in 1 .. n + 1 : free'[i] = d
  BY <1>1, LenProperties DEF ToSet
<1>4. \A d \in ToSet(free') : d \in ToSet(free) \/ d = c
  BY <1>1, <1>2, <1>3
<1>5. \A d \in ToSet(free) : d \in ToSet(free')
  BY <1>1, <1>2, <1>3
<1>6. c \in ToSet(free')
  BY <1>1, <1>3
<1>7. FreeDistinct /\ c \notin ToSet(free) => FreeDistinct'
  BY <1>1, <1>2 DEF FreeDistinct
<1> QED
  BY <1>4, <1>5, <1>6, <1>7

LEMMA GiveBackApart ==
  ASSUME TypeOK, TypeOK', Apart, NEW t \in Threads, GiveBack(t)
  PROVE  Apart'
<1> DEFINE c == conn[t]
<1>1. /\ c \in Conns /\ conn' = [conn EXCEPT ![t] = NoConn]
      /\ working' = working \ {c} /\ UNCHANGED made
      /\ conn \in [Threads -> Conns \union {NoConn}]
  BY DEF GiveBack, TypeOK, ThreadType
<1>2. c \notin ToSet(free) /\ \A u \in Threads \ {t} : conn[u] # c
  BY <1>1, ConnsAssumption DEF Apart, ConnectionExclusive
<1>3. ToSet(free') = ToSet(free) \union {c} /\ FreeDistinct'
  BY <1>2, GiveBackElements DEF Apart
<1>4. c \in made
  BY <1>1 DEF Apart, Tracked
<1> HIDE DEF c
<1>5. ConnectionExclusive'
  BY <1>1, <1>2, <1>3 DEF Apart, ConnectionExclusive
<1>6. Tracked' /\ Disjoint'
  BY <1>1, <1>3, <1>4, ConnsAssumption DEF Apart, Tracked, Disjoint
<1> QED
  BY <1>3, <1>5, <1>6 DEF Apart

LEMMA EffectApart ==
  ASSUME TypeOK, TypeOK', Apart, NEW t \in Threads, Effect(t)
  PROVE  Apart'
<1>0. /\ conn \in [Threads -> Conns \union {NoConn}]
      /\ ToSet(free) \subseteq Conns
  BY FreeElements DEF TypeOK, ThreadType
<1> USE <1>0, ConnsAssumption
<1>1. CASE Keep
  BY <1>1 DEF Keep, Apart, ConnectionExclusive, Tracked, FreeDistinct, Disjoint
<1>2. CASE Forget(t)
  BY <1>2 DEF Forget, Apart, ConnectionExclusive, Tracked, FreeDistinct, Disjoint
<1>3. CASE Take(t)
  BY <1>3, TakeApart
<1>4. CASE New(t)
  <2>1. PICK c \in Conns \ made : /\ conn' = [conn EXCEPT ![t] = c]
                                  /\ made' = made \union {c}
                                  /\ UNCHANGED <<free, working>>
    BY <1>4 DEF New
  <2>2. c \notin ToSet(free) /\ \A u \in Threads : conn[u] # c
    BY <2>1 DEF Apart, Tracked
  <2>3. ConnectionExclusive'
    BY <2>1, <2>2 DEF Apart, ConnectionExclusive
  <2>4. Tracked' /\ FreeDistinct' /\ Disjoint'
    BY <2>1 DEF Apart, Tracked, FreeDistinct, Disjoint
  <2> QED BY <2>3, <2>4 DEF Apart
<1>5. CASE List(t)
  <2>1. conn[t] \notin ToSet(free)
    BY <1>5 DEF List, Apart, ConnectionExclusive
  <2> QED BY <1>5, <2>1 DEF List, Apart, ConnectionExclusive, Tracked, FreeDistinct, Disjoint
<1>6. CASE Retire(t)
  BY <1>6 DEF Retire, Apart, ConnectionExclusive, Tracked, FreeDistinct, Disjoint
<1>7. CASE GiveBack(t)
  BY <1>7, GiveBackApart
<1> QED
  BY <1>1, <1>2, <1>3, <1>4, <1>5, <1>6, <1>7 DEF Effect

(* The steps that are no call's.                                           *)
LEMMA OthersEmptyLists ==
  [Next]_vars /\ ~(\E t \in Threads : Step(t)) => EmptyLists
BY DEF Next, SubmitFuture, Terminate, TermReadFree, TermReadWorking, TermClose,
       TermEmptyFree, TermEmptyWorking, TermClearAlive, ServerDrops, Done, vars,
       pool, wire, local, EmptyLists

LEMMA NextApart == TypeOK /\ HoldsConn /\ Apart /\ [Next]_vars => Apart'
<1> SUFFICES ASSUME TypeOK, HoldsConn, Apart, [Next]_vars PROVE Apart'
  OBVIOUS
<1>0. TypeOK'
  BY NextType
<1>1. CASE \E t \in Threads : Step(t)
  BY <1>0, <1>1, StepEffect, EffectApart
<1>2. CASE ~\E t \in Threads : Step(t)
  <2>1. EmptyLists
    BY <1>2, OthersEmptyLists
  <2>2. ToSet(free') \subseteq ToSet(free) /\ working' \subseteq working
    BY <2>1 DEF EmptyLists, ToSet
  <2>3. FreeDistinct'
    BY <2>1 DEF EmptyLists, Apart, FreeDistinct
  <2>4. UNCHANGED <<conn, made>>
    BY <2>1 DEF EmptyLists
  <2> QED BY <2>2, <2>3, <2>4 DEF Apart, ConnectionExclusive, Tracked, Disjoint
<1> QED
  BY <1>1, <1>2

(* No two threads ever use one connection and none that is used is on      *)
(* offer: "prevent multiple users from obtaining the same client".         *)
THEOREM Exclusive == Spec => []ConnectionExclusive
<1>1. Spec => [](TypeOK /\ HoldsConn /\ Apart)
  BY InitType, InitApart, NextType, NextApart, PTL DEF Spec
<1>2. Apart => ConnectionExclusive
  BY DEF Apart
<1> QED
  BY <1>1, <1>2, PTL

-----------------------------------------------------------------------------
LEMMA EmptyListsLeases == EmptyLists => [Lease!Next]_(Lease!vars)
<1> SUFFICES ASSUME EmptyLists PROVE [Lease!Next]_(Lease!vars)
  OBVIOUS
<1>1. UNCHANGED <<conn, made>> /\ (free' = free \/ free' = <<>>)
  BY DEF EmptyLists
<1>2. CASE free' = free
  BY <1>1, <1>2 DEF Lease!vars
<1>3. CASE free' = <<>>
  <2>1. ToSet(free') = {}
    BY <1>3 DEF ToSet
  <2> QED BY <1>1, <2>1 DEF Lease!Next, Lease!Withdraw
<1> QED
  BY <1>1, <1>2, <1>3

(* Every effect of a call is a step of a lease, or leaves the leases alone. *)
LEMMA EffectLeases ==
  ASSUME TypeOK, TypeOK', Apart, NEW t \in Threads, Effect(t)
  PROVE  [Lease!Next]_(Lease!vars)
<1>0. conn \in [Threads -> Conns \union {NoConn}] /\ NoConn \notin Conns
  BY ConnsAssumption DEF TypeOK, ThreadType
<1> USE DEF Lease!Next, Lease!vars
<1>1. CASE Keep \/ List(t)
  BY <1>1 DEF Keep, List
<1>2. CASE Forget(t) \/ Retire(t)
  <2>1. conn' = [conn EXCEPT ![t] = NoConn] /\ UNCHANGED <<free, made>>
    BY <1>2 DEF Forget, Retire
  <2>2. CASE conn[t] = NoConn
    BY <1>0, <2>1, <2>2
  <2>3. CASE conn[t] # NoConn
    BY <2>1, <2>3 DEF Lease!Drop
  <2> QED BY <2>2, <2>3
<1>3. CASE Take(t)
  <2>1. Last(free) \in ToSet(free) /\ ToSet(free') = ToSet(free) \ {Last(free)}
    BY <1>3, TakeElements DEF Apart
  <2>2. conn[t] = NoConn /\ conn' = [conn EXCEPT ![t] = Last(free)] /\ UNCHANGED made
    BY <1>0, <1>3 DEF Take
  <2>3. Last(free) \notin Lease!Leased
    BY <2>1 DEF Apart, ConnectionExclusive, Lease!Leased
  <2>4. Lease!Take(t)
    BY <2>1, <2>2, <2>3 DEF Lease!Take
  <2> QED BY <2>4
<1>4. CASE New(t)
  <2>1. conn[t] = NoConn
    BY <1>0, <1>4 DEF New
  <2>2. Lease!Make(t)
    BY <1>4, <2>1 DEF New, Lease!Make
  <2> QED BY <2>2
<1>5. CASE GiveBack(t)
  <2>1. ToSet(free') = ToSet(free) \union {conn[t]}
    BY <1>5, GiveBackElements
  <2>2. Lease!Give(t)
    BY <1>0, <1>5, <2>1 DEF GiveBack, Lease!Give
  <2> QED BY <2>2
<1> QED
  BY <1>1, <1>2, <1>3, <1>4, <1>5 DEF Effect

LEMMA InitLeases == Init => Lease!Init
<1> SUFFICES ASSUME Init PROVE Lease!Init
  OBVIOUS
<1>1. PICK c \in Conns : free = <<c>> /\ made = {c}
  BY DEF Init
<1>2. ToSet(free) = {c}
  BY <1>1 DEF ToSet
<1> QED
  BY <1>1, <1>2 DEF Init, Lease!Init

LEMMA NextLeases ==
  TypeOK /\ HoldsConn /\ Apart /\ [Next]_vars => [Lease!Next]_(Lease!vars)
<1> SUFFICES ASSUME TypeOK, HoldsConn, Apart, [Next]_vars PROVE [Lease!Next]_(Lease!vars)
  OBVIOUS
<1>0. TypeOK'
  BY NextType
<1>1. CASE \E t \in Threads : Step(t)
  BY <1>0, <1>1, StepEffect, EffectLeases
<1>2. CASE ~\E t \in Threads : Step(t)
  BY <1>2, OthersEmptyLists, EmptyListsLeases
<1> QED
  BY <1>1, <1>2

(* The pool implements ConnectionLease: whatever the interleaving, a call  *)
(* gets a connection that is new or on offer and that nobody holds, and    *)
(* one that was given up or withdrawn is never on offer again.             *)
THEOREM Implements == Spec => ImplementsLease
<1>1. Spec => [](TypeOK /\ HoldsConn /\ Apart)
  BY InitType, InitApart, NextType, NextApart, PTL DEF Spec
<1>2. Init => Lease!Init
  BY InitLeases
<1>3. TypeOK /\ HoldsConn /\ Apart /\ [Next]_vars => [Lease!Next]_(Lease!vars)
  BY NextLeases
<1> QED
  BY <1>1, <1>2, <1>3, PTL DEF Spec, ImplementsLease, Lease!Spec

-----------------------------------------------------------------------------
(* The list operations of the pool: under what the two looks at            *)
(* _free_connections and the lock guarantee, pop() and remove() find what  *)
(* they are called for, until terminate() empties the lists.               *)

(* The labels inside the critical section of _get_free_connection.         *)
Critical == {"pop", "create", "append"}
(* The labels at which the thread's connection is listed as working.       *)
Busy == Holding \ {"append"}

LockHeld == \A t \in Threads : pc[t] \in Critical => lock = t
PopFinds == ListsIntact => \A t \in Threads : pc[t] = "pop" => free # <<>>
BusyListed == ListsIntact => \A t \in Threads : pc[t] \in Busy => conn[t] \in working

(* The inductive strengthening of PoolNeverCorrupt: the lock keeps the     *)
(* connection seen under it in place, and what a thread works with stays   *)
(* listed because nobody else holds it.                                    *)
ListInv == LockHeld /\ PopFinds /\ BusyListed /\ PoolNeverCorrupt

LEMMA InitList == Init => ListInv
BY DEF Init, ListInv, LockHeld, PopFinds, BusyListed, PoolNeverCorrupt, Critical, Busy, Holding

(* A step of t that leaves lists, lock and connection alone, and goes to a *)
(* label that demands no more.                                             *)
LEMMA MoveList ==
  ASSUME TypeOK, ListInv, NEW t \in Threads, NEW label \in Labels,
         pc' = [pc EXCEPT ![t] = label],
         UNCHANGED <<free, working, lock, conn, term>>,
         label \notin Critical, label \in Busy => pc[t] \in Busy,
         outcome' = outcome \/
           \E how \in Outcomes \ {"IndexError", "ValueError"} : outcome' = [outcome EXCEPT ![t] = how]
  PROVE  ListInv'
BY DEF TypeOK, ThreadType, ListInv, LockHeld, PopFinds, BusyListed, PoolNeverCorrupt,
       ListsIntact, Critical

(* A call that ends and leaves lists and lock alone.                       *)
LEMMA EndList ==
  ASSUME TypeOK, ListInv, NEW t \in Threads, NEW how \in Outcomes \ {"IndexError", "ValueError"},
         EndCall(t, how), UNCHANGED <<free, working, lock, term>>
  PROVE  ListInv'
BY DEF TypeOK, ThreadType, ListInv, LockHeld, PopFinds, BusyListed, PoolNeverCorrupt,
       ListsIntact, Critical, Busy, Holding, EndCall, Goto

(* The ways out of the working list: nobody else holds the connection  *)
(* that goes, so what the others work with stays listed.                   *)
LEMMA LeaveList ==
  ASSUME TypeOK, HoldsConn, Apart, ListInv, NEW t \in Threads,
         RemoveTimedOut(t) \/ Release(t) \/ (InterruptRelease(t) /\ UNCHANGED terminator)
  PROVE  ListInv'
<1>0. /\ pc \in [Threads -> Labels] /\ conn \in [Threads -> Conns \union {NoConn}]
      /\ outcome \in [Threads -> Outcomes] /\ NoConn \notin Conns
      /\ free \in Seq(Conns)
  BY ConnsAssumption DEF TypeOK, ThreadType, PoolType
<1>1. pc[t] \in Busy /\ UNCHANGED <<lock, term>>
  BY DEF RemoveTimedOut, Release, InterruptRelease, Busy, Holding, terminator
<1>2. conn[t] \in Conns /\ \A u \in Threads \ {t} : conn[u] # conn[t]
  BY <1>0, <1>1 DEF Apart, ConnectionExclusive, HoldsConn, Busy
<1>3. ListsIntact => conn[t] \in working
  BY <1>1 DEF ListInv, BusyListed
<1>4. /\ pc' = [pc EXCEPT ![t] = "idle"] \/ pc' = [pc EXCEPT ![t] = "check"]
      /\ conn' = [conn EXCEPT ![t] = NoConn]
  BY DEF RemoveTimedOut, Release, InterruptRelease, EndCall, Goto
<1>5. /\ free # <<>> => free' # <<>>
      /\ \A c \in working : c # conn[t] => c \in working'
  <2>1. free' = free \/ free' = Append(free, conn[t])
    BY DEF RemoveTimedOut, Release, InterruptRelease
  <2>2. Append(free, conn[t]) # <<>>
    BY <1>0, <1>2, AppendProperties
  <2>3. \A c \in working : c # conn[t] => c \in working'
    BY DEF RemoveTimedOut, Release, InterruptRelease
  <2> QED BY <2>1, <2>2, <2>3
<1>6. LockHeld'
  BY <1>0, <1>1, <1>4 DEF ListInv, LockHeld, Critical
<1>7. PopFinds' /\ BusyListed'
  <2>1. PopFinds'
    BY <1>0, <1>1, <1>4, <1>5 DEF ListInv, PopFinds, ListsIntact
  <2>2. \A u \in Threads : pc'[u] \in Busy => u # t /\ pc[u] \in Busy /\ conn'[u] = conn[u]
    BY <1>0, <1>4 DEF Busy, Holding
  <2>3. BusyListed'
    BY <1>1, <1>2, <1>5, <2>2 DEF ListInv, BusyListed, ListsIntact
  <2> QED BY <2>1, <2>3
<1>8. PoolNeverCorrupt'
  <2> SUFFICES ASSUME ListsIntact, NEW u \in Threads
               PROVE  outcome'[u] \notin {"IndexError", "ValueError"}
    BY <1>1 DEF PoolNeverCorrupt, ListsIntact
  <2>1. outcome[u] \notin {"IndexError", "ValueError"} /\ outcome[t] \notin {"IndexError", "ValueError"}
    BY DEF ListInv, PoolNeverCorrupt
  <2>2. \/ outcome' = outcome
        \/ outcome' = [outcome EXCEPT ![t] = outcome[t]]
        \/ outcome' = [outcome EXCEPT ![t] = "Sl4aRpcTimeoutError"]
        \/ outcome' = [outcome EXCEPT ![t] = "interrupted"]
    BY <1>3 DEF RemoveTimedOut, Release, InterruptRelease, EndCall
  <2> QED BY <1>0, <2>1, <2>2
<1> QED
  BY <1>6, <1>7, <1>8 DEF ListInv

LEMMA StepList ==
  ASSUME TypeOK, HoldsConn, Apart, ListInv, NEW t \in Threads, Step(t)
  PROVE  ListInv'
<1>0. /\ pc \in [Threads -> Labels] /\ conn \in [Threads -> Conns \union {NoConn}]
      /\ outcome \in [Threads -> Outcomes] /\ NoThread \notin Threads /\ NoConn \notin Conns
      /\ working \in SUBSET Conns
  BY ThreadsAssumption, ConnsAssumption DEF TypeOK, ThreadType, PoolType
<1> USE DEF pool, wire, local, history, terminator
<1>1. CASE StartCall(t)
  <2>1. UNCHANGED <<free, working, lock, term>> /\ pc[t] = "idle"
    BY <1>1 DEF StartCall
  <2>2. CASE Goto(t, "get") /\ UNCHANGED <<local, outcome>>
    BY <2>1, <2>2, MoveList DEF Goto, Labels, Critical, Busy, Holding
  <2>3. CASE EndCall(t, "Sl4aStartError")
    BY <2>1, <2>3, EndList DEF Outcomes
  <2> QED BY <1>1, <2>2, <2>3 DEF StartCall
<1>2. CASE RunFuture(t) \/ Count(t)
  BY <1>2, MoveList DEF RunFuture, Count, Goto, Labels, Critical, Busy, Holding
<1>3. CASE LookForFree(t)
  BY <1>3, MoveList DEF LookForFree, Goto, Labels, Critical, Busy, Holding
<1>4. CASE LockToPop(t)
  <2>1. CASE free = <<>>
    BY <1>4, <2>1, MoveList DEF LockToPop, Goto, Labels, Critical, Busy, Holding
  <2>2. CASE free # <<>>
    <3>1. /\ pc' = [pc EXCEPT ![t] = "pop"] /\ lock = NoThread /\ lock' = t
          /\ UNCHANGED <<free, working, conn, term, outcome>>
      BY <1>4, <2>2 DEF LockToPop, Goto
    <3> QED BY <1>0, <2>2, <3>1 DEF ListInv, LockHeld, PopFinds, BusyListed, PoolNeverCorrupt,
                                    ListsIntact, Critical, Busy, Holding
  <2> QED BY <2>1, <2>2
<1>5. CASE Pop(t)
  <2>1. pc[t] = "pop" /\ lock = t /\ \A u \in Threads \ {t} : pc[u] \notin Critical
    BY <1>5 DEF Pop, ListInv, LockHeld, Critical
  <2>2. CASE free = <<>>
    <3>1. ~ListsIntact
      BY <2>1, <2>2 DEF ListInv, PopFinds
    <3>2. /\ pc' = [pc EXCEPT ![t] = "idle"] /\ lock' = NoThread /\ term' = term
      BY <1>5, <2>2 DEF Pop, EndCall, Goto
    <3> QED BY <1>0, <2>1, <3>1, <3>2 DEF ListInv, LockHeld, PopFinds, BusyListed,
                                          PoolNeverCorrupt, ListsIntact, Critical
  <2>3. CASE free # <<>>
    <3>1. /\ pc' = [pc EXCEPT ![t] = "append"] /\ conn' = [conn EXCEPT ![t] = Last(free)]
          /\ UNCHANGED <<lock, working, term, outcome>>
      BY <1>5, <2>3 DEF Pop, Goto
    <3> QED BY <1>0, <2>1, <3>1 DEF ListInv, LockHeld, PopFinds, BusyListed,
                                    PoolNeverCorrupt, ListsIntact, Critical, Busy, Holding
  <2> QED BY <2>2, <2>3
<1>6. CASE LockToCreate(t)
  <2>1. CASE Goto(t, "get") /\ UNCHANGED lock
    BY <1>6, <2>1, MoveList DEF LockToCreate, Goto, Labels, Critical, Busy, Holding
  <2>2. CASE Goto(t, "create") /\ lock' = t
    <3>1. /\ pc' = [pc EXCEPT ![t] = "create"] /\ lock = NoThread /\ lock' = t
          /\ UNCHANGED <<free, working, conn, term, outcome>>
      BY <1>6, <2>2 DEF LockToCreate, Goto
    <3> QED BY <1>0, <3>1 DEF ListInv, LockHeld, PopFinds, BusyListed, PoolNeverCorrupt,
                              ListsIntact, Critical, Busy, Holding
  <2> QED BY <1>6, <2>1, <2>2 DEF LockToCreate
<1>7. CASE Create(t)
  <2>1. /\ pc[t] = "create" /\ lock = t /\ \A u \in Threads \ {t} : pc[u] \notin Critical
        /\ UNCHANGED <<free, working, term>>
    BY <1>7 DEF Create, ListInv, LockHeld, Critical
  <2>2. CASE EndCall(t, "create failed") /\ lock' = NoThread
    BY <1>0, <2>1, <2>2 DEF EndCall, Goto, ListInv, LockHeld, PopFinds, BusyListed,
                            PoolNeverCorrupt, ListsIntact, Critical, Busy, Holding
  <2>3. CASE ~(EndCall(t, "create failed") /\ lock' = NoThread)
    <3>1. PICK c \in Conns : /\ pc' = [pc EXCEPT ![t] = "append"]
                             /\ conn' = [conn EXCEPT ![t] = c] /\ UNCHANGED <<lock, outcome>>
      BY <1>7, <2>3 DEF Create, Goto
    <3> QED BY <1>0, <2>1, <3>1 DEF ListInv, LockHeld, PopFinds, BusyListed,
                                    PoolNeverCorrupt, ListsIntact, Critical, Busy, Holding
  <2> QED BY <2>2, <2>3
<1>8. CASE AppendWorking(t)
  <2>1. /\ pc[t] = "append" /\ lock = t /\ \A u \in Threads \ {t} : pc[u] \notin Critical
        /\ pc' = [pc EXCEPT ![t] = "encode"] /\ lock' = NoThread
        /\ working' = working \union {conn[t]} /\ UNCHANGED <<free, conn, term, outcome>>
    BY <1>8 DEF AppendWorking, Goto, ListInv, LockHeld, Critical
  <2> QED BY <1>0, <2>1 DEF ListInv, LockHeld, PopFinds, BusyListed,
                            PoolNeverCorrupt, ListsIntact, Critical, Busy, Holding
<1>9. CASE Encode(t)
  <2>1. pc[t] = "encode" /\ UNCHANGED <<free, working, lock, term>>
    BY <1>9 DEF Encode
  <2>2. CASE EndCall(t, "TypeError")
    BY <2>1, <2>2, EndList DEF Outcomes
  <2>3. CASE Goto(t, "send") /\ UNCHANGED <<conn, outcome>>
    BY <2>1, <2>3, MoveList DEF Goto, Labels, Critical, Busy, Holding
  <2> QED BY <1>9, <2>2, <2>3 DEF Encode
<1>10. CASE Send(t)
  <2>1. Goto(t, "receive") \/ Goto(t, "broken pipe")
    BY <1>10 DEF Send
  <2> QED BY <1>10, <2>1, MoveList DEF Send, Goto, Labels, Critical, Busy, Holding
<1>11. CASE Receive(t)
  BY <1>11, MoveList DEF Receive, Goto, Labels, Critical, Busy, Holding
<1>12. CASE ReceiveNothing(t)
  <2>1. \/ Goto(t, "send") /\ UNCHANGED outcome
        \/ Goto(t, "release") /\ outcome' = [outcome EXCEPT ![t] = "Sl4aProtocolError"]
    BY <1>12 DEF ReceiveNothing
  <2> QED BY <1>12, <2>1, MoveList DEF ReceiveNothing, Goto, Labels, Outcomes, Critical, Busy, Holding
<1>13. CASE PipeBreaks(t)
  <2>1. \E how \in Outcomes \ {"IndexError", "ValueError"} : outcome' = [outcome EXCEPT ![t] = how]
    BY <1>13 DEF PipeBreaks, Outcomes
  <2>2. Goto(t, "release") /\ pc[t] \in Busy /\ UNCHANGED <<free, working, lock, conn, term>>
    BY <1>13 DEF PipeBreaks, Busy, Holding
  <2> QED BY <2>1, <2>2, MoveList DEF Goto, Labels, Critical, Busy, Holding
<1>14. CASE TimeOut(t)
  <2>1. pc[t] = "receive" /\ UNCHANGED <<free, working, lock, term>>
    BY <1>14 DEF TimeOut
  <2>2. CASE EndCall(t, "AdbError")
    BY <2>1, <2>2, EndList DEF Outcomes
  <2>3. CASE Goto(t, "remove") /\ UNCHANGED <<local, outcome>>
    BY <2>1, <2>3, MoveList DEF Goto, Labels, Critical, Busy, Holding
  <2> QED BY <1>14, <2>2, <2>3 DEF TimeOut
<1>15. CASE RemoveTimedOut(t) \/ Release(t)
  BY <1>0, <1>15, LeaveList
<1>16. CASE Check(t) \/ Return(t)
  <2>1. UNCHANGED <<free, working, lock, term>> /\ pc[t] \in {"check", "return"}
    BY <1>16 DEF Check, Return
  <2>2. CASE \E how \in {"Sl4aApiError", "mismatched id", "result"} : EndCall(t, how)
    BY <2>1, <2>2, EndList DEF Outcomes
  <2>3. CASE Goto(t, "return") /\ UNCHANGED <<local, outcome>>
    BY <2>1, <2>3, MoveList DEF Goto, Labels, Critical, Busy, Holding
  <2> QED BY <1>16, <2>2, <2>3 DEF Check, Return
<1>17. CASE Interrupt(t)
  <2>0. UNCHANGED <<free, term, snapshot>>
    BY <1>17, InterruptWays
  <2>1. CASE InterruptTry(t) /\ UNCHANGED <<working, lock, conn>>
    <3>1. /\ Goto(t, "release") /\ pc[t] \in Busy
          /\ outcome' = [outcome EXCEPT ![t] = "interrupted"]
      BY <2>1 DEF InterruptTry, Busy, Holding
    <3> QED BY <2>0, <2>1, <3>1, MoveList DEF Goto, Labels, Outcomes, Critical, Busy, Holding
  <2>2. CASE EndCall(t, "interrupted") /\ UNCHANGED <<working, lock>>
    BY <2>0, <2>2, EndList DEF Outcomes
  <2>3. CASE EndCall(t, "interrupted") /\ UNCHANGED working /\ lock' = NoThread /\ pc[t] \in Critical
    <3>1. lock = t /\ \A u \in Threads \ {t} : pc[u] \notin Critical
      BY <2>3 DEF ListInv, LockHeld
    <3>2. /\ pc' = [pc EXCEPT ![t] = "idle"] /\ conn' = [conn EXCEPT ![t] = NoConn]
          /\ outcome' = [outcome EXCEPT ![t] = "interrupted"]
      BY <2>3 DEF EndCall, Goto
    <3> QED BY <1>0, <2>0, <2>3, <3>1, <3>2 DEF ListInv, LockHeld, PopFinds, BusyListed,
                            PoolNeverCorrupt, ListsIntact, Critical, Busy, Holding
  <2>4. CASE InterruptRelease(t)
    BY <2>0, <2>4, LeaveList
  <2> QED BY <1>17, <2>1, <2>2, <2>3, <2>4, InterruptPool DEF Critical
<1> QED
  BY <1>1, <1>2, <1>3, <1>4, <1>5, <1>6, <1>7, <1>8, <1>9, <1>10, <1>11, <1>12, <1>13, <1>14,
     <1>15, <1>16, <1>17 DEF Step, Proceed

(* The steps that are no call's: terminate() changes the lists only when   *)
(* ListsIntact is over, and it never touches the lock.                     *)
LEMMA OthersList ==
  ASSUME TypeOK, ListInv, [Next]_vars, ~\E t \in Threads : Step(t)
  PROVE  ListInv'
<1>1. UNCHANGED <<pc, conn, lock, outcome>>
  BY DEF Next, SubmitFuture, Terminate, TermReadFree, TermReadWorking, TermClose,
         TermEmptyFree, TermEmptyWorking, TermClearAlive, ServerDrops, Done, vars, pool, local
<1>2. ListsIntact' => ListsIntact /\ UNCHANGED <<free, working>>
  BY DEF Next, SubmitFuture, Terminate, TermReadFree, TermReadWorking, TermClose,
         TermEmptyFree, TermEmptyWorking, TermClearAlive, ServerDrops, Done, vars, pool,
         terminator, AtTerm, ListsIntact
<1> QED
  BY <1>1, <1>2 DEF ListInv, LockHeld, PopFinds, BusyListed, PoolNeverCorrupt

LEMMA NextList == TypeOK /\ HoldsConn /\ Apart /\ ListInv /\ [Next]_vars => ListInv'
<1> SUFFICES ASSUME TypeOK, HoldsConn, Apart, ListInv, [Next]_vars PROVE ListInv'
  OBVIOUS
<1> QED
  BY StepList, OthersList

(* pop() and remove() never fail while the lists are intact: the second    *)
(* look under the lock is enough, although the first look, the count and   *)
(* the removal of a timed-out connection take no lock.                     *)
THEOREM ListsSound == Spec => []PoolNeverCorrupt
<1>1. Spec => [](TypeOK /\ HoldsConn /\ Apart /\ ListInv)
  BY InitType, InitApart, InitList, NextType, NextApart, NextList, PTL DEF Spec
<1>2. ListInv => PoolNeverCorrupt
  BY DEF ListInv
<1> QED
  BY <1>1, <1>2, PTL

-----------------------------------------------------------------------------
(* A step of a thread leaves the locals of the others alone.               *)
LEMMA StepAlone ==
  ASSUME TypeOK, NEW t \in Threads, Step(t), NEW u \in Threads \ {t}
  PROVE  /\ pc'[u] = pc[u] /\ conn'[u] = conn[u] /\ ticket'[u] = ticket[u]
         /\ reply'[u] = reply[u] /\ calls'[u] = calls[u]
<1>0. /\ pc \in [Threads -> Labels] /\ conn \in [Threads -> Conns \union {NoConn}]
      /\ ticket \in [Threads -> Nat] /\ reply \in [Threads -> Requests \union {NoReply}]
      /\ calls \in [Threads -> Nat]
  BY DEF TypeOK, ThreadType, OtherType
<1> USE <1>0 DEF Goto, EndCall, local, history
<1>1. CASE StartCall(t) \/ RunFuture(t) \/ LookForFree(t) \/ LockToPop(t) \/ Count(t) \/ LockToCreate(t)
  BY <1>1 DEF StartCall, RunFuture, LookForFree, LockToPop, Count, LockToCreate
<1>2. CASE Pop(t) \/ Create(t) \/ AppendWorking(t)
  BY <1>2 DEF Pop, Create, AppendWorking
<1>3. CASE Encode(t)
  <2>1. /\ UNCHANGED calls
        /\ \/ EndCall(t, "TypeError")
           \/ /\ Goto(t, "send") /\ UNCHANGED <<conn, reply>>
              /\ ticket' = [ticket EXCEPT ![t] = counter[conn[t]] + 1]
    BY <1>3 DEF Encode
  <2> QED BY <2>1
<1>4. CASE Send(t) \/ PipeBreaks(t)
  BY <1>4 DEF Send, PipeBreaks
<1>5. CASE Receive(t) \/ ReceiveNothing(t)
  <2>1. /\ UNCHANGED <<calls, conn, ticket>> /\ \E label \in Labels : Goto(t, label)
        /\ UNCHANGED reply \/ reply' = [reply EXCEPT ![t] = Head(pending[conn[t]])]
    BY <1>5 DEF Receive, ReceiveNothing, Labels
  <2> QED BY <2>1
<1>6. CASE TimeOut(t) \/ RemoveTimedOut(t) \/ Release(t)
  BY <1>6 DEF TimeOut, RemoveTimedOut, Release
<1>7. CASE Check(t) \/ Return(t)
  BY <1>7 DEF Check, Return
<1>8. CASE Interrupt(t)
  <2>1. UNCHANGED calls /\ (InterruptTry(t) \/ EndCall(t, "interrupted"))
    BY <1>8, InterruptWays
  <2> QED BY <2>1 DEF InterruptTry
<1> QED
  BY <1>1, <1>2, <1>3, <1>4, <1>5, <1>6, <1>7, <1>8 DEF Step, Proceed

-----------------------------------------------------------------------------
(* Which connections are lost.                                             *)

(* A connection that is about to be removed has been closed.               *)
RemovedClosed == \A t \in Threads : pc[t] = "remove" => conn[t] \in closed

(* The three parts of NoConnectionLost; a lost connection was created, so  *)
(* that no new one is lost already.                                        *)
OpenKept == ListsIntact =>
  \A c \in made \ closed : c \in ToSet(free) \union working \union Used \union lost
WorkingUsed == ListsIntact => working \subseteq Used \union lost
LostGone == \A c \in lost : /\ c \in made /\ c \notin ToSet(free)
                            /\ \A t \in Threads : conn[t] # c

Kept == RemovedClosed /\ OpenKept /\ WorkingUsed /\ LostGone

LEMMA InitKept == Init => Kept
<1> SUFFICES ASSUME Init PROVE Kept
  OBVIOUS
<1>1. PICK c \in Conns : free = <<c>> /\ made = {c}
  BY DEF Init
<1>2. ToSet(free) = {c}
  BY <1>1 DEF ToSet
<1> QED
  BY <1>1, <1>2 DEF Init, Kept, RemovedClosed, OpenKept, WorkingUsed, LostGone

LEMMA StepCloses ==
  ASSUME TypeOK, NEW t \in Threads, Step(t)
  PROVE  /\ closed \subseteq closed'
         /\ UNCHANGED <<term, snapshot>>
         /\ pc'[t] = "remove" => conn'[t] \in closed'
<1>0. pc \in [Threads -> Labels]
  BY DEF TypeOK, ThreadType
<1> USE <1>0 DEF wire, local, terminator, Goto, EndCall
<1>1. CASE StartCall(t) \/ RunFuture(t) \/ LookForFree(t) \/ LockToPop(t) \/ Count(t) \/ LockToCreate(t)
  BY <1>1 DEF StartCall, RunFuture, LookForFree, LockToPop, Count, LockToCreate
<1>2. CASE Pop(t) \/ Create(t) \/ AppendWorking(t) \/ Encode(t)
  BY <1>2 DEF Pop, Create, AppendWorking, Encode
<1>3. CASE Send(t) \/ Receive(t) \/ ReceiveNothing(t) \/ PipeBreaks(t)
  BY <1>3 DEF Send, Receive, ReceiveNothing, PipeBreaks
<1>4. CASE TimeOut(t)
  BY <1>4 DEF TimeOut
<1>5. CASE RemoveTimedOut(t) \/ Release(t) \/ Check(t) \/ Return(t)
  BY <1>5 DEF RemoveTimedOut, Release, Check, Return
<1>6. CASE Interrupt(t)
  <2>1. UNCHANGED <<closed, term, snapshot>>
    BY <1>6, InterruptWays
  <2>2. pc'[t] \in {"release", "idle"}
    BY <1>6, InterruptWays DEF InterruptTry
  <2> QED BY <2>1, <2>2
<1> QED
  BY <1>1, <1>2, <1>3, <1>4, <1>5, <1>6 DEF Step, Proceed

(* A connection is lost by the call that holds it, as the call ends.       *)
LEMMA StepLoses ==
  ASSUME TypeOK, HoldsConn, NEW t \in Threads, Step(t)
  PROVE  \/ UNCHANGED lost
         \/ /\ lost' = lost \union {conn[t]} /\ conn[t] \in Conns
            /\ conn' = [conn EXCEPT ![t] = NoConn] /\ UNCHANGED <<free, made>>
<1> USE DEF history
<1>1. CASE StartCall(t) \/ RunFuture(t) \/ LookForFree(t) \/ LockToPop(t) \/ Pop(t) \/ Count(t)
  BY <1>1 DEF StartCall, RunFuture, LookForFree, LockToPop, Pop, Count
<1>2. CASE LockToCreate(t) \/ Create(t) \/ AppendWorking(t) \/ Send(t) \/ Receive(t)
  BY <1>2 DEF LockToCreate, Create, AppendWorking, Send, Receive
<1>3. CASE Encode(t)
  <2>1. conn[t] \in Conns /\ UNCHANGED <<free, made>>
    BY <1>3 DEF Encode, HoldsConn, Holding, pool
  <2>2. UNCHANGED lost \/ (EndCall(t, "TypeError") /\ Lose(t))
    BY <1>3 DEF Encode
  <2> QED BY <2>1, <2>2 DEF EndCall, Lose
<1>4. CASE TimeOut(t)
  <2>1. conn[t] \in Conns /\ UNCHANGED <<free, made>>
    BY <1>4 DEF TimeOut, HoldsConn, Holding, pool
  <2>2. UNCHANGED lost \/ (EndCall(t, "AdbError") /\ Lose(t))
    BY <1>4 DEF TimeOut
  <2> QED BY <2>1, <2>2 DEF EndCall, Lose
<1>5. CASE ReceiveNothing(t) \/ PipeBreaks(t) \/ RemoveTimedOut(t) \/ Release(t) \/ Check(t) \/ Return(t)
  BY <1>5 DEF ReceiveNothing, PipeBreaks, RemoveTimedOut, Release, Check, Return
<1>6. CASE Interrupt(t)
  <2>1. UNCHANGED <<free, made>>
    BY <1>6, InterruptWays DEF wire
  <2>2. \/ UNCHANGED lost
        \/ /\ lost' = lost \union {conn[t]} /\ conn[t] \in Conns /\ EndCall(t, "interrupted")
    BY <1>6, InterruptPool
  <2> QED BY <2>1, <2>2 DEF EndCall
<1> QED
  BY <1>1, <1>2, <1>3, <1>4, <1>5, <1>6 DEF Step, Proceed

(* When a thread lets go of its connection, that is closed, back on offer, *)
(* still listed or lost; and if still listed, it is lost.                  *)
LEMMA StepGives ==
  ASSUME TypeOK, HoldsConn, ListInv, RemovedClosed, ListsIntact,
         NEW t \in Threads, Step(t), conn[t] \in Conns, conn'[t] # conn[t]
  PROVE  /\ conn[t] \in closed' \union working' \union ToSet(free') \union lost'
         /\ conn[t] \in working' => conn[t] \in lost'
<1>1. pc[t] \in Holding
  BY DEF HoldsConn
<1>2. conn[t] \in working \/ pc[t] = "append"
  BY <1>1 DEF ListInv, BusyListed, Busy
<1>3. \/ Encode(t) \/ TimeOut(t) \/ RemoveTimedOut(t) \/ Release(t) \/ Interrupt(t)
  BY <1>1 DEF Step, Proceed, Holding, StartCall, RunFuture, LookForFree, LockToPop, Pop, Count,
         LockToCreate, Create, AppendWorking, Send, Receive, ReceiveNothing, PipeBreaks,
         Check, Return, local
<1>4. CASE Encode(t)
  BY <1>4 DEF Encode, Lose
<1>5. CASE TimeOut(t)
  BY <1>5 DEF TimeOut, Lose, local
<1>6. CASE RemoveTimedOut(t)
  BY <1>6 DEF RemoveTimedOut, RemovedClosed, wire
<1>7. CASE Release(t)
  <2>1. GiveBack(t)
    BY <1>2, <1>7 DEF Release, GiveBack, EndCall, wire
  <2>2. TypeOK'
    BY NextType DEF Next
  <2> QED BY <2>1, <2>2, GiveBackElements DEF GiveBack
<1>8. CASE Interrupt(t)
  BY <1>1, <1>8, InterruptPool
<1> QED
  BY <1>3, <1>4, <1>5, <1>6, <1>7, <1>8

(* Where the elements of the two lists go.                                 *)
LEMMA EffectLists ==
  ASSUME TypeOK, TypeOK', FreeDistinct, NEW t \in Threads, Effect(t)
  PROVE  /\ \A c \in ToSet(free) : c \in ToSet(free') \/ c = conn'[t]
         /\ \A c \in ToSet(free') : c \in ToSet(free) \/ c = conn[t]
         /\ \A c \in working : c \in working' \/ c = conn[t]
         /\ \A c \in working' : c \in working \/ (c = conn[t] /\ conn'[t] = conn[t])
         /\ \A c \in made' : c \in made \/ c = conn'[t]
         /\ conn'[t] \in {conn[t], NoConn} \/ conn'[t] \in ToSet(free) \/ conn'[t] \notin made
         /\ made \subseteq made'
<1>0. conn \in [Threads -> Conns \union {NoConn}]
  BY DEF TypeOK, ThreadType
<1>1. CASE Keep \/ Forget(t)
  BY <1>0, <1>1 DEF Keep, Forget
<1>2. CASE Take(t)
  BY <1>0, <1>2, TakeElements DEF Take
<1>3. CASE New(t)
  BY <1>0, <1>3 DEF New
<1>4. CASE List(t)
  BY <1>0, <1>4 DEF List
<1>5. CASE Retire(t)
  BY <1>0, <1>5 DEF Retire
<1>6. CASE GiveBack(t)
  BY <1>0, <1>6, GiveBackElements DEF GiveBack
<1> QED
  BY <1>1, <1>2, <1>3, <1>4, <1>5, <1>6 DEF Effect

(* A lost connection is not on offer, nobody holds it, and no step of a    *)
(* thread brings it back: a thread takes only what is on offer or new.     *)
LEMMA StepGone ==
  ASSUME TypeOK, HoldsConn, Apart, LostGone, NEW t \in Threads, Step(t)
  PROVE  LostGone'
<1>0. TypeOK' /\ conn \in [Threads -> Conns \union {NoConn}] /\ NoConn \notin Conns
  BY NextType, ConnsAssumption DEF Next, TypeOK, ThreadType
<1>1. CASE UNCHANGED lost
  <2>1. /\ \A c \in ToSet(free') : c \in ToSet(free) \/ c = conn[t]
        /\ conn'[t] \in {conn[t], NoConn} \/ conn'[t] \in ToSet(free) \/ conn'[t] \notin made
        /\ made \subseteq made'
    BY <1>0, StepEffect, EffectLists DEF Apart
  <2> SUFFICES ASSUME NEW c \in lost
               PROVE  c \in made' /\ c \notin ToSet(free') /\ \A u \in Threads : conn'[u] # c
    BY <1>1 DEF LostGone
  <2>2. c \in made /\ c \notin ToSet(free) /\ \A u \in Threads : conn[u] # c
    BY DEF LostGone
  <2>3. c # NoConn
    BY <1>0, <2>2 DEF TypeOK, WireType
  <2>4. conn'[t] # c
    BY <2>1, <2>2, <2>3
  <2>5. \A u \in Threads \ {t} : conn'[u] # c
    BY <2>2, StepAlone
  <2> QED BY <2>1, <2>2, <2>4, <2>5
<1>2. CASE ~UNCHANGED lost
  <2>1. /\ lost' = lost \union {conn[t]} /\ conn[t] \in Conns
        /\ conn' = [conn EXCEPT ![t] = NoConn] /\ UNCHANGED <<free, made>>
    BY <1>2, StepLoses
  <2>2. /\ conn[t] \notin ToSet(free) /\ conn[t] \in made
        /\ \A u \in Threads \ {t} : conn[u] # conn[t]
    BY <1>0, <2>1 DEF Apart, ConnectionExclusive, Tracked
  <2>3. \A u \in Threads : conn'[u] # conn[t]
    BY <1>0, <2>1, <2>2
  <2>4. \A c \in lost : \A u \in Threads : conn'[u] # c
    <3> SUFFICES ASSUME NEW c \in lost, NEW u \in Threads PROVE conn'[u] # c
      OBVIOUS
    <3>1. c \in Conns /\ conn[u] # c
      BY DEF LostGone, TypeOK, WireType
    <3> QED BY <1>0, <2>1, <3>1
  <2> QED BY <2>1, <2>2, <2>3, <2>4 DEF LostGone
<1> QED
  BY <1>1, <1>2

LEMMA StepKept ==
  ASSUME TypeOK, HoldsConn, Apart, ListInv, Kept, NEW t \in Threads, Step(t)
  PROVE  Kept'
<1>0. TypeOK' /\ [Next]_vars /\ NoConn \notin Conns
  BY NextType, ConnsAssumption DEF Next
<1>1. /\ closed \subseteq closed' /\ UNCHANGED term
      /\ pc'[t] = "remove" => conn'[t] \in closed'
  BY StepCloses
<1>2. RemovedClosed'
  BY <1>1, StepAlone DEF Kept, RemovedClosed
<1>3. LostGone' /\ lost \subseteq lost'
  BY StepGone, StepLoses DEF Kept
<1>4. /\ \A d \in ToSet(free) : d \in ToSet(free') \/ d = conn'[t]
      /\ \A d \in working : d \in working' \/ d = conn[t]
      /\ \A d \in working' : d \in working \/ (d = conn[t] /\ conn'[t] = conn[t])
      /\ \A d \in made' : d \in made \/ d = conn'[t]
  BY <1>0, StepEffect, EffectLists DEF Apart
<1>5. \A c \in Conns : \A u \in Threads : c = conn'[u] => c \in Used'
  BY <1>0 DEF Used
<1>6. OpenKept'
  <2> SUFFICES ASSUME ListsIntact, NEW c \in made' \ closed'
               PROVE  c \in ToSet(free') \union working' \union Used' \union lost'
    BY <1>1 DEF OpenKept, ListsIntact
  <2>1. c \in Conns
    BY <1>0 DEF TypeOK, WireType
  <2>2. CASE c = conn[t]
    BY <1>1, <1>5, <2>1, <2>2, StepGives DEF Kept
  <2>3. CASE c # conn[t] /\ c \in made
    <3>1. c \in ToSet(free) \union working \union Used \union lost
      BY <1>1, <2>3 DEF Kept, OpenKept
    <3>2. CASE c \in Used
      <4>1. PICK u \in Threads : c = conn[u]
        BY <3>2 DEF Used
      <4> QED BY <1>5, <2>1, <2>3, <4>1, StepAlone
    <3> QED BY <1>3, <1>4, <1>5, <2>1, <2>3, <3>1, <3>2
  <2> QED BY <1>4, <1>5, <2>1, <2>2, <2>3
<1>7. WorkingUsed'
  <2> SUFFICES ASSUME ListsIntact, NEW c \in working'
               PROVE  c \in Used' \union lost'
    BY <1>1 DEF WorkingUsed, ListsIntact
  <2>1. c \in Conns
    BY <1>0 DEF TypeOK, PoolType
  <2>2. CASE c = conn[t]
    BY <1>5, <2>1, <2>2, StepGives DEF Kept
  <2>3. CASE c # conn[t] /\ c \in working
    <3>1. c \in Used \union lost
      BY <2>3 DEF Kept, WorkingUsed
    <3>2. CASE c \in Used
      <4>1. PICK u \in Threads : c = conn[u]
        BY <3>2 DEF Used
      <4> QED BY <1>5, <2>1, <2>3, <4>1, StepAlone
    <3> QED BY <1>3, <3>1, <3>2
  <2> QED BY <1>4, <2>2, <2>3
<1> QED
  BY <1>2, <1>3, <1>6, <1>7 DEF Kept

LEMMA OthersKept ==
  ASSUME Kept, [Next]_vars, ~\E t \in Threads : Step(t)
  PROVE  Kept'
<1>1. UNCHANGED <<pc, conn, made, lost>> /\ closed \subseteq closed'
  BY DEF Next, SubmitFuture, Terminate, TermReadFree, TermReadWorking, TermClose,
         TermEmptyFree, TermEmptyWorking, TermClearAlive, ServerDrops, Done, vars, wire, local,
         history
<1>2. ListsIntact' => ListsIntact /\ UNCHANGED <<free, working>>
  BY DEF Next, SubmitFuture, Terminate, TermReadFree, TermReadWorking, TermClose,
         TermEmptyFree, TermEmptyWorking, TermClearAlive, ServerDrops, Done, vars, pool,
         terminator, AtTerm, ListsIntact
<1>3. free' = free \/ free' = <<>>
  BY OthersEmptyLists DEF EmptyLists
<1>4. ToSet(free') \subseteq ToSet(free)
  BY <1>3 DEF ToSet
<1> QED
  BY <1>1, <1>2, <1>4 DEF Kept, RemovedClosed, OpenKept, WorkingUsed, LostGone, Used

LEMMA NextKept == TypeOK /\ HoldsConn /\ Apart /\ ListInv /\ Kept /\ [Next]_vars => Kept'
BY StepKept, OthersKept

(* Whatever rpc() lets out, whatever cannot be encoded, closed or served,  *)
(* and wherever a signal or terminate() comes: a connection leaves the     *)
(* care of the pool and of the calls on the paths of `lost' only, and is   *)
(* never in anybody's hands again.                                         *)
THEOREM NothingLost == Spec => []NoConnectionLost
<1>1. Spec => [](TypeOK /\ HoldsConn /\ Apart /\ ListInv /\ Kept)
  BY InitType, InitApart, InitList, InitKept, NextType, NextApart, NextList, NextKept, PTL DEF Spec
<1>2. Kept => NoConnectionLost
  BY DEF Kept, OpenKept, WorkingUsed, LostGone, NoConnectionLost, Used
<1> QED
  BY <1>1, <1>2, PTL

-----------------------------------------------------------------------------
(* The bound on the open connections.                                      *)

(* A sequence has no more elements than places.                            *)
LEMMA ElementsBound ==
  ASSUME NEW S, NEW s \in Seq(S)
  PROVE  IsFiniteSet(ToSet(s)) /\ Cardinality(ToSet(s)) <= Len(s)
<1>1. Len(s) \in Nat /\ DOMAIN s = 1 .. Len(s) /\ s \in [1 .. Len(s) -> S]
  BY LenProperties
<1>2. ToSet(s) = {s[i] : i \in 1 .. Len(s)}
  BY <1>1 DEF ToSet
<1>3. s \in Surjection(1 .. Len(s), ToSet(s))
  BY <1>1, <1>2 DEF Surjection
<1>4. IsFiniteSet(1 .. Len(s)) /\ Cardinality(1 .. Len(s)) = Len(s)
  BY <1>1, FS_Interval
<1> QED
  BY <1>3, <1>4, FS_Surjection

(* The sizes of the two lists are numbers.                                 *)
Sized == /\ IsFiniteSet(working) /\ Cardinality(working) \in Nat
         /\ Len(free) \in Nat /\ PoolSize \in Nat

LEMMA SizeType == TypeOK => Sized
<1> SUFFICES ASSUME TypeOK PROVE Sized
  OBVIOUS
<1>1. IsFiniteSet(working)
  BY ConnsAssumption, FS_Subset DEF TypeOK, PoolType
<1>2. Cardinality(working) \in Nat
  BY <1>1, FS_CardinalityType
<1>3. Len(free) \in Nat
  BY LenProperties DEF TypeOK, PoolType
<1> QED
  BY <1>1, <1>2, <1>3 DEF Sized, PoolSize

(* The labels at which the thread is about to add to the working list a    *)
(* connection that PoolSize does not count.                                *)
Adding == {"create", "append"}

(* There is room for every connection counted, and for the one that the    *)
(* holder of the lock is adding.                                           *)
Room == /\ PoolSize <= MaxConn
        /\ (\E t \in Threads : pc[t] \in Adding) => PoolSize + 1 <= MaxConn

LEMMA InitRoom == Init => Room
<1> SUFFICES ASSUME Init PROVE Room
  OBVIOUS
<1>1. PICK c \in Conns : free = <<c>>
  BY DEF Init
<1>2. Len(free) = 1 /\ Cardinality(working) = 0
  BY <1>1, FS_EmptySet DEF Init
<1>3. \A t \in Threads : pc[t] \notin Adding
  BY DEF Init, Adding
<1> QED
  BY <1>2, <1>3, BoundsAssumption DEF Room, PoolSize

(* What the steps do to the size of the pool.                              *)
LEMMA EffectSize ==
  ASSUME TypeOK, TypeOK', NEW t \in Threads, Effect(t)
  PROVE  /\ PoolSize' <= PoolSize + 1
         /\ ~List(t) => PoolSize' <= PoolSize
         /\ Take(t) => PoolSize' + 1 <= PoolSize
<1>0. /\ IsFiniteSet(working) /\ Cardinality(working) \in Nat
      /\ Len(free) \in Nat /\ PoolSize \in Nat
      /\ free \in Seq(Conns)
  BY SizeType DEF Sized, TypeOK, PoolType
<1>a. Sized'
  BY SizeType, PTL
<1>b. Cardinality(working') \in Nat /\ Len(free') \in Nat
  BY <1>a DEF Sized
<1> USE <1>0, <1>b DEF PoolSize
<1>1. CASE Keep \/ Forget(t) \/ New(t)
  <2>1. UNCHANGED <<free, working>>
    BY <1>1 DEF Keep, Forget, New
  <2>2. ~Take(t)
    BY <1>1, <2>1, FrontLemma DEF Take
  <2> QED BY <2>1, <2>2
<1>2. CASE Take(t)
  <2>1. free # <<>> /\ free' = Front(free) /\ working' = working
    BY <1>2 DEF Take
  <2>2. Len(free') = Len(free) - 1
    BY <2>1, FrontLemma
  <2> QED BY <2>1, <2>2
<1>3. CASE List(t)
  <2>1. UNCHANGED free /\ working' = working \union {conn[t]}
    BY <1>3 DEF List
  <2>a. Cardinality(working') = IF conn[t] \in working THEN Cardinality(working)
                                                       ELSE Cardinality(working) + 1
    BY <2>1, FS_AddElement
  <2>2. Cardinality(working') <= Cardinality(working) + 1
    BY <2>a
  <2>3. ~Take(t)
    BY <2>1, FrontLemma DEF Take
  <2> QED BY <1>3, <2>1, <2>2, <2>3
<1>4. CASE Retire(t)
  <2>1. UNCHANGED free /\ working' = working \ {conn[t]}
    BY <1>4 DEF Retire
  <2>a. Cardinality(working') = IF conn[t] \in working THEN Cardinality(working) - 1
                                                       ELSE Cardinality(working)
    BY <2>1, FS_RemoveElement
  <2>2. Cardinality(working') <= Cardinality(working)
    BY <2>a
  <2>3. ~Take(t)
    BY <2>1, FrontLemma DEF Take
  <2> QED BY <2>1, <2>2, <2>3
<1>5. CASE GiveBack(t)
  <2>1. /\ conn[t] \in working /\ working' = working \ {conn[t]}
        /\ conn[t] \in Conns /\ free' = Append(free, conn[t])
    BY <1>5 DEF GiveBack
  <2>2. Cardinality(working') = Cardinality(working) - 1
    BY <2>1, FS_RemoveElement
  <2>3. Len(free') = Len(free) + 1
    BY <2>1, AppendProperties
  <2>4. ~Take(t)
    BY <2>1 DEF Take
  <2> QED BY <2>2, <2>3, <2>4
<1> QED
  BY <1>1, <1>2, <1>3, <1>4, <1>5 DEF Effect

(* Which step lists a connection, and which steps begin to add one.        *)
LEMMA StepAdds ==
  ASSUME TypeOK, HoldsConn, NEW t \in Threads, Step(t)
  PROVE  /\ pc[t] # "append" => working' \subseteq working
         /\ pc'[t] \in Adding => \/ pc[t] \in Adding
                                 \/ PoolSize < MaxConn /\ UNCHANGED <<free, working>>
                                 \/ Take(t)
         /\ pc[t] = "append" => pc'[t] \notin Adding
<1>0. pc \in [Threads -> Labels]
  BY DEF TypeOK, ThreadType
<1> USE <1>0 DEF Adding, pool, Goto, EndCall
<1>1. CASE StartCall(t) \/ RunFuture(t) \/ LookForFree(t) \/ LockToPop(t) \/ Count(t)
  BY <1>1 DEF StartCall, RunFuture, LookForFree, LockToPop, Count
<1>2. CASE LockToCreate(t)
  BY <1>2 DEF LockToCreate
<1>3. CASE Pop(t)
  <2>1. CASE free = <<>>
    BY <1>3, <2>1 DEF Pop
  <2>2. CASE free # <<>>
    <3>1. pc[t] = "pop" /\ UNCHANGED <<working, made>>
      BY <1>3 DEF Pop, wire
    <3>2. conn[t] \notin Conns
      BY <3>1 DEF HoldsConn, Holding
    <3>3. conn' = [conn EXCEPT ![t] = Last(free)] /\ free' = Front(free)
      BY <1>3, <2>2 DEF Pop
    <3>4. Take(t)
      BY <2>2, <3>1, <3>2, <3>3 DEF Take
    <3> QED BY <3>1, <3>4
  <2> QED BY <2>1, <2>2
<1>4. CASE Create(t)
  BY <1>4 DEF Create
<1>5. CASE AppendWorking(t)
  BY <1>5 DEF AppendWorking
<1>6. CASE Encode(t) \/ Send(t) \/ Receive(t) \/ ReceiveNothing(t) \/ PipeBreaks(t)
  BY <1>6 DEF Encode, Send, Receive, ReceiveNothing, PipeBreaks
<1>7. CASE TimeOut(t) \/ RemoveTimedOut(t) \/ Release(t)
  BY <1>7 DEF TimeOut, RemoveTimedOut, Release
<1>8. CASE Check(t) \/ Return(t)
  BY <1>8 DEF Check, Return
<1>9. CASE Interrupt(t)
  <2>1. working' \subseteq working
    BY <1>9, InterruptPool
  <2>2. pc'[t] \in {"release", "idle"}
    BY <1>9, InterruptWays DEF InterruptTry
  <2> QED BY <2>1, <2>2
<1> QED
  BY <1>1, <1>2, <1>3, <1>4, <1>5, <1>6, <1>7, <1>8, <1>9 DEF Step, Proceed

LEMMA StepRoom ==
  ASSUME TypeOK, HoldsConn, ListInv, Room, NEW t \in Threads, Step(t)
  PROVE  Room'
<1>0. TypeOK' /\ Effect(t)
  BY NextType, StepEffect DEF Next
<1>1. /\ Len(free) \in Nat /\ Cardinality(working) \in Nat
      /\ Len(free') \in Nat /\ Cardinality(working') \in Nat /\ MaxConn \in Nat
  <2>1. Sized /\ Sized'
    BY <1>0, SizeType, PTL
  <2> QED BY <2>1, BoundsAssumption DEF Sized
<1>2. /\ PoolSize' <= PoolSize + 1
      /\ ~List(t) => PoolSize' <= PoolSize
      /\ Take(t) => PoolSize' + 1 <= PoolSize
  BY <1>0, EffectSize
<1>3. CASE pc[t] = "append"
  <2>1. \A u \in Threads : pc'[u] \notin Adding
    <3> SUFFICES ASSUME NEW u \in Threads \ {t} PROVE pc[u] \notin Adding
      BY <1>3, StepAdds, StepAlone
    <3> QED BY <1>3 DEF ListInv, LockHeld, Critical, Adding
  <2>2. PoolSize + 1 <= MaxConn
    BY <1>3 DEF Room, Adding
  <2> QED BY <1>1, <1>2, <2>1, <2>2 DEF Room, PoolSize
<1>4. CASE pc[t] # "append"
  <2>1. PoolSize' <= PoolSize
    <3>1. CASE List(t)
      <4>1. working' = working /\ free' = free
        BY <1>4, <3>1, StepAdds DEF List
      <4> QED BY <1>1, <4>1 DEF PoolSize
    <3> QED BY <1>2, <3>1
  <2>2. ASSUME NEW u \in Threads, pc'[u] \in Adding
        PROVE  PoolSize' + 1 <= MaxConn
    <3>1. CASE pc[u] \in Adding
      BY <1>1, <2>1, <3>1 DEF Room, PoolSize
    <3>2. CASE pc[u] \notin Adding
      <4>1. u = t
        BY <2>2, <3>2, StepAlone
      <4>2. CASE PoolSize < MaxConn /\ UNCHANGED <<free, working>>
        BY <1>1, <2>1, <4>2 DEF PoolSize
      <4>3. CASE Take(t)
        BY <1>1, <1>2, <4>3 DEF Room, PoolSize
      <4> QED BY <2>2, <3>2, <4>1, <4>2, <4>3, StepAdds
    <3> QED BY <3>1, <3>2
  <2> QED BY <1>1, <2>1, <2>2 DEF Room, PoolSize
<1> QED
  BY <1>3, <1>4

LEMMA OthersRoom ==
  ASSUME TypeOK, Room, [Next]_vars, ~\E t \in Threads : Step(t)
  PROVE  Room'
<1>1. UNCHANGED pc /\ EmptyLists
  BY OthersEmptyLists DEF Next, SubmitFuture, Terminate, TermReadFree, TermReadWorking, TermClose,
         TermEmptyFree, TermEmptyWorking, TermClearAlive, ServerDrops, Done, vars
<1>2. /\ Cardinality(working) \in Nat /\ Len(free) \in Nat /\ PoolSize \in Nat /\ MaxConn \in Nat
  BY SizeType, BoundsAssumption DEF Sized
<1>3. Cardinality({}) = 0 /\ Len(<<>>) = 0
  BY FS_EmptySet
<1>4. Len(free') \in {Len(free), 0} /\ Cardinality(working') \in {Cardinality(working), 0}
  BY <1>1, <1>3 DEF EmptyLists
<1> QED
  BY <1>1, <1>2, <1>4 DEF Room, PoolSize

LEMMA NextRoom == TypeOK /\ HoldsConn /\ ListInv /\ Room /\ [Next]_vars => Room'
BY StepRoom, OthersRoom

(* What is open is on offer, listed, or being added: so it fits.           *)
LEMMA RoomBounds ==
  ASSUME TypeOK, HoldsConn, ListInv, Kept, Room
  PROVE  OpenBound
<1> DEFINE listed == ToSet(free) \union working
           open == (made \ closed) \ (lost \ working)
<1> SUFFICES ASSUME ListsIntact PROVE Cardinality(open) <= MaxConn
  BY DEF OpenBound
<1>1. /\ IsFiniteSet(working) /\ Cardinality(working) \in Nat /\ Len(free) \in Nat
      /\ PoolSize \in Nat /\ MaxConn \in Nat
  BY SizeType, BoundsAssumption DEF Sized
<1>2. IsFiniteSet(ToSet(free)) /\ Cardinality(ToSet(free)) <= Len(free)
  BY ElementsBound DEF TypeOK, PoolType
<1>3. IsFiniteSet(listed) /\ Cardinality(listed) <= PoolSize
  <2>1. IsFiniteSet(listed) /\ Cardinality(listed)
          = Cardinality(ToSet(free)) + Cardinality(working) - Cardinality(ToSet(free) \intersect working)
    BY <1>1, <1>2, FS_Union
  <2>2. Cardinality(ToSet(free) \intersect working) \in Nat /\ Cardinality(ToSet(free)) \in Nat
    BY <1>1, <1>2, FS_Intersection, FS_CardinalityType
  <2> QED BY <1>1, <1>2, <2>1, <2>2 DEF PoolSize
<1> HIDE DEF listed
<1>4. \A c \in open : c \in listed \/ \E t \in Threads : pc[t] = "append" /\ c = conn[t]
  <2> SUFFICES ASSUME NEW c \in open, c \notin listed
               PROVE  \E t \in Threads : pc[t] = "append" /\ c = conn[t]
    OBVIOUS
  <2>1. c \in Used /\ c \notin working /\ c \in Conns
    BY DEF Kept, OpenKept, listed, TypeOK, WireType
  <2>2. PICK t \in Threads : c = conn[t]
    BY <2>1 DEF Used
  <2>3. pc[t] \in Holding /\ pc[t] \notin Busy
    BY <2>1, <2>2 DEF HoldsConn, ListInv, BusyListed
  <2> QED BY <2>2, <2>3 DEF Busy
<1> HIDE DEF open
<1>5. Cardinality(listed) \in Nat
  BY <1>3, FS_CardinalityType
<1>6. CASE \E t \in Threads : pc[t] = "append"
  <2>1. PICK t \in Threads : pc[t] = "append"
    BY <1>6
  <2>2. \A u \in Threads : pc[u] = "append" => u = t
    BY <2>1 DEF ListInv, LockHeld, Critical
  <2>3. open \in SUBSET (listed \union {conn[t]})
    BY <1>4, <2>2
  <2>a. /\ IsFiniteSet(listed \union {conn[t]})
        /\ Cardinality(listed \union {conn[t]})
             = IF conn[t] \in listed THEN Cardinality(listed) ELSE Cardinality(listed) + 1
    BY <1>3, FS_AddElement
  <2>4. /\ IsFiniteSet(listed \union {conn[t]})
        /\ Cardinality(listed \union {conn[t]}) <= Cardinality(listed) + 1
    BY <1>5, <2>a
  <2>5. Cardinality(open) <= Cardinality(listed \union {conn[t]})
    BY <2>3, <2>4, FS_Subset
  <2>6. PoolSize + 1 <= MaxConn
    BY <2>1 DEF Room, Adding
  <2>7. /\ Cardinality(open) \in Nat
        /\ Cardinality(listed \union {conn[t]}) \in Nat
    BY <2>3, <2>4, FS_Subset, FS_CardinalityType
  <2> QED BY <1>1, <1>3, <1>5, <2>4, <2>5, <2>6, <2>7
<1>7. CASE ~\E t \in Threads : pc[t] = "append"
  <2>1. open \in SUBSET listed
    BY <1>4, <1>7
  <2>2. Cardinality(open) <= Cardinality(listed) /\ Cardinality(open) \in Nat
    BY <1>3, <2>1, FS_Subset, FS_CardinalityType
  <2> QED BY <1>1, <1>3, <1>5, <2>2 DEF Room
<1> QED
  BY <1>6, <1>7

(* No more than max_connections connections are open until terminate()     *)
(* empties the lists: the count under the lock is what makes the lock-free *)
(* count safe, and nothing else can add to the pool.                       *)
THEOREM Bounded == Spec => []OpenBound
<1>1. Spec => [](TypeOK /\ HoldsConn /\ Apart /\ ListInv /\ Kept)
  BY InitType, InitApart, InitList, InitKept, NextType, NextApart, NextList, NextKept, PTL DEF Spec
<1>2. Spec => []Room
  BY <1>1, InitRoom, NextRoom, PTL DEF Spec
<1>3. TypeOK /\ HoldsConn /\ ListInv /\ Kept /\ Room => OpenBound
  BY RoomBounds
<1> QED
  BY <1>1, <1>2, <1>3, PTL

-----------------------------------------------------------------------------
(* The ticket check: whose answer a call returns.                          *)

(* The labels between get_new_ticket and the end of the exchange.          *)
Waiting == {"send", "receive"}
Answering == {"release", "check", "return"}

(* No request carries a ticket its connection has not issued.              *)
TicketsIssued == \A c \in Conns : \A r \in ToSet(pending[c]) : r.id <= counter[c]

(* Of the requests unanswered on a thread's connection, those with its     *)
(* ticket are its own: an earlier call's left-over has an older ticket.    *)
OwnTicket(t) ==
  pc[t] \in Waiting =>
    /\ ticket[t] <= counter[conn[t]]
    /\ \A r \in ToSet(pending[conn[t]]) : r.id = ticket[t] => r.call = <<t, calls[t]>>

(* A response with the ticket of the call is the answer to the call.       *)
OwnReply(t) ==
  /\ pc[t] \notin Answering => reply[t] = NoReply
  /\ pc[t] = "check" => reply[t] # NoReply
  /\ pc[t] \in {"release", "check"} /\ reply[t] # NoReply /\ reply[t].id = ticket[t]
       => reply[t].call = <<t, calls[t]>>
  /\ pc[t] = "return" => reply[t].call = <<t, calls[t]>>

AnswerInv == TicketsIssued /\ \A t \in Threads : OwnTicket(t) /\ OwnReply(t)

LEMMA InitAnswers == Init => AnswerInv
<1> SUFFICES ASSUME Init PROVE AnswerInv
  OBVIOUS
<1>1. \A c \in Conns : ToSet(pending[c]) = {}
  BY DEF Init, ToSet
<1> QED
  BY <1>1 DEF Init, AnswerInv, TicketsIssued, OwnTicket, OwnReply, Waiting, Answering

(* The requests of a queue after one is added, and after the oldest leaves. *)
LEMMA QueueElements ==
  ASSUME NEW S, NEW s \in Seq(S)
  PROVE  /\ \A x \in S : \A y \in ToSet(Append(s, x)) : y \in ToSet(s) \/ y = x
         /\ s # <<>> => Head(s) \in ToSet(s) /\ ToSet(Tail(s)) \subseteq ToSet(s)
<1>1. Len(s) \in Nat /\ DOMAIN s = 1 .. Len(s)
  BY LenProperties
<1>2. \A y : y \in ToSet(s) <=> \E i \in 1 .. Len(s) : s[i] = y
  BY <1>1 DEF ToSet
<1>3. ASSUME NEW x \in S, NEW y \in ToSet(Append(s, x))
      PROVE  y \in ToSet(s) \/ y = x
  <2>1. /\ Append(s, x) \in Seq(S) /\ Len(Append(s, x)) = Len(s) + 1
        /\ \A i \in 1 .. Len(s) : Append(s, x)[i] = s[i]
        /\ Append(s, x)[Len(s) + 1] = x
    BY AppendProperties
  <2>2. DOMAIN Append(s, x) = 1 .. Len(s) + 1
    BY <2>1, LenProperties
  <2>3. PICK i \in 1 .. Len(s) + 1 : Append(s, x)[i] = y
    BY <1>3, <2>2 DEF ToSet
  <2>4. i \in 1 .. Len(s) \/ i = Len(s) + 1
    BY <1>1
  <2> QED BY <1>2, <2>1, <2>3, <2>4
<1>4. ASSUME s # <<>>
      PROVE  Head(s) \in ToSet(s) /\ ToSet(Tail(s)) \subseteq ToSet(s)
  <2>1. /\ Len(s) \in Nat \ {0} /\ Head(s) = s[1]
        /\ Tail(s) \in Seq(S) /\ Len(Tail(s)) = Len(s) - 1
        /\ \A i \in 1 .. Len(s) - 1 : Tail(s)[i] = s[i + 1]
    BY <1>1, <1>4, HeadTailProperties, EmptySeq
  <2>2. DOMAIN Tail(s) = 1 .. Len(s) - 1
    BY <2>1, LenProperties
  <2>3. ASSUME NEW y \in ToSet(Tail(s)) PROVE y \in ToSet(s)
    <3>1. PICK i \in 1 .. Len(s) - 1 : Tail(s)[i] = y
      BY <2>2, <2>3 DEF ToSet
    <3>2. i + 1 \in 1 .. Len(s) /\ s[i + 1] = y
      BY <2>1, <3>1
    <3> QED BY <1>2, <3>2
  <2> QED BY <1>2, <2>1, <2>3
<1> QED
  BY <1>3, <1>4

(* What a step of t does to the wire: it uses its own connection only.     *)
LEMMA StepWire ==
  ASSUME TypeOK, HoldsConn, NEW t \in Threads, Step(t)
  PROVE  \/ Encode(t) \/ Send(t) \/ Receive(t)
         \/ UNCHANGED <<counter, pending>>
<1> USE DEF wire
<1>1. CASE StartCall(t) \/ RunFuture(t) \/ LookForFree(t) \/ LockToPop(t) \/ Count(t) \/ LockToCreate(t)
  BY <1>1 DEF StartCall, RunFuture, LookForFree, LockToPop, Count, LockToCreate
<1>2. CASE Pop(t) \/ Create(t) \/ AppendWorking(t)
  BY <1>2 DEF Pop, Create, AppendWorking
<1>3. CASE ReceiveNothing(t) \/ PipeBreaks(t)
  BY <1>3 DEF ReceiveNothing, PipeBreaks
<1>4. CASE TimeOut(t) \/ RemoveTimedOut(t) \/ Release(t) \/ Check(t) \/ Return(t)
  BY <1>4 DEF TimeOut, RemoveTimedOut, Release, Check, Return
<1>5. CASE Interrupt(t)
  BY <1>5, InterruptWays
<1> QED
  BY <1>1, <1>2, <1>3, <1>4, <1>5 DEF Step, Proceed

(* A ticket is issued to one call: what the others wait for, and what is   *)
(* queued on their connections, stays as it was.                           *)
LEMMA StepTickets ==
  ASSUME TypeOK, TypeOK', HoldsConn, AnswerInv, NEW t \in Threads, Step(t)
  PROVE  /\ TicketsIssued'
         /\ \A c \in Conns : c # conn[t] => UNCHANGED <<counter[c], pending[c]>>
<1>0. /\ counter \in [Conns -> Nat] /\ pending \in [Conns -> Seq(Requests)]
      /\ ticket \in [Threads -> Nat] /\ calls \in [Threads -> Nat]
      /\ TicketsIssued /\ OwnTicket(t)
  BY DEF TypeOK, WireType, ThreadType, OtherType, AnswerInv
<1>1. CASE Encode(t)
  <2>1. /\ conn[t] \in Conns /\ UNCHANGED pending
        /\ counter' = [counter EXCEPT ![conn[t]] = @ + 1]
    BY <1>1 DEF Encode, HoldsConn, Holding
  <2>2. \A c \in Conns : c # conn[t] => UNCHANGED <<counter[c], pending[c]>>
    BY <1>0, <2>1
  <2>3. \A c \in Conns : pending'[c] = pending[c] /\ counter'[c] >= counter[c] /\ counter'[c] \in Nat
    BY <1>0, <2>1
  <2>4. TicketsIssued'
    <3> SUFFICES ASSUME NEW c \in Conns, NEW r \in ToSet(pending'[c])
                 PROVE  r.id <= counter'[c]
      BY DEF TicketsIssued
    <3>1. r \in ToSet(pending[c]) /\ pending[c] \in Seq(Requests)
      BY <1>0, <2>3
    <3>2. r \in Requests
      BY <3>1, LenProperties, ElementOfSeq DEF ToSet
    <3>3. r.id <= counter[c] /\ r.id \in Nat
      BY <1>0, <3>1, <3>2 DEF TicketsIssued, Requests
    <3> QED BY <1>0, <2>3, <3>3
  <2> QED BY <2>2, <2>4
<1>2. CASE Send(t)
  <2> DEFINE q == [id |-> ticket[t], call |-> <<t, calls[t]>>]
  <2>1. /\ conn[t] \in Conns /\ UNCHANGED counter /\ pc[t] = "send"
        /\ UNCHANGED pending \/ pending' = [pending EXCEPT ![conn[t]] = Append(@, q)]
    BY <1>2 DEF Send, HoldsConn, Holding
  <2>2. q \in Requests /\ q.id = ticket[t]
    BY <1>0 DEF Requests
  <2> HIDE DEF q
  <2>3. \A c \in Conns : c # conn[t] => UNCHANGED <<counter[c], pending[c]>>
    BY <1>0, <2>1
  <2>4. ticket[t] <= counter[conn[t]]
    BY <1>0, <2>1 DEF OwnTicket, Waiting
  <2>5. ASSUME NEW c \in Conns, NEW r \in ToSet(pending'[c])
        PROVE  r \in ToSet(pending[c]) \/ (c = conn[t] /\ r = q)
    <3>1. pending[c] \in Seq(Requests)
      BY <1>0
    <3>2. pending'[c] = pending[c] \/ (c = conn[t] /\ pending'[c] = Append(pending[c], q))
      BY <1>0, <2>1
    <3> QED BY <2>2, <2>5, <3>1, <3>2, QueueElements
  <2>6. TicketsIssued'
    BY <1>0, <2>1, <2>2, <2>4, <2>5 DEF TicketsIssued
  <2> QED BY <2>3, <2>6
<1>3. CASE Receive(t)
  <2>1. /\ conn[t] \in Conns /\ UNCHANGED counter /\ pending[conn[t]] # <<>>
        /\ pending' = [pending EXCEPT ![conn[t]] = Tail(@)]
    BY <1>3 DEF Receive, HoldsConn, Holding
  <2>2. \A c \in Conns : c # conn[t] => UNCHANGED <<counter[c], pending[c]>>
    BY <1>0, <2>1
  <2>3. \A c \in Conns : ToSet(pending'[c]) \subseteq ToSet(pending[c])
    BY <1>0, <2>1, QueueElements
  <2>4. TicketsIssued'
    BY <1>0, <2>1, <2>3 DEF TicketsIssued
  <2> QED BY <2>2, <2>4
<1>4. CASE UNCHANGED <<counter, pending>>
  BY <1>0, <1>4 DEF TicketsIssued
<1> QED
  BY <1>1, <1>2, <1>3, <1>4, StepWire

(* Ending a call, and moving on while nothing of the call changes.         *)
LEMMA EndAnswers ==
  ASSUME TypeOK, NEW t \in Threads, NEW how, EndCall(t, how)
  PROVE  OwnTicket(t)' /\ OwnReply(t)'
<1>1. pc'[t] = "idle" /\ reply'[t] = NoReply
  BY DEF TypeOK, ThreadType, EndCall, Goto
<1> QED
  BY <1>1 DEF OwnTicket, OwnReply, Waiting, Answering

LEMMA MoveAnswers ==
  ASSUME TypeOK, AnswerInv, NEW t \in Threads, NEW label \in Labels \ (Waiting \union Answering),
         Goto(t, label), pc[t] \notin Answering, UNCHANGED reply
  PROVE  OwnTicket(t)' /\ OwnReply(t)'
BY DEF TypeOK, ThreadType, AnswerInv, OwnTicket, OwnReply, Waiting, Answering, Goto

(* The step of t, for t itself.                                            *)
LEMMA StepOwn ==
  ASSUME TypeOK, HoldsConn, AnswerInv, NEW t \in Threads, Step(t)
  PROVE  OwnTicket(t)' /\ OwnReply(t)'
<1>0. /\ pc \in [Threads -> Labels] /\ conn \in [Threads -> Conns \union {NoConn}]
      /\ ticket \in [Threads -> Nat] /\ reply \in [Threads -> Requests \union {NoReply}]
      /\ counter \in [Conns -> Nat] /\ pending \in [Conns -> Seq(Requests)]
      /\ calls \in [Threads -> Nat]
      /\ TicketsIssued /\ OwnTicket(t) /\ OwnReply(t)
  BY DEF TypeOK, WireType, ThreadType, OtherType, AnswerInv
<1> USE DEF local, wire, history
<1>1. CASE StartCall(t)
  <2>1. CASE Goto(t, "get") /\ UNCHANGED local
    BY <1>1, <2>1, MoveAnswers DEF StartCall, Labels, Waiting, Answering
  <2> QED BY <1>1, <2>1, EndAnswers DEF StartCall
<1>2. CASE RunFuture(t) \/ LookForFree(t) \/ LockToPop(t) \/ Count(t) \/ LockToCreate(t)
  <2>1. UNCHANGED local /\ pc[t] \notin Answering
    BY <1>2 DEF RunFuture, LookForFree, LockToPop, Count, LockToCreate, Answering
  <2>2. \E label \in {"get", "lock pop", "count", "pop", "lock create", "create"} : Goto(t, label)
    BY <1>2 DEF RunFuture, LookForFree, LockToPop, Count, LockToCreate
  <2> QED BY <2>1, <2>2, MoveAnswers DEF Labels, Waiting, Answering
<1>3. CASE Pop(t) \/ Create(t) \/ AppendWorking(t)
  <2>1. pc[t] \notin Answering
    BY <1>3 DEF Pop, Create, AppendWorking, Answering
  <2>2. \/ \E how : EndCall(t, how)
        \/ UNCHANGED reply /\ \E label \in {"append", "encode"} : Goto(t, label)
    BY <1>3 DEF Pop, Create, AppendWorking
  <2> QED BY <2>1, <2>2, MoveAnswers, EndAnswers DEF Labels, Waiting, Answering
<1>4. CASE Encode(t)
  <2>1. CASE EndCall(t, "TypeError")
    BY <2>1, EndAnswers
  <2>2. CASE ~EndCall(t, "TypeError")
    <3>1. /\ pc[t] = "encode" /\ Goto(t, "send") /\ UNCHANGED <<conn, reply, calls, pending>>
          /\ counter' = [counter EXCEPT ![conn[t]] = @ + 1]
          /\ ticket' = [ticket EXCEPT ![t] = counter[conn[t]] + 1]
      BY <1>4, <2>2 DEF Encode
    <3>2. conn[t] \in Conns
      BY <3>1 DEF HoldsConn, Holding
    <3>3. /\ pc'[t] = "send" /\ conn'[t] = conn[t] /\ reply'[t] = NoReply
          /\ ticket'[t] = counter[conn[t]] + 1 /\ counter'[conn[t]] = counter[conn[t]] + 1
          /\ counter[conn[t]] \in Nat
      BY <1>0, <3>1, <3>2 DEF Goto, OwnReply, Answering
    <3>4. \A r \in ToSet(pending[conn[t]]) : r.id # ticket'[t]
      <4> SUFFICES ASSUME NEW r \in ToSet(pending[conn[t]]) PROVE r.id # ticket'[t]
        OBVIOUS
      <4>1. r \in Requests
        BY <1>0, <3>2, LenProperties, ElementOfSeq DEF ToSet
      <4>2. r.id <= counter[conn[t]] /\ r.id \in Nat
        BY <1>0, <3>2, <4>1 DEF TicketsIssued, Requests
      <4> QED BY <3>3, <4>2
    <3>5. OwnTicket(t)'
      BY <3>1, <3>3, <3>4 DEF OwnTicket
    <3>6. OwnReply(t)'
      BY <3>3 DEF OwnReply
    <3> QED BY <3>5, <3>6
  <2> QED BY <2>1, <2>2
<1>5. CASE Send(t)
  <2> DEFINE q == [id |-> ticket[t], call |-> <<t, calls[t]>>]
  <2>1. /\ conn[t] \in Conns /\ pc[t] = "send" /\ UNCHANGED <<counter, conn, ticket, reply, calls>>
        /\ Goto(t, "receive") \/ Goto(t, "broken pipe")
        /\ UNCHANGED pending \/ pending' = [pending EXCEPT ![conn[t]] = Append(@, q)]
    BY <1>5 DEF Send, HoldsConn, Holding
  <2>2. q \in Requests /\ q.call = <<t, calls[t]>>
    BY <1>0 DEF Requests
  <2> HIDE DEF q
  <2>a. pending[conn[t]] \in Seq(Requests)
    BY <1>0, <2>1
  <2>b. \/ pending'[conn[t]] = pending[conn[t]]
        \/ pending'[conn[t]] = Append(pending[conn[t]], q)
    BY <1>0, <2>1
  <2>3. \A r \in ToSet(pending'[conn[t]]) : r \in ToSet(pending[conn[t]]) \/ r = q
    <3>1. \A r \in ToSet(Append(pending[conn[t]], q)) : r \in ToSet(pending[conn[t]]) \/ r = q
      BY <2>2, <2>a, QueueElements
    <3> QED BY <2>b, <3>1
  <2>4. OwnTicket(t)'
    BY <1>0, <2>1, <2>2, <2>3 DEF OwnTicket, Waiting
  <2>5. OwnReply(t)'
    BY <1>0, <2>1 DEF OwnReply, Answering, Goto
  <2> QED BY <2>4, <2>5
<1>6. CASE Receive(t)
  <2>1. /\ pc[t] = "receive" /\ conn[t] \in Conns /\ pending[conn[t]] # <<>>
        /\ reply' = [reply EXCEPT ![t] = Head(pending[conn[t]])]
        /\ Goto(t, "release") /\ UNCHANGED <<conn, ticket, calls>>
    BY <1>6 DEF Receive, HoldsConn, Holding
  <2>2. Head(pending[conn[t]]) \in ToSet(pending[conn[t]])
    BY <1>0, <2>1, QueueElements
  <2>3. /\ pc'[t] = "release" /\ reply'[t] \in ToSet(pending[conn[t]])
        /\ ticket'[t] = ticket[t] /\ calls'[t] = calls[t]
    BY <1>0, <2>1, <2>2 DEF Goto
  <2>4. OwnTicket(t)'
    BY <2>3 DEF OwnTicket, Waiting
  <2>5. OwnReply(t)'
    BY <1>0, <2>1, <2>3 DEF OwnTicket, OwnReply, Waiting, Answering
  <2> QED BY <2>4, <2>5
<1>7. CASE ReceiveNothing(t) \/ PipeBreaks(t)
  <2>1. /\ UNCHANGED <<counter, pending, conn, ticket, reply, calls>>
        /\ pc[t] \in {"receive", "broken pipe"}
        /\ Goto(t, "release") \/ (Goto(t, "send") /\ pc[t] = "receive")
    BY <1>7 DEF ReceiveNothing, PipeBreaks
  <2> QED BY <1>0, <2>1 DEF OwnTicket, OwnReply, Waiting, Answering, Goto
<1>8. CASE TimeOut(t)
  <2>1. pc[t] = "receive"
    BY <1>8 DEF TimeOut
  <2>2. EndCall(t, "AdbError") \/ (UNCHANGED reply /\ Goto(t, "remove"))
    BY <1>8 DEF TimeOut
  <2> QED BY <2>1, <2>2, EndAnswers, MoveAnswers DEF Labels, Waiting, Answering
<1>9. CASE RemoveTimedOut(t) \/ Return(t)
  <2>1. \E how : EndCall(t, how)
    BY <1>9 DEF RemoveTimedOut, Return
  <2> QED BY <2>1, EndAnswers
<1>10. CASE Release(t)
  <2>1. \/ \E how : EndCall(t, how)
        \/ /\ reply[t] # NoReply /\ pc[t] = "release" /\ Goto(t, "check")
           /\ UNCHANGED <<ticket, reply, calls>>
    BY <1>10 DEF Release
  <2>2. CASE \E how : EndCall(t, how)
    BY <2>2, EndAnswers
  <2>3. CASE ~\E how : EndCall(t, how)
    BY <1>0, <2>1, <2>3 DEF OwnTicket, OwnReply, Waiting, Answering, Goto
  <2> QED BY <2>2, <2>3
<1>11. CASE Check(t)
  <2>1. \/ \E how : EndCall(t, how)
        \/ /\ reply[t].id = ticket[t] /\ pc[t] = "check" /\ Goto(t, "return")
           /\ UNCHANGED <<ticket, reply, calls>>
    BY <1>11 DEF Check
  <2>2. CASE \E how : EndCall(t, how)
    BY <2>2, EndAnswers
  <2>3. CASE ~\E how : EndCall(t, how)
    BY <1>0, <2>1, <2>3 DEF OwnTicket, OwnReply, Waiting, Answering, Goto
  <2> QED BY <2>2, <2>3
<1>12. CASE Interrupt(t)
  <2>1. CASE InterruptTry(t)
    <3>1. pc'[t] = "release" /\ reply'[t] = NoReply
      BY <1>0, <2>1 DEF InterruptTry, Goto
    <3> QED BY <3>1 DEF OwnTicket, OwnReply, Waiting, Answering
  <2>2. CASE EndCall(t, "interrupted")
    BY <2>2, EndAnswers
  <2> QED BY <1>12, <2>1, <2>2, InterruptWays
<1> QED
  BY <1>1, <1>2, <1>3, <1>4, <1>5, <1>6, <1>7, <1>8, <1>9, <1>10, <1>11, <1>12 DEF Step, Proceed

LEMMA StepAnswers ==
  ASSUME TypeOK, HoldsConn, Apart, AnswerInv, NEW t \in Threads, Step(t)
  PROVE  AnswerInv'
<1>0. TypeOK'
  BY NextType DEF Next
<1>1. /\ TicketsIssued'
      /\ \A c \in Conns : c # conn[t] => UNCHANGED <<counter[c], pending[c]>>
  BY <1>0, StepTickets
<1>2. OwnTicket(t)' /\ OwnReply(t)'
  BY StepOwn
<1>3. ASSUME NEW u \in Threads \ {t}
      PROVE  OwnTicket(u)' /\ OwnReply(u)'
  <2>1. /\ pc'[u] = pc[u] /\ conn'[u] = conn[u] /\ ticket'[u] = ticket[u]
        /\ reply'[u] = reply[u] /\ calls'[u] = calls[u]
    BY StepAlone
  <2>2. OwnTicket(u) /\ OwnReply(u)
    BY DEF AnswerInv
  <2>3. OwnReply(u)'
    BY <2>1, <2>2 DEF OwnReply
  <2>4. pc[u] \in Waiting => UNCHANGED <<counter[conn[u]], pending[conn[u]]>>
    <3> SUFFICES ASSUME pc[u] \in Waiting PROVE UNCHANGED <<counter[conn[u]], pending[conn[u]]>>
      OBVIOUS
    <3>1. conn[u] \in Conns /\ conn[u] # NoConn
      BY ConnsAssumption DEF HoldsConn, Holding, Waiting
    <3>2. conn[u] # conn[t]
      BY <3>1 DEF Apart, ConnectionExclusive
    <3>3. counter'[conn[u]] = counter[conn[u]] /\ pending'[conn[u]] = pending[conn[u]]
      BY <1>1, <3>1, <3>2
    <3> QED BY <2>1, <3>3
  <2>5. OwnTicket(u)'
    BY <2>1, <2>2, <2>4 DEF OwnTicket
  <2> QED BY <2>3, <2>5
<1> QED
  BY <1>1, <1>2, <1>3 DEF AnswerInv

(* Of the other steps only the server's touches the wire: it drops         *)
(* answers, it never makes one.                                            *)
LEMMA OthersAnswers ==
  ASSUME TypeOK, HoldsConn, AnswerInv, [Next]_vars, ~\E t \in Threads : Step(t)
  PROVE  AnswerInv'
<1>1. UNCHANGED <<pc, conn, ticket, reply, calls, counter>>
  BY DEF Next, SubmitFuture, Terminate, TermReadFree, TermReadWorking, TermClose,
         TermEmptyFree, TermEmptyWorking, TermClearAlive, ServerDrops, Done, vars, wire, local, history
<1>2. UNCHANGED pending \/ \E c \in Conns : pending' = [pending EXCEPT ![c] = <<>>]
  BY DEF Next, SubmitFuture, Terminate, TermReadFree, TermReadWorking, TermClose,
         TermEmptyFree, TermEmptyWorking, TermClearAlive, ServerDrops, Done, vars, wire
<1>3. ToSet(<<>>) = {}
  BY DEF ToSet
<1>4. \A c \in Conns : ToSet(pending'[c]) \subseteq ToSet(pending[c])
  BY <1>2, <1>3 DEF TypeOK, WireType
<1>5. TicketsIssued'
  BY <1>1, <1>4 DEF AnswerInv, TicketsIssued
<1>6. ASSUME NEW t \in Threads PROVE OwnTicket(t)' /\ OwnReply(t)'
  <2>1. pc[t] \in Waiting => conn[t] \in Conns
    BY DEF HoldsConn, Holding, Waiting
  <2> QED BY <1>1, <1>4, <2>1 DEF AnswerInv, OwnTicket, OwnReply
<1> QED
  BY <1>5, <1>6 DEF AnswerInv

LEMMA NextAnswers == TypeOK /\ HoldsConn /\ Apart /\ AnswerInv /\ [Next]_vars => AnswerInv'
BY StepAnswers, OthersAnswers

(* A call returns the answer to its own request, although an interrupted   *)
(* call gives its connection back with an answer still to be read: tickets *)
(* are issued once per connection, and only their holder talks over it.    *)
THEOREM OwnAnswer == Spec => []ReturnsOwnAnswer
<1>1. Spec => [](TypeOK /\ HoldsConn /\ Apart /\ AnswerInv)
  BY InitType, InitApart, InitAnswers, NextType, NextApart, NextAnswers, PTL DEF Spec
<1>2. AnswerInv => ReturnsOwnAnswer
  BY DEF AnswerInv, OwnReply, ReturnsOwnAnswer
<1> QED
  BY <1>1, <1>2, PTL
=============================================================================

------------------------ MODULE RefreshHandler_proofs ------------------------
(***************************************************************************)
(* RefreshHandler never has two tasks for a key, and lists the key of      *)
(* every task, for any requests, workers, keys and pool.  What makes it    *)
(* inductive is the key of a dropped task: between poll and remove it is   *)
(* listed and nobody else's, so that taking it off the list frees no key   *)
(* of a living task.                                                       *)
(***************************************************************************)
EXTENDS RefreshHandler, TLAPS

Owns(r)  == pc[r] \in Submitting
Drops(r) == pc[r] = "removeLast"

\* A request that is not idle has a key; a thread that is not alive has no job.
WellFormed ==
    /\ \A r \in Request : pc[r] # "idle" => key[r] \in Key
    /\ \A w \in Worker : job[w] # None => w \in alive

\* A request's key is listed, and its alone.
OwnersKeys ==
    \A r \in Request : Owns(r) =>
        /\ key[r] \in refreshing
        /\ \A s \in Request : Owns(s) /\ key[s] = key[r] => s = r
        /\ \A i \in 1 .. Len(queue) : queue[i] # key[r]
        /\ \A w \in Worker : job[w] # key[r]

\* So is the key of each task in the queue.
QueuesKeys ==
    \A i \in 1 .. Len(queue) :
        /\ queue[i] \in refreshing
        /\ \A j \in 1 .. Len(queue) : queue[i] = queue[j] => i = j
        /\ \A w \in Worker : job[w] # queue[i]

\* And of each that runs.
WorkersKeys ==
    \A w \in Worker : job[w] # None =>
        /\ job[w] \in refreshing
        /\ \A v \in Worker : job[v] = job[w] => v = w

\* And of each that has been dropped.
DroppedKeys ==
    \A r \in Request : Drops(r) =>
        /\ last[r] \in refreshing
        /\ \A s \in Request : Owns(s) => key[s] # last[r]
        /\ \A s \in Request : Drops(s) /\ last[s] = last[r] => s = r
        /\ \A i \in 1 .. Len(queue) : queue[i] # last[r]
        /\ \A w \in Worker : job[w] # last[r]

OneOwner == OwnersKeys /\ QueuesKeys /\ WorkersKeys /\ DroppedKeys

IInv == TypeOK /\ WellFormed /\ OneOwner

-----------------------------------------------------------------------------
LEMMA InitIInv == Init => IInv
<1> SUFFICES ASSUME Init PROVE IInv
  OBVIOUS
<1>1. TypeOK
  <2>1. Len(<<>>) <= Capacity /\ <<>> \in Seq(Key)
    BY SizeAssumption
  <2>2. QED
    BY <2>1 DEF Init, TypeOK, Submitting
<1>2. WellFormed
  BY DEF Init, WellFormed
<1>3. OneOwner
  BY DEF Init, OneOwner, OwnersKeys, QueuesKeys, WorkersKeys, DroppedKeys, Owns,
         Drops, Submitting
<1>4. QED
  BY <1>1, <1>2, <1>3 DEF IInv

\* What a dequeue does to the queue.
LEMMA TailOfQueue ==
    ASSUME TypeOK, queue # <<>>
    PROVE  /\ Head(queue) = queue[1] /\ Head(queue) \in Key
           /\ 1 \in 1 .. Len(queue)
           /\ Tail(queue) \in Seq(Key) /\ Len(Tail(queue)) = Len(queue) - 1
           /\ \A i \in 1 .. Len(Tail(queue)) :
                 Tail(queue)[i] = queue[i + 1] /\ i + 1 \in 2 .. Len(queue)
BY DEF TypeOK

\* What an enqueue does to it.
LEMMA AppendToQueue ==
    ASSUME TypeOK, NEW k \in Key
    PROVE  /\ Append(queue, k) \in Seq(Key)
           /\ Len(Append(queue, k)) = Len(queue) + 1
           /\ \A i \in 1 .. Len(Append(queue, k)) :
                 Append(queue, k)[i] = IF i = Len(queue) + 1 THEN k ELSE queue[i]
BY DEF TypeOK

\* Every step keeps the state well-formed.
LEMMA TypeStep == IInv /\ [Next]_vars => TypeOK' /\ WellFormed'
<1> SUFFICES ASSUME IInv, [Next]_vars PROVE TypeOK' /\ WellFormed'
  OBVIOUS
<1> USE SizeAssumption, NoneAssumption
    DEF IInv, TypeOK, WellFormed, Submitting, Goto, Return
<1>1. ASSUME NEW r \in Request, NEW k \in Key, DoRefresh(r, k)
      PROVE  TypeOK' /\ WellFormed'
  BY <1>1 DEF DoRefresh
<1>2. ASSUME NEW r \in Request,
             PutIfAbsent(r) \/ NewTask(r) \/ NewTaskThrows(r) \/ RemoveLast(r)
      PROVE  TypeOK' /\ WellFormed'
  BY <1>2 DEF PutIfAbsent, NewTask, NewTaskThrows, RemoveLast
<1>3. ASSUME NEW r \in Request, Execute(r) PROVE TypeOK' /\ WellFormed'
  <2>1. CASE StartThread(r)
    BY <1>3, <2>1 DEF Execute, StartThread
  <2>2. CASE ~QueueIsFull /\ Enqueue(r)
    BY <1>3, <2>2, AppendToQueue DEF Execute, Enqueue, QueueIsFull
  <2>3. CASE Goto(r, "rejected") /\ UNCHANGED <<key, queue, alive, job>>
    BY <1>3, <2>3 DEF Execute
  <2>4. QED
    BY <1>3, <2>1, <2>2, <2>3 DEF Execute
<1>4. ASSUME NEW r \in Request, ExecuteAfterShutdown(r)
      PROVE  TypeOK' /\ WellFormed'
  BY <1>4 DEF ExecuteAfterShutdown
<1>5. ASSUME NEW r \in Request, PollLast(r) PROVE TypeOK' /\ WellFormed'
  <2>1. CASE queue = <<>>
    BY <1>5, <2>1 DEF PollLast
  <2>2. CASE queue # <<>>
    BY <1>5, <2>2, TailOfQueue DEF PollLast
  <2>3. QED
    BY <2>1, <2>2
<1>6. ASSUME NEW w \in Worker, Take(w) PROVE TypeOK' /\ WellFormed'
  BY <1>6, TailOfQueue DEF Take
<1>7. ASSUME NEW w \in Worker, RunEnds(w) \/ KeepAliveElapses(w)
      PROVE  TypeOK' /\ WellFormed'
  BY <1>7 DEF RunEnds, KeepAliveElapses
<1>8. CASE Shutdown
  BY <1>8 DEF Shutdown
<1>9. CASE UNCHANGED vars
  BY <1>9 DEF vars
<1>10. QED
  BY <1>1, <1>2, <1>3, <1>4, <1>5, <1>6, <1>7, <1>8, <1>9 DEF Next

\* Every step leaves each listed task its key to itself.
LEMMA OwnerStep == IInv /\ TypeOK' /\ [Next]_vars => OneOwner'
<1> SUFFICES ASSUME IInv, TypeOK', [Next]_vars PROVE OneOwner'
  OBVIOUS
<1> USE SizeAssumption, NoneAssumption
    DEF IInv, TypeOK, WellFormed, OneOwner, OwnersKeys, QueuesKeys, WorkersKeys,
        DroppedKeys, Owns, Drops, Submitting, Goto, Return
<1>1. ASSUME NEW r \in Request, NEW k \in Key, DoRefresh(r, k) PROVE OneOwner'
  BY <1>1 DEF DoRefresh
<1>2. ASSUME NEW r \in Request, PutIfAbsent(r) PROVE OneOwner'
  BY <1>2 DEF PutIfAbsent
<1>3. ASSUME NEW r \in Request, NewTask(r) \/ NewTaskThrows(r) PROVE OneOwner'
  BY <1>3 DEF NewTask, NewTaskThrows
<1>4. ASSUME NEW r \in Request, RemoveLast(r) PROVE OneOwner'
  BY <1>4 DEF RemoveLast
<1>5. ASSUME NEW r \in Request, Execute(r) PROVE OneOwner'
  <2>1. CASE StartThread(r)
    BY <1>5, <2>1 DEF Execute, StartThread
  <2>2. CASE Enqueue(r)
    BY <1>5, <2>2, AppendToQueue DEF Execute, Enqueue
  <2>3. CASE Goto(r, "rejected") /\ UNCHANGED <<key, queue, alive, job>>
    BY <1>5, <2>3 DEF Execute
  <2>4. QED
    BY <1>5, <2>1, <2>2, <2>3 DEF Execute
<1>6. ASSUME NEW r \in Request, ExecuteAfterShutdown(r) PROVE OneOwner'
  BY <1>6 DEF ExecuteAfterShutdown
<1>7. ASSUME NEW r \in Request, PollLast(r) PROVE OneOwner'
  <2>1. CASE queue = <<>>
    BY <1>7, <2>1 DEF PollLast
  <2>2. CASE queue # <<>>
    <3>1. /\ last'[r] = queue[1] /\ last'[r] \in refreshing
          /\ \A s \in Request : s # r => last'[s] = last[s] /\ pc'[s] = pc[s]
          /\ pc[r] = "rejected" /\ pc'[r] = "removeLast"
          /\ Len(queue') = Len(queue) - 1
          /\ \A i \in 1 .. Len(queue') :
                queue'[i] = queue[i + 1] /\ i + 1 \in 2 .. Len(queue)
          /\ UNCHANGED <<refreshing, key, job>>
      BY <1>7, <2>2, TailOfQueue DEF PollLast
    <3>2. OwnersKeys' /\ QueuesKeys' /\ WorkersKeys'
      BY <3>1
    <3>3. DroppedKeys'
      <4>1. ASSUME NEW s \in Request, s # r, Drops(s)'
            PROVE  /\ last'[s] \in refreshing' /\ last'[s] # queue[1]
                   /\ \A q \in Request : Owns(q)' => key'[q] # last'[s]
                   /\ \A i \in 1 .. Len(queue') : queue'[i] # last'[s]
                   /\ \A w \in Worker : job'[w] # last'[s]
        BY <3>1, <4>1, <2>2, TailOfQueue
      <4>2. /\ \A q \in Request : Owns(q)' => key'[q] # last'[r]
            /\ \A i \in 1 .. Len(queue') : queue'[i] # last'[r]
            /\ \A w \in Worker : job'[w] # last'[r]
        <5>1. 1 \in 1 .. Len(queue)
          BY <2>2, TailOfQueue
        <5>2. ASSUME NEW q \in Request, Owns(q)' PROVE key'[q] # last'[r]
          <6>1. Owns(q)
            BY <3>1, <5>2
          <6>2. QED
            BY <3>1, <5>1, <6>1
        <5>3. ASSUME NEW i \in 1 .. Len(queue') PROVE queue'[i] # last'[r]
          <6>1. i + 1 \in 1 .. Len(queue) /\ i + 1 # 1 /\ queue'[i] = queue[i + 1]
            BY <3>1
          <6>2. QED
            BY <3>1, <5>1, <6>1
        <5>4. ASSUME NEW w \in Worker PROVE job'[w] # last'[r]
          BY <3>1, <5>1
        <5>5. QED
          BY <5>2, <5>3, <5>4
      <4>3. \A s, q \in Request : Drops(s)' /\ Drops(q)' /\ last'[s] = last'[q]
                                  => s = q
        BY <3>1, <4>1
      <4>4. QED
        BY <3>1, <4>1, <4>2, <4>3
    <3>4. QED
      BY <3>2, <3>3
  <2>3. QED
    BY <2>1, <2>2
<1>8. ASSUME NEW w \in Worker, Take(w) PROVE OneOwner'
  BY <1>8, TailOfQueue DEF Take
<1>9. ASSUME NEW w \in Worker, RunEnds(w) PROVE OneOwner'
  BY <1>9 DEF RunEnds
<1>10. ASSUME NEW w \in Worker, KeepAliveElapses(w) PROVE OneOwner'
  BY <1>10 DEF KeepAliveElapses
<1>11. CASE Shutdown
  BY <1>11 DEF Shutdown
<1>12. CASE UNCHANGED vars
  BY <1>12 DEF vars
<1>13. QED
  BY <1>1, <1>2, <1>3, <1>4, <1>5, <1>6, <1>7, <1>8, <1>9, <1>10, <1>11, <1>12
     DEF Next

LEMMA InvariantHolds == Spec => []IInv
<1>1. IInv /\ [Next]_vars => IInv'
  BY TypeStep, OwnerStep DEF IInv
<1>2. QED
  BY InitIInv, <1>1, PTL DEF Spec

-----------------------------------------------------------------------------
\* The map, the queue and the pool stay within their types and limits.
THEOREM TypeCorrect == Spec => []TypeOK
<1>1. IInv => TypeOK
  BY DEF IInv
<1>2. QED
  BY InvariantHolds, <1>1, PTL

\* However many requests race, no key is refreshed by two tasks
\* (RefreshHandler.java:95).
THEOREM NoSecondTask == Spec => []OneTaskPerKey
<1>1. IInv => OneTaskPerKey
  BY NoneAssumption
     DEF IInv, TypeOK, OneOwner, OwnersKeys, QueuesKeys, WorkersKeys, Owns,
         OneTaskPerKey, Submitted, Waiting, Running
<1>2. QED
  BY InvariantHolds, <1>1, PTL

\* The key of a task stays listed until the task has ended or been dropped.
THEOREM ListedWhileItLives == Spec => []TasksAreListed
<1>1. IInv => TasksAreListed
  BY DEF IInv, TypeOK, OneOwner, OwnersKeys, QueuesKeys, WorkersKeys, Owns,
         TasksAreListed, Submitted, Waiting, Running
<1>2. QED
  BY InvariantHolds, <1>1, PTL

-----------------------------------------------------------------------------
\* The other way round: why a key is listed.
Reason(k) ==
    \/ k \in failed
    \/ \E r \in Request : Owns(r) /\ key[r] = k
    \/ \E i \in 1 .. Len(queue) : queue[i] = k
    \/ \E w \in Worker : job[w] = k
    \/ \E r \in Request : Drops(r) /\ last[r] = k

AllHaveReason == ~shutdown => \A k \in refreshing : Reason(k)

LEMMA ReasonStep == IInv /\ AllHaveReason /\ [Next]_vars => AllHaveReason'
<1>0. [Next]_vars /\ shutdown => shutdown'
  BY DEF Next, vars, Shutdown, DoRefresh, PutIfAbsent, NewTask, NewTaskThrows,
         Execute, ExecuteAfterShutdown, PollLast, RemoveLast, Take, RunEnds,
         KeepAliveElapses
<1> SUFFICES ASSUME IInv, [Next]_vars, ~shutdown, ~shutdown',
                    \A j \in refreshing : Reason(j), NEW k \in refreshing'
             PROVE  Reason(k)'
  BY <1>0 DEF AllHaveReason
<1> USE NoneAssumption
    DEF IInv, TypeOK, WellFormed, Owns, Drops, Submitting, Goto, Return, Reason
<1>1. ASSUME NEW r \in Request, NEW j \in Key, DoRefresh(r, j) PROVE Reason(k)'
  BY <1>1 DEF DoRefresh
<1>2. ASSUME NEW r \in Request,
             PutIfAbsent(r) \/ NewTask(r) \/ NewTaskThrows(r) PROVE Reason(k)'
  BY <1>2 DEF PutIfAbsent, NewTask, NewTaskThrows
<1>3. ASSUME NEW r \in Request, Execute(r) PROVE Reason(k)'
  <2>1. CASE StartThread(r)
    BY <1>3, <2>1 DEF Execute, StartThread
  <2>2. CASE Enqueue(r)
    <3>1. /\ Len(queue') = Len(queue) + 1 /\ queue'[Len(queue) + 1] = key[r]
          /\ \A i \in 1 .. Len(queue) : queue'[i] = queue[i]
          /\ Len(queue) \in Nat
      BY <1>3, <2>2, AppendToQueue DEF Execute, Enqueue
    <3>2. QED
      BY <1>3, <2>2, <3>1 DEF Execute, Enqueue
  <2>3. CASE Goto(r, "rejected") /\ UNCHANGED <<key, queue, alive, job>>
    BY <1>3, <2>3 DEF Execute
  <2>4. QED
    BY <1>3, <2>1, <2>2, <2>3 DEF Execute
<1>4. ASSUME NEW r \in Request, ExecuteAfterShutdown(r) PROVE Reason(k)'
  BY <1>4 DEF ExecuteAfterShutdown
<1>5. ASSUME queue # <<>>, NEW i \in 1 .. Len(queue), i # 1
      PROVE  i - 1 \in 1 .. Len(Tail(queue)) /\ Tail(queue)[i - 1] = queue[i]
  BY <1>5, TailOfQueue
<1>6. ASSUME NEW r \in Request, PollLast(r) PROVE Reason(k)'
  <2>1. CASE queue = <<>>
    BY <1>6, <2>1 DEF PollLast
  <2>2. CASE queue # <<>>
    <3>1. /\ last'[r] = queue[1] /\ pc'[r] = "removeLast" /\ queue' = Tail(queue)
          /\ \A s \in Request : s # r => pc'[s] = pc[s] /\ last'[s] = last[s]
          /\ pc[r] = "rejected"
          /\ UNCHANGED <<refreshing, key, job, failed>>
      BY <1>6, <2>2, TailOfQueue DEF PollLast
    <3>2. ASSUME NEW i \in 1 .. Len(queue), queue[i] = k PROVE Reason(k)'
      BY <1>5, <2>2, <3>1, <3>2
    <3>3. ASSUME NEW s \in Request,
                 (Owns(s) /\ key[s] = k) \/ (Drops(s) /\ last[s] = k)
          PROVE  Reason(k)'
      BY <3>1, <3>3
    <3>4. QED
      BY <3>1, <3>2, <3>3
  <2>3. QED
    BY <2>1, <2>2
<1>7. ASSUME NEW r \in Request, RemoveLast(r) PROVE Reason(k)'
  BY <1>7 DEF RemoveLast
<1>8. ASSUME NEW w \in Worker, Take(w) PROVE Reason(k)'
  <2>1. /\ job'[w] = queue[1] /\ queue' = Tail(queue) /\ queue # <<>>
        /\ job[w] = None
        /\ \A v \in Worker : v # w => job'[v] = job[v]
        /\ UNCHANGED <<refreshing, pc, key, last, failed>>
    BY <1>8, TailOfQueue DEF Take
  <2>2. ASSUME NEW i \in 1 .. Len(queue), queue[i] = k PROVE Reason(k)'
    BY <1>5, <2>1, <2>2
  <2>3. ASSUME NEW v \in Worker, job[v] = k PROVE Reason(k)'
    <3>1. k # None
      BY <2>1
    <3>2. QED
      BY <2>1, <2>3, <3>1
  <2>4. QED
    BY <2>1, <2>2, <2>3
<1>9. ASSUME NEW w \in Worker, RunEnds(w) \/ KeepAliveElapses(w) PROVE Reason(k)'
  BY <1>9 DEF RunEnds, KeepAliveElapses
<1>10. CASE Shutdown
  BY <1>10 DEF Shutdown
<1>11. CASE UNCHANGED vars
  BY <1>11 DEF vars
<1>12. QED
  BY <1>1, <1>2, <1>3, <1>4, <1>6, <1>7, <1>8, <1>9, <1>10, <1>11 DEF Next

\* A listed key is stuck only when its task could not be made: until the pool is
\* shut down, every other one has a task that will end or be dropped.
THEOREM ListedForAReason == Spec => []ListedHasTask
<1>1. Init => AllHaveReason
  BY DEF Init, AllHaveReason
<1>2. IInv /\ AllHaveReason => ListedHasTask
  BY NoneAssumption
     DEF IInv, TypeOK, AllHaveReason, Reason, ListedHasTask, Submitted, Waiting,
         Running, Dropped, Owns, Drops
<1>3. QED
  BY InvariantHolds, ReasonStep, <1>1, <1>2, PTL DEF Spec
=============================================================================

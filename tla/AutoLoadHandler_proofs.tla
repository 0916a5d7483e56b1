------------------------ MODULE AutoLoadHandler_proofs ------------------------
(***************************************************************************)
(* The map of AutoLoadHandler is bounded, its queue holds nothing twice,   *)
(* and its objects are marked as they are, for any requests, threads, keys *)
(* and limits.                                                             *)
(***************************************************************************)
EXTENDS AutoLoadHandler, FiniteSetTheorems, TLAPS

\* The queue is empty until the sort thread has copied the map, and nothing is left
\* to be put when it is not putting.
SortRound ==
    /\ sorter = "sleep" => queue = <<>>
    /\ sorter # "put" => tmpArr = {}

\* At most one thread calls the DAO for an object.
OneDao ==
    \A v, w \in Worker :
        worker[v] = "dao" /\ worker[w] = "dao" /\ job[v] = job[w] => v = w

\* QueuedOnce, with the queue's indices spelled out.
NothingTwice ==
    /\ \A i, j \in 1 .. Len(queue) : queue[i] = queue[j] => i = j
    /\ \A i \in 1 .. Len(queue) : queue[i] \notin tmpArr

-----------------------------------------------------------------------------
(* Types *)

LEMMA TailOfQueue ==
    ASSUME TypeOK, queue # <<>>
    PROVE  /\ Head(queue) = queue[1] /\ Head(queue) \in To
           /\ Tail(queue) \in Seq(To) /\ Len(Tail(queue)) = Len(queue) - 1
           /\ \A i \in 1 .. Len(Tail(queue)) :
                 Tail(queue)[i] = queue[i + 1] /\ i + 1 \in 2 .. Len(queue)
BY DEF TypeOK

LEMMA AppendToQueue ==
    ASSUME TypeOK, NEW o \in To
    PROVE  /\ Append(queue, o) \in Seq(To)
           /\ Len(Append(queue, o)) = Len(queue) + 1
           /\ \A i \in 1 .. Len(Append(queue, o)) :
                 Append(queue, o)[i] = IF i = Len(queue) + 1 THEN o ELSE queue[i]
BY DEF TypeOK

\* An object that is not in use is registered for no key.
LEMMA FreshObject ==
    ASSUME TypeOK, NEW o \in To \ InUse
    PROVE  /\ \A k \in Key : autoLoadMap[k] # o
           /\ \A w \in Worker : job[w] # o
           /\ \A r \in Request : got[r] # o
BY NoneAssumption DEF InUse, Registered, TypeOK

\* Marking an object leaves its key alone.
LEMMA MarkedObject ==
    ASSUME TypeOK, NEW o \in To, NEW b \in BOOLEAN,
           \/ to' = [to EXCEPT ![o].requested = b]
           \/ to' = [to EXCEPT ![o].loading = b]
    PROVE  to' \in [To -> AutoLoadTO] /\ \A p \in To : to'[p].key = to[p].key
BY DEF TypeOK, AutoLoadTO

LEMMA InitType == Init => TypeOK
<1> SUFFICES ASSUME Init PROVE TypeOK
  OBVIOUS
<1>1. <<>> \in Seq(To) /\ Len(<<>>) <= MaxElement
  BY LimitAssumption
<1>2. QED
  BY <1>1, NoneAssumption
     DEF Init, TypeOK, AutoLoadTO, NewAutoLoadTO, SorterAt, WorkerAt, RequestAt

LEMMA TypeStep == TypeOK /\ [Next]_vars => TypeOK'
<1> SUFFICES ASSUME TypeOK, [Next]_vars PROVE TypeOK'
  OBVIOUS
<1> USE NoneAssumption, LimitAssumption
    DEF TypeOK, AutoLoadTO, NewAutoLoadTO, SorterAt, WorkerAt, RequestAt, Goto,
        Return, Hold, At, Done, requestVars, workerVars, sorterVars
<1>1. ASSUME NEW r \in Request, NEW k \in Key, CheckSize(r, k) \/ Get(r, k)
      PROVE  TypeOK'
  BY <1>1 DEF CheckSize, Get
<1>2. ASSUME NEW r \in Request, PutIfAbsent(r) PROVE TypeOK'
  <2> DEFINE k == key[r]
  <2>1. k \in Key
    BY <1>2 DEF PutIfAbsent
  <2>2. CASE /\ autoLoadMap[k] # None
             /\ Hold(r, "flush", autoLoadMap[k])
             /\ UNCHANGED <<autoLoadMap, to, writeFailed>>
    BY <1>2, <2>1, <2>2 DEF PutIfAbsent
  <2>3. ASSUME NEW o \in To \ InUse,
               autoLoadMap' = [autoLoadMap EXCEPT ![k] = o],
               to' = [to EXCEPT ![o] = NewAutoLoadTO(k)],
               writeFailed' = writeFailed \ {o},
               Hold(r, "flush", o)
        PROVE  TypeOK'
    <3>1. \A l \in Key : autoLoadMap[l] # o
      BY FreshObject
    <3>2. \A l \in Key : autoLoadMap'[l] # None => to'[autoLoadMap'[l]].key = l
      BY <2>1, <2>3, <3>1
    <3>3. QED
      BY <1>2, <2>1, <2>3, <3>2 DEF PutIfAbsent
  <2>4. QED
    BY <1>2, <2>2, <2>3 DEF PutIfAbsent
<1>3. ASSUME NEW r \in Request, FlushRequestTime(r) \/ WriteCacheThrows(r)
      PROVE  TypeOK'
  <2>1. got[r] \in To
    BY <1>3 DEF FlushRequestTime, WriteCacheThrows
  <2>2. CASE FlushRequestTime(r)
    <3>1. to' \in [To -> AutoLoadTO] /\ \A o \in To : to'[o].key = to[o].key
      BY <2>1, <2>2, MarkedObject DEF FlushRequestTime
    <3>2. QED
      BY <2>2, <3>1 DEF FlushRequestTime
  <2>3. CASE WriteCacheThrows(r)
    BY <2>1, <2>3 DEF WriteCacheThrows
  <2>4. QED
    BY <1>3, <2>2, <2>3
<1>4. ASSUME SortCheck \/ GetAutoLoadQueue \/ SortThrows PROVE TypeOK'
  BY <1>4 DEF SortCheck, GetAutoLoadQueue, SortThrows, Registered
<1>5. ASSUME NEW o \in To, Put(o) PROVE TypeOK'
  BY <1>5, AppendToQueue DEF Put
<1>6. ASSUME NEW w \in Worker, Take(w) PROVE TypeOK'
  BY <1>6, TailOfQueue DEF Take
<1>7. ASSUME NEW w \in Worker, Loop(w) \/ Skip(w) \/ Discard(w) \/ Reload(w)
      PROVE  TypeOK'
  BY <1>7 DEF Loop, Skip, Discard, Reload
<1>8. ASSUME NEW w \in Worker, Remove(w) PROVE TypeOK'
  BY <1>8 DEF Remove
<1>9. ASSUME NEW w \in Worker,
             FoundInCache(w) \/ JoinFlight(w) \/ PolledFromCache(w)
                 \/ WriteCacheAndSetLoadTime(w)
      PROVE  TypeOK'
  BY <1>9 DEF FoundInCache, JoinFlight, PolledFromCache, WriteCacheAndSetLoadTime
<1>10. ASSUME NEW w \in Worker, StartDao(w) \/ DaoReturns(w) \/ DaoThrows(w)
       PROVE  TypeOK'
  <2>1. job[w] \in To
    BY <1>10 DEF StartDao, DaoReturns, DaoThrows
  <2>2. to' \in [To -> AutoLoadTO] /\ \A o \in To : to'[o].key = to[o].key
    BY <1>10, <2>1, MarkedObject DEF StartDao, DaoReturns, DaoThrows
  <2>3. /\ worker' \in [Worker -> WorkerAt]
        /\ job' \in [Worker -> To \cup {None}]
        /\ \A v \in Worker :
              job'[v] = None <=> worker'[v] \in {"loop", "take", "stopped"}
    <3>1. CASE Done(w)
      BY <2>1, <3>1
    <3>2. CASE At(w, "dao") \/ At(w, "write")
      BY <2>1, <3>2
    <3>3. QED
      BY <1>10, <3>1, <3>2 DEF StartDao, DaoReturns, DaoThrows
  <2>4. UNCHANGED <<autoLoadMap, queue, sorterVars, requestVars, running, writeFailed>>
    BY <1>10 DEF StartDao, DaoReturns, DaoThrows
  <2>5. QED
    BY <2>2, <2>3, <2>4
<1>11. ASSUME NEW k \in Key, RemoveAutoLoadTO(k) PROVE TypeOK'
  BY <1>11 DEF RemoveAutoLoadTO
<1>12. CASE Shutdown
  BY <1>12 DEF Shutdown
<1>13. CASE UNCHANGED vars
  BY <1>13 DEF vars
<1>14. QED
  BY <1>1, <1>2, <1>3, <1>4, <1>5, <1>6, <1>7, <1>8, <1>9, <1>10, <1>11, <1>12,
     <1>13 DEF Next, RequestStep, SorterStep, WorkerStep

\* The state is well-formed: in particular the queue keeps to its capacity, and an
\* object is registered for the key it was made for.
THEOREM TypeCorrect == Spec => []TypeOK
BY InitType, TypeStep, PTL DEF Spec

-----------------------------------------------------------------------------
(* The map *)

LEMMA InitBounded == Init => BoundedSize
<1> SUFFICES ASSUME Init PROVE BoundedSize
  OBVIOUS
<1>1. Registered = {} /\ Putting = {}
  BY DEF Init, Registered, Putting
<1>2. Cardinality(Request) \in Nat
  BY SetAssumption, FS_CardinalityType
<1>3. QED
  BY <1>1, <1>2, FS_EmptySet, LimitAssumption DEF BoundedSize

\* Steps that list no key and let no request past the check of the size.
LEMMA NothingAdded ==
    ASSUME BoundedSize, Registered' \subseteq Registered, Putting' \subseteq Putting
    PROVE  BoundedSize'
<1>1. IsFiniteSet(Putting)
  BY SetAssumption, FS_Subset DEF Putting
<1>2. /\ IsFiniteSet(Registered') /\ Cardinality(Registered') <= Cardinality(Registered)
      /\ Cardinality(Putting') <= Cardinality(Putting)
  BY <1>1, FS_Subset DEF BoundedSize
<1>3. /\ Cardinality(Registered) \in Nat /\ Cardinality(Registered') \in Nat
      /\ Cardinality(Putting) \in Nat /\ Cardinality(Putting') \in Nat
      /\ Cardinality(Request) \in Nat
  BY <1>1, <1>2, SetAssumption, FS_Subset, FS_CardinalityType DEF BoundedSize
<1>4. QED
  BY <1>2, <1>3, LimitAssumption DEF BoundedSize

LEMMA BoundedStep == TypeOK /\ BoundedSize /\ [Next]_vars => BoundedSize'
<1> SUFFICES ASSUME TypeOK, BoundedSize, [Next]_vars PROVE BoundedSize'
  OBVIOUS
<1> USE NoneAssumption DEF Goto, Return, Hold, requestVars, workerVars, sorterVars
<1>0. /\ IsFiniteSet(Putting) /\ IsFiniteSet(Registered)
      /\ Cardinality(Putting) \in Nat /\ Cardinality(Registered) \in Nat
      /\ Cardinality(Request) \in Nat
  BY SetAssumption, FS_Subset, FS_CardinalityType DEF Putting, BoundedSize
<1>1. ASSUME NEW r \in Request, NEW k \in Key, CheckSize(r, k) PROVE BoundedSize'
  <2>1. Registered' = Registered
    BY <1>1 DEF CheckSize, Registered
  <2>2. Putting' = Putting \cup {r} /\ r \notin Putting
    BY <1>1 DEF CheckSize, Putting, TypeOK
  <2>3. Cardinality(Putting') = Cardinality(Putting) + 1
    BY <1>0, <2>2, FS_AddElement
  <2>4. Cardinality(Putting') <= Cardinality(Request)
    BY SetAssumption, FS_Subset DEF Putting
  <2>5. Cardinality(Registered) <= MaxElement
    BY <1>1 DEF CheckSize
  <2>6. QED
    BY <1>0, <2>1, <2>3, <2>4, <2>5, LimitAssumption DEF BoundedSize
<1>2. ASSUME NEW r \in Request, PutIfAbsent(r) PROVE BoundedSize'
  <2> DEFINE k == key[r]
  <2>1. Putting' = Putting \ {r} /\ r \in Putting
    BY <1>2 DEF PutIfAbsent, Putting, TypeOK
  <2>2. k \in Key
    BY <1>2 DEF PutIfAbsent, TypeOK
  <2>3. CASE autoLoadMap' = autoLoadMap
    BY <2>1, <2>3, NothingAdded DEF Registered
  <2>4. ASSUME NEW o \in To, autoLoadMap[k] = None,
               autoLoadMap' = [autoLoadMap EXCEPT ![k] = o]
        PROVE  BoundedSize'
    <3>1. Registered' = Registered \cup {k} /\ k \notin Registered
      BY <2>2, <2>4 DEF Registered, TypeOK
    <3>2. /\ IsFiniteSet(Registered')
          /\ Cardinality(Registered') = Cardinality(Registered) + 1
      BY <1>0, <3>1, FS_AddElement
    <3>3. Cardinality(Putting') = Cardinality(Putting) - 1
      BY <1>0, <2>1, FS_RemoveElement
    <3>4. QED
      BY <1>0, <3>2, <3>3, LimitAssumption DEF BoundedSize
  <2>5. QED
    BY <1>2, <2>3, <2>4 DEF PutIfAbsent
<1>3. ASSUME NEW r \in Request,
             \/ \E k \in Key : Get(r, k)
             \/ FlushRequestTime(r) \/ WriteCacheThrows(r)
      PROVE  BoundedSize'
  <2>1. Registered' = Registered /\ Putting' \subseteq Putting
    BY <1>3 DEF Get, FlushRequestTime, WriteCacheThrows, Registered, Putting, TypeOK
  <2>2. QED
    BY <2>1, NothingAdded
<1>4. ASSUME NEW w \in Worker, Remove(w) PROVE BoundedSize'
  <2>1. Registered' \subseteq Registered /\ Putting' = Putting
    BY <1>4 DEF Remove, Registered, Putting, TypeOK
  <2>2. QED
    BY <2>1, NothingAdded
<1>5. ASSUME Shutdown \/ \E k \in Key : RemoveAutoLoadTO(k) PROVE BoundedSize'
  <2>1. Registered' \subseteq Registered /\ Putting' = Putting
    BY <1>5 DEF Shutdown, RemoveAutoLoadTO, Registered, Putting, TypeOK
  <2>2. QED
    BY <2>1, NothingAdded
<1>6. ASSUME UNCHANGED <<autoLoadMap, pc>> PROVE BoundedSize'
  <2>1. Registered' = Registered /\ Putting' = Putting
    BY <1>6 DEF Registered, Putting
  <2>2. QED
    BY <2>1, NothingAdded
<1>7. ASSUME SorterStep PROVE UNCHANGED <<autoLoadMap, pc>>
  BY <1>7 DEF SorterStep, SortCheck, GetAutoLoadQueue, SortThrows, Put
<1>8. ASSUME NEW w \in Worker, WorkerStep(w), ~Remove(w)
      PROVE  UNCHANGED <<autoLoadMap, pc>>
  BY <1>8 DEF WorkerStep, Loop, Take, Skip, Discard, Reload, FoundInCache, StartDao,
     JoinFlight, PolledFromCache, DaoReturns, DaoThrows, WriteCacheAndSetLoadTime
<1>9. CASE UNCHANGED vars
  BY <1>6, <1>9 DEF vars
<1>10. QED
  BY <1>1, <1>2, <1>3, <1>4, <1>5, <1>6, <1>7, <1>8, <1>9 DEF Next, RequestStep

\* The map never outgrows its limit by more than one key for each request, although
\* every request checks the limit on its own (AutoLoadHandler.java:164).
THEOREM MapBounded == Spec => []BoundedSize
<1>1. Init => TypeOK /\ BoundedSize
  BY InitType, InitBounded
<1>2. TypeOK /\ BoundedSize /\ [Next]_vars => (TypeOK /\ BoundedSize)'
  BY TypeStep, BoundedStep
<1>3. QED
  BY <1>1, <1>2, PTL DEF Spec

-----------------------------------------------------------------------------
(* The queue *)

QueueInv == SortRound /\ NothingTwice

LEMMA InitQueue == Init => QueueInv
BY DEF Init, QueueInv, SortRound, NothingTwice

LEMMA QueueStep == TypeOK /\ QueueInv /\ [Next]_vars => QueueInv'
<1> SUFFICES ASSUME TypeOK, QueueInv, [Next]_vars PROVE QueueInv'
  OBVIOUS
<1> USE DEF QueueInv, SortRound, NothingTwice
<1>1. CASE SortCheck
  BY <1>1 DEF SortCheck
<1>2. CASE GetAutoLoadQueue
  <2>1. queue' = <<>> /\ sorter' \in {"check", "put"}
    BY <1>2 DEF GetAutoLoadQueue
  <2>2. sorter' = "check" => tmpArr' = {}
    BY <1>2 DEF GetAutoLoadQueue
  <2>3. QED
    BY <2>1, <2>2
<1>3. CASE SortThrows
  BY <1>3 DEF SortThrows
<1>4. ASSUME NEW o \in To, Put(o) PROVE QueueInv'
  <2>1. SortRound'
    BY <1>4 DEF Put
  <2>2. /\ queue' = Append(queue, o)
        /\ tmpArr' = tmpArr \ {o} /\ o \in tmpArr
        /\ \A i \in 1 .. Len(queue) : queue[i] # o
    BY <1>4 DEF Put
  <2>3. \A i \in 1 .. Len(queue') :
           queue'[i] = IF i = Len(queue) + 1 THEN o ELSE queue[i]
    BY <2>2, AppendToQueue
  <2>4. Len(queue') = Len(queue) + 1 /\ Len(queue) \in Nat
    BY <2>2, AppendToQueue DEF TypeOK
  <2>5. NothingTwice'
    BY <2>2, <2>3, <2>4
  <2>6. QED
    BY <2>1, <2>5
<1>5. ASSUME NEW w \in Worker, Take(w) PROVE QueueInv'
  <2>1. queue # <<>> /\ queue' = Tail(queue) /\ UNCHANGED sorterVars
    BY <1>5 DEF Take
  <2>2. /\ Len(queue') = Len(queue) - 1 /\ Len(queue) \in Nat
        /\ \A i \in 1 .. Len(queue') :
              queue'[i] = queue[i + 1] /\ i + 1 \in 1 .. Len(queue)
    BY <2>1, TailOfQueue DEF TypeOK
  <2>3. NothingTwice'
    BY <2>1, <2>2 DEF sorterVars
  <2>4. SortRound'
    BY <2>1 DEF sorterVars
  <2>5. QED
    BY <2>3, <2>4
<1>6. ASSUME UNCHANGED <<queue, sorter, tmpArr>> PROVE QueueInv'
  BY <1>6
<1>7. ASSUME NEW r \in Request, RequestStep(r) PROVE UNCHANGED <<queue, sorter, tmpArr>>
  BY <1>7 DEF RequestStep, CheckSize, Get, PutIfAbsent, FlushRequestTime,
     WriteCacheThrows, sorterVars
<1>8. ASSUME NEW w \in Worker, WorkerStep(w), ~Take(w)
      PROVE  UNCHANGED <<queue, sorter, tmpArr>>
  BY <1>8 DEF WorkerStep, Loop, Skip, Discard, Remove, Reload, FoundInCache, StartDao,
     JoinFlight, PolledFromCache, DaoReturns, DaoThrows, WriteCacheAndSetLoadTime,
     sorterVars
<1>9. ASSUME Shutdown \/ (\E k \in Key : RemoveAutoLoadTO(k)) \/ UNCHANGED vars
      PROVE  UNCHANGED <<queue, sorter, tmpArr>>
  BY <1>9 DEF Shutdown, RemoveAutoLoadTO, vars, sorterVars
<1>10. QED
  BY <1>1, <1>2, <1>3, <1>4, <1>5, <1>6, <1>7, <1>8, <1>9 DEF Next, SorterStep

\* No object waits twice: one round of the sort thread sends at most one auto-load
\* thread to an object (AutoLoadHandler.java:235).
THEOREM NothingQueuedTwice == Spec => []QueuedOnce
<1>1. Init => TypeOK /\ QueueInv
  BY InitType, InitQueue
<1>2. TypeOK /\ QueueInv /\ [Next]_vars => (TypeOK /\ QueueInv)'
  BY TypeStep, QueueStep
<1>3. TypeOK /\ QueueInv => QueuedOnce
  <2> SUFFICES ASSUME TypeOK, QueueInv PROVE QueuedOnce
    OBVIOUS
  <2>1. DOMAIN queue = 1 .. Len(queue)
    BY DEF TypeOK
  <2>2. QED
    BY <2>1 DEF QueueInv, NothingTwice, QueuedOnce, Queued
<1>4. QED
  BY <1>1, <1>2, <1>3, PTL DEF Spec

\* The objects of the sort thread's round that no auto-load thread has taken yet.
Waiting == Queued \cup tmpArr

\* An object of a round leaves it only into a thread's hands, and the next round begins
\* when all of them have.
RoundsAreServed ==
    /\ \A o \in Waiting : o \in Waiting' \/ \E w \in Worker : job[w] # o /\ job'[w] = o
    /\ Waiting' \subseteq Waiting \/ Waiting = {}

\* Though put waits, threads stop and the queue is smaller than the map, the sort thread
\* passes over none of the objects it copied, and none gets its second turn before the
\* others had their first (AutoLoadHandler.java:229-268).
THEOREM NoneIsPassedOver == Spec => [][RoundsAreServed]_vars
<1>1. ASSUME TypeOK, QueueInv, [Next]_vars PROVE RoundsAreServed
  <2>0. DOMAIN queue = 1 .. Len(queue) /\ Len(queue) \in Nat
    BY <1>1 DEF TypeOK
  <2>1. ASSUME UNCHANGED <<queue, tmpArr>> PROVE RoundsAreServed
    BY <2>1 DEF RoundsAreServed, Waiting, Queued
  <2>2. SortCheck \/ SortThrows => UNCHANGED <<queue, tmpArr>>
    BY DEF SortCheck, SortThrows
  <2>3. CASE GetAutoLoadQueue
    <3>1. queue = <<>> /\ tmpArr = {}
      BY <1>1, <2>3 DEF GetAutoLoadQueue, QueueInv, SortRound
    <3>2. Waiting = {}
      BY <3>1 DEF Waiting, Queued
    <3>3. QED
      BY <3>2 DEF RoundsAreServed
  <2>4. ASSUME NEW o \in To, Put(o) PROVE RoundsAreServed
    <3>1. queue' = Append(queue, o) /\ tmpArr' = tmpArr \ {o} /\ o \in tmpArr
      BY <2>4 DEF Put
    <3>2. /\ DOMAIN queue' = 1 .. Len(queue) + 1
          /\ \A i \in DOMAIN queue' : queue'[i] = IF i = Len(queue) + 1 THEN o ELSE queue[i]
      BY <1>1, <3>1, AppendToQueue
    <3>3. Queued' = Queued \cup {o}
      BY <2>0, <3>2 DEF Queued
    <3>4. Waiting' = Waiting
      BY <3>1, <3>3 DEF Waiting
    <3>5. QED
      BY <3>4 DEF RoundsAreServed
  <2>5. ASSUME NEW w \in Worker, Take(w) PROVE RoundsAreServed
    <3>1. /\ queue # <<>> /\ queue' = Tail(queue) /\ tmpArr' = tmpArr
          /\ job[w] = None /\ job'[w] = queue[1] /\ queue[1] # None
      BY <1>1, <2>5, TailOfQueue, NoneAssumption DEF Take, TypeOK, sorterVars
    <3>2. /\ DOMAIN queue' = 1 .. Len(queue) - 1
          /\ \A i \in DOMAIN queue' : queue'[i] = queue[i + 1]
      BY <1>1, <3>1, TailOfQueue DEF TypeOK
    <3>3. \A i \in DOMAIN queue : i = 1 \/ (i - 1 \in DOMAIN queue' /\ queue'[i - 1] = queue[i])
      BY <2>0, <3>2
    <3>4. Queued \subseteq Queued' \cup {queue[1]}
      BY <3>3 DEF Queued
    <3>5. Queued' \subseteq Queued
      BY <2>0, <3>2 DEF Queued
    <3>6. QED
      BY <3>1, <3>4, <3>5 DEF RoundsAreServed, Waiting
  <2>6. ASSUME NEW r \in Request, RequestStep(r) PROVE UNCHANGED <<queue, tmpArr>>
    BY <2>6 DEF RequestStep, CheckSize, Get, PutIfAbsent, FlushRequestTime,
       WriteCacheThrows, sorterVars
  <2>7. ASSUME NEW w \in Worker, WorkerStep(w), ~Take(w) PROVE UNCHANGED <<queue, tmpArr>>
    BY <2>7 DEF WorkerStep, Loop, Skip, Discard, Remove, Reload, FoundInCache, StartDao,
       JoinFlight, PolledFromCache, DaoReturns, DaoThrows, WriteCacheAndSetLoadTime,
       sorterVars
  <2>8. ASSUME Shutdown \/ (\E k \in Key : RemoveAutoLoadTO(k)) \/ UNCHANGED vars
        PROVE  UNCHANGED <<queue, tmpArr>>
    BY <2>8 DEF Shutdown, RemoveAutoLoadTO, vars, sorterVars
  <2>9. QED
    BY <1>1, <2>1, <2>2, <2>3, <2>4, <2>5, <2>6, <2>7, <2>8 DEF Next, SorterStep
<1>2. Init => TypeOK /\ QueueInv
  BY InitType, InitQueue
<1>3. TypeOK /\ QueueInv /\ [Next]_vars => (TypeOK /\ QueueInv)'
  BY TypeStep, QueueStep
<1>4. QED
  BY <1>1, <1>2, <1>3, PTL DEF Spec

-----------------------------------------------------------------------------
(* The objects' marks *)

MarkInv == OneDao /\ LoadingIsTrue

LEMMA InitMarks == Init => MarkInv
BY DEF Init, MarkInv, OneDao, LoadingIsTrue, NewAutoLoadTO

\* A step that leaves the DAO calls and the marks alone.
LEMMA MarksKept ==
    ASSUME MarkInv,
           \A w \in Worker : (worker'[w] = "dao" <=> worker[w] = "dao")
                             /\ (worker[w] = "dao" => job'[w] = job[w]),
           \A o \in To : to'[o].loading = to[o].loading
    PROVE  MarkInv'
BY DEF MarkInv, OneDao, LoadingIsTrue

LEMMA MarkStep == TypeOK /\ MarkInv /\ [Next]_vars => MarkInv'
<1> SUFFICES ASSUME TypeOK, MarkInv, [Next]_vars PROVE MarkInv'
  OBVIOUS
<1> USE NoneAssumption DEF At, Done, Goto, Return, Hold, requestVars, workerVars, sorterVars
<1>1. ASSUME NEW w \in Worker, StartDao(w) PROVE MarkInv'
  <2>1. job[w] \in To /\ job' = job
    BY <1>1 DEF StartDao, TypeOK
  <2>2. worker' = [worker EXCEPT ![w] = "dao"] /\ worker \in [Worker -> WorkerAt]
    BY <1>1 DEF StartDao, TypeOK
  <2>3. \A v \in Worker : worker[v] = "dao" => job[v] # job[w]
    BY <1>1 DEF StartDao
  <2>4. /\ to'[job[w]].loading = TRUE
        /\ \A o \in To \ {job[w]} : to'[o] = to[o]
    BY <1>1, <2>1 DEF StartDao, TypeOK, AutoLoadTO
  <2>5. QED
    BY <2>1, <2>2, <2>3, <2>4 DEF MarkInv, OneDao, LoadingIsTrue
<1>2. ASSUME NEW w \in Worker, DaoReturns(w) \/ DaoThrows(w) PROVE MarkInv'
  <2>1. job[w] \in To /\ worker[w] = "dao"
    BY <1>2 DEF DaoReturns, DaoThrows, TypeOK
  <2>2. /\ worker'[w] # "dao"
        /\ \A v \in Worker \ {w} : worker'[v] = worker[v] /\ job'[v] = job[v]
    BY <1>2 DEF DaoReturns, DaoThrows, TypeOK
  <2>3. /\ to'[job[w]].loading = FALSE
        /\ \A o \in To \ {job[w]} : to'[o] = to[o]
    BY <1>2, <2>1 DEF DaoReturns, DaoThrows, TypeOK, AutoLoadTO
  <2>4. QED
    BY <2>1, <2>2, <2>3 DEF MarkInv, OneDao, LoadingIsTrue
<1>3. ASSUME NEW w \in Worker, WorkerStep(w),
             ~StartDao(w), ~DaoReturns(w), ~DaoThrows(w)
      PROVE  MarkInv'
  <2>1. /\ \A v \in Worker : worker'[v] = "dao" <=> worker[v] = "dao"
        /\ \A v \in Worker : worker[v] = "dao" => job'[v] = job[v]
    BY <1>3 DEF WorkerStep, Loop, Take, Skip, Discard, Remove, Reload, FoundInCache,
       JoinFlight, PolledFromCache, WriteCacheAndSetLoadTime, TypeOK
  <2>2. to' = to
    BY <1>3 DEF WorkerStep, Loop, Take, Skip, Discard, Remove, Reload, FoundInCache,
       JoinFlight, PolledFromCache, WriteCacheAndSetLoadTime
  <2>3. QED
    BY <2>1, <2>2, MarksKept
<1>4. ASSUME NEW r \in Request, PutIfAbsent(r) PROVE MarkInv'
  <2>1. worker' = worker /\ job' = job
    BY <1>4 DEF PutIfAbsent
  <2>2. CASE to' = to
    BY <2>1, <2>2, MarksKept
  <2>3. ASSUME NEW o \in To \ InUse, to' = [to EXCEPT ![o] = NewAutoLoadTO(key[r])]
        PROVE  MarkInv'
    <3>1. ~to'[o].loading /\ \A p \in To \ {o} : to'[p] = to[p]
      BY <2>3 DEF TypeOK, NewAutoLoadTO
    <3>2. \A w \in Worker : job[w] # o
      BY FreshObject
    <3>3. QED
      BY <2>1, <3>1, <3>2 DEF MarkInv, OneDao, LoadingIsTrue
  <2>4. QED
    BY <1>4, <2>2, <2>3 DEF PutIfAbsent
<1>5. ASSUME NEW r \in Request, FlushRequestTime(r) PROVE MarkInv'
  <2>1. got[r] \in To /\ worker' = worker /\ job' = job
    BY <1>5 DEF FlushRequestTime, TypeOK
  <2>2. \A o \in To : to'[o].loading = to[o].loading
    BY <1>5, <2>1 DEF FlushRequestTime, TypeOK, AutoLoadTO
  <2>3. QED
    BY <2>1, <2>2, MarksKept
<1>6. ASSUME UNCHANGED <<worker, job, to>> PROVE MarkInv'
  BY <1>6, MarksKept
<1>7. ASSUME NEW r \in Request, RequestStep(r), ~PutIfAbsent(r), ~FlushRequestTime(r)
      PROVE  UNCHANGED <<worker, job, to>>
  BY <1>7 DEF RequestStep, CheckSize, Get, WriteCacheThrows
<1>8. ASSUME \/ SorterStep \/ Shutdown \/ UNCHANGED vars
             \/ \E k \in Key : RemoveAutoLoadTO(k)
      PROVE  UNCHANGED <<worker, job, to>>
  BY <1>8 DEF SorterStep, SortCheck, GetAutoLoadQueue, SortThrows, Put, Shutdown,
     RemoveAutoLoadTO, vars
<1>9. QED
  BY <1>1, <1>2, <1>3, <1>4, <1>5, <1>6, <1>7, <1>8 DEF Next, WorkerStep

\* An object is marked as loading exactly while its DAO call is under way, also when
\* the call throws (DataLoader.java:269).
THEOREM MarksAreTrue == Spec => []LoadingIsTrue
<1>1. Init => TypeOK /\ MarkInv
  BY InitType, InitMarks
<1>2. TypeOK /\ MarkInv /\ [Next]_vars => (TypeOK /\ MarkInv)'
  BY TypeStep, MarkStep
<1>3. MarkInv => LoadingIsTrue
  BY DEF MarkInv
<1>4. QED
  BY <1>1, <1>2, <1>3, PTL DEF Spec

-----------------------------------------------------------------------------
(* The registered objects *)

\* Some request is about to flush o.
Flushing(o) == \E r \in Request : pc[r] = "flush" /\ got[r] = o

\* RegisteredIsRequested, of one object.
Excused(o) == to[o].requested \/ o \in writeFailed \/ Flushing(o)

RequestedInv == \A k \in Key : autoLoadMap[k] # None => Excused(autoLoadMap[k])

LEMMA InitRequested == Init => RequestedInv
BY DEF Init, RequestedInv

LEMMA RequestedStep == TypeOK /\ RequestedInv /\ [Next]_vars => RequestedInv'
<1> SUFFICES ASSUME TypeOK, RequestedInv, [Next]_vars PROVE RequestedInv'
  OBVIOUS
<1> USE NoneAssumption DEF At, Done, Goto, Return, Hold, requestVars, workerVars, sorterVars
<1>1. ASSUME UNCHANGED <<autoLoadMap, writeFailed>>,
             \A o \in To : to[o].requested => to'[o].requested,
             \A r \in Request :
                pc[r] = "flush" => pc'[r] = "flush" /\ got'[r] = got[r]
      PROVE  RequestedInv'
  BY <1>1 DEF RequestedInv, Excused, Flushing, TypeOK
<1>2. ASSUME NEW r \in Request, NEW k \in Key, CheckSize(r, k) \/ Get(r, k)
      PROVE  RequestedInv'
  <2>1. \A s \in Request :
           pc[s] = "flush" => pc'[s] = "flush" /\ got'[s] = got[s]
    BY <1>2 DEF CheckSize, Get, TypeOK
  <2>2. UNCHANGED <<autoLoadMap, to, writeFailed>>
    BY <1>2 DEF CheckSize, Get
  <2>3. QED
    BY <1>1, <2>1, <2>2
<1>3. ASSUME NEW r \in Request, PutIfAbsent(r) PROVE RequestedInv'
  <2>1. \A s \in Request :
           pc[s] = "flush" => pc'[s] = "flush" /\ got'[s] = got[s]
    BY <1>3 DEF PutIfAbsent, TypeOK
  <2>2. CASE UNCHANGED <<autoLoadMap, to, writeFailed>>
    BY <1>1, <2>1, <2>2
  <2>3. ASSUME NEW o \in To \ InUse,
               autoLoadMap' = [autoLoadMap EXCEPT ![key[r]] = o],
               to' = [to EXCEPT ![o] = NewAutoLoadTO(key[r])],
               writeFailed' = writeFailed \ {o},
               Hold(r, "flush", o)
        PROVE  RequestedInv'
    <3>1. Flushing(o)'
      BY <2>3 DEF Flushing, TypeOK
    <3>2. \A p \in To \ {o} : Excused(p) => Excused(p)'
      BY <2>1, <2>3 DEF Excused, Flushing, TypeOK
    <3>3. \A k \in Key : autoLoadMap[k] # o /\ autoLoadMap[k] \in To \cup {None}
      BY FreshObject DEF TypeOK
    <3>4. \A k \in Key : autoLoadMap'[k] = autoLoadMap[k] \/ autoLoadMap'[k] = o
      BY <2>3 DEF TypeOK
    <3>5. QED
      BY <3>1, <3>2, <3>3, <3>4 DEF RequestedInv, Excused
  <2>4. QED
    BY <1>3, <2>2, <2>3 DEF PutIfAbsent
<1>4. ASSUME NEW r \in Request, FlushRequestTime(r) \/ WriteCacheThrows(r)
      PROVE  RequestedInv'
  <2>1. /\ got[r] \in To /\ autoLoadMap' = autoLoadMap
        /\ \A s \in Request \ {r} : pc'[s] = pc[s] /\ got'[s] = got[s]
    BY <1>4 DEF FlushRequestTime, WriteCacheThrows, TypeOK
  <2>2. to'[got[r]].requested \/ got[r] \in writeFailed'
    BY <1>4, <2>1 DEF FlushRequestTime, WriteCacheThrows, TypeOK, AutoLoadTO
  <2>3. \A o \in To \ {got[r]} :
           to'[o] = to[o] /\ (o \in writeFailed => o \in writeFailed')
    BY <1>4 DEF FlushRequestTime, WriteCacheThrows, TypeOK
  <2>4. \A o \in To : Excused(o) => Excused(o)'
    BY <2>1, <2>2, <2>3 DEF Excused, Flushing
  <2>5. QED
    BY <2>1, <2>4 DEF RequestedInv, TypeOK
<1>5. ASSUME NEW w \in Worker, StartDao(w) \/ DaoReturns(w) \/ DaoThrows(w)
      PROVE  RequestedInv'
  <2>1. job[w] \in To /\ UNCHANGED <<autoLoadMap, pc, got, writeFailed>>
    BY <1>5 DEF StartDao, DaoReturns, DaoThrows, TypeOK
  <2>2. \A o \in To : to[o].requested => to'[o].requested
    BY <1>5, <2>1 DEF StartDao, DaoReturns, DaoThrows, TypeOK, AutoLoadTO
  <2>3. QED
    BY <1>1, <2>1, <2>2
<1>6. ASSUME UNCHANGED <<pc, got, to, writeFailed>>,
             \A k \in Key : autoLoadMap'[k] \in {autoLoadMap[k], None}
      PROVE  RequestedInv'
  BY <1>6 DEF RequestedInv, Excused, Flushing
<1>7. ASSUME Shutdown \/ (\E k \in Key : RemoveAutoLoadTO(k))
                \/ (\E w \in Worker : Remove(w))
      PROVE  RequestedInv'
  <2>1. UNCHANGED <<pc, got, to, writeFailed>>
    BY <1>7 DEF Shutdown, RemoveAutoLoadTO, Remove
  <2>2. \A k \in Key : autoLoadMap'[k] \in {autoLoadMap[k], None}
    BY <1>7 DEF Shutdown, RemoveAutoLoadTO, Remove, TypeOK
  <2>3. QED
    BY <1>6, <2>1, <2>2
<1>8. ASSUME \/ SorterStep \/ UNCHANGED vars
             \/ \E w \in Worker : /\ WorkerStep(w) /\ ~Remove(w)
                                  /\ ~StartDao(w) /\ ~DaoReturns(w) /\ ~DaoThrows(w)
      PROVE  RequestedInv'
  <2>1. UNCHANGED <<autoLoadMap, pc, got, to, writeFailed>>
    BY <1>8 DEF SorterStep, SortCheck, GetAutoLoadQueue, SortThrows, Put, WorkerStep,
       Loop, Take, Skip, Discard, Reload, FoundInCache, JoinFlight, PolledFromCache,
       WriteCacheAndSetLoadTime, vars
  <2>2. QED
    BY <1>1, <2>1
<1>9. QED
  BY <1>2, <1>3, <1>4, <1>5, <1>7, <1>8 DEF Next, RequestStep, WorkerStep

\* An object without a lastRequestTime, which the auto-load threads never remove, is
\* registered only while its request is under way, or when its write failed.
THEOREM RegisteredAreRequested == Spec => []RegisteredIsRequested
<1>1. Init => TypeOK /\ RequestedInv
  BY InitType, InitRequested
<1>2. TypeOK /\ RequestedInv /\ [Next]_vars => (TypeOK /\ RequestedInv)'
  BY TypeStep, RequestedStep
<1>3. RequestedInv => RegisteredIsRequested
  BY DEF RequestedInv, Excused, Flushing, RegisteredIsRequested, Registered
<1>4. QED
  BY <1>1, <1>2, <1>3, PTL DEF Spec
=============================================================================

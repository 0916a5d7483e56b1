------------------------- MODULE DataLoader_proofs --------------------------
(***************************************************************************)
(* Proofs about DataLoader for every set of keys and requests and every    *)
(* loadDataTryCnt.  SingleFlight is not inductive: that two first requests *)
(* of a key cannot meet rests on each of them being the entry of its key   *)
(* in processing, and that in turn on an entry never being removed but by  *)
(* the request it belongs to.  The refinement needs, besides, that data    *)
(* does not get about before its flight has landed.                        *)
(***************************************************************************)
EXTENDS DataLoader, TLAPS

\* The pcs of a request that has not been first yet.
BeforePC == {"idle", "enter", "putIfAbsent"}

\* The pcs of a first request that has no data and no error yet.
EmptyPC == {"getLock", "tryLock", "loadLocked", "poll", "pollClock", "getData"}

LeaderRegistered ==
    \A r \in Request :
        pc[r] \in LeaderPC => processing[KeyOf[r]] = r /\ IsFirst(r)

\* Whom a request has joined is first of a flight of the same key.
JoinedIsFirst ==
    \A r \in Request : joined[r] # None =>
        KeyOf[joined[r]] = KeyOf[r] /\ IsFirst(joined[r])

PassengerNotFirst ==
    \A r \in Request :
        /\ pc[r] \in BeforePC \cup WaiterPC =>
              /\ ~IsFirst(r)
              /\ wrapper[r] = None
              /\ outcome[r] = "none"
        /\ pc[r] \in WaiterPC => joined[r] # None

\* What a first request has by the time it gets to each place.
LeaderHolds ==
    \A r \in Request :
        /\ pc[r] \in EmptyPC => wrapper[r] = None /\ outcome[r] = "none"
        /\ pc[r] = "unlock" => (wrapper[r] = None <=> outcome[r] = "error")
        /\ pc[r] = "setCache" => wrapper[r] # None

\* The life of a ProcessingTO: empty, then decided, then finished.
ToDecided ==
    \A r \in Request :
        /\ pc[r] \in EmptyPC \cup {"unlock", "setCache", "setError"} =>
              /\ to[r].cache = None
              /\ ~to[r].error
              /\ ~to[r].finished
        /\ pc[r] = "setFinished" =>
              (to[r].cache # None <=> ~to[r].error)
        /\ pc[r] \in {"notify", "write"} => IsFirst(r)
        /\ to[r].finished =>
              IsFirst(r) /\ pc[r] \in {"remove", "notify", "write", "done"}

RereadOverdue ==
    \A r \in Request : pc[r] = "reread" => to[joined[r]].overdue

\* At remove, the entry of the key says it is finished.
RemoveFinished ==
    \A r \in Request : pc[r] = "remove" => to[r].finished

Flights ==
    /\ LeaderRegistered
    /\ NoOrphanEntry
    /\ JoinedIsFirst
    /\ PassengerNotFirst
    /\ LeaderHolds
    /\ ToDecided
    /\ FinishedIsDecided
    /\ RereadOverdue
    /\ RemoveFinished

IInv == TypeOK /\ Flights

-----------------------------------------------------------------------------
LEMMA ToUpdate ==
    ASSUME NEW t \in ProcessingTO, NEW c \in Wrapper \cup {None}
    PROVE  /\ [t EXCEPT !.cache = c] \in ProcessingTO
           /\ [t EXCEPT !.error = TRUE] \in ProcessingTO
           /\ [t EXCEPT !.finished = TRUE] \in ProcessingTO
           /\ [t EXCEPT !.overdue = TRUE] \in ProcessingTO
BY DEF ProcessingTO

LEMMA InitIInv == Init => IInv
BY KeyOfAssumption, TryCntAssumption, NoneAssumption
   DEF Init, IInv, TypeOK, Flights, LeaderRegistered, NoOrphanEntry,
       JoinedIsFirst, PassengerNotFirst, LeaderHolds, ToDecided,
       FinishedIsDecided, RereadOverdue, RemoveFinished, IsFirst, BeforePC,
       EmptyPC, Wrapper, PC, LeaderPC, WaiterPC, Outcome, ProcessingTO,
       NewProcessingTO

\* The type invariant needs one fact that is not about types: a waiter has
\* joined some ProcessingTO.
LEMMA TypeStep == TypeOK /\ PassengerNotFirst /\ [Next]_vars => TypeOK'
<1> SUFFICES ASSUME TypeOK, PassengerNotFirst, [Next]_vars PROVE TypeOK'
  OBVIOUS
<1> USE KeyOfAssumption, TryCntAssumption
    DEF TypeOK, Goto, End, Wrapper, PC, LeaderPC, WaiterPC, Outcome
<1>1. ASSUME NEW r \in Request, Hit(r) PROVE TypeOK'
  BY <1>1 DEF Hit
<1>2. ASSUME NEW r \in Request, Miss(r) PROVE TypeOK'
  BY <1>2 DEF Miss
<1>3. ASSUME NEW r \in Request, GetProcessing(r) PROVE TypeOK'
  BY <1>3 DEF GetProcessing
<1>4. ASSUME NEW r \in Request, PutIfAbsent(r) PROVE TypeOK'
  <2>1. NewProcessingTO \in ProcessingTO
    BY DEF NewProcessingTO, ProcessingTO
  <2>2. CASE processing[KeyOf[r]] = None
    BY <1>4, <2>1, <2>2 DEF PutIfAbsent
  <2>3. CASE processing[KeyOf[r]] # None
    BY <1>4, <2>3 DEF PutIfAbsent
  <2>4. QED
    BY <2>2, <2>3
<1>5. ASSUME NEW r \in Request, GetLock(r) PROVE TypeOK'
  BY <1>5 DEF GetLock
<1>6. ASSUME NEW r \in Request, TryLock(r) PROVE TypeOK'
  BY <1>6 DEF TryLock
<1>7. ASSUME NEW r \in Request, GetData(r) PROVE TypeOK'
  BY <1>7 DEF GetData
<1>8. ASSUME NEW r \in Request, GetDataLocked(r) PROVE TypeOK'
  BY <1>8 DEF GetDataLocked
<1>9. ASSUME NEW r \in Request, Unlock(r) PROVE TypeOK'
  BY <1>9 DEF Unlock
<1>10. ASSUME NEW r \in Request, PollCache(r) PROVE TypeOK'
  BY <1>10 DEF PollCache
<1>11. ASSUME NEW r \in Request, PollClock(r) PROVE TypeOK'
  BY <1>11 DEF PollClock
<1>12. ASSUME NEW r \in Request, SetCache(r) PROVE TypeOK'
  BY <1>12, ToUpdate DEF SetCache
<1>13. ASSUME NEW r \in Request, SetError(r) PROVE TypeOK'
  BY <1>13, ToUpdate DEF SetError
<1>14. ASSUME NEW r \in Request, SetFirstFinished(r) PROVE TypeOK'
  BY <1>14, ToUpdate DEF SetFirstFinished
<1>15. ASSUME NEW r \in Request, RemoveProcessing(r) PROVE TypeOK'
  BY <1>15 DEF RemoveProcessing
<1>16. ASSUME NEW r \in Request, NotifyAll(r) PROVE TypeOK'
  BY <1>16 DEF NotifyAll
<1>17. ASSUME NEW r \in Request, WriteCache(r) PROVE TypeOK'
  BY <1>17 DEF WriteCache
<1>18. ASSUME NEW r \in Request, CheckFinished(r) PROVE TypeOK'
  BY <1>18 DEF CheckFinished, PassengerNotFirst, ProcessingTO
<1>19. ASSUME NEW r \in Request, EnterWait(r) PROVE TypeOK'
  BY <1>19 DEF EnterWait
<1>20. ASSUME NEW r \in Request, WaitElapses(r) PROVE TypeOK'
  BY <1>20 DEF WaitElapses
<1>21. ASSUME NEW r \in Request, WaitClock(r) PROVE TypeOK'
  BY <1>21 DEF WaitClock
<1>22. ASSUME NEW r \in Request, Reread(r) PROVE TypeOK'
  BY <1>22 DEF Reread
<1>23. ASSUME NEW r \in Request, Overdue(r) PROVE TypeOK'
  BY <1>23, ToUpdate DEF Overdue
<1>24. ASSUME NEW k \in Key, CacheLoses(k) \/ ForeignWrite(k) PROVE TypeOK'
  BY <1>24 DEF CacheLoses, ForeignWrite
<1>25. CASE UNCHANGED vars
  BY <1>25 DEF vars
<1>26. QED
  BY <1>1, <1>2, <1>3, <1>4, <1>5, <1>6, <1>7, <1>8, <1>9, <1>10, <1>11,
     <1>12, <1>13, <1>14, <1>15, <1>16, <1>17, <1>18, <1>19, <1>20, <1>21,
     <1>22, <1>23, <1>24, <1>25
     DEF Next, Step, Dao

LEMMA FlightsStep == IInv /\ [Next]_vars => Flights'
<1> SUFFICES ASSUME TypeOK, Flights, [Next]_vars, TypeOK' PROVE Flights'
  BY TypeStep DEF IInv, Flights
<1> USE KeyOfAssumption, NoneAssumption
    DEF Flights, TypeOK, LeaderRegistered, NoOrphanEntry, JoinedIsFirst,
        PassengerNotFirst, LeaderHolds, ToDecided, FinishedIsDecided,
        RereadOverdue, RemoveFinished, Goto, End, IsFirst, BeforePC, EmptyPC,
        Wrapper, PC, LeaderPC, WaiterPC, Outcome, ProcessingTO, NewProcessingTO
<1>1. ASSUME NEW r \in Request, Hit(r) PROVE Flights'
  BY <1>1 DEF Hit
<1>2. ASSUME NEW r \in Request, Miss(r) PROVE Flights'
  BY <1>2 DEF Miss
<1>3. ASSUME NEW r \in Request, GetProcessing(r) PROVE Flights'
  <2>1. KeyOf[r] \in Key /\ processing[KeyOf[r]] \in Request \cup {None}
    OBVIOUS
  <2>2. CASE processing[KeyOf[r]] = None
    <3> USE <1>3, <2>1, <2>2 DEF GetProcessing
    <3>1. LeaderRegistered' /\ NoOrphanEntry'
      OBVIOUS
    <3>2. \A q \in Request : joined[q] # r
      OBVIOUS
    <3>3. JoinedIsFirst'
      BY <3>2
    <3>4. PassengerNotFirst' /\ RemoveFinished'
      BY <3>2
    <3>5. RereadOverdue'
      BY <3>2
    <3>6. LeaderHolds'
      OBVIOUS
    <3>7. ToDecided' /\ FinishedIsDecided'
      BY <3>2
    <3>8. QED
      BY <3>1, <3>3, <3>4, <3>5, <3>6, <3>7
  <2>3. CASE processing[KeyOf[r]] # None
    <3> DEFINE p == processing[KeyOf[r]]
    <3> USE <1>3, <2>1, <2>3 DEF GetProcessing
    <3>1. p \in Request /\ p # r /\ KeyOf[p] = KeyOf[r] /\ IsFirst(p)
      OBVIOUS
    <3>2. LeaderRegistered' /\ NoOrphanEntry'
      OBVIOUS
    <3>3. JoinedIsFirst'
      BY <3>1
    <3>4. PassengerNotFirst' /\ RereadOverdue'
      BY <3>1
    <3>5. LeaderHolds' /\ ToDecided' /\ FinishedIsDecided' /\ RemoveFinished'
      OBVIOUS
    <3>6. QED
      BY <3>2, <3>3, <3>4, <3>5
  <2>4. QED
    BY <2>2, <2>3
<1>4. ASSUME NEW r \in Request, PutIfAbsent(r) PROVE Flights'
  <2>1. KeyOf[r] \in Key /\ processing[KeyOf[r]] \in Request \cup {None}
    OBVIOUS
  <2>2. CASE processing[KeyOf[r]] = None
    <3> USE <1>4, <2>1, <2>2 DEF PutIfAbsent
    <3>1. LeaderRegistered' /\ NoOrphanEntry'
      OBVIOUS
    <3>2. \A q \in Request : joined[q] # r
      OBVIOUS
    <3>3. JoinedIsFirst'
      BY <3>2
    <3>4. PassengerNotFirst' /\ RemoveFinished'
      BY <3>2
    <3>5. RereadOverdue'
      BY <3>2
    <3>6. LeaderHolds'
      OBVIOUS
    <3>7. ToDecided' /\ FinishedIsDecided'
      BY <3>2
    <3>8. QED
      BY <3>1, <3>3, <3>4, <3>5, <3>6, <3>7
  <2>3. CASE processing[KeyOf[r]] # None
    <3> DEFINE p == processing[KeyOf[r]]
    <3> USE <1>4, <2>1, <2>3 DEF PutIfAbsent
    <3>1. p \in Request /\ p # r /\ KeyOf[p] = KeyOf[r] /\ IsFirst(p)
      OBVIOUS
    <3>2. LeaderRegistered' /\ NoOrphanEntry'
      OBVIOUS
    <3>3. JoinedIsFirst'
      BY <3>1
    <3>4. PassengerNotFirst' /\ RereadOverdue'
      BY <3>1
    <3>5. LeaderHolds' /\ ToDecided' /\ FinishedIsDecided' /\ RemoveFinished'
      OBVIOUS
    <3>6. QED
      BY <3>2, <3>3, <3>4, <3>5
  <2>4. QED
    BY <2>2, <2>3
<1>5. ASSUME NEW r \in Request, GetLock(r) PROVE Flights'
  BY <1>5 DEF GetLock
<1>6. ASSUME NEW r \in Request, TryLock(r) PROVE Flights'
  <2>1. \/ pc' = [pc EXCEPT ![r] = "loadLocked"]
        \/ pc' = [pc EXCEPT ![r] = "poll"]
        \/ pc' = [pc EXCEPT ![r] = "getData"]
    BY <1>6 DEF TryLock
  <2>2. /\ pc[r] = "tryLock"
        /\ UNCHANGED <<processing, to, joined, wrapper, outcome>>
    BY <1>6 DEF TryLock
  <2>3. QED
    BY <2>1, <2>2
<1>7. ASSUME NEW r \in Request, GetData(r) PROVE Flights'
  BY <1>7 DEF GetData
<1>8. ASSUME NEW r \in Request, GetDataLocked(r) PROVE Flights'
  BY <1>8 DEF GetDataLocked
<1>9. ASSUME NEW r \in Request, Unlock(r) PROVE Flights'
  BY <1>9 DEF Unlock
<1>10. ASSUME NEW r \in Request, PollCache(r) PROVE Flights'
  BY <1>10 DEF PollCache
<1>11. ASSUME NEW r \in Request, PollClock(r) PROVE Flights'
  BY <1>11 DEF PollClock
<1>12. ASSUME NEW r \in Request, SetCache(r) PROVE Flights'
  BY <1>12 DEF SetCache
<1>13. ASSUME NEW r \in Request, SetError(r) PROVE Flights'
  BY <1>13 DEF SetError
<1>14. ASSUME NEW r \in Request, SetFirstFinished(r) PROVE Flights'
  BY <1>14 DEF SetFirstFinished
<1>15. ASSUME NEW r \in Request, RemoveProcessing(r) PROVE Flights'
  BY <1>15 DEF RemoveProcessing
<1>16. ASSUME NEW r \in Request, NotifyAll(r) PROVE Flights'
  BY <1>16 DEF NotifyAll
<1>17. ASSUME NEW r \in Request, WriteCache(r) PROVE Flights'
  BY <1>17 DEF WriteCache
<1>18. ASSUME NEW r \in Request, CheckFinished(r) PROVE Flights'
  BY <1>18 DEF CheckFinished
<1>19. ASSUME NEW r \in Request, EnterWait(r) PROVE Flights'
  BY <1>19 DEF EnterWait
<1>20. ASSUME NEW r \in Request, WaitElapses(r) PROVE Flights'
  BY <1>20 DEF WaitElapses
<1>21. ASSUME NEW r \in Request, WaitClock(r) PROVE Flights'
  BY <1>21 DEF WaitClock
<1>22. ASSUME NEW r \in Request, Reread(r) PROVE Flights'
  <2>1. /\ pc[r] = "reread"
        /\ UNCHANGED <<processing, to, joined>>
        /\ \/ pc' = [pc EXCEPT ![r] = "done"]
           \/ /\ pc' = [pc EXCEPT ![r] = "enter"]
              /\ UNCHANGED <<wrapper, outcome>>
    BY <1>22 DEF Reread
  <2>2. \A q \in Request \ {r} :
           wrapper'[q] = wrapper[q] /\ outcome'[q] = outcome[q]
    BY <1>22 DEF Reread
  <2>3. QED
    BY <2>1, <2>2
<1>23. ASSUME NEW r \in Request, Overdue(r) PROVE Flights'
  BY <1>23 DEF Overdue
<1>24. ASSUME NEW k \in Key, CacheLoses(k) \/ ForeignWrite(k) PROVE Flights'
  BY <1>24 DEF CacheLoses, ForeignWrite
<1>25. CASE UNCHANGED vars
  BY <1>25 DEF vars
<1>26. QED
  BY <1>1, <1>2, <1>3, <1>4, <1>5, <1>6, <1>7, <1>8, <1>9, <1>10, <1>11,
     <1>12, <1>13, <1>14, <1>15, <1>16, <1>17, <1>18, <1>19, <1>20, <1>21,
     <1>22, <1>23, <1>24, <1>25
     DEF Next, Step, Dao

THEOREM InvariantHolds == Spec => []IInv
<1>1. IInv /\ [Next]_vars => IInv'
  BY TypeStep, FlightsStep DEF IInv, Flights
<1>2. QED
  BY InitIInv, <1>1, PTL DEF Spec

-----------------------------------------------------------------------------
\* Every variable keeps to its type; in particular nobody comes back to loadData
\* more than loadDataTryCnt times.
THEOREM TypeCorrect == Spec => []TypeOK
BY InvariantHolds, PTL DEF IInv

\* At most one request of a key is between putIfAbsent and remove.
THEOREM OneFlightPerKey == Spec => []SingleFlight
<1>1. IInv => SingleFlight
  BY DEF IInv, Flights, LeaderRegistered, SingleFlight
<1>2. QED
  BY InvariantHolds, <1>1, PTL

\* An entry of processing belongs to a request that will remove it.
THEOREM EntriesOwned == Spec => []NoOrphanEntry
BY InvariantHolds, PTL DEF IInv, Flights

\* A finished ProcessingTO holds data or an error, and not both.
THEOREM FinishedDecided == Spec => []FinishedIsDecided
BY InvariantHolds, PTL DEF IInv, Flights

\* Only a request without data goes to the DAO.
THEOREM LoadsWithoutData == Spec => []LoadOnlyWithoutData
<1>1. IInv => LoadOnlyWithoutData
  BY DEF IInv, Flights, LeaderHolds, EmptyPC, LoadOnlyWithoutData
<1>2. QED
  BY InvariantHolds, <1>1, PTL

\* processing.remove takes away the caller's own, finished, ProcessingTO.
THEOREM RemovesFinished == Spec => RemovedOnlyWhenFinished
<1>1. ASSUME IInv, [Next]_vars, NEW k \in Key,
             processing[k] # None, processing'[k] # processing[k]
      PROVE  processing'[k] = None /\ to[processing[k]].finished
  <2>1. PICK r \in Request : PutIfAbsent(r) \/ RemoveProcessing(r)
    BY <1>1 DEF Next, Step, Dao, vars, Hit, Miss, GetProcessing, GetLock,
         TryLock, GetData, GetDataLocked, Unlock, PollCache, PollClock,
         SetCache, SetError, SetFirstFinished, NotifyAll, WriteCache,
         CheckFinished, EnterWait, WaitElapses, WaitClock, Reread, Overdue,
         CacheLoses, ForeignWrite
  <2>2. CASE PutIfAbsent(r)
    BY <1>1, <2>2, KeyOfAssumption DEF PutIfAbsent, IInv, TypeOK
  <2>3. CASE RemoveProcessing(r)
    <3>1. processing[KeyOf[r]] = r /\ to[r].finished
      BY <1>1, <2>3 DEF RemoveProcessing, IInv, Flights, LeaderRegistered,
         RemoveFinished, LeaderPC
    <3>2. KeyOf[r] = k /\ processing'[k] = None
      BY <1>1, <2>3, KeyOfAssumption DEF RemoveProcessing, IInv, TypeOK
    <3>3. QED
      BY <3>1, <3>2
  <2>4. QED
    BY <2>1, <2>2, <2>3
<1>2. IInv /\ [Next]_vars =>
        [\A k \in Key :
            /\ processing[k] # None
            /\ processing'[k] # processing[k]
            => processing'[k] = None /\ to[processing[k]].finished]_vars
  BY <1>1
<1>3. QED
  BY InvariantHolds, <1>2, PTL DEF Spec, RemovedOnlyWhenFinished

\* A waiter comes back to loadData only when its first request is overdue.
THEOREM RetriesOverdue == Spec => RetryOnlyWhenOverdue
<1>1. IInv /\ [Next]_vars =>
        [\A r \in Request :
            pc[r] = "reread" /\ pc'[r] = "enter" => to[joined[r]].overdue]_vars
  BY DEF IInv, Flights, RereadOverdue
<1>2. QED
  BY InvariantHolds, <1>1, PTL DEF Spec, RetryOnlyWhenOverdue

-----------------------------------------------------------------------------
(* Refinement *)

\* The data of a request that others may have: its flight has landed.
Published(d, k) ==
    KeyOf[d] = k /\ IsFirst(d) /\ to[d].finished /\ ~to[d].error

\* Data in hand, in a ProcessingTO or in the cache is another server's, somebody's
\* published data, or, before it is published, the first request's own.
CachePublished ==
    \A k \in Key : cache[k] \in Request => Published(cache[k], k)

HeldPublished ==
    \A r \in Request :
        /\ wrapper[r] \in Request =>
              Published(wrapper[r], KeyOf[r]) \/ (wrapper[r] = r /\ IsFirst(r))
        /\ to[r].cache \in Request =>
              Published(to[r].cache, KeyOf[r]) \/ (to[r].cache = r /\ IsFirst(r))

\* A flight is over when its request leaves processing.
AirIsRegistered ==
    \A r \in Request : IsFirst(r) /\ ~to[r].finished => pc[r] \in LeaderPC

\* The first request answers with what its flight has brought.
LeaderAgrees ==
    \A r \in Request :
        /\ pc[r] = "unlock" => outcome[r] \in {"none", "error"}
        /\ pc[r] = "setCache" => outcome[r] = "none"
        /\ pc[r] = "setError" => outcome[r] = "error"
        /\ pc[r] \in {"setFinished", "remove", "notify", "write"} =>
              /\ outcome[r] = IF to[r].error THEN "error" ELSE "none"
              /\ ~to[r].error => to[r].cache = wrapper[r]
        /\ pc[r] \in {"notify", "write"} => to[r].finished
        /\ pc[r] = "write" => ~to[r].error

Publication ==
    CachePublished /\ HeldPublished /\ AirIsRegistered /\ LeaderAgrees

\* What is published stays so.
LEMMA PublishedStays ==
    ASSUME IInv, [Next]_vars, NEW d \in Request, NEW k, Published(d, k)
    PROVE  Published(d, k)'
<1>1. pc[d] \in {"remove", "notify", "write", "done"} /\ IsFirst(d)
  BY DEF IInv, Flights, ToDecided, Published
<1>2. ASSUME NEW r \in Request, GetProcessing(r) PROVE joined'[d] = joined[d] /\ to' = to
  BY <1>1, <1>2 DEF GetProcessing, IInv, TypeOK
<1>3. ASSUME NEW r \in Request, PutIfAbsent(r) PROVE joined'[d] = joined[d] /\ to'[d] = to[d]
  BY <1>1, <1>3 DEF PutIfAbsent, IInv, TypeOK
<1>4. ASSUME NEW r \in Request, SetCache(r) \/ SetError(r)
      PROVE joined'[d] = joined[d] /\ to'[d] = to[d]
  BY <1>1, <1>4 DEF SetCache, SetError, IInv, TypeOK
<1>5. ASSUME NEW r \in Request, SetFirstFinished(r) \/ Overdue(r)
      PROVE /\ joined'[d] = joined[d]
            /\ to'[d].finished = to[d].finished /\ to'[d].error = to[d].error
  BY <1>1, <1>5 DEF SetFirstFinished, Overdue, IInv, TypeOK, ProcessingTO
<1>6. CASE UNCHANGED <<joined, to>>
  BY <1>6 DEF Published, IsFirst
<1>7. CASE \E r \in Request :
              GetProcessing(r) \/ PutIfAbsent(r) \/ SetCache(r) \/ SetError(r)
                \/ SetFirstFinished(r) \/ Overdue(r)
  BY <1>1, <1>2, <1>3, <1>4, <1>5, <1>7 DEF Published, IsFirst
<1>8. QED
  BY <1>6, <1>7
     DEF Next, Step, Dao, vars, Hit, Miss, GetLock, TryLock, GetData,
         GetDataLocked, Unlock, PollCache, PollClock, RemoveProcessing,
         NotifyAll, WriteCache, CheckFinished, EnterWait, WaitElapses,
         WaitClock, Reread, CacheLoses, ForeignWrite

\* Once first, a request stays first.
LEMMA FirstStays ==
    ASSUME IInv, [Next]_vars, NEW r \in Request, IsFirst(r)
    PROVE  IsFirst(r)'
<1>1. ASSUME NEW q \in Request, GetProcessing(q) \/ PutIfAbsent(q)
      PROVE  joined'[r] = joined[r]
  <2>1. q # r
    BY <1>1 DEF GetProcessing, PutIfAbsent, IInv, Flights, PassengerNotFirst, BeforePC
  <2>2. QED
    BY <1>1, <2>1 DEF GetProcessing, PutIfAbsent, IInv, TypeOK
<1>2. CASE UNCHANGED joined
  BY <1>2 DEF IsFirst
<1>3. QED
  BY <1>1, <1>2
     DEF Next, Step, Dao, vars, Hit, Miss, GetLock, TryLock, GetData,
         GetDataLocked, Unlock, PollCache, PollClock, SetCache, SetError,
         SetFirstFinished, RemoveProcessing, NotifyAll, WriteCache,
         CheckFinished, EnterWait, WaitElapses, WaitClock, Reread, Overdue,
         CacheLoses, ForeignWrite, IsFirst

LEMMA CachePublishedStep ==
    ASSUME IInv, Publication, [Next]_vars PROVE CachePublished'
<1> SUFFICES ASSUME NEW k \in Key, NEW d \in Request, cache'[k] = d
             PROVE  Published(d, k)'
  BY DEF CachePublished, Published, IsFirst
<1> USE KeyOfAssumption, NoneAssumption DEF IInv, TypeOK, Publication
<1>1. CASE cache'[k] = cache[k]
  BY <1>1, PublishedStays DEF CachePublished
<1>2. CASE cache'[k] # cache[k]
  <2>1. (\E r \in Request : WriteCache(r)) \/ (\E j \in Key : CacheLoses(j) \/ ForeignWrite(j))
    BY <1>2
       DEF Next, Step, Dao, vars, Hit, Miss, GetProcessing, PutIfAbsent, GetLock,
           TryLock, GetData, GetDataLocked, Unlock, PollCache, PollClock,
           SetCache, SetError, SetFirstFinished, RemoveProcessing, NotifyAll,
           CheckFinished, EnterWait, WaitElapses, WaitClock, Reread, Overdue
  <2>2. PICK r \in Request : WriteCache(r)
    <3>1. ASSUME NEW j \in Key, CacheLoses(j) \/ ForeignWrite(j)
          PROVE  cache'[k] \in {cache[k], None, Foreign}
      BY <3>1 DEF CacheLoses, ForeignWrite
    <3>2. d # None /\ d # Foreign
      BY ForeignAssumption
    <3>3. QED
      BY <1>2, <2>1, <3>1, <3>2
  <2>3. KeyOf[r] = k /\ cache'[k] = wrapper[r] /\ pc[r] = "write"
    BY <1>2, <2>2 DEF WriteCache
  <2>4. Published(d, k)
    BY <2>3 DEF HeldPublished, LeaderAgrees, Published
  <2>5. QED
    BY <2>3, <2>4, PublishedStays
<1>3. QED
  BY <1>1, <1>2

\* What a step puts into a request's hand or ProcessingTO.
LEMMA HeldPublishedStep ==
    ASSUME IInv, Publication, [Next]_vars PROVE HeldPublished'
<1> USE KeyOfAssumption, NoneAssumption DEF IInv, TypeOK, Publication
<1>1. ASSUME NEW r \in Request, NEW d \in Request, wrapper'[r] = d
      PROVE  Published(d, KeyOf[r])' \/ (d = r /\ IsFirst(r)')
  <2>1. CASE wrapper'[r] = wrapper[r]
    BY <1>1, <2>1, PublishedStays, FirstStays DEF HeldPublished
  <2>2. CASE wrapper'[r] # wrapper[r]
    <3>1. \/ Hit(r) \/ PollCache(r) \/ Reread(r)
          \/ GetData(r) \/ GetDataLocked(r) \/ CheckFinished(r)
      BY <2>2
         DEF Next, Step, Dao, vars, Hit, Miss, GetProcessing, PutIfAbsent, GetLock,
             TryLock, GetData, GetDataLocked, Unlock, PollCache, PollClock,
             SetCache, SetError, SetFirstFinished, RemoveProcessing, NotifyAll,
             WriteCache, CheckFinished, EnterWait, WaitElapses, WaitClock, Reread,
             Overdue, CacheLoses, ForeignWrite
    <3>2. CASE Hit(r) \/ PollCache(r) \/ Reread(r)
      <4>1. wrapper'[r] = cache[KeyOf[r]]
        BY <2>2, <3>2 DEF Hit, PollCache, Reread
      <4>2. Published(d, KeyOf[r])
        BY <1>1, <4>1 DEF CachePublished
      <4>3. QED
        BY <1>1, <4>1, <4>2, PublishedStays
    <3>3. CASE GetData(r) \/ GetDataLocked(r)
      <4>1. wrapper'[r] = r /\ IsFirst(r)
        BY <2>2, <3>3 DEF GetData, GetDataLocked, Flights, LeaderRegistered, LeaderPC
      <4>2. QED
        BY <1>1, <4>1, FirstStays
    <3>4. CASE CheckFinished(r)
      <4> DEFINE p == joined[r]
      <4>1. /\ to[p].finished /\ to[p].cache # None /\ wrapper'[r] = to[p].cache
            /\ pc[r] = "check"
        BY <2>2, <3>4 DEF CheckFinished
      <4>2. p \in Request /\ KeyOf[p] = KeyOf[r] /\ IsFirst(p)
        BY <4>1 DEF Flights, JoinedIsFirst, PassengerNotFirst, WaiterPC
      <4>3. ~to[p].error
        BY <4>1, <4>2 DEF Flights, FinishedIsDecided
      <4>4. Published(d, KeyOf[r])
        BY <1>1, <4>1, <4>2, <4>3 DEF HeldPublished, Published
      <4>5. QED
        BY <1>1, <4>1, <4>4, PublishedStays
    <3>5. QED
      BY <3>1, <3>2, <3>3, <3>4
  <2>3. QED
    BY <2>1, <2>2
<1>2. ASSUME NEW r \in Request, NEW d \in Request, to'[r].cache = d
      PROVE  Published(d, KeyOf[r])' \/ (d = r /\ IsFirst(r)')
  <2>1. CASE to'[r].cache = to[r].cache
    BY <1>2, <2>1, PublishedStays, FirstStays DEF HeldPublished
  <2>2. CASE to'[r].cache # to[r].cache
    <3>1. SetCache(r)
      <4>1. ASSUME NEW q \in Request, PutIfAbsent(q) PROVE to'[r].cache \in {to[r].cache, None}
        BY <4>1 DEF PutIfAbsent, NewProcessingTO
      <4>2. ASSUME NEW q \in Request, SetError(q) \/ SetFirstFinished(q) \/ Overdue(q)
            PROVE  to'[r].cache = to[r].cache
        <5>1. \/ to' = [to EXCEPT ![q].error = TRUE]
              \/ to' = [to EXCEPT ![q].finished = TRUE]
              \/ to' = [to EXCEPT ![q].overdue = TRUE]
          BY <4>2 DEF SetError, SetFirstFinished, Overdue
        <5>2. to[r] \in ProcessingTO /\ to[q] \in ProcessingTO
          BY <4>2
        <5>3. CASE r # q
          BY <5>1, <5>3
        <5>4. CASE r = q
          BY <5>1, <5>2, <5>4 DEF ProcessingTO
        <5>5. QED
          BY <5>3, <5>4
      <4>3. ASSUME NEW q \in Request, SetCache(q), q # r PROVE FALSE
        BY <2>2, <4>3 DEF SetCache
      <4>4. QED
        BY <1>2, <2>2, <4>1, <4>2, <4>3
           DEF Next, Step, Dao, vars, Hit, Miss, GetProcessing, GetLock,
               TryLock, GetData, GetDataLocked, Unlock, PollCache, PollClock,
               RemoveProcessing, NotifyAll, WriteCache, CheckFinished, EnterWait,
               WaitElapses, WaitClock, Reread, CacheLoses, ForeignWrite
    <3>2. to'[r].cache = wrapper[r]
      BY <3>1 DEF SetCache, ProcessingTO
    <3>3. QED
      BY <1>2, <3>2, PublishedStays, FirstStays DEF HeldPublished
  <2>3. QED
    BY <2>1, <2>2
<1>3. QED
  BY <1>1, <1>2 DEF HeldPublished, Published, IsFirst

LEMMA LeaderStep ==
    ASSUME IInv, Publication, [Next]_vars
    PROVE  AirIsRegistered' /\ LeaderAgrees'
<1> USE KeyOfAssumption, NoneAssumption
    DEF IInv, Flights, TypeOK, LeaderRegistered, PassengerNotFirst, LeaderHolds,
        ToDecided, FinishedIsDecided, RemoveFinished, Publication, AirIsRegistered,
        LeaderAgrees, Goto, End, IsFirst, BeforePC, EmptyPC, Wrapper, PC, LeaderPC,
        WaiterPC, Outcome, ProcessingTO, NewProcessingTO
<1>1. ASSUME NEW r \in Request, Hit(r) PROVE AirIsRegistered' /\ LeaderAgrees'
  BY <1>1 DEF Hit
<1>2. ASSUME NEW r \in Request, Miss(r) PROVE AirIsRegistered' /\ LeaderAgrees'
  BY <1>2 DEF Miss
<1>3. ASSUME NEW r \in Request, GetProcessing(r) PROVE AirIsRegistered' /\ LeaderAgrees'
  <2>1. ~IsFirst(r)' /\ pc'[r] \notin LeaderPC /\ to' = to
    BY <1>3 DEF GetProcessing, NoOrphanEntry
  <2>2. UNCHANGED <<outcome, wrapper>> /\ pc'[r] \in {"putIfAbsent", "check"}
    BY <1>3 DEF GetProcessing
  <2>3. \A q \in Request \ {r} : joined'[q] = joined[q] /\ pc'[q] = pc[q]
    BY <1>3 DEF GetProcessing
  <2>4. QED
    BY <2>1, <2>2, <2>3
<1>4. ASSUME NEW r \in Request, PutIfAbsent(r) PROVE AirIsRegistered' /\ LeaderAgrees'
  <2>1. /\ IsFirst(r)' => pc'[r] \in LeaderPC
        /\ pc'[r] \in {"getLock", "check"}
        /\ UNCHANGED <<outcome, wrapper>>
    BY <1>4 DEF PutIfAbsent, NoOrphanEntry
  <2>2. \A q \in Request \ {r} :
           joined'[q] = joined[q] /\ pc'[q] = pc[q] /\ to'[q] = to[q]
    BY <1>4 DEF PutIfAbsent
  <2>3. QED
    BY <2>1, <2>2
<1>5. ASSUME NEW r \in Request, GetLock(r) PROVE AirIsRegistered' /\ LeaderAgrees'
  BY <1>5 DEF GetLock
<1>6. ASSUME NEW r \in Request, TryLock(r) PROVE AirIsRegistered' /\ LeaderAgrees'
  BY <1>6 DEF TryLock
<1>7. ASSUME NEW r \in Request, GetData(r) PROVE AirIsRegistered' /\ LeaderAgrees'
  BY <1>7 DEF GetData
<1>8. ASSUME NEW r \in Request, GetDataLocked(r) PROVE AirIsRegistered' /\ LeaderAgrees'
  BY <1>8 DEF GetDataLocked
<1>9. ASSUME NEW r \in Request, Unlock(r) PROVE AirIsRegistered' /\ LeaderAgrees'
  BY <1>9 DEF Unlock
<1>10. ASSUME NEW r \in Request, PollCache(r) PROVE AirIsRegistered' /\ LeaderAgrees'
  BY <1>10 DEF PollCache
<1>11. ASSUME NEW r \in Request, PollClock(r) PROVE AirIsRegistered' /\ LeaderAgrees'
  BY <1>11 DEF PollClock
<1>12. ASSUME NEW r \in Request, SetCache(r) PROVE AirIsRegistered' /\ LeaderAgrees'
  BY <1>12 DEF SetCache
<1>13. ASSUME NEW r \in Request, SetError(r) PROVE AirIsRegistered' /\ LeaderAgrees'
  BY <1>13 DEF SetError
<1>14. ASSUME NEW r \in Request, SetFirstFinished(r) PROVE AirIsRegistered' /\ LeaderAgrees'
  BY <1>14 DEF SetFirstFinished
<1>15. ASSUME NEW r \in Request, RemoveProcessing(r) PROVE AirIsRegistered' /\ LeaderAgrees'
  BY <1>15 DEF RemoveProcessing
<1>16. ASSUME NEW r \in Request, NotifyAll(r) PROVE AirIsRegistered' /\ LeaderAgrees'
  BY <1>16 DEF NotifyAll
<1>17. ASSUME NEW r \in Request, WriteCache(r) PROVE AirIsRegistered' /\ LeaderAgrees'
  BY <1>17 DEF WriteCache
<1>18. ASSUME NEW r \in Request, CheckFinished(r) PROVE AirIsRegistered' /\ LeaderAgrees'
  BY <1>18 DEF CheckFinished
<1>19. ASSUME NEW r \in Request, EnterWait(r) PROVE AirIsRegistered' /\ LeaderAgrees'
  BY <1>19 DEF EnterWait
<1>20. ASSUME NEW r \in Request, WaitElapses(r) PROVE AirIsRegistered' /\ LeaderAgrees'
  BY <1>20 DEF WaitElapses
<1>21. ASSUME NEW r \in Request, WaitClock(r) PROVE AirIsRegistered' /\ LeaderAgrees'
  BY <1>21 DEF WaitClock
<1>22. ASSUME NEW r \in Request, Reread(r) PROVE AirIsRegistered' /\ LeaderAgrees'
  <2>1. pc[r] = "reread" /\ ~IsFirst(r) /\ pc'[r] \in {"enter", "done"}
    BY <1>22 DEF Reread
  <2>2. UNCHANGED <<to, joined>>
    BY <1>22 DEF Reread
  <2>3. \A q \in Request \ {r} :
           /\ pc'[q] = pc[q]
           /\ wrapper'[q] = wrapper[q]
           /\ outcome'[q] = outcome[q]
    BY <1>22 DEF Reread
  <2>4. QED
    BY <2>1, <2>2, <2>3
<1>23. ASSUME NEW r \in Request, Overdue(r) PROVE AirIsRegistered' /\ LeaderAgrees'
  BY <1>23 DEF Overdue
<1>24. ASSUME NEW k \in Key, CacheLoses(k) \/ ForeignWrite(k)
      PROVE  AirIsRegistered' /\ LeaderAgrees'
  BY <1>24 DEF CacheLoses, ForeignWrite
<1>25. CASE UNCHANGED vars
  BY <1>25 DEF vars
<1>26. QED
  BY <1>1, <1>2, <1>3, <1>4, <1>5, <1>6, <1>7, <1>8, <1>9, <1>10, <1>11,
     <1>12, <1>13, <1>14, <1>15, <1>16, <1>17, <1>18, <1>19, <1>20, <1>21,
     <1>22, <1>23, <1>24, <1>25
     DEF Next, Step, Dao

LEMMA InitPublication == Init => Publication
BY KeyOfAssumption, NoneAssumption
   DEF Init, Publication, CachePublished, HeldPublished, AirIsRegistered,
       LeaderAgrees, IsFirst, NewProcessingTO

-----------------------------------------------------------------------------
\* Steps that SingleFlight does not see, and steps that answer a request.
LEMMA Unseen ==
    ASSUME \A q \in Request : Flying(q)' = Flying(q),
           \A q \in Request : Landed(q)' = Landed(q),
           \A q \in Request : Answered(q)' = Answered(q)
    PROVE  UNCHANGED Abstract!vars
BY DEF Abstract!vars

LEMMA Answers ==
    ASSUME NEW r \in Request, NEW a,
           \A q \in Request : Flying(q)' = Flying(q),
           \A q \in Request : Landed(q)' = Landed(q),
           \A q \in Request \ {r} : Answered(q)' = Answered(q),
           Answered(r) = None, Answered(r)' = a
    PROVE  Abstract!Give(r, a)
BY DEF Abstract!Give

\* A request that goes on without answering.
LEMMA GoesOn ==
    ASSUME NEW r \in Request,
           \A q \in Request : IsFirst(q)' = IsFirst(q),
           \A q \in Request : to'[q].finished = to[q].finished,
           \A q \in Request : to[q].finished =>
              to'[q].error = to[q].error /\ to'[q].cache = to[q].cache,
           pc[r] # "done", pc'[r] # "done",
           \A q \in Request \ {r} :
              /\ pc'[q] = "done" <=> pc[q] = "done"
              /\ wrapper'[q] = wrapper[q] /\ outcome'[q] = outcome[q]
    PROVE  UNCHANGED Abstract!vars
<1>1. \A q \in Request : Flying(q)' = Flying(q) /\ Landed(q)' = Landed(q)
  BY DEF Flying, Landed
<1>2. \A q \in Request : Answered(q)' = Answered(q)
  BY DEF Answered
<1>3. QED
  BY <1>1, <1>2, Unseen

\* A request that ends, and what it answers.
LEMMA Ends ==
    ASSUME IInv, NEW r \in Request, UNCHANGED <<joined, to>>,
           pc[r] # "done", pc'[r] = "done",
           \A q \in Request \ {r} :
              pc'[q] = pc[q] /\ wrapper'[q] = wrapper[q] /\ outcome'[q] = outcome[q]
    PROVE  /\ outcome'[r] = "error" => Abstract!Give(r, Abstract!Error)
           /\ outcome'[r] = "timeout" => Abstract!Give(r, Abstract!TimeOut)
           /\ \A d : outcome'[r] = "value" /\ wrapper'[r] = d
                       => Abstract!Give(r, Abstract!Value(d))
<1>1. /\ \A q \in Request : Flying(q)' = Flying(q)
      /\ \A q \in Request : Landed(q)' = Landed(q)
  BY DEF Flying, Landed, IsFirst
<1>2. \A q \in Request \ {r} : Answered(q)' = Answered(q)
  BY DEF Answered
<1>3. Answered(r) = None
  BY DEF Answered
<1>4. CASE outcome'[r] = "error"
  <2>1. Answered(r)' = Abstract!Error
    BY <1>4 DEF Answered, Abstract!Error
  <2>2. Abstract!Give(r, Abstract!Error)
    BY <1>1, <1>2, <1>3, <2>1, Answers DEF Abstract!Error
  <2>3. QED
    BY <1>4, <2>2
<1>5. CASE outcome'[r] = "timeout"
  <2>1. Answered(r)' = Abstract!TimeOut
    BY <1>5 DEF Answered, Abstract!TimeOut
  <2>2. Abstract!Give(r, Abstract!TimeOut)
    BY <1>1, <1>2, <1>3, <2>1, Answers DEF Abstract!TimeOut
  <2>3. QED
    BY <1>5, <2>2
<1>6. ASSUME NEW d, outcome'[r] = "value", wrapper'[r] = d
      PROVE  Abstract!Give(r, Abstract!Value(d))
  <2>1. Answered(r)' = Abstract!Value(d)
    BY <1>6 DEF Answered, Abstract!Value
  <2>2. QED
    BY <1>1, <1>2, <1>3, <2>1, Answers DEF Abstract!Value
<1>7. QED
  BY <1>4, <1>5, <1>6

LEMMA InnerStep ==
    ASSUME IInv, NEW r \in Request,
           \/ Miss(r) \/ GetProcessing(r) \/ GetLock(r) \/ TryLock(r)
           \/ GetData(r) \/ GetDataLocked(r) \/ Unlock(r) \/ PollCache(r)
           \/ PollClock(r) \/ SetCache(r) \/ SetError(r) \/ RemoveProcessing(r)
           \/ EnterWait(r) \/ WaitElapses(r) \/ WaitClock(r)
    PROVE  UNCHANGED Abstract!vars
<1> USE DEF IInv, TypeOK, Goto
<1>1. /\ pc[r] # "done" /\ pc'[r] # "done"
      /\ \A q \in Request \ {r} :
            pc'[q] = pc[q] /\ wrapper'[q] = wrapper[q] /\ outcome'[q] = outcome[q]
  <2>1. CASE Miss(r) \/ GetProcessing(r) \/ GetLock(r) \/ TryLock(r)
    BY <2>1 DEF Miss, GetProcessing, GetLock, TryLock
  <2>2. CASE GetData(r) \/ GetDataLocked(r) \/ Unlock(r) \/ PollCache(r)
    BY <2>2 DEF GetData, GetDataLocked, Unlock, PollCache
  <2>3. CASE PollClock(r) \/ SetCache(r) \/ SetError(r) \/ RemoveProcessing(r)
    BY <2>3 DEF PollClock, SetCache, SetError, RemoveProcessing
  <2>4. CASE EnterWait(r) \/ WaitElapses(r) \/ WaitClock(r)
    BY <2>4 DEF EnterWait, WaitElapses, WaitClock
  <2>5. QED
    BY <2>1, <2>2, <2>3, <2>4
<1>2. \A q \in Request : IsFirst(q)' = IsFirst(q)
  <2>1. CASE GetProcessing(r)
    <3>1. ~IsFirst(r) /\ ~IsFirst(r)'
      BY <2>1, KeyOfAssumption, NoneAssumption
         DEF GetProcessing, Flights, NoOrphanEntry, PassengerNotFirst, BeforePC,
             IsFirst, LeaderPC
    <3>2. \A q \in Request \ {r} : joined'[q] = joined[q]
      BY <2>1 DEF GetProcessing
    <3>3. QED
      BY <3>1, <3>2 DEF IsFirst
  <2>2. CASE ~GetProcessing(r)
    <3>1. UNCHANGED joined
      BY <2>2
         DEF Miss, GetLock, TryLock, GetData, GetDataLocked, Unlock, PollCache,
             PollClock, SetCache, SetError, RemoveProcessing, EnterWait,
             WaitElapses, WaitClock
    <3>2. QED
      BY <3>1 DEF IsFirst
  <2>3. QED
    BY <2>1, <2>2
<1>3. \A q \in Request :
         /\ to'[q].finished = to[q].finished
         /\ to[q].finished => to'[q].error = to[q].error /\ to'[q].cache = to[q].cache
  <2>1. CASE SetCache(r) \/ SetError(r)
    <3>1. ~to[r].finished /\ to[r] \in ProcessingTO
      BY <2>1 DEF SetCache, SetError, Flights, ToDecided
    <3>2. /\ to'[r].finished = to[r].finished
          /\ \A q \in Request \ {r} : to'[q] = to[q]
      BY <2>1, <3>1 DEF SetCache, SetError, ProcessingTO
    <3>3. QED
      BY <3>1, <3>2
  <2>2. CASE ~(SetCache(r) \/ SetError(r))
    <3>1. UNCHANGED to
      BY <2>2
         DEF Miss, GetProcessing, GetLock, TryLock, GetData, GetDataLocked, Unlock,
             PollCache, PollClock, RemoveProcessing, EnterWait, WaitElapses,
             WaitClock
    <3>2. QED
      BY <3>1
  <2>3. QED
    BY <2>1, <2>2
<1>4. QED
  BY <1>1, <1>2, <1>3, GoesOn

\* Published data is what SingleFlight lets a request have.
LEMMA PublishedIsPublic ==
    ASSUME NEW d, NEW k, d \in Request => Published(d, k)
    PROVE  Abstract!Public(d, k)
BY DEF Abstract!Public, Published, Flying

LEMMA TakesFromCache ==
    ASSUME IInv, Publication, NEW r \in Request, Hit(r) \/ Reread(r),
           pc'[r] = "done"
    PROVE  Abstract!AnswerFromCache(r)
<1>1. /\ UNCHANGED <<joined, to>>
      /\ pc[r] # "done"
      /\ \A q \in Request \ {r} :
            pc'[q] = pc[q] /\ wrapper'[q] = wrapper[q] /\ outcome'[q] = outcome[q]
  BY DEF Hit, Reread, Goto, End, IInv, TypeOK
<1>2. Flying(r) = "none"
  BY DEF Hit, Reread, IInv, Flights, PassengerNotFirst, BeforePC, WaiterPC, Flying
<1>3. \/ outcome'[r] \in {"error", "timeout"}
      \/ /\ outcome'[r] = "value" /\ cache[KeyOf[r]] # None
         /\ wrapper'[r] = cache[KeyOf[r]]
  BY DEF Hit, Reread, Goto, End, IInv, TypeOK
<1>4. CASE outcome'[r] \in {"error", "timeout"}
  BY <1>1, <1>2, <1>4, Ends DEF Abstract!AnswerFromCache
<1>5. CASE outcome'[r] = "value" /\ cache[KeyOf[r]] # None /\ wrapper'[r] = cache[KeyOf[r]]
  <2>1. PICK d : d = cache[KeyOf[r]]
    OBVIOUS
  <2>2. d \in Abstract!Data
    BY <1>5, <2>1, KeyOfAssumption DEF IInv, TypeOK, Wrapper, Abstract!Data
  <2>3. Abstract!Public(d, KeyOf[r])
    BY <2>1, KeyOfAssumption, PublishedIsPublic DEF Publication, CachePublished
  <2>4. Abstract!Give(r, Abstract!Value(d))
    BY <1>1, <1>5, <2>1, Ends
  <2>5. QED
    BY <1>2, <2>2, <2>3, <2>4 DEF Abstract!AnswerFromCache
<1>6. QED
  BY <1>3, <1>4, <1>5

LEMMA TakesFromFlight ==
    ASSUME IInv, Publication, NEW r \in Request,
           CheckFinished(r) /\ pc'[r] = "done"
    PROVE  Abstract!AnswerFrom(r, joined[r])
<1>1. /\ UNCHANGED <<joined, to>>
      /\ pc[r] = "check"
      /\ \A q \in Request \ {r} :
            pc'[q] = pc[q] /\ wrapper'[q] = wrapper[q] /\ outcome'[q] = outcome[q]
  BY DEF CheckFinished, Goto, End, IInv, TypeOK
<1>2. PICK p : p = joined[r]
  OBVIOUS
<1>3. p \in Request /\ KeyOf[p] = KeyOf[r] /\ IsFirst(p) /\ ~IsFirst(r)
  BY <1>1, <1>2 DEF IInv, TypeOK, Flights, JoinedIsFirst, PassengerNotFirst, WaiterPC
<1>4. to[p].finished /\ (to[p].cache # None <=> ~to[p].error)
  BY <1>1, <1>2, <1>3
     DEF CheckFinished, Goto, IInv, TypeOK, Flights, FinishedIsDecided
<1>5. Flying(r) = "none"
  BY <1>3 DEF Flying
<1>6. CASE to[p].error
  <2>1. outcome'[r] = "error"
    BY <1>1, <1>2, <1>4, <1>6 DEF CheckFinished, Goto, End, IInv, TypeOK
  <2>2. Abstract!Give(r, Abstract!Error)
    BY <1>1, <2>1, Ends
  <2>3. Flying(p) = "crashed"
    BY <1>3, <1>4, <1>6 DEF Flying
  <2>4. QED
    BY <1>2, <1>3, <1>5, <2>2, <2>3 DEF Abstract!AnswerFrom
<1>7. CASE ~to[p].error
  <2>1. PICK d : d = to[p].cache
    OBVIOUS
  <2>2. outcome'[r] = "value" /\ wrapper'[r] = d
    BY <1>1, <1>2, <1>4, <1>7, <2>1 DEF CheckFinished, Goto, End, IInv, TypeOK
  <2>3. Abstract!Give(r, Abstract!Value(d))
    BY <1>1, <2>2, Ends
  <2>4. Flying(p) = "landed" /\ Landed(p) = d
    BY <1>3, <1>4, <1>7, <2>1 DEF Flying, Landed
  <2>5. QED
    BY <1>2, <1>3, <1>5, <2>3, <2>4 DEF Abstract!AnswerFrom
<1>8. QED
  BY <1>6, <1>7

\* The first request of a flight gets what the flight has brought.
LEMMA TakesItsOwn ==
    ASSUME IInv, Publication, NEW r \in Request, WriteCache(r)
    PROVE  Abstract!AnswerFrom(r, r)
<1>1. /\ UNCHANGED <<joined, to, wrapper>>
      /\ pc[r] = "write" /\ pc'[r] = "done" /\ outcome'[r] = "value"
      /\ \A q \in Request \ {r} : pc'[q] = pc[q] /\ outcome'[q] = outcome[q]
  BY DEF WriteCache, Goto, End, IInv, TypeOK
<1>2. IsFirst(r) /\ to[r].finished /\ ~to[r].error /\ to[r].cache = wrapper[r]
  BY <1>1 DEF IInv, Flights, ToDecided, Publication, LeaderAgrees
<1>3. PICK d : d = wrapper[r]
  OBVIOUS
<1>4. Abstract!Give(r, Abstract!Value(d))
  BY <1>1, <1>3, Ends
<1>5. Flying(r) = "landed" /\ Landed(r) = d
  BY <1>2, <1>3 DEF Flying, Landed
<1>6. QED
  BY <1>4, <1>5 DEF Abstract!AnswerFrom

LEMMA Notifies ==
    ASSUME IInv, Publication, NEW r \in Request, NotifyAll(r)
    PROVE  Abstract!AnswerFrom(r, r) \/ UNCHANGED Abstract!vars
<1>1. /\ UNCHANGED <<joined, to, wrapper, outcome>>
      /\ pc[r] = "notify"
      /\ pc'[r] = IF outcome[r] = "error" THEN "done" ELSE "write"
      /\ \A q \in Request \ {r} : pc'[q] = "done" <=> pc[q] = "done"
  BY DEF NotifyAll, IInv, TypeOK
<1>2. /\ IsFirst(r) /\ to[r].finished
      /\ outcome[r] = IF to[r].error THEN "error" ELSE "none"
  BY <1>1 DEF IInv, Flights, ToDecided, Publication, LeaderAgrees
<1>3. CASE to[r].error
  <2>1. \A q \in Request : Flying(q)' = Flying(q) /\ Landed(q)' = Landed(q)
    BY <1>1 DEF Flying, Landed, IsFirst
  <2>2. \A q \in Request \ {r} : Answered(q)' = Answered(q)
    BY <1>1 DEF Answered
  <2>3. Answered(r) = None /\ Answered(r)' = Abstract!Error
    BY <1>1, <1>2, <1>3 DEF Answered, Abstract!Error
  <2>4. Abstract!Give(r, Abstract!Error)
    BY <2>1, <2>2, <2>3, Answers DEF Abstract!Error
  <2>5. Flying(r) = "crashed"
    BY <1>2, <1>3 DEF Flying
  <2>6. QED
    BY <2>4, <2>5 DEF Abstract!AnswerFrom
<1>4. CASE ~to[r].error
  <2>1. pc'[r] # "done"
    BY <1>1, <1>2, <1>4
  <2>2. \A q \in Request : IsFirst(q)' = IsFirst(q)
    BY <1>1 DEF IsFirst
  <2>3. QED
    BY <1>1, <2>1, <2>2, GoesOn
<1>5. QED
  BY <1>3, <1>4

\* putIfAbsent finds no entry: then no flight of the key is in the air.
LEMMA TakesOff ==
    ASSUME IInv, Publication, NEW r \in Request, PutIfAbsent(r)
    PROVE  Abstract!TakeOff(r) \/ UNCHANGED Abstract!vars
<1> USE KeyOfAssumption, NoneAssumption DEF IInv, TypeOK
<1>1. /\ pc[r] = "putIfAbsent" /\ ~IsFirst(r) /\ ~to[r].finished
      /\ pc'[r] # "done" /\ UNCHANGED <<wrapper, outcome>>
      /\ \A q \in Request \ {r} : pc'[q] = pc[q] /\ joined'[q] = joined[q] /\ to'[q] = to[q]
  BY DEF PutIfAbsent, Goto, Flights, PassengerNotFirst, BeforePC, ToDecided
<1>2. CASE processing[KeyOf[r]] = None
  <2>1. joined'[r] = r /\ ~to'[r].finished
    BY <1>2 DEF PutIfAbsent, NewProcessingTO
  <2>2. Flying(r)' = "air" /\ Flying(r) = "none"
    BY <1>1, <2>1 DEF Flying, IsFirst
  <2>3. \A q \in Request \ {r} : Flying(q)' = Flying(q) /\ Landed(q)' = Landed(q)
    BY <1>1 DEF Flying, Landed, IsFirst
  <2>4. Landed(r)' = Landed(r)
    BY <1>1, <2>1 DEF Landed
  <2>5. /\ \A q \in Request : Answered(q)' = Answered(q)
        /\ Answered(r) = None
    BY <1>1 DEF Answered
  <2>6. ASSUME NEW q \in Request, KeyOf[q] = KeyOf[r] PROVE Flying(q) # "air"
    BY <1>2, <2>6 DEF Flying, Publication, AirIsRegistered, Flights, LeaderRegistered
  <2>7. [q \in Request |-> Flying(q)]' = [[q \in Request |-> Flying(q)] EXCEPT ![r] = "air"]
    BY <2>2, <2>3
  <2>8. UNCHANGED <<[q \in Request |-> Landed(q)], [q \in Request |-> Answered(q)]>>
    BY <2>3, <2>4, <2>5
  <2>9. QED
    BY <2>2, <2>5, <2>6, <2>7, <2>8 DEF Abstract!TakeOff
<1>3. CASE processing[KeyOf[r]] # None
  <2>1. ~IsFirst(r)' /\ UNCHANGED to
    <3>1. joined' = [joined EXCEPT ![r] = processing[KeyOf[r]]] /\ UNCHANGED to
      BY <1>3 DEF PutIfAbsent
    <3>2. processing[KeyOf[r]] # r
      BY <1>1, <1>3 DEF Flights, NoOrphanEntry, LeaderPC
    <3>3. QED
      BY <3>1, <3>2 DEF IsFirst
  <2>2. \A q \in Request : IsFirst(q)' = IsFirst(q)
    BY <1>1, <2>1 DEF IsFirst
  <2>3. QED
    BY <1>1, <2>1, <2>2, GoesOn
<1>4. QED
  BY <1>2, <1>3

\* setFirstFinished: from now on the outcome of the flight is there for all.
LEMMA Lands ==
    ASSUME IInv, Publication, NEW r \in Request, SetFirstFinished(r)
    PROVE  Abstract!Land(r)
<1> USE KeyOfAssumption, NoneAssumption DEF IInv, TypeOK
<1>1. /\ pc[r] = "setFinished" /\ pc'[r] = "remove"
      /\ UNCHANGED <<joined, wrapper, outcome>>
      /\ \A q \in Request \ {r} : pc'[q] = pc[q] /\ to'[q] = to[q]
  BY DEF SetFirstFinished, Goto
<1>2. to'[r].finished /\ to'[r].cache = to[r].cache /\ to'[r].error = to[r].error
  <2>1. to[r] \in ProcessingTO /\ to'[r] = [to[r] EXCEPT !.finished = TRUE]
    BY DEF SetFirstFinished
  <2>2. QED
    BY <2>1 DEF ProcessingTO
<1>3. /\ IsFirst(r) /\ ~to[r].finished
      /\ to[r].cache # None <=> ~to[r].error
  BY <1>1 DEF Flights, LeaderRegistered, LeaderPC, ToDecided
<1>4. \A q \in Request \ {r} : Flying(q)' = Flying(q) /\ Landed(q)' = Landed(q)
  BY <1>1 DEF Flying, Landed, IsFirst
<1>5. \A q \in Request : Answered(q)' = Answered(q)
  BY <1>1 DEF Answered
<1>6. Flying(r) = "air" /\ Landed(r) = None
  BY <1>3 DEF Flying, Landed
<1>7. UNCHANGED [q \in Request |-> Answered(q)]
  BY <1>5
<1>8. CASE to[r].error
  <2>1. Flying(r)' = "crashed" /\ Landed(r)' = Landed(r)
    BY <1>1, <1>2, <1>3, <1>6, <1>8 DEF Flying, Landed, IsFirst
  <2>2. [q \in Request |-> Flying(q)]' = [[q \in Request |-> Flying(q)] EXCEPT ![r] = "crashed"]
    BY <1>4, <2>1
  <2>3. UNCHANGED [q \in Request |-> Landed(q)]
    BY <1>4, <2>1
  <2>4. QED
    BY <1>6, <1>7, <2>2, <2>3 DEF Abstract!Land
<1>9. CASE ~to[r].error
  <2>1. PICK d : d = to[r].cache
    OBVIOUS
  <2>2. d \in Abstract!Data /\ d # None
    BY <1>3, <1>9, <2>1 DEF ProcessingTO, Wrapper, Abstract!Data
  <2>3. d = r \/ Abstract!Public(d, KeyOf[r])
    BY <2>1, PublishedIsPublic DEF Publication, HeldPublished
  <2>4. Flying(r)' = "landed" /\ Landed(r)' = d
    BY <1>1, <1>2, <1>3, <1>9, <2>1 DEF Flying, Landed, IsFirst
  <2>5. [q \in Request |-> Flying(q)]' = [[q \in Request |-> Flying(q)] EXCEPT ![r] = "landed"]
    BY <1>4, <2>4
  <2>6. [q \in Request |-> Landed(q)]' = [[q \in Request |-> Landed(q)] EXCEPT ![r] = d]
    BY <1>4, <2>4
  <2>7. QED
    BY <1>6, <1>7, <2>2, <2>3, <2>5, <2>6 DEF Abstract!Land
<1>10. QED
  BY <1>8, <1>9

\* A request that checks or rereads in vain goes on.
LEMMA LooksInVain ==
    ASSUME IInv, NEW r \in Request, CheckFinished(r) \/ Reread(r), pc'[r] # "done"
    PROVE  UNCHANGED Abstract!vars
<1>1. /\ UNCHANGED <<joined, to>>
      /\ pc[r] # "done"
      /\ \A q \in Request \ {r} :
            pc'[q] = pc[q] /\ wrapper'[q] = wrapper[q] /\ outcome'[q] = outcome[q]
  BY DEF CheckFinished, Reread, Goto, End, IInv, TypeOK
<1>2. \A q \in Request : IsFirst(q)' = IsFirst(q)
  BY <1>1 DEF IsFirst
<1>3. QED
  BY <1>1, <1>2, GoesOn

LEMMA EnvironmentStep ==
    ASSUME IInv,
           \/ \E r \in Request : Overdue(r)
           \/ \E k \in Key : CacheLoses(k) \/ ForeignWrite(k)
           \/ UNCHANGED vars
    PROVE  UNCHANGED Abstract!vars
<1>1. /\ UNCHANGED <<joined, pc, wrapper, outcome>>
      /\ \A q \in Request :
            /\ to'[q].finished = to[q].finished
            /\ to'[q].error = to[q].error /\ to'[q].cache = to[q].cache
  <2>1. ASSUME NEW r \in Request, Overdue(r),
               NEW q \in Request
        PROVE  /\ to'[q].finished = to[q].finished
               /\ to'[q].error = to[q].error /\ to'[q].cache = to[q].cache
    <3>1. to[r] \in ProcessingTO /\ to' = [to EXCEPT ![r].overdue = TRUE]
      BY <2>1 DEF Overdue, IInv, TypeOK
    <3>2. CASE q = r
      BY <3>1, <3>2 DEF IInv, TypeOK, ProcessingTO
    <3>3. CASE q # r
      BY <3>1, <3>3 DEF IInv, TypeOK
    <3>4. QED
      BY <3>2, <3>3
  <2>2. QED
    BY <2>1 DEF Overdue, CacheLoses, ForeignWrite, vars
<1>2. \A q \in Request :
         /\ Flying(q)' = Flying(q)
         /\ Landed(q)' = Landed(q)
         /\ Answered(q)' = Answered(q)
  BY <1>1 DEF Flying, Landed, Answered, IsFirst
<1>3. QED
  BY <1>2, Unseen

LEMMA RefinementStep ==
    ASSUME IInv, Publication, [Next]_vars
    PROVE  [Abstract!Next]_(Abstract!vars)
<1>1. ASSUME NEW r \in Request, Hit(r) PROVE Abstract!Next
  <2>1. pc'[r] = "done"
    BY <1>1 DEF Hit, End, Goto, IInv, TypeOK
  <2>2. QED
    BY <1>1, <2>1, TakesFromCache DEF Abstract!Next
<1>2. ASSUME NEW r \in Request, Reread(r) PROVE Abstract!Next \/ UNCHANGED Abstract!vars
  BY <1>2, TakesFromCache, LooksInVain DEF Abstract!Next
<1>3. ASSUME NEW r \in Request, CheckFinished(r)
      PROVE  Abstract!Next \/ UNCHANGED Abstract!vars
  <2>1. CASE pc'[r] = "done"
    <3>1. joined[r] \in Request
      BY <1>3 DEF CheckFinished, IInv, TypeOK, Flights, PassengerNotFirst, WaiterPC
    <3>2. QED
      BY <1>3, <2>1, <3>1, TakesFromFlight DEF Abstract!Next
  <2>2. CASE pc'[r] # "done"
    BY <1>3, <2>2, LooksInVain
  <2>3. QED
    BY <2>1, <2>2
<1>4. ASSUME NEW r \in Request, WriteCache(r) \/ NotifyAll(r)
      PROVE  Abstract!Next \/ UNCHANGED Abstract!vars
  BY <1>4, TakesItsOwn, Notifies DEF Abstract!Next
<1>5. ASSUME NEW r \in Request, PutIfAbsent(r) \/ SetFirstFinished(r)
      PROVE  Abstract!Next \/ UNCHANGED Abstract!vars
  BY <1>5, TakesOff, Lands DEF Abstract!Next
<1>6. QED
  BY <1>1, <1>2, <1>3, <1>4, <1>5, InnerStep, EnvironmentStep DEF Next, Step, Dao

LEMMA RefinementInit == Init => Abstract!Init
<1> SUFFICES ASSUME Init PROVE Abstract!Init
  OBVIOUS
<1>1. \A r \in Request : Flying(r) = "none" /\ Landed(r) = None /\ Answered(r) = None
  BY NoneAssumption DEF Init, Flying, Landed, Answered, IsFirst, NewProcessingTO
<1>2. QED
  BY <1>1 DEF Abstract!Init

\* loadData implements SingleFlight, for any keys, requests and loadDataTryCnt.
THEOREM Refinement == Spec => ImplementsSingleFlight
<1>1. IInv /\ Publication /\ [Next]_vars => Publication'
  BY CachePublishedStep, HeldPublishedStep, LeaderStep DEF Publication
<1>2. IInv /\ Publication /\ [Next]_vars => [Abstract!Next]_(Abstract!vars)
  BY RefinementStep
<1>3. QED
  BY InvariantHolds, InitPublication, RefinementInit, <1>1, <1>2, PTL
     DEF Spec, ImplementsSingleFlight, Abstract!Spec
=============================================================================

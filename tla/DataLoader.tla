----------------------------- MODULE DataLoader -----------------------------
(***************************************************************************)
(* DataLoader.loadData of one JVM: of the requests that miss the cache     *)
(* under the same key at the same time, the first one loads the data from  *)
(* the DAO and the others wait for it in memory.                           *)
(*                                                                         *)
(* A request is one call of loadData on a thread of its own, made by       *)
(* CacheHandler.proceed, by a RefreshTask or by an auto-load thread, with  *)
(* the cache write its caller makes when isFirst() is true.  A request     *)
(* creates at most one ProcessingTO that others can see, so the object is  *)
(* named after the request that created it.                                *)
(*                                                                         *)
(* Clocks are abstracted to one bit per ProcessingTO: now - startTime has  *)
(* reached waitTimeOut.  A CacheWrapper is abstracted to the request that  *)
(* loaded it, or to Foreign when another server did.                       *)
(***************************************************************************)
EXTENDS Naturals

CONSTANTS
    Key,             \* cache keys
    Request,         \* calls of loadData
    KeyOf,           \* the key each request asks for
    LoadDataTryCnt,  \* AutoLoadConfig.loadDataTryCnt
    Foreign,         \* data loaded by another server
    None             \* null

ASSUME KeyOfAssumption  == KeyOf \in [Request -> Key]
ASSUME TryCntAssumption == LoadDataTryCnt \in Nat
ASSUME NoneAssumption   == None \notin Request \cup {Foreign}
ASSUME ForeignAssumption == Foreign \notin Request

VARIABLES
    processing,  \* CacheHandler.processing: key -> ProcessingTO
    to,          \* the fields of each ProcessingTO
    pc,          \* where each request's thread is
    joined,      \* the ProcessingTO each request works with
    wrapper,     \* DataLoader.cacheWrapper
    tryCnt,      \* DataLoader.tryCnt
    outcome,     \* how the request ends
    cache,       \* the shared cache behind CacheHandler.get
    lockOn       \* CacheHandler.lock is not null

vars == <<processing, to, pc, joined, wrapper, tryCnt, outcome, cache, lockOn>>

Wrapper == Request \cup {Foreign}

ProcessingTO == [cache    : Wrapper \cup {None},
                 error    : BOOLEAN,
                 finished : BOOLEAN,
                 overdue  : BOOLEAN]

NewProcessingTO ==
    [cache |-> None, error |-> FALSE, finished |-> FALSE, overdue |-> FALSE]

\* The pcs of the first request between putIfAbsent and processing.remove.
LeaderPC == {"getLock", "tryLock", "loadLocked", "unlock", "poll", "pollClock",
             "getData", "setCache", "setError", "setFinished", "remove"}

WaiterPC == {"check", "enterWait", "waiting", "waitClock", "reread"}

PC == {"idle", "enter", "putIfAbsent", "notify", "write", "done"}
        \cup LeaderPC \cup WaiterPC

Outcome == {"none", "value", "error", "timeout"}

TypeOK ==
    /\ processing \in [Key -> Request \cup {None}]
    /\ to \in [Request -> ProcessingTO]
    /\ pc \in [Request -> PC]
    /\ joined \in [Request -> Request \cup {None}]
    /\ wrapper \in [Request -> Wrapper \cup {None}]
    /\ tryCnt \in [Request -> 0 .. LoadDataTryCnt]
    /\ outcome \in [Request -> Outcome]
    /\ cache \in [Key -> Wrapper \cup {None}]
    /\ lockOn \in BOOLEAN

Init ==
    /\ processing = [k \in Key |-> None]
    /\ to = [r \in Request |-> NewProcessingTO]
    /\ pc = [r \in Request |-> "idle"]
    /\ joined = [r \in Request |-> None]
    /\ wrapper = [r \in Request |-> None]
    /\ tryCnt = [r \in Request |-> 0]
    /\ outcome = [r \in Request |-> "none"]
    /\ cache = [k \in Key |-> None]
    /\ lockOn \in BOOLEAN

-----------------------------------------------------------------------------
Goto(r, where) == pc' = [pc EXCEPT ![r] = where]

End(r, how) ==
    /\ Goto(r, "done")
    /\ outcome' = [outcome EXCEPT ![r] = how]

IsFirst(r) == joined[r] = r

(***************************************************************************)
(* Slips the properties must notice: each is a variant of the action whose *)
(* name it begins with, and no part of Next.                               *)
(***************************************************************************)
PutIfAbsentOverwrites(r) ==      \* processing.put
    /\ pc[r] = "putIfAbsent"
    /\ processing' = [processing EXCEPT ![KeyOf[r]] = r]
    /\ to' = [to EXCEPT ![r] = NewProcessingTO]
    /\ joined' = [joined EXCEPT ![r] = r]
    /\ Goto(r, "getLock")
    /\ UNCHANGED <<wrapper, tryCnt, outcome, cache, lockOn>>

SetErrorEscapes(r) ==            \* clean-up after the try, not in finally
    /\ pc[r] = "setError"
    /\ to' = [to EXCEPT ![r].error = TRUE]
    /\ Goto(r, "done")
    /\ UNCHANGED <<processing, joined, wrapper, tryCnt, outcome, cache, lockOn>>

CheckFinishedTooEarly(r) ==      \* looks at the data, not at firstFinished
    /\ pc[r] = "check"
    /\ IF to[joined[r]].cache # None
       THEN /\ wrapper' = [wrapper EXCEPT ![r] = to[joined[r]].cache]
            /\ End(r, "value")
       ELSE Goto(r, "enterWait") /\ UNCHANGED <<wrapper, outcome>>
    /\ UNCHANGED <<processing, to, joined, tryCnt, cache, lockOn>>

CheckFinishedRereads(r) ==       \* the bug of releases 4.11 and 4.12
    /\ pc[r] = "check"
    /\ Goto(r, IF to[joined[r]].finished THEN "reread" ELSE "enterWait")
    /\ UNCHANGED <<processing, to, joined, wrapper, tryCnt, outcome, cache,
                   lockOn>>

WaitElapsesNever(r) ==           \* wait() in place of wait(2)
    /\ pc[r] = "waiting"
    /\ FALSE
    /\ UNCHANGED vars

RereadTriesOnceMore(r) ==        \* tryCnt <= loadDataTryCnt
    /\ pc[r] = "reread"
    /\ cache[KeyOf[r]] = None
    /\ tryCnt[r] <= LoadDataTryCnt
    /\ tryCnt' = [tryCnt EXCEPT ![r] = @ + 1]
    /\ Goto(r, "enter")
    /\ UNCHANGED <<processing, to, joined, wrapper, outcome, cache, lockOn>>

(***************************************************************************)
(* The caller.  A hit ends the request.  A thread that finds nothing, an   *)
(* expired entry or an exception goes on to loadData, and so do refresh    *)
(* and auto-load threads, which do not look first.                         *)
(***************************************************************************)
Hit(r) ==
    /\ pc[r] = "idle"
    /\ cache[KeyOf[r]] # None
    /\ wrapper' = [wrapper EXCEPT ![r] = cache[KeyOf[r]]]
    /\ End(r, "value")
    /\ UNCHANGED <<processing, to, joined, tryCnt, cache, lockOn>>

Miss(r) ==
    /\ pc[r] = "idle"
    /\ Goto(r, "enter")
    /\ UNCHANGED <<processing, to, joined, wrapper, tryCnt, outcome, cache,
                   lockOn>>

-----------------------------------------------------------------------------
(* loadData: who is first *)

GetProcessing(r) ==
    /\ pc[r] = "enter"
    /\ IF processing[KeyOf[r]] = None
       THEN Goto(r, "putIfAbsent") /\ UNCHANGED joined
       ELSE /\ joined' = [joined EXCEPT ![r] = processing[KeyOf[r]]]
            /\ Goto(r, "check")
    /\ UNCHANGED <<processing, to, wrapper, tryCnt, outcome, cache, lockOn>>

PutIfAbsent(r) ==
    LET k == KeyOf[r] IN
    /\ pc[r] = "putIfAbsent"
    /\ IF processing[k] = None
       THEN /\ processing' = [processing EXCEPT ![k] = r]
            /\ to' = [to EXCEPT ![r] = NewProcessingTO]
            /\ joined' = [joined EXCEPT ![r] = r]
            /\ Goto(r, "getLock")
       ELSE /\ joined' = [joined EXCEPT ![r] = processing[k]]
            /\ Goto(r, "check")
            /\ UNCHANGED <<processing, to>>
    /\ UNCHANGED <<wrapper, tryCnt, outcome, cache, lockOn>>

-----------------------------------------------------------------------------
(* doFirstRequest *)

GetLock(r) ==
    /\ pc[r] = "getLock"
    /\ Goto(r, IF lockOn THEN "tryLock" ELSE "getData")
    /\ UNCHANGED <<processing, to, joined, wrapper, tryCnt, outcome, cache,
                   lockOn>>

(* 1: locked; 0: another server has the lock; 2: tryLock threw, and with   *)
(* openLockDown the lock is switched off for the whole CacheHandler.       *)
TryLock(r) ==
    /\ pc[r] = "tryLock"
    /\ \/ Goto(r, "loadLocked") /\ UNCHANGED lockOn
       \/ Goto(r, "poll") /\ UNCHANGED lockOn
       \/ Goto(r, "getData") /\ (UNCHANGED lockOn \/ lockOn' = FALSE)
    /\ UNCHANGED <<processing, to, joined, wrapper, tryCnt, outcome, cache>>

(* getData without the lock: the DAO returns or throws. *)
GetData(r) ==
    /\ pc[r] = "getData"
    /\ \/ /\ wrapper' = [wrapper EXCEPT ![r] = r]
          /\ Goto(r, "setCache")
          /\ UNCHANGED outcome
       \/ /\ outcome' = [outcome EXCEPT ![r] = "error"]
          /\ Goto(r, "setError")
          /\ UNCHANGED wrapper
    /\ UNCHANGED <<processing, to, joined, tryCnt, cache, lockOn>>

GetDataLocked(r) ==
    /\ pc[r] = "loadLocked"
    /\ \/ /\ wrapper' = [wrapper EXCEPT ![r] = r]
          /\ UNCHANGED outcome
       \/ /\ outcome' = [outcome EXCEPT ![r] = "error"]
          /\ UNCHANGED wrapper
    /\ Goto(r, "unlock")
    /\ UNCHANGED <<processing, to, joined, tryCnt, cache, lockOn>>

Unlock(r) ==
    /\ pc[r] = "unlock"
    /\ Goto(r, IF outcome[r] = "error" THEN "setError" ELSE "setCache")
    /\ UNCHANGED <<processing, to, joined, wrapper, tryCnt, outcome, cache,
                   lockOn>>

(* The 20 polls of one round: one of them finds the data the lock's owner  *)
(* has written, the cache throws (or the sleep is interrupted), or the     *)
(* last one finds nothing and the clock decides on another round.          *)
PollCache(r) ==
    /\ pc[r] = "poll"
    /\ \/ /\ cache[KeyOf[r]] # None
          /\ wrapper' = [wrapper EXCEPT ![r] = cache[KeyOf[r]]]
          /\ Goto(r, "setCache")
          /\ UNCHANGED outcome
       \/ /\ cache[KeyOf[r]] = None
          /\ Goto(r, "pollClock")
          /\ UNCHANGED <<wrapper, outcome>>
       \/ /\ outcome' = [outcome EXCEPT ![r] = "error"]
          /\ Goto(r, "setError")
          /\ UNCHANGED wrapper
    /\ UNCHANGED <<processing, to, joined, tryCnt, cache, lockOn>>

PollClock(r) ==
    /\ pc[r] = "pollClock"
    /\ Goto(r, IF to[r].overdue THEN "getData" ELSE "poll")
    /\ UNCHANGED <<processing, to, joined, wrapper, tryCnt, outcome, cache,
                   lockOn>>

SetCache(r) ==
    /\ pc[r] = "setCache"
    /\ to' = [to EXCEPT ![r].cache = wrapper[r]]
    /\ Goto(r, "setFinished")
    /\ UNCHANGED <<processing, joined, wrapper, tryCnt, outcome, cache, lockOn>>

-----------------------------------------------------------------------------
(* loadData: the catch and finally blocks of the first request *)

SetError(r) ==
    /\ pc[r] = "setError"
    /\ to' = [to EXCEPT ![r].error = TRUE]
    /\ Goto(r, "setFinished")
    /\ UNCHANGED <<processing, joined, wrapper, tryCnt, outcome, cache, lockOn>>

SetFirstFinished(r) ==
    /\ pc[r] = "setFinished"
    /\ to' = [to EXCEPT ![r].finished = TRUE]
    /\ Goto(r, "remove")
    /\ UNCHANGED <<processing, joined, wrapper, tryCnt, outcome, cache, lockOn>>

(* processing.remove(cacheKey): by key alone, whatever the entry is. *)
RemoveProcessing(r) ==
    /\ pc[r] = "remove"
    /\ processing' = [processing EXCEPT ![KeyOf[r]] = None]
    /\ Goto(r, "notify")
    /\ UNCHANGED <<to, joined, wrapper, tryCnt, outcome, cache, lockOn>>

(* notifyAll wakes the threads that are in wait() on this ProcessingTO;    *)
(* then the exception is rethrown or the caller goes on to write.          *)
NotifyAll(r) ==
    /\ pc[r] = "notify"
    /\ pc' = [q \in Request |->
                IF q = r
                THEN IF outcome[r] = "error" THEN "done" ELSE "write"
                ELSE IF pc[q] = "waiting" /\ joined[q] = r
                     THEN "waitClock"
                     ELSE pc[q]]
    /\ UNCHANGED <<processing, to, joined, wrapper, tryCnt, outcome, cache,
                   lockOn>>

(* The caller of the first request writes the cache, after the entry left  *)
(* processing and after the distributed lock was released.  Nothing is     *)
(* written when expire < 0, or when the cache fails.                       *)
WriteCache(r) ==
    /\ pc[r] = "write"
    /\ \/ cache' = [cache EXCEPT ![KeyOf[r]] = wrapper[r]]
       \/ UNCHANGED cache
    /\ End(r, "value")
    /\ UNCHANGED <<processing, to, joined, wrapper, tryCnt, lockOn>>

-----------------------------------------------------------------------------
(* doWaitRequest *)

CheckFinished(r) ==
    LET p == joined[r] IN
    /\ pc[r] = "check"
    /\ \/ /\ ~to[p].finished
          /\ Goto(r, "enterWait")
          /\ UNCHANGED <<wrapper, outcome>>
       \/ /\ to[p].finished
          /\ to[p].cache # None
          /\ wrapper' = [wrapper EXCEPT ![r] = to[p].cache]
          /\ End(r, "value")
       \/ /\ to[p].finished
          /\ to[p].cache = None
          /\ IF to[p].error THEN End(r, "error")
             ELSE Goto(r, "reread") /\ UNCHANGED outcome
          /\ UNCHANGED wrapper
    /\ UNCHANGED <<processing, to, joined, tryCnt, cache, lockOn>>

(* The check of firstFinished is outside the monitor: the notification may *)
(* have come and gone by now.                                              *)
EnterWait(r) ==
    /\ pc[r] = "enterWait"
    /\ Goto(r, "waiting")
    /\ UNCHANGED <<processing, to, joined, wrapper, tryCnt, outcome, cache,
                   lockOn>>

(* wait(2) ends by itself *)
WaitElapses(r) ==
    /\ pc[r] = "waiting"
    /\ Goto(r, "waitClock")
    /\ UNCHANGED <<processing, to, joined, wrapper, tryCnt, outcome, cache,
                   lockOn>>

WaitClock(r) ==
    /\ pc[r] = "waitClock"
    /\ Goto(r, IF to[joined[r]].overdue THEN "reread" ELSE "check")
    /\ UNCHANGED <<processing, to, joined, wrapper, tryCnt, outcome, cache,
                   lockOn>>

(* After the wait: the cache, then another loadData, then an exception. *)
Reread(r) ==
    /\ pc[r] = "reread"
    /\ \/ /\ cache[KeyOf[r]] # None
          /\ wrapper' = [wrapper EXCEPT ![r] = cache[KeyOf[r]]]
          /\ End(r, "value")
          /\ UNCHANGED tryCnt
       \/ /\ cache[KeyOf[r]] = None
          /\ tryCnt[r] < LoadDataTryCnt
          /\ tryCnt' = [tryCnt EXCEPT ![r] = @ + 1]
          /\ Goto(r, "enter")
          /\ UNCHANGED <<wrapper, outcome>>
       \/ /\ cache[KeyOf[r]] = None
          /\ tryCnt[r] >= LoadDataTryCnt
          /\ End(r, "timeout")
          /\ UNCHANGED <<wrapper, tryCnt>>
       \/ /\ End(r, "error")          \* cacheHandler.get throws
          /\ UNCHANGED <<wrapper, tryCnt>>
    /\ UNCHANGED <<processing, to, joined, cache, lockOn>>

-----------------------------------------------------------------------------
(* The environment: waitTimeOut passes; an entry expires, is evicted or is *)
(* deleted; another server writes the key.                                 *)

Overdue(r) ==
    /\ IsFirst(r)
    /\ ~to[r].overdue
    /\ to' = [to EXCEPT ![r].overdue = TRUE]
    /\ UNCHANGED <<processing, pc, joined, wrapper, tryCnt, outcome, cache,
                   lockOn>>

CacheLoses(k) ==
    /\ cache[k] # None
    /\ cache' = [cache EXCEPT ![k] = None]
    /\ UNCHANGED <<processing, to, pc, joined, wrapper, tryCnt, outcome, lockOn>>

ForeignWrite(k) ==
    /\ cache' = [cache EXCEPT ![k] = Foreign]
    /\ UNCHANGED <<processing, to, pc, joined, wrapper, tryCnt, outcome, lockOn>>

-----------------------------------------------------------------------------
Dao(r) == GetData(r) \/ GetDataLocked(r)

\* What the thread does by itself, the DAO call apart.
Step(r) ==
    \/ GetProcessing(r) \/ PutIfAbsent(r) \/ GetLock(r) \/ TryLock(r)
    \/ Unlock(r) \/ PollCache(r) \/ PollClock(r) \/ SetCache(r) \/ SetError(r)
    \/ SetFirstFinished(r) \/ RemoveProcessing(r) \/ NotifyAll(r)
    \/ WriteCache(r) \/ CheckFinished(r) \/ EnterWait(r) \/ WaitElapses(r)
    \/ WaitClock(r) \/ Reread(r)

Next ==
    \/ \E r \in Request : Hit(r) \/ Miss(r) \/ Step(r) \/ Dao(r) \/ Overdue(r)
    \/ \E k \in Key : CacheLoses(k) \/ ForeignWrite(k)

Spec == Init /\ [][Next]_vars

\* Threads are scheduled and clocks advance; a DAO call may hang forever.
FairSpec == Spec /\ \A r \in Request : WF_vars(Step(r)) /\ WF_vars(Overdue(r))

-----------------------------------------------------------------------------
(* Properties *)

\* "putIfAbsent ... the first request of the current concurrency"
\* (DataLoader.java:99-103): between putIfAbsent and processing.remove at most
\* one request of a key is first, so at most one load of a key is under way in
\* this JVM whatever other requests arrive, time out and retry meanwhile.
SingleFlight ==
    \A q, r \in Request :
        /\ KeyOf[q] = KeyOf[r]
        /\ pc[q] \in LeaderPC
        /\ pc[r] \in LeaderPC
        => q = r

\* The finally block (DataLoader.java:124-130) leaves nothing behind: an entry of
\* processing belongs to a request of that key which is still going to remove
\* it.  With an orphan entry every later request of the key would wait in vain.
NoOrphanEntry ==
    \A k \in Key : processing[k] # None =>
        /\ KeyOf[processing[k]] = k
        /\ pc[processing[k]] \in LeaderPC

\* A ProcessingTO that says it is finished holds data or an error, so the break
\* at DataLoader.java:217 is dead code and no waiter leaves empty-handed because
\* it looked between setFirstFinished and setCache.
FinishedIsDecided ==
    \A r \in Request :
        to[r].finished => (to[r].cache # None <=> ~to[r].error)

\* DataLoader.java:187: nobody goes to the DAO who already has the data, be it
\* from a load under the lock or from polling the cache for another server's.
LoadOnlyWithoutData ==
    \A r \in Request :
        pc[r] \in {"getData", "loadLocked"} => wrapper[r] = None

\* RemoveProcessing goes by key, yet it only ever removes a ProcessingTO that is
\* finished: whoever joined that entry will find the answer in it, and no entry
\* is ever replaced by another one (DataLoader.java:125-126).
RemovedOnlyWhenFinished ==
    [][\A k \in Key :
          /\ processing[k] # None
          /\ processing'[k] # processing[k]
          => processing'[k] = None /\ to[processing[k]].finished]_vars

\* "after waiting for the first request, going to the data layer again" is the
\* bug of doc/changesLog.md:18.  A waiter comes back to loadData only when the
\* request it waited for has used up waitTimeOut, never because it found
\* nothing in a finished ProcessingTO.
RetryOnlyWhenOverdue ==
    [][\A r \in Request :
          pc[r] = "reread" /\ pc'[r] = "enter" => to[joined[r]].overdue]_vars

\* Every request ends unless it is inside a DAO call of its own that never comes
\* back: neither a wake-up lost because firstFinished is read outside the
\* monitor (DataLoader.java:199, 219-225), nor a first request hanging in the
\* DAO, nor a distributed lock that is never free holds a request for ever.
OnlyTheDaoHoldsARequest ==
    \A r \in Request :
        pc[r] # "idle" ~> pc[r] \in {"getData", "loadLocked", "done"}

-----------------------------------------------------------------------------
(* Refinement *)

\* The flight of a first request is in the air until setFirstFinished.
Flying(r) ==
    IF ~IsFirst(r) THEN "none"
    ELSE IF ~to[r].finished THEN "air"
    ELSE IF to[r].error THEN "crashed" ELSE "landed"

Landed(r) == IF to[r].finished THEN to[r].cache ELSE None

Answered(r) ==
    IF pc[r] # "done" THEN None
    ELSE IF outcome[r] = "value" THEN [of |-> "value", data |-> wrapper[r]]
    ELSE [of |-> outcome[r]]

Abstract == INSTANCE SingleFlight WITH
                flight <- [r \in Request |-> Flying(r)],
                data   <- [r \in Request |-> Landed(r)],
                answer <- [r \in Request |-> Answered(r)]

\* loadData does what SingleFlight promises: one flight of a key at a time, and
\* whoever joined a flight gets that flight's data or error, from DataLoader's
\* ProcessingTO objects, its retries and its time-outs alike.
ImplementsSingleFlight == Abstract!Spec
=============================================================================

--------------------------- MODULE AutoLoadHandler ---------------------------
(***************************************************************************)
(* AutoLoadHandler: keys whose data is loaded again and again before it    *)
(* expires.  Requests register an AutoLoadTO for their key in autoLoadMap  *)
(* and keep its times; the sort thread copies the map into autoLoadQueue   *)
(* whenever the queue has run empty; the auto-load threads take from the   *)
(* queue, and drop or reload what they took.                               *)
(*                                                                         *)
(* An AutoLoadTO is an object: a thread may hold one that is no longer in  *)
(* the map.  When it is time to load a key again, and when a key is not    *)
(* worth it any more, is left open here: what loadCache decides from the   *)
(* times and statistics of an object that was requested is any of its      *)
(* outcomes.                                                               *)
(***************************************************************************)
EXTENDS Integers, Sequences, FiniteSets

CONSTANTS
    Request,         \* threads that serve requests
    Worker,          \* auto-load threads
    Key,             \* cache keys
    To,              \* AutoLoadTO objects; as many as can be in use at once
    MaxElement,      \* capacity of the queue, and limit of the map
    CheckFromCache,  \* checkFromCacheBeforeLoad
    SortMayThrow,    \* the sort type compares what changes while it sorts
    None             \* no key, no object

ASSUME SetAssumption == IsFiniteSet(Request)
ASSUME LimitAssumption == MaxElement \in Nat \ {0}
ASSUME FlagAssumption == CheckFromCache \in BOOLEAN /\ SortMayThrow \in BOOLEAN
ASSUME NoneAssumption == None \notin Key /\ None \notin To

VARIABLES
    autoLoadMap,  \* the object registered for each key
    to,           \* the objects
    queue,        \* autoLoadQueue
    sorter,       \* where the sort thread is
    tmpArr,       \* what it has yet to put into the queue, in any order
    worker,       \* where each auto-load thread is
    job,          \* the object it took
    pc,           \* where each request is
    key,          \* the key it is about
    got,          \* the object it got from the map
    running,
    writeFailed   \* history: objects whose first write to the cache failed

requestVars == <<pc, key, got>>
workerVars  == <<worker, job>>
sorterVars  == <<sorter, tmpArr>>
vars == <<autoLoadMap, to, queue, sorterVars, workerVars, requestVars,
          running, writeFailed>>

\* requested: whether lastRequestTime, and with it lastLoadTime, has been set.
AutoLoadTO == [key : Key \cup {None}, requested : BOOLEAN, loading : BOOLEAN]

NewAutoLoadTO(k) == [key |-> k, requested |-> FALSE, loading |-> FALSE]

SorterAt  == {"check", "sleep", "put", "stopped", "dead"}
WorkerAt  == {"loop", "take", "decide", "remove", "load", "dao", "write", "stopped"}
RequestAt == {"idle", "put", "flush"}

TypeOK ==
    /\ autoLoadMap \in [Key -> To \cup {None}]
    /\ to \in [To -> AutoLoadTO]
    /\ \A k \in Key : autoLoadMap[k] # None => to[autoLoadMap[k]].key = k
    /\ queue \in Seq(To) /\ Len(queue) <= MaxElement
    /\ sorter \in SorterAt /\ tmpArr \in SUBSET To
    /\ worker \in [Worker -> WorkerAt]
    /\ job \in [Worker -> To \cup {None}]
    /\ \A w \in Worker : job[w] = None <=> worker[w] \in {"loop", "take", "stopped"}
    /\ pc \in [Request -> RequestAt]
    /\ key \in [Request -> Key \cup {None}]
    /\ got \in [Request -> To \cup {None}]
    /\ \A r \in Request : got[r] # None <=> pc[r] = "flush"
    /\ \A r \in Request : key[r] # None <=> pc[r] # "idle"
    /\ running \in BOOLEAN
    /\ writeFailed \in SUBSET To

Init ==
    /\ autoLoadMap = [k \in Key |-> None]
    /\ to = [o \in To |-> NewAutoLoadTO(None)]
    /\ queue = <<>>
    /\ sorter = "check" /\ tmpArr = {}
    /\ worker = [w \in Worker |-> "loop"]
    /\ job = [w \in Worker |-> None]
    /\ pc = [r \in Request |-> "idle"]
    /\ key = [r \in Request |-> None]
    /\ got = [r \in Request |-> None]
    /\ running = TRUE
    /\ writeFailed = {}

Registered == {k \in Key : autoLoadMap[k] # None}
Queued     == {queue[i] : i \in DOMAIN queue}
Putting    == {r \in Request : pc[r] = "put"}

\* The objects some thread or collection still refers to.
InUse ==
    {autoLoadMap[k] : k \in Registered} \cup Queued \cup tmpArr
        \cup {job[w] : w \in Worker} \cup {got[r] : r \in Request}

-----------------------------------------------------------------------------
(* A request: CacheHandler.proceed, writeOnly, and deleteCache's reset *)

Goto(r, label) == pc' = [pc EXCEPT ![r] = label]

Return(r) ==
    /\ Goto(r, "idle")
    /\ key' = [key EXCEPT ![r] = None]
    /\ got' = [got EXCEPT ![r] = None]

\* It holds o from here on.
Hold(r, label, o) == Goto(r, label) /\ got' = [got EXCEPT ![r] = o]

SizeIgnored(r, k) ==                          \* the limit is not looked at
    /\ pc[r] = "idle"
    /\ autoLoadMap[k] = None
    /\ key' = [key EXCEPT ![r] = k]
    /\ Goto(r, "put")
    /\ UNCHANGED <<autoLoadMap, to, queue, sorterVars, workerVars, got,
                   running, writeFailed>>

\* A hit, or the first request after a miss, with data that may be auto-loaded:
\* putIfAbsent finds no object of the key, and room for one.
CheckSize(r, k) ==
    /\ pc[r] = "idle"
    /\ autoLoadMap[k] = None
    /\ Cardinality(Registered) <= MaxElement
    /\ key' = [key EXCEPT ![r] = k]
    /\ Goto(r, "put")
    /\ UNCHANGED <<autoLoadMap, to, queue, sorterVars, workerVars, got,
                   running, writeFailed>>

\* Or it finds the object.
Get(r, k) ==
    /\ pc[r] = "idle"
    /\ autoLoadMap[k] # None
    /\ key' = [key EXCEPT ![r] = k]
    /\ Hold(r, "flush", autoLoadMap[k])
    /\ UNCHANGED <<autoLoadMap, to, queue, sorterVars, workerVars,
                   running, writeFailed>>

PutIfAbsent(r) ==
    /\ pc[r] = "put"
    /\ LET k == key[r] IN
       \/ /\ autoLoadMap[k] # None
          /\ Hold(r, "flush", autoLoadMap[k])
          /\ UNCHANGED <<autoLoadMap, to, writeFailed>>
       \/ /\ autoLoadMap[k] = None
          /\ \E o \in To \ InUse :
                /\ autoLoadMap' = [autoLoadMap EXCEPT ![k] = o]
                /\ to' = [to EXCEPT ![o] = NewAutoLoadTO(k)]
                /\ writeFailed' = writeFailed \ {o}
                /\ Hold(r, "flush", o)
    /\ UNCHANGED <<queue, sorterVars, workerVars, key, running>>

FlushForgotten(r) ==                          \* the object found is left as it is
    /\ pc[r] = "flush"
    /\ Return(r)
    /\ UNCHANGED <<autoLoadMap, to, queue, sorterVars, workerVars, running, writeFailed>>

FlushRequestTime(r) ==
    /\ pc[r] = "flush"
    /\ to' = [to EXCEPT ![got[r]].requested = TRUE]
    /\ writeFailed' = writeFailed \ {got[r]}
    /\ Return(r)
    /\ UNCHANGED <<autoLoadMap, queue, sorterVars, workerVars, running>>

\* After a miss the data is written first; when that throws nothing is flushed.
WriteCacheThrows(r) ==
    /\ pc[r] = "flush"
    /\ writeFailed' = IF to[got[r]].requested THEN writeFailed
                      ELSE writeFailed \cup {got[r]}
    /\ Return(r)
    /\ UNCHANGED <<autoLoadMap, to, queue, sorterVars, workerVars, running>>

\* The admin page removes a key.
RemoveAutoLoadTO(k) ==
    /\ autoLoadMap[k] # None
    /\ autoLoadMap' = [autoLoadMap EXCEPT ![k] = None]
    /\ UNCHANGED <<to, queue, sorterVars, workerVars, requestVars, running, writeFailed>>

Shutdown ==
    /\ running
    /\ running' = FALSE
    /\ autoLoadMap' = [k \in Key |-> None]
    /\ UNCHANGED <<to, queue, sorterVars, workerVars, requestVars, writeFailed>>

-----------------------------------------------------------------------------
(* The sort thread: SortRunnable *)

SortAtOnce ==                                 \* while the queue is not yet empty
    /\ sorter = "check"
    /\ \/ ~running /\ sorter' = "stopped"
       \/ running /\ Registered # {} /\ sorter' = "sleep"
    /\ UNCHANGED <<autoLoadMap, to, queue, tmpArr, workerVars, requestVars,
                   running, writeFailed>>

\* As long as the map is empty or the queue is not, it sleeps and looks again.
SortCheck ==
    /\ sorter = "check"
    /\ \/ ~running /\ sorter' = "stopped"
       \/ running /\ Registered # {} /\ queue = <<>> /\ sorter' = "sleep"
    /\ UNCHANGED <<autoLoadMap, to, queue, tmpArr, workerVars, requestVars,
                   running, writeFailed>>

\* getAutoLoadQueue copies the map.
GetAutoLoadQueue ==
    /\ sorter = "sleep"
    /\ tmpArr' = {autoLoadMap[k] : k \in Registered}
    /\ sorter' = IF Registered = {} THEN "check" ELSE "put"
    /\ UNCHANGED <<autoLoadMap, to, queue, workerVars, requestVars,
                   running, writeFailed>>

\* Arrays.sort finds its comparator contradict itself, as the times it compares
\* are changed meanwhile (it looks for that in arrays of 32 elements and more,
\* for which two stand here); SortRunnable.run does not catch what it throws.
SortThrows ==
    /\ sorter = "sleep"
    /\ SortMayThrow /\ Cardinality(Registered) > 1
    /\ sorter' = "dead"
    /\ UNCHANGED <<autoLoadMap, to, queue, tmpArr, workerVars, requestVars,
                   running, writeFailed>>

Offer(o) ==                                   \* offer: lost when the queue is full
    /\ sorter = "put" /\ o \in tmpArr
    /\ queue' = IF Len(queue) < MaxElement THEN Append(queue, o) ELSE queue
    /\ tmpArr' = tmpArr \ {o}
    /\ sorter' = IF tmpArr = {o} THEN "check" ELSE "put"
    /\ UNCHANGED <<autoLoadMap, to, workerVars, requestVars, running, writeFailed>>

PutUnbounded(o) ==                            \* a queue made without a capacity
    /\ sorter = "put" /\ o \in tmpArr
    /\ queue' = Append(queue, o)
    /\ tmpArr' = tmpArr \ {o}
    /\ sorter' = IF tmpArr = {o} THEN "check" ELSE "put"
    /\ UNCHANGED <<autoLoadMap, to, workerVars, requestVars, running, writeFailed>>

\* put waits while the queue is full.
Put(o) ==
    /\ sorter = "put" /\ o \in tmpArr
    /\ Len(queue) < MaxElement
    /\ queue' = Append(queue, o)
    /\ tmpArr' = tmpArr \ {o}
    /\ sorter' = IF tmpArr = {o} THEN "check" ELSE "put"
    /\ UNCHANGED <<autoLoadMap, to, workerVars, requestVars, running, writeFailed>>

-----------------------------------------------------------------------------
(* An auto-load thread: AutoLoadRunnable *)

At(w, label) == worker' = [worker EXCEPT ![w] = label] /\ UNCHANGED job

\* It is done with the object it took, and sleeps for autoLoadPeriod.
Done(w) ==
    /\ worker' = [worker EXCEPT ![w] = "loop"]
    /\ job' = [job EXCEPT ![w] = None]

Loop(w) ==
    /\ worker[w] = "loop"
    /\ At(w, IF running THEN "take" ELSE "stopped")
    /\ UNCHANGED <<autoLoadMap, to, queue, sorterVars, requestVars, running, writeFailed>>

Take(w) ==
    /\ worker[w] = "take" /\ queue # <<>>
    /\ job' = [job EXCEPT ![w] = Head(queue)]
    /\ queue' = Tail(queue)
    /\ worker' = [worker EXCEPT ![w] = "decide"]
    /\ UNCHANGED <<autoLoadMap, to, sorterVars, requestVars, running, writeFailed>>

\* loadCache skips an object that was never requested; any other it may find
\* not yet due, or not to be loaded that often.
Skip(w) ==
    /\ worker[w] = "decide"
    /\ Done(w)
    /\ UNCHANGED <<autoLoadMap, to, queue, sorterVars, requestVars, running, writeFailed>>

\* Not requested for requestTimeout, or too cheap, or too rarely used; never so
\* with alwaysCache.
Discard(w) ==
    /\ worker[w] = "decide"
    /\ to[job[w]].requested
    /\ At(w, "remove")
    /\ UNCHANGED <<autoLoadMap, to, queue, sorterVars, requestVars, running, writeFailed>>

\* It removes whatever is registered for the key by now.
Remove(w) ==
    /\ worker[w] = "remove"
    /\ autoLoadMap' = [autoLoadMap EXCEPT ![to[job[w]].key] = None]
    /\ Done(w)
    /\ UNCHANGED <<to, queue, sorterVars, requestVars, running, writeFailed>>

Reload(w) ==
    /\ worker[w] = "decide"
    /\ to[job[w]].requested /\ ~to[job[w]].loading
    /\ At(w, "load")
    /\ UNCHANGED <<autoLoadMap, to, queue, sorterVars, requestVars, running, writeFailed>>

\* Another server has loaded it, as the cache shows.
FoundInCache(w) ==
    /\ worker[w] = "load" /\ CheckFromCache
    /\ Done(w)
    /\ UNCHANGED <<autoLoadMap, to, queue, sorterVars, requestVars, running, writeFailed>>

\* loadData: one thread at a time calls the DAO for a key (module DataLoader) ...
StartDao(w) ==
    /\ worker[w] = "load"
    /\ ~\E v \in Worker : worker[v] = "dao" /\ to[job[v]].key = to[job[w]].key
    /\ to' = [to EXCEPT ![job[w]].loading = TRUE]
    /\ At(w, "dao")
    /\ UNCHANGED <<autoLoadMap, queue, sorterVars, requestVars, running, writeFailed>>

\* ... and the others wait for what it brings, and leave writing to it ...
JoinFlight(w) ==
    /\ worker[w] = "load"
    /\ Done(w)
    /\ UNCHANGED <<autoLoadMap, to, queue, sorterVars, requestVars, running, writeFailed>>

\* ... or find in the cache what another server has loaded under its lock.
PolledFromCache(w) ==
    /\ worker[w] = "load"
    /\ At(w, "write")
    /\ UNCHANGED <<autoLoadMap, to, queue, sorterVars, requestVars, running, writeFailed>>

DaoReturns(w) ==
    /\ worker[w] = "dao"
    /\ to' = [to EXCEPT ![job[w]].loading = FALSE]
    /\ At(w, "write")
    /\ UNCHANGED <<autoLoadMap, queue, sorterVars, requestVars, running, writeFailed>>

DaoThrowsStillLoading(w) ==                   \* no finally around the DAO call
    /\ worker[w] = "dao"
    /\ Done(w)
    /\ UNCHANGED <<autoLoadMap, to, queue, sorterVars, requestVars, running, writeFailed>>

\* The DAO throws; data found in the cache before has its lease renewed.
DaoThrows(w) ==
    /\ worker[w] = "dao"
    /\ to' = [to EXCEPT ![job[w]].loading = FALSE]
    /\ \/ Done(w)
       \/ CheckFromCache /\ At(w, "write")
    /\ UNCHANGED <<autoLoadMap, queue, sorterVars, requestVars, running, writeFailed>>

\* writeCache, which may throw, and then the object's times.
WriteCacheAndSetLoadTime(w) ==
    /\ worker[w] = "write"
    /\ Done(w)
    /\ UNCHANGED <<autoLoadMap, to, queue, sorterVars, requestVars, running, writeFailed>>

-----------------------------------------------------------------------------
RequestStep(r) ==
    \/ \E k \in Key : CheckSize(r, k) \/ Get(r, k)
    \/ PutIfAbsent(r) \/ FlushRequestTime(r) \/ WriteCacheThrows(r)

SorterStep == SortCheck \/ GetAutoLoadQueue \/ SortThrows \/ \E o \in To : Put(o)

WorkerStep(w) ==
    \/ Loop(w) \/ Take(w) \/ Skip(w) \/ Discard(w) \/ Remove(w) \/ Reload(w)
    \/ FoundInCache(w) \/ StartDao(w) \/ JoinFlight(w) \/ PolledFromCache(w)
    \/ DaoReturns(w) \/ DaoThrows(w) \/ WriteCacheAndSetLoadTime(w)

Next ==
    \/ \E r \in Request : RequestStep(r)
    \/ SorterStep
    \/ \E w \in Worker : WorkerStep(w)
    \/ \E k \in Key : RemoveAutoLoadTO(k)
    \/ Shutdown

Spec == Init /\ [][Next]_vars

\* The handler's own threads are scheduled, and the DAO calls they make return.
FairSpec == Spec /\ WF_vars(SorterStep) /\ \A w \in Worker : WF_vars(WorkerStep(w))

-----------------------------------------------------------------------------
(* Properties *)

\* The limit on the map is checked before putIfAbsent by each request on its own
\* (AutoLoadHandler.java:164): the map outgrows it, but what it holds, and what is
\* about to be put, is never more than the limit and one for each request.
BoundedSize ==
    /\ IsFiniteSet(Registered)
    /\ Cardinality(Registered) + Cardinality(Putting)
          <= MaxElement + Cardinality(Request)

\* The sort thread copies the map only when the queue is empty: an object never
\* waits twice, so that no two threads are sent to reload it from one round.
QueuedOnce ==
    /\ \A i, j \in DOMAIN queue : queue[i] = queue[j] => i = j
    /\ Queued \cap tmpArr = {}

\* loadCache skips an object that was never requested before it looks whether it
\* should be removed (AutoLoadHandler.java:297): such an object would keep its
\* place in the map.  There is none, but between its registration and the first
\* flush, or when the write in between failed.
RegisteredIsRequested ==
    \A k \in Registered : LET o == autoLoadMap[k] IN
        ~to[o].requested =>
            o \in writeFailed \/ \E r \in Request : pc[r] = "flush" /\ got[r] = o

\* An object is marked as loading exactly while an auto-load thread calls the DAO
\* for it: a mark left behind would keep it from ever being loaded again, and
\* have every delete skip its reset.
LoadingIsTrue ==
    \A o \in To : to[o].loading <=> \E w \in Worker : worker[w] = "dao" /\ job[w] = o

\* A key that is registered, and stays so, is taken up by an auto-load thread, though
\* the map may hold more than the queue does: data is loaded before it expires
\* (doc/idea.md:16).  Once the sort has thrown nobody fills the queue any more: that is
\* the one way, besides shutdown, in which auto-loading ends.
EveryoneIsServed ==
    \A k \in Key :
        running /\ k \in Registered
            ~> ~running \/ sorter = "dead" \/ k \notin Registered
                \/ \E w \in Worker : job[w] # None /\ to[job[w]].key = k
=============================================================================

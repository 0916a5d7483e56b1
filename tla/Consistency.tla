---------------------------- MODULE Consistency ----------------------------
(***************************************************************************)
(* One key of the shared cache and the row of the database it stands for:  *)
(* who may leave data in the cache that is older than a delete.            *)
(*                                                                         *)
(* It composes what the other modules look into: requests and the writers  *)
(* of CacheHandler, the flights of DataLoader, the tasks of RefreshHandler *)
(* and the threads of AutoLoadHandler, on several servers.  Data is the    *)
(* version of the row it was read from.  A DAO call reads the row at one   *)
(* instant.  Whether a first request loads or polls is left to the lock,   *)
(* and when a wait times out or a key is due is left to time.              *)
(***************************************************************************)
EXTENDS Naturals

CONSTANTS
    Server,       \* each has a CacheHandler of its own
    Request,      \* threads that call a method with @Cache
    Refresher,    \* the threads that run RefreshTasks
    AutoLoader,   \* the auto-load threads
    Writer,       \* threads that update the row
    ServerOf,     \* the server of each thread
    Expire,       \* @Cache.expire, in ticks; 0 is for ever
    RenewExpire,  \* what old data gets when its reload fails, in ticks
    MaxVersion,   \* bound on the updates of the row
    None          \* null

Thread == Request \cup Refresher \cup AutoLoader \cup Writer

ASSUME KindAssumption ==
    /\ Request \cap Refresher = {}
    /\ (Request \cup Refresher) \cap AutoLoader = {}
    /\ (Request \cup Refresher \cup AutoLoader) \cap Writer = {}
ASSUME ServerAssumption == ServerOf \in [Thread -> Server]
ASSUME ExpireAssumption == Expire \in Nat /\ RenewExpire \in Nat \ {0}
ASSUME BoundAssumption  == MaxVersion \in Nat
ASSUME NoneAssumption   == None \notin Nat /\ None \notin Thread

VARIABLES
    db,         \* the version of the row
    lockOn,     \* CacheHandler.lock is not null
    cache,      \* the version of the data in the shared cache
    life,       \* ticks until that entry expires; 0 is for ever
    processing, \* server -> the first request of the flight in the air
    pc,         \* where each thread is
    joined,     \* the first request a thread waits for
    held,       \* the CacheWrapper a thread got
    old,        \* the CacheWrapper a refresh or auto-load would renew
    deletedAt,  \* history: the version of the row at the last delete
    late,       \* history: who had older data in hand at that delete
    returned    \* history: one of them has written it since

vars == <<db, lockOn, cache, life, processing, pc, joined, held, old,
          deletedAt, late, returned>>

history == <<deletedAt, late, returned>>

Version == Nat
Data    == Version \cup {None}
PC      == {"idle", "hit", "enter", "first", "loaded", "write", "renew", "wait",
            "answered", "delete"}

TypeOK ==
    /\ db \in 0 .. MaxVersion
    /\ lockOn \in BOOLEAN
    /\ cache \in Data
    /\ life \in Nat
    /\ life <= Expire \/ life <= RenewExpire
    /\ processing \in [Server -> Thread \cup {None}]
    /\ pc \in [Thread -> PC]
    /\ joined \in [Thread -> Thread \cup {None}]
    /\ held \in [Thread -> Data]
    /\ old \in [Thread -> Data]
    /\ deletedAt \in Version
    /\ late \in SUBSET Thread
    /\ returned \in BOOLEAN

Init ==
    /\ db = 0
    /\ lockOn \in BOOLEAN
    /\ cache = None
    /\ life = 0
    /\ processing = [s \in Server |-> None]
    /\ pc = [t \in Thread |-> "idle"]
    /\ joined = [t \in Thread |-> None]
    /\ held = [t \in Thread |-> None]
    /\ old = [t \in Thread |-> None]
    /\ deletedAt = 0
    /\ late = {}
    /\ returned = FALSE

-----------------------------------------------------------------------------
Goto(t, where) == pc' = [pc EXCEPT ![t] = where]

\* The thread is done and forgets what it had in hand.
End(t) ==
    /\ Goto(t, "idle")
    /\ held' = [held EXCEPT ![t] = None]
    /\ old' = [old EXCEPT ![t] = None]
    /\ joined' = [joined EXCEPT ![t] = None]

Older(d, v) == d # None /\ d < v

\* The data a thread has in hand and may write, or pass on to be written.
InHand(t) == {held[t]} \cup {old[t]}

MayWrite(t) == pc[t] \notin {"answered", "delete"}

-----------------------------------------------------------------------------
(* Requests *)

\* proceed finds data that is due; other hits change nothing here.  alarmTime says
\* when that is, for data that does expire.
Hit(r) ==
    /\ pc[r] = "idle"
    /\ cache # None
    /\ life > 0
    /\ held' = [held EXCEPT ![r] = cache]
    /\ Goto(r, "hit")
    /\ UNCHANGED <<db, lockOn, cache, life, processing, joined, old, history>>

\* doRefresh: a RefreshTask is made with the data of the hit, unless the key is
\* being refreshed or auto-loaded already or the pool has no room.
DoRefresh(r) ==
    /\ pc[r] = "hit"
    /\ \/ /\ End(r)
          /\ late' = late \ {r}
       \/ \E f \in Refresher :
            /\ ServerOf[f] = ServerOf[r]
            /\ pc[f] = "idle"
            /\ pc' = [pc EXCEPT ![r] = "idle", ![f] = "enter"]
            /\ old' = [old EXCEPT ![f] = held[r]]
            /\ held' = [held EXCEPT ![r] = None]
            /\ late' = IF r \in late THEN (late \ {r}) \cup {f} ELSE late
            /\ UNCHANGED joined
    /\ UNCHANGED <<db, lockOn, cache, life, processing, deletedAt, returned>>

\* proceed finds nothing, or the cache throws.
Miss(r) ==
    /\ pc[r] = "idle"
    /\ Goto(r, "enter")
    /\ UNCHANGED <<db, lockOn, cache, life, processing, joined, held, old,
                   history>>

\* An auto-load thread takes the key up; it has looked into the cache before,
\* unless checkFromCacheBeforeLoad is off or the cache throws.
LoadCache(a) ==
    /\ pc[a] = "idle"
    /\ old' \in {old, [old EXCEPT ![a] = cache]}
    /\ Goto(a, "enter")
    /\ UNCHANGED <<db, lockOn, cache, life, processing, joined, held, history>>

\* A task the full pool drops, or that shutdownNow takes from the queue.
Drop(f) ==
    /\ pc[f] = "enter"
    /\ End(f)
    /\ late' = late \ {f}
    /\ UNCHANGED <<db, lockOn, cache, life, processing, deletedAt, returned>>

-----------------------------------------------------------------------------
(* DataLoader.loadData *)

LoadData(t) ==
    LET s == ServerOf[t] IN
    /\ pc[t] = "enter"
    /\ IF processing[s] = None
       THEN /\ processing' = [processing EXCEPT ![s] = t]
            /\ Goto(t, "first")
            /\ UNCHANGED joined
       ELSE /\ joined' = [joined EXCEPT ![t] = processing[s]]
            /\ Goto(t, "wait")
            /\ UNCHANGED processing
    /\ UNCHANGED <<db, lockOn, cache, life, held, old, history>>

Dao(t) ==
    /\ pc[t] = "first"
    /\ held' = [held EXCEPT ![t] = db]
    /\ Goto(t, "loaded")
    /\ UNCHANGED <<db, lockOn, cache, life, processing, joined, old, history>>

\* Another server has the lock: its data is taken from the cache.
Poll(t) ==
    /\ pc[t] = "first"
    /\ lockOn
    /\ cache # None
    /\ held' = [held EXCEPT ![t] = cache]
    /\ Goto(t, "loaded")
    /\ UNCHANGED <<db, lockOn, cache, life, processing, joined, old, history>>

\* A plausible slip: the waiters take themselves for first, and write too.
AnswerAsFirst(t, next, d) ==
    /\ pc' = [q \in Thread |->
                IF q = t THEN next
                ELSE IF pc[q] = "wait" /\ joined[q] = t THEN "write"
                ELSE pc[q]]
    /\ held' = [q \in Thread |->
                IF q # t /\ pc[q] = "wait" /\ joined[q] = t THEN d
                ELSE held[q]]
    /\ processing' = [processing EXCEPT ![ServerOf[t]] = None]

\* The waiters of t get what the flight has brought.
Answer(t, next, d) ==
    /\ pc' = [q \in Thread |->
                IF q = t THEN next
                ELSE IF pc[q] = "wait" /\ joined[q] = t THEN "answered"
                ELSE pc[q]]
    /\ held' = [q \in Thread |->
                IF q # t /\ pc[q] = "wait" /\ joined[q] = t THEN d
                ELSE held[q]]
    /\ processing' = [processing EXCEPT ![ServerOf[t]] = None]

\* The flight lands; its caller will write the data, being first.
Land(t) ==
    /\ pc[t] = "loaded"
    /\ Answer(t, "write", held[t])
    /\ UNCHANGED <<db, lockOn, cache, life, joined, old, history>>

\* The DAO throws: the waiters get the error, and whoever has old data at hand
\* will renew it.
Crash(t) ==
    /\ pc[t] = "first"
    /\ IF old[t] = None
       THEN Answer(t, "idle", None) /\ late' = late \ {t}
       ELSE Answer(t, "renew", None) /\ UNCHANGED late
    /\ UNCHANGED <<db, lockOn, cache, life, joined, old, deletedAt, returned>>

\* waitTimeOut has passed: the cache, another loadData, or an exception.
TimeOut(t) ==
    /\ pc[t] = "wait"
    /\ \/ /\ cache # None
          /\ held' = [held EXCEPT ![t] = cache]
          /\ Goto(t, "answered")
          /\ UNCHANGED <<joined, old, late>>
       \/ /\ cache = None
          /\ Goto(t, "enter")
          /\ joined' = [joined EXCEPT ![t] = None]
          /\ UNCHANGED <<held, old, late>>
       \/ /\ End(t)
          /\ late' = late \ {t}
    /\ UNCHANGED <<db, lockOn, cache, life, processing, deletedAt, returned>>

\* A plausible slip: a caller that was not first writes as well.
ReturnWrites(t) ==
    /\ pc[t] = "answered"
    /\ \/ held[t] # None /\ cache' = held[t] /\ life' = Expire
       \/ UNCHANGED <<cache, life>>
    /\ End(t)
    /\ late' = late \ {t}
    /\ UNCHANGED <<db, lockOn, processing, deletedAt, returned>>

\* A caller that was not first returns its data and writes nothing.
Return(t) ==
    /\ pc[t] = "answered"
    /\ End(t)
    /\ late' = late \ {t}
    /\ UNCHANGED <<db, lockOn, cache, life, processing, deletedAt, returned>>

-----------------------------------------------------------------------------
(* Writing.  Nothing is written when expire < 0, or when the cache fails. *)

Put(t, d, ticks) ==
    /\ \/ /\ cache' = d
          /\ life' = ticks
          /\ returned' = (returned \/ (t \in late /\ Older(d, deletedAt)))
       \/ UNCHANGED <<cache, life, returned>>
    /\ End(t)
    /\ late' = late \ {t}
    /\ UNCHANGED <<db, lockOn, processing, deletedAt>>

WriteCache(t) == pc[t] = "write" /\ Put(t, held[t], Expire)

\* Plausible slips: the life of old data is rounded down to none, or is extended
\* when it should be cut short.
RenewForever(t) ==
    /\ pc[t] = "renew"
    /\ Put(t, old[t], 0)

RenewLonger(t) ==
    /\ pc[t] = "renew"
    /\ Put(t, old[t], Expire + RenewExpire)

\* Data that is cached for ever is renewed for ever.
Renew(t) ==
    /\ pc[t] = "renew"
    /\ Put(t, old[t], IF Expire = 0 THEN 0 ELSE RenewExpire)

\* A method with @CacheDelete has updated the row, or one with @Cache(opType =
\* WRITE), which returns the new data.
Update(w) ==
    /\ pc[w] = "idle"
    /\ db < MaxVersion
    /\ db' = db + 1
    /\ \/ Goto(w, "delete") /\ UNCHANGED held
       \/ Goto(w, "write") /\ held' = [held EXCEPT ![w] = db + 1]
    /\ UNCHANGED <<lockOn, cache, life, processing, joined, old, history>>

\* deleteCache, after the commit.  When it throws, the data stays.
Delete(w) ==
    /\ pc[w] = "delete"
    /\ \/ /\ cache' = None
          /\ life' = 0
          /\ deletedAt' = db
          /\ late' = {t \in Thread : MayWrite(t) /\ \E d \in InHand(t) : Older(d, db)}
          /\ returned' = FALSE
       \/ UNCHANGED <<cache, life, history>>
    /\ End(w)
    /\ UNCHANGED <<db, lockOn, processing>>

-----------------------------------------------------------------------------
(* The environment *)

Age ==
    /\ cache # None
    /\ life > 1
    /\ life' = life - 1
    /\ UNCHANGED <<db, lockOn, cache, processing, pc, joined, held, old, history>>

\* Expiry, or eviction at any time.
Lose ==
    /\ cache # None
    /\ cache' = None
    /\ life' = 0
    /\ UNCHANGED <<db, lockOn, processing, pc, joined, held, old, history>>

\* openLockDown: the lock has thrown and is not used any more.
LockDown ==
    /\ lockOn
    /\ \E t \in Thread : pc[t] = "first"
    /\ lockOn' = FALSE
    /\ UNCHANGED <<db, cache, life, processing, pc, joined, held, old, history>>

-----------------------------------------------------------------------------
Loader == Request \cup Refresher \cup AutoLoader

Step(t) ==
    \/ LoadData(t) \/ Land(t) \/ TimeOut(t) \/ Return(t)
    \/ WriteCache(t) \/ Renew(t)

Next ==
    \/ \E r \in Request : Hit(r) \/ DoRefresh(r) \/ Miss(r)
    \/ \E f \in Refresher : Drop(f)
    \/ \E a \in AutoLoader : LoadCache(a)
    \/ \E t \in Loader : Step(t) \/ Dao(t) \/ Poll(t) \/ Crash(t)
    \/ \E w \in Writer : Update(w) \/ Delete(w) \/ WriteCache(w)
    \/ Age \/ Lose \/ LockDown

Spec == Init /\ [][Next]_vars

\* Threads are scheduled, DAO calls return, and time passes.
FairSpec ==
    /\ Spec
    /\ \A t \in Loader : WF_vars(Step(t)) /\ WF_vars(Dao(t) \/ Poll(t) \/ Crash(t))
    /\ \A r \in Request : WF_vars(DoRefresh(r))
    /\ \A w \in Writer : WF_vars(Delete(w)) /\ WF_vars(WriteCache(w))
    /\ WF_vars(Age)
    /\ WF_vars(life = 1 /\ Lose)

-----------------------------------------------------------------------------
(* Properties *)

\* What src/doc/deleteCache.md:3 is about, as far as the code goes: after a
\* delete nobody leaves data older than it in the cache, but a thread that had
\* such data in hand when the delete came (CacheHandler.java:253, RefreshHandler
\* .java:170) or one that took it from the cache after such a thread.  Those
\* that wait for a flight, look later or load later never bring it back.
OnlyTheLateBringItBack == Older(cache, deletedAt) => returned

\* The argument: as long as none of the late has written, the others have no
\* older data in hand.
OthersAreUpToDate ==
    ~returned => \A t \in Thread \ late :
        MayWrite(t) => \A d \in InHand(t) : ~Older(d, deletedAt)

\* Once the row is updated no more, the cache ends up with the row's data or none,
\* whatever older data there was in the cache, in threads and in tasks, and however
\* often it was renewed: unless the DAO goes on failing, or first requests go on
\* polling the data of other servers, which they write back with a life of its
\* own (DataLoader.java:175).
Converges ==
    (Expire > 0 /\ <>[][\A t \in Loader : ~Crash(t) /\ ~Poll(t)]_vars)
        => <>[](cache \in {None, db})
=============================================================================

------------------------------ MODULE MapCache ------------------------------
(***************************************************************************)
(* MapCacheManager and CacheTask: a cache in the memory of one server.  A  *)
(* plain key maps to a reference to its data, a key with hfields to a hash *)
(* of them.  Requests set and delete; the thread of CacheTask removes what *)
(* has expired and writes the map to a file when it was changed; destroy   *)
(* writes the file once more, on a thread of its own.  After a crash or an *)
(* exit the server starts with what is in the file.                        *)
(*                                                                         *)
(* Dead is data that has expired, or that the garbage collector has taken  *)
(* from its SoftReference.                                                 *)
(***************************************************************************)
EXTENDS Integers, FiniteSets

CONSTANTS
    Request,           \* threads that set and delete
    PlainKey, HashKey, \* cache keys used without and with an hfield
    Field,             \* hfields
    Hash,              \* ConcurrentHashMap objects; as many as can be in use
    Value,             \* data
    UnpersistMaxSize,  \* so many changes need not be persisted
    MaxChanged,        \* bound: no call is made while so many changes are counted
    Dead, None

ASSUME SizeAssumption == UnpersistMaxSize \in Nat /\ MaxChanged \in Nat
ASSUME FiniteAssumption == IsFiniteSet(PlainKey \cup HashKey) /\ IsFiniteSet(Field)
ASSUME NoneAssumption ==
    /\ None \notin Value \cup Hash \cup Field \cup {Dead}
    /\ Dead \notin Value \cup Hash
    /\ Value \cap Hash = {} /\ PlainKey \cap HashKey = {}

Key        == PlainKey \cup HashKey
PlainEntry == PlainKey \X {None}
HashEntry  == HashKey \X Field
Entry      == PlainEntry \cup HashEntry
Data       == Value \cup {Dead, None}

ASSUME FileAssumption == Dead \notin [Entry -> Data]

\* The thread of CacheTask, and the one that calls destroy.
Saver == {"task", "main"}

VARIABLES
    cache,         \* MapCacheManager.cache
    hash,          \* the fields of the hash objects
    cacheChanged,
    running,
    file,          \* what the file holds: a map, Dead when it is unreadable
    pc,            \* where each request is
    call,          \* the key, field, data and hash it is about
    saver,         \* where the two savers are
    left,          \* the keys they have yet to visit
    cnt,           \* their local cnt
    snap,          \* what they have serialized so far
    at,            \* the entry the cleaner is about to remove
    found,         \* the hash it is in
    fields,        \* the fields of it that it has yet to visit
    cleaned,       \* the entries it has removed in this round: its cacheChanged
    missed         \* history: entries whose last removal was neither counted nor saved

cacheVars   == <<cache, hash>>
requestVars == <<pc, call>>
saveVars    == <<left, cnt, snap>>
cleanVars   == <<at, found, fields, cleaned>>
taskVars    == <<running, saver, saveVars, cleanVars>>
vars == <<cacheVars, cacheChanged, file, requestVars, taskVars, missed>>

Call == [key : Key \cup {None}, field : Field \cup {None},
         data : Value \cup {None}, hash : Hash \cup {None}]
NoCall == [key |-> None, field |-> None, data |-> None, hash |-> None]

RequestAt == {"idle", "putIfAbsent", "putField", "removeField", "change", "changeAll"}
CleanAt   == {"clean", "removeKey", "fields", "removeField", "removeHash"}
PersistAt == {"count", "reset", "serialize", "write", "failed"}
SaverAt   == {"off", "loop", "idle", "ended"} \cup CleanAt \cup PersistAt

Nothing == [e \in Entry |-> None]

TypeOK ==
    /\ cache \in [Key -> Data \cup Hash]
    /\ \A k \in PlainKey : cache[k] \in Data
    /\ \A k \in HashKey : cache[k] \in Hash \cup {None}
    /\ hash \in [Hash -> [Field -> Data]]
    /\ cacheChanged \in Nat
    /\ running \in BOOLEAN
    /\ file \in [Entry -> Data] \cup {Dead}
    /\ pc \in [Request -> RequestAt]
    /\ call \in [Request -> Call]
    /\ saver \in [Saver -> SaverAt]
    /\ left \in [Saver -> SUBSET Key]
    /\ cnt \in [Saver -> Nat]
    /\ snap \in [Saver -> [Entry -> Data]]
    /\ at \in Key \X (Field \cup {None}) \cup {None}
    /\ found \in Hash \cup {None}
    /\ fields \in SUBSET Field
    /\ cleaned \in SUBSET Entry
    /\ missed \in SUBSET Entry
    /\ saver["task"] \in {"reset", "serialize", "write", "failed"}
          => cnt["task"] > UnpersistMaxSize

NotStarted == [s \in Saver |-> IF s = "task" THEN "off" ELSE "idle"]

\* What the map holds for an entry, and what a restart would find.
Content(e) ==
    IF e[1] \in PlainKey THEN cache[e[1]]
    ELSE IF cache[e[1]] = None THEN None ELSE hash[cache[e[1]]][e[2]]

Saved(e) == IF file = Dead THEN None ELSE file[e]

EmptyHash == [f \in Field |-> None]

InUse == {cache[k] : k \in HashKey} \cup {call[r].hash : r \in Request} \cup {found}

Init ==
    /\ cache = [k \in Key |-> None]
    /\ hash = [h \in Hash |-> EmptyHash]
    /\ cacheChanged = 0
    /\ running = FALSE
    /\ file = Nothing
    /\ pc = [r \in Request |-> "idle"]
    /\ call = [r \in Request |-> NoCall]
    /\ saver = NotStarted
    /\ left = [s \in Saver |-> {}]
    /\ cnt = [s \in Saver |-> 0]
    /\ snap = [s \in Saver |-> Nothing]
    /\ at = None /\ found = None /\ fields = {} /\ cleaned = {}
    /\ missed = {}

-----------------------------------------------------------------------------
(* Requests: MapCacheManager.setCache and delete *)

Goto(r, label) == pc' = [pc EXCEPT ![r] = label]

\* The server is up; nothing is called any more once the cache is destroyed.
Up == saver["task"] # "off" /\ saver["main"] = "idle"

Calls(r) == pc[r] = "idle" /\ Up /\ cacheChanged + cnt["task"] < MaxChanged

\* It returns, or is yet to call cacheChange.
Return(r) == Goto(r, "idle") /\ call' = [call EXCEPT ![r] = NoCall]
Change(r) == Goto(r, "change") /\ call' = [call EXCEPT ![r] = NoCall]

\* It goes on with a hash, or with None.
With(r, label, k, f, v, h) ==
    /\ Goto(r, label)
    /\ call' = [call EXCEPT ![r] = [key |-> k, field |-> f, data |-> v, hash |-> h]]

Put(r, k, v) ==
    /\ Calls(r) /\ k \in PlainKey
    /\ cache' = [cache EXCEPT ![k] = v]
    /\ missed' = missed \ {<<k, None>>}
    /\ Change(r)
    /\ UNCHANGED <<hash, cacheChanged, file, taskVars>>

GetHash(r, k, f, v) ==
    /\ Calls(r) /\ k \in HashKey
    /\ With(r, IF cache[k] = None THEN "putIfAbsent" ELSE "putField", k, f, v, cache[k])
    /\ UNCHANGED <<cacheVars, cacheChanged, file, taskVars, missed>>

PutIfAbsent(r) ==
    LET c == call[r] IN
    /\ pc[r] = "putIfAbsent"
    /\ \/ /\ cache[c.key] # None
          /\ With(r, "putField", c.key, c.field, c.data, cache[c.key])
          /\ UNCHANGED cacheVars
       \/ /\ cache[c.key] = None
          /\ \E h \in Hash \ InUse :
                /\ cache' = [cache EXCEPT ![c.key] = h]
                /\ hash' = [hash EXCEPT ![h] = EmptyHash]
                /\ With(r, "putField", c.key, c.field, c.data, h)
    /\ UNCHANGED <<cacheChanged, file, taskVars, missed>>

\* By now the hash may no longer be the one in the map.
PutField(r) ==
    LET c == call[r] IN
    /\ pc[r] = "putField"
    /\ hash' = [hash EXCEPT ![c.hash][c.field] = c.data]
    /\ missed' = missed \ {<<c.key, c.field>>}
    /\ Change(r)
    /\ UNCHANGED <<cache, cacheChanged, file, taskVars>>

CacheChange(r) ==
    /\ pc[r] = "change"
    /\ cacheChanged' = cacheChanged + 1
    /\ Return(r)
    /\ UNCHANGED <<cacheVars, file, taskVars, missed>>

\* What it removes is a SoftReference and no CacheWrapper, and is not counted.
Remove(r, k) ==
    /\ Calls(r) /\ k \in PlainKey
    /\ cache[k] # None
    /\ cache' = [cache EXCEPT ![k] = None]
    /\ missed' = missed \cup {<<k, None>>}
    /\ UNCHANGED <<hash, cacheChanged, file, requestVars, taskVars>>

RemoveHash(r, k) ==
    /\ Calls(r) /\ k \in HashKey
    /\ cache[k] # None
    /\ cache' = [cache EXCEPT ![k] = None]
    /\ With(r, "changeAll", k, None, None, cache[k])
    /\ UNCHANGED <<hash, cacheChanged, file, taskVars, missed>>

\* hash.size(), though other threads may still hold the hash.
Size(h) == Cardinality({f \in Field : hash[h][f] # None})

CacheChangeAll(r) ==
    /\ pc[r] = "changeAll"
    /\ cacheChanged' = cacheChanged + Size(call[r].hash)
    /\ Return(r)
    /\ UNCHANGED <<cacheVars, file, taskVars, missed>>

GetField(r, k, f) ==
    /\ Calls(r) /\ k \in HashKey
    /\ cache[k] # None
    /\ With(r, "removeField", k, f, None, cache[k])
    /\ UNCHANGED <<cacheVars, cacheChanged, file, taskVars, missed>>

RemoveFieldUncounted(r) ==                    \* as Remove does with plain keys
    LET c == call[r] IN
    /\ pc[r] = "removeField"
    /\ hash' = [hash EXCEPT ![c.hash][c.field] = None]
    /\ Return(r)
    /\ UNCHANGED <<cache, cacheChanged, file, taskVars, missed>>

RemoveField(r) ==
    LET c == call[r] IN
    /\ pc[r] = "removeField"
    /\ hash' = [hash EXCEPT ![c.hash][c.field] = None]
    /\ IF hash[c.hash][c.field] # None THEN Change(r) ELSE Return(r)
    /\ UNCHANGED <<cache, cacheChanged, file, taskVars, missed>>

-----------------------------------------------------------------------------
(* CacheTask.cleanCache *)

At(s, label) == saver' = [saver EXCEPT ![s] = label]

Loop ==
    /\ saver["task"] = "loop"
    /\ At("task", IF running THEN "clean" ELSE "ended")
    /\ left' = [left EXCEPT !["task"] = IF running THEN Key ELSE {}]
    /\ UNCHANGED <<cacheVars, cacheChanged, running, file, requestVars, cnt, snap,
                   cleanVars, missed>>

\* The iterator comes to a key.
VisitKey(k) ==
    /\ saver["task"] = "clean" /\ k \in left["task"]
    /\ left' = [left EXCEPT !["task"] = @ \ {k}]
    /\ \/ /\ cache[k] = Dead
          /\ At("task", "removeKey") /\ at' = <<k, None>>
          /\ UNCHANGED <<found, fields>>
       \/ /\ cache[k] \in Hash
          /\ At("task", "fields") /\ at' = <<k, None>>
          /\ found' = cache[k] /\ fields' = Field
       \/ /\ cache[k] \in Value \cup {None}
          /\ UNCHANGED <<saver, at, found, fields>>
    /\ UNCHANGED <<cacheVars, cacheChanged, running, file, requestVars, cnt, snap,
                   cleaned, missed>>

\* It goes on to the next key.
NextKey == At("task", "clean") /\ at' = None /\ found' = None /\ fields' = {}

\* iterator.remove() removes the key, whatever it maps to by now.
RemoveKey ==
    /\ saver["task"] = "removeKey"
    /\ cache' = [cache EXCEPT ![at[1]] = None]
    /\ cleaned' = cleaned \cup {at}
    /\ NextKey
    /\ UNCHANGED <<hash, cacheChanged, running, file, requestVars, saveVars, missed>>

VisitField(f) ==
    /\ saver["task"] = "fields" /\ f \in fields
    /\ fields' = fields \ {f}
    /\ IF hash[found][f] = Dead
       THEN At("task", "removeField") /\ at' = <<at[1], f>>
       ELSE UNCHANGED <<saver, at>>
    /\ UNCHANGED <<cacheVars, cacheChanged, running, file, requestVars, saveVars,
                   found, cleaned, missed>>

CleanField ==
    /\ saver["task"] = "removeField"
    /\ hash' = [hash EXCEPT ![found][at[2]] = None]
    /\ cleaned' = cleaned \cup {at}
    /\ At("task", "fields") /\ at' = <<at[1], None>>
    /\ UNCHANGED <<cache, cacheChanged, running, file, requestVars, saveVars,
                   found, fields, missed>>

\* hash.isEmpty(), and then again a removal of whatever is there.
IsEmpty ==
    /\ saver["task"] = "fields" /\ fields = {}
    /\ IF hash[found] = EmptyHash
       THEN At("task", "removeHash") /\ UNCHANGED <<at, found, fields>>
       ELSE NextKey
    /\ UNCHANGED <<cacheVars, cacheChanged, running, file, requestVars, saveVars,
                   cleaned, missed>>

CleanHash ==
    /\ saver["task"] = "removeHash"
    /\ cache' = [cache EXCEPT ![at[1]] = None]
    /\ NextKey
    /\ UNCHANGED <<hash, cacheChanged, running, file, requestVars, saveVars,
                   cleaned, missed>>

\* The garbage collector clears a reference between two calls of get(): what was
\* removed in this round is not counted, and this round persists nothing.
CleanThrows ==
    /\ \/ saver["task"] = "clean" /\ \E k \in left["task"] : cache[k] = Dead
       \/ saver["task"] = "fields" /\ \E f \in fields : hash[found][f] = Dead
    /\ At("task", "loop")
    /\ missed' = missed \cup {e \in cleaned : Content(e) = None}
    /\ at' = None /\ found' = None /\ fields' = {} /\ cleaned' = {}
    /\ left' = [left EXCEPT !["task"] = {}]
    /\ UNCHANGED <<cacheVars, cacheChanged, running, file, requestVars, cnt, snap>>

CountCleaned ==
    /\ saver["task"] = "clean" /\ left["task"] = {}
    /\ cacheChanged' = cacheChanged + Cardinality(cleaned)
    /\ At("task", "count")
    /\ cleaned' = {}
    /\ UNCHANGED <<cacheVars, running, file, requestVars, saveVars, at, found, fields, missed>>

-----------------------------------------------------------------------------
(* CacheTask.persistCache, on the thread of CacheTask or in destroy *)

\* The thread goes to sleep; destroy is done.
Persisted(s) ==
    /\ At(s, IF s = "task" THEN "loop" ELSE "ended")
    /\ running' = (running /\ s = "task")
    /\ left' = [left EXCEPT ![s] = {}]
    /\ cnt' = [cnt EXCEPT ![s] = 0]
    /\ snap' = [snap EXCEPT ![s] = Nothing]

\* The server has answered its last requests.
Destroy ==
    /\ Up /\ \A r \in Request : pc[r] = "idle"
    /\ At("main", "count")
    /\ UNCHANGED <<cacheVars, cacheChanged, running, file, requestVars, saveVars,
                   cleanVars, missed>>

ReadCountNotLess(s) ==                        \* no change at all is enough
    /\ saver[s] = "count"
    /\ cnt' = [cnt EXCEPT ![s] = cacheChanged]
    /\ At(s, "reset")
    /\ UNCHANGED <<cacheVars, cacheChanged, running, file, requestVars, left, snap,
                   cleanVars, missed>>

ReadCount(s) ==
    /\ saver[s] = "count"
    /\ \/ /\ s = "task" /\ cacheChanged <= UnpersistMaxSize
          /\ Persisted(s)
       \/ /\ s = "main" \/ cacheChanged > UnpersistMaxSize
          /\ cnt' = [cnt EXCEPT ![s] = cacheChanged]
          /\ At(s, "reset")
          /\ UNCHANGED <<running, left, snap>>
    /\ UNCHANGED <<cacheVars, cacheChanged, file, requestVars, cleanVars, missed>>

ResetCount(s) ==
    /\ saver[s] = "reset"
    /\ cacheChanged' = 0
    /\ left' = [left EXCEPT ![s] = Key]
    /\ At(s, "serialize")
    /\ UNCHANGED <<cacheVars, running, file, requestVars, cnt, snap, cleanVars, missed>>

\* The serializer comes to a key; what it has passed may change meanwhile.
Serialize(s, k) ==
    /\ saver[s] = "serialize" /\ k \in left[s]
    /\ left' = [left EXCEPT ![s] = @ \ {k}]
    /\ snap' = [snap EXCEPT ![s] =
                   [e \in Entry |-> IF e[1] = k THEN Content(e) ELSE snap[s][e]]]
    /\ UNCHANGED <<cacheVars, cacheChanged, running, file, requestVars, saver, cnt,
                   cleanVars, missed>>

\* new FileOutputStream(file) leaves an empty file.
Open(s) ==
    /\ saver[s] = "serialize" /\ left[s] = {}
    /\ file' = Dead
    /\ At(s, "write")
    /\ UNCHANGED <<cacheVars, cacheChanged, running, requestVars, saveVars, cleanVars, missed>>

Write(s) ==
    /\ saver[s] = "write"
    /\ file' = snap[s]
    /\ missed' = {e \in missed : snap[s][e] # None}
    /\ Persisted(s)
    /\ UNCHANGED <<cacheVars, cacheChanged, requestVars, cleanVars>>

\* It cannot be serialized, or opened, or the disk is full.
PersistThrows(s) ==
    /\ saver[s] \in {"serialize", "write"}
    /\ At(s, "failed")
    /\ UNCHANGED <<cacheVars, cacheChanged, running, file, requestVars, saveVars,
                   cleanVars, missed>>

AddCountAgain(s) ==
    /\ saver[s] = "failed"
    /\ cacheChanged' = cacheChanged + cnt[s]
    /\ Persisted(s)
    /\ UNCHANGED <<cacheVars, file, requestVars, cleanVars, missed>>

-----------------------------------------------------------------------------
\* start, with loadCache: an unreadable file is ignored.
Start ==
    /\ saver["task"] = "off"
    /\ running' = TRUE
    /\ At("task", "loop")
    /\ \E h \in [HashKey -> Hash] :
          /\ \A k, l \in HashKey : h[k] = h[l] => k = l
          /\ cache' = [k \in Key |->
                         IF k \in PlainKey THEN Saved(<<k, None>>)
                         ELSE IF \E f \in Field : Saved(<<k, f>>) # None THEN h[k]
                         ELSE None]
          /\ hash' = [g \in Hash |-> [f \in Field |->
                         IF \E k \in HashKey : h[k] = g
                         THEN Saved(<<CHOOSE k \in HashKey : h[k] = g, f>>) ELSE None]]
    /\ UNCHANGED <<cacheChanged, file, requestVars, saveVars, cleanVars, missed>>

\* The process exits or is killed, at any time, and starts anew.
Crash ==
    /\ saver["task"] # "off"
    /\ cache' = [k \in Key |-> None]
    /\ hash' = [h \in Hash |-> EmptyHash]
    /\ cacheChanged' = 0
    /\ running' = FALSE
    /\ pc' = [r \in Request |-> "idle"]
    /\ call' = [r \in Request |-> NoCall]
    /\ saver' = NotStarted
    /\ left' = [s \in Saver |-> {}]
    /\ cnt' = [s \in Saver |-> 0]
    /\ snap' = [s \in Saver |-> Nothing]
    /\ at' = None /\ found' = None /\ fields' = {} /\ cleaned' = {}
    /\ missed' = {}
    /\ UNCHANGED file

\* Data expires, or the collector clears its reference.
Die(e) ==
    /\ Content(e) \in Value
    /\ \/ /\ e \in PlainEntry
          /\ cache' = [cache EXCEPT ![e[1]] = Dead]
          /\ UNCHANGED hash
       \/ /\ e \in HashEntry
          /\ hash' = [hash EXCEPT ![cache[e[1]]][e[2]] = Dead]
          /\ UNCHANGED cache
    /\ UNCHANGED <<cacheChanged, file, requestVars, taskVars, missed>>

RequestStep(r) ==
    \/ \E k \in Key :
          \/ \E v \in Value : Put(r, k, v) \/ \E f \in Field : GetHash(r, k, f, v)
          \/ Remove(r, k) \/ RemoveHash(r, k)
          \/ \E f \in Field : GetField(r, k, f)
    \/ PutIfAbsent(r) \/ PutField(r) \/ CacheChange(r) \/ CacheChangeAll(r) \/ RemoveField(r)

CleanStep ==
    \/ Loop \/ \E k \in Key : VisitKey(k) \/ RemoveKey
    \/ \E f \in Field : VisitField(f)
    \/ CleanField \/ IsEmpty \/ CleanHash \/ CleanThrows \/ CountCleaned

PersistStep(s) ==
    \/ ReadCount(s) \/ ResetCount(s) \/ \E k \in Key : Serialize(s, k)
    \/ Open(s) \/ Write(s) \/ PersistThrows(s) \/ AddCountAgain(s)

Next ==
    \/ \E r \in Request : RequestStep(r)
    \/ CleanStep
    \/ \E s \in Saver : PersistStep(s)
    \/ Start \/ Destroy \/ Crash
    \/ \E e \in Entry : Die(e)

Spec == Init /\ [][Next]_vars

-----------------------------------------------------------------------------
(* Properties *)

Unsaved(e) == Content(e) # Dead /\ Saved(e) # Content(e)

\* A change was counted, or some thread is about to count one.
Counted ==
    \/ cacheChanged > 0
    \/ \E r \in Request :
          pc[r] = "change" \/ (pc[r] = "changeAll" /\ Size(call[r].hash) > 0)
    \/ cleaned # {}

\* The count was reset, and the file does not yet hold what it stood for.
Persisting == saver["task"] \in {"serialize", "write", "failed"}

\* What is not in the file is counted, so that a next round writes it, with the few
\* exceptions that missed names: through changes that race with reset and
\* serialization, writes that fail, and hashes that leave the map while others hold
\* them (CacheTask.java:149-161, MapCacheManager.java:127-147, 253-273).
UnsavedIsCounted ==
    Up /\ ~Persisting
        => Counted \/ \A e \in Entry : Unsaved(e) => e \in missed
=============================================================================

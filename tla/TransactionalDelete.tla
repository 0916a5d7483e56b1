------------------------- MODULE TransactionalDelete -------------------------
(***************************************************************************)
(* @CacheDelete inside @CacheDeleteTransactional: while the outermost such *)
(* call of a thread runs, the keys to delete are collected in a thread-    *)
(* local set of CacheHelper, and they are deleted when that call ends.     *)
(* Calls nest, they fail, their callers may catch the exception and go on, *)
(* and threads are reused: what a call leaves in the thread-locals is what *)
(* the thread's next request starts with.                                  *)
(***************************************************************************)
EXTENDS Naturals

CONSTANTS
    Thread,      \* threads of the server's pool
    Key,         \* cache keys
    MaxDepth,    \* bound on the nesting of transactional calls
    None         \* null: the thread-local is not set

ASSUME DepthAssumption == MaxDepth \in Nat
ASSUME NoneAssumption  == (\A S \in SUBSET Key : S # None) /\ None # "LOAD"

VARIABLES
    depth,    \* how many transactional calls the thread is inside
    isStart,  \* the levels of calls that found DELETE_CACHE_KEYS not set
    onError,  \* the levels of calls with deleteCacheOnError = true
    keySet,   \* CacheHelper.DELETE_CACHE_KEYS
    opType,   \* CacheHelper.OP_TYPE
    cached,   \* the keys that are in the cache
    owed,     \* history: keys whose deletion was asked for and is still to come
    gaveUp    \* history: threads with an outermost call that kept its keys

vars == <<depth, isStart, onError, keySet, opType, cached, owed, gaveUp>>

Level == 1 .. MaxDepth

TypeOK ==
    /\ depth \in [Thread -> 0 .. MaxDepth]
    /\ isStart \in [Thread -> SUBSET Level]
    /\ onError \in [Thread -> SUBSET Level]
    /\ keySet \in [Thread -> {None} \cup SUBSET Key]
    /\ opType \in [Thread -> {"LOAD", None}]
    /\ cached \in SUBSET Key
    /\ owed \in [Thread -> SUBSET Key]
    /\ gaveUp \in SUBSET Thread

Init ==
    /\ depth = [t \in Thread |-> 0]
    /\ isStart = [t \in Thread |-> {}]
    /\ onError = [t \in Thread |-> {}]
    /\ keySet = [t \in Thread |-> None]
    /\ opType = [t \in Thread |-> None]
    /\ cached \in SUBSET Key
    /\ owed = [t \in Thread |-> {}]
    /\ gaveUp = {}

-----------------------------------------------------------------------------
IsOnTransactional(t) == keySet[t] # None

\* Variants that the properties must notice.
BeginNewSet(t, useCache, deleteCacheOnError) ==     \* a new set at every level
    /\ depth[t] < MaxDepth
    /\ depth' = [depth EXCEPT ![t] = @ + 1]
    /\ isStart' = IF IsOnTransactional(t) THEN isStart
                  ELSE [isStart EXCEPT ![t] = @ \cup {depth'[t]}]
    /\ onError' = IF deleteCacheOnError
                  THEN [onError EXCEPT ![t] = @ \cup {depth'[t]}] ELSE onError
    /\ opType' = IF useCache THEN opType ELSE [opType EXCEPT ![t] = "LOAD"]
    /\ keySet' = [keySet EXCEPT ![t] = {}]
    /\ UNCHANGED <<cached, owed, gaveUp>>

DeleteCacheAtOnce(t, k) ==                          \* transaction or not
    /\ cached' = cached \ {k}
    /\ UNCHANGED <<depth, isStart, onError, keySet, opType, owed, gaveUp>>

\* Entry of proceedDeleteCacheTransactional: isStart, LOAD, then the set.
Begin(t, useCache, deleteCacheOnError) ==
    /\ depth[t] < MaxDepth
    /\ depth' = [depth EXCEPT ![t] = @ + 1]
    /\ isStart' = IF IsOnTransactional(t) THEN isStart
                  ELSE [isStart EXCEPT ![t] = @ \cup {depth'[t]}]
    /\ onError' = IF deleteCacheOnError
                  THEN [onError EXCEPT ![t] = @ \cup {depth'[t]}] ELSE onError
    /\ opType' = IF useCache THEN opType ELSE [opType EXCEPT ![t] = "LOAD"]
    /\ keySet' = IF IsOnTransactional(t) THEN keySet
                 ELSE [keySet EXCEPT ![t] = {}]
    /\ UNCHANGED <<cached, owed, gaveUp>>

\* A method with @CacheDelete returns, inside a transactional call or outside:
\* deleteCache collects the key, or deletes it at once.  If that throws, so
\* does deleteCache, and nothing is owed.
DeleteCache(t, k) ==
    /\ IF IsOnTransactional(t)
       THEN /\ keySet' = [keySet EXCEPT ![t] = @ \cup {k}]
            /\ owed' = [owed EXCEPT ![t] = @ \cup {k}]
            /\ UNCHANGED cached
       ELSE /\ cached' \in {cached \ {k}, cached}
            /\ UNCHANGED <<keySet, owed>>
    /\ UNCHANGED <<depth, isStart, onError, opType, gaveUp>>

\* A method with @Cache: LOAD goes to the source and past the cache.
Read(t, k) ==
    /\ opType[t] # "LOAD"
    /\ cached' = cached \cup {k}
    /\ UNCHANGED <<depth, isStart, onError, keySet, opType, owed, gaveUp>>

\* The call at this level is gone.
Leave(t) ==
    /\ depth[t] > 0
    /\ depth' = [depth EXCEPT ![t] = @ - 1]
    /\ isStart' = [isStart EXCEPT ![t] = @ \ {depth[t]}]
    /\ onError' = [onError EXCEPT ![t] = @ \ {depth[t]}]

\* clearCache: delete the set, all of it or until one fails; then remove it.
ClearCache(t) ==
    /\ \E done \in SUBSET keySet[t] : cached' = cached \ done
    /\ keySet' = [keySet EXCEPT ![t] = None]
    /\ owed' = [owed EXCEPT ![t] = {}]

EndNestedResetsOpType(t) ==                \* to the default, not to unset
    /\ Leave(t)
    /\ depth[t] \notin isStart[t]
    /\ opType' = [opType EXCEPT ![t] = "READ_WRITE"]
    /\ UNCHANGED <<keySet, cached, owed, gaveUp>>

\* A nested call, or one that only looks nested, ends: the keys stay.
EndNested(t) ==
    /\ Leave(t)
    /\ depth[t] \notin isStart[t]
    /\ opType' = [opType EXCEPT ![t] = None]
    /\ UNCHANGED <<keySet, cached, owed, gaveUp>>

EndStartForgetsOpType(t) ==                \* no clearCacheOpType
    /\ Leave(t)
    /\ depth[t] \in isStart[t]
    /\ ClearCache(t)
    /\ UNCHANGED <<opType, gaveUp>>

\* The call that made the set ends well, or fails and deletes all the same.
EndStart(t) ==
    /\ Leave(t)
    /\ depth[t] \in isStart[t]
    /\ opType' = [opType EXCEPT ![t] = None]
    /\ ClearCache(t)
    /\ UNCHANGED gaveUp

\* It fails and does not want the keys deleted: "do nothing".
EndStartOnError(t) ==
    /\ Leave(t)
    /\ depth[t] \in isStart[t] \ onError[t]
    /\ opType' = [opType EXCEPT ![t] = None]
    /\ owed' = [owed EXCEPT ![t] = {}]
    /\ gaveUp' = gaveUp \cup {t}
    /\ UNCHANGED <<keySet, cached>>

Next ==
    \E t \in Thread :
        \/ \E useCache \in BOOLEAN, deleteCacheOnError \in BOOLEAN :
              Begin(t, useCache, deleteCacheOnError)
        \/ \E k \in Key : DeleteCache(t, k) \/ Read(t, k)
        \/ EndNested(t) \/ EndStart(t) \/ EndStartOnError(t)

Spec == Init /\ [][Next]_vars

-----------------------------------------------------------------------------
(* Properties *)

\* "The cache is deleted once the transaction is done" (CacheHandler.java:341,
\* doc/warning.md:93): a thread that has left all transactional calls owes no
\* deletion, neither from them nor from a later @CacheDelete outside any.
NothingOwedAtRest == \A t \in Thread : depth[t] = 0 => owed[t] = {}

\* It can only be a call that failed and kept its keys that makes the thread's
\* later deletions wait for ever: whatever nests, fails or is caught besides,
\* at rest nothing is owed and the next request finds clean thread-locals.
CleanUnlessGivenUp ==
    \A t \in Thread \ gaveUp :
        depth[t] = 0 => owed[t] = {} /\ ~IsOnTransactional(t) /\ opType[t] = None

\* What a nested call, an inner failure that was caught or a second @CacheDelete
\* does, it does not make the thread forget a key collected before
\* (CacheHelper.java:43-60).
KeysRemembered ==
    \A t \in Thread : owed[t] # {} => /\ IsOnTransactional(t)
                                      /\ owed[t] \subseteq keySet[t]

\* "Only after the transaction" (CacheHandler.java:341): what leaves the cache is
\* deleted outside every transactional call, or was collected in one whose
\* outermost call ends with this step.
DeletesOnlyAtTheEnd ==
    [][\A k \in cached \ cached' :
          \E t \in Thread :
              /\ depth'[t] = 0
              /\ depth[t] = 0 \/ (depth[t] = 1 /\ k \in keySet[t])]_vars
=============================================================================

----------------------------- MODULE ComboCache -----------------------------
(***************************************************************************)
(* ComboCacheManager: one key in the remote cache and in the local caches  *)
(* of the servers, the row of the database it stands for, and what the     *)
(* callers of get and setCache do with a copy they got: a RefreshTask or   *)
(* an auto-load thread renews it when the load fails, and a first request  *)
(* that polls instead of loading writes it again.                          *)
(*                                                                         *)
(* A copy is a CacheWrapper: the version of the row, and the ticks until   *)
(* isExpired answers true.  Local and remote caches keep the same object   *)
(* (ComboCacheManager.java:90), so a copy has one life wherever it is.     *)
(* mget is seen from one of its keys: the others may be missing locally,   *)
(* and then all the keys are asked for remotely.  Who is first, whether a  *)
(* first request loads or polls, and when data is due, are open: they are  *)
(* DataLoader's, RefreshHandler's and AutoLoadHandler's matter.            *)
(***************************************************************************)
EXTENDS Naturals

CONSTANTS
    Server,
    Thread,      \* the threads of all servers
    ServerOf,    \* the server of each
    AutoLoader,  \* those whose name starts with AutoLoadHandler.THREAD_NAME_PREFIX
    Writer,      \* those that update the row
    LocalOnly,   \* those whose method has @LocalCache(localOnly = true)
    Expire,      \* @Cache.expire, in ticks
    RenewExpire, \* the most that old data gets when its reload fails, in ticks
    LoadTime,    \* bound on the ticks from the DAO's read to the wrapper's start
    MaxVersion,  \* bound on the updates of the row
    None         \* null

ASSUME ServerAssumption == ServerOf \in [Thread -> Server]
ASSUME KindAssumption   == AutoLoader \subseteq Thread /\ Writer \subseteq Thread \ AutoLoader
ASSUME LocalAssumption  == LocalOnly \subseteq Thread
ASSUME TimeAssumption   ==
    Expire \in Nat \ {0} /\ RenewExpire \in Nat \ {0} /\ LoadTime \in Nat
ASSUME BoundAssumption  == MaxVersion \in Nat

Version == 0 .. MaxVersion
Copy    == [v : Version, life : Nat]

ASSUME NoneAssumption == None \notin Copy /\ None \notin Version

VARIABLES
    db,        \* the version of the row
    remote,    \* the copy in the remote cache
    local,     \* server -> the copy in its local cache
    pc,        \* where each thread is
    why,       \* what a thread asks the remote cache for: get, mget, or to poll
    held,      \* the copy a thread has in hand
    old,       \* the version a thread would renew if its load failed
    outdated,  \* history: version -> ticks since it is not the row's any more
    renewedAgo,\* history: ticks since old data was renewed
    deletedAt, \* history: the version of the row at the last delete
    deletedBy, \* history: the server of that delete
    carriers,  \* history: who has older data in hand, from before that delete or
               \* from the local cache of another server
    returned   \* history: one of them wrote it, or it was put back during the delete

vars == <<db, remote, local, pc, why, held, old, outdated, renewedAgo, deletedAt,
          deletedBy, carriers, returned>>

caches  == <<remote, local>>
times   == <<outdated, renewedAgo>>
deletes == <<deletedAt, deletedBy, returned>>

PC == {"idle", "remote", "refill", "first", "loading", "setLocal", "setRemote",
       "deleteLocal", "deleteRemote"}

\* Nothing is outdated, and no renewal is past, for longer than the model needs to tell.
MaxOutdated == Expire + LoadTime + 1

TypeOK ==
    /\ db \in Version
    /\ remote \in Copy \cup {None}
    /\ local \in [Server -> Copy \cup {None}]
    /\ pc \in [Thread -> PC]
    /\ why \in [Thread -> {"get", "mget", "poll"}]
    /\ held \in [Thread -> Copy \cup {None}]
    /\ old \in [Thread -> Version \cup {None}]
    /\ \A t \in Thread :
          /\ held[t] # None <=> pc[t] \in {"refill", "loading", "setLocal", "setRemote"}
          /\ old[t] # None => pc[t] \in {"first", "remote", "refill"}
    /\ outdated \in [Version -> 0 .. MaxOutdated]
    /\ renewedAgo \in 0 .. RenewExpire
    /\ deletedAt \in Version
    /\ deletedBy \in Server
    /\ carriers \in SUBSET Thread
    /\ returned \in BOOLEAN

Init ==
    /\ db = 0
    /\ remote = None
    /\ local = [s \in Server |-> None]
    /\ pc = [t \in Thread |-> "idle"]
    /\ why = [t \in Thread |-> "get"]
    /\ held = [t \in Thread |-> None]
    /\ old = [t \in Thread |-> None]
    /\ outdated = [v \in Version |-> 0]
    /\ renewedAgo = RenewExpire
    /\ deletedAt = 0
    /\ deletedBy \in Server
    /\ carriers = {}
    /\ returned = FALSE

-----------------------------------------------------------------------------
Live(c) == c # None /\ c.life > 0

Older(c, v) == c # None /\ c.v < v

\* The local cache answers null for a copy that has expired (MapCacheManager.java:202).
Kept(c) == IF Live(c) THEN c ELSE None

\* t goes on elsewhere, with copy c in hand, and v to renew.
Goto(t, where, c, v) ==
    /\ pc' = [pc EXCEPT ![t] = where]
    /\ why' = [why EXCEPT ![t] = "get"]
    /\ held' = [held EXCEPT ![t] = c]
    /\ old' = [old EXCEPT ![t] = v]

End(t) == Goto(t, "idle", None, None)

\* t writes what it has in hand; does it bring back older data?
Undo(t) == returned' = (returned \/ (t \in carriers /\ Older(held[t], deletedAt)))

\* A plausible slip, as the wrapper that setLocalCache makes and does not use
\* would have it: the local copy has a life of its own.
SetLocalCacheAnew(t, c) ==
    \/ /\ local' = [local EXCEPT ![ServerOf[t]] = [c EXCEPT !.life = Expire]]
       /\ IF ServerOf[t] = deletedBy THEN Undo(t) ELSE UNCHANGED returned
    \/ UNCHANGED <<local, returned>>

\* setLocalCache.  A failure is caught.
SetLocalCache(t, c) ==
    \/ /\ local' = [local EXCEPT ![ServerOf[t]] = Kept(c)]
       /\ IF ServerOf[t] = deletedBy THEN Undo(t) ELSE UNCHANGED returned
    \/ UNCHANGED <<local, returned>>

-----------------------------------------------------------------------------
(* get and mget, and what their callers do next *)

\* A load has failed.  Old data is renewed, with a new life.
Renew(t) ==
    IF old[t] = None
    THEN End(t) /\ UNCHANGED renewedAgo
    ELSE /\ \E ticks \in 1 .. RenewExpire :
               Goto(t, "setLocal", [v |-> old[t], life |-> ticks], None)
         /\ renewedAgo' = 0

\* What follows get and mget.  proceed returns what it got, or waits for what another
\* thread loads; or t will load: as the first request of the key, as the RefreshTask
\* that a live copy is handed to, or as an auto-load thread, whose copy need not live.
\* A first request that polls writes what it got.
Answer(t, reason, c) ==
    \/ reason # "poll" /\ End(t)
    \/ reason = "mget" /\ Goto(t, "first", None, None)
    \/ /\ reason = "get"
       /\ Goto(t, "first", None,
               IF Live(c) \/ (c # None /\ t \in AutoLoader) THEN c.v ELSE None)
    \/ /\ reason = "poll"
       /\ IF c # None THEN Goto(t, "setLocal", c, None)
                      ELSE Goto(t, "first", None, old[t])

\* Who is done has nothing in hand.
Carry(who) == carriers' = {q \in who : pc'[q] # "idle"}

\* t takes c from its local cache, where auto-load threads are not to look; deletes on
\* other servers have left it there.
Take(t, c) == Carry(IF Older(c, deletedAt) /\ ServerOf[t] # deletedBy
                    THEN carriers \cup ({t} \ AutoLoader) ELSE carriers)

-----------------------------------------------------------------------------
(* get and mget *)

\* A plausible slip: auto-load threads ask the local cache as well.
GetLocalAlways(t, reason) ==
    LET c == local[ServerOf[t]] IN
    /\ pc[t] = IF reason = "poll" THEN "first" ELSE "idle"
    /\ c # None
    /\ Answer(t, reason, c)
    /\ Take(t, c)
    /\ UNCHANGED <<db, caches, times, deletes>>

\* The local cache has the key.  An auto-load thread does not ask it.
GetLocal(t, reason) ==
    LET c == local[ServerOf[t]] IN
    /\ pc[t] = IF reason = "poll" THEN "first" ELSE "idle"
    /\ reason # "mget"
    /\ t \notin AutoLoader
    /\ c # None
    /\ Answer(t, reason, c)
    /\ Take(t, c)
    /\ UNCHANGED <<db, caches, times, deletes>>

\* It does not have it or, to mget, not all of the keys.
AskRemote(t, reason) ==
    /\ pc[t] = IF reason = "poll" THEN "first" ELSE "idle"
    /\ \/ reason = "mget" /\ t \notin AutoLoader
       \/ reason # "mget" /\ (t \in AutoLoader \/ local[ServerOf[t]] = None)
    /\ pc' = [pc EXCEPT ![t] = "remote"]
    /\ why' = [why EXCEPT ![t] = reason]
    /\ UNCHANGED <<db, caches, held, old, times, carriers, deletes>>

\* A plausible slip: a result is not compared with null.
GetRemoteUnchecked(t) ==
    /\ pc[t] = "remote"
    /\ pc' = [pc EXCEPT ![t] = "refill"]
    /\ held' = [held EXCEPT ![t] = remote]
    /\ UNCHANGED <<db, caches, why, old, times, carriers, deletes>>

GetRemote(t) ==
    /\ pc[t] = "remote"
    /\ IF remote # None
       THEN /\ pc' = [pc EXCEPT ![t] = "refill"]
            /\ held' = [held EXCEPT ![t] = remote]
            /\ UNCHANGED <<why, old, carriers>>
       ELSE Answer(t, why[t], None) /\ Carry(carriers)
    /\ UNCHANGED <<db, caches, times, deletes>>

\* proceed and the auto-load thread go on as if there were nothing, a poll fails.
GetRemoteThrows(t) ==
    /\ pc[t] = "remote"
    /\ IF why[t] = "poll"
       THEN Renew(t)
       ELSE Answer(t, why[t], None) /\ UNCHANGED renewedAgo
    /\ Carry(carriers)
    /\ UNCHANGED <<db, caches, outdated, deletes>>

\* What the remote cache has is put into the local one.
Refill(t) ==
    /\ pc[t] = "refill"
    /\ SetLocalCache(t, held[t])
    /\ Answer(t, why[t], held[t])
    /\ Carry(carriers)
    /\ UNCHANGED <<db, remote, times, deletedAt, deletedBy>>

-----------------------------------------------------------------------------
(* Loads, and setCache and mset after them *)

\* The DAO reads the row.
Load(t) ==
    /\ pc[t] = "first"
    /\ Goto(t, "loading", [v |-> db, life |-> LoadTime], None)
    /\ UNCHANGED <<db, caches, times, carriers, deletes>>

\* It throws.
LoadThrows(t) ==
    /\ pc[t] = "first"
    /\ Renew(t)
    /\ Carry(carriers)
    /\ UNCHANGED <<db, caches, outdated, deletes>>

\* Its result gets a CacheWrapper.
BuildCacheWrapper(t) ==
    /\ pc[t] = "loading"
    /\ Goto(t, "setLocal", [held[t] EXCEPT !.life = Expire], None)
    /\ UNCHANGED <<db, caches, times, carriers, deletes>>

SetLocal(t) ==
    /\ pc[t] = "setLocal"
    /\ SetLocalCache(t, held[t])
    /\ IF t \in LocalOnly THEN End(t) ELSE Goto(t, "setRemote", held[t], None)
    /\ Carry(carriers)
    /\ UNCHANGED <<db, remote, times, deletedAt, deletedBy>>

\* The remote cache may fail.
SetRemote(t) ==
    /\ pc[t] = "setRemote"
    /\ \/ remote' = held[t] /\ Undo(t)
       \/ UNCHANGED <<remote, returned>>
    /\ End(t)
    /\ Carry(carriers)
    /\ UNCHANGED <<db, local, times, deletedAt, deletedBy>>

-----------------------------------------------------------------------------
(* delete *)

Update(t) ==
    /\ pc[t] = "idle"
    /\ db < MaxVersion
    /\ db' = db + 1
    /\ outdated' = [outdated EXCEPT ![db] = 0]
    /\ Goto(t, "deleteLocal", None, None)
    /\ UNCHANGED <<caches, renewedAgo, carriers, deletes>>

DeleteLocal(t) ==
    /\ pc[t] = "deleteLocal"
    /\ local' = [local EXCEPT ![ServerOf[t]] = None]
    /\ Goto(t, "deleteRemote", None, None)
    /\ UNCHANGED <<db, remote, times, carriers, deletes>>

\* In the meantime someone may have put the data back into the local cache.
DeleteRemote(t) ==
    /\ pc[t] = "deleteRemote"
    /\ remote' = None
    /\ End(t)
    /\ deletedAt' = db
    /\ deletedBy' = ServerOf[t]
    /\ carriers' = {q \in Thread : Older(held[q], db) \/ (old[q] # None /\ old[q] < db)}
    /\ returned' = Older(local[ServerOf[t]], db)
    /\ UNCHANGED <<db, local, times>>

\* An exception of either cache ends delete where it is.
DeleteThrows(t) ==
    /\ pc[t] \in {"deleteLocal", "deleteRemote"}
    /\ End(t)
    /\ UNCHANGED <<db, caches, times, carriers, deletes>>

-----------------------------------------------------------------------------
(* The caches and time *)

\* Expiry or eviction.
LoseLocal(s) ==
    /\ local[s] # None
    /\ local' = [local EXCEPT ![s] = None]
    /\ UNCHANGED <<db, remote, pc, why, held, old, times, carriers, deletes>>

LoseRemote ==
    /\ remote # None
    /\ remote' = None
    /\ UNCHANGED <<db, local, pc, why, held, old, times, carriers, deletes>>

Aged(c) ==
    IF c # None /\ c.life > 0 THEN [c EXCEPT !.life = c.life - 1] ELSE c

Tick ==
    /\ \A t \in Thread : pc[t] = "loading" => held[t].life > 0
    /\ remote' = Aged(remote)
    /\ local' = [s \in Server |-> Kept(Aged(local[s]))]
    /\ held' = [t \in Thread |-> Aged(held[t])]
    /\ outdated' = [v \in Version |->
                      IF v < db /\ outdated[v] < MaxOutdated
                      THEN outdated[v] + 1 ELSE outdated[v]]
    /\ renewedAgo' = IF renewedAgo < RenewExpire THEN renewedAgo + 1 ELSE renewedAgo
    /\ UNCHANGED <<db, pc, why, old, carriers, deletes>>

Next ==
    \/ \E t \in Thread \ Writer :
          \/ \E reason \in {"get", "mget", "poll"} :
                GetLocal(t, reason) \/ AskRemote(t, reason)
          \/ GetRemote(t) \/ GetRemoteThrows(t) \/ Refill(t)
          \/ Load(t) \/ LoadThrows(t) \/ BuildCacheWrapper(t)
          \/ SetLocal(t) \/ SetRemote(t)
    \/ \E t \in Writer :
          Update(t) \/ DeleteLocal(t) \/ DeleteRemote(t) \/ DeleteThrows(t)
    \/ \E s \in Server : LoseLocal(s)
    \/ LoseRemote
    \/ Tick

Spec == Init /\ [][Next]_vars

-----------------------------------------------------------------------------
(* Properties *)

Fresh(c) ==
    Live(c) /\ c.v < db =>
        outdated[c.v] <= Expire + LoadTime \/ renewedAgo < RenewExpire

\* What @Cache.expire promises, over two levels of caches and all servers: no cache
\* has a copy that is not expired of data the database replaced longer ago than
\* expire, and what a load may take; unless a load has failed and old data was renewed
\* (RefreshHandler.java:171, AutoLoadHandler.java:394), and then only until what a
\* renewal gives has passed since the last one.  Moving a copy from cache to cache,
\* polling it, or keeping it in hand between two steps does not make it younger.
BoundedStaleness ==
    /\ Fresh(remote)
    /\ \A s \in Server : Fresh(local[s])

\* After a delete nothing older is in the remote cache, nor in the local cache of
\* the server that deleted, but what was put back between the two deletions of
\* ComboCacheManager.delete, and what a thread wrote that had it in hand then, or
\* has found it since in the local cache of another server: as a RefreshTask whose
\* load fails, or a first request that polls.  Auto-load threads do not find it there
\* (ComboCacheManager.java:103), and no hit alone brings it back.
OnlyCarriersBringItBack ==
    ~returned => /\ ~Older(remote, deletedAt)
                 /\ ~Older(local[deletedBy], deletedAt)
=============================================================================

------------------------------ MODULE RedisLock ------------------------------
(***************************************************************************)
(* AbstractRedisLock: one key of the distributed lock, the threads that    *)
(* try it, and the Redis server.  tryLock is SET key OK NX EX lockExpire;  *)
(* the owner remembers in a thread-local when the reply came; unlock sends *)
(* DEL, whoever the key belongs to by now, unless the owner's own clock    *)
(* says that the lease is over.                                            *)
(*                                                                         *)
(* Time is counted down: ttl is what is left of the key on the server,     *)
(* useTime what the owner's clock has counted since the reply.  The reply   *)
(* OK and a DEL are under way for at most NetDelay ticks, a SET for as     *)
(* long as it likes.                                                       *)
(***************************************************************************)
EXTENDS Naturals

CONSTANTS
    Client,     \* threads of all servers
    LeaseTime,  \* RedisLockInfo.leaseTime, in ticks
    NetDelay,   \* how many ticks an OK or a DEL may take
    Nobody        \* no owner

ASSUME ClientAssumption == Nobody \notin Client
ASSUME LeaseAssumption  == LeaseTime \in Nat \ {0}
ASSUME DelayAssumption  == NetDelay \in Nat

VARIABLES
    ttl,      \* what is left of the key's expiry, 0 when it does not exist
    owner,    \* whose SET made the key: the server does not know it
    pc,       \* each client: idle, or between two of its steps
    useTime,  \* System.currentTimeMillis() - info.getStartTime(), see Tick
    lease,    \* what is left of the lease the server gave the client
    delay,    \* how long the OK or the DEL has been under way
    releasedLate \* history: an owner sent its DEL near the end of its lease, and
                 \* since then the key was not given away with nobody else at it

lockVars == <<ttl, owner, pc, useTime, lease, delay, releasedLate>>

\* The server's OK is on its way to the client, or the client's DEL to the server.
Underway == {"granted", "deleting"}

LockTypeOK ==
    /\ ttl \in 0 .. LeaseTime
    /\ owner \in Client \cup {Nobody}
    /\ pc \in [Client -> Underway \cup {"idle", "trying", "holding"}]
    /\ useTime \in [Client -> 0 .. LeaseTime]
    /\ lease \in [Client -> 0 .. LeaseTime]
    /\ delay \in [Client -> 0 .. NetDelay]
    /\ releasedLate \in BOOLEAN
    /\ owner = Nobody <=> ttl = 0

LockInit ==
    /\ ttl = 0
    /\ owner = Nobody
    /\ pc = [c \in Client |-> "idle"]
    /\ useTime = [c \in Client |-> 0]
    /\ lease = [c \in Client |-> 0]
    /\ delay = [c \in Client |-> 0]
    /\ releasedLate = FALSE

-----------------------------------------------------------------------------
Goto(c, where) ==
    /\ pc' = [pc EXCEPT ![c] = where]
    /\ delay' = [delay EXCEPT ![c] = 0]

TryLock(c) ==
    /\ pc[c] = "idle"
    /\ Goto(c, "trying")
    /\ UNCHANGED <<ttl, owner, useTime, lease, releasedLate>>

\* Inside: between the two ends of a lock's use, and within the lease the
\* server gave for it.
Inside(c) == pc[c] \in {"granted", "holding"} /\ lease[c] > 0

\* The server gives the key to c, for a while.
Grant(c) ==
    /\ ttl' = LeaseTime
    /\ owner' = c
    /\ lease' = [lease EXCEPT ![c] = LeaseTime]
    /\ releasedLate' = (releasedLate /\ \E d \in Client : Inside(d) \/ pc[d] = "deleting")

\* By c's clock its lease is not over, but the OK may have come so late, and DEL may
\* take so long, that the key is another client's when DEL arrives.
Late(c) == useTime[c] < LeaseTime /\ useTime[c] + NetDelay + NetDelay >= LeaseTime

\* Variants of SetNx and Unlock that the properties must notice.
SetNxLonger(c) ==      \* a lease longer than what the owner counts
    /\ pc[c] = "trying"
    /\ ttl = 0
    /\ ttl' = LeaseTime + 1
    /\ owner' = c
    /\ lease' = [lease EXCEPT ![c] = LeaseTime]
    /\ Goto(c, "granted")
    /\ UNCHANGED <<useTime, releasedLate>>

SetNxProlongs(c) ==    \* the expiry is set whether or not the key existed
    /\ pc[c] = "trying"
    /\ IF ttl = 0
       THEN Grant(c) /\ Goto(c, "granted")
       ELSE ttl' = LeaseTime /\ Goto(c, "idle") /\ UNCHANGED <<owner, lease, releasedLate>>
    /\ UNCHANGED useTime

UnlockAlways(c) ==     \* no comparison with the lease time
    /\ pc[c] = "holding"
    /\ Goto(c, "deleting")
    /\ releasedLate' = (releasedLate \/ Late(c))
    /\ UNCHANGED <<ttl, owner, useTime, lease>>

\* The server executes SET NX EX: OK, or nil and tryLock returns false.
SetNx(c) ==
    /\ pc[c] = "trying"
    /\ IF ttl = 0
       THEN Grant(c) /\ Goto(c, "granted")
       ELSE Goto(c, "idle") /\ UNCHANGED <<ttl, owner, lease, releasedLate>>
    /\ UNCHANGED useTime

\* The connection breaks: before or after the server executed SET, tryLock
\* throws and the client loads its data without a lock of its own.
SetNxThrows(c) ==
    /\ pc[c] = "trying"
    /\ \/ UNCHANGED <<ttl, owner, lease, releasedLate>>
       \/ ttl = 0 /\ Grant(c)
    /\ Goto(c, "idle")
    /\ UNCHANGED useTime

\* The reply is there: startTime is taken now, not when the lease began.
Locked(c) ==
    /\ pc[c] = "granted"
    /\ useTime' = [useTime EXCEPT ![c] = 0]
    /\ Goto(c, "holding")
    /\ UNCHANGED <<ttl, owner, lease, releasedLate>>

Unlock(c) ==
    /\ pc[c] = "holding"
    /\ Goto(c, IF useTime[c] >= LeaseTime THEN "idle" ELSE "deleting")
    /\ releasedLate' = (releasedLate \/ Late(c))
    /\ UNCHANGED <<ttl, owner, useTime, lease>>

\* The server executes DEL, whoever owns the key.
Del(c) ==
    /\ pc[c] = "deleting"
    /\ ttl' = 0
    /\ owner' = Nobody
    /\ Goto(c, "idle")
    /\ UNCHANGED <<useTime, lease, releasedLate>>

\* DEL fails, which unlock ignores, or the owner's process dies.
GiveUp(c) ==
    /\ pc[c] \in {"granted", "holding", "deleting"}
    /\ Goto(c, "idle")
    /\ UNCHANGED <<ttl, owner, useTime, lease, releasedLate>>

-----------------------------------------------------------------------------
Less(n) == IF n = 0 THEN 0 ELSE n - 1

\* A millisecond or more passes, on the server and on every client alike.  A
\* client's count stops at LeaseTime, where unlock stops comparing.
Tick ==
    /\ \A c \in Client : pc[c] \in Underway => delay[c] < NetDelay
    /\ ttl' = Less(ttl)
    /\ owner' = IF ttl' = 0 THEN Nobody ELSE owner
    /\ useTime' = [c \in Client |->
                     IF pc[c] = "holding" /\ useTime[c] < LeaseTime
                     THEN useTime[c] + 1 ELSE useTime[c]]
    /\ lease' = [c \in Client |-> Less(lease[c])]
    /\ delay' = [c \in Client |->
                   IF pc[c] \in Underway THEN delay[c] + 1 ELSE 0]
    /\ UNCHANGED <<pc, releasedLate>>

LockNext ==
    \/ \E c \in Client :
          \/ TryLock(c) \/ SetNx(c) \/ SetNxThrows(c) \/ Locked(c)
          \/ Unlock(c) \/ Del(c) \/ GiveUp(c)
    \/ Tick

LockSpec == LockInit /\ [][LockNext]_lockVars

\* OKs and DELs arrive and clocks advance.  Nobody has to unlock.
FairLockSpec ==
    /\ LockSpec
    /\ WF_lockVars(Tick)
    /\ \A c \in Client : WF_lockVars(Locked(c)) /\ WF_lockVars(Del(c))

-----------------------------------------------------------------------------
(* Properties *)

\* "Only exclusive locks are supported" (doc/lock.md:5): two clients are never both
\* inside.  The code does not keep this when a message takes any time at all: between
\* unlock's look at its clock (AbstractRedisLock.java:70) and the arrival of its DEL
\* (:76) the key may have become another client's, who then loses it to a third.
Exclusive ==
    \A c, d \in Client : Inside(c) /\ Inside(d) => c = d

\* The look at the clock makes it hold everywhere else, however long messages take:
\* nobody loses the lock to a DEL that was sent in good time, nor to an owner whose
\* load outlived the lease, a lost reply or a dead owner; and once a DEL was late, the
\* lock is exclusive again from the first time the key is given to a client with no
\* other inside and no DEL under way.
ExclusiveUnlessReleasedLate == ~releasedLate => Exclusive

\* Whoever dies or forgets to unlock, and however often others try meanwhile,
\* the key goes away.
LockGoesAway == ttl > 0 ~> ttl = 0
=============================================================================

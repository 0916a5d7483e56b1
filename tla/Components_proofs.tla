-------------------------- MODULE Components_proofs --------------------------
(***************************************************************************)
(* Three components that share nothing with each other: the Redis lock,    *)
(* @CacheDeleteTransactional and the admin page.  Each has an inductive    *)
(* invariant and theorems of its own, in its own section.                  *)
(***************************************************************************)
EXTENDS RedisLock, TransactionalDelete, AdminPage, TLAPS

-----------------------------------------------------------------------------
(***************************************************************************)
(* What RedisLock promises, for any clients, any lease and any delay.  The *)
(* owner's clock is behind the server's by what the OK took at most        *)
(* (ClocksAgree), so who releases in good time still has a lease when its  *)
(* DEL arrives, and with it the key (LeaseIsKey).  A late DEL breaks that, *)
(* until the key is given away with nobody else inside.                    *)
(***************************************************************************)

\* A lease that runs is the key's own expiry.
LeaseIsKey ==
    \A c \in Client :
        pc[c] \in {"granted", "holding", "deleting"} /\ lease[c] > 0 =>
            owner = c /\ ttl = lease[c]

\* The client's count and the server's differ by the time the OK took at most.
ClocksAgree ==
    \A c \in Client :
        /\ pc[c] = "granted" => lease[c] + delay[c] >= LeaseTime
        /\ pc[c] = "holding" => useTime[c] + lease[c] + NetDelay >= LeaseTime

\* A DEL arrives before the lease is over.
DelsInTime == \A c \in Client : pc[c] = "deleting" => lease[c] + delay[c] > NetDelay

LockIInv ==
    /\ LockTypeOK
    /\ ClocksAgree
    /\ ~releasedLate => LeaseIsKey /\ DelsInTime

-----------------------------------------------------------------------------
\* Whatever the delays: the key never outlives the lease time.
THEOREM LockTypeCorrect == LockSpec => []LockTypeOK
<1> DEFINE Rest ==
             /\ ttl \in 0 .. LeaseTime
             /\ owner \in Client \cup {Nobody}
             /\ pc \in [Client -> Underway \cup {"idle", "trying", "holding"}]
             /\ useTime \in [Client -> 0 .. LeaseTime]
             /\ lease \in [Client -> 0 .. LeaseTime]
             /\ delay \in [Client -> 0 .. NetDelay]
             /\ owner = Nobody <=> ttl = 0
<1>1. LockTypeOK <=> Rest /\ releasedLate \in BOOLEAN
  BY DEF LockTypeOK
<1>2. LockInit => releasedLate \in BOOLEAN
  BY DEF LockInit
<1>3. LockInit => Rest
  BY ClientAssumption, LeaseAssumption, DelayAssumption DEF LockInit
<1>4. ASSUME LockTypeOK, [LockNext]_lockVars PROVE releasedLate' \in BOOLEAN
  BY <1>1, <1>4
     DEF LockNext, lockVars, TryLock, SetNx, SetNxThrows, Grant, Locked, Unlock, Del,
         GiveUp, Tick
<1>5. ASSUME LockTypeOK, [LockNext]_lockVars PROVE Rest'
  <2>0. Rest
    BY <1>1, <1>5
  <2> USE ClientAssumption, LeaseAssumption, DelayAssumption DEF Underway, Goto, Grant
  <2>1. ASSUME NEW c \in Client, TryLock(c) \/ Locked(c) PROVE Rest'
    BY <2>0, <2>1 DEF TryLock, Locked
  <2>2. ASSUME NEW c \in Client, SetNx(c) PROVE Rest'
    BY <2>0, <2>2 DEF SetNx
  <2>3. ASSUME NEW c \in Client, SetNxThrows(c) PROVE Rest'
    BY <2>0, <2>3 DEF SetNxThrows
  <2>4. ASSUME NEW c \in Client, Unlock(c) \/ Del(c) \/ GiveUp(c) PROVE Rest'
    BY <2>0, <2>4 DEF Unlock, Del, GiveUp
  <2>5. CASE Tick
    BY <2>0, <2>5 DEF Tick, Less
  <2>6. CASE UNCHANGED lockVars
    BY <2>0, <2>6 DEF lockVars
  <2>7. QED
    BY <1>5, <2>1, <2>2, <2>3, <2>4, <2>5, <2>6 DEF LockNext
<1>6. LockTypeOK /\ [LockNext]_lockVars => LockTypeOK'
  <2> SUFFICES ASSUME LockTypeOK, [LockNext]_lockVars PROVE LockTypeOK'
    OBVIOUS
  <2>1. Rest' /\ releasedLate' \in BOOLEAN
    BY <1>4, <1>5
  <2>2. QED
    BY <2>1 DEF LockTypeOK
<1>7. QED
  BY <1>1, <1>2, <1>3, <1>6, PTL DEF LockSpec

\* Every step keeps leases and clocks in agreement.
LEMMA LeaseStep ==
    ASSUME LockIInv, LockTypeOK', [LockNext]_lockVars
    PROVE  ClocksAgree' /\ (~releasedLate => LeaseIsKey /\ DelsInTime)'
<1> DEFINE Goal == ClocksAgree' /\ (~releasedLate => LeaseIsKey /\ DelsInTime)'
<1> USE ClientAssumption, LeaseAssumption, DelayAssumption
    DEF LockIInv, LockTypeOK, LeaseIsKey, ClocksAgree, DelsInTime, Underway, Goto, Grant
<1>1. ASSUME NEW c \in Client, TryLock(c) \/ Locked(c) PROVE Goal
  BY <1>1 DEF TryLock, Locked
<1>2. ASSUME NEW c \in Client, SetNx(c) PROVE Goal
  BY <1>2 DEF SetNx, Inside
<1>3. ASSUME NEW c \in Client, SetNxThrows(c) PROVE Goal
  BY <1>3 DEF SetNxThrows, Inside
<1>4. ASSUME NEW c \in Client, Unlock(c) PROVE Goal
  \* Who is not late has more of its lease left than the DEL will take.
  <2>1. CASE Late(c)
    BY <1>4, <2>1 DEF Unlock, Late
  <2>2. CASE ~Late(c)
    BY <1>4, <2>2 DEF Unlock, Late
  <2>3. QED
    BY <2>1, <2>2
<1>5. ASSUME NEW c \in Client, GiveUp(c) PROVE Goal
  BY <1>5 DEF GiveUp
<1>6. ASSUME NEW c \in Client, Del(c) PROVE Goal
  \* The key is c's: nobody else has a lease that runs and would lose it.
  <2>1. ~releasedLate => owner = c
    BY <1>6 DEF Del
  <2>2. QED
    BY <1>6, <2>1 DEF Del
<1>7. CASE Tick
  <2>1. (~releasedLate => LeaseIsKey)'
    BY <1>7 DEF Tick, Less
  <2>2. ClocksAgree' /\ (~releasedLate => DelsInTime)'
    BY <1>7 DEF Tick, Less
  <2>3. QED
    BY <2>1, <2>2
<1>8. CASE UNCHANGED lockVars
  BY <1>8 DEF lockVars
<1>9. QED
  BY <1>1, <1>2, <1>3, <1>4, <1>5, <1>6, <1>7, <1>8 DEF LockNext

\* The invariant of the lock holds always.
LEMMA LockInvariantHolds == LockSpec => []LockIInv
<1>1. LockInit => ClocksAgree /\ (~releasedLate => LeaseIsKey /\ DelsInTime)
  BY DEF LockInit, LeaseIsKey, ClocksAgree, DelsInTime
<1>2. LockIInv /\ LockTypeOK' /\ [LockNext]_lockVars
        => ClocksAgree' /\ (~releasedLate => LeaseIsKey /\ DelsInTime)'
  BY LeaseStep
<1>3. QED
  BY <1>1, <1>2, LockTypeCorrect, PTL DEF LockSpec, LockIInv

\* However long messages take, two clients are inside only after a DEL that was sent
\* near the end of a lease, and no longer than until the key is next given to a client
\* with nobody else at it: a lease that runs out during a load, a lost reply, a dead
\* owner and all other DELs leave the lock exclusive (AbstractRedisLock.java:49-79).
THEOREM ExclusiveButForLateDels == LockSpec => []ExclusiveUnlessReleasedLate
<1>1. LockIInv => ExclusiveUnlessReleasedLate
  BY DEF LockIInv, LeaseIsKey, ExclusiveUnlessReleasedLate, Exclusive, Inside
<1>2. QED
  BY <1>1, LockInvariantHolds, PTL

\* Owners release the lock so early that the OK and the DEL both have time to arrive
\* within the lease, or so late that unlock leaves the key alone.
ReleasedInTime ==
    \A c \in Client :
        Unlock(c) => useTime[c] + NetDelay + NetDelay < LeaseTime \/ useTime[c] >= LeaseTime

\* So an application is safe whose loads end before the lease time less twice the
\* delay, or else outlast it by the owner's clock: its lock is as exclusive as
\* doc/lock.md says.
THEOREM ExclusiveIfReleasedInTime ==
    LockSpec /\ [][ReleasedInTime]_lockVars => []Exclusive
<1>1. LockInit => ~releasedLate
  BY DEF LockInit
<1>2. LockTypeOK /\ ~releasedLate /\ [LockNext]_lockVars /\ [ReleasedInTime]_lockVars
        => ~releasedLate'
  <2> SUFFICES ASSUME LockTypeOK, ~releasedLate, [LockNext]_lockVars, [ReleasedInTime]_lockVars
               PROVE  ~releasedLate'
    OBVIOUS
  <2>1. ASSUME NEW c \in Client, Unlock(c) PROVE ~releasedLate'
    <3>1. pc'[c] # pc[c]
      BY <2>1 DEF Unlock, Goto, LockTypeOK
    <3>2. ~Late(c)
      BY <2>1, <3>1, LeaseAssumption, DelayAssumption
         DEF ReleasedInTime, lockVars, Late, LockTypeOK
    <3>3. QED
      BY <2>1, <3>2 DEF Unlock
  <2>2. QED
    BY <2>1 DEF LockNext, lockVars, TryLock, SetNx, SetNxThrows, Grant, Locked, Del,
                GiveUp, Tick
<1>3. ~releasedLate /\ ExclusiveUnlessReleasedLate => Exclusive
  BY DEF ExclusiveUnlessReleasedLate
<1>4. QED
  BY <1>1, <1>2, <1>3, LockTypeCorrect, ExclusiveButForLateDels, PTL DEF LockSpec

-----------------------------------------------------------------------------
(***************************************************************************)
(* What TransactionalDelete promises, for any threads and keys and any     *)
(* depth of nesting.  The key of the argument: the call that made a        *)
(* thread's set is the outermost one (isStart is {1}), so a set that was   *)
(* found at rest -- a thread that gave up -- has no such call for ever.    *)
(***************************************************************************)

\* The outermost call, and no other, will take the set down again.
OutermostOwnsTheSet ==
    \A t \in Thread :
        /\ t \notin gaveUp /\ depth[t] = 0 => ~IsOnTransactional(t)
        /\ t \notin gaveUp /\ depth[t] > 0 => isStart[t] = {1}
        /\ t \in gaveUp => isStart[t] = {}

\* A thread inside a call has a set; a thread outside has no call's settings.
SetWhileInside ==
    \A t \in Thread :
        /\ depth[t] > 0 \/ t \in gaveUp => IsOnTransactional(t)
        /\ depth[t] = 0 => isStart[t] = {} /\ opType[t] = None

IInv == TypeOK /\ OutermostOwnsTheSet /\ SetWhileInside /\ KeysRemembered

-----------------------------------------------------------------------------
\* At the start no thread is inside a call.
LEMMA InitIInv == Init => IInv
BY NoneAssumption, DepthAssumption
   DEF Init, IInv, TypeOK, OutermostOwnsTheSet, SetWhileInside, KeysRemembered,
       IsOnTransactional, Level

\* Every step keeps the state well-formed.
LEMMA TypeStep == IInv /\ [Next]_vars => TypeOK'
<1> SUFFICES ASSUME IInv, [Next]_vars PROVE TypeOK'
  OBVIOUS
<1> USE DepthAssumption, NoneAssumption DEF IInv, TypeOK, Level
<1>1. ASSUME NEW t \in Thread, NEW u \in BOOLEAN, NEW e \in BOOLEAN, Begin(t, u, e)
      PROVE  TypeOK'
  BY <1>1 DEF Begin
<1>2. ASSUME NEW t \in Thread, NEW k \in Key, DeleteCache(t, k) PROVE TypeOK'
  BY <1>2 DEF DeleteCache, IsOnTransactional
<1>3. ASSUME NEW t \in Thread, NEW k \in Key, Read(t, k) PROVE TypeOK'
  BY <1>3 DEF Read
<1>4. ASSUME NEW t \in Thread, EndNested(t) PROVE TypeOK'
  BY <1>4 DEF EndNested, Leave
<1>5. ASSUME NEW t \in Thread, EndStart(t) PROVE TypeOK'
  BY <1>5 DEF EndStart, Leave, ClearCache
<1>6. ASSUME NEW t \in Thread, EndStartOnError(t) PROVE TypeOK'
  BY <1>6 DEF EndStartOnError, Leave
<1>7. CASE UNCHANGED vars
  BY <1>7 DEF vars
<1>8. QED
  BY <1>1, <1>2, <1>3, <1>4, <1>5, <1>6, <1>7 DEF Next

\* The call that ends by deleting is the outermost one.
LEMMA StartIsOutermost ==
    ASSUME IInv, NEW t \in Thread, depth[t] > 0, depth[t] \in isStart[t]
    PROVE  depth[t] = 1 /\ t \notin gaveUp /\ keySet[t] \in SUBSET Key
BY NoneAssumption
   DEF IInv, TypeOK, OutermostOwnsTheSet, SetWhileInside, IsOnTransactional

\* Every step keeps the sets with their owners, and the keys in them.
LEMMA OwnershipStep ==
    IInv /\ [Next]_vars => OutermostOwnsTheSet' /\ SetWhileInside' /\ KeysRemembered'
<1> DEFINE Goal == OutermostOwnsTheSet' /\ SetWhileInside' /\ KeysRemembered'
<1> SUFFICES ASSUME IInv, [Next]_vars PROVE Goal
  OBVIOUS
<1> USE DepthAssumption, NoneAssumption
    DEF IInv, TypeOK, Level, OutermostOwnsTheSet, SetWhileInside, KeysRemembered,
        IsOnTransactional
<1>1. ASSUME NEW t \in Thread, NEW u \in BOOLEAN, NEW e \in BOOLEAN, Begin(t, u, e)
      PROVE  Goal
  BY <1>1 DEF Begin
<1>2. ASSUME NEW t \in Thread, NEW k \in Key, DeleteCache(t, k) PROVE Goal
  BY <1>2 DEF DeleteCache
<1>3. ASSUME NEW t \in Thread, NEW k \in Key, Read(t, k) PROVE Goal
  BY <1>3 DEF Read
<1>4. ASSUME NEW t \in Thread, EndNested(t) PROVE Goal
  BY <1>4 DEF EndNested, Leave
<1>5. ASSUME NEW t \in Thread, EndStart(t) PROVE Goal
  <2>1. depth[t] = 1 /\ t \notin gaveUp
    BY <1>5, StartIsOutermost DEF EndStart, Leave
  <2>2. QED
    BY <1>5, <2>1 DEF EndStart, Leave, ClearCache
<1>6. ASSUME NEW t \in Thread, EndStartOnError(t) PROVE Goal
  <2>1. depth[t] = 1 /\ t \notin gaveUp /\ keySet[t] \in SUBSET Key
    BY <1>6, StartIsOutermost DEF EndStartOnError, Leave
  <2>2. QED
    BY <1>6, <2>1 DEF EndStartOnError, Leave
<1>7. CASE UNCHANGED vars
  BY <1>7 DEF vars
<1>8. QED
  BY <1>1, <1>2, <1>3, <1>4, <1>5, <1>6, <1>7 DEF Next

\* The invariant of the deletes holds always.
LEMMA InvariantHolds == Spec => []IInv
<1>1. IInv /\ [Next]_vars => IInv'
  BY TypeStep, OwnershipStep DEF IInv
<1>2. QED
  BY InitIInv, <1>1, PTL DEF Spec

-----------------------------------------------------------------------------
\* The thread-locals and the cache stay well-formed, whatever nests or fails.
THEOREM TypeCorrect == Spec => []TypeOK
<1>1. IInv => TypeOK
  BY DEF IInv
<1>2. QED
  BY InvariantHolds, <1>1, PTL

\* No nested or failed call makes a thread forget a key it collected.
THEOREM KeysKept == Spec => []KeysRemembered
<1>1. IInv => KeysRemembered
  BY DEF IInv
<1>2. QED
  BY InvariantHolds, <1>1, PTL

\* Threads that never kept the keys of a failed call are clean at rest: nothing
\* is owed, and neither thread-local is set (CacheHandler.java:365, 393).
THEOREM CleanAtRest == Spec => []CleanUnlessGivenUp
<1>1. IInv => CleanUnlessGivenUp
  BY DEF IInv, OutermostOwnsTheSet, SetWhileInside, KeysRemembered,
         CleanUnlessGivenUp
<1>2. QED
  BY InvariantHolds, <1>1, PTL

\* Nothing leaves the cache for a thread that is still inside a transaction
\* (CacheHandler.java:341).
THEOREM DeletesAtTheEnd == Spec => DeletesOnlyAtTheEnd
<1> DEFINE A == \A k \in cached \ cached' :
                  \E t \in Thread :
                      /\ depth'[t] = 0
                      /\ depth[t] = 0 \/ (depth[t] = 1 /\ k \in keySet[t])
<1>1. ASSUME IInv, [Next]_vars PROVE [A]_vars
  <2> SUFFICES ASSUME NEW k \in cached, k \notin cached'
               PROVE  \E t \in Thread :
                          /\ depth'[t] = 0
                          /\ depth[t] = 0 \/ (depth[t] = 1 /\ k \in keySet[t])
    OBVIOUS
  <2>1. ASSUME NEW t \in Thread, NEW j \in Key, DeleteCache(t, j)
        PROVE  depth'[t] = 0 /\ depth[t] = 0
    BY <1>1, <2>1 DEF DeleteCache, IInv, TypeOK, SetWhileInside
  <2>2. ASSUME NEW t \in Thread, EndStart(t)
        PROVE  depth'[t] = 0 /\ depth[t] = 1 /\ k \in keySet[t]
    <3>1. depth[t] = 1
      BY <1>1, <2>2, StartIsOutermost DEF EndStart, Leave
    <3>2. QED
      BY <1>1, <2>2, <3>1 DEF EndStart, Leave, ClearCache, IInv, TypeOK
  <2>3. CASE UNCHANGED vars
    BY <2>3 DEF vars
  <2>4. ASSUME NEW t \in Thread,
               \/ \E u \in BOOLEAN, e \in BOOLEAN : Begin(t, u, e)
               \/ \E j \in Key : Read(t, j)
               \/ EndNested(t) \/ EndStartOnError(t)
        PROVE  cached \subseteq cached'
    BY <2>4 DEF Begin, Read, EndNested, EndStartOnError
  <2>5. QED
    BY <1>1, <2>1, <2>2, <2>3, <2>4 DEF Next
<1>2. QED
  BY InvariantHolds, <1>1, PTL DEF Spec, DeletesOnlyAtTheEnd

-----------------------------------------------------------------------------
(***************************************************************************)
(* What the admin page promises, for any items and presses and any number  *)
(* of requests.  What OK would post is kept with the place of its choice,  *)
(* which is later than all those posted (NextToPost); a request that will  *)
(* make the list new is under way whenever the list is old, unless an      *)
(* answer was lost (RenewalUnderWay); a question for arguments that did not *)
(* overlap another is the only one under way (OnlyQuestion).               *)
(***************************************************************************)

\* What may be under way.
Requests ==
    [kind : {"list"}, choice : {Nothing},
     reply : {Nothing} \union [rows : SUBSET Item, version : 0 .. version]]
    \union [kind : {"post"}, choice : Choice, reply : {Nothing} \union BOOLEAN]
    \union [kind : {"args"}, choice : [item : Item, action : {"showArgs"}],
            reply : {Nothing} \union BOOLEAN]

RequestsMakeSense == BagToSet(requests) \subseteq Requests

\* The confirmation is shown once for a choice: it is visible, or still to come, or
\* it waits, and nothing waits for a page without a dialog.
OneConfirmation ==
    /\ "confirm" \in visible => "confirm" \notin due \union waiting
    /\ "confirm" \in due => "confirm" \notin waiting
    /\ waiting # {} => open

\* An OK may still be pressed.
Armed == "confirm" \in visible \union due \union waiting

\* The choices posted so far, f, and the one that OK would post, which came later.
NextToPost ==
    \E f \in [DOMAIN posted -> DOMAIN pressed] :
        /\ \A m, n \in DOMAIN posted : m < n => f[m] < f[n]
        /\ \A n \in DOMAIN posted : posted[n] = AsPosted(pressed[f[n]])
        /\ Armed => /\ current \in Choice
                    /\ \E p \in DOMAIN pressed :
                         /\ pressed[p] = current
                         /\ \A n \in DOMAIN posted : f[n] < p

\* A request that will make the list show what the user's own operations did.
Renews(r) ==
    \/ r.kind = "post" /\ r.reply = TRUE
    \/ r.kind = "list" /\ (r.reply = Nothing \/ r.reply.version >= done)

RenewalUnderWay ==
    items.version >= done \/ outdated \/ \E r \in BagToSet(requests) : Renews(r)

\* The only question for arguments under way is the last one.
OnlyQuestion ==
    ~mixed => IF UnderWay("args")
              THEN \A r \in BagToSet(requests) : r.kind = "args" =>
                     /\ r.choice.item = asked /\ requests[r] = 1
                     /\ \A q \in BagToSet(requests) : q.kind = "args" => q = r
              ELSE args = asked

PageIInv ==
    /\ PageTypeOK
    /\ RequestsMakeSense
    /\ OneConfirmation
    /\ NextToPost
    /\ RenewalUnderWay
    /\ OnlyQuestion

-----------------------------------------------------------------------------
(* The requests under way *)

\* One more request.
LEMMA Sent ==
    ASSUME NEW B, IsABag(B), NEW r
    PROVE  /\ IsABag(Send(B, r)) /\ BagToSet(Send(B, r)) = BagToSet(B) \union {r}
           /\ \A x \in BagToSet(Send(B, r)) :
                Send(B, r)[x] = (IF x \in BagToSet(B) THEN B[x] ELSE 0) + (IF x = r THEN 1 ELSE 0)
<1> DEFINE S == Send(B, r)
<1>1. BagToSet(S) = BagToSet(B) \union {r}
  BY DEF Send, (+), SetToBag, BagToSet
<1>2. \A x \in BagToSet(S) :
        S[x] = (IF x \in BagToSet(B) THEN B[x] ELSE 0) + (IF x = r THEN 1 ELSE 0)
  BY DEF Send, (+), SetToBag, BagToSet
<1>3. \A x \in BagToSet(S) : S[x] \in {n \in Nat : n > 0}
  BY <1>1, <1>2 DEF IsABag, BagToSet
<1>4. S = [x \in DOMAIN S |-> S[x]]
  BY DEF Send, (+)
<1>5. IsABag(S)
  BY <1>3, <1>4 DEF IsABag, BagToSet
<1>6. QED
  BY <1>1, <1>2, <1>5

\* One request less: others stay, and so do its copies.
LEMMA Removed ==
    ASSUME NEW B, IsABag(B), NEW r \in BagToSet(B)
    PROVE  /\ IsABag(Remove(B, r))
           /\ BagToSet(Remove(B, r)) = IF B[r] = 1 THEN BagToSet(B) \ {r} ELSE BagToSet(B)
           /\ \A x \in BagToSet(Remove(B, r)) : x # r => Remove(B, r)[x] = B[x]
<1> DEFINE S == Remove(B, r)
           L == [x \in DOMAIN B |-> IF x = r THEN B[x] - 1 ELSE B[x]]
<1>1. \A x \in DOMAIN B : B[x] \in Nat /\ B[x] > 0
  BY DEF IsABag
<1>2. S = [x \in {y \in DOMAIN L : L[y] > 0} |-> L[x]]
  BY DEF Remove, (-), SetToBag
<1>3. \A x \in DOMAIN B : L[x] > 0 <=> ~(x = r /\ B[r] = 1)
  BY <1>1
<1>4. DOMAIN S = IF B[r] = 1 THEN DOMAIN B \ {r} ELSE DOMAIN B
  BY <1>2, <1>3 DEF BagToSet
<1>5. \A x \in DOMAIN S : S[x] = L[x] /\ L[x] \in Nat /\ L[x] > 0
  BY <1>1, <1>2 DEF BagToSet
<1>6. IsABag(S)
  BY <1>2, <1>5 DEF IsABag
<1>7. QED
  BY <1>2, <1>4, <1>5, <1>6 DEF BagToSet

\* What a request holds, by its kind.
LEMMA Held ==
    ASSUME RequestsMakeSense, NEW r \in BagToSet(requests)
    PROVE  /\ r.kind \in {"list", "post", "args"}
           /\ r = [kind |-> r.kind, choice |-> r.choice, reply |-> r.reply]
           /\ r.kind = "list" /\ r.reply # Nothing =>
                r.reply \in [rows : SUBSET Item, version : 0 .. version]
           /\ r.kind = "post" => r.choice \in Choice /\ r.reply \in {Nothing} \union BOOLEAN
           /\ r.kind = "args" => /\ r.choice \in [item : Item, action : {"showArgs"}]
                                 /\ r.reply \in {Nothing} \union BOOLEAN
BY DEF RequestsMakeSense, Requests

\* What is posted for a choice is a choice.
LEMMA PostedIsChoice ==
    ASSUME NEW c \in Choice
    PROVE  AsPosted(c) \in Choice
BY ItemAssumption DEF AsPosted, Choice

\* What a request becomes when it is answered.
LEMMA AnsweredIs ==
    ASSUME RequestsMakeSense, NEW r \in BagToSet(requests), NEW reply
    PROVE  [r EXCEPT !.reply = reply] = [kind |-> r.kind, choice |-> r.choice, reply |-> reply]
BY Held

\* Which requests a step leaves under way, at most.
LEMMA RequestsStep ==
    ASSUME PageTypeOK, RequestsMakeSense, NextToPost, [PageNext]_pageVars
    PROVE  /\ IsABag(requests')
           /\ BagToSet(requests') \subseteq Requests'
<1> USE DEF PageTypeOK
<1>0. version' \in Nat /\ version <= version'
  <2>1. ASSUME NEW r \in BagToSet(requests), Serve(r) PROVE version' = version \/ version' = version + 1
    BY <2>1 DEF Serve, ListAutoLoadVO, Operate, AnswerArgs, server
  <2>2. ASSUME NEW r \in BagToSet(requests), Receive(r) \/ HandleError(r) PROVE version' = version
    BY <2>2 DEF Receive, ShowList, AfterPost, ArgsArrive, HandleError, server
  <2>3. ASSUME NEW i \in Item, ShowArgs(i) \/ \E a \in Operation : ShowModal(i, a)
        PROVE  version' = version
    BY <2>3 DEF ShowModal, ShowArgs, server
  <2>4. ASSUME NEW d \in Dialog, Enter(d) \/ Dismiss(d) \/ AfterLeave(d) PROVE version' = version
    BY <2>4 DEF Enter, Dismiss, AfterLeave, server
  <2>5. ASSUME NEW i \in Item, Change(i) PROVE version' = version + 1
    BY <2>5 DEF Change
  <2>6. HandleOk \/ UNCHANGED pageVars => version' = version
    BY DEF HandleOk, pageVars, server
  <2>7. QED
    BY <2>1, <2>2, <2>3, <2>4, <2>5, <2>6 DEF PageNext
<1>1. Requests \subseteq Requests'
  <2>1. 0 .. version \subseteq 0 .. version'
    BY <1>0
  <2>2. QED
    BY <2>1 DEF Requests
<1>2. IsABag(requests) /\ BagToSet(requests) \subseteq Requests
  BY DEF RequestsMakeSense
<1>3. ASSUME NEW q \in Requests', requests' = Send(requests, q)
      PROVE  IsABag(requests') /\ BagToSet(requests') \subseteq Requests'
  BY <1>1, <1>2, <1>3, Sent
<1>4. ASSUME NEW r \in BagToSet(requests), requests' = Remove(requests, r)
      PROVE  IsABag(requests') /\ BagToSet(requests') \subseteq Requests'
  BY <1>1, <1>2, <1>4, Removed
<1>5. ASSUME NEW r \in BagToSet(requests), NEW q \in Requests', requests' = Send(Remove(requests, r), q)
      PROVE  IsABag(requests') /\ BagToSet(requests') \subseteq Requests'
  <2>1. IsABag(Remove(requests, r)) /\ BagToSet(Remove(requests, r)) \subseteq Requests
    BY <1>2, Removed
  <2>2. QED
    BY <1>1, <1>5, <2>1, Sent
<1>6. CASE HandleOk
  <2>1. current \in Choice
    BY <1>6 DEF HandleOk, Hide, NextToPost, Armed
  <2>2. Request("post", AsPosted(current)) \in Requests'
    BY <2>1, PostedIsChoice DEF Request, Requests
  <2>3. QED
    BY <1>3, <1>6, <2>2 DEF HandleOk
<1>7. ASSUME NEW i \in Item, ShowArgs(i)
      PROVE  IsABag(requests') /\ BagToSet(requests') \subseteq Requests'
  <2>1. Request("args", [item |-> i, action |-> "showArgs"]) \in Requests'
    BY DEF Request, Requests
  <2>2. QED
    BY <1>3, <1>7, <2>1 DEF ShowArgs
<1>8. ASSUME NEW r \in BagToSet(requests), Receive(r) \/ HandleError(r)
      PROVE  IsABag(requests') /\ BagToSet(requests') \subseteq Requests'
  <2>1. Request("list", Nothing) \in Requests'
    BY DEF Request, Requests
  <2>2. \/ requests' = Remove(requests, r)
        \/ requests' = Send(Remove(requests, r), Request("list", Nothing))
    BY <1>8 DEF Receive, HandleError, ShowList, AfterPost, ArgsArrive
  <2>3. QED
    BY <1>4, <1>5, <2>1, <2>2
<1>9. ASSUME NEW r \in BagToSet(requests), Serve(r)
      PROVE  IsABag(requests') /\ BagToSet(requests') \subseteq Requests'
  <2>1. PICK reply :
          /\ requests' = Send(Remove(requests, r), [r EXCEPT !.reply = reply])
          /\ \/ r.kind = "list" /\ reply = [rows |-> registered, version |-> version]
             \/ r.kind \in {"post", "args"} /\ reply \in BOOLEAN
    <3>1. CASE ListAutoLoadVO(r)
      BY <3>1 DEF ListAutoLoadVO, Answer
    <3>2. CASE Operate(r)
      <4>1. r.kind = "post" /\ (Answer(r, TRUE) \/ Answer(r, FALSE))
        BY <3>2 DEF Operate
      <4>2. QED
        BY <4>1 DEF Answer
    <3>3. CASE AnswerArgs(r)
      <4>1. r.kind = "args" /\ Answer(r, r.choice.item \in registered)
        BY <3>3 DEF AnswerArgs
      <4>2. (r.choice.item \in registered) \in BOOLEAN
        OBVIOUS
      <4>3. QED
        BY <4>1, <4>2 DEF Answer
    <3>4. QED
      BY <1>9, <3>1, <3>2, <3>3 DEF Serve
  <2>2. [r EXCEPT !.reply = reply] \in Requests'
    <3>1. [r EXCEPT !.reply = reply] = [kind |-> r.kind, choice |-> r.choice, reply |-> reply]
      BY AnsweredIs
    <3>2. CASE r.kind = "list"
      <4>1. reply \in [rows : SUBSET Item, version : 0 .. version']
        BY <1>0, <2>1, <3>2
      <4>2. r.choice = Nothing
        BY <3>2 DEF RequestsMakeSense, Requests
      <4>3. QED
        BY <3>1, <3>2, <4>1, <4>2 DEF Requests
    <3>3. CASE r.kind \in {"post", "args"}
      <4>1. reply \in BOOLEAN
        BY <2>1, <3>3
      <4>2. QED
        BY <3>1, <3>3, <4>1, Held DEF Requests
    <3>4. QED
      BY <3>2, <3>3, Held
  <2>3. QED
    BY <1>5, <2>1, <2>2
<1>10. ASSUME requests' = requests
       PROVE  IsABag(requests') /\ BagToSet(requests') \subseteq Requests'
  BY <1>1, <1>2, <1>10
<1>11. ASSUME NEW i \in Item, Change(i) \/ \E a \in Operation : ShowModal(i, a)
       PROVE  requests' = requests
  BY <1>11 DEF Change, ShowModal
<1>12. ASSUME NEW d \in Dialog, Enter(d) \/ Dismiss(d) \/ AfterLeave(d) PROVE requests' = requests
  BY <1>12 DEF Enter, Dismiss, AfterLeave
<1>13. CASE UNCHANGED pageVars
  BY <1>10, <1>13 DEF pageVars
<1>14. QED
  BY <1>6, <1>7, <1>8, <1>9, <1>10, <1>11, <1>12, <1>13 DEF PageNext

\* The page as it starts: the list has been asked for.
LEMMA PageInitIInv == PageInit => PageIInv
<1> SUFFICES ASSUME PageInit PROVE PageIInv
  OBVIOUS
<1> USE DEF PageInit
<1>1. IsABag(EmptyBag) /\ BagToSet(EmptyBag) = {}
  BY DEF IsABag, EmptyBag, SetToBag, BagToSet
<1>2. IsABag(requests) /\ BagToSet(requests) = {Request("list", Nothing)}
  BY <1>1, Sent
<1>3. PageTypeOK
  <2>1. pressed \in Seq([item : Item, action : Operation \union {"showArgs"}]) /\ posted \in Seq(Choice)
    OBVIOUS
  <2>2. \A r \in BagToSet(requests) : r.kind \in {"list", "post", "args"}
    BY <1>2 DEF Request
  <2>3. /\ registered \subseteq Item /\ version \in Nat /\ done \in 0 .. version
        /\ items.rows \subseteq Item /\ items.version \in 0 .. version
    OBVIOUS
  <2>4. \A x \in {alert, open, outdated, mixed} : x \in BOOLEAN
    OBVIOUS
  <2>5. QED
    BY <1>2, <2>1, <2>2, <2>3, <2>4 DEF PageTypeOK
<1>4. RequestsMakeSense
  BY <1>2 DEF RequestsMakeSense, Requests, Request
<1>5. OneConfirmation /\ RenewalUnderWay
  BY DEF OneConfirmation, RenewalUnderWay
<1>6. NextToPost
  <2>1. << >> \in [DOMAIN posted -> DOMAIN pressed] /\ DOMAIN posted = {} /\ ~Armed
    BY DEF Armed
  <2>2. QED
    BY <2>1 DEF NextToPost
<1>7. OnlyQuestion
  BY <1>2 DEF OnlyQuestion, UnderWay, Request
<1>8. QED
  BY <1>3, <1>4, <1>5, <1>6, <1>7 DEF PageIInv

\* What Show, of either dialog, leaves of them.
LEMMA ShowKeepsApart ==
    ASSUME PageTypeOK, NEW d \in Dialog, NEW soon \in BOOLEAN, Show(d, soon)
    PROVE  /\ visible' \union due' \union leaving' \union waiting' \subseteq Dialog
           /\ visible' \intersect leaving' = {} /\ open' \in BOOLEAN
<1>1. open \in BOOLEAN /\ visible \union due \union leaving \union waiting \subseteq Dialog
      /\ visible \intersect leaving = {}
  BY DEF PageTypeOK
<1>2. CASE d \in visible
  BY <1>1, <1>2 DEF Show, dialogs
<1>3. CASE d \notin visible
  <2>1. /\ visible' \subseteq {d} /\ due' \subseteq due \union {d}
        /\ leaving' \subseteq leaving \union visible /\ waiting' \subseteq waiting \union {d}
        /\ visible' \intersect leaving' = {}
    BY <1>3 DEF Show
  <2>2. open' = (open \/ soon)
    BY <1>3 DEF Show
  <2>3. QED
    BY <1>1, <2>1, <2>2
<1>4. QED
  BY <1>2, <1>3

\* Every step keeps the page well-formed.
LEMMA PageTypeStep == PageIInv /\ [PageNext]_pageVars => PageTypeOK' /\ RequestsMakeSense'
<1> DEFINE Goal == PageTypeOK'
<1> SUFFICES ASSUME PageIInv, [PageNext]_pageVars PROVE PageTypeOK' /\ RequestsMakeSense'
  OBVIOUS
<1>0. IsABag(requests') /\ BagToSet(requests') \subseteq Requests'
  BY RequestsStep DEF PageIInv
<1>a. \A r \in BagToSet(requests') : r.kind \in {"list", "post", "args"}
  BY <1>0 DEF Requests
<1>b. "confirm" \in Dialog /\ "args" \in Dialog /\ TRUE \in BOOLEAN /\ FALSE \in BOOLEAN
  BY DEF Dialog
<1> USE DEF PageIInv
<1>1. ASSUME NEW i \in Item, NEW a \in Operation, ShowModal(i, a) PROVE Goal
  <2>1. Show("confirm", FALSE)
    BY <1>1 DEF ShowModal
  <2>2. /\ visible' \union due' \union leaving' \union waiting' \subseteq Dialog
        /\ visible' \intersect leaving' = {} /\ open' \in BOOLEAN
    BY <1>b, <2>1, ShowKeepsApart
  <2>3. current' \in Choice
    BY <1>1 DEF ShowModal, Choice
  <2>4. QED
    BY <1>0, <1>a, <1>1, <2>2, <2>3 DEF PageTypeOK, ShowModal, server, Choice
<1>2. ASSUME NEW i \in Item, ShowArgs(i) PROVE Goal
  BY <1>0, <1>a, <1>2 DEF PageTypeOK, ShowArgs, server, dialogs, UnderWay
<1>3. ASSUME NEW i \in Item, Change(i) PROVE Goal
  BY <1>0, <1>a, <1>3 DEF PageTypeOK, Change, dialogs, history
<1>4. ASSUME HandleOk PROVE Goal
  <2>1. current \in Choice
    BY <1>4 DEF HandleOk, Hide, NextToPost, Armed
  <2>2. AsPosted(current) \in Choice
    BY <2>1, PostedIsChoice
  <2>3. posted' \in Seq(Choice)
    BY <1>4, <2>2 DEF PageTypeOK, HandleOk
  <2>4. /\ visible' \union due' \union leaving' \union waiting' \subseteq Dialog
        /\ visible' \intersect leaving' = {} /\ open' = open
    BY <1>b, <1>4 DEF PageTypeOK, HandleOk, Hide
  <2>5. UNCHANGED <<registered, version, items, args, alert, current, pressed, done, outdated, asked, mixed>>
    BY <1>4 DEF HandleOk, server
  <2>6. QED
    BY <1>0, <1>a, <2>3, <2>4, <2>5 DEF PageTypeOK
<1>5. ASSUME NEW d \in Dialog, Enter(d) \/ Dismiss(d) PROVE Goal
  BY <1>0, <1>a, <1>5 DEF PageTypeOK, Enter, Dismiss, Hide, server, history
<1>6. ASSUME NEW d \in Dialog, AfterLeave(d) PROVE Goal
  BY <1>0, <1>a, <1>6 DEF PageTypeOK, AfterLeave, server, history
<1>7. ASSUME NEW r \in BagToSet(requests), r.kind = "list", r.reply # Nothing, ShowList(r) PROVE Goal
  <2>1. r.reply \in [rows : SUBSET Item, version : 0 .. version]
    BY <1>7, Held
  <2>2. QED
    BY <1>0, <1>a, <1>7, <2>1 DEF PageTypeOK, ShowList, server, dialogs
<1>8. ASSUME NEW r \in BagToSet(requests), AfterPost(r) PROVE Goal
  BY <1>0, <1>a, <1>8 DEF PageTypeOK, AfterPost, server, dialogs, history
<1>9. ASSUME NEW r \in BagToSet(requests), r.kind = "args", ArgsArrive(r) PROVE Goal
  <2>1. r.choice.item \in Item
    BY <1>9, Held
  <2>2. /\ visible' \union due' \union leaving' \union waiting' \subseteq Dialog
        /\ visible' \intersect leaving' = {} /\ open' \in BOOLEAN
    BY <1>b, <1>9, ShowKeepsApart DEF ArgsArrive
  <2>3. QED
    BY <1>0, <1>a, <1>9, <2>1, <2>2 DEF PageTypeOK, ArgsArrive, server, history
<1>10. ASSUME NEW r \in BagToSet(requests), HandleError(r) PROVE Goal
  BY <1>0, <1>a, <1>10 DEF PageTypeOK, HandleError, server, dialogs
<1>11. ASSUME NEW r \in BagToSet(requests), Serve(r) PROVE Goal
  <2>1. /\ registered' \subseteq Item /\ version' \in Nat /\ done' \in 0 .. version'
        /\ version <= version'
    <3>1. CASE UNCHANGED <<server, done>>
      BY <3>1 DEF PageTypeOK, server
    <3>2. CASE /\ registered' \in {registered, registered \ {r.choice.item}}
               /\ version' \in {version, version + 1} /\ done' = version'
      BY <3>2 DEF PageTypeOK
    <3>3. QED
      BY <1>11, <3>1, <3>2 DEF Serve, ListAutoLoadVO, Operate, AnswerArgs
  <2>2. UNCHANGED <<items, args, alert, current, dialogs, pressed, posted, outdated, asked, mixed>>
    BY <1>11 DEF Serve
  <2>3. QED
    BY <1>0, <1>a, <2>1, <2>2 DEF PageTypeOK, dialogs
<1>12. ASSUME UNCHANGED pageVars PROVE Goal
  <2>1. /\ UNCHANGED <<registered, version, items, args, alert, current, visible, due, leaving>>
        /\ UNCHANGED <<waiting, open, pressed, posted, done, outdated, asked, mixed>>
    BY <1>12 DEF pageVars, server, dialogs, history
  <2>2. QED
    BY <1>0, <1>a, <2>1 DEF PageTypeOK
<1>13. Goal
  BY <1>1, <1>2, <1>3, <1>4, <1>5, <1>6, <1>7, <1>8, <1>9, <1>10, <1>11, <1>12
     DEF PageNext, Receive
<1>14. QED
  BY <1>0, <1>13 DEF RequestsMakeSense

\* One confirmation per choice: no step shows it a second time.
LEMMA ConfirmationStep == PageIInv /\ [PageNext]_pageVars => OneConfirmation'
<1> DEFINE Goal == OneConfirmation'
<1> SUFFICES ASSUME PageIInv, [PageNext]_pageVars PROVE Goal
  OBVIOUS
<1>0. "confirm" # "args"
  OBVIOUS
<1> USE DEF PageIInv, OneConfirmation
<1>1. ASSUME NEW i \in Item, NEW a \in Operation, ShowModal(i, a) PROVE Goal
  BY <1>1 DEF ShowModal, CanPress, Show
<1>2. ASSUME NEW r, ArgsArrive(r) PROVE Goal
  <2>1. Show("args", TRUE)
    BY <1>2 DEF ArgsArrive
  <2>2. CASE "args" \in visible
    <3>1. UNCHANGED <<visible, due, waiting, open>>
      BY <2>1, <2>2 DEF Show, dialogs
    <3>2. QED
      BY <3>1
  <2>3. CASE "args" \notin visible
    <3>1. /\ visible' \subseteq {"args"} /\ due' = due
          /\ waiting' \subseteq waiting \union {"args"} /\ open' = TRUE
      BY <2>1, <2>3 DEF Show
    <3>2. QED
      BY <1>0, <3>1
  <2>4. QED
    BY <2>2, <2>3
<1>3. ASSUME NEW d \in Dialog, Enter(d) PROVE Goal
  BY <1>3 DEF Enter
<1>4. ASSUME NEW d \in Dialog, Hide(d) PROVE Goal
  BY <1>4 DEF Hide
<1>5. ASSUME NEW d \in Dialog, AfterLeave(d) PROVE Goal
  BY <1>5 DEF AfterLeave
<1>6. ASSUME UNCHANGED dialogs PROVE Goal
  BY <1>6 DEF dialogs
<1>7. HandleOk => Hide("confirm") /\ "confirm" \in Dialog
  BY DEF HandleOk, Dialog
<1>8. ASSUME NEW d \in Dialog, Dismiss(d) PROVE Hide(d)
  BY <1>8 DEF Dismiss
<1>9. ASSUME NEW i \in Item, ShowArgs(i) \/ Change(i) PROVE UNCHANGED dialogs
  BY <1>9 DEF ShowArgs, Change
<1>10. ASSUME NEW r, \/ ShowList(r) \/ AfterPost(r)
                     \/ HandleError(r) \/ Serve(r)
       PROVE  UNCHANGED dialogs
  BY <1>10 DEF ShowList, AfterPost, HandleError, Serve
<1>11. UNCHANGED pageVars => UNCHANGED dialogs
  BY DEF pageVars
<1>12. QED
  BY <1>1, <1>2, <1>3, <1>4, <1>5, <1>6, <1>7, <1>8, <1>9, <1>10, <1>11 DEF PageNext, Receive

\* A step that posts nothing and chooses nothing keeps the account of what was posted.
LEMMA NothingPosted ==
    ASSUME PageTypeOK, NextToPost, posted' = posted, current' = current, Armed' => Armed,
           \/ pressed' = pressed
           \/ \E c \in [item : Item, action : Operation \union {"showArgs"}] :
                pressed' = Append(pressed, c)
    PROVE  NextToPost'
<1>1. /\ DOMAIN pressed \subseteq DOMAIN pressed'
      /\ \A p \in DOMAIN pressed : pressed'[p] = pressed[p]
  <2>1. pressed \in Seq([item : Item, action : Operation \union {"showArgs"}])
    BY DEF PageTypeOK
  <2>2. CASE pressed' = pressed
    BY <2>2
  <2>3. ASSUME NEW c \in [item : Item, action : Operation \union {"showArgs"}],
               pressed' = Append(pressed, c)
        PROVE  /\ DOMAIN pressed \subseteq DOMAIN pressed'
               /\ \A p \in DOMAIN pressed : pressed'[p] = pressed[p]
    BY <2>1, <2>3
  <2>4. QED
    BY <2>2, <2>3
<1>2. PICK f \in [DOMAIN posted -> DOMAIN pressed] :
        /\ \A m, n \in DOMAIN posted : m < n => f[m] < f[n]
        /\ \A n \in DOMAIN posted : posted[n] = AsPosted(pressed[f[n]])
        /\ Armed => /\ current \in Choice
                    /\ \E p \in DOMAIN pressed :
                         /\ pressed[p] = current
                         /\ \A n \in DOMAIN posted : f[n] < p
  BY DEF NextToPost
<1>3. f \in [DOMAIN posted' -> DOMAIN pressed']
  BY <1>1
<1>4. \A m, n \in DOMAIN posted' : m < n => f[m] < f[n]
  BY <1>2
<1>5. \A n \in DOMAIN posted' : posted'[n] = AsPosted(pressed'[f[n]])
  BY <1>1, <1>2
<1>6. Armed' => /\ current' \in Choice
                /\ \E p \in DOMAIN pressed' :
                     /\ pressed'[p] = current'
                     /\ \A n \in DOMAIN posted' : f[n] < p
  BY <1>1, <1>2
<1>7. QED
  BY <1>3, <1>4, <1>5, <1>6 DEF NextToPost

\* What OK would post is a choice later than all that were posted.
LEMMA NextToPostStep == PageIInv /\ [PageNext]_pageVars => NextToPost'
<1> DEFINE Goal == NextToPost'
<1> SUFFICES ASSUME PageIInv, [PageNext]_pageVars PROVE Goal
  OBVIOUS
<1> USE DEF PageIInv
<1>1. ASSUME NEW i \in Item, NEW a \in Operation, ShowModal(i, a) PROVE Goal
  <2>1. PICK f \in [DOMAIN posted -> DOMAIN pressed] :
          /\ \A m, n \in DOMAIN posted : m < n => f[m] < f[n]
          /\ \A n \in DOMAIN posted : posted[n] = AsPosted(pressed[f[n]])
    BY DEF NextToPost
  <2>2. /\ posted' = posted /\ current' = [item |-> i, action |-> a]
        /\ pressed' = Append(pressed, current')
    BY <1>1 DEF ShowModal
  <2>3. /\ current' \in Choice
        /\ current' \in [item : Item, action : Operation \union {"showArgs"}]
    BY <2>2 DEF Choice
  <2>4. /\ DOMAIN pressed' = 1 .. Len(pressed) + 1 /\ DOMAIN pressed = 1 .. Len(pressed)
        /\ Len(pressed) \in Nat
        /\ pressed'[Len(pressed) + 1] = current'
        /\ \A p \in DOMAIN pressed : pressed'[p] = pressed[p]
    BY <2>2, <2>3 DEF PageTypeOK
  <2>5. f \in [DOMAIN posted' -> DOMAIN pressed']
    BY <2>2, <2>4
  <2>6. \A n \in DOMAIN posted' : posted'[n] = AsPosted(pressed'[f[n]])
    BY <2>1, <2>2, <2>4
  <2>7. \A n \in DOMAIN posted' : f[n] < Len(pressed) + 1
    BY <2>2, <2>4
  <2>8. Len(pressed) + 1 \in DOMAIN pressed'
    BY <2>4
  <2>9. \E p \in DOMAIN pressed' : pressed'[p] = current' /\ \A n \in DOMAIN posted' : f[n] < p
    BY <2>4, <2>7, <2>8
  <2>10. QED
    BY <2>1, <2>2, <2>3, <2>5, <2>6, <2>9 DEF NextToPost
<1>2. ASSUME HandleOk PROVE Goal
  <2>1. Armed /\ ~Armed'
    BY <1>2 DEF HandleOk, Hide, Armed, OneConfirmation
  <2>2. PICK f \in [DOMAIN posted -> DOMAIN pressed] :
          /\ \A m, n \in DOMAIN posted : m < n => f[m] < f[n]
          /\ \A n \in DOMAIN posted : posted[n] = AsPosted(pressed[f[n]])
          /\ current \in Choice
          /\ \E p \in DOMAIN pressed :
               /\ pressed[p] = current
               /\ \A n \in DOMAIN posted : f[n] < p
    BY <2>1 DEF NextToPost
  <2>3. PICK p \in DOMAIN pressed :
          pressed[p] = current /\ \A n \in DOMAIN posted : f[n] < p
    BY <2>2
  <2>4. pressed' = pressed /\ posted' = Append(posted, AsPosted(current))
    BY <1>2 DEF HandleOk
  <2>5. posted \in Seq(Choice) /\ AsPosted(current) \in Choice
    BY <2>2, PostedIsChoice DEF PageTypeOK
  <2>6. /\ DOMAIN posted = 1 .. Len(posted) /\ DOMAIN posted' = 1 .. Len(posted) + 1
        /\ Len(posted) \in Nat
        /\ posted'[Len(posted) + 1] = AsPosted(current)
        /\ \A n \in DOMAIN posted : posted'[n] = posted[n]
    BY <2>4, <2>5
  <2> DEFINE g == [n \in DOMAIN posted' |-> IF n \in DOMAIN posted THEN f[n] ELSE p]
  <2>7. g \in [DOMAIN posted' -> DOMAIN pressed']
    BY <2>4
  <2>8. ASSUME NEW m \in DOMAIN posted', NEW n \in DOMAIN posted', m < n PROVE g[m] < g[n]
    <3>1. m \in DOMAIN posted
      BY <2>6, <2>8
    <3>2. CASE n \in DOMAIN posted
      BY <2>2, <2>8, <3>1, <3>2
    <3>3. CASE n \notin DOMAIN posted
      BY <2>3, <3>1, <3>3
    <3>4. QED
      BY <3>2, <3>3
  <2>9. ASSUME NEW n \in DOMAIN posted' PROVE posted'[n] = AsPosted(pressed'[g[n]])
    <3>1. CASE n \in DOMAIN posted
      BY <2>2, <2>4, <2>6, <3>1
    <3>2. CASE n \notin DOMAIN posted
      <4>1. n = Len(posted) + 1
        BY <2>6, <3>2
      <4>2. QED
        BY <2>3, <2>4, <2>6, <3>2, <4>1
    <3>3. QED
      BY <3>1, <3>2
  <2>10. QED
    BY <2>1, <2>7, <2>8, <2>9 DEF NextToPost
<1>3. ASSUME NEW i \in Item, ShowArgs(i) PROVE Goal
  <2>1. posted' = posted /\ current' = current /\ (Armed' => Armed)
    BY <1>3 DEF ShowArgs, dialogs, Armed
  <2>2. \E c \in [item : Item, action : Operation \union {"showArgs"}] : pressed' = Append(pressed, c)
    BY <1>3 DEF ShowArgs
  <2>3. QED
    BY <2>1, <2>2, NothingPosted
<1>4. ASSUME posted' = posted, current' = current, pressed' = pressed, Armed' => Armed PROVE Goal
  BY <1>4, NothingPosted
<1>5. ASSUME NEW r, ArgsArrive(r) PROVE Goal
  <2>1. Armed' => Armed
    BY <1>5 DEF ArgsArrive, Show, dialogs, Armed
  <2>2. posted' = posted /\ current' = current /\ pressed' = pressed
    BY <1>5 DEF ArgsArrive, history
  <2>3. QED
    BY <1>4, <2>1, <2>2
<1>6. ASSUME NEW d \in Dialog, Enter(d) PROVE Goal
  BY <1>4, <1>6 DEF Enter, history, Armed
<1>7. ASSUME NEW d \in Dialog, Dismiss(d) PROVE Goal
  BY <1>4, <1>7 DEF Dismiss, Hide, history, Armed
<1>8. ASSUME NEW d \in Dialog, AfterLeave(d) PROVE Goal
  BY <1>4, <1>8 DEF AfterLeave, history, Armed
<1>9. ASSUME NEW i \in Item, Change(i) PROVE Goal
  BY <1>4, <1>9 DEF Change, history, dialogs, Armed
<1>10. ASSUME NEW r, ShowList(r) \/ AfterPost(r) \/ HandleError(r) \/ Serve(r) PROVE Goal
  BY <1>4, <1>10 DEF ShowList, AfterPost, HandleError, Serve, history, dialogs, Armed
<1>11. ASSUME UNCHANGED pageVars PROVE Goal
  BY <1>4, <1>11 DEF pageVars, history, dialogs, Armed
<1>12. QED
  BY <1>1, <1>2, <1>3, <1>5, <1>6, <1>7, <1>8, <1>9, <1>10, <1>11 DEF PageNext, Receive

\* A request that renews the list, or the list itself, always knows of the last
\* operation, unless an answer was lost or overtaken.
LEMMA RenewalStep == PageIInv /\ [PageNext]_pageVars => RenewalUnderWay'
<1> DEFINE Goal == RenewalUnderWay'
<1> SUFFICES ASSUME PageIInv, [PageNext]_pageVars PROVE Goal
  OBVIOUS
<1>0. /\ IsABag(requests) /\ items.version \in Nat /\ done \in Nat /\ outdated \in BOOLEAN
      /\ version \in Nat /\ done <= version
  BY DEF PageIInv, PageTypeOK
<1>1. items.version >= done \/ outdated \/ \E r \in BagToSet(requests) : Renews(r)
  BY DEF PageIInv, RenewalUnderWay
<1>2. RequestsMakeSense
  BY DEF PageIInv
<1>3. ASSUME NEW r \in BagToSet(requests), NEW q \in BagToSet(requests), q # r
      PROVE  q \in BagToSet(Remove(requests, r))
  BY <1>0, <1>3, Removed
<1>4. ASSUME UNCHANGED <<items, done, outdated>>,
             \A r \in BagToSet(requests) : Renews(r) => r \in BagToSet(requests')
      PROVE  Goal
  BY <1>1, <1>4 DEF RenewalUnderWay, Renews
<1>5. ASSUME UNCHANGED <<items, done, outdated, requests>> PROVE Goal
  BY <1>4, <1>5
<1>6. ASSUME NEW q, requests' = Send(requests, q), UNCHANGED <<items, done, outdated>> PROVE Goal
  <2>1. BagToSet(requests') = BagToSet(requests) \union {q}
    BY <1>0, <1>6, Sent
  <2>2. QED
    BY <1>4, <1>6, <2>1
<1>7. ASSUME NEW r \in BagToSet(requests), ~Renews(r), requests' = Remove(requests, r),
             UNCHANGED <<items, done, outdated>>
      PROVE  Goal
  BY <1>3, <1>4, <1>7
<1>8. ASSUME NEW r \in BagToSet(requests), NEW q, requests' = Send(Remove(requests, r), q)
      PROVE  /\ q \in BagToSet(requests')
             /\ \A x \in BagToSet(requests) : x # r => x \in BagToSet(requests')
  <2>1. IsABag(Remove(requests, r))
    BY <1>0, Removed
  <2>2. BagToSet(requests') = BagToSet(Remove(requests, r)) \union {q}
    BY <1>8, <2>1, Sent
  <2>3. QED
    BY <1>3, <2>2
<1>9. ASSUME HandleOk PROVE Goal
  BY <1>6, <1>9 DEF HandleOk
<1>10. ASSUME NEW i \in Item, ShowArgs(i) PROVE Goal
  BY <1>6, <1>10 DEF ShowArgs
<1>11. ASSUME NEW i \in Item, Change(i) \/ \E a \in Operation : ShowModal(i, a) PROVE Goal
  BY <1>5, <1>11 DEF Change, ShowModal, history
<1>12. ASSUME NEW d \in Dialog, Enter(d) \/ Dismiss(d) \/ AfterLeave(d) PROVE Goal
  BY <1>5, <1>12 DEF Enter, Dismiss, AfterLeave, history
<1>13. ASSUME UNCHANGED pageVars PROVE Goal
  BY <1>5, <1>13 DEF pageVars, history
<1>14. ASSUME NEW r \in BagToSet(requests), r.kind = "list", r.reply # Nothing, ShowList(r)
       PROVE  Goal
  <2>1. r.reply.version \in Nat
    BY <1>0, <1>2, <1>14, Held
  <2>2. /\ items' = r.reply /\ done' = done /\ requests' = Remove(requests, r)
        /\ outdated' = (r.reply.version < done /\ (outdated \/ r.reply.version < items.version))
    BY <1>14 DEF ShowList
  <2>3. CASE r.reply.version >= done
    BY <2>2, <2>3 DEF RenewalUnderWay
  <2>4. CASE outdated'
    BY <2>4 DEF RenewalUnderWay
  <2>5. CASE r.reply.version < done /\ ~outdated'
    <3>1. ~outdated /\ items.version < done
      <4>1. ~outdated /\ ~(r.reply.version < items.version)
        BY <2>2, <2>5
      <4>2. QED
        BY <1>0, <2>1, <2>5, <4>1
    <3>2. PICK q \in BagToSet(requests) : Renews(q)
      BY <1>0, <1>1, <3>1
    <3>3. q # r
      BY <1>0, <1>14, <2>1, <2>5, <3>2 DEF Renews
    <3>4. q \in BagToSet(requests') /\ Renews(q)'
      BY <1>3, <2>2, <3>2, <3>3 DEF Renews
    <3>5. QED
      BY <3>4 DEF RenewalUnderWay
  <2>6. QED
    BY <1>0, <2>1, <2>3, <2>4, <2>5
<1>15. ASSUME NEW r \in BagToSet(requests), r.kind = "post", AfterPost(r) PROVE Goal
  <2>1. UNCHANGED <<items, done, outdated>>
    BY <1>15 DEF AfterPost, history
  <2>2. CASE r.reply = TRUE
    <3>1. requests' = Send(Remove(requests, r), Request("list", Nothing))
      BY <1>15, <2>2 DEF AfterPost
    <3>2. Request("list", Nothing) \in BagToSet(requests')
      BY <1>8, <3>1
    <3>3. Renews(Request("list", Nothing))'
      BY DEF Renews, Request
    <3>4. QED
      BY <3>2, <3>3 DEF RenewalUnderWay
  <2>3. CASE r.reply # TRUE
    <3>1. ~Renews(r)
      BY <1>15, <2>3 DEF Renews
    <3>2. requests' = Remove(requests, r) \/ requests' = Send(Remove(requests, r), Request("list", Nothing))
      BY <1>15 DEF AfterPost
    <3>3. \A x \in BagToSet(requests) : Renews(x) => x \in BagToSet(requests')
      BY <1>3, <1>8, <3>1, <3>2
    <3>4. QED
      BY <1>4, <2>1, <3>3
  <2>4. QED
    BY <2>2, <2>3
<1>16. ASSUME NEW r \in BagToSet(requests), r.kind = "args", ArgsArrive(r) PROVE Goal
  BY <1>7, <1>16 DEF ArgsArrive, Renews, history
<1>17. ASSUME NEW r \in BagToSet(requests), HandleError(r) PROVE Goal
  <2>1. CASE r.kind = "args"
    <3>1. ~Renews(r) /\ requests' = Remove(requests, r) /\ UNCHANGED <<items, done>>
      BY <1>17, <2>1 DEF HandleError, Renews
    <3>2. outdated' = outdated
      BY <1>0, <1>17, <2>1 DEF HandleError
    <3>3. QED
      BY <1>7, <3>1, <3>2
  <2>2. CASE r.kind # "args"
    BY <1>17, <2>2 DEF HandleError, RenewalUnderWay
  <2>3. QED
    BY <2>1, <2>2
<1>18. ASSUME NEW r \in BagToSet(requests), Serve(r) PROVE Goal
  <2>0. r.reply = Nothing /\ UNCHANGED <<items, outdated>>
    BY <1>18 DEF Serve
  <2>1. CASE ListAutoLoadVO(r)
    <3>0. PICK q : q = [r EXCEPT !.reply = [rows |-> registered, version |-> version]]
      OBVIOUS
    <3>1. requests' = Send(Remove(requests, r), q) /\ done' = done /\ r.kind = "list"
      BY <2>1, <3>0 DEF ListAutoLoadVO, Answer
    <3>2. q = [kind |-> r.kind, choice |-> r.choice, reply |-> [rows |-> registered, version |-> version]]
      BY <1>2, <3>0, AnsweredIs
    <3>3. Renews(q)'
      BY <1>0, <3>1, <3>2 DEF Renews
    <3>4. q \in BagToSet(requests')
      BY <1>8, <3>1
    <3>5. QED
      BY <3>3, <3>4 DEF RenewalUnderWay
  <2>2. CASE Operate(r) /\ Answer(r, TRUE)
    <3> DEFINE q == [r EXCEPT !.reply = TRUE]
    <3>1. requests' = Send(Remove(requests, r), q) /\ r.kind = "post"
      BY <2>2 DEF Operate, Answer
    <3>2. q = [kind |-> r.kind, choice |-> r.choice, reply |-> TRUE]
      BY <1>2, AnsweredIs
    <3>3. Renews(q)'
      BY <3>1, <3>2 DEF Renews
    <3>4. q \in BagToSet(requests')
      BY <1>8, <3>1
    <3>5. QED
      BY <3>3, <3>4 DEF RenewalUnderWay
  <2>3. ASSUME r.kind \in {"post", "args"}, NEW q, requests' = Send(Remove(requests, r), q), done' = done
        PROVE  Goal
    <3>1. ~Renews(r)
      BY <2>0, <2>3, NothingAssumption DEF Renews
    <3>2. \A x \in BagToSet(requests) : Renews(x) => x \in BagToSet(requests')
      BY <1>8, <2>3, <3>1
    <3>3. QED
      BY <1>4, <2>0, <2>3, <3>2
  <2>4. CASE Operate(r) /\ Answer(r, FALSE) /\ UNCHANGED <<server, done>>
    BY <2>3, <2>4 DEF Operate, Answer
  <2>5. CASE AnswerArgs(r)
    BY <2>3, <2>5 DEF AnswerArgs, Answer
  <2>6. Operate(r) => Answer(r, TRUE) \/ (Answer(r, FALSE) /\ UNCHANGED <<server, done>>)
    BY DEF Operate
  <2>7. QED
    BY <1>18, <2>1, <2>2, <2>4, <2>5, <2>6 DEF Serve
<1>19. QED
  BY <1>9, <1>10, <1>11, <1>12, <1>13, <1>14, <1>15, <1>16, <1>17, <1>18 DEF PageNext, Receive

\* A step that leaves the questions for arguments alone keeps what is known of them.
LEMMA QuestionsUntouched ==
    ASSUME OnlyQuestion, UNCHANGED <<args, asked>>,
           mixed' = TRUE \/ mixed' = mixed,
           \A r : r.kind = "args" => (r \in BagToSet(requests) <=> r \in BagToSet(requests')),
           \A r \in BagToSet(requests) : r.kind = "args" => requests'[r] = requests[r]
    PROVE  OnlyQuestion'
BY DEF OnlyQuestion, UnderWay

\* The question under way is the last one, and its only copy.
LEMMA OnlyQuestionStep == PageIInv /\ [PageNext]_pageVars => OnlyQuestion'
<1> DEFINE Goal == OnlyQuestion'
<1> SUFFICES ASSUME PageIInv, [PageNext]_pageVars PROVE Goal
  OBVIOUS
<1>0. IsABag(requests) /\ mixed \in BOOLEAN /\ RequestsMakeSense /\ OnlyQuestion
  BY DEF PageIInv, PageTypeOK
<1>1. ASSUME NEW r \in BagToSet(requests)
      PROVE  IsABag(Remove(requests, r))
  BY <1>0, Removed
<1>2. ASSUME UNCHANGED <<args, asked, requests>>, mixed' = mixed PROVE Goal
  BY <1>0, <1>2, QuestionsUntouched
<1>3. ASSUME NEW B, IsABag(B), NEW q, q.kind # "args"
      PROVE  /\ \A x : x.kind = "args" => (x \in BagToSet(B) <=> x \in BagToSet(Send(B, q)))
             /\ \A x \in BagToSet(B) : x.kind = "args" => Send(B, q)[x] = B[x]
  <2>1. /\ BagToSet(Send(B, q)) = BagToSet(B) \union {q}
        /\ \A x \in BagToSet(Send(B, q)) :
             Send(B, q)[x] = (IF x \in BagToSet(B) THEN B[x] ELSE 0) + (IF x = q THEN 1 ELSE 0)
    BY <1>3, Sent
  <2>2. \A x \in BagToSet(B) : B[x] \in Nat
    BY <1>3 DEF IsABag, BagToSet
  <2>3. QED
    BY <1>3, <2>1, <2>2
<1>4. ASSUME NEW r \in BagToSet(requests), r.kind # "args"
      PROVE  /\ \A x : x.kind = "args" => (x \in BagToSet(requests) <=> x \in BagToSet(Remove(requests, r)))
             /\ \A x \in BagToSet(requests) : x.kind = "args" => Remove(requests, r)[x] = requests[x]
  BY <1>0, <1>4, Removed
<1>5. ASSUME NEW r \in BagToSet(requests), r.kind # "args", UNCHANGED <<args, asked>>, mixed' = mixed,
             \/ requests' = Remove(requests, r)
             \/ \E q : q.kind # "args" /\ requests' = Send(Remove(requests, r), q)
      PROVE  Goal
  <2>1. CASE requests' = Remove(requests, r)
    BY <1>0, <1>4, <1>5, <2>1, QuestionsUntouched
  <2>2. ASSUME NEW q, q.kind # "args", requests' = Send(Remove(requests, r), q) PROVE Goal
    <3>1. /\ \A x : x.kind = "args" => (x \in BagToSet(Remove(requests, r)) <=> x \in BagToSet(requests'))
          /\ \A x \in BagToSet(Remove(requests, r)) : x.kind = "args" => requests'[x] = Remove(requests, r)[x]
      BY <1>1, <1>3, <2>2
    <3>2. /\ \A x : x.kind = "args" => (x \in BagToSet(requests) <=> x \in BagToSet(requests'))
          /\ \A x \in BagToSet(requests) : x.kind = "args" => requests'[x] = requests[x]
      BY <1>4, <1>5, <3>1
    <3>3. QED
      BY <1>0, <1>5, <3>2, QuestionsUntouched
  <2>3. QED
    BY <1>5, <2>1, <2>2
<1>6. ASSUME HandleOk PROVE Goal
  <2>1. PICK q : q = Request("post", AsPosted(current))
    OBVIOUS
  <2>2. q.kind # "args"
    BY <2>1 DEF Request
  <2>3. requests' = Send(requests, q) /\ UNCHANGED <<args, asked, mixed>>
    BY <1>6, <2>1 DEF HandleOk
  <2>4. /\ \A x : x.kind = "args" => (x \in BagToSet(requests) <=> x \in BagToSet(requests'))
        /\ \A x \in BagToSet(requests) : x.kind = "args" => requests'[x] = requests[x]
    BY <1>0, <1>3, <2>2, <2>3
  <2>5. QED
    BY <1>0, <2>3, <2>4, QuestionsUntouched
<1>7. ASSUME NEW i \in Item, ShowArgs(i) PROVE Goal
  <2>1. PICK q : q = Request("args", [item |-> i, action |-> "showArgs"])
    OBVIOUS
  <2>2. q.kind = "args" /\ q.choice.item = i
    BY <2>1 DEF Request
  <2>3. requests' = Send(requests, q) /\ asked' = i /\ mixed' = UnderWay("args")
    BY <1>7, <2>1 DEF ShowArgs
  <2>4. /\ BagToSet(requests') = BagToSet(requests) \union {q}
        /\ requests'[q] = (IF q \in BagToSet(requests) THEN requests[q] ELSE 0) + 1
    BY <1>0, <2>3, Sent
  <2>5. CASE UnderWay("args")
    BY <2>3, <2>5 DEF OnlyQuestion
  <2>6. CASE ~UnderWay("args")
    <3>1. \A x \in BagToSet(requests) : x.kind # "args"
      BY <2>6 DEF UnderWay
    <3>2. requests'[q] = 1
      BY <2>2, <2>4, <3>1
    <3>3. \A x \in BagToSet(requests') : x.kind = "args" => x = q
      BY <2>4, <3>1
    <3>4. UnderWay("args")'
      BY <2>2, <2>4 DEF UnderWay
    <3>5. QED
      BY <2>2, <2>3, <3>2, <3>3, <3>4 DEF OnlyQuestion
  <2>7. QED
    BY <2>5, <2>6
<1>8. ASSUME NEW i \in Item, Change(i) \/ \E a \in Operation : ShowModal(i, a) PROVE Goal
  BY <1>2, <1>8 DEF Change, ShowModal, history
<1>9. ASSUME NEW d \in Dialog, Enter(d) \/ Dismiss(d) \/ AfterLeave(d) PROVE Goal
  BY <1>2, <1>9 DEF Enter, Dismiss, AfterLeave, history
<1>10. ASSUME UNCHANGED pageVars PROVE Goal
  BY <1>2, <1>10 DEF pageVars, history
<1>11. ASSUME NEW r \in BagToSet(requests), r.kind = "list", ShowList(r) PROVE Goal
  BY <1>5, <1>11 DEF ShowList
<1>12. ASSUME NEW r \in BagToSet(requests), r.kind = "post", AfterPost(r) PROVE Goal
  <2>1. PICK q : q = Request("list", Nothing)
    OBVIOUS
  <2>2. q.kind # "args"
    BY <2>1 DEF Request
  <2>3. /\ requests' = Remove(requests, r) \/ requests' = Send(Remove(requests, r), q)
        /\ UNCHANGED <<args, asked, mixed>>
    BY <1>12, <2>1 DEF AfterPost, history
  <2>4. QED
    BY <1>5, <1>12, <2>2, <2>3
<1>13. ASSUME NEW r \in BagToSet(requests), r.kind = "args",
              ~mixed, r.choice.item = asked, requests[r] = 1,
              \A x \in BagToSet(requests) : x.kind = "args" => x = r
       PROVE  \A x \in BagToSet(Remove(requests, r)) : x.kind # "args"
  BY <1>0, <1>13, Removed
<1>14. ASSUME NEW r \in BagToSet(requests), r.kind = "args", ~mixed
       PROVE  /\ r.choice.item = asked
              /\ \A x \in BagToSet(Remove(requests, r)) : x.kind # "args"
  <2>1. /\ r.choice.item = asked /\ requests[r] = 1
        /\ \A x \in BagToSet(requests) : x.kind = "args" => x = r
    BY <1>0, <1>14 DEF OnlyQuestion, UnderWay
  <2>2. QED
    BY <1>13, <1>14, <2>1
<1>15. ASSUME NEW r \in BagToSet(requests), r.kind = "args", ArgsArrive(r) PROVE Goal
  <2>1. args' = r.choice.item /\ requests' = Remove(requests, r) /\ UNCHANGED <<asked, mixed>>
    BY <1>15 DEF ArgsArrive, history
  <2>2. QED
    BY <1>14, <1>15, <2>1 DEF OnlyQuestion, UnderWay
<1>16. ASSUME NEW r \in BagToSet(requests), HandleError(r) PROVE Goal
  <2>1. CASE r.kind = "args"
    BY <1>16, <2>1 DEF HandleError, OnlyQuestion
  <2>2. CASE r.kind # "args"
    BY <1>0, <1>5, <1>16, <2>2 DEF HandleError
  <2>3. QED
    BY <2>1, <2>2
<1>17. ASSUME NEW r \in BagToSet(requests), Serve(r) PROVE Goal
  <2>1. PICK reply : requests' = Send(Remove(requests, r), [r EXCEPT !.reply = reply])
    BY <1>17 DEF Serve, ListAutoLoadVO, Operate, AnswerArgs, Answer
  <2>2. UNCHANGED <<args, asked, mixed>>
    BY <1>17 DEF Serve
  <2>3. PICK q : q = [kind |-> r.kind, choice |-> r.choice, reply |-> reply]
    OBVIOUS
  <2>4. requests' = Send(Remove(requests, r), q) /\ q.kind = r.kind /\ q.choice = r.choice
    BY <1>0, <2>1, <2>3, AnsweredIs
  <2>5. CASE r.kind # "args"
    BY <1>5, <2>2, <2>4, <2>5
  <2>6. CASE mixed
    BY <2>2, <2>6 DEF OnlyQuestion
  <2>7. CASE r.kind = "args" /\ ~mixed
    <3>1. r.choice.item = asked /\ \A x \in BagToSet(Remove(requests, r)) : x.kind # "args"
      BY <1>14, <2>7
    <3>2. /\ BagToSet(requests') = BagToSet(Remove(requests, r)) \union {q}
          /\ requests'[q] = (IF q \in BagToSet(Remove(requests, r)) THEN Remove(requests, r)[q] ELSE 0) + 1
      BY <1>1, <2>4, Sent
    <3>3. requests'[q] = 1
      BY <2>4, <2>7, <3>1, <3>2
    <3>4. \A x \in BagToSet(requests') : x.kind = "args" => x = q
      BY <3>1, <3>2
    <3>5. UnderWay("args")'
      BY <2>4, <2>7, <3>2 DEF UnderWay
    <3>6. QED
      BY <2>2, <2>4, <3>1, <3>3, <3>4, <3>5 DEF OnlyQuestion
  <2>8. QED
    BY <2>5, <2>6, <2>7
<1>18. QED
  BY <1>6, <1>7, <1>8, <1>9, <1>10, <1>11, <1>12, <1>15, <1>16, <1>17 DEF PageNext, Receive

\* The invariant of the page holds always.
LEMMA PageInvariantHolds == PageSpec => []PageIInv
<1>1. PageIInv /\ [PageNext]_pageVars => PageIInv'
  BY PageTypeStep, ConfirmationStep, NextToPostStep, RenewalStep, OnlyQuestionStep DEF PageIInv
<1>2. QED
  BY <1>1, PageInitIInv, PTL DEF PageSpec

\* The page's state is well-formed for any number of items, presses and requests.
THEOREM PageTypeCorrect == PageSpec => []PageTypeOK
<1>1. PageIInv => PageTypeOK
  BY DEF PageIInv
<1>2. QED
  BY <1>1, PageInvariantHolds, PTL

\* Every operation posted was chosen in the list, none is posted twice and none out of
\* turn: showModal and handleOk share currentItem and currentAction with two dialogs
\* that may both be leaving, waiting or on their way in.
THEOREM PostsAreChoices == PageSpec => []PostedAsChosen
<1>1. PageIInv => PostedAsChosen
  BY DEF PageIInv, NextToPost, AsPosted, PostedAsChosen
<1>2. QED
  BY <1>1, PageInvariantHolds, PTL

\* When nothing is under way the list is as new as the user's last operation, in
\* whatever order the answers to loadData and to the posts arrive.
THEOREM ChangesAppear == PageSpec => []OwnChangesShow
<1>1. PageIInv => OwnChangesShow
  BY DEF PageIInv, RenewalUnderWay, Renews, OwnChangesShow, UnderWay
<1>2. QED
  BY <1>1, PageInvariantHolds, PTL

\* The dialog shows the arguments last asked for, unless questions overlapped.
THEOREM LastArgsShown == PageSpec => []ArgsAreThoseAskedFor
<1>1. PageIInv => ArgsAreThoseAskedFor
  BY DEF PageIInv, OnlyQuestion, ArgsAreThoseAskedFor
<1>2. QED
  BY <1>1, PageInvariantHolds, PTL

\* A dialog that waits for another one waits for one that is on its way out, and
\* nothing holds that one back.
NobodyWaitsInVain == waiting # {} => leaving # {} /\ due = {}

\* Only the confirmation comes by a nextTick; the body's class tells of a dialog that
\* is there; and dialogs wait only while all others leave.
DialogsMoveOn ==
    /\ due \subseteq {"confirm"}
    /\ open => visible \union leaving # {}
    /\ open /\ due # {} => "args" \in visible
    /\ waiting # {} => visible = {} /\ due = {} /\ leaving # {}

\* No step leaves a dialog waiting for nothing.
LEMMA DialogsStep == PageIInv /\ DialogsMoveOn /\ [PageNext]_pageVars => DialogsMoveOn'
<1> DEFINE Goal == DialogsMoveOn'
<1> SUFFICES ASSUME PageIInv, DialogsMoveOn, [PageNext]_pageVars PROVE Goal
  OBVIOUS
<1>0. "confirm" # "args" /\ open \in BOOLEAN /\ (waiting # {} => open)
  BY DEF PageIInv, OneConfirmation, PageTypeOK
<1> USE DEF DialogsMoveOn
<1>1. ASSUME NEW d \in Dialog, d \notin visible, Show(d, d = "args"), d = "confirm" => visible \union due = {}
      PROVE  Goal
  <2>1. CASE open
    <3>1. due = {}
      BY <1>0, <1>1, <2>1 DEF Dialog
    <3>2. /\ visible' = {} /\ due' = due /\ leaving' = leaving \union visible
          /\ waiting' = waiting \union {d} /\ open' = TRUE
      BY <1>1, <2>1 DEF Show
    <3>3. QED
      BY <2>1, <3>1, <3>2
  <2>2. CASE ~open /\ d = "args"
    <3>1. visible' = {d} /\ due' = due /\ waiting' = waiting /\ waiting = {} /\ open' = TRUE
      BY <1>0, <1>1, <2>2 DEF Show
    <3>2. QED
      BY <2>2, <3>1
  <2>3. CASE ~open /\ d = "confirm"
    <3>1. due' = due \union {d} /\ waiting' = waiting /\ waiting = {} /\ open' = FALSE
      BY <1>0, <1>1, <2>3 DEF Show
    <3>2. QED
      BY <2>3, <3>1
  <2>4. QED
    BY <2>1, <2>2, <2>3 DEF Dialog
<1>2. ASSUME UNCHANGED dialogs PROVE Goal
  BY <1>2 DEF dialogs
<1>3. ASSUME NEW i \in Item, NEW a \in Operation, ShowModal(i, a) PROVE Goal
  <2>1. visible \union due = {} /\ Show("confirm", "confirm" = "args") /\ "confirm" \in Dialog
    BY <1>0, <1>3 DEF ShowModal, CanPress, Dialog
  <2>2. QED
    BY <1>1, <2>1
<1>4. ASSUME NEW r, ArgsArrive(r) PROVE Goal
  <2>1. Show("args", "args" = "args") /\ "args" \in Dialog
    BY <1>4 DEF ArgsArrive, Dialog
  <2>2. CASE "args" \in visible
    BY <1>2, <2>1, <2>2 DEF Show
  <2>3. QED
    BY <1>0, <1>1, <2>1, <2>2
<1>5. ASSUME NEW d \in Dialog, Enter(d) PROVE Goal
  BY <1>5 DEF Enter
<1>6. ASSUME NEW d \in Dialog, Hide(d) PROVE Goal
  BY <1>6 DEF Hide
<1>7. ASSUME NEW d \in Dialog, AfterLeave(d) PROVE Goal
  BY <1>7 DEF AfterLeave
<1>8. HandleOk => Hide("confirm") /\ "confirm" \in Dialog
  BY DEF HandleOk, Dialog
<1>9. ASSUME NEW d \in Dialog, Dismiss(d) PROVE Hide(d)
  BY <1>9 DEF Dismiss
<1>10. ASSUME NEW i \in Item, ShowArgs(i) \/ Change(i) PROVE UNCHANGED dialogs
  BY <1>10 DEF ShowArgs, Change
<1>11. ASSUME NEW r, ShowList(r) \/ AfterPost(r) \/ HandleError(r) \/ Serve(r)
       PROVE  UNCHANGED dialogs
  BY <1>11 DEF ShowList, AfterPost, HandleError, Serve
<1>12. UNCHANGED pageVars => UNCHANGED dialogs
  BY DEF pageVars
<1>13. QED
  BY <1>2, <1>3, <1>4, <1>5, <1>6, <1>7, <1>8, <1>9, <1>10, <1>11, <1>12 DEF PageNext, Receive

\* Whatever the user does and whichever answers arrive, a waiting dialog is never left
\* without one whose end it waits for: AfterLeave of that one, which is then possible,
\* shows it (bootstrap-vue.js:9493-9515).
THEOREM NoVainWait == PageSpec => []NobodyWaitsInVain
<1>1. PageInit => DialogsMoveOn
  BY DEF PageInit, DialogsMoveOn
<1>2. DialogsMoveOn => NobodyWaitsInVain
  BY DEF DialogsMoveOn, NobodyWaitsInVain
<1>3. QED
  BY <1>1, <1>2, DialogsStep, PageInvariantHolds, PTL DEF PageSpec
=============================================================================

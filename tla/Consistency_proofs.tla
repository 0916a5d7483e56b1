------------------------- MODULE Consistency_proofs -------------------------
(* Safety of Consistency, for any servers, threads, life times and bounds. *)
EXTENDS Consistency, TLAPS

\* A delete has seen no version that is still to come.
DeletesArePast == deletedAt <= db

\* Who has not loaded anything yet holds nothing.
EmptyHands ==
    \A t \in Thread : pc[t] \in {"idle", "enter", "first", "wait"} => held[t] = None

\* Old data to be renewed is handed to refresh and auto-load threads only.
RequestsRenewNothing == \A r \in Request : old[r] = None

IInv ==
    /\ TypeOK
    /\ DeletesArePast
    /\ EmptyHands
    /\ RequestsRenewNothing
    /\ OthersAreUpToDate
    /\ OnlyTheLateBringItBack

USE DEF Version, Data, PC, history

\* A thread that goes on, and whose hands, like those of all, stay as they are.
LEMMA GotoType ==
    ASSUME TypeOK, NEW t \in Thread, NEW where \in PC, Goto(t, where)
    PROVE  /\ pc' \in [Thread -> PC]
           /\ pc'[t] = where
           /\ \A q \in Thread : q # t => pc'[q] = pc[q]
    BY DEF TypeOK, Goto

\* A thread that ends has nothing in hand.
LEMMA EndType ==
    ASSUME TypeOK, NEW t \in Thread, End(t)
    PROVE  /\ pc' \in [Thread -> PC]
           /\ held' \in [Thread -> Data]
           /\ old' \in [Thread -> Data]
           /\ joined' \in [Thread -> Thread \cup {None}]
           /\ pc'[t] = "idle" /\ held'[t] = None /\ old'[t] = None
           /\ \A q \in Thread : q # t =>
                 pc'[q] = pc[q] /\ held'[q] = held[q] /\ old'[q] = old[q]
    BY DEF TypeOK, End, Goto

\* A landing moves its thread, and the waiters, who will write nothing.
LEMMA AnswerType ==
    ASSUME TypeOK, NEW t \in Thread, NEW next \in PC, NEW d \in Data,
           Answer(t, next, d)
    PROVE  /\ pc' \in [Thread -> PC]
           /\ held' \in [Thread -> Data]
           /\ processing' \in [Server -> Thread \cup {None}]
           /\ pc'[t] = next /\ held'[t] = held[t]
           /\ \A q \in Thread : q # t =>
                 \/ pc'[q] = "answered"
                 \/ pc'[q] = pc[q] /\ held'[q] = held[q]
    BY ServerAssumption DEF TypeOK, Answer

\* What a step has to show: the hands of those who may write.
LEMMA HandsKept ==
    ASSUME OthersAreUpToDate, deletedAt' = deletedAt, ~returned' => ~returned,
           \A q \in Thread \ late' :
              MayWrite(q)' => \/ q \notin late /\ MayWrite(q)
                                 /\ held'[q] = held[q] /\ old'[q] = old[q]
                              \/ ~returned' => /\ ~Older(held'[q], deletedAt)
                                               /\ ~Older(old'[q], deletedAt)
    PROVE  OthersAreUpToDate'
  <1> SUFFICES ASSUME ~returned', NEW q \in Thread \ late', MayWrite(q)',
                      NEW d \in {held'[q], old'[q]}
               PROVE  ~Older(d, deletedAt)
    BY DEF OthersAreUpToDate, InHand, Older
  <1> QED  BY DEF OthersAreUpToDate, InHand

\* A hit takes what is in the cache: older only when one of the late has written it.
LEMMA HitKeeps ==
    ASSUME IInv, NEW r \in Request, Hit(r)
    PROVE  IInv'
  <1> USE DEF IInv
  <1>t. r \in Thread  BY DEF Thread, Loader
  <1>1. TypeOK'
    BY <1>t, ExpireAssumption, BoundAssumption DEF TypeOK, Hit, Goto
  <1>2. DeletesArePast' /\ OnlyTheLateBringItBack'
    BY DEF Hit, DeletesArePast, OnlyTheLateBringItBack
  <1>3. EmptyHands'
    BY <1>t, NoneAssumption DEF Hit, EmptyHands, Goto, TypeOK
  <1>4. OthersAreUpToDate'
    BY <1>t, HandsKept, NoneAssumption
       DEF Hit, MayWrite, Older, Goto, TypeOK, OthersAreUpToDate, InHand,
           OnlyTheLateBringItBack, DeletesArePast
  <1>5. RequestsRenewNothing'
    BY <1>t, KindAssumption DEF Hit, RequestsRenewNothing, TypeOK
  <1> QED  BY <1>1, <1>2, <1>3, <1>4, <1>5

\* The data of the hit goes to a task, and so does its being late.
LEMMA DoRefreshKeeps ==
    ASSUME IInv, NEW r \in Request, DoRefresh(r)
    PROVE  IInv'
  <1> USE DEF IInv
  <1>t. r \in Thread /\ pc[r] = "hit"  BY DEF Thread, DoRefresh
  <1>1. CASE End(r) /\ late' = late \ {r}
    <2>1. TypeOK'
      BY <1>1, <1>t, EndType DEF TypeOK, DoRefresh
    <2>2. EmptyHands'
      BY <1>1, <1>t, EndType DEF EmptyHands
    <2>3. OthersAreUpToDate'
      BY <1>1, <1>t, EndType, HandsKept DEF DoRefresh, MayWrite, Older
    <2>4. RequestsRenewNothing'
      BY <1>1, <1>t, EndType DEF RequestsRenewNothing, Thread
    <2> QED
      BY <2>1, <2>2, <2>3, <2>4
         DEF DoRefresh, DeletesArePast, OnlyTheLateBringItBack
  <1>2. ASSUME NEW f \in Refresher, pc[f] = "idle",
               pc' = [pc EXCEPT ![r] = "idle", ![f] = "enter"],
               old' = [old EXCEPT ![f] = held[r]],
               held' = [held EXCEPT ![r] = None],
               late' = IF r \in late THEN (late \ {r}) \cup {f} ELSE late,
               joined' = joined
        PROVE  IInv'
    <2>f. f \in Thread /\ f # r  BY <1>2, <1>t DEF Thread
    <2>1. TypeOK'
      <3>1. held[r] \in Data  BY <1>t DEF TypeOK
      <3>2. pc' \in [Thread -> PC]  BY <1>2 DEF TypeOK
      <3>3. old' \in [Thread -> Data]  BY <1>2, <3>1 DEF TypeOK
      <3>4. held' \in [Thread -> Data]  BY <1>2 DEF TypeOK
      <3>5. late' \in SUBSET Thread  BY <1>2, <2>f DEF TypeOK
      <3> QED  BY <1>2, <3>2, <3>3, <3>4, <3>5 DEF TypeOK, DoRefresh
    <2>2. EmptyHands'
      BY <1>2, <1>t, <2>f DEF EmptyHands, TypeOK
    <2>h. /\ held[f] = None
          /\ held'[f] = None /\ old'[f] = held[r]
          /\ held'[r] = None /\ old'[r] = old[r]
          /\ \A q \in Thread \ {r, f} :
                held'[q] = held[q] /\ old'[q] = old[q] /\ pc'[q] = pc[q]
      BY <1>2, <1>t, <2>f DEF EmptyHands, TypeOK
    <2>r. r \notin late /\ ~returned =>
              ~Older(held[r], deletedAt) /\ ~Older(old[r], deletedAt)
      BY <1>t DEF OthersAreUpToDate, MayWrite, InHand
    <2>3. OthersAreUpToDate'
      <3>1. SUFFICES ASSUME ~returned', NEW q \in Thread \ late', MayWrite(q)'
                     PROVE  ~Older(held'[q], deletedAt) /\ ~Older(old'[q], deletedAt)
        BY DEF OthersAreUpToDate, InHand, DoRefresh, Older
      <3>2. CASE q = f
        BY <3>1, <3>2, <1>2, <2>f, <2>h, <2>r DEF Older, DoRefresh
      <3>3. CASE q = r
        BY <3>3, <2>h, <1>t DEF Older, RequestsRenewNothing
      <3>4. CASE q \notin {r, f}
        BY <3>1, <3>4, <1>2, <2>h
           DEF OthersAreUpToDate, InHand, DoRefresh, MayWrite
      <3> QED  BY <3>2, <3>3, <3>4
    <2>4. RequestsRenewNothing'
      BY <1>2, KindAssumption DEF RequestsRenewNothing, TypeOK
    <2> QED
      BY <2>1, <2>2, <2>3, <2>4
         DEF DoRefresh, DeletesArePast, OnlyTheLateBringItBack
  <1> QED  BY <1>1, <1>2 DEF DoRefresh

\* A miss takes nothing.
LEMMA MissKeeps ==
    ASSUME IInv, NEW r \in Request, Miss(r)
    PROVE  IInv'
  <1> USE DEF IInv
  <1>t. r \in Thread  BY DEF Thread, Loader
  <1>1. TypeOK'
    BY <1>t, ExpireAssumption, BoundAssumption DEF TypeOK, Miss, Goto
  <1>2. DeletesArePast' /\ OnlyTheLateBringItBack'
    BY DEF Miss, DeletesArePast, OnlyTheLateBringItBack
  <1>3. EmptyHands'
    BY <1>t, NoneAssumption DEF Miss, EmptyHands, Goto, TypeOK
  <1>4. OthersAreUpToDate'
    BY <1>t, HandsKept, NoneAssumption
       DEF Miss, MayWrite, Older, Goto, TypeOK, OthersAreUpToDate, InHand,
           OnlyTheLateBringItBack, DeletesArePast
  <1>5. RequestsRenewNothing'
    BY <1>t, KindAssumption DEF Miss, RequestsRenewNothing, TypeOK
  <1> QED  BY <1>1, <1>2, <1>3, <1>4, <1>5

\* An auto-load takes what is in the cache.
LEMMA LoadCacheKeeps ==
    ASSUME IInv, NEW a \in AutoLoader, LoadCache(a)
    PROVE  IInv'
  <1> USE DEF IInv
  <1>t. a \in Thread  BY DEF Thread, Loader
  <1>1. TypeOK'
    BY <1>t, ExpireAssumption, BoundAssumption DEF TypeOK, LoadCache, Goto
  <1>2. DeletesArePast' /\ OnlyTheLateBringItBack'
    BY DEF LoadCache, DeletesArePast, OnlyTheLateBringItBack
  <1>3. EmptyHands'
    BY <1>t, NoneAssumption DEF LoadCache, EmptyHands, Goto, TypeOK
  <1>4. OthersAreUpToDate'
    BY <1>t, HandsKept, NoneAssumption
       DEF LoadCache, MayWrite, Older, Goto, TypeOK, OthersAreUpToDate, InHand,
           OnlyTheLateBringItBack, DeletesArePast
  <1>5. RequestsRenewNothing'
    <2>1. \A r \in Request : r # a  BY KindAssumption
    <2>2. \A r \in Request : old'[r] = old[r]
      BY <2>1 DEF LoadCache, TypeOK, Thread
    <2> QED  BY <2>2 DEF RequestsRenewNothing
  <1> QED  BY <1>1, <1>2, <1>3, <1>4, <1>5

\* A dropped task takes its data with it.
LEMMA DropKeeps ==
    ASSUME IInv, NEW f \in Refresher, Drop(f)
    PROVE  IInv'
  <1> USE DEF IInv
  <1>t. f \in Thread  BY DEF Thread, Loader
  <1>1. TypeOK'
    BY <1>t, EndType, ExpireAssumption, BoundAssumption DEF TypeOK, Drop, Goto
  <1>2. DeletesArePast' /\ OnlyTheLateBringItBack'
    BY DEF Drop, DeletesArePast, OnlyTheLateBringItBack
  <1>3. EmptyHands'
    BY <1>t, EndType, NoneAssumption DEF Drop, EmptyHands, Goto, TypeOK
  <1>4. OthersAreUpToDate'
    BY <1>t, EndType, HandsKept, NoneAssumption
       DEF Drop, MayWrite, Older, Goto, TypeOK, OthersAreUpToDate, InHand,
           OnlyTheLateBringItBack, DeletesArePast
  <1>5. RequestsRenewNothing'
    BY <1>t, EndType DEF Drop, RequestsRenewNothing, Thread
  <1> QED  BY <1>1, <1>2, <1>3, <1>4, <1>5

\* Neither being first nor joining a flight takes anything.
LEMMA LoadDataKeeps ==
    ASSUME IInv, NEW t \in Loader, LoadData(t)
    PROVE  IInv'
  <1> USE DEF IInv
  <1>t. t \in Thread  BY DEF Thread, Loader
  <1>1. TypeOK'
    BY <1>t, ServerAssumption, ExpireAssumption, BoundAssumption DEF TypeOK, LoadData, Goto
  <1>2. DeletesArePast' /\ OnlyTheLateBringItBack'
    BY DEF LoadData, DeletesArePast, OnlyTheLateBringItBack
  <1>3. EmptyHands'
    BY <1>t, ServerAssumption, NoneAssumption DEF LoadData, EmptyHands, Goto, TypeOK
  <1>4. OthersAreUpToDate'
    BY <1>t, ServerAssumption, HandsKept, NoneAssumption
       DEF LoadData, MayWrite, Older, Goto, TypeOK, OthersAreUpToDate, InHand,
           OnlyTheLateBringItBack, DeletesArePast
  <1>5. RequestsRenewNothing'
    BY <1>t, KindAssumption DEF LoadData, RequestsRenewNothing, TypeOK
  <1> QED  BY <1>1, <1>2, <1>3, <1>4, <1>5

\* The DAO reads the row, which no delete is ahead of.
LEMMA DaoKeeps ==
    ASSUME IInv, NEW t \in Loader, Dao(t)
    PROVE  IInv'
  <1> USE DEF IInv
  <1>t. t \in Thread  BY DEF Thread, Loader
  <1>1. TypeOK'
    BY <1>t, ExpireAssumption, BoundAssumption DEF TypeOK, Dao, Goto
  <1>2. DeletesArePast' /\ OnlyTheLateBringItBack'
    BY DEF Dao, DeletesArePast, OnlyTheLateBringItBack
  <1>3. EmptyHands'
    BY <1>t, NoneAssumption DEF Dao, EmptyHands, Goto, TypeOK
  <1>4. OthersAreUpToDate'
    BY <1>t, HandsKept, NoneAssumption
       DEF Dao, MayWrite, Older, Goto, TypeOK, OthersAreUpToDate, InHand,
           OnlyTheLateBringItBack, DeletesArePast
  <1>5. RequestsRenewNothing'
    BY <1>t, KindAssumption DEF Dao, RequestsRenewNothing, TypeOK
  <1> QED  BY <1>1, <1>2, <1>3, <1>4, <1>5

\* A poll takes what is in the cache.
LEMMA PollKeeps ==
    ASSUME IInv, NEW t \in Loader, Poll(t)
    PROVE  IInv'
  <1> USE DEF IInv
  <1>t. t \in Thread  BY DEF Thread, Loader
  <1>1. TypeOK'
    BY <1>t, ExpireAssumption, BoundAssumption DEF TypeOK, Poll, Goto
  <1>2. DeletesArePast' /\ OnlyTheLateBringItBack'
    BY DEF Poll, DeletesArePast, OnlyTheLateBringItBack
  <1>3. EmptyHands'
    BY <1>t, NoneAssumption DEF Poll, EmptyHands, Goto, TypeOK
  <1>4. OthersAreUpToDate'
    BY <1>t, HandsKept, NoneAssumption
       DEF Poll, MayWrite, Older, Goto, TypeOK, OthersAreUpToDate, InHand,
           OnlyTheLateBringItBack, DeletesArePast
  <1>5. RequestsRenewNothing'
    BY <1>t, KindAssumption DEF Poll, RequestsRenewNothing, TypeOK
  <1> QED  BY <1>1, <1>2, <1>3, <1>4, <1>5

\* A landing gives its data to threads that will not write it.
LEMMA LandKeeps ==
    ASSUME IInv, NEW t \in Loader, Land(t)
    PROVE  IInv'
  <1> USE DEF IInv
  <1>t. t \in Thread  BY DEF Thread, Loader
  <1>1. TypeOK'
    BY <1>t, AnswerType, ExpireAssumption, BoundAssumption DEF TypeOK, Land, Goto
  <1>2. DeletesArePast' /\ OnlyTheLateBringItBack'
    BY DEF Land, DeletesArePast, OnlyTheLateBringItBack
  <1>3. EmptyHands'
    BY <1>t, AnswerType, NoneAssumption DEF Land, EmptyHands, Goto, TypeOK
  <1>4. OthersAreUpToDate'
    BY <1>t, AnswerType, HandsKept, NoneAssumption
       DEF Land, MayWrite, Older, Goto, TypeOK, OthersAreUpToDate, InHand,
           OnlyTheLateBringItBack, DeletesArePast
  <1>5. RequestsRenewNothing'
    BY <1>t, KindAssumption, AnswerType DEF Land, RequestsRenewNothing, TypeOK
  <1> QED  BY <1>1, <1>2, <1>3, <1>4, <1>5

\* A failed flight gives nothing.
LEMMA CrashKeeps ==
    ASSUME IInv, NEW t \in Loader, Crash(t)
    PROVE  IInv'
  <1> USE DEF IInv
  <1>t. t \in Thread  BY DEF Thread, Loader
  <1>1. TypeOK'
    BY <1>t, AnswerType, ExpireAssumption, BoundAssumption DEF TypeOK, Crash, Goto
  <1>2. DeletesArePast' /\ OnlyTheLateBringItBack'
    BY DEF Crash, DeletesArePast, OnlyTheLateBringItBack
  <1>3. EmptyHands'
    BY <1>t, AnswerType, NoneAssumption DEF Crash, EmptyHands, Goto, TypeOK
  <1>4. OthersAreUpToDate'
    <2>1. held[t] = None /\ held'[t] = None /\ old' = old /\ pc[t] = "first"
      BY <1>t, AnswerType, NoneAssumption DEF Crash, EmptyHands
    <2>2. CASE old[t] = None
      BY <2>1, <2>2, <1>t, AnswerType, HandsKept, NoneAssumption
         DEF Crash, MayWrite, Older
    <2>3. CASE old[t] # None
      BY <2>1, <2>3, <1>t, AnswerType, HandsKept, NoneAssumption
         DEF Crash, MayWrite, Older
    <2> QED  BY <2>2, <2>3
  <1>5. RequestsRenewNothing'
    BY <1>t, KindAssumption, AnswerType DEF Crash, RequestsRenewNothing, TypeOK
  <1> QED  BY <1>1, <1>2, <1>3, <1>4, <1>5

\* Whoever waited too long looks into the cache, but does not write.
LEMMA TimeOutKeeps ==
    ASSUME IInv, NEW t \in Loader, TimeOut(t)
    PROVE  IInv'
  <1> USE DEF IInv
  <1>t. t \in Thread  BY DEF Thread, Loader
  <1>1. TypeOK'
    BY <1>t, EndType, ExpireAssumption, BoundAssumption DEF TypeOK, TimeOut, Goto
  <1>2. DeletesArePast' /\ OnlyTheLateBringItBack'
    BY DEF TimeOut, DeletesArePast, OnlyTheLateBringItBack
  <1>3. EmptyHands'
    BY <1>t, EndType, NoneAssumption DEF TimeOut, EmptyHands, Goto, TypeOK
  <1>4. OthersAreUpToDate'
    BY <1>t, EndType, HandsKept, NoneAssumption
       DEF TimeOut, MayWrite, Older, Goto, TypeOK, OthersAreUpToDate, InHand,
           OnlyTheLateBringItBack, DeletesArePast
  <1>5. RequestsRenewNothing'
    BY <1>t, EndType DEF TimeOut, RequestsRenewNothing, Thread
  <1> QED  BY <1>1, <1>2, <1>3, <1>4, <1>5

\* A return writes nothing.
LEMMA ReturnKeeps ==
    ASSUME IInv, NEW t \in Loader, Return(t)
    PROVE  IInv'
  <1> USE DEF IInv
  <1>t. t \in Thread  BY DEF Thread, Loader
  <1>1. TypeOK'
    BY <1>t, EndType, ExpireAssumption, BoundAssumption DEF TypeOK, Return, Goto
  <1>2. DeletesArePast' /\ OnlyTheLateBringItBack'
    BY DEF Return, DeletesArePast, OnlyTheLateBringItBack
  <1>3. EmptyHands'
    BY <1>t, EndType, NoneAssumption DEF Return, EmptyHands, Goto, TypeOK
  <1>4. OthersAreUpToDate'
    BY <1>t, EndType, HandsKept, NoneAssumption
       DEF Return, MayWrite, Older, Goto, TypeOK, OthersAreUpToDate, InHand,
           OnlyTheLateBringItBack, DeletesArePast
  <1>5. RequestsRenewNothing'
    BY <1>t, EndType DEF Return, RequestsRenewNothing, Thread
  <1> QED  BY <1>1, <1>2, <1>3, <1>4, <1>5

\* A write is up to date, or done by one of the late.
LEMMA PutKeeps ==
    ASSUME IInv, NEW t \in Thread, NEW d \in Data, NEW ticks \in Nat,
           ticks <= Expire \/ ticks <= RenewExpire,
           t \notin late /\ ~returned => ~Older(d, deletedAt),
           UNCHANGED lockOn, Put(t, d, ticks)
    PROVE  IInv'
  <1> USE DEF IInv
  <1>1. TypeOK'
    BY EndType DEF TypeOK, Put
  <1>2. OnlyTheLateBringItBack'
    <2>1. CASE cache' = d /\ returned' = (returned \/ (t \in late /\ Older(d, deletedAt)))
      BY <2>1 DEF Put, OnlyTheLateBringItBack, TypeOK
    <2>2. CASE UNCHANGED <<cache, returned>>
      BY <2>2 DEF Put, OnlyTheLateBringItBack
    <2> QED  BY <2>1, <2>2 DEF Put
  <1>3. EmptyHands'
    BY EndType DEF Put, EmptyHands
  <1>4. OthersAreUpToDate'
    <2>1. ~returned' => ~returned  BY DEF Put, TypeOK
    <2> QED  BY <2>1, EndType, HandsKept DEF Put, MayWrite, Older
  <1>5. RequestsRenewNothing'
    BY EndType DEF Put, RequestsRenewNothing, Thread
  <1> QED  BY <1>1, <1>2, <1>3, <1>4, <1>5 DEF Put, DeletesArePast

\* The data of a load.
LEMMA WriteCacheKeeps ==
    ASSUME IInv, NEW t \in Thread, WriteCache(t)
    PROVE  IInv'
  <1>1. held[t] \in Data /\ Expire \in Nat /\ Put(t, held[t], Expire)
    BY ExpireAssumption DEF IInv, TypeOK, WriteCache
  <1>2. t \notin late /\ ~returned => ~Older(held[t], deletedAt)
    BY DEF IInv, OthersAreUpToDate, MayWrite, InHand, WriteCache
  <1>3. UNCHANGED lockOn  BY <1>1 DEF Put
  <1>4. Expire <= Expire  BY ExpireAssumption
  <1> QED  BY <1>1, <1>2, <1>3, <1>4, PutKeeps

\* The data that is renewed.
LEMMA RenewKeeps ==
    ASSUME IInv, NEW t \in Thread, Renew(t)
    PROVE  IInv'
  <1> DEFINE ticks == IF Expire = 0 THEN 0 ELSE RenewExpire
  <1>1. old[t] \in Data /\ ticks \in Nat /\ Put(t, old[t], ticks)
    BY ExpireAssumption DEF IInv, TypeOK, Renew
  <1>2. t \notin late /\ ~returned => ~Older(old[t], deletedAt)
    BY DEF IInv, OthersAreUpToDate, MayWrite, InHand, Renew
  <1>3. UNCHANGED lockOn  BY <1>1 DEF Put
  <1>4. ticks <= Expire \/ ticks <= RenewExpire  BY ExpireAssumption
  <1> HIDE DEF ticks
  <1> QED  BY <1>1, <1>2, <1>3, <1>4, PutKeeps

\* The data of a writer is ahead of every delete.
LEMMA UpdateKeeps ==
    ASSUME IInv, NEW w \in Writer, Update(w)
    PROVE  IInv'
  <1> USE DEF IInv
  <1>t. w \in Thread  BY DEF Thread
  <1>1. TypeOK'
    BY <1>t, BoundAssumption DEF TypeOK, Update, Goto
  <1>2. DeletesArePast' /\ OnlyTheLateBringItBack'
    BY DEF Update, DeletesArePast, OnlyTheLateBringItBack, TypeOK
  <1>3. EmptyHands'
    BY <1>t, NoneAssumption DEF Update, EmptyHands, Goto, TypeOK
  <1>4. OthersAreUpToDate'
    BY <1>t, HandsKept, NoneAssumption
       DEF Update, MayWrite, Older, Goto, TypeOK, OthersAreUpToDate, InHand,
           DeletesArePast
  <1>5. RequestsRenewNothing'
    BY DEF Update, RequestsRenewNothing
  <1> QED  BY <1>1, <1>2, <1>3, <1>4, <1>5

\* A delete starts a new account of who is late.
LEMMA DeleteKeeps ==
    ASSUME IInv, NEW w \in Writer, Delete(w)
    PROVE  IInv'
  <1> USE DEF IInv
  <1>t. w \in Thread  BY DEF Thread
  <1>1. TypeOK'
    <2>1. 0 <= Expire /\ 0 \in Nat  BY ExpireAssumption
    <2>2. db' = db /\ db \in Nat  BY BoundAssumption DEF TypeOK, Delete
    <2>3. late' \in SUBSET Thread  BY DEF TypeOK, Delete
    <2>4. cache' \in Data /\ life' \in Nat /\ (life' <= Expire \/ life' <= RenewExpire)
      BY <2>1 DEF TypeOK, Delete
    <2>5. deletedAt' \in Version /\ returned' \in BOOLEAN
      BY <2>2 DEF TypeOK, Delete
    <2>6. End(w) /\ UNCHANGED <<db, lockOn, processing>>  BY DEF Delete
    <2> QED  BY <1>t, <2>3, <2>4, <2>5, <2>6, EndType DEF TypeOK
  <1>2. DeletesArePast' /\ OnlyTheLateBringItBack'
    BY DEF Delete, DeletesArePast, OnlyTheLateBringItBack, TypeOK, Older
  <1>3. EmptyHands'
    BY <1>t, EndType DEF Delete, EmptyHands
  <1>4. OthersAreUpToDate'
    BY <1>t, EndType DEF Delete, MayWrite, Older, OthersAreUpToDate, InHand
  <1>5. RequestsRenewNothing'
    BY <1>t, EndType DEF Delete, RequestsRenewNothing, Thread
  <1> QED  BY <1>1, <1>2, <1>3, <1>4, <1>5

-----------------------------------------------------------------------------
\* Nothing is in the cache, in the air or in hand at first.
THEOREM InitIInv ==
    ASSUME Init PROVE IInv
  <1>1. TypeOK
    <2>1. db \in 0 .. MaxVersion /\ life \in Nat /\ life <= Expire
      BY ExpireAssumption, BoundAssumption DEF Init
    <2>2. pc \in [Thread -> PC]  BY DEF Init
    <2>3. /\ processing \in [Server -> Thread \cup {None}]
          /\ joined \in [Thread -> Thread \cup {None}]
      BY DEF Init
    <2>4. held \in [Thread -> Data] /\ old \in [Thread -> Data]  BY DEF Init
    <2> QED  BY <2>1, <2>2, <2>3, <2>4 DEF Init, TypeOK
  <1>2. DeletesArePast /\ EmptyHands /\ RequestsRenewNothing
    BY DEF Init, DeletesArePast, EmptyHands, RequestsRenewNothing, Thread
  <1>3. OthersAreUpToDate /\ OnlyTheLateBringItBack
    BY DEF Init, OthersAreUpToDate, OnlyTheLateBringItBack, Older, InHand
  <1> QED  BY <1>1, <1>2, <1>3 DEF IInv

\* Each action keeps the invariant.
THEOREM NextIInv ==
    ASSUME IInv, [Next]_vars PROVE IInv'
  <1>1. CASE Age
    BY <1>1, ExpireAssumption
       DEF Age, IInv, TypeOK, DeletesArePast, EmptyHands, RequestsRenewNothing,
           OthersAreUpToDate, OnlyTheLateBringItBack, Older, InHand, MayWrite
  <1>2. CASE Lose
    BY <1>2, ExpireAssumption
       DEF Lose, IInv, TypeOK, DeletesArePast, EmptyHands, RequestsRenewNothing,
           OthersAreUpToDate, OnlyTheLateBringItBack, Older, InHand, MayWrite
  <1>3. CASE LockDown \/ UNCHANGED vars
    BY <1>3
       DEF LockDown, vars, IInv, TypeOK, DeletesArePast, EmptyHands,
           RequestsRenewNothing, OthersAreUpToDate, OnlyTheLateBringItBack,
           Older, InHand, MayWrite
  <1>4. CASE \E r \in Request : Hit(r) \/ DoRefresh(r) \/ Miss(r)
    BY <1>4, HitKeeps, DoRefreshKeeps, MissKeeps
  <1>5. CASE \E f \in Refresher : Drop(f)
    BY <1>5, DropKeeps
  <1>6. CASE \E a \in AutoLoader : LoadCache(a)
    BY <1>6, LoadCacheKeeps
  <1>7. CASE \E t \in Loader : Step(t) \/ Dao(t) \/ Poll(t) \/ Crash(t)
    <2>1. PICK t \in Loader : Step(t) \/ Dao(t) \/ Poll(t) \/ Crash(t)
      BY <1>7
    <2>2. t \in Thread  BY DEF Loader, Thread
    <2> QED
      BY <2>1, <2>2, LoadDataKeeps, LandKeeps, TimeOutKeeps, ReturnKeeps,
         WriteCacheKeeps, RenewKeeps, DaoKeeps, PollKeeps, CrashKeeps DEF Step
  <1>8. CASE \E w \in Writer : Update(w) \/ Delete(w) \/ WriteCache(w)
    <2>1. PICK w \in Writer : Update(w) \/ Delete(w) \/ WriteCache(w)
      BY <1>8
    <2>2. w \in Thread  BY DEF Thread
    <2> QED  BY <2>1, <2>2, UpdateKeeps, DeleteKeeps, WriteCacheKeeps
  <1> QED
    BY <1>1, <1>2, <1>3, <1>4, <1>5, <1>6, <1>7, <1>8 DEF Next

\* The invariant holds throughout.
THEOREM Inductive == Spec => []IInv
  BY InitIInv, NextIInv, PTL DEF Spec

\* Every variable keeps its type, with any number of threads, servers and
\* updates: no entry of the cache gets a longer life than expire or the renewal
\* gives.
THEOREM TypeCorrect == Spec => []TypeOK
  BY Inductive, PTL DEF IInv

\* However many flights, refreshes, auto-loads, waiters and deletes overlap, on
\* however many servers: data older than a delete comes back into the cache by a
\* thread that had it in hand then, or not at all.
THEOREM DeletedDataStaysAway == Spec => []OnlyTheLateBringItBack
  BY Inductive, PTL DEF IInv

\* As long as none of those has written, no other thread has older data that it
\* could write.
THEOREM HandsAreUpToDate == Spec => []OthersAreUpToDate
  BY Inductive, PTL DEF IInv
=============================================================================

-------------------------- MODULE ComboCache_proofs --------------------------
(***************************************************************************)
(* Safety of ComboCache, for any servers, threads, life times and bounds.  *)
(*                                                                         *)
(* Two things are kept by every step.  Aging: what is left of a copy's     *)
(* life and how long its data has been outdated, or how long ago a renewal *)
(* was, add up to no more than BoundedStaleness allows.                    *)
(* HandsAreUpToDate: who is no carrier has nothing older than the last     *)
(* delete in hand, to write or to renew.  Most steps move one thread and   *)
(* change what it has in hand; MoveKeeps says once what such a step keeps. *)
(***************************************************************************)
EXTENDS ComboCache, TLAPS

Bounded(c) ==
    c # None =>
        /\ c.v <= db
        /\ c.life > 0 =>
              \/ /\ c.life <= Expire
                 /\ c.v < db => c.life + outdated[c.v] <= Expire + LoadTime
              \/ c.life + renewedAgo <= RenewExpire

\* The same for data that is still being loaded.
Loading(c) ==
    /\ c.v <= db
    /\ c.life <= LoadTime
    /\ c.v < db => c.life + outdated[c.v] <= LoadTime

CachesAge == Bounded(remote) /\ \A s \in Server : Bounded(local[s])

HandsAge ==
    \A t \in Thread :
        /\ IF pc[t] = "loading" THEN Loading(held[t]) ELSE Bounded(held[t])
        /\ old[t] # None => old[t] <= db

\* Neither the copy c nor what v would be renewed with is older than the last delete.
UpToDate(c, v) == ~Older(c, deletedAt) /\ (v # None => v >= deletedAt)

HandsAreUpToDate ==
    ~returned => \A t \in Thread \ carriers : UpToDate(held[t], old[t])

\* TypeOK in three parts.
CachesTyped ==
    /\ remote \in Copy \cup {None}
    /\ local \in [Server -> Copy \cup {None}]

HandsTyped ==
    /\ pc \in [Thread -> PC]
    /\ why \in [Thread -> {"get", "mget", "poll"}]
    /\ held \in [Thread -> Copy \cup {None}]
    /\ old \in [Thread -> Version \cup {None}]
    /\ \A t \in Thread :
          /\ held[t] # None <=> pc[t] \in {"refill", "loading", "setLocal", "setRemote"}
          /\ old[t] # None => pc[t] \in {"first", "remote", "refill"}

RestTyped ==
    /\ db \in Version
    /\ outdated \in [Version -> 0 .. MaxOutdated]
    /\ renewedAgo \in 0 .. RenewExpire
    /\ deletedAt \in Version
    /\ deletedBy \in Server
    /\ carriers \in SUBSET Thread

IInv ==
    /\ CachesTyped /\ HandsTyped /\ RestTyped /\ returned \in BOOLEAN
    /\ deletedAt <= db
    /\ CachesAge /\ HandsAge
    /\ HandsAreUpToDate
    /\ OnlyCarriersBringItBack

LEMMA Constants ==
    /\ Expire \in Nat /\ RenewExpire \in Nat /\ LoadTime \in Nat /\ MaxVersion \in Nat
    /\ MaxOutdated \in Nat
  BY TimeAssumption, BoundAssumption DEF MaxOutdated

\* What the numbers are.
LEMMA Numbers ==
    ASSUME IInv
    PROVE  /\ db \in Nat /\ deletedAt \in Nat /\ renewedAgo \in Nat
           /\ \A v \in Version : v \in Nat /\ outdated[v] \in Nat
           /\ \A c \in Copy : c.v \in Version /\ c.v \in Nat /\ c.life \in Nat /\ c # None
  BY Constants, NoneAssumption DEF IInv, RestTyped, Version, Copy

-----------------------------------------------------------------------------
(* One thread moves *)

Moves(t, where, c, v) ==
    /\ pc' = [pc EXCEPT ![t] = where]
    /\ held' = [held EXCEPT ![t] = c]
    /\ old' = [old EXCEPT ![t] = v]
    /\ why' \in [Thread -> {"get", "mget", "poll"}]

\* What a thread has in hand suits where it is.
Fits(where, c, v) ==
    /\ where \in PC
    /\ c \in Copy \cup {None}
    /\ v \in Version \cup {None}
    /\ c # None <=> where \in {"refill", "loading", "setLocal", "setRemote"}
    /\ v # None => where \in {"first", "remote", "refill"}

\* Nobody is forgotten as a carrier but who is done.
CarriersKept ==
    /\ carriers' \in SUBSET Thread
    /\ \A q \in carriers : q \in carriers' \/ pc'[q] = "idle"

LEMMA GotoMoves ==
    ASSUME HandsTyped, NEW t \in Thread, NEW where, NEW c, NEW v, Goto(t, where, c, v)
    PROVE  Moves(t, where, c, v)
  BY DEF HandsTyped, Goto, Moves

LEMMA CarryKeeps ==
    ASSUME RestTyped, NEW who \in SUBSET Thread, carriers \subseteq who, Carry(who)
    PROVE  CarriersKept
  BY DEF RestTyped, Carry, CarriersKept

\* A copy that moves is as good as before; a renewal makes no other copy worse.
LEMMA BoundedStays ==
    ASSUME IInv, NEW c \in Copy \cup {None}, Bounded(c),
           UNCHANGED <<db, outdated>>, renewedAgo' \in {renewedAgo, 0}
    PROVE  Bounded(c)'
  BY Constants, Numbers DEF Bounded

LEMMA MoveKeeps ==
    ASSUME IInv, NEW t \in Thread, NEW where, NEW c, NEW v,
           Moves(t, where, c, v), Fits(where, c, v),
           (IF where = "loading" THEN Loading(c) ELSE Bounded(c))',
           v # None => v <= db,
           UNCHANGED <<db, outdated, deletedAt>>, renewedAgo' \in {renewedAgo, 0},
           CarriersKept,
           ~returned' => ~returned,
           ~returned' => t \in carriers' \/ UpToDate(c, v)
    PROVE  HandsTyped' /\ HandsAge' /\ HandsAreUpToDate'
  <1>1. /\ pc'[t] = where /\ held'[t] = c /\ old'[t] = v
        /\ \A q \in Thread \ {t} : pc'[q] = pc[q] /\ held'[q] = held[q] /\ old'[q] = old[q]
    BY DEF Moves, IInv, HandsTyped
  <1>2. HandsTyped'
    <2>1. /\ pc' \in [Thread -> PC]
          /\ held' \in [Thread -> Copy \cup {None}]
          /\ old' \in [Thread -> Version \cup {None}]
      BY DEF Moves, Fits, IInv, HandsTyped
    <2> QED  BY <1>1, <2>1 DEF Moves, Fits, IInv, HandsTyped
  <1>3. HandsAge'
    <2>1. ASSUME NEW q \in Thread \ {t}
          PROVE  /\ (IF pc[q] = "loading" THEN Loading(held[q]) ELSE Bounded(held[q]))'
                 /\ old'[q] # None => old'[q] <= db'
      <3>1. held[q] \in Copy \cup {None}  BY DEF IInv, HandsTyped
      <3>2. CASE pc[q] = "loading"  BY <1>1, <3>2 DEF IInv, HandsAge, Loading
      <3>3. CASE pc[q] # "loading"
        <4>1. Bounded(held[q])  BY <3>3 DEF IInv, HandsAge
        <4>2. PICK d \in Copy \cup {None} : d = held[q]  BY <3>1
        <4>3. Bounded(d)'  BY <4>1, <4>2, BoundedStays
        <4> QED  BY <1>1, <3>3, <4>2, <4>3 DEF IInv, HandsAge, Bounded
      <3> QED  BY <3>2, <3>3
    <2>2. /\ (IF pc[t] = "loading" THEN Loading(held[t]) ELSE Bounded(held[t]))'
          /\ old'[t] # None => old'[t] <= db'
      BY <1>1 DEF Loading, Bounded
    <2> QED  BY <2>1, <2>2 DEF HandsAge
  <1>4. HandsAreUpToDate'
    <2> SUFFICES ASSUME ~returned', NEW q \in Thread \ carriers'
                 PROVE  UpToDate(held'[q], old'[q])
      BY DEF HandsAreUpToDate, UpToDate, Older
    <2>1. CASE q = t  BY <1>1, <2>1
    <2>2. CASE q # t /\ q \notin carriers
      BY <1>1, <2>2 DEF IInv, HandsAreUpToDate
    <2>3. CASE q # t /\ q \in carriers
      <3>1. pc'[q] = "idle"  BY <2>3 DEF CarriersKept
      <3>2. held'[q] = None /\ old'[q] = None  BY <1>2, <3>1 DEF HandsTyped
      <3> QED  BY <3>2 DEF UpToDate, Older
    <2> QED  BY <2>1, <2>2, <2>3
  <1> QED  BY <1>2, <1>3, <1>4

\* A thread that ends has nothing in hand.
LEMMA EndKeeps ==
    ASSUME IInv, NEW t \in Thread, End(t),
           UNCHANGED <<db, outdated, renewedAgo, deletedAt>>, CarriersKept,
           ~returned' => ~returned
    PROVE  HandsTyped' /\ HandsAge' /\ HandsAreUpToDate'
  <1>1. Moves(t, "idle", None, None)  BY GotoMoves DEF End, IInv
  <1>2. Fits("idle", None, None)  BY DEF Fits, PC
  <1>3. Bounded(None)' /\ UpToDate(None, None)  BY DEF Bounded, UpToDate, Older
  <1> QED  BY <1>1, <1>2, <1>3, MoveKeeps

-----------------------------------------------------------------------------
(* What the parts of the actions do *)

\* Who writes older data to where the delete was is noticed.
LEMMA UndoNotices ==
    ASSUME IInv, NEW t \in Thread, Undo(t)
    PROVE  /\ returned' \in BOOLEAN
           /\ ~returned' => ~returned /\ ~Older(held[t], deletedAt)
  <1>1. ~returned' => ~returned  BY DEF Undo, IInv
  <1>2. ~returned' /\ t \in carriers => ~Older(held[t], deletedAt)  BY DEF Undo, IInv
  <1>3. ~returned /\ t \notin carriers => ~Older(held[t], deletedAt)
    BY DEF IInv, HandsAreUpToDate, UpToDate
  <1>4. returned' \in BOOLEAN  BY DEF Undo, IInv
  <1> QED  BY <1>1, <1>2, <1>3, <1>4

\* The copy in hand, the one that was there, or nothing is in the local cache.
LEMMA SetLocalCacheKeeps ==
    ASSUME IInv, NEW t \in Thread, held[t] \in Copy, Bounded(held[t]),
           SetLocalCache(t, held[t]),
           UNCHANGED <<db, remote, times, deletedAt, deletedBy>>
    PROVE  /\ CachesTyped' /\ CachesAge'
           /\ returned' \in BOOLEAN
           /\ ~returned' => ~returned
           /\ OnlyCarriersBringItBack'
  <1>0. remote' = remote /\ deletedAt' = deletedAt /\ deletedBy' = deletedBy  OBVIOUS
  <1>1. Kept(held[t]) \in {held[t], None}  BY DEF Kept
  <1>2. \A s \in Server : local'[s] \in {local[s], held[t], None}
    BY <1>1, ServerAssumption DEF SetLocalCache, IInv, CachesTyped
  <1>3. local' \in [Server -> Copy \cup {None}]
    BY <1>1, ServerAssumption DEF SetLocalCache, IInv, CachesTyped
  <1>4. CachesTyped'  BY <1>3 DEF IInv, CachesTyped
  <1>5. CachesAge'
    BY <1>2 DEF IInv, CachesAge, Bounded, times
  <1>6. returned' \in BOOLEAN /\ (~returned' => ~returned)
    BY UndoNotices DEF SetLocalCache, IInv
  <1>7. deletedBy \in Server  BY DEF IInv, RestTyped
  <1>8. ~returned => ~Older(remote, deletedAt) /\ ~Older(local[deletedBy], deletedAt)
    BY DEF IInv, OnlyCarriersBringItBack
  <1>9. ASSUME ServerOf[t] = deletedBy, Undo(t) PROVE OnlyCarriersBringItBack'
    <2>1. ~returned' => ~returned /\ ~Older(held[t], deletedAt)
      BY <1>9, UndoNotices
    <2>2. local'[deletedBy] \in {local[deletedBy], held[t], None}
      BY <1>2, <1>7
    <2>3. ~Older(None, deletedAt)  BY DEF Older
    <2>4. ~returned' => ~Older(remote, deletedAt) /\ ~Older(local'[deletedBy], deletedAt)
      BY <1>8, <2>1, <2>2, <2>3
    <2> QED  BY <1>0, <2>4 DEF OnlyCarriersBringItBack, Older
  <1>10. ASSUME ServerOf[t] # deletedBy \/ local' = local PROVE OnlyCarriersBringItBack'
    <2>1. local'[deletedBy] = local[deletedBy]
      BY <1>7, <1>10, ServerAssumption DEF SetLocalCache, IInv, CachesTyped
    <2> QED  BY <1>0, <1>6, <1>8, <2>1 DEF OnlyCarriersBringItBack, Older
  <1>11. OnlyCarriersBringItBack'
    BY <1>6, <1>9, <1>10 DEF SetLocalCache
  <1> QED  BY <1>4, <1>5, <1>6, <1>11

\* After get or mget a thread is done, loads with something to renew or nothing, or
\* writes what it got.
LEMMA AnswerGives ==
    ASSUME NEW t \in Thread, NEW reason \in {"get", "mget", "poll"}, NEW c,
           Answer(t, reason, c)
    PROVE  \E where, h, v :
              /\ where \in {"idle", "first", "setLocal"}
              /\ Goto(t, where, h, v)
              /\ h = IF where = "setLocal" THEN c ELSE None
              /\ where = "setLocal" => c # None
              /\ v # None => where = "first" /\ (v = old[t] \/ (c # None /\ v = c.v))
  <1>1. CASE End(t)
    <2>1. Goto(t, "idle", None, None)  BY <1>1 DEF End
    <2> QED  BY <2>1
  <1>2. CASE Goto(t, "first", None, None)
    BY <1>2
  <1>3. CASE Goto(t, "first", None,
                  IF Live(c) \/ (c # None /\ t \in AutoLoader) THEN c.v ELSE None)
    <2>1. CASE Live(c) \/ (c # None /\ t \in AutoLoader)
      <3>1. c # None /\ Goto(t, "first", None, c.v)  BY <1>3, <2>1 DEF Live
      <3> QED  BY <3>1
    <2>2. CASE ~(Live(c) \/ (c # None /\ t \in AutoLoader))
      <3>1. Goto(t, "first", None, None)  BY <1>3, <2>2
      <3> QED  BY <3>1
    <2> QED  BY <2>1, <2>2
  <1>4. CASE c # None /\ Goto(t, "setLocal", c, None)
    BY <1>4
  <1>5. CASE Goto(t, "first", None, old[t])
    BY <1>5
  <1> QED  BY <1>1, <1>2, <1>3, <1>4, <1>5 DEF Answer

\* So who asks and gets c, up to date or known as a carrier, keeps the hands in order.
LEMMA AnswerKeeps ==
    ASSUME IInv, NEW t \in Thread, NEW reason \in {"get", "mget", "poll"},
           NEW c \in Copy \cup {None}, Answer(t, reason, c), Bounded(c),
           UNCHANGED <<db, outdated, renewedAgo, deletedAt>>, CarriersKept,
           ~returned' => ~returned,
           ~returned' => \/ t \in carriers'
                         \/ pc'[t] = "idle"
                         \/ ~Older(c, deletedAt) /\ UpToDate(held[t], old[t])
    PROVE  HandsTyped' /\ HandsAge' /\ HandsAreUpToDate'
  <1>1. PICK where, h, v :
              /\ where \in {"idle", "first", "setLocal"}
              /\ Goto(t, where, h, v)
              /\ h = IF where = "setLocal" THEN c ELSE None
              /\ where = "setLocal" => c # None
              /\ v # None => where = "first" /\ (v = old[t] \/ (c # None /\ v = c.v))
    BY AnswerGives
  <1>2. Moves(t, where, h, v)  BY <1>1, GotoMoves DEF IInv
  <1>3. old[t] \in Version \cup {None} /\ (old[t] # None => old[t] <= db)
    BY DEF IInv, HandsTyped, HandsAge
  <1>4. v \in Version \cup {None} /\ (v # None => v <= db)
    BY <1>1, <1>3, Numbers DEF Bounded
  <1>5. Fits(where, h, v)  BY <1>1, <1>4 DEF Fits, PC
  <1>6. (IF where = "loading" THEN Loading(h) ELSE Bounded(h))'
    BY <1>1 DEF Bounded
  <1>7. ~returned' => t \in carriers' \/ UpToDate(h, v)
    <2>1. CASE pc'[t] = "idle"
      <3>1. where = "idle"  BY <1>2, <2>1 DEF Moves, IInv, HandsTyped
      <3> QED  BY <1>1, <3>1 DEF UpToDate, Older
    <2>2. CASE ~Older(c, deletedAt) /\ UpToDate(held[t], old[t])
      BY <1>1, <2>2, Numbers DEF UpToDate, Older
    <2> QED  BY <2>1, <2>2
  <1> QED  BY <1>2, <1>4, <1>5, <1>6, <1>7, MoveKeeps

\* A renewal gives old data a new life, which ends RenewExpire ticks later at the most.
LEMMA RenewKeeps ==
    ASSUME IInv, NEW t \in Thread, Renew(t),
           UNCHANGED <<db, outdated, deletedAt, returned>>, CarriersKept
    PROVE  /\ HandsTyped' /\ HandsAge' /\ HandsAreUpToDate'
           /\ renewedAgo' \in {renewedAgo, 0}
  <1>1. CASE old[t] = None
    <2>1. End(t) /\ UNCHANGED renewedAgo  BY <1>1 DEF Renew
    <2> QED  BY <2>1, EndKeeps
  <1>2. CASE old[t] # None
    <2>1. PICK ticks \in 1 .. RenewExpire :
              Goto(t, "setLocal", [v |-> old[t], life |-> ticks], None)
      BY <1>2 DEF Renew
    <2>2. renewedAgo' = 0  BY <1>2 DEF Renew
    <2>3. PICK c : c = [v |-> old[t], life |-> ticks]  OBVIOUS
    <2>4. old[t] \in Version /\ old[t] <= db
      BY <1>2 DEF IInv, HandsTyped, HandsAge
    <2>5. c \in Copy /\ c.v = old[t] /\ c.life \in Nat /\ c.life <= RenewExpire
      BY <2>3, <2>4, Constants DEF Copy
    <2>6. Moves(t, "setLocal", c, None)  BY <2>1, <2>3, GotoMoves DEF IInv
    <2>7. Fits("setLocal", c, None)  BY <2>5, NoneAssumption DEF Fits, PC
    <2>8. Bounded(c)'  BY <2>2, <2>4, <2>5, Constants DEF Bounded
    <2>9. ~returned' => t \in carriers' \/ UpToDate(c, None)
      <3>1. CASE t \in carriers
        <4>1. pc'[t] = "setLocal"  BY <2>6 DEF Moves, IInv, HandsTyped
        <4> QED  BY <3>1, <4>1 DEF CarriersKept
      <3>2. CASE t \notin carriers
        <4>1. ~returned' => UpToDate(held[t], old[t])
          BY <3>2 DEF IInv, HandsAreUpToDate
        <4> QED  BY <1>2, <2>4, <2>5, <4>1, Numbers DEF UpToDate, Older
      <3> QED  BY <3>1, <3>2
    <2> QED  BY <2>2, <2>6, <2>7, <2>8, <2>9, MoveKeeps
  <1> QED  BY <1>1, <1>2

\* Where the caches are left alone they stay in order.
LEMMA CachesStay ==
    ASSUME IInv, UNCHANGED <<db, caches, outdated, deletes>>, renewedAgo' \in {renewedAgo, 0}
    PROVE  /\ CachesTyped' /\ CachesAge' /\ OnlyCarriersBringItBack'
           /\ returned' \in BOOLEAN
  <1>1. remote \in Copy \cup {None} /\ \A s \in Server : local[s] \in Copy \cup {None}
    BY DEF IInv, CachesTyped
  <1>2. ASSUME NEW c \in Copy \cup {None}, Bounded(c) PROVE Bounded(c)'
    BY <1>2, BoundedStays
  <1>3. CachesAge'
    <2>1. Bounded(remote)'
      BY <1>1, <1>2 DEF IInv, CachesAge, Bounded, caches
    <2>2. \A s \in Server : Bounded(local[s])'
      BY <1>1, <1>2 DEF IInv, CachesAge, Bounded, caches
    <2> QED  BY <2>1, <2>2 DEF CachesAge
  <1> QED
    BY <1>3 DEF IInv, CachesTyped, OnlyCarriersBringItBack, caches, deletes

LEMMA RestStays ==
    ASSUME IInv, UNCHANGED <<db, outdated, deletedAt, deletedBy>>,
           renewedAgo' \in {renewedAgo, 0}, carriers' \in SUBSET Thread
    PROVE  RestTyped' /\ (deletedAt <= db)'
  BY Constants DEF IInv, RestTyped

-----------------------------------------------------------------------------
(* Every action keeps the invariant: get and mget *)

\* Who takes an older copy from his local cache is a carrier from then on: it can be
\* there only on a server other than that of the delete.
LEMMA GetLocalKeeps ==
    ASSUME IInv, NEW t \in Thread, NEW reason \in {"get", "mget", "poll"},
           GetLocal(t, reason)
    PROVE  IInv'
  <1>1. PICK c \in Copy \cup {None} : c = local[ServerOf[t]]
    BY ServerAssumption DEF IInv, CachesTyped
  <1>2. /\ Answer(t, reason, c) /\ Take(t, c) /\ t \notin AutoLoader
        /\ UNCHANGED <<db, caches, times, deletes>>
    BY <1>1 DEF GetLocal
  <1>3. UNCHANGED <<db, outdated, renewedAgo, deletedAt, deletedBy, returned>>
    BY <1>2 DEF times, deletes
  <1>4. PICK who \in SUBSET Thread :
              /\ who = IF Older(c, deletedAt) /\ ServerOf[t] # deletedBy
                       THEN carriers \cup ({t} \ AutoLoader) ELSE carriers
              /\ carriers \subseteq who /\ Carry(who)
    <2>1. carriers \subseteq Thread  BY DEF IInv, RestTyped
    <2> QED  BY <1>2, <2>1 DEF Take
  <1>5. CarriersKept  BY <1>4, CarryKeeps DEF IInv
  <1>6. Bounded(c)  BY <1>1, ServerAssumption DEF IInv, CachesAge
  <1>7. ~returned' => \/ t \in carriers' \/ pc'[t] = "idle"
                      \/ ~Older(c, deletedAt) /\ UpToDate(held[t], old[t])
    <2> SUFFICES ASSUME ~returned', t \notin carriers', pc'[t] # "idle"
                 PROVE  ~Older(c, deletedAt) /\ UpToDate(held[t], old[t])
      OBVIOUS
    <2>1. t \notin who  BY <1>4 DEF Carry
    <2>2. t \notin carriers  BY <1>4, <2>1
    <2>3. ~(Older(c, deletedAt) /\ ServerOf[t] # deletedBy)  BY <1>2, <1>4, <2>1
    <2>4. ServerOf[t] = deletedBy => ~Older(c, deletedAt)
      BY <1>1, <1>3 DEF IInv, OnlyCarriersBringItBack
    <2>5. UpToDate(held[t], old[t])  BY <1>3, <2>2 DEF IInv, HandsAreUpToDate
    <2> QED  BY <2>3, <2>4, <2>5
  <1>8. HandsTyped' /\ HandsAge' /\ HandsAreUpToDate'
    BY <1>2, <1>3, <1>5, <1>6, <1>7, AnswerKeeps
  <1>9. /\ CachesTyped' /\ CachesAge' /\ OnlyCarriersBringItBack'
        /\ returned' \in BOOLEAN
    BY <1>2, <1>3, CachesStay
  <1>10. RestTyped' /\ (deletedAt <= db)'
    BY <1>3, <1>5, RestStays DEF CarriersKept
  <1> QED  BY <1>8, <1>9, <1>10 DEF IInv

\* To ask takes nothing.
LEMMA AskRemoteKeeps ==
    ASSUME IInv, NEW t \in Thread, NEW reason \in {"get", "mget", "poll"},
           AskRemote(t, reason)
    PROVE  IInv'
  <1>1. /\ pc' = [pc EXCEPT ![t] = "remote"] /\ why' = [why EXCEPT ![t] = reason]
        /\ UNCHANGED <<db, caches, held, old, times, carriers, deletes>>
        /\ pc[t] \in {"first", "idle"}
    BY DEF AskRemote
  <1>2. UNCHANGED <<db, outdated, renewedAgo, deletedAt, deletedBy, returned>>
    BY <1>1 DEF times, deletes
  <1>3. held[t] = None /\ old[t] \in Version \cup {None}
    BY <1>1 DEF IInv, HandsTyped
  <1>4. Moves(t, "remote", held[t], old[t])
    BY <1>1 DEF IInv, HandsTyped, Moves
  <1>5. Fits("remote", held[t], old[t])  BY <1>3 DEF Fits, PC
  <1>6. Bounded(held[t])' /\ (old[t] # None => old[t] <= db)
    BY <1>1, <1>3 DEF Bounded, IInv, HandsAge
  <1>7. CarriersKept  BY <1>1 DEF CarriersKept, IInv, RestTyped
  <1>8. ~returned' => t \in carriers' \/ UpToDate(held[t], old[t])
    BY <1>1, <1>2 DEF IInv, HandsAreUpToDate
  <1>9. (IF "remote" = "loading" THEN Loading(held[t]) ELSE Bounded(held[t]))'
    BY <1>6
  <1>10. HandsTyped' /\ HandsAge' /\ HandsAreUpToDate'
    <2>1. PICK c : c = held[t]  OBVIOUS
    <2>2. Bounded(c)'  BY <1>3, <2>1 DEF Bounded
    <2> QED  BY <1>2, <1>4, <1>5, <1>6, <1>7, <1>8, <2>1, <2>2, MoveKeeps
  <1>11. /\ CachesTyped' /\ CachesAge' /\ OnlyCarriersBringItBack'
         /\ returned' \in BOOLEAN
    BY <1>1, <1>2, CachesStay
  <1>12. RestTyped' /\ (deletedAt <= db)'
    BY <1>2, <1>7, RestStays DEF CarriersKept
  <1> QED  BY <1>10, <1>11, <1>12 DEF IInv

\* What the remote cache has is up to date.
LEMMA GetRemoteKeeps ==
    ASSUME IInv, NEW t \in Thread, GetRemote(t)
    PROVE  IInv'
  <1>1. UNCHANGED <<db, outdated, renewedAgo, deletedAt, deletedBy, returned, caches, deletes>>
    BY DEF GetRemote, times, deletes
  <1>2. pc[t] = "remote" /\ why[t] \in {"get", "mget", "poll"}
    BY DEF GetRemote, IInv, HandsTyped
  <1>3. CASE remote = None
    <2>1. Answer(t, why[t], None) /\ Carry(carriers)  BY <1>3 DEF GetRemote
    <2>2. CarriersKept  BY <2>1, CarryKeeps DEF IInv, RestTyped
    <2>3. ~returned' => \/ t \in carriers' \/ pc'[t] = "idle"
                        \/ ~Older(None, deletedAt) /\ UpToDate(held[t], old[t])
      BY <1>1, <2>1 DEF IInv, HandsAreUpToDate, Carry, Older
    <2>4. HandsTyped' /\ HandsAge' /\ HandsAreUpToDate'
      <3>1. Bounded(None)  BY DEF Bounded
      <3> QED  BY <1>1, <1>2, <2>1, <2>2, <2>3, <3>1, AnswerKeeps
    <2>5. /\ CachesTyped' /\ CachesAge' /\ OnlyCarriersBringItBack'
          /\ returned' \in BOOLEAN
      BY <1>1, CachesStay
    <2>6. RestTyped' /\ (deletedAt <= db)'
      BY <1>1, <2>2, RestStays DEF CarriersKept
    <2> QED  BY <2>4, <2>5, <2>6 DEF IInv
  <1>4. CASE remote # None
    <2>1. /\ pc' = [pc EXCEPT ![t] = "refill"] /\ held' = [held EXCEPT ![t] = remote]
          /\ UNCHANGED <<why, old, carriers>>
      BY <1>4 DEF GetRemote
    <2>2. Moves(t, "refill", remote, old[t])  BY <2>1 DEF Moves, IInv, HandsTyped
    <2>3. Fits("refill", remote, old[t])
      BY <1>4 DEF Fits, PC, IInv, CachesTyped, HandsTyped
    <2>4. Bounded(remote)  BY DEF IInv, CachesAge
    <2>5. old[t] # None => old[t] <= db  BY DEF IInv, HandsAge
    <2>6. CarriersKept  BY <2>1 DEF CarriersKept, IInv, RestTyped
    <2>7. ~returned' => t \in carriers' \/ UpToDate(remote, old[t])
      BY <1>1, <2>1 DEF IInv, HandsAreUpToDate, OnlyCarriersBringItBack, UpToDate
    <2>8. HandsTyped' /\ HandsAge' /\ HandsAreUpToDate'
      <3>1. PICK c : c = remote  OBVIOUS
      <3>2. Bounded(c)'  BY <1>1, <2>4, <3>1 DEF Bounded
      <3> QED  BY <1>1, <2>2, <2>3, <2>5, <2>6, <2>7, <3>1, <3>2, MoveKeeps
    <2>9. /\ CachesTyped' /\ CachesAge' /\ OnlyCarriersBringItBack'
          /\ returned' \in BOOLEAN
      BY <1>1, CachesStay
    <2>10. RestTyped' /\ (deletedAt <= db)'
      BY <1>1, <2>6, RestStays DEF CarriersKept
    <2> QED  BY <2>8, <2>9, <2>10 DEF IInv
  <1> QED  BY <1>3, <1>4

\* A failed poll renews; any other failure takes nothing.
LEMMA GetRemoteThrowsKeeps ==
    ASSUME IInv, NEW t \in Thread, GetRemoteThrows(t)
    PROVE  IInv'
  <1>1. UNCHANGED <<db, outdated, deletedAt, deletedBy, returned, caches, deletes>>
    BY DEF GetRemoteThrows, deletes
  <1>2. pc[t] = "remote" /\ why[t] \in {"get", "mget", "poll"} /\ Carry(carriers)
    BY DEF GetRemoteThrows, IInv, HandsTyped
  <1>3. CarriersKept  BY <1>2, CarryKeeps DEF IInv, RestTyped
  <1>4. HandsTyped' /\ HandsAge' /\ HandsAreUpToDate' /\ renewedAgo' \in {renewedAgo, 0}
    <2>1. CASE why[t] = "poll"
      <3>1. Renew(t)  BY <2>1 DEF GetRemoteThrows
      <3> QED  BY <1>1, <1>3, <3>1, RenewKeeps
    <2>2. CASE why[t] # "poll"
      <3>1. Answer(t, why[t], None) /\ UNCHANGED renewedAgo
        BY <2>2 DEF GetRemoteThrows
      <3>2. ~returned' => \/ t \in carriers' \/ pc'[t] = "idle"
                          \/ ~Older(None, deletedAt) /\ UpToDate(held[t], old[t])
        BY <1>1, <1>2 DEF IInv, HandsAreUpToDate, Carry, Older
      <3>3. Bounded(None)  BY DEF Bounded
      <3> QED  BY <1>1, <1>2, <1>3, <3>1, <3>2, <3>3, AnswerKeeps
    <2> QED  BY <2>1, <2>2
  <1>5. /\ CachesTyped' /\ CachesAge' /\ OnlyCarriersBringItBack'
        /\ returned' \in BOOLEAN
    BY <1>1, <1>4, CachesStay
  <1>6. RestTyped' /\ (deletedAt <= db)'
    BY <1>1, <1>3, <1>4, RestStays DEF CarriersKept
  <1> QED  BY <1>4, <1>5, <1>6 DEF IInv

-----------------------------------------------------------------------------
(* Loads and writes *)

\* A copy of the remote cache gets into the local one, and to who asked.
LEMMA RefillKeeps ==
    ASSUME IInv, NEW t \in Thread, Refill(t)
    PROVE  IInv'
  <1>1. /\ SetLocalCache(t, held[t]) /\ Answer(t, why[t], held[t]) /\ Carry(carriers)
        /\ UNCHANGED <<db, remote, times, deletedAt, deletedBy>>
        /\ pc[t] = "refill"
    BY DEF Refill
  <1>2. UNCHANGED <<db, outdated, renewedAgo, deletedAt, deletedBy>>
    BY <1>1 DEF times
  <1>3. held[t] \in Copy /\ Bounded(held[t]) /\ why[t] \in {"get", "mget", "poll"}
    BY <1>1 DEF IInv, HandsTyped, HandsAge
  <1>4. /\ CachesTyped' /\ CachesAge' /\ OnlyCarriersBringItBack'
        /\ returned' \in BOOLEAN /\ (~returned' => ~returned)
    BY <1>1, <1>3, SetLocalCacheKeeps
  <1>5. CarriersKept  BY <1>1, CarryKeeps DEF IInv, RestTyped
  <1>6. ~returned' => \/ t \in carriers' \/ pc'[t] = "idle"
                      \/ ~Older(held[t], deletedAt) /\ UpToDate(held[t], old[t])
    BY <1>1, <1>4 DEF IInv, HandsAreUpToDate, UpToDate, Carry
  <1>7. HandsTyped' /\ HandsAge' /\ HandsAreUpToDate'
    <2>1. PICK c \in Copy : c = held[t]  BY <1>3
    <2>2. Answer(t, why[t], c) /\ Bounded(c)  BY <1>1, <1>3, <2>1
    <2> QED  BY <1>2, <1>3, <1>4, <1>5, <1>6, <2>1, <2>2, AnswerKeeps
  <1>8. RestTyped' /\ (deletedAt <= db)'
    BY <1>2, <1>5, RestStays DEF CarriersKept
  <1> QED  BY <1>4, <1>7, <1>8 DEF IInv

\* The DAO reads the row, which no delete is ahead of.
LEMMA LoadKeeps ==
    ASSUME IInv, NEW t \in Thread, Load(t)
    PROVE  IInv'
  <1>1. /\ Goto(t, "loading", [v |-> db, life |-> LoadTime], None)
        /\ UNCHANGED <<db, caches, times, carriers, deletes>>
    BY DEF Load
  <1>2. UNCHANGED <<db, outdated, renewedAgo, deletedAt, deletedBy, returned>>
    BY <1>1 DEF times, deletes
  <1>3. PICK c : c = [v |-> db, life |-> LoadTime]  OBVIOUS
  <1>4. c \in Copy /\ c.v = db /\ c.life = LoadTime
    BY <1>3, Constants DEF Copy, IInv, RestTyped
  <1>5. Moves(t, "loading", c, None)  BY <1>1, <1>3, GotoMoves DEF IInv
  <1>6. Fits("loading", c, None)  BY <1>4, NoneAssumption DEF Fits, PC
  <1>7. Loading(c)'  BY <1>2, <1>4, Constants, Numbers DEF Loading
  <1>8. UpToDate(c, None)  BY <1>4, Numbers DEF UpToDate, Older, IInv
  <1>9. CarriersKept  BY <1>1 DEF CarriersKept, IInv, RestTyped
  <1>10. HandsTyped' /\ HandsAge' /\ HandsAreUpToDate'
    BY <1>2, <1>5, <1>6, <1>7, <1>8, <1>9, MoveKeeps
  <1>11. /\ CachesTyped' /\ CachesAge' /\ OnlyCarriersBringItBack'
         /\ returned' \in BOOLEAN
    BY <1>1, <1>2, CachesStay
  <1>12. RestTyped' /\ (deletedAt <= db)'
    BY <1>2, <1>9, RestStays DEF CarriersKept
  <1> QED  BY <1>10, <1>11, <1>12 DEF IInv

\* A failed load renews.
LEMMA LoadThrowsKeeps ==
    ASSUME IInv, NEW t \in Thread, LoadThrows(t)
    PROVE  IInv'
  <1>1. Renew(t) /\ Carry(carriers) /\ UNCHANGED <<db, caches, outdated, deletes>>
    BY DEF LoadThrows
  <1>2. UNCHANGED <<db, outdated, deletedAt, deletedBy, returned>>
    BY <1>1 DEF deletes
  <1>3. CarriersKept  BY <1>1, CarryKeeps DEF IInv, RestTyped
  <1>4. HandsTyped' /\ HandsAge' /\ HandsAreUpToDate' /\ renewedAgo' \in {renewedAgo, 0}
    BY <1>1, <1>2, <1>3, RenewKeeps
  <1>5. /\ CachesTyped' /\ CachesAge' /\ OnlyCarriersBringItBack'
        /\ returned' \in BOOLEAN
    BY <1>1, <1>4, CachesStay
  <1>6. RestTyped' /\ (deletedAt <= db)'
    BY <1>2, <1>3, <1>4, RestStays DEF CarriersKept
  <1> QED  BY <1>4, <1>5, <1>6 DEF IInv

\* The data gets its life when it has been outdated for LoadTime at most.
LEMMA BuildCacheWrapperKeeps ==
    ASSUME IInv, NEW t \in Thread, BuildCacheWrapper(t)
    PROVE  IInv'
  <1>1. /\ Goto(t, "setLocal", [held[t] EXCEPT !.life = Expire], None)
        /\ UNCHANGED <<db, caches, times, carriers, deletes>>
        /\ pc[t] = "loading"
    BY DEF BuildCacheWrapper
  <1>2. UNCHANGED <<db, outdated, renewedAgo, deletedAt, deletedBy, returned>>
    BY <1>1 DEF times, deletes
  <1>3. held[t] \in Copy /\ Loading(held[t])
    BY <1>1 DEF IInv, HandsTyped, HandsAge
  <1>4. PICK c : c = [held[t] EXCEPT !.life = Expire]  OBVIOUS
  <1>5. c \in Copy /\ c.v = held[t].v /\ c.life = Expire
    BY <1>3, <1>4, Constants DEF Copy
  <1>6. Moves(t, "setLocal", c, None)  BY <1>1, <1>4, GotoMoves DEF IInv
  <1>7. Fits("setLocal", c, None)  BY <1>5, NoneAssumption DEF Fits, PC
  <1>8. Bounded(c)'
    <2>1. held[t].life \in Nat /\ c.v \in Nat /\ outdated[c.v] \in Nat
      BY <1>3, <1>5, Numbers
    <2> QED  BY <1>2, <1>3, <1>5, <2>1, Constants DEF Bounded, Loading
  <1>9. ~returned' => t \in carriers' \/ UpToDate(c, None)
    <2>1. held[t] # None /\ c # None  BY <1>3, <1>5, Numbers
    <2> QED  BY <1>1, <1>2, <1>5, <2>1 DEF IInv, HandsAreUpToDate, UpToDate, Older
  <1>10. CarriersKept  BY <1>1 DEF CarriersKept, IInv, RestTyped
  <1>11. HandsTyped' /\ HandsAge' /\ HandsAreUpToDate'
    BY <1>2, <1>6, <1>7, <1>8, <1>9, <1>10, MoveKeeps
  <1>12. /\ CachesTyped' /\ CachesAge' /\ OnlyCarriersBringItBack'
         /\ returned' \in BOOLEAN
    BY <1>1, <1>2, CachesStay
  <1>13. RestTyped' /\ (deletedAt <= db)'
    BY <1>2, <1>10, RestStays DEF CarriersKept
  <1> QED  BY <1>11, <1>12, <1>13 DEF IInv

\* What is in hand gets into the local cache.
LEMMA SetLocalKeeps ==
    ASSUME IInv, NEW t \in Thread, SetLocal(t)
    PROVE  IInv'
  <1>1. /\ SetLocalCache(t, held[t]) /\ Carry(carriers)
        /\ End(t) \/ Goto(t, "setRemote", held[t], None)
        /\ UNCHANGED <<db, remote, times, deletedAt, deletedBy>>
        /\ pc[t] = "setLocal"
    BY DEF SetLocal
  <1>2. UNCHANGED <<db, outdated, renewedAgo, deletedAt, deletedBy>>
    BY <1>1 DEF times
  <1>3. held[t] \in Copy /\ Bounded(held[t]) /\ held[t] # None
    BY <1>1 DEF IInv, HandsTyped, HandsAge
  <1>4. /\ CachesTyped' /\ CachesAge' /\ OnlyCarriersBringItBack'
        /\ returned' \in BOOLEAN /\ (~returned' => ~returned)
    BY <1>1, <1>3, SetLocalCacheKeeps
  <1>5. CarriersKept  BY <1>1, CarryKeeps DEF IInv, RestTyped
  <1>6. HandsTyped' /\ HandsAge' /\ HandsAreUpToDate'
    <2>1. CASE End(t)  BY <1>2, <1>4, <1>5, <2>1, EndKeeps
    <2>2. CASE Goto(t, "setRemote", held[t], None)
      <3>1. PICK c \in Copy : c = held[t]  BY <1>3
      <3>2. Moves(t, "setRemote", c, None)  BY <2>2, <3>1, GotoMoves DEF IInv
      <3>3. Fits("setRemote", c, None)  BY <1>3, <3>1 DEF Fits, PC
      <3>4. Bounded(c)'  BY <1>2, <1>3, <3>1 DEF Bounded
      <3>5. ~returned' => t \in carriers' \/ UpToDate(c, None)
        <4>1. pc'[t] = "setRemote"  BY <3>2 DEF Moves, IInv, HandsTyped
        <4> QED  BY <1>1, <1>4, <3>1, <4>1 DEF IInv, HandsAreUpToDate, UpToDate, Carry
      <3> QED  BY <1>2, <1>4, <1>5, <3>2, <3>3, <3>4, <3>5, MoveKeeps
    <2> QED  BY <1>1, <2>1, <2>2
  <1>7. RestTyped' /\ (deletedAt <= db)'
    BY <1>2, <1>5, RestStays DEF CarriersKept
  <1> QED  BY <1>4, <1>6, <1>7 DEF IInv

\* What is in hand gets into the remote cache.
LEMMA SetRemoteKeeps ==
    ASSUME IInv, NEW t \in Thread, SetRemote(t)
    PROVE  IInv'
  <1>1. /\ (remote' = held[t] /\ Undo(t)) \/ UNCHANGED <<remote, returned>>
        /\ End(t) /\ Carry(carriers)
        /\ UNCHANGED <<db, local, times, deletedAt, deletedBy>>
        /\ pc[t] = "setRemote"
    BY DEF SetRemote
  <1>2. UNCHANGED <<db, local, outdated, renewedAgo, deletedAt, deletedBy>>
    BY <1>1 DEF times
  <1>3. held[t] \in Copy /\ Bounded(held[t])
    BY <1>1 DEF IInv, HandsTyped, HandsAge
  <1>4. /\ remote' \in {remote, held[t]} /\ returned' \in BOOLEAN
        /\ ~returned' => ~returned /\ (remote' = remote \/ ~Older(held[t], deletedAt))
    BY <1>1, UndoNotices DEF IInv
  <1>5. CachesTyped'  BY <1>2, <1>3, <1>4 DEF IInv, CachesTyped
  <1>6. CachesAge'
    BY <1>2, <1>3, <1>4 DEF IInv, CachesAge, Bounded
  <1>7. OnlyCarriersBringItBack'
    <2>1. ~returned => ~Older(remote, deletedAt) /\ ~Older(local[deletedBy], deletedAt)
      BY DEF IInv, OnlyCarriersBringItBack
    <2>2. ~returned' => ~Older(remote', deletedAt) /\ ~Older(local[deletedBy], deletedAt)
      BY <1>4, <2>1
    <2> QED  BY <1>2, <2>2 DEF OnlyCarriersBringItBack, Older
  <1>8. CarriersKept  BY <1>1, CarryKeeps DEF IInv, RestTyped
  <1>9. HandsTyped' /\ HandsAge' /\ HandsAreUpToDate'
    BY <1>1, <1>2, <1>4, <1>8, EndKeeps
  <1>10. RestTyped' /\ (deletedAt <= db)'
    BY <1>2, <1>8, RestStays DEF CarriersKept
  <1> QED  BY <1>4, <1>5, <1>6, <1>7, <1>9, <1>10 DEF IInv

-----------------------------------------------------------------------------
(* Deletes *)

\* The data of all copies is outdated from now on.
LEMMA UpdateKeeps ==
    ASSUME IInv, NEW t \in Thread, Update(t)
    PROVE  IInv'
  <1>1. /\ db < MaxVersion /\ db' = db + 1 /\ outdated' = [outdated EXCEPT ![db] = 0]
        /\ Goto(t, "deleteLocal", None, None)
        /\ UNCHANGED <<caches, renewedAgo, carriers, deletes>>
    BY DEF Update
  <1>2. /\ UNCHANGED <<remote, local, renewedAgo, carriers, deletedAt, deletedBy, returned>>
        /\ db \in Version
    BY <1>1 DEF caches, deletes, IInv, RestTyped
  <1>3. \A v \in Version : v < db => outdated'[v] = outdated[v]
    BY <1>1, Numbers DEF IInv, RestTyped
  <1>4. outdated'[db] = 0
    BY <1>1, <1>2 DEF IInv, RestTyped
  <1>5. ASSUME NEW c \in Copy \cup {None}, Bounded(c) PROVE Bounded(c)'
    <2>1. CASE c = None  BY <2>1 DEF Bounded
    <2>2. CASE c # None /\ c.v < db
      BY <1>1, <1>2, <1>3, <1>5, <2>2, Numbers DEF Bounded
    <2>3. CASE c # None /\ c.v = db
      BY <1>1, <1>2, <1>4, <1>5, <2>3, Numbers, Constants DEF Bounded
    <2> QED  BY <1>5, <2>1, <2>2, <2>3, Numbers DEF Bounded
  <1>6. ASSUME NEW c \in Copy, Loading(c) PROVE Loading(c)'
    <2>1. CASE c.v < db
      BY <1>1, <1>3, <1>6, <2>1, Numbers DEF Loading
    <2>2. CASE c.v = db
      BY <1>1, <1>4, <1>6, <2>2, Numbers, Constants DEF Loading
    <2> QED  BY <1>6, <2>1, <2>2, Numbers DEF Loading
  <1>7. /\ pc'[t] = "deleteLocal" /\ held'[t] = None /\ old'[t] = None
        /\ \A q \in Thread \ {t} : pc'[q] = pc[q] /\ held'[q] = held[q] /\ old'[q] = old[q]
    BY <1>1 DEF Goto, IInv, HandsTyped
  <1>8. HandsTyped'
    BY <1>1 DEF Goto, IInv, HandsTyped, PC
  <1>9. RestTyped' /\ (deletedAt <= db)'
    <2>1. db' \in Version /\ deletedAt <= db'
      BY <1>1, <1>2, Constants, Numbers DEF Version, IInv
    <2>2. outdated' \in [Version -> 0 .. MaxOutdated]
      BY <1>1, Constants DEF IInv, RestTyped
    <2> QED  BY <1>2, <2>1, <2>2 DEF IInv, RestTyped
  <1>10. HandsAge'
    <2>1. ASSUME NEW q \in Thread \ {t}
          PROVE  /\ (IF pc[q] = "loading" THEN Loading(held[q]) ELSE Bounded(held[q]))'
                 /\ old'[q] # None => old'[q] <= db'
      <3>1. PICK d \in Copy \cup {None} : d = held[q]  BY DEF IInv, HandsTyped
      <3>2. old'[q] # None => old'[q] <= db'
        BY <1>1, <1>7, Numbers DEF IInv, HandsTyped, HandsAge
      <3>3. CASE pc[q] = "loading"
        <4>1. d \in Copy /\ Loading(d)  BY <3>1, <3>3 DEF IInv, HandsTyped, HandsAge
        <4>2. Loading(d)'  BY <4>1, <1>6
        <4> QED  BY <1>7, <3>1, <3>2, <3>3, <4>2 DEF Loading
      <3>4. CASE pc[q] # "loading"
        <4>1. Bounded(d)  BY <3>1, <3>4 DEF IInv, HandsAge
        <4>2. Bounded(d)'  BY <4>1, <1>5
        <4> QED  BY <1>7, <3>1, <3>2, <3>4, <4>2 DEF Bounded
      <3> QED  BY <3>3, <3>4
    <2> QED  BY <1>7, <2>1 DEF HandsAge, Bounded
  <1>11. CachesAge'
    <2>1. remote \in Copy \cup {None} /\ \A s \in Server : local[s] \in Copy \cup {None}
      BY DEF IInv, CachesTyped
    <2>2. Bounded(remote)'
      BY <1>2, <1>5, <2>1 DEF IInv, CachesAge, Bounded
    <2>3. \A s \in Server : Bounded(local[s])'
      BY <1>2, <1>5, <2>1 DEF IInv, CachesAge, Bounded
    <2> QED  BY <2>2, <2>3 DEF CachesAge
  <1>12. HandsAreUpToDate'
    BY <1>2, <1>7 DEF IInv, HandsAreUpToDate, UpToDate, Older
  <1>13. CachesTyped' /\ OnlyCarriersBringItBack' /\ returned' \in BOOLEAN
    BY <1>2 DEF IInv, CachesTyped, OnlyCarriersBringItBack, Older
  <1> QED  BY <1>8, <1>9, <1>10, <1>11, <1>12, <1>13 DEF IInv

\* A copy less, and perhaps a thread that goes on with nothing in hand.
LEMMA LoseKeeps ==
    ASSUME IInv, CachesTyped', returned' \in BOOLEAN,
           UNCHANGED <<db, outdated, renewedAgo, deletedAt, deletedBy, carriers, returned>>,
           remote' \in {remote, None},
           \A s \in Server : local'[s] \in {local[s], None},
           \/ UNCHANGED <<pc, why, held, old>>
           \/ \E t \in Thread, where \in {"idle", "deleteRemote"} : Goto(t, where, None, None)
    PROVE  IInv'
  <1>1. CachesAge'  BY DEF IInv, CachesAge, Bounded
  <1>2. OnlyCarriersBringItBack'
    <2>1. deletedBy \in Server  BY DEF IInv, RestTyped
    <2>2. local'[deletedBy] \in {local[deletedBy], None}  BY <2>1
    <2> QED  BY <2>2 DEF IInv, OnlyCarriersBringItBack, Older
  <1>3. CarriersKept  BY DEF CarriersKept, IInv, RestTyped
  <1>4. HandsTyped' /\ HandsAge' /\ HandsAreUpToDate'
    <2>1. CASE UNCHANGED <<pc, why, held, old>>
      BY <2>1 DEF IInv, HandsTyped, HandsAge, HandsAreUpToDate, UpToDate, Older, Bounded, Loading
    <2>2. ASSUME NEW t \in Thread, NEW where \in {"idle", "deleteRemote"},
                 Goto(t, where, None, None)
          PROVE  HandsTyped' /\ HandsAge' /\ HandsAreUpToDate'
      <3>1. Moves(t, where, None, None)  BY <2>2, GotoMoves DEF IInv
      <3>2. Fits(where, None, None)  BY DEF Fits, PC
      <3>3. Bounded(None)' /\ UpToDate(None, None) /\ where # "loading"
        BY DEF Bounded, UpToDate, Older
      <3> QED  BY <1>3, <3>1, <3>2, <3>3, MoveKeeps
    <2> QED  BY <2>1, <2>2
  <1>5. RestTyped' /\ (deletedAt <= db)'
    BY <1>3, RestStays DEF CarriersKept
  <1> QED  BY <1>1, <1>2, <1>4, <1>5 DEF IInv

LEMMA DeleteLocalKeeps ==
    ASSUME IInv, NEW t \in Thread, DeleteLocal(t)
    PROVE  IInv'
  <1>1. /\ local' = [local EXCEPT ![ServerOf[t]] = None]
        /\ Goto(t, "deleteRemote", None, None)
        /\ UNCHANGED <<db, remote, outdated, renewedAgo, deletedAt, deletedBy, carriers, returned>>
    BY DEF DeleteLocal, times, deletes
  <1>2. CachesTyped' /\ \A s \in Server : local'[s] \in {local[s], None}
    BY <1>1, ServerAssumption DEF IInv, CachesTyped
  <1>3. returned' \in BOOLEAN  BY <1>1 DEF IInv
  <1> QED  BY <1>1, <1>2, <1>3, LoseKeeps

\* Half a delete is no delete.
LEMMA DeleteThrowsKeeps ==
    ASSUME IInv, NEW t \in Thread, DeleteThrows(t)
    PROVE  IInv'
  <1>1. /\ Goto(t, "idle", None, None)
        /\ UNCHANGED <<db, remote, local, outdated, renewedAgo, deletedAt, deletedBy, carriers,
                       returned>>
    BY DEF DeleteThrows, End, caches, times, deletes
  <1>2. CachesTyped' /\ \A s \in Server : local'[s] \in {local[s], None}
    BY <1>1 DEF IInv, CachesTyped
  <1>3. returned' \in BOOLEAN  BY <1>1 DEF IInv
  <1> QED  BY <1>1, <1>2, <1>3, LoseKeeps

LEMMA LoseLocalKeeps ==
    ASSUME IInv, NEW s \in Server, LoseLocal(s)
    PROVE  IInv'
  <1>1. /\ local' = [local EXCEPT ![s] = None]
        /\ UNCHANGED <<db, remote, pc, why, held, old, outdated, renewedAgo, deletedAt,
                       deletedBy, carriers, returned>>
    BY DEF LoseLocal, times, deletes
  <1>2. CachesTyped' /\ \A q \in Server : local'[q] \in {local[q], None}
    BY <1>1 DEF IInv, CachesTyped
  <1>3. returned' \in BOOLEAN  BY <1>1 DEF IInv
  <1> QED  BY <1>1, <1>2, <1>3, LoseKeeps

LEMMA LoseRemoteKeeps ==
    ASSUME IInv, LoseRemote
    PROVE  IInv'
  <1>1. /\ remote' = None
        /\ UNCHANGED <<db, local, pc, why, held, old, outdated, renewedAgo, deletedAt,
                       deletedBy, carriers, returned>>
    BY DEF LoseRemote, times, deletes
  <1>2. CachesTyped' /\ \A q \in Server : local'[q] \in {local[q], None}
    BY <1>1 DEF IInv, CachesTyped
  <1>3. returned' \in BOOLEAN  BY <1>1 DEF IInv
  <1> QED  BY <1>1, <1>2, <1>3, LoseKeeps

\* The end of a delete starts a new account of who carries older data.
LEMMA DeleteRemoteKeeps ==
    ASSUME IInv, NEW t \in Thread, DeleteRemote(t)
    PROVE  IInv'
  <1>1. /\ remote' = None /\ Goto(t, "idle", None, None)
        /\ deletedAt' = db /\ deletedBy' = ServerOf[t]
        /\ carriers' = {q \in Thread : Older(held[q], db) \/ (old[q] # None /\ old[q] < db)}
        /\ returned' = Older(local[ServerOf[t]], db)
        /\ UNCHANGED <<db, local, outdated, renewedAgo>>
    BY DEF DeleteRemote, End, times
  <1>2. ServerOf[t] \in Server  BY ServerAssumption
  <1>3. /\ pc'[t] = "idle" /\ held'[t] = None /\ old'[t] = None
        /\ \A q \in Thread \ {t} : pc'[q] = pc[q] /\ held'[q] = held[q] /\ old'[q] = old[q]
    BY <1>1 DEF Goto, IInv, HandsTyped
  <1>4. HandsTyped'
    BY <1>1 DEF Goto, IInv, HandsTyped, PC
  <1>5. HandsAge'
    BY <1>1, <1>3 DEF IInv, HandsAge, Bounded, Loading
  <1>6. CachesTyped' /\ CachesAge'
    BY <1>1 DEF IInv, CachesTyped, CachesAge, Bounded
  <1>7. RestTyped' /\ (deletedAt <= db)'
    BY <1>1, <1>2, Numbers DEF IInv, RestTyped
  <1>8. HandsAreUpToDate'
    <2> SUFFICES ASSUME NEW q \in Thread \ carriers' PROVE UpToDate(held[q], old[q])'
      BY DEF HandsAreUpToDate
    <2>1. CASE q = t  BY <1>3, <2>1 DEF UpToDate, Older
    <2>2. CASE q # t
      <3>1. ~Older(held[q], db) /\ (old[q] # None => ~(old[q] < db))  BY <1>1
      <3>2. old[q] # None => old[q] >= db
        BY <3>1, Numbers DEF IInv, HandsTyped
      <3> QED  BY <1>1, <1>3, <2>2, <3>1, <3>2 DEF UpToDate, Older
    <2> QED  BY <2>1, <2>2
  <1>9. OnlyCarriersBringItBack' /\ returned' \in BOOLEAN
    BY <1>1 DEF OnlyCarriersBringItBack, Older
  <1> QED  BY <1>4, <1>5, <1>6, <1>7, <1>8, <1>9 DEF IInv

-----------------------------------------------------------------------------
(* Time *)

\* What time does to a copy: it loses of its life what its data gets outdated.
LEMMA AgedType ==
    ASSUME NEW c \in Copy \cup {None}
    PROVE  /\ Aged(c) \in Copy \cup {None}
           /\ Aged(c) = None <=> c = None
           /\ c # None => /\ Aged(c).v = c.v
                          /\ c.life > 0 => Aged(c).life = c.life - 1
                          /\ c.life = 0 => Aged(c).life = 0
  <1>1. CASE c = None \/ ~(c.life > 0)
    <2>1. Aged(c) = c  BY <1>1 DEF Aged
    <2>2. c # None => ~(c.life > 0)  BY <1>1
    <2> QED  BY <2>1, <2>2 DEF Copy
  <1>2. CASE c # None /\ c.life > 0
    <2>1. Aged(c) = [c EXCEPT !.life = c.life - 1]  BY <1>2 DEF Aged
    <2>2. c \in Copy /\ c.life - 1 \in Nat  BY <1>2 DEF Copy
    <2> QED  BY <2>1, <2>2, <1>2, NoneAssumption DEF Copy
  <1> QED  BY <1>1, <1>2

LEMMA TickKeeps ==
    ASSUME IInv, Tick
    PROVE  IInv'
  <1>1. /\ \A s \in Server : local[s] \in Copy \cup {None}
        /\ \A t \in Thread : held[t] \in Copy \cup {None}
        /\ remote \in Copy \cup {None}
    BY DEF IInv, CachesTyped, HandsTyped
  <1>2. /\ remote' = Aged(remote)
        /\ local' = [s \in Server |-> Kept(Aged(local[s]))]
        /\ held' = [t \in Thread |-> Aged(held[t])]
        /\ UNCHANGED <<db, pc, why, old, carriers, deletedAt, deletedBy, returned>>
    BY DEF Tick, deletes
  <1>3. \A s \in Server : local'[s] \in {Aged(local[s]), None}
    BY <1>2 DEF Kept
  <1>4. /\ outdated' \in [Version -> 0 .. MaxOutdated]
        /\ \A v \in Version : outdated'[v] \in {outdated[v], outdated[v] + 1}
    BY Constants DEF Tick, IInv, RestTyped
  <1>5. renewedAgo' \in 0 .. RenewExpire /\ renewedAgo' \in {renewedAgo, renewedAgo + 1}
    BY Constants DEF Tick, IInv, RestTyped
  <1>6. CachesTyped'
    <2>1. remote' \in Copy \cup {None}  BY <1>1, <1>2, AgedType
    <2>2. \A s \in Server : Aged(local[s]) \in Copy \cup {None}  BY <1>1, AgedType
    <2>3. \A s \in Server : Kept(Aged(local[s])) \in Copy \cup {None}  BY <2>2 DEF Kept
    <2>4. local' \in [Server -> Copy \cup {None}]  BY <1>2, <2>3
    <2> QED  BY <2>1, <2>4 DEF CachesTyped
  <1>7. HandsTyped'
    <2>1. held' \in [Thread -> Copy \cup {None}]  BY <1>1, <1>2, AgedType
    <2>2. \A t \in Thread : held'[t] = None <=> held[t] = None  BY <1>1, <1>2, AgedType
    <2> QED  BY <1>2, <2>1, <2>2 DEF IInv, HandsTyped
  <1>8. RestTyped' /\ (deletedAt <= db)' /\ returned' \in BOOLEAN
    BY <1>2, <1>4, <1>5 DEF IInv, RestTyped
  <1>9. ASSUME NEW c \in Copy \cup {None}, Bounded(c)
        PROVE  Bounded(Aged(c))'
    <2>1. CASE c = None  BY <2>1, AgedType DEF Bounded
    <2>2. CASE c # None
      <3>1. /\ c.v \in Version /\ c.v \in Nat /\ c.life \in Nat
            /\ outdated[c.v] \in Nat /\ outdated'[c.v] \in {outdated[c.v], outdated[c.v] + 1}
        BY <1>4, <2>2, Numbers
      <3>2. /\ Aged(c).v = c.v
            /\ c.life > 0 => Aged(c).life = c.life - 1
            /\ c.life = 0 => Aged(c).life = 0
        BY <2>2, AgedType
      <3>3. renewedAgo \in Nat  BY Numbers
      <3> QED  BY <1>2, <1>5, <1>9, <2>2, <3>1, <3>2, <3>3, Constants DEF Bounded
    <2> QED  BY <2>1, <2>2
  <1>10. ASSUME NEW c \in Copy, Loading(c), c.life > 0
         PROVE  Loading(Aged(c))'
    <2>1. /\ c.v \in Version /\ c.v \in Nat /\ c.life \in Nat /\ c # None
          /\ outdated[c.v] \in Nat /\ outdated'[c.v] \in {outdated[c.v], outdated[c.v] + 1}
      BY <1>4, Numbers
    <2>2. Aged(c).v = c.v /\ Aged(c).life = c.life - 1
      BY <1>10, <2>1, AgedType
    <2> QED  BY <1>2, <1>10, <2>1, <2>2, Constants DEF Loading
  <1>11. CachesAge'
    <2>1. Bounded(remote)'  BY <1>1, <1>2, <1>9 DEF IInv, CachesAge, Bounded
    <2>2. \A s \in Server : Bounded(local[s])'
      BY <1>1, <1>3, <1>9 DEF IInv, CachesAge, Bounded
    <2> QED  BY <2>1, <2>2 DEF CachesAge
  <1>12. HandsAge'
    <2>1. ASSUME NEW t \in Thread
          PROVE  (IF pc[t] = "loading" THEN Loading(held[t]) ELSE Bounded(held[t]))'
      <3>1. PICK c \in Copy \cup {None} : c = held[t]  BY <1>1
      <3>2. CASE pc[t] = "loading"
        <4>1. c \in Copy /\ c.life > 0 /\ Loading(c)
          BY <3>1, <3>2 DEF IInv, HandsTyped, HandsAge, Tick
        <4>2. Loading(Aged(c))'  BY <4>1, <1>10
        <4> QED  BY <1>2, <3>1, <3>2, <4>2 DEF Loading
      <3>3. CASE pc[t] # "loading"
        <4>1. Bounded(c)  BY <3>1, <3>3 DEF IInv, HandsAge
        <4>2. Bounded(Aged(c))'  BY <4>1, <1>9
        <4> QED  BY <1>2, <3>1, <3>3, <4>2 DEF Bounded
      <3> QED  BY <3>2, <3>3
    <2> QED  BY <1>2, <2>1 DEF IInv, HandsAge
  <1>13. /\ \A c \in Copy \cup {None} : Older(Aged(c), deletedAt) => Older(c, deletedAt)
         /\ ~Older(None, deletedAt)
    BY AgedType DEF Older
  <1>14. HandsAreUpToDate'
    <2>1. \A t \in Thread : Older(held'[t], deletedAt) => Older(held[t], deletedAt)
      BY <1>1, <1>2, <1>13
    <2> QED  BY <1>2, <2>1 DEF IInv, HandsAreUpToDate, UpToDate, Older
  <1>15. OnlyCarriersBringItBack'
    <2>1. deletedBy \in Server  BY DEF IInv, RestTyped
    <2>2. Older(local'[deletedBy], deletedAt) => Older(local[deletedBy], deletedAt)
      BY <1>1, <1>3, <1>13, <2>1
    <2>3. Older(remote', deletedAt) => Older(remote, deletedAt)
      BY <1>1, <1>2, <1>13
    <2> QED  BY <1>2, <2>2, <2>3 DEF IInv, OnlyCarriersBringItBack, Older
  <1> QED  BY <1>6, <1>7, <1>8, <1>11, <1>12, <1>14, <1>15 DEF IInv

-----------------------------------------------------------------------------
(* The theorems *)

\* The caches are empty at first.
LEMMA InitIInv == Init => IInv
  <1> SUFFICES ASSUME Init PROVE IInv
    OBVIOUS
  <1>1. CachesTyped /\ HandsTyped /\ returned \in BOOLEAN
    BY DEF Init, CachesTyped, HandsTyped, PC
  <1>2. RestTyped
    <2>1. 0 \in Version /\ 0 \in 0 .. MaxOutdated /\ RenewExpire \in 0 .. RenewExpire
      BY Constants DEF Version
    <2> QED  BY <2>1 DEF Init, RestTyped
  <1>3. deletedAt <= db /\ CachesAge /\ HandsAge
    BY DEF Init, CachesAge, HandsAge, Bounded
  <1>4. HandsAreUpToDate /\ OnlyCarriersBringItBack
    <2>1. deletedBy \in Server  BY DEF Init
    <2> QED  BY <2>1 DEF Init, HandsAreUpToDate, UpToDate, OnlyCarriersBringItBack, Older
  <1> QED  BY <1>1, <1>2, <1>3, <1>4 DEF IInv

\* Each action keeps the invariant.
LEMMA NextIInv == IInv /\ [Next]_vars => IInv'
  <1> SUFFICES ASSUME IInv, [Next]_vars PROVE IInv'
    OBVIOUS
  <1>1. ASSUME NEW t \in Thread \ Writer,
               \E reason \in {"get", "mget", "poll"} :
                  GetLocal(t, reason) \/ AskRemote(t, reason)
        PROVE  IInv'
    BY <1>1, GetLocalKeeps, AskRemoteKeeps
  <1>2. ASSUME NEW t \in Thread \ Writer,
               \/ GetRemote(t) \/ GetRemoteThrows(t) \/ Refill(t)
               \/ Load(t) \/ LoadThrows(t) \/ BuildCacheWrapper(t)
               \/ SetLocal(t) \/ SetRemote(t)
        PROVE  IInv'
    BY <1>2, GetRemoteKeeps, GetRemoteThrowsKeeps, RefillKeeps, LoadKeeps,
       LoadThrowsKeeps, BuildCacheWrapperKeeps, SetLocalKeeps, SetRemoteKeeps
  <1>3. ASSUME NEW t \in Writer,
               Update(t) \/ DeleteLocal(t) \/ DeleteRemote(t) \/ DeleteThrows(t)
        PROVE  IInv'
    <2>1. t \in Thread  BY KindAssumption
    <2> QED
      BY <1>3, <2>1, UpdateKeeps, DeleteLocalKeeps, DeleteRemoteKeeps, DeleteThrowsKeeps
  <1>4. CASE (\E s \in Server : LoseLocal(s)) \/ LoseRemote
    BY <1>4, LoseLocalKeeps, LoseRemoteKeeps
  <1>5. CASE Tick
    BY <1>5, TickKeeps
  <1>6. CASE UNCHANGED vars
    <2>1. UNCHANGED <<db, remote, local, pc, why, held, old, outdated, renewedAgo, deletedAt,
                      deletedBy, carriers, returned>>
      BY <1>6 DEF vars
    <2>2. CachesTyped' /\ returned' \in BOOLEAN  BY <2>1 DEF IInv, CachesTyped
    <2> QED  BY <2>1, <2>2, LoseKeeps
  <1> QED  BY <1>1, <1>2, <1>3, <1>4, <1>5, <1>6 DEF Next

\* The invariant holds throughout.
LEMMA Inductive == Spec => []IInv
  BY InitIInv, NextIInv, PTL DEF Spec

\* Every variable keeps its type, and whoever is about to write has a copy to
\* write, with any number of servers, threads and updates.
THEOREM TypeCorrect == Spec => []TypeOK
  <1>1. IInv => TypeOK
    BY DEF IInv, CachesTyped, HandsTyped, RestTyped, TypeOK
  <1> QED  BY <1>1, Inductive, PTL

\* What Bounded says of all copies is enough for those that are not expired.
LEMMA AgingBoundsStaleness == IInv => BoundedStaleness
  <1> SUFFICES ASSUME IInv PROVE BoundedStaleness
    OBVIOUS
  <1>1. ASSUME NEW c \in Copy \cup {None}, Bounded(c)
        PROVE  Fresh(c)
    <2>1. CASE c = None  BY <2>1 DEF Fresh, Live
    <2>2. CASE c # None
      <3>1. c.v \in Nat /\ c.life \in Nat /\ outdated[c.v] \in Nat /\ renewedAgo \in Nat
        BY <2>2, Numbers
      <3> QED  BY <1>1, <2>2, <3>1, Constants DEF Fresh, Live, Bounded
    <2> QED  BY <2>1, <2>2
  <1> QED  BY <1>1 DEF IInv, CachesTyped, CachesAge, BoundedStaleness

\* However often a copy moves between the caches of however many servers, is polled, kept
\* in hand or renewed: no cache answers with data replaced longer ago than expire and the
\* time of a load, but for as long as the last renewal may give old data
\* (ComboCacheManager.java:62-131, RefreshHandler.java:169, AutoLoadHandler.java:392).
THEOREM StalenessIsBounded == Spec => []BoundedStaleness
  BY Inductive, AgingBoundsStaleness, PTL

\* No interleaving of gets, polls, loads, renewals, writes and deletes brings older data
\* back past a delete but by a thread that had it in hand then, or took it since from
\* the local cache of another server, or between the two deletions
\* (ComboCacheManager.java:90-131, 181).
THEOREM OldDataIsCarried == Spec => []OnlyCarriersBringItBack
  <1>1. IInv => OnlyCarriersBringItBack
    BY DEF IInv
  <1> QED  BY <1>1, Inductive, PTL
=============================================================================

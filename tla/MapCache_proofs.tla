--------------------------- MODULE MapCache_proofs ---------------------------
(***************************************************************************)
(* What is not in the file of the map cache is counted, for any requests,  *)
(* keys, hashes and data.                                                  *)
(*                                                                         *)
(* The argument follows one entry whose content differs from the file, or  *)
(* from what is being serialized: Excused names everything that accounts   *)
(* for it, and a step either makes the entry agree, leaves it excused, or  *)
(* changes nothing about it.                                               *)
(***************************************************************************)
EXTENDS MapCache, FiniteSetTheorems, TLAPS

\* Before start there is nothing in memory.
Off ==
    saver["task"] = "off" =>
        /\ \A r \in Request : pc[r] = "idle" /\ call[r] = NoCall
        /\ saver["main"] = "idle" /\ found = None
        /\ missed = {} /\ cleaned = {}
        /\ \A k \in Key : cache[k] = None

\* What the threads hold at each of their steps.
Holds ==
    /\ \A r \in Request :
          /\ pc[r] \in {"putIfAbsent", "putField", "removeField", "changeAll"}
                => call[r].key \in HashKey
          /\ pc[r] \in {"putIfAbsent", "putField", "removeField"}
                => call[r].field \in Field
          /\ pc[r] \in {"putIfAbsent", "putField"} => call[r].data \in Value
          /\ pc[r] \in {"putField", "removeField", "changeAll"} => call[r].hash \in Hash
    /\ saver["task"] = "removeKey" => at \in PlainEntry
    /\ saver["task"] = "removeField" => at \in HashEntry /\ found \in Hash
    /\ saver["task"] \in {"fields", "removeHash"}
          => at \in HashKey \X {None} /\ found \in Hash
    /\ cleaned # {} => saver["task"] \in CleanAt
    /\ saver["task"] = "write" => left["task"] = {}

\* A hash serves one key.
OwnedBy(h, k) ==
    \/ cache[k] = h
    \/ \E r \in Request : call[r].hash = h /\ call[r].key = k
    \/ found = h /\ at[1] = k

OneOwner == \A h \in Hash : \A k, l \in HashKey : OwnedBy(h, k) /\ OwnedBy(h, l) => k = l

\* A change was counted, or is about to be whatever happens.
Sure == cacheChanged > 0 \/ \E r \in Request : pc[r] = "change"

\* The entry was in a hash that has left the map and is about to be counted.
Leaving(r, e) == pc[r] = "changeAll" /\ call[r].key = e[1] /\ hash[call[r].hash][e[2]] # None

Excused(e) ==
    \/ Sure
    \/ e \in missed \cup cleaned
    \/ \E r \in Request : Leaving(r, e)

MissedIsGone == \A e \in missed : Content(e) = None

\* An entry that the cleaner removed has no content, or new content that was counted.
CleanedIsGone == Up => \A e \in cleaned : Content(e) # None => Sure

\* The cleaner's hash is the one in the map, or its key has no content, or new
\* content that was counted.
FoundIsOld ==
    Up /\ saver["task"] \in {"fields", "removeField", "removeHash"}
        => \A f \in Field : Content(<<at[1], f>>) # None
              => Sure \/ (saver["task"] # "removeHash" /\ cache[at[1]] = found)

FileIsExcused == Up /\ ~Persisting => \A e \in Entry : Unsaved(e) => Excused(e)

SnapIsExcused ==
    Up /\ saver["task"] \in {"serialize", "write"} =>
        \A e \in Entry :
            e[1] \notin left["task"] /\ Content(e) # Dead /\ snap["task"][e] # Content(e)
                => Excused(e)

TInv == TypeOK /\ Off /\ Holds
HInv == TInv /\ OneOwner
IInv == HInv /\ MissedIsGone /\ CleanedIsGone /\ FoundIsOld /\ FileIsExcused /\ SnapIsExcused

-----------------------------------------------------------------------------
(* Entries, and types *)

LEMMA PlainOrHash ==
    ASSUME NEW e \in Entry
    PROVE  /\ e = <<e[1], e[2]>>
           /\ \/ /\ e \in PlainEntry /\ e \notin HashEntry
                 /\ e[1] \in PlainKey /\ e[2] = None
              \/ /\ e \in HashEntry /\ e \notin PlainEntry
                 /\ e[1] \in HashKey /\ e[1] \notin PlainKey /\ e[2] \in Field
BY NoneAssumption DEF Entry, PlainEntry, HashEntry

LEMMA Entries ==
    /\ \A k \in PlainKey : <<k, None>> \in Entry
    /\ \A k \in HashKey, f \in Field : <<k, f>> \in Entry
BY DEF Entry, PlainEntry, HashEntry

LEMMA ContentType ==
    ASSUME TypeOK, NEW e \in Entry
    PROVE  Content(e) \in Data
BY PlainOrHash, NoneAssumption DEF TypeOK, Content, Key

LEMMA SavedType ==
    ASSUME TypeOK, NEW e \in Entry
    PROVE  Saved(e) \in Data
BY NoneAssumption DEF TypeOK, Saved, Data

LEMMA FiniteSets ==
    /\ \A S \in SUBSET Field : IsFiniteSet(S) /\ Cardinality(S) \in Nat
    /\ \A S \in SUBSET Entry : IsFiniteSet(S) /\ Cardinality(S) \in Nat
<1>1. IsFiniteSet(PlainKey) /\ IsFiniteSet(HashKey)
  BY FiniteAssumption, FS_Subset
<1>2. IsFiniteSet({None})
  BY FS_Singleton
<1>3. IsFiniteSet(PlainEntry) /\ IsFiniteSet(HashEntry)
  BY <1>1, <1>2, FiniteAssumption, FS_Product DEF PlainEntry, HashEntry
<1>4. IsFiniteSet(Entry)
  BY <1>3, FS_Union DEF Entry
<1>5. QED
  BY <1>4, FiniteAssumption, FS_Subset, FS_CardinalityType

LEMMA SizeType ==
    ASSUME NEW h
    PROVE  Size(h) \in Nat
BY FiniteSets DEF Size

LEMMA InitType == Init => TInv
<1> SUFFICES ASSUME Init PROVE TInv
  OBVIOUS
<1> USE DEF Init
<1>1. TypeOK
  BY NoneAssumption
     DEF TypeOK, Key, Data, EmptyHash, RequestAt, SaverAt, NotStarted, Saver, Call,
         NoCall, Nothing, Entry, PlainEntry, HashEntry
<1>2. Off
  BY DEF Off, NotStarted, Saver
<1>3. Holds
  BY DEF Holds, NotStarted, Saver
<1>4. QED
  BY <1>1, <1>2, <1>3 DEF TInv

LEMMA RequestType ==
    ASSUME TInv, NEW r \in Request, RequestStep(r)
    PROVE  TInv'
<1> USE NoneAssumption
    DEF TInv, TypeOK, Off, Holds, Goto, With, Return, Change, Calls, Up, NoCall, Call,
        RequestAt, Key, Data, requestVars, saveVars, cleanVars, taskVars, cacheVars
<1>1. ASSUME NEW k \in Key, NEW v \in Value, Put(r, k, v) PROVE TInv'
  BY <1>1, Entries DEF Put
<1>2. ASSUME NEW k \in Key, NEW f \in Field, NEW v \in Value, GetHash(r, k, f, v)
      PROVE  TInv'
  BY <1>2 DEF GetHash
<1>3. CASE PutIfAbsent(r)
  <2> DEFINE c == call[r]
  <2>1. /\ c.key \in HashKey /\ c.field \in Field /\ c.data \in Value
        /\ pc[r] = "putIfAbsent"
    BY <1>3 DEF PutIfAbsent
  <2>2. CASE /\ cache[c.key] # None
             /\ With(r, "putField", c.key, c.field, c.data, cache[c.key])
             /\ UNCHANGED cacheVars
    BY <1>3, <2>1, <2>2 DEF PutIfAbsent
  <2>3. ASSUME NEW h \in Hash \ InUse,
               cache' = [cache EXCEPT ![c.key] = h],
               hash' = [hash EXCEPT ![h] = EmptyHash],
               With(r, "putField", c.key, c.field, c.data, h)
        PROVE  TInv'
    BY <1>3, <2>1, <2>3 DEF PutIfAbsent, EmptyHash
  <2>4. QED
    BY <1>3, <2>2, <2>3 DEF PutIfAbsent
<1>4. CASE PutField(r)
  BY <1>4, Entries DEF PutField
<1>5. CASE CacheChange(r)
  BY <1>5 DEF CacheChange
<1>6. ASSUME NEW k \in Key, Remove(r, k) PROVE TInv'
  BY <1>6, Entries DEF Remove
<1>7. ASSUME NEW k \in Key, RemoveHash(r, k) PROVE TInv'
  BY <1>7 DEF RemoveHash
<1>8. CASE CacheChangeAll(r)
  BY <1>8, SizeType DEF CacheChangeAll
<1>9. ASSUME NEW k \in Key, NEW f \in Field, GetField(r, k, f) PROVE TInv'
  BY <1>9 DEF GetField
<1>10. CASE RemoveField(r)
  <2>1. /\ call[r].hash \in Hash /\ call[r].field \in Field /\ pc[r] = "removeField"
        /\ hash' = [hash EXCEPT ![call[r].hash][call[r].field] = None]
    BY <1>10 DEF RemoveField
  <2>2. hash' \in [Hash -> [Field -> Data]]
    BY <2>1
  <2>3. Change(r) \/ Return(r)
    BY <1>10 DEF RemoveField
  <2>4. UNCHANGED <<cache, cacheChanged, running, file, saver, saveVars, cleanVars, missed>>
    BY <1>10 DEF RemoveField
  <2>5. CASE Change(r)
    BY <2>1, <2>2, <2>4, <2>5
  <2>6. CASE Return(r)
    BY <2>1, <2>2, <2>4, <2>6
  <2>7. QED
    BY <2>3, <2>5, <2>6
<1>11. QED
  BY <1>1, <1>2, <1>3, <1>4, <1>5, <1>6, <1>7, <1>8, <1>9, <1>10 DEF RequestStep

LEMMA CleanType ==
    ASSUME TInv, CleanStep
    PROVE  TInv'
<1> USE NoneAssumption
    DEF TInv, TypeOK, Off, Holds, At, NextKey, CleanAt, PersistAt, SaverAt, Saver,
        Key, Data, requestVars, saveVars, cleanVars, taskVars, cacheVars
<1>1. CASE Loop
  BY <1>1 DEF Loop
<1>2. ASSUME NEW k \in Key, VisitKey(k) PROVE TInv'
  <2>1. CASE cache[k] = Dead
    BY <1>2, <2>1 DEF VisitKey, PlainEntry
  <2>2. CASE cache[k] \in Hash
    BY <1>2, <2>2 DEF VisitKey
  <2>3. CASE cache[k] \in Value \cup {None}
    BY <1>2, <2>3 DEF VisitKey
  <2>4. QED
    BY <1>2, <2>1, <2>2, <2>3 DEF VisitKey
<1>3. CASE RemoveKey
  BY <1>3 DEF RemoveKey, Entry, PlainEntry
<1>4. ASSUME NEW f \in Field, VisitField(f) PROVE TInv'
  BY <1>4 DEF VisitField, HashEntry
<1>5. CASE CleanField
  BY <1>5 DEF CleanField, Entry, HashEntry
<1>6. CASE IsEmpty
  BY <1>6 DEF IsEmpty
<1>7. CASE CleanHash
  BY <1>7 DEF CleanHash
<1>8. CASE CleanThrows
  BY <1>8 DEF CleanThrows
<1>9. CASE CountCleaned
  BY <1>9, FiniteSets DEF CountCleaned
<1>10. QED
  BY <1>1, <1>2, <1>3, <1>4, <1>5, <1>6, <1>7, <1>8, <1>9 DEF CleanStep

LEMMA PersistType ==
    ASSUME TInv, NEW s \in Saver, PersistStep(s)
    PROVE  TInv'
<1> USE NoneAssumption, SizeAssumption
    DEF TInv, TypeOK, Off, Holds, At, Persisted, CleanAt, PersistAt, SaverAt, Saver,
        Nothing, requestVars, saveVars, cleanVars, taskVars, cacheVars
<1>1. CASE ReadCount(s)
  BY <1>1 DEF ReadCount, Data
<1>2. CASE ResetCount(s)
  BY <1>2 DEF ResetCount
<1>3. ASSUME NEW k \in Key, Serialize(s, k) PROVE TInv'
  BY <1>3, ContentType DEF Serialize
<1>4. CASE Open(s)
  BY <1>4 DEF Open
<1>5. CASE Write(s)
  BY <1>5 DEF Write, Data
<1>6. CASE PersistThrows(s)
  BY <1>6 DEF PersistThrows
<1>7. CASE AddCountAgain(s)
  BY <1>7 DEF AddCountAgain, Data
<1>8. QED
  BY <1>1, <1>2, <1>3, <1>4, <1>5, <1>6, <1>7 DEF PersistStep

LEMMA StartType ==
    ASSUME TInv, Start
    PROVE  TInv'
<1> USE NoneAssumption DEF TInv, Start
<1>1. \A e \in Entry : Saved(e) \in Data
  BY SavedType
<1>2. PICK h \in [HashKey -> Hash] :
        /\ \A k, l \in HashKey : h[k] = h[l] => k = l
        /\ cache' = [k \in Key |->
                       IF k \in PlainKey THEN Saved(<<k, None>>)
                       ELSE IF \E f \in Field : Saved(<<k, f>>) # None THEN h[k]
                       ELSE None]
        /\ hash' = [g \in Hash |-> [f \in Field |->
                       IF \E k \in HashKey : h[k] = g
                       THEN Saved(<<CHOOSE k \in HashKey : h[k] = g, f>>) ELSE None]]
  OBVIOUS
<1>3. /\ cache' \in [Key -> Data \cup Hash]
      /\ \A k \in PlainKey : cache'[k] \in Data
      /\ \A k \in HashKey : cache'[k] \in Hash \cup {None}
  BY <1>1, <1>2, Entries DEF Key, Data
<1>4. hash' \in [Hash -> [Field -> Data]]
  BY <1>1, <1>2, Entries DEF Data
<1>5. TypeOK'
  BY <1>3, <1>4 DEF TypeOK, At, Saver, SaverAt, requestVars, saveVars, cleanVars, taskVars
<1>6. Off' /\ Holds'
  BY <1>2 DEF Off, Holds, TypeOK, At, Saver, requestVars, saveVars, cleanVars, taskVars
<1>7. QED
  BY <1>5, <1>6

LEMMA TypeStep == TInv /\ [Next]_vars => TInv'
<1> SUFFICES ASSUME TInv, [Next]_vars PROVE TInv'
  OBVIOUS
<1>1. CASE Destroy
  BY <1>1 DEF Destroy, Up, TInv, TypeOK, Off, Holds, At, CleanAt, PersistAt, SaverAt,
              Saver, requestVars, saveVars, cleanVars, taskVars, cacheVars
<1>2. CASE Crash
  BY <1>2, NoneAssumption
     DEF Crash, TInv, TypeOK, Off, Holds, Key, Data, Call, NoCall, RequestAt, CleanAt,
         SaverAt, Saver, NotStarted, Nothing, EmptyHash, Entry, PlainEntry, HashEntry
<1>3. ASSUME NEW e \in Entry, Die(e) PROVE TInv'
  <2>1. TypeOK'
    <3> USE NoneAssumption
        DEF TInv, TypeOK, Key, Data, requestVars, saveVars, cleanVars, taskVars
    <3>1. CASE e \in PlainEntry
      <4>1. e[1] \in PlainKey /\ e \notin HashEntry
        BY <3>1, PlainOrHash
      <4>2. QED
        BY <1>3, <4>1 DEF Die
    <3>2. CASE e \in HashEntry
      <4>1. e \notin PlainEntry /\ e[1] \in HashKey /\ e[1] \notin PlainKey /\ e[2] \in Field
        BY <3>2, PlainOrHash
      <4>2. cache[e[1]] \in Hash
        BY <1>3, <4>1 DEF Die, Content
      <4>3. hash' = [hash EXCEPT ![cache[e[1]]][e[2]] = Dead]
        BY <1>3, <4>1 DEF Die
      <4>4. hash' \in [Hash -> [Field -> Data]]
        BY <4>1, <4>2, <4>3
      <4>5. UNCHANGED <<cache, cacheChanged, running, file, requestVars, saver, saveVars,
                        cleanVars, missed>>
        BY <1>3, <4>1 DEF Die
      <4>6. QED
        BY <4>4, <4>5
    <3>3. QED
      BY <3>1, <3>2, PlainOrHash
  <2>2. Off' /\ Holds'
    BY <1>3, PlainOrHash, NoneAssumption
       DEF Die, Content, TInv, TypeOK, Off, Holds, Key, requestVars, saveVars, cleanVars,
           taskVars
  <2>3. QED
    BY <2>1, <2>2 DEF TInv
<1>4. CASE UNCHANGED vars
  BY <1>4 DEF vars, TInv, TypeOK, Off, Holds, requestVars, saveVars, cleanVars, taskVars,
              cacheVars
<1>5. QED
  BY <1>1, <1>2, <1>3, <1>4, RequestType, CleanType, PersistType, StartType DEF Next

\* The state is well-formed; in particular the thread of CacheTask writes the file
\* only when more than unpersistMaxSize changes were counted.
THEOREM TypeCorrect == Spec => []TypeOK
<1>1. TInv => TypeOK
  BY DEF TInv
<1>2. QED
  BY <1>1, InitType, TypeStep, PTL DEF Spec

-----------------------------------------------------------------------------
(* Hashes *)

LEMMA KeepsOwner ==
    ASSUME OneOwner,
           \A h \in Hash, k \in HashKey : OwnedBy(h, k)' => OwnedBy(h, k)
    PROVE  OneOwner'
BY DEF OneOwner

LEMMA RequestOwner ==
    ASSUME HInv, NEW r \in Request, RequestStep(r)
    PROVE  OneOwner'
<1> USE NoneAssumption
    DEF HInv, TInv, TypeOK, Holds, OwnedBy, Goto, With, Return, Change, NoCall, Key,
        requestVars, cleanVars, taskVars, cacheVars
<1>1. ASSUME NEW k \in Key, NEW v \in Value, Put(r, k, v) PROVE OneOwner'
  BY <1>1, KeepsOwner DEF Put
<1>2. ASSUME NEW k \in Key, NEW f \in Field, NEW v \in Value, GetHash(r, k, f, v)
      PROVE  OneOwner'
  BY <1>2, KeepsOwner DEF GetHash
<1>3. CASE PutIfAbsent(r)
  <2> DEFINE c == call[r]
  <2>1. c.key \in HashKey
    BY <1>3 DEF PutIfAbsent
  <2>2. CASE /\ cache[c.key] # None
             /\ With(r, "putField", c.key, c.field, c.data, cache[c.key])
             /\ UNCHANGED cacheVars
    BY <1>3, <2>1, <2>2, KeepsOwner DEF PutIfAbsent
  <2>3. ASSUME NEW h \in Hash \ InUse,
               cache' = [cache EXCEPT ![c.key] = h],
               With(r, "putField", c.key, c.field, c.data, h)
        PROVE  OneOwner'
    <3>1. \A k \in HashKey : ~OwnedBy(h, k)
      BY <2>3 DEF InUse
    <3>2. \A k \in HashKey : OwnedBy(h, k)' => k = c.key
      BY <1>3, <2>1, <2>3, <3>1 DEF PutIfAbsent
    <3>3. \A g \in Hash, k \in HashKey : g # h /\ OwnedBy(g, k)' => OwnedBy(g, k)
      BY <1>3, <2>1, <2>3 DEF PutIfAbsent
    <3>4. QED
      BY <3>2, <3>3 DEF OneOwner
  <2>4. QED
    BY <1>3, <2>2, <2>3 DEF PutIfAbsent
<1>4. CASE PutField(r) \/ CacheChange(r) \/ CacheChangeAll(r)
  BY <1>4, KeepsOwner DEF PutField, CacheChange, CacheChangeAll
<1>5. ASSUME NEW k \in Key, Remove(r, k) PROVE OneOwner'
  BY <1>5, KeepsOwner DEF Remove
<1>6. ASSUME NEW k \in Key, RemoveHash(r, k) PROVE OneOwner'
  BY <1>6, KeepsOwner DEF RemoveHash
<1>7. ASSUME NEW k \in Key, NEW f \in Field, GetField(r, k, f) PROVE OneOwner'
  BY <1>7, KeepsOwner DEF GetField
<1>8. CASE RemoveField(r)
  <2>1. UNCHANGED <<cache, found, at>> /\ call' = [call EXCEPT ![r] = NoCall]
    BY <1>8 DEF RemoveField
  <2>2. QED
    BY <2>1, KeepsOwner
<1>9. QED
  BY <1>1, <1>2, <1>3, <1>4, <1>5, <1>6, <1>7, <1>8 DEF RequestStep

LEMMA CleanOwner ==
    ASSUME HInv, CleanStep
    PROVE  OneOwner'
<1> USE NoneAssumption
    DEF HInv, TInv, TypeOK, Holds, OwnedBy, NextKey, Key, PlainEntry, HashEntry,
        requestVars, cleanVars, taskVars, cacheVars
<1>1. CASE Loop \/ CountCleaned
  BY <1>1, KeepsOwner DEF Loop, CountCleaned
<1>2. ASSUME NEW k \in Key, VisitKey(k) PROVE OneOwner'
  BY <1>2, KeepsOwner DEF VisitKey
<1>3. CASE RemoveKey \/ CleanHash
  BY <1>3, KeepsOwner DEF RemoveKey, CleanHash
<1>4. ASSUME NEW f \in Field, VisitField(f) PROVE OneOwner'
  BY <1>4, KeepsOwner DEF VisitField
<1>5. CASE CleanField
  BY <1>5, KeepsOwner DEF CleanField
<1>6. CASE IsEmpty \/ CleanThrows
  BY <1>6, KeepsOwner DEF IsEmpty, CleanThrows
<1>7. QED
  BY <1>1, <1>2, <1>3, <1>4, <1>5, <1>6 DEF CleanStep

LEMMA OwnerStep == HInv /\ [Next]_vars => HInv'
<1> SUFFICES ASSUME HInv, [Next]_vars PROVE OneOwner'
  BY TypeStep DEF HInv
<1> USE NoneAssumption DEF HInv, OwnedBy, requestVars, cleanVars, taskVars, cacheVars
<1>1. ASSUME NEW s \in Saver, PersistStep(s) PROVE OneOwner'
  BY <1>1, KeepsOwner
     DEF PersistStep, ReadCount, ResetCount, Serialize, Open, Write, PersistThrows,
         AddCountAgain
<1>2. CASE Start
  <2>1. found' = None /\ \A r \in Request : call'[r] = NoCall
    BY <1>2 DEF Start, TInv, Off
  <2>2. PICK h \in [HashKey -> Hash] :
          /\ \A k, l \in HashKey : h[k] = h[l] => k = l
          /\ \A k \in HashKey : cache'[k] \in {h[k], None}
    BY <1>2 DEF Start, Key
  <2>3. \A g \in Hash, k \in HashKey : OwnedBy(g, k)' => g = h[k]
    BY <2>1, <2>2 DEF NoCall
  <2>4. QED
    BY <2>2, <2>3 DEF OneOwner
<1>3. CASE Destroy
  BY <1>3, KeepsOwner DEF Destroy
<1>4. CASE Crash
  BY <1>4, KeepsOwner DEF Crash, NoCall, Key
<1>5. ASSUME NEW e \in Entry, Die(e) PROVE OneOwner'
  BY <1>5, PlainOrHash, KeepsOwner DEF Die, TInv, TypeOK, Key
<1>6. CASE UNCHANGED vars
  BY <1>6, KeepsOwner DEF vars
<1>7. QED
  BY <1>1, <1>2, <1>3, <1>4, <1>5, <1>6, RequestOwner, CleanOwner DEF Next

-----------------------------------------------------------------------------
(* What each step does to the content of an entry *)

LEMMA SameContent ==
    ASSUME UNCHANGED cacheVars, NEW e \in Entry
    PROVE  Content(e)' = Content(e)
BY DEF cacheVars, Content

LEMMA PutContent ==
    ASSUME HInv, NEW r \in Request, NEW k \in Key, NEW v \in Value, Put(r, k, v),
           NEW e \in Entry, e # <<k, None>>
    PROVE  Content(e)' = Content(e)
BY PlainOrHash DEF Put, Content, HInv, TInv, TypeOK, Key

LEMMA RemoveContent ==
    ASSUME HInv, NEW k \in PlainKey, cache' = [cache EXCEPT ![k] = None],
           UNCHANGED hash, NEW e \in Entry
    PROVE  Content(e)' = IF e = <<k, None>> THEN None ELSE Content(e)
BY PlainOrHash, NoneAssumption DEF Content, HInv, TInv, TypeOK, Key

LEMMA RemoveHashContent ==
    ASSUME HInv, NEW k \in HashKey, cache' = [cache EXCEPT ![k] = None],
           UNCHANGED hash, NEW e \in Entry
    PROVE  Content(e)' = IF e[1] = k THEN None ELSE Content(e)
BY PlainOrHash, NoneAssumption DEF Content, HInv, TInv, TypeOK, Key

\* Only the key that has a hash sees what happens in it.
LEMMA FieldContent ==
    ASSUME HInv, NEW h \in Hash, NEW k \in HashKey, OwnedBy(h, k), NEW f \in Field,
           NEW d, UNCHANGED cache, NEW e \in Entry,
           \A g \in Hash, x \in Field :
              hash'[g][x] = IF g = h /\ x = f THEN d ELSE hash[g][x]
    PROVE  IF e = <<k, f>> /\ cache[k] = h
           THEN Content(e) = hash[h][f] /\ Content(e)' = d
           ELSE Content(e)' = Content(e)
<1>1. CASE e[1] \in PlainKey
  BY <1>1, PlainOrHash, NoneAssumption DEF Content
<1>2. CASE e[1] \in HashKey /\ e[1] \notin PlainKey /\ e[2] \in Field /\ cache[e[1]] = h
  <2>1. e[1] = k
    BY <1>2 DEF HInv, OneOwner, OwnedBy
  <2>2. CASE e[2] = f
    BY <1>2, <2>1, <2>2, PlainOrHash, NoneAssumption DEF Content, HInv, TInv, TypeOK
  <2>3. CASE e[2] # f
    BY <1>2, <2>1, <2>3, NoneAssumption DEF Content, HInv, TInv, TypeOK
  <2>4. QED
    BY <2>2, <2>3
<1>3. CASE e[1] \in HashKey /\ e[1] \notin PlainKey /\ e[2] \in Field /\ cache[e[1]] # h
  <2>1. cache[e[1]] \in Hash \cup {None}
    BY <1>3 DEF HInv, TInv, TypeOK
  <2>2. Content(e)' = Content(e)
    BY <1>3, <2>1 DEF Content, HInv, TInv, TypeOK
  <2>3. QED
    BY <1>3, <2>2
<1>4. QED
  BY <1>1, <1>2, <1>3, PlainOrHash

LEMMA PutIfAbsentContent ==
    ASSUME HInv, NEW r \in Request, PutIfAbsent(r), NEW e \in Entry
    PROVE  Content(e)' = Content(e)
<1> DEFINE c == call[r]
<1>1. c.key \in HashKey
  BY DEF PutIfAbsent, HInv, TInv, Holds
<1>2. CASE UNCHANGED cacheVars
  BY <1>2, SameContent
<1>3. ASSUME NEW h \in Hash \ InUse, cache[c.key] = None,
             cache' = [cache EXCEPT ![c.key] = h],
             hash' = [hash EXCEPT ![h] = EmptyHash]
      PROVE  Content(e)' = Content(e)
  <2>1. \A k \in HashKey : cache[k] # h
    BY <1>3 DEF InUse
  <2>2. CASE e[1] \in PlainKey
    BY <1>1, <1>3, <2>2, NoneAssumption DEF Content, HInv, TInv, TypeOK, Key
  <2>3. CASE e[1] = c.key /\ e[1] \notin PlainKey /\ e[2] \in Field
    BY <1>1, <1>3, <2>3, NoneAssumption DEF Content, EmptyHash, HInv, TInv, TypeOK, Key
  <2>4. CASE e[1] # c.key /\ e[1] \in HashKey /\ e[1] \notin PlainKey /\ e[2] \in Field
    BY <1>1, <1>3, <2>1, <2>4 DEF Content, HInv, TInv, TypeOK, Key
  <2>5. QED
    BY <2>2, <2>3, <2>4, PlainOrHash
<1>4. QED
  BY <1>2, <1>3 DEF PutIfAbsent

-----------------------------------------------------------------------------
(* Excuses *)

LEMMA RequestSure ==
    ASSUME TInv, Sure, NEW r \in Request, RequestStep(r)
    PROVE  Sure'
<1> USE DEF Sure, TInv, TypeOK, Goto, With, Return, Change, Calls
<1>1. CASE CacheChange(r)
  BY <1>1 DEF CacheChange
<1>2. CASE CacheChangeAll(r)
  BY <1>2, SizeType DEF CacheChangeAll
<1>3. CASE PutIfAbsent(r) \/ PutField(r) \/ RemoveField(r)
  BY <1>3 DEF PutIfAbsent, PutField, RemoveField
<1>4. ASSUME NEW k \in Key, NEW v \in Value, Put(r, k, v) PROVE Sure'
  BY <1>4 DEF Put
<1>5. ASSUME NEW k \in Key, NEW f \in Field, NEW v \in Value, GetHash(r, k, f, v)
      PROVE  Sure'
  BY <1>5 DEF GetHash
<1>6. ASSUME NEW k \in Key, Remove(r, k) PROVE Sure'
  BY <1>6 DEF Remove, requestVars
<1>7. ASSUME NEW k \in Key, RemoveHash(r, k) PROVE Sure'
  BY <1>7 DEF RemoveHash
<1>8. ASSUME NEW k \in Key, NEW f \in Field, GetField(r, k, f) PROVE Sure'
  BY <1>8 DEF GetField
<1>9. QED
  BY <1>1, <1>2, <1>3, <1>4, <1>5, <1>6, <1>7, <1>8 DEF RequestStep

LEMMA CleanSure ==
    ASSUME TInv, Sure, CleanStep
    PROVE  Sure'
<1> USE DEF Sure, requestVars
<1>1. CASE CountCleaned
  <2>1. cacheChanged \in Nat /\ Cardinality(cleaned) \in Nat
    BY FiniteSets DEF TInv, TypeOK
  <2>2. QED
    BY <1>1, <2>1 DEF CountCleaned
<1>2. CASE ~CountCleaned
  BY <1>2
     DEF CleanStep, Loop, VisitKey, RemoveKey, VisitField, CleanField, IsEmpty,
         CleanHash, CleanThrows
<1>3. QED
  BY <1>1, <1>2

LEMMA LeavingField ==
    ASSUME HInv, NEW r \in Request, NEW e \in Entry, Leaving(r, e)
    PROVE  /\ call[r].hash \in Hash /\ OwnedBy(call[r].hash, e[1])
           /\ e[1] \in HashKey /\ e[2] \in Field
BY PlainOrHash, NoneAssumption DEF Leaving, HInv, TInv, Holds, OwnedBy

\* Another hash, another field, or other data in its place: it is still leaving.
LEMMA StillLeaving ==
    ASSUME HInv, NEW r \in Request, NEW e \in Entry, Leaving(r, e),
           NEW h \in Hash, NEW f \in Field, NEW d, hash' = [hash EXCEPT ![h][f] = d],
           pc'[r] = pc[r], call'[r] = call[r],
           d # None \/ h # call[r].hash \/ f # e[2]
    PROVE  Leaving(r, e)'
BY LeavingField DEF Leaving, HInv, TInv, TypeOK

LEMMA LeavingIsCounted ==
    ASSUME HInv, NEW r \in Request, NEW e \in Entry, Leaving(r, e)
    PROVE  Size(call[r].hash) > 0
<1> DEFINE S == {f \in Field : hash[call[r].hash][f] # None}
<1>1. e[2] \in S
  BY LeavingField DEF Leaving
<1>2. IsFiniteSet(S) /\ Cardinality(S) \in Nat
  BY FiniteSets
<1>3. Cardinality(S) # 0
  BY <1>1, <1>2, FS_EmptySet
<1>4. QED
  BY <1>2, <1>3 DEF Size

LEMMA RequestLeaving ==
    ASSUME HInv, NEW r \in Request, RequestStep(r),
           NEW q \in Request, NEW e \in Entry, Leaving(q, e)
    PROVE  Sure' \/ Leaving(q, e)'
<1> USE DEF HInv, TInv, TypeOK, Holds, Goto, With, Return, Change, Calls
<1>1. CASE r = q
  <2>1. CacheChangeAll(r)
    BY <1>1 DEF RequestStep, Put, GetHash, Remove, RemoveHash, GetField, PutIfAbsent,
                PutField, CacheChange, RemoveField, Leaving
  <2>2. QED
    BY <1>1, <2>1, LeavingIsCounted, SizeType DEF CacheChangeAll, Sure
<1>2. CASE r # q
  <2>1. pc'[q] = pc[q] /\ call'[q] = call[q]
    BY <1>2 DEF RequestStep, Put, GetHash, Remove, RemoveHash, GetField, PutIfAbsent,
                PutField, CacheChange, CacheChangeAll, RemoveField, requestVars
  <2>2. CASE UNCHANGED hash
    BY <2>1, <2>2 DEF Leaving
  <2>3. CASE PutIfAbsent(r)
    <3>1. \A h \in Hash \ InUse : h # call[q].hash
      BY DEF InUse
    <3>2. QED
      BY <2>1, <2>2, <2>3, <3>1, LeavingField DEF PutIfAbsent, Leaving, cacheVars
  <2>4. CASE PutField(r)
    BY <2>1, <2>4, StillLeaving, NoneAssumption DEF PutField
  <2>5. CASE RemoveField(r)
    <3>1. CASE call[r].hash = call[q].hash /\ call[r].field = e[2]
      BY <2>5, <3>1 DEF RemoveField, Sure, Leaving
    <3>2. CASE call[r].hash # call[q].hash \/ call[r].field # e[2]
      BY <2>1, <2>5, <3>2, StillLeaving DEF RemoveField
    <3>3. QED
      BY <3>1, <3>2
  <2>6. QED
    BY <2>2, <2>3, <2>4, <2>5
       DEF RequestStep, Put, GetHash, Remove, RemoveHash, GetField, CacheChange,
           CacheChangeAll, cacheVars
<1>3. QED
  BY <1>1, <1>2

LEMMA RequestExcused ==
    ASSUME HInv, NEW r \in Request, RequestStep(r), NEW e \in Entry, Excused(e)
    PROVE  Excused(e)'
<1>1. CASE Sure
  BY <1>1, RequestSure DEF HInv, Excused
<1>2. CASE e \in cleaned
  BY <1>2 DEF RequestStep, Put, GetHash, Remove, RemoveHash, GetField, PutIfAbsent,
              PutField, CacheChange, CacheChangeAll, RemoveField, cleanVars, taskVars, Excused
<1>3. CASE e \in missed
  <2>1. CASE \E k \in Key, v \in Value : Put(r, k, v)
    BY <2>1 DEF Put, Change, Goto, Excused, Sure, HInv, TInv, TypeOK
  <2>2. CASE PutField(r)
    BY <2>2 DEF PutField, Change, Goto, Excused, Sure, HInv, TInv, TypeOK
  <2>3. CASE missed \subseteq missed'
    BY <1>3, <2>3 DEF Excused
  <2>4. QED
    BY <2>1, <2>2, <2>3
       DEF RequestStep, GetHash, Remove, RemoveHash, GetField, PutIfAbsent,
           CacheChange, CacheChangeAll, RemoveField
<1>4. ASSUME NEW q \in Request, Leaving(q, e) PROVE Excused(e)'
  BY <1>4, RequestLeaving DEF Excused
<1>5. QED
  BY <1>1, <1>2, <1>3, <1>4 DEF Excused

LEMMA CleanLeaving ==
    ASSUME HInv, CleanStep, NEW q \in Request, NEW e \in Entry, Leaving(q, e)
    PROVE  e \in cleaned' \/ Leaving(q, e)'
<1>1. UNCHANGED <<pc, call>>
  BY DEF CleanStep, Loop, VisitKey, RemoveKey, VisitField, CleanField, IsEmpty,
         CleanHash, CleanThrows, CountCleaned, requestVars
<1>2. CASE CleanField
  <2>1. /\ found \in Hash /\ at = <<at[1], at[2]>> /\ at[1] \in HashKey /\ at[2] \in Field
        /\ e = <<e[1], e[2]>>
    BY <1>2, PlainOrHash DEF CleanField, HInv, TInv, Holds, HashEntry
  <2>2. CASE found = call[q].hash /\ at[2] = e[2]
    <3>1. at[1] = e[1]
      BY <2>1, <2>2, LeavingField DEF HInv, OneOwner, OwnedBy
    <3>2. QED
      BY <1>2, <2>1, <2>2, <3>1 DEF CleanField
  <2>3. CASE found # call[q].hash \/ at[2] # e[2]
    BY <1>1, <1>2, <2>1, <2>3, StillLeaving DEF CleanField
  <2>4. QED
    BY <2>2, <2>3
<1>3. CASE UNCHANGED hash
  BY <1>1, <1>3 DEF Leaving
<1>4. QED
  BY <1>2, <1>3
     DEF CleanStep, Loop, VisitKey, RemoveKey, VisitField, IsEmpty, CleanHash,
         CleanThrows, CountCleaned, cacheVars

LEMMA CleanExcused ==
    ASSUME HInv, CleanedIsGone, Up, CleanStep, NEW e \in Entry, Excused(e)
    PROVE  Excused(e)'
<1>1. CASE Sure
  BY <1>1, CleanSure DEF HInv, Excused
<1>2. CASE e \in missed
  BY <1>2 DEF CleanStep, Loop, VisitKey, RemoveKey, VisitField, CleanField, IsEmpty,
              CleanHash, CleanThrows, CountCleaned, Excused
<1>3. CASE e \in cleaned
  <2>1. CASE CountCleaned
    <3>1. Cardinality(cleaned) \in Nat /\ Cardinality(cleaned) # 0
      BY <1>3, FiniteSets, FS_EmptySet DEF HInv, TInv, TypeOK
    <3>2. cacheChanged \in Nat /\ cacheChanged' = cacheChanged + Cardinality(cleaned)
      BY <2>1 DEF CountCleaned, HInv, TInv, TypeOK
    <3>3. cacheChanged' > 0
      BY <3>1, <3>2
    <3>4. QED
      BY <3>3 DEF Excused, Sure
  <2>2. CASE CleanThrows
    <3>1. CASE Content(e) = None
      BY <1>3, <2>2, <3>1 DEF CleanThrows, Excused
    <3>2. CASE Content(e) # None
      BY <1>3, <3>2, CleanSure DEF CleanedIsGone, Excused, HInv
    <3>3. QED
      BY <3>1, <3>2
  <2>3. CASE cleaned \subseteq cleaned'
    BY <1>3, <2>3 DEF Excused
  <2>4. QED
    BY <2>1, <2>2, <2>3
       DEF CleanStep, Loop, VisitKey, RemoveKey, VisitField, CleanField, IsEmpty,
           CleanHash, cleanVars, taskVars
<1>4. ASSUME NEW q \in Request, Leaving(q, e) PROVE Excused(e)'
  BY <1>4, CleanLeaving DEF Excused
<1>5. QED
  BY <1>1, <1>2, <1>3, <1>4 DEF Excused

\* What a step may do to the content of an entry.
Accounts(e) == Content(e)' = Dead \/ Excused(e)' \/ Content(e)' = Content(e)

LEMMA RequestAccounts ==
    ASSUME HInv, NEW r \in Request, RequestStep(r), NEW e \in Entry
    PROVE  Accounts(e)
<1> USE DEF Accounts
<1>1. ASSUME NEW k \in Key, NEW v \in Value, Put(r, k, v) PROVE Accounts(e)
  BY <1>1 DEF Put, Change, Goto, Excused, Sure, HInv, TInv, TypeOK
<1>2. CASE PutIfAbsent(r)
  BY <1>2, PutIfAbsentContent
<1>3. CASE PutField(r)
  BY <1>3 DEF PutField, Change, Goto, Excused, Sure, HInv, TInv, TypeOK
<1>4. ASSUME NEW k \in Key, Remove(r, k) PROVE Accounts(e)
  BY <1>4, RemoveContent DEF Remove, Excused
<1>5. ASSUME NEW k \in Key, RemoveHash(r, k) PROVE Accounts(e)
  <2>1. k \in HashKey /\ cache[k] \in Hash
    BY <1>5 DEF RemoveHash, HInv, TInv, TypeOK
  <2>2. CASE e[1] = k /\ Content(e) # None
    <3>1. e[1] \notin PlainKey /\ hash[cache[k]][e[2]] # None
      BY <2>1, <2>2, NoneAssumption DEF Content
    <3>2. Leaving(r, e)'
      BY <1>5, <2>1, <2>2, <3>1
         DEF RemoveHash, With, Goto, Leaving, HInv, TInv, TypeOK
    <3>3. QED
      BY <3>2 DEF Excused
  <2>3. CASE e[1] # k \/ Content(e) = None
    BY <1>5, <2>1, <2>3, RemoveHashContent DEF RemoveHash
  <2>4. QED
    BY <2>2, <2>3
<1>6. CASE RemoveField(r)
  <2> DEFINE c == call[r]
  <2>1. /\ c.hash \in Hash /\ c.key \in HashKey /\ c.field \in Field
        /\ OwnedBy(c.hash, c.key) /\ UNCHANGED cache
        /\ \A g \in Hash, x \in Field :
              hash'[g][x] = IF g = c.hash /\ x = c.field THEN None ELSE hash[g][x]
    BY <1>6 DEF RemoveField, HInv, TInv, TypeOK, Holds, OwnedBy
  <2>2. CASE hash[c.hash][c.field] = None
    <3>1. \/ Content(e)' = Content(e)
          \/ Content(e) = hash[c.hash][c.field] /\ Content(e)' = None
      BY <2>1, FieldContent
    <3>2. QED
      BY <2>2, <3>1
  <2>3. CASE hash[c.hash][c.field] # None
    BY <1>6, <2>3 DEF RemoveField, Change, Goto, Excused, Sure, HInv, TInv, TypeOK
  <2>4. QED
    BY <2>2, <2>3
<1>7. CASE UNCHANGED cacheVars
  BY <1>7, SameContent
<1>8. QED
  BY <1>1, <1>2, <1>3, <1>4, <1>5, <1>6, <1>7
     DEF RequestStep, GetHash, CacheChange, CacheChangeAll, GetField, cacheVars

LEMMA CleanAccounts ==
    ASSUME HInv, FoundIsOld, Up, CleanStep, NEW e \in Entry
    PROVE  Accounts(e)
<1> USE DEF Accounts
<1>1. CASE RemoveKey
  <2>1. at \in PlainEntry /\ at[1] \in PlainKey /\ at = <<at[1], None>>
    BY <1>1 DEF RemoveKey, HInv, TInv, Holds, PlainEntry
  <2>2. QED
    BY <1>1, <2>1, RemoveContent DEF RemoveKey, Excused
<1>2. CASE CleanField
  <2>1. /\ found \in Hash /\ at = <<at[1], at[2]>> /\ at[1] \in HashKey /\ at[2] \in Field
        /\ OwnedBy(found, at[1]) /\ UNCHANGED cache
        /\ \A g \in Hash, x \in Field :
              hash'[g][x] = IF g = found /\ x = at[2] THEN None ELSE hash[g][x]
    BY <1>2 DEF CleanField, HInv, TInv, TypeOK, Holds, HashEntry, OwnedBy
  <2>2. e = at \/ Content(e)' = Content(e)
    BY <2>1, FieldContent
  <2>3. QED
    BY <1>2, <2>2 DEF CleanField, Excused
<1>3. CASE CleanHash
  <2>1. saver["task"] = "removeHash" /\ at[1] \in HashKey
    BY <1>3 DEF CleanHash, HInv, TInv, Holds
  <2>2. CASE e[1] = at[1] /\ Content(e) # None
    <3>1. e = <<at[1], e[2]>> /\ e[2] \in Field
      BY <2>1, <2>2, PlainOrHash, NoneAssumption
    <3>2. Sure
      BY <2>1, <2>2, <3>1 DEF FoundIsOld
    <3>3. QED
      BY <3>2, CleanSure DEF HInv, Excused
  <2>3. CASE e[1] # at[1] \/ Content(e) = None
    BY <1>3, <2>1, <2>3, RemoveHashContent DEF CleanHash
  <2>4. QED
    BY <2>2, <2>3
<1>4. CASE UNCHANGED cacheVars
  BY <1>4, SameContent
<1>5. QED
  BY <1>1, <1>2, <1>3, <1>4
     DEF CleanStep, Loop, VisitKey, VisitField, IsEmpty, CleanThrows, CountCleaned, cacheVars

-----------------------------------------------------------------------------
(* What was removed *)

Drops(e) == Content(e)' \in {Content(e), None}

LEMMA RequestDrops ==
    ASSUME HInv, NEW r \in Request, RequestStep(r), NEW e \in Entry
    PROVE  Drops(e) \/ (Sure' /\ e \notin missed')
<1> USE DEF Drops
<1>1. ASSUME NEW k \in Key, NEW v \in Value, Put(r, k, v)
      PROVE  Drops(e) \/ (Sure' /\ e \notin missed')
  <2>1. CASE e = <<k, None>>
    BY <1>1, <2>1 DEF Put, Change, Goto, Sure, HInv, TInv, TypeOK
  <2>2. CASE e # <<k, None>>
    BY <1>1, <2>2, PutContent
  <2>3. QED
    BY <2>1, <2>2
<1>2. CASE PutIfAbsent(r)
  BY <1>2, PutIfAbsentContent
<1>3. CASE PutField(r)
  <2> DEFINE c == call[r]
  <2>1. CASE e = <<c.key, c.field>>
    BY <1>3, <2>1 DEF PutField, Change, Goto, Sure, HInv, TInv, TypeOK
  <2>2. CASE e # <<c.key, c.field>>
    <3>1. PICK h \in Hash, k \in HashKey, f \in Field, d \in Data :
            /\ <<k, f>> = <<c.key, c.field>> /\ OwnedBy(h, k) /\ UNCHANGED cache
            /\ \A g \in Hash, x \in Field :
                  hash'[g][x] = IF g = h /\ x = f THEN d ELSE hash[g][x]
      <4>1. /\ c.hash \in Hash /\ c.key \in HashKey /\ c.field \in Field /\ c.data \in Data
            /\ OwnedBy(c.hash, c.key) /\ UNCHANGED cache
            /\ \A g \in Hash, x \in Field :
                  hash'[g][x] = IF g = c.hash /\ x = c.field THEN c.data ELSE hash[g][x]
        BY <1>3 DEF PutField, HInv, TInv, TypeOK, Holds, OwnedBy, Data
      <4>2. QED
        BY <4>1
    <3>2. e # <<k, f>>
      BY <2>2, <3>1
    <3>3. Content(e)' = Content(e)
      BY <3>1, <3>2, FieldContent
    <3>4. QED
      BY <3>3
  <2>3. QED
    BY <2>1, <2>2
<1>4. ASSUME NEW k \in Key, Remove(r, k) PROVE Drops(e)
  BY <1>4, RemoveContent DEF Remove
<1>5. ASSUME NEW k \in Key, RemoveHash(r, k) PROVE Drops(e)
  BY <1>5, RemoveHashContent DEF RemoveHash
<1>6. CASE RemoveField(r)
  <2> DEFINE c == call[r]
  <2>1. /\ c.hash \in Hash /\ c.key \in HashKey /\ c.field \in Field
        /\ OwnedBy(c.hash, c.key) /\ UNCHANGED cache
        /\ \A g \in Hash, x \in Field :
              hash'[g][x] = IF g = c.hash /\ x = c.field THEN None ELSE hash[g][x]
    BY <1>6 DEF RemoveField, HInv, TInv, TypeOK, Holds, OwnedBy
  <2>2. \/ Content(e)' = Content(e)
        \/ Content(e) = hash[c.hash][c.field] /\ Content(e)' = None
    BY <2>1, FieldContent
  <2>3. QED
    BY <2>2
<1>7. CASE UNCHANGED cacheVars
  BY <1>7, SameContent
<1>8. QED
  BY <1>1, <1>2, <1>3, <1>4, <1>5, <1>6, <1>7
     DEF RequestStep, GetHash, CacheChange, CacheChangeAll, GetField, cacheVars

LEMMA CleanDrops ==
    ASSUME HInv, CleanStep, NEW e \in Entry
    PROVE  Drops(e)
<1> USE DEF Drops
<1>1. CASE RemoveKey
  <2>1. at[1] \in PlainKey
    BY <1>1 DEF RemoveKey, HInv, TInv, Holds, PlainEntry
  <2>2. QED
    BY <1>1, <2>1, RemoveContent DEF RemoveKey
<1>2. CASE CleanField
  <2>1. /\ found \in Hash /\ at[1] \in HashKey /\ at[2] \in Field
        /\ OwnedBy(found, at[1]) /\ UNCHANGED cache
        /\ \A g \in Hash, x \in Field :
              hash'[g][x] = IF g = found /\ x = at[2] THEN None ELSE hash[g][x]
    BY <1>2 DEF CleanField, HInv, TInv, TypeOK, Holds, HashEntry, OwnedBy
  <2>2. Content(e)' = Content(e) \/ Content(e)' = None
    BY <2>1, FieldContent
  <2>3. QED
    BY <2>2
<1>3. CASE CleanHash
  <2>1. at[1] \in HashKey
    BY <1>3 DEF CleanHash, HInv, TInv, Holds
  <2>2. QED
    BY <1>3, <2>1, RemoveHashContent DEF CleanHash
<1>4. CASE UNCHANGED cacheVars
  BY <1>4, SameContent
<1>5. QED
  BY <1>1, <1>2, <1>3, <1>4
     DEF CleanStep, Loop, VisitKey, VisitField, IsEmpty, CleanThrows, CountCleaned, cacheVars

LEMMA DieContent ==
    ASSUME HInv, NEW d \in Entry, Die(d), NEW e \in Entry
    PROVE  /\ Content(d) \in Value /\ UNCHANGED <<missed, cleaned>>
           /\ Content(e)' = IF e = d THEN Dead ELSE Content(e)
<1>1. Content(d) \in Value /\ UNCHANGED <<missed, cleaned>>
  BY DEF Die, cleanVars, taskVars
<1>2. CASE d \in PlainEntry
  <2>1. d \notin HashEntry /\ d[1] \in PlainKey /\ d = <<d[1], None>>
    BY <1>2, PlainOrHash
  <2>2. cache' = [cache EXCEPT ![d[1]] = Dead] /\ UNCHANGED hash
    BY <2>1 DEF Die
  <2>3. QED
    BY <1>1, <2>1, <2>2, PlainOrHash, NoneAssumption DEF Content, HInv, TInv, TypeOK, Key
<1>3. CASE d \in HashEntry
  <2>1. /\ d \notin PlainEntry /\ d[1] \in HashKey /\ d[1] \notin PlainKey
        /\ d[2] \in Field /\ d = <<d[1], d[2]>>
    BY <1>3, PlainOrHash
  <2>2. cache[d[1]] \in Hash /\ OwnedBy(cache[d[1]], d[1])
    BY <1>1, <2>1, NoneAssumption DEF Content, OwnedBy, HInv, TInv, TypeOK
  <2>3. /\ UNCHANGED cache
        /\ \A g \in Hash, x \in Field :
              hash'[g][x] = IF g = cache[d[1]] /\ x = d[2] THEN Dead ELSE hash[g][x]
    BY <2>1, <2>2 DEF Die, HInv, TInv, TypeOK
  <2>4. IF e = <<d[1], d[2]>> /\ cache[d[1]] = cache[d[1]]
        THEN Content(e) = hash[cache[d[1]]][d[2]] /\ Content(e)' = Dead
        ELSE Content(e)' = Content(e)
    BY <2>1, <2>2, <2>3, FieldContent
  <2>5. QED
    BY <1>1, <2>1, <2>4
<1>4. QED
  BY <1>2, <1>3, PlainOrHash

LEMMA PersistContent ==
    ASSUME HInv, NEW s \in Saver, PersistStep(s), NEW e \in Entry
    PROVE  Content(e)' = Content(e) /\ missed' \subseteq missed /\ UNCHANGED cleaned
BY SameContent
   DEF PersistStep, ReadCount, ResetCount, Serialize, Open, Write, PersistThrows,
       AddCountAgain, cacheVars, cleanVars, taskVars

LEMMA MissedStep == HInv /\ MissedIsGone /\ [Next]_vars => MissedIsGone'
<1> SUFFICES ASSUME HInv, MissedIsGone, [Next]_vars, NEW e \in missed'
             PROVE  Content(e)' = None
  BY DEF MissedIsGone
<1> USE DEF MissedIsGone, Drops
<1>1. e \in Entry
  BY TypeStep DEF HInv, TInv, TypeOK
<1>2. ASSUME NEW r \in Request, RequestStep(r) PROVE Content(e)' = None
  <2>1. CASE e \in missed
    BY <1>1, <1>2, <2>1, RequestDrops
  <2>2. CASE e \notin missed
    <3>1. PICK k \in Key : Remove(r, k) /\ e = <<k, None>>
      BY <1>2, <2>2
         DEF RequestStep, Put, GetHash, Remove, RemoveHash, GetField, PutIfAbsent,
             PutField, CacheChange, CacheChangeAll, RemoveField
    <3>2. QED
      BY <1>1, <3>1, RemoveContent DEF Remove
  <2>3. QED
    BY <2>1, <2>2
<1>3. CASE CleanStep
  <2>1. CASE e \in missed
    BY <1>1, <1>3, <2>1, CleanDrops
  <2>2. CASE e \notin missed
    <3>1. CleanThrows /\ Content(e) = None
      BY <1>3, <2>2 DEF CleanStep, Loop, VisitKey, RemoveKey, VisitField, CleanField,
                        IsEmpty, CleanHash, CleanThrows, CountCleaned
    <3>2. QED
      BY <1>1, <3>1, SameContent DEF CleanThrows
  <2>3. QED
    BY <2>1, <2>2
<1>4. ASSUME NEW s \in Saver, PersistStep(s) PROVE Content(e)' = None
  BY <1>1, <1>4, PersistContent
<1>5. CASE Start
  BY <1>5 DEF Start, HInv, TInv, Off
<1>6. CASE Destroy
  BY <1>1, <1>6, SameContent DEF Destroy
<1>7. CASE Crash
  BY <1>7 DEF Crash
<1>8. ASSUME NEW d \in Entry, Die(d) PROVE Content(e)' = None
  BY <1>1, <1>8, DieContent, NoneAssumption
<1>9. CASE UNCHANGED vars
  BY <1>1, <1>9, SameContent DEF vars
<1>10. QED
  BY <1>2, <1>3, <1>4, <1>5, <1>6, <1>7, <1>8, <1>9 DEF Next

LEMMA UpIsKept ==
    ASSUME HInv
    PROVE  /\ \A r \in Request : RequestStep(r) => UNCHANGED <<saver, at, found, cleaned>>
           /\ CleanStep /\ Up' => Up
           /\ \A s \in Saver : PersistStep(s) /\ Up'
                 => /\ s = "task" /\ Up /\ saver["task"] \in PersistAt
                    /\ saver'["task"] \in PersistAt \cup {"loop"}
           /\ ~(Destroy /\ Up') /\ ~(Crash /\ Up')
<1> USE DEF HInv, TInv, TypeOK, At, Saver, Up
<1>1. ASSUME NEW r \in Request, RequestStep(r)
      PROVE  UNCHANGED <<saver, at, found, cleaned>>
  BY <1>1 DEF RequestStep, Put, GetHash, Remove, RemoveHash, GetField, PutIfAbsent,
              PutField, CacheChange, CacheChangeAll, RemoveField, cleanVars, taskVars
<1>2. CleanStep /\ Up' => Up
  BY DEF CleanStep, Loop, VisitKey, RemoveKey, VisitField, CleanField, IsEmpty,
         CleanHash, CleanThrows, CountCleaned, NextKey
<1>3. ASSUME NEW s \in Saver, PersistStep(s), Up'
      PROVE  /\ s = "task" /\ Up /\ saver["task"] \in PersistAt
             /\ saver'["task"] \in PersistAt \cup {"loop"}
  BY <1>3 DEF PersistStep, ReadCount, ResetCount, Serialize, Open, Write, PersistThrows,
              AddCountAgain, Persisted, PersistAt
<1>4. ~(Destroy /\ Up') /\ ~(Crash /\ Up')
  BY DEF Destroy, Crash, NotStarted
<1>5. QED
  BY <1>1, <1>2, <1>3, <1>4

LEMMA PersistExcused ==
    ASSUME HInv, PersistStep("task"), ~ResetCount("task"),
           NEW e \in Entry, Excused(e), e \in missed => e \in missed'
    PROVE  Excused(e)'
<1>1. UNCHANGED <<hash, pc, call, cleaned>> /\ (cacheChanged > 0 => cacheChanged' > 0)
  BY DEF PersistStep, ReadCount, Serialize, Open, Write, PersistThrows, AddCountAgain,
         HInv, TInv, TypeOK, requestVars, cacheVars, cleanVars, taskVars, Saver
<1>2. CASE Sure
  BY <1>1, <1>2 DEF Sure, Excused
<1>3. CASE e \in missed \cup cleaned
  BY <1>1, <1>3 DEF Excused
<1>4. ASSUME NEW r \in Request, Leaving(r, e) PROVE Excused(e)'
  BY <1>1, <1>4 DEF Leaving, Excused
<1>5. QED
  BY <1>2, <1>3, <1>4 DEF Excused

LEMMA CleanedStep ==
    HInv /\ CleanedIsGone /\ FoundIsOld /\ [Next]_vars => CleanedIsGone'
<1> SUFFICES ASSUME HInv, CleanedIsGone, FoundIsOld, [Next]_vars, Up',
                    NEW e \in cleaned', Content(e)' # None
             PROVE  Sure'
  BY DEF CleanedIsGone
<1> USE DEF Drops
<1>1. e \in Entry
  BY TypeStep DEF HInv, TInv, TypeOK
<1>2. ASSUME NEW r \in Request, RequestStep(r) PROVE Sure'
  <2>1. Up /\ e \in cleaned
    BY <1>2, UpIsKept DEF Up
  <2>2. CASE Drops(e)
    BY <1>2, <2>1, <2>2, RequestSure DEF CleanedIsGone, HInv
  <2>3. QED
    BY <1>1, <1>2, <2>2, RequestDrops
<1>3. CASE CleanStep
  <2>1. Up
    BY <1>3, UpIsKept
  <2>2. Content(e)' = Content(e) /\ Content(e) # None
    BY <1>1, <1>3, CleanDrops
  <2>3. CASE e \in cleaned
    BY <1>3, <2>1, <2>2, <2>3, CleanSure DEF CleanedIsGone, HInv
  <2>4. CASE RemoveKey /\ e = at
    <3>1. at[1] \in PlainKey /\ at = <<at[1], None>>
      BY <2>4 DEF RemoveKey, HInv, TInv, Holds, PlainEntry
    <3>2. QED
      BY <1>1, <2>2, <2>4, <3>1, RemoveContent DEF RemoveKey
  <2>5. CASE CleanField /\ e = at
    <3>1. /\ found \in Hash /\ at[1] \in HashKey /\ at[2] \in Field /\ at = <<at[1], at[2]>>
          /\ saver["task"] = "removeField" /\ OwnedBy(found, at[1]) /\ UNCHANGED cache
          /\ \A g \in Hash, x \in Field :
                hash'[g][x] = IF g = found /\ x = at[2] THEN None ELSE hash[g][x]
      BY <2>5 DEF CleanField, HInv, TInv, TypeOK, Holds, HashEntry, OwnedBy
    <3>2. Sure \/ cache[at[1]] = found
      BY <2>1, <2>2, <2>5, <3>1 DEF FoundIsOld
    <3>3. CASE cache[at[1]] = found
      BY <1>1, <2>2, <2>5, <3>1, <3>3, FieldContent
    <3>4. QED
      BY <1>3, <3>2, <3>3, CleanSure DEF HInv
  <2>6. QED
    BY <1>3, <2>3, <2>4, <2>5
       DEF CleanStep, Loop, VisitKey, RemoveKey, VisitField, CleanField, IsEmpty,
           CleanHash, CleanThrows, CountCleaned, cleanVars, taskVars
<1>4. ASSUME NEW s \in Saver, PersistStep(s) PROVE Sure'
  <2>1. e \in cleaned /\ saver["task"] \in PersistAt
    BY <1>1, <1>4, PersistContent, UpIsKept
  <2>2. QED
    BY <2>1 DEF HInv, TInv, Holds, PersistAt, CleanAt
<1>5. CASE Start
  BY <1>5 DEF Start, HInv, TInv, Off, cleanVars, taskVars
<1>6. ASSUME NEW d \in Entry, Die(d) PROVE Sure'
  <2>1. Up /\ e \in cleaned /\ Content(e) # None /\ (Sure => Sure')
    BY <1>1, <1>6, DieContent, NoneAssumption
       DEF Die, Up, Sure, requestVars, cleanVars, taskVars
  <2>2. QED
    BY <2>1 DEF CleanedIsGone
<1>7. CASE UNCHANGED vars
  <2>1. Up /\ e \in cleaned /\ Content(e) # None /\ (Sure => Sure')
    BY <1>1, <1>7, SameContent DEF vars, Up, Sure, requestVars, cleanVars, taskVars
  <2>2. QED
    BY <2>1 DEF CleanedIsGone
<1>8. QED
  BY <1>2, <1>3, <1>4, <1>5, <1>6, <1>7, UpIsKept DEF Next

LEMMA RequestCache ==
    ASSUME HInv, NEW r \in Request, RequestStep(r), NEW k \in HashKey
    PROVE  cache'[k] \in {cache[k], None} \/ cache[k] = None
BY NoneAssumption
   DEF RequestStep, Put, GetHash, Remove, RemoveHash, GetField, PutIfAbsent, PutField,
       CacheChange, CacheChangeAll, RemoveField, HInv, TInv, TypeOK, Key, cacheVars

LEMMA FoundStep == HInv /\ FoundIsOld /\ [Next]_vars => FoundIsOld'
<1> SUFFICES ASSUME HInv, FoundIsOld, [Next]_vars, Up',
                    saver'["task"] \in {"fields", "removeField", "removeHash"},
                    NEW f \in Field, Content(<<at[1], f>>)' # None
             PROVE  Sure' \/ (saver'["task"] # "removeHash" /\ cache'[at'[1]] = found')
  BY DEF FoundIsOld
<1> USE DEF Drops
<1>1. at'[1] \in HashKey /\ found' \in Hash
  BY TypeStep DEF HInv, TInv, Holds, HashEntry
<1>2. PICK e \in Entry : e = <<at'[1], f>> /\ Content(e)' # None
  BY <1>1, Entries
<1>3. ASSUME NEW r \in Request, RequestStep(r)
      PROVE  Sure' \/ (saver'["task"] # "removeHash" /\ cache'[at'[1]] = found')
  <2>1. UNCHANGED <<saver, at, found>> /\ Up
    BY <1>3, UpIsKept DEF Up
  <2>2. CASE Drops(e)
    <3>1. Content(<<at[1], f>>) # None
      BY <1>2, <2>1, <2>2
    <3>2. Sure \/ (saver["task"] # "removeHash" /\ cache[at[1]] = found)
      BY <2>1, <3>1 DEF FoundIsOld
    <3>3. cache'[at[1]] # None
      BY <1>1, <1>2, <2>1, NoneAssumption DEF Content
    <3>4. QED
      BY <1>1, <1>3, <2>1, <3>2, <3>3, RequestCache, RequestSure, NoneAssumption DEF HInv
  <2>3. QED
    BY <1>2, <1>3, <2>2, RequestDrops
<1>4. CASE CleanStep
  <2>1. Up /\ Content(e)' = Content(e) /\ Content(e) # None
    BY <1>2, <1>4, UpIsKept, CleanDrops
  <2>2. ASSUME NEW k \in Key, VisitKey(k)
        PROVE  saver'["task"] = "fields" /\ cache'[at'[1]] = found'
    BY <2>2, NoneAssumption DEF VisitKey, At, HInv, TInv, TypeOK, Saver, cacheVars
  <2>3. CASE \E g \in Field : VisitField(g)
    <3>1. /\ at'[1] = at[1] /\ saver["task"] = "fields"
          /\ saver'["task"] \in {"fields", "removeField"} /\ UNCHANGED <<cache, found>>
      BY <2>3 DEF VisitField, At, HInv, TInv, TypeOK, Saver, cacheVars
    <3>2. QED
      BY <1>2, <1>4, <2>1, <3>1, CleanSure DEF FoundIsOld, HInv
  <2>4. CASE CleanField
    <3>1. /\ at'[1] = at[1] /\ saver["task"] = "removeField"
          /\ saver'["task"] = "fields" /\ UNCHANGED <<cache, found>>
      BY <2>4 DEF CleanField, At, HInv, TInv, TypeOK, Saver
    <3>2. QED
      BY <1>2, <1>4, <2>1, <3>1, CleanSure DEF FoundIsOld, HInv
  <2>5. CASE IsEmpty
    <3>1. /\ hash[found] = EmptyHash /\ at' = at /\ saver["task"] = "fields"
          /\ found \in Hash /\ at[1] \in HashKey
      BY <1>1, <2>5 DEF IsEmpty, NextKey, At, HInv, TInv, TypeOK, Holds, Saver
    <3>2. cache[at[1]] = found => Content(e) = None
      BY <1>2, <3>1, NoneAssumption DEF Content, EmptyHash
    <3>3. Sure
      BY <1>2, <2>1, <3>1, <3>2 DEF FoundIsOld
    <3>4. QED
      BY <1>4, <3>3, CleanSure DEF HInv
  <2>6. QED
    BY <1>4, <2>2, <2>3, <2>4, <2>5
       DEF CleanStep, Loop, RemoveKey, CleanHash, CleanThrows, CountCleaned, NextKey,
           At, HInv, TInv, TypeOK, Saver
<1>5. ASSUME NEW s \in Saver, PersistStep(s) PROVE FALSE
  BY <1>5, UpIsKept DEF PersistAt
<1>6. CASE Start
  BY <1>6 DEF Start, At, HInv, TInv, TypeOK, Saver
<1>7. ASSUME NEW d \in Entry, Die(d)
      PROVE  Sure' \/ (saver'["task"] # "removeHash" /\ cache'[at'[1]] = found')
  <2>1. /\ UNCHANGED <<saver, at, found>> /\ Up /\ Content(e) # None /\ (Sure => Sure')
        /\ saver["task"] \in {"fields", "removeField", "removeHash"}
    BY <1>2, <1>7, DieContent, NoneAssumption
       DEF Die, Up, Sure, requestVars, cleanVars, taskVars
  <2>2. at[1] \in HashKey /\ at[1] \notin PlainKey
    BY <1>1, <2>1, NoneAssumption
  <2>3. cache'[at[1]] = cache[at[1]]
    <3>1. d \in PlainEntry => d[1] # at[1]
      BY <2>2, PlainOrHash
    <3>2. QED
      BY <1>7, <2>2, <3>1 DEF Die, HInv, TInv, TypeOK, Key
  <2>4. QED
    BY <1>2, <2>1, <2>3 DEF FoundIsOld
<1>8. CASE UNCHANGED vars
  <2>1. /\ UNCHANGED <<cache, saver, at, found>> /\ Up /\ Content(e) # None
        /\ (Sure => Sure')
    BY <1>2, <1>8, SameContent DEF vars, Up, Sure, requestVars, cleanVars, taskVars, cacheVars
  <2>2. QED
    BY <1>2, <2>1 DEF FoundIsOld
<1>9. QED
  BY <1>3, <1>4, <1>5, <1>6, <1>7, <1>8, UpIsKept DEF Next

-----------------------------------------------------------------------------
(* The file, and what is being serialized *)

LEMMA StepExcused ==
    ASSUME HInv, CleanedIsGone, FoundIsOld, Up, NEW e \in Entry,
           \/ \E r \in Request : RequestStep(r)
           \/ CleanStep
           \/ \E d \in Entry : Die(d)
    PROVE  /\ Excused(e) => Excused(e)'
           /\ Accounts(e)
<1>1. CASE CleanStep
  BY <1>1, CleanExcused, CleanAccounts
<1>2. ASSUME NEW r \in Request, RequestStep(r)
      PROVE  (Excused(e) => Excused(e)') /\ Accounts(e)
  BY <1>2, RequestExcused, RequestAccounts
<1>3. ASSUME NEW d \in Entry, Die(d)
      PROVE  (Excused(e) => Excused(e)') /\ Accounts(e)
  <2>1. Accounts(e)
    BY <1>3, DieContent DEF Accounts
  <2>2. UNCHANGED <<pc, call, cacheChanged, missed, cleaned>>
    BY <1>3 DEF Die, requestVars, cleanVars, taskVars
  <2>3. ASSUME NEW r \in Request, Leaving(r, e) PROVE Leaving(r, e)'
    <3>1. call[r].hash \in Hash /\ e[2] \in Field
      BY <2>3, LeavingField
    <3>2. hash[call[r].hash][e[2]] # None => hash'[call[r].hash][e[2]] # None
      <4>1. CASE UNCHANGED hash
        BY <4>1
      <4>2. CASE hash' = [hash EXCEPT ![cache[d[1]]][d[2]] = Dead]
        BY <3>1, <4>2, NoneAssumption DEF HInv, TInv, TypeOK
      <4>3. QED
        BY <1>3, <4>1, <4>2 DEF Die
    <3>3. QED
      BY <2>2, <2>3, <3>2 DEF Leaving
  <2>4. Excused(e) => Excused(e)'
    BY <2>2, <2>3 DEF Excused, Sure
  <2>5. QED
    BY <2>1, <2>4
<1>4. QED
  BY <1>1, <1>2, <1>3

LEMMA FileUnchanged ==
    /\ \A r \in Request : RequestStep(r) => UNCHANGED <<saver, file, left, snap>>
    /\ \A e \in Entry : Die(e) => UNCHANGED <<saver, file, left, snap>>
    /\ CleanStep => UNCHANGED <<file, snap>>
<1>1. \A r \in Request : RequestStep(r) => UNCHANGED <<saver, file, left, snap>>
  BY DEF RequestStep, Put, GetHash, Remove, RemoveHash, GetField, PutIfAbsent,
         PutField, CacheChange, CacheChangeAll, RemoveField, saveVars, taskVars
<1>2. \A e \in Entry : Die(e) => UNCHANGED <<saver, file, left, snap>>
  BY DEF Die, saveVars, taskVars
<1>3. CleanStep => UNCHANGED <<file, snap>>
  BY DEF CleanStep, Loop, VisitKey, RemoveKey, VisitField, CleanField, IsEmpty,
         CleanHash, CleanThrows, CountCleaned, saveVars
<1>4. QED
  BY <1>1, <1>2, <1>3

\* While the cleaner runs, nothing is being written by its thread.
LEMMA CleanIsNotPersisting ==
    ASSUME HInv, CleanStep
    PROVE  ~Persisting /\ ~Persisting' /\ saver'["task"] \notin {"serialize", "write"}
BY DEF CleanStep, Loop, VisitKey, RemoveKey, VisitField, CleanField, IsEmpty, CleanHash,
       CleanThrows, CountCleaned, NextKey, At, Persisting, HInv, TInv, TypeOK, Saver

LEMMA FileStep ==
    IInv /\ [Next]_vars => FileIsExcused'
<1> SUFFICES ASSUME IInv, [Next]_vars, Up', ~Persisting', NEW e \in Entry, Unsaved(e)'
             PROVE  Excused(e)'
  BY DEF FileIsExcused
<1> USE DEF IInv
<1>1. Content(e)' # Dead /\ Saved(e)' # Content(e)'
  BY DEF Unsaved
<1>2. ASSUME Up, ~Persisting, UNCHANGED file, Accounts(e), Excused(e) => Excused(e)'
      PROVE  Excused(e)'
  BY <1>1, <1>2 DEF Accounts, FileIsExcused, Unsaved, Saved
<1>3. ASSUME NEW r \in Request, RequestStep(r) PROVE Excused(e)'
  <2>1. Up /\ ~Persisting /\ UNCHANGED file
    BY <1>3, FileUnchanged DEF Up, Persisting
  <2>2. QED
    BY <1>2, <1>3, <2>1, StepExcused
<1>4. CASE CleanStep
  BY <1>2, <1>4, UpIsKept, StepExcused, FileUnchanged, CleanIsNotPersisting
<1>5. ASSUME NEW d \in Entry, Die(d) PROVE Excused(e)'
  <2>1. Up /\ ~Persisting /\ UNCHANGED file
    BY <1>5, FileUnchanged DEF Up, Persisting
  <2>2. QED
    BY <1>2, <1>5, <2>1, StepExcused
<1>6. ASSUME NEW s \in Saver, PersistStep(s) PROVE Excused(e)'
  <2>1. s = "task" /\ Up /\ Content(e)' = Content(e)
    BY <1>6, UpIsKept, PersistContent
  <2>2. CASE Write(s)
    <3>1. /\ saver["task"] = "write" /\ left["task"] = {}
          /\ file' = snap["task"] /\ file' # Dead
          /\ missed' = {x \in missed : snap["task"][x] # None}
      BY <2>1, <2>2, FileAssumption DEF Write, HInv, TInv, TypeOK, Holds
    <3>2. Saved(e)' = snap["task"][e]
      BY <3>1 DEF Saved
    <3>3. Excused(e)
      BY <1>1, <2>1, <3>1, <3>2 DEF SnapIsExcused
    <3>4. e \in missed => e \in missed'
      BY <1>1, <2>1, <3>1, <3>2 DEF MissedIsGone
    <3>5. QED
      BY <1>6, <2>1, <2>2, <3>3, <3>4, PersistExcused DEF Write, ResetCount
  <2>3. CASE ReadCount(s)
    <3>1. Up /\ ~Persisting /\ UNCHANGED <<file, missed>> /\ ~ResetCount(s)
      BY <2>1, <2>3 DEF ReadCount, Persisting, ResetCount
    <3>2. QED
      BY <1>2, <1>6, <2>1, <3>1, PersistExcused DEF Accounts
  <2>4. CASE AddCountAgain(s)
    <3>1. cnt["task"] \in Nat /\ cnt["task"] > UnpersistMaxSize /\ cacheChanged \in Nat
      BY <2>1, <2>4 DEF AddCountAgain, HInv, TInv, TypeOK, Saver
    <3>2. cacheChanged' > 0
      BY <2>1, <2>4, <3>1, SizeAssumption DEF AddCountAgain
    <3>3. QED
      BY <3>2 DEF Excused, Sure
  <2>5. CASE /\ saver["task"] \in {"reset", "serialize", "write"}
             /\ saver'["task"] \in {"serialize", "write", "failed"}
    BY <2>5 DEF Persisting
  <2>6. QED
    BY <1>6, <2>1, <2>2, <2>3, <2>4, <2>5
       DEF PersistStep, ResetCount, Serialize, Open, PersistThrows, At, HInv, TInv, TypeOK
<1>7. CASE Start
  <2>1. PICK h \in [HashKey -> Hash] :
          /\ \A k, l \in HashKey : h[k] = h[l] => k = l
          /\ cache' = [k \in Key |->
                         IF k \in PlainKey THEN Saved(<<k, None>>)
                         ELSE IF \E f \in Field : Saved(<<k, f>>) # None THEN h[k]
                         ELSE None]
          /\ hash' = [g \in Hash |-> [f \in Field |->
                         IF \E k \in HashKey : h[k] = g
                         THEN Saved(<<CHOOSE k \in HashKey : h[k] = g, f>>) ELSE None]]
    BY <1>7 DEF Start
  <2>2. Saved(e)' = Saved(e)
    BY <1>7 DEF Start, Saved
  <2>3. CASE e[1] \in PlainKey /\ e = <<e[1], None>>
    BY <1>1, <2>1, <2>2, <2>3 DEF Content, Key
  <2>4. CASE e[1] \in HashKey /\ e[1] \notin PlainKey /\ e[2] \in Field /\ e = <<e[1], e[2]>>
    <3>1. (CHOOSE k \in HashKey : h[k] = h[e[1]]) = e[1]
      BY <2>1, <2>4
    <3>2. hash'[h[e[1]]][e[2]] = Saved(e)
      BY <2>1, <2>4, <3>1
    <3>3. CASE cache'[e[1]] = h[e[1]]
      BY <1>1, <2>1, <2>2, <2>4, <3>2, <3>3, NoneAssumption DEF Content
    <3>4. CASE cache'[e[1]] = None
      BY <1>1, <2>1, <2>2, <2>4, <3>4, NoneAssumption DEF Content, Key
    <3>5. QED
      BY <2>1, <2>4, <3>3, <3>4 DEF Key
  <2>5. QED
    BY <2>3, <2>4, PlainOrHash
<1>8. CASE UNCHANGED vars
  <2>1. Up /\ ~Persisting /\ UNCHANGED file /\ Accounts(e)
    BY <1>8, SameContent DEF vars, Up, Persisting, Accounts, taskVars
  <2>2. Excused(e) => Excused(e)'
    BY <1>8 DEF vars, Excused, Sure, Leaving, requestVars, cacheVars, cleanVars, taskVars
  <2>3. QED
    BY <1>2, <2>1, <2>2
<1>9. QED
  BY <1>3, <1>4, <1>5, <1>6, <1>7, <1>8, UpIsKept DEF Next

LEMMA SnapStep ==
    IInv /\ [Next]_vars => SnapIsExcused'
<1> SUFFICES ASSUME IInv, [Next]_vars, Up', saver'["task"] \in {"serialize", "write"},
                    NEW e \in Entry, e[1] \notin left'["task"], Content(e)' # Dead,
                    snap'["task"][e] # Content(e)'
             PROVE  Excused(e)'
  BY DEF SnapIsExcused
<1> USE DEF IInv
<1>1. ASSUME UNCHANGED <<saver, left, snap>>, Accounts(e), Excused(e) => Excused(e)'
      PROVE  Excused(e)'
  BY <1>1 DEF Accounts, SnapIsExcused, Up
<1>2. ASSUME NEW r \in Request, RequestStep(r) PROVE Excused(e)'
  <2>1. UNCHANGED <<saver, left, snap>> /\ Up
    BY <1>2, FileUnchanged DEF Up
  <2>2. QED
    BY <1>1, <1>2, <2>1, StepExcused
<1>3. ASSUME NEW d \in Entry, Die(d) PROVE Excused(e)'
  <2>1. UNCHANGED <<saver, left, snap>> /\ Up
    BY <1>3, FileUnchanged DEF Up
  <2>2. QED
    BY <1>1, <1>3, <2>1, StepExcused
<1>4. ASSUME NEW s \in Saver, PersistStep(s) PROVE Excused(e)'
  <2> USE DEF HInv, TInv, TypeOK, At, Saver, saveVars
  <2>1. s = "task" /\ Up /\ Content(e)' = Content(e)
    BY <1>4, UpIsKept, PersistContent
  <2>2. CASE ResetCount(s)
    <3>1. left'["task"] = Key /\ e[1] \in Key
      BY <2>1, <2>2, PlainOrHash DEF ResetCount, Key
    <3>2. QED
      BY <3>1
  <2>3. ASSUME NEW k \in Key, Serialize(s, k) PROVE Excused(e)'
    <3>1. /\ saver["task"] = "serialize" /\ left'["task"] = left["task"] \ {k}
          /\ snap'["task"][e] = IF e[1] = k THEN Content(e) ELSE snap["task"][e]
          /\ missed' = missed
      BY <2>1, <2>3 DEF Serialize
    <3>2. Excused(e)
      BY <2>1, <3>1 DEF SnapIsExcused
    <3>3. QED
      BY <1>4, <2>1, <3>1, <3>2, PersistExcused DEF ResetCount
  <2>4. CASE Open(s)
    <3>1. /\ saver["task"] = "serialize" /\ UNCHANGED <<left, snap>>
          /\ missed' = missed
      BY <2>1, <2>4 DEF Open
    <3>2. Excused(e)
      BY <2>1, <3>1 DEF SnapIsExcused
    <3>3. QED
      BY <1>4, <2>1, <3>1, <3>2, PersistExcused DEF ResetCount
  <2>5. QED
    BY <1>4, <2>1, <2>2, <2>3, <2>4
       DEF PersistStep, ReadCount, Write, PersistThrows, AddCountAgain, Persisted
<1>5. CASE Start
  BY <1>5 DEF Start, At, HInv, TInv, TypeOK, Saver
<1>6. CASE UNCHANGED vars
  <2>1. UNCHANGED <<saver, left, snap>> /\ Accounts(e)
    BY <1>6, SameContent DEF vars, Accounts, saveVars, taskVars
  <2>2. Excused(e) => Excused(e)'
    BY <1>6 DEF vars, Excused, Sure, Leaving, requestVars, cacheVars, cleanVars, taskVars
  <2>3. QED
    BY <1>1, <2>1, <2>2
<1>7. QED
  BY <1>2, <1>3, <1>4, <1>5, <1>6, UpIsKept, CleanIsNotPersisting DEF Next

LEMMA InitInv == Init => IInv
<1> SUFFICES ASSUME Init PROVE IInv
  OBVIOUS
<1>1. TInv
  BY InitType
<1>2. OneOwner
  BY NoneAssumption DEF Init, OneOwner, OwnedBy, NoCall, Key
<1>3. ~Up
  BY DEF Init, Up, NotStarted, Saver
<1>4. missed = {}
  BY DEF Init
<1>5. QED
  BY <1>1, <1>2, <1>3, <1>4
     DEF IInv, HInv, MissedIsGone, CleanedIsGone, FoundIsOld, FileIsExcused, SnapIsExcused

LEMMA InvStep == IInv /\ [Next]_vars => IInv'
BY OwnerStep, MissedStep, CleanedStep, FoundStep, FileStep, SnapStep DEF IInv

LEMMA ExcusedIsCounted ==
    ASSUME HInv, NEW e \in Entry, Excused(e)
    PROVE  Counted \/ e \in missed
BY LeavingIsCounted DEF Excused, Sure, Counted, Leaving

\* What is not in the file is counted, so that a next round writes it, or is one of
\* the removals of which missed keeps account: through resets, serializations and
\* failed writes that race with requests.
THEOREM NothingIsForgotten == Spec => []UnsavedIsCounted
<1>1. IInv => UnsavedIsCounted
  BY ExcusedIsCounted DEF IInv, FileIsExcused, UnsavedIsCounted
<1>2. QED
  BY <1>1, InitInv, InvStep, PTL DEF Spec
=============================================================================

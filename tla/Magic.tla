------------------------------- MODULE Magic -------------------------------
(***************************************************************************)
(* MagicHandler: calls for a batch of keys.  The keys are looked up in the *)
(* cache one by one (mget is a loop or a pipeline), those that miss are    *)
(* asked of the DAO in one call, what it answers is written key by key,    *)
(* and hits and answers are put together in the order of the argument.     *)
(* DeleteCacheMagicHandler: an update of several rows deletes their keys   *)
(* afterwards, one by one.  There is no DataLoader here: calls for the     *)
(* same keys do not wait for each other.                                   *)
(*                                                                         *)
(* A row has its key (magic.key, evaluated on an element of the answer)    *)
(* and a version.  Entries do not grow old here but may be lost at any     *)
(* time; a delete that fails is left out.                                  *)
(***************************************************************************)
EXTENDS Naturals, Sequences, FiniteSets, Functions

CONSTANTS
    Thread,
    Key,
    Calls,        \* the arguments: sequences of keys; <<>>: a method without any
    Initially,    \* the keys with a row at the beginning
    Strangers,    \* keys whose rows the DAO may answer without being asked
    ReturnsArray, \* threads whose method returns an array, not a Collection
    ReturnsNull,  \* threads whose method has magic.returnNullValue
    MaxUpdates,   \* bound on the updates of the database
    Null,         \* a null among the data
    Absent        \* no entry in the cache

ASSUME CallsAssumption == Calls \subseteq Seq(Key)
ASSUME KeysAssumption  == Strangers \union Initially \subseteq Key /\ IsFiniteSet(Key)
ASSUME ThreadAssumption == ReturnsArray \union ReturnsNull \subseteq Thread
ASSUME UpdatesAssumption == MaxUpdates \in Nat

Row  == [key : Key, version : 0 .. MaxUpdates]
Data == Row \union {Null}

ASSUME NullAssumption == Null \notin Row /\ Absent \notin Data

VARIABLES
    db,       \* key -> its row, or Null
    updates,  \* how many updates there were
    deleting, \* the keys a @CacheDelete still has to delete
    cache,    \* key -> its entry's data
    phase,    \* where each thread is
    call,     \* its argument
    todo,     \* the keys mget still has to read, or mset to write
    hits,     \* cacheValues
    rows,     \* newValue, as a sequence
    unmatch,  \* unmatchCache
    result,   \* what it returns
    behind,   \* history: keys whose row changed after the thread asked for it
    late      \* history: keys whose entry was written by one who was behind

threadVars == <<phase, call, todo, hits, rows, unmatch, result>>
vars == <<db, updates, deleting, cache, phase, call, todo, hits, rows, unmatch,
          result, behind, late>>

Init ==
    /\ db = [k \in Key |-> IF k \in Initially THEN [key |-> k, version |-> 0] ELSE Null]
    /\ updates = 0 /\ deleting = {}
    /\ cache = [k \in Key |-> Absent]
    /\ phase = [t \in Thread |-> "idle"]
    /\ call = [t \in Thread |-> << >>] /\ todo = [t \in Thread |-> {}]
    /\ hits = [t \in Thread |-> << >>] /\ rows = [t \in Thread |-> << >>]
    /\ unmatch = [t \in Thread |-> << >>] /\ result = [t \in Thread |-> << >>]
    /\ behind = [t \in Thread |-> {}] /\ late = {}

\* A function with one more pair.
With(f, k, v) == [x \in DOMAIN f \union {k} |-> IF x = k THEN v ELSE f[x]]

Asked(t)  == Range(call[t])                \* keyArgMap: no key twice
Missed(t) == Asked(t) \ DOMAIN hits[t]     \* unmatchArg
KeysOf(s) == {s[i].key : i \in DOMAIN s}

Call(t, c) ==
    /\ phase[t] = "idle"
    /\ phase' = [phase EXCEPT ![t] = "get"]
    /\ call' = [call EXCEPT ![t] = c]
    /\ todo' = [todo EXCEPT ![t] = Range(c)]
    /\ UNCHANGED <<db, updates, deleting, cache, hits, rows, unmatch, result,
                   behind, late>>

\* A plausible slip: what is not in the cache counts as found.
GetUnchecked(t, k) ==
    /\ phase[t] = "get" /\ k \in todo[t]
    /\ todo' = [todo EXCEPT ![t] = @ \ {k}]
    /\ hits' = [hits EXCEPT ![t] = With(@, k, cache[k])]
    /\ UNCHANGED <<db, updates, deleting, cache, phase, call, rows, unmatch,
                   result, behind, late>>

\* mget comes to key k.  It may miss a key that is cached: an error in its
\* deserialization, and in LettuceRedisUtil every key behind the first miss.
Get(t, k) ==
    /\ phase[t] = "get" /\ k \in todo[t]
    /\ todo' = [todo EXCEPT ![t] = @ \ {k}]
    /\ hits' \in {hits} \union
         IF cache[k] = Absent THEN {}
         ELSE {[hits EXCEPT ![t] = With(@, k, cache[k])]}
    /\ UNCHANGED <<db, updates, deleting, cache, phase, call, rows, unmatch,
                   result, behind, late>>

\* The DAO's answers to a question for the keys asked: their rows, perhaps those of
\* strangers, in any order.  Without an argument it answers all the rows.
Existing(keys) == {db[k] : k \in {x \in keys : db[x] # Null}}
Answers(t) ==
    LET sets == IF call[t] = << >> THEN {Existing(Key)}
                ELSE {Existing(Missed(t) \union more) : more \in SUBSET Strangers}
    IN  UNION {{s \in [1 .. Cardinality(S) -> S] : Range(s) = S} : S \in sets}

\* A plausible slip: null for every key the DAO did not answer, the hits included.
UnmatchedHits(t, answer) ==
    [k \in KeysOf(answer) \union Asked(t) |->
       IF k \in KeysOf(answer) THEN CHOOSE r \in Range(answer) : r.key = k ELSE Null]

\* A plausible slip: no nulls.
UnmatchedRows(t, answer) ==
    [k \in KeysOf(answer) |-> CHOOSE r \in Range(answer) : r.key = k]

\* What writeMagicCache puts: every row under its own key and, when these are fewer
\* keys than were missed, null under each missed key without a row.
Unmatched(t, answer) ==
    LET found == KeysOf(answer)
        nulls == IF Cardinality(found) < Cardinality(Missed(t))
                 THEN Missed(t) \ found ELSE {}
    IN  [k \in found \union nulls |->
           IF k \in found THEN CHOOSE r \in Range(answer) : r.key = k ELSE Null]

\* All keys were hit, or the DAO answers.
LoadData(t) ==
    /\ phase[t] = "get" /\ todo[t] = {}
    /\ \E answer \in IF Missed(t) = {} /\ call[t] # << >> THEN {<< >>}
                     ELSE Answers(t) :
         /\ rows' = [rows EXCEPT ![t] = answer]
         /\ unmatch' = [unmatch EXCEPT ![t] = Unmatched(t, answer)]
         /\ todo' = [todo EXCEPT ![t] = DOMAIN Unmatched(t, answer)]
    /\ phase' = [phase EXCEPT ![t] = "put"]
    /\ UNCHANGED <<db, updates, deleting, cache, call, hits, result, behind, late>>

\* mset comes to key k.
Put(t, k) ==
    /\ phase[t] = "put" /\ k \in todo[t]
    /\ todo' = [todo EXCEPT ![t] = @ \ {k}]
    /\ cache' = [cache EXCEPT ![k] = unmatch[t][k]]
    /\ late' = IF k \in behind[t] THEN late \union {k} ELSE late \ {k}
    /\ UNCHANGED <<db, updates, deleting, phase, call, hits, rows, unmatch,
                   result, behind>>

\* The cache managers print what goes wrong in mset; the rest stays unwritten.
PutBreaks(t) ==
    /\ phase[t] = "put" /\ todo[t] # {}
    /\ todo' = [todo EXCEPT ![t] = {}]
    /\ UNCHANGED <<db, updates, deleting, cache, phase, call, hits, rows,
                   unmatch, result, behind, late>>

\* The data of a key: the hit, else what was written, else null.
ValueOf(t, k) ==
    IF k \in DOMAIN hits[t] THEN hits[t][k]
    ELSE IF k \in DOMAIN unmatch[t] THEN unmatch[t][k] ELSE Null

\* The n-th of a set of positions, and what a loop over s collects when it passes over
\* all other positions.
Nth(positions, n) ==
    CHOOSE i \in positions : Cardinality({j \in positions : j <= i}) = n
At(s, positions) == [n \in 1 .. Cardinality(positions) |-> s[Nth(positions, n)]]

Present(s) == {i \in DOMAIN s : s[i] # Null}

\* A plausible slip: the hits, then what the DAO answered.
ValuesInTurn(t) ==
    LET found == [i \in DOMAIN call[t] |->
                    IF call[t][i] \in DOMAIN hits[t] THEN hits[t][call[t][i]] ELSE Null]
    IN  At(found, Present(found)) \o rows[t]

\* The data for each position of the argument; nulls only on request.
Values(t) ==
    LET all == [i \in DOMAIN call[t] |-> ValueOf(t, call[t][i])]
    IN  IF t \in ReturnsNull THEN all ELSE At(all, Present(all))

\* A plausible slip: counts what was written, nulls included.
ResSizeWritten(t) == Cardinality(DOMAIN hits[t]) + Cardinality(DOMAIN unmatch[t])

\* The length an array is made with.
ResSize(t) ==
    IF t \in ReturnsNull THEN Len(call[t])
    ELSE Cardinality(DOMAIN hits[t]) + Len(rows[t])

Overflows(t) == t \in ReturnsArray /\ ResSize(t) < Len(Values(t))

\* What is left of an array is null.
Filled(s, n) == [i \in 1 .. n |-> IF i <= Len(s) THEN s[i] ELSE Null]

ReturnObject(t) ==
    IF call[t] = << >> THEN rows[t]
    ELSE IF t \in ReturnsArray THEN Filled(Values(t), ResSize(t))
    ELSE Values(t)

ConvertToReturnObject(t) ==
    /\ phase[t] = "put" /\ todo[t] = {}
    /\ IF Overflows(t)
       THEN /\ phase' = [phase EXCEPT ![t] = "overflow"]
            /\ result' = result
       ELSE /\ phase' = [phase EXCEPT ![t] = "done"]
            /\ result' = [result EXCEPT ![t] = ReturnObject(t)]
    /\ UNCHANGED <<db, updates, deleting, cache, call, todo, hits, rows, unmatch,
                   behind, late>>

Forget(t) ==
    /\ phase' = [phase EXCEPT ![t] = "idle"]
    /\ call' = [call EXCEPT ![t] = << >>] /\ todo' = [todo EXCEPT ![t] = {}]
    /\ hits' = [hits EXCEPT ![t] = << >>] /\ rows' = [rows EXCEPT ![t] = << >>]
    /\ unmatch' = [unmatch EXCEPT ![t] = << >>]
    /\ result' = [result EXCEPT ![t] = << >>]
    /\ behind' = [behind EXCEPT ![t] = {}]
    /\ UNCHANGED <<db, updates, deleting, cache, late>>

Return(t) == phase[t] \in {"done", "overflow"} /\ Forget(t)

\* mget failed and answered null, or the DAO throws: the call fails.
Throw(t) == phase[t] = "get" /\ Forget(t)

\* A method with @CacheDelete changes, adds or removes the rows of some keys; its
\* deletes follow.
Update(keys) ==
    /\ updates < MaxUpdates /\ deleting = {}
    /\ updates' = updates + 1
    /\ \E gone \in SUBSET keys :
         db' = [k \in Key |-> IF k \notin keys THEN db[k]
                              ELSE IF k \in gone THEN Null
                              ELSE [key |-> k, version |-> updates + 1]]
    /\ deleting' = keys
    /\ behind' = [t \in Thread |->
         IF phase[t] = "put" THEN behind[t] \union (keys \intersect todo[t])
         ELSE behind[t]]
    /\ UNCHANGED <<cache, threadVars, late>>

\* The delete comes to key k.
Delete(k) ==
    /\ k \in deleting
    /\ deleting' = deleting \ {k}
    /\ cache' = [cache EXCEPT ![k] = Absent]
    /\ late' = late \ {k}
    /\ UNCHANGED <<db, updates, threadVars, behind>>

\* An entry expires or is evicted.
Lose(k) ==
    /\ cache[k] # Absent
    /\ cache' = [cache EXCEPT ![k] = Absent]
    /\ late' = late \ {k}
    /\ UNCHANGED <<db, updates, deleting, threadVars, behind>>

Next ==
    \/ \E t \in Thread :
         \/ \E c \in Calls : Call(t, c)
         \/ \E k \in Key : Get(t, k) \/ Put(t, k)
         \/ LoadData(t)
         \/ PutBreaks(t)
         \/ ConvertToReturnObject(t)
         \/ Return(t)
         \/ Throw(t)
    \/ \E keys \in SUBSET Key \ {{}} : Update(keys)
    \/ \E k \in Key : Delete(k) \/ Lose(k)

Spec == Init /\ [][Next]_vars

-----------------------------------------------------------------------------
\* Maps from keys to their data.
Found == UNION {[keys -> Data] : keys \in SUBSET Key}

TypeOK ==
    /\ db \in [Key -> Data] /\ updates \in 0 .. MaxUpdates
    /\ cache \in [Key -> Data \union {Absent}]
    /\ deleting \subseteq Key /\ late \subseteq Key
    /\ phase \in [Thread -> {"idle", "get", "put", "done", "overflow"}]
    /\ call \in [Thread -> Calls \union {<< >>}]
    /\ todo \in [Thread -> SUBSET Key] /\ behind \in [Thread -> SUBSET Key]
    /\ hits \in [Thread -> Found] /\ unmatch \in [Thread -> Found]
    /\ rows \in [Thread -> Seq(Row)] /\ result \in [Thread -> Seq(Data)]
    /\ \A t \in Thread : DOMAIN hits[t] \subseteq Asked(t)

\* What a call returns is matched to its argument by key, whatever the order of the
\* DAO's answer and whoever else reads or writes: with nulls, position by position;
\* without, in the argument's order, and as often as it was asked for.
MatchedToTheCall ==
    \A t \in Thread : (phase[t] = "done" /\ call[t] # << >>) =>
        LET values == At(result[t], Present(result[t]))
        IN  /\ [i \in DOMAIN values |-> values[i].key] =
                  At(call[t], {i \in DOMAIN call[t] : call[t][i] \in KeysOf(values)})
            /\ t \in ReturnsNull =>
                 /\ Len(result[t]) = Len(call[t])
                 /\ \A i \in DOMAIN result[t] :
                      result[t][i] \in {Null} \union [key : {call[t][i]}, version : 0 .. MaxUpdates]

\* A key of the cache whose data is not the database's is about to be deleted, or its
\* data was written by a call that had asked for it before the last change: what a
\* call found in the cache it does not write again, and no row or null goes under a
\* key that is not its own.
StaleIsLate ==
    \A k \in Key : cache[k] \notin {Absent, db[k]} => k \in deleting \union late

\* An array made without magic.returnNullValue is just as long as what is put into
\* it, unless a key was asked for twice (MagicHandler.java:355 then fails), a null
\* was found in the cache, or the DAO answered what it was not asked (then nulls are
\* left at the end).
ArraysFit ==
    \A t \in ReturnsArray \ ReturnsNull :
        (/\ phase[t] \in {"done", "overflow"}
         /\ Cardinality(Asked(t)) = Len(call[t])
         /\ Null \notin Range(hits[t])
         /\ KeysOf(rows[t]) \subseteq Missed(t) \/ call[t] = << >>)
        => phase[t] = "done" /\ Null \notin Range(result[t])

\* Nothing changes, gets lost or fails, and the DAO answers what it is asked.
Calm ==
    /\ updates' = updates
    /\ \A k \in Key : cache[k] # Absent => cache'[k] # Absent
    /\ \A t \in Thread :
         /\ \A k \in todo[t] \ todo'[t] :
              /\ phase[t] = "get" => cache[k] = Absent \/ phase'[t] = "idle"
                                     \/ k \in DOMAIN hits'[t]
              /\ phase[t] = "put" => cache'[k] = unmatch[t][k]
         /\ rows'[t] # rows[t] /\ call[t] # << >> => KeysOf(rows'[t]) \subseteq Missed(t)

AllHit ==
    \A t \in Thread : phase[t] = "get" /\ phase'[t] = "put" => Missed(t) = {}

\* "为了避免缓存穿透问题" (MagicHandler.java:296): in a calm time keys without a row,
\* too, stop reaching the DAO, because a null is kept for them.
NoPenetration == <>[][Calm]_vars => <>[][AllHit]_vars
=============================================================================

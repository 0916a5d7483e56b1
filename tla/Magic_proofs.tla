---------------------------- MODULE Magic_proofs ----------------------------
(***************************************************************************)
(* What Magic promises, for any threads, any finite set of keys, any       *)
(* arguments and any number of updates.  Two facts carry the argument: no  *)
(* row or null is ever kept under a key that is not its own, and what a    *)
(* call has still to write is the database's, unless the row changed       *)
(* behind its back.  What loops collect is counted with Cardinality (Nth,  *)
(* At), so the lemmas about them rest on the theorems about finite sets.   *)
(***************************************************************************)
EXTENDS Magic, FiniteSetTheorems, TLAPS

\* What may be found under a key.
Own(k) == {Null} \union [key : {k}, version : 0 .. MaxUpdates]

KeptUnderOwnKey ==
    /\ \A k \in Key : db[k] \in Own(k) /\ cache[k] \in Own(k) \union {Absent}
    /\ \A t \in Thread :
         /\ \A k \in DOMAIN hits[t] : hits[t][k] \in Own(k)
         /\ \A k \in DOMAIN unmatch[t] : unmatch[t][k] \in Own(k)

\* What is written are the rows of the answer, one for a key, and nulls.
WrittenAsAnswered ==
    \A t \in Thread :
        /\ \A i, j \in DOMAIN rows[t] : rows[t][i].key = rows[t][j].key => i = j
        /\ KeysOf(rows[t]) \subseteq DOMAIN unmatch[t]
        /\ \A k \in DOMAIN unmatch[t] : unmatch[t][k] # Null <=> k \in KeysOf(rows[t])

\* What is still to be written is the database's, or changed since it was asked for.
StillToWrite ==
    \A t \in Thread : phase[t] = "put" =>
        \A k \in todo[t] : /\ k \in DOMAIN unmatch[t]
                           /\ unmatch[t][k] = db[k] \/ k \in behind[t]

\* The result is kept as it was put together.
ReturnedAsBuilt ==
    \A t \in Thread :
        /\ phase[t] = "done" => ~Overflows(t) /\ result[t] = ReturnObject(t)
        /\ phase[t] = "overflow" => Overflows(t)

\* A thread at rest has nothing in hand, and none looks for what it is not asked for.
OnlyWhatIsAsked ==
    \A t \in Thread :
        /\ phase[t] = "idle" => hits[t] = << >>
        /\ phase[t] = "get" => todo[t] \subseteq Asked(t)

IInv ==
    /\ TypeOK
    /\ OnlyWhatIsAsked
    /\ KeptUnderOwnKey
    /\ WrittenAsAnswered
    /\ StillToWrite
    /\ StaleIsLate
    /\ ReturnedAsBuilt

-----------------------------------------------------------------------------
(* What the code computes *)

\* A row belongs to one key.
LEMMA OwnIsData ==
    ASSUME NEW k \in Key
    PROVE  /\ Own(k) \subseteq Data
           /\ \A r \in Own(k) : r # Null => r \in Row /\ r.key = k
BY NullAssumption DEF Own, Row, Data

\* An argument is a sequence of keys.
LEMMA ArgumentOfKeys ==
    ASSUME TypeOK, NEW t \in Thread
    PROVE  /\ call[t] \in Seq(Key)
           /\ Asked(t) \subseteq Key
           /\ \A i \in DOMAIN call[t] : call[t][i] \in Asked(t)
           /\ \A k \in Asked(t) : \E i \in DOMAIN call[t] : call[t][i] = k
<1>1. call[t] \in Seq(Key)
  <2>1. call[t] \in Calls \union {<< >>}
    BY DEF TypeOK
  <2>2. << >> \in Seq(Key)
    OBVIOUS
  <2>3. QED
    BY <2>1, <2>2, CallsAssumption
<1>2. QED
  BY <1>1 DEF Asked, Range

\* The rows of some keys are finitely many, and one for a key.
LEMMA ExistingRows ==
    ASSUME TypeOK, KeptUnderOwnKey, NEW keys \in SUBSET Key
    PROVE  /\ IsFiniteSet(Existing(keys))
           /\ Existing(keys) \subseteq Row
           /\ \A r \in Existing(keys) : r.key \in keys /\ r = db[r.key]
<1> DEFINE with == {k \in keys : db[k] # Null}
           f == [k \in with |-> db[k]]
<1>1. IsFiniteSet(with)
  BY KeysAssumption, FS_Subset
<1>2. f \in Surjection(with, Existing(keys))
  BY DEF Surjection, Existing
<1>3. IsFiniteSet(Existing(keys))
  BY <1>1, <1>2, FS_Surjection
<1>4. ASSUME NEW r \in Existing(keys) PROVE r \in Row /\ r.key \in keys /\ r = db[r.key]
  <2>1. PICK k \in keys : db[k] # Null /\ r = db[k]
    BY <1>4 DEF Existing
  <2>2. r \in Own(k)
    BY <2>1 DEF KeptUnderOwnKey
  <2>3. QED
    BY <2>1, <2>2, OwnIsData
<1>5. QED
  BY <1>3, <1>4

\* How many numbers 1 .. n has.
LEMMA IntervalSize ==
    ASSUME NEW n \in Nat
    PROVE  IsFiniteSet(1 .. n) /\ Cardinality(1 .. n) = n
<1>1. IsFiniteSet(1 .. n) /\ Cardinality(1 .. n) = IF 1 > n THEN 0 ELSE n - 1 + 1
  BY FS_Interval
<1>2. QED
  BY <1>1

\* The sequences in which the DAO may answer a set of rows name every row once.
LEMMA InAnyOrder ==
    ASSUME NEW S, IsFiniteSet(S), NEW s \in [1 .. Cardinality(S) -> S], Range(s) = S
    PROVE  /\ s \in Seq(S) /\ Len(s) = Cardinality(S)
           /\ \A i, j \in DOMAIN s : s[i] = s[j] => i = j
<1> DEFINE n == Cardinality(S)
<1>1. n \in Nat
  BY FS_CardinalityType
<1>2. IsFiniteSet(1 .. n) /\ Cardinality(1 .. n) = n
  BY <1>1, IntervalSize
<1>3. s \in Surjection(1 .. n, S)
  BY DEF Surjection, Range
<1>4. s \in Injection(1 .. n, S)
  BY <1>2, <1>3, FS_SurjSameCardinalityImpliesInj
<1>5. QED
  BY <1>1, <1>4 DEF Injection, IsInjective

\* Every position of a finite set is the n-th for one n, and there are as many n.
LEMMA NthPosition ==
    ASSUME NEW P \in SUBSET Nat, IsFiniteSet(P)
    PROVE  /\ Cardinality(P) \in Nat
           /\ \A n \in 1 .. Cardinality(P) : Nth(P, n) \in P
           /\ \A i \in P : \E n \in 1 .. Cardinality(P) : Nth(P, n) = i
<1> DEFINE Upto(i) == {j \in P : j <= i}
           N == Cardinality(P)
           rank == [i \in P |-> Cardinality(Upto(i))]
<1>1. N \in Nat
  BY FS_CardinalityType
<1>2. ASSUME NEW i \in P PROVE IsFiniteSet(Upto(i)) /\ rank[i] \in 1 .. N
  <2>1. IsFiniteSet(Upto(i)) /\ Cardinality(Upto(i)) <= N
    BY FS_Subset
  <2>2. Cardinality(Upto(i)) \in Nat
    BY <2>1, FS_CardinalityType
  <2>3. i \in Upto(i)
    OBVIOUS
  <2>4. Cardinality(Upto(i)) # 0
    BY <2>1, <2>3, FS_EmptySet
  <2>5. QED
    BY <1>1, <2>1, <2>2, <2>4
<1>3. ASSUME NEW i \in P, NEW j \in P, i < j PROVE rank[i] < rank[j]
  <2>1. Upto(i) \in SUBSET (Upto(j) \ {j}) /\ j \in Upto(j)
    <3>1. i \in Nat /\ j \in Nat /\ \A x \in P : x \in Nat
      OBVIOUS
    <3>2. \A x \in Upto(i) : x \in P /\ x <= j /\ x # j
      BY <1>3, <3>1
    <3>3. j \in Upto(j)
      BY <3>1
    <3>4. QED
      BY <3>2, <3>3
  <2>2. /\ IsFiniteSet(Upto(j) \ {j})
        /\ Cardinality(Upto(j) \ {j}) = Cardinality(Upto(j)) - 1
    BY <1>2, <2>1, FS_RemoveElement
  <2>3. Cardinality(Upto(i)) <= Cardinality(Upto(j) \ {j})
    BY <2>1, <2>2, FS_Subset
  <2>4. QED
    BY <1>2, <2>2, <2>3
<1>4. rank \in Injection(P, 1 .. N)
  <2>1. rank \in [P -> 1 .. N]
    BY <1>2
  <2>2. \A i, j \in P : rank[i] = rank[j] => i = j
    <3>1. SUFFICES ASSUME NEW i \in P, NEW j \in P, rank[i] = rank[j], i # j PROVE FALSE
      BY Zenon
    <3>2. i < j \/ j < i
      BY <3>1
    <3>3. QED
      BY <1>2, <1>3, <3>1, <3>2
  <2>3. QED
    BY <2>1, <2>2 DEF Injection, IsInjective
<1>5. IsFiniteSet(1 .. N) /\ Cardinality(1 .. N) = N
  BY <1>1, IntervalSize
<1>6. rank \in Surjection(P, 1 .. N)
  BY <1>4, <1>5, FS_Injection
<1>7. ASSUME NEW n \in 1 .. N PROVE Nth(P, n) \in P /\ rank[Nth(P, n)] = n
  <2>1. \E i \in P : Cardinality(Upto(i)) = n
    BY <1>6 DEF Surjection
  <2>2. QED
    BY <2>1 DEF Nth
<1>8. ASSUME NEW i \in P PROVE \E n \in 1 .. N : Nth(P, n) = i
  <2>1. rank[i] \in 1 .. N /\ Nth(P, rank[i]) \in P /\ rank[Nth(P, rank[i])] = rank[i]
    BY <1>2, <1>7
  <2>2. Nth(P, rank[i]) = i
    BY <1>4, <2>1 DEF Injection, IsInjective
  <2>3. QED
    BY <2>1, <2>2
<1>9. QED
  BY <1>1, <1>7, <1>8

\* What is collected at some positions of a sequence.
LEMMA Collected ==
    ASSUME NEW S, NEW s \in Seq(S), NEW P \in SUBSET (DOMAIN s)
    PROVE  /\ IsFiniteSet(P) /\ Cardinality(P) \in Nat /\ Cardinality(P) <= Len(s)
           /\ At(s, P) \in Seq(S) /\ Len(At(s, P)) = Cardinality(P)
           /\ \A n \in 1 .. Cardinality(P) : Nth(P, n) \in P /\ At(s, P)[n] = s[Nth(P, n)]
           /\ \A i \in P : \E n \in 1 .. Cardinality(P) : Nth(P, n) = i
<1>1. P \in SUBSET Nat
  OBVIOUS
<1>2. IsFiniteSet(DOMAIN s) /\ Cardinality(DOMAIN s) = Len(s)
  <2>1. DOMAIN s = 1 .. Len(s) /\ Len(s) \in Nat
    OBVIOUS
  <2>2. IsFiniteSet(1 .. Len(s)) /\ Cardinality(1 .. Len(s)) = Len(s)
    BY <2>1, IntervalSize
  <2>3. QED
    BY <2>1, <2>2
<1>3. IsFiniteSet(P) /\ Cardinality(P) <= Len(s)
  BY <1>2, FS_Subset
<1>4. /\ Cardinality(P) \in Nat
      /\ \A n \in 1 .. Cardinality(P) : Nth(P, n) \in P
      /\ \A i \in P : \E n \in 1 .. Cardinality(P) : Nth(P, n) = i
  BY <1>1, <1>3, NthPosition
<1>5. At(s, P) \in [1 .. Cardinality(P) -> S]
  <2>1. \A i \in P : s[i] \in S
    OBVIOUS
  <2>2. QED
    BY <1>4, <2>1 DEF At
<1>6. At(s, P) \in Seq(S) /\ Len(At(s, P)) = Cardinality(P)
  BY <1>4, <1>5
<1>7. QED
  BY <1>3, <1>4, <1>6 DEF At

\* Collecting a whole beginning of a sequence changes nothing.
LEMMA NthOfInterval ==
    ASSUME NEW m \in Nat, NEW n \in 1 .. m
    PROVE  Nth(1 .. m, n) = n
<1>1. \A i \in 1 .. m : Cardinality({j \in 1 .. m : j <= i}) = i
  <2> TAKE i \in 1 .. m
  <2>1. {j \in 1 .. m : j <= i} = 1 .. i
    OBVIOUS
  <2>2. Cardinality(1 .. i) = i
    BY IntervalSize
  <2>3. QED
    BY <2>1, <2>2
<1>2. \E i \in 1 .. m : Cardinality({j \in 1 .. m : j <= i}) = n
  BY <1>1
<1>3. QED
  BY <1>1, <1>2 DEF Nth

\* What a call may get from the DAO, or takes for it when it has hit everything.
Answered(t) == IF Missed(t) = {} /\ call[t] # << >> THEN {<< >>} ELSE Answers(t)

\* An answer holds rows of the database, one for a key, and those of all missed keys.
LEMMA AnswerIsTrue ==
    ASSUME TypeOK, KeptUnderOwnKey, NEW t \in Thread, NEW answer \in Answered(t)
    PROVE  /\ answer \in Seq(Row)
           /\ \A i \in DOMAIN answer : answer[i].key \in Key /\ answer[i] = db[answer[i].key]
           /\ \A i, j \in DOMAIN answer : answer[i].key = answer[j].key => i = j
           /\ \A k \in Missed(t) : db[k] # Null => k \in KeysOf(answer)
<1>1. CASE answer = << >> /\ Missed(t) = {}
  BY <1>1
<1>2. ASSUME NEW keys \in SUBSET Key, Missed(t) \subseteq keys,
             answer \in [1 .. Cardinality(Existing(keys)) -> Existing(keys)],
             Range(answer) = Existing(keys)
      PROVE  /\ answer \in Seq(Row)
             /\ \A i \in DOMAIN answer : answer[i].key \in Key /\ answer[i] = db[answer[i].key]
             /\ \A i, j \in DOMAIN answer : answer[i].key = answer[j].key => i = j
             /\ \A k \in Missed(t) : db[k] # Null => k \in KeysOf(answer)
  <2>1. /\ IsFiniteSet(Existing(keys)) /\ Existing(keys) \subseteq Row
        /\ \A r \in Existing(keys) : r.key \in keys /\ r = db[r.key]
    BY ExistingRows
  <2>2. /\ answer \in Seq(Existing(keys))
        /\ \A i, j \in DOMAIN answer : answer[i] = answer[j] => i = j
    BY <1>2, <2>1, InAnyOrder
  <2>3. \A i \in DOMAIN answer : answer[i] \in Existing(keys)
    BY <1>2
  <2>4. answer \in Seq(Row)
    BY <2>1, <2>2
  <2>5. ASSUME NEW k \in Missed(t), db[k] # Null PROVE k \in KeysOf(answer)
    <3>1. db[k] \in Existing(keys)
      BY <1>2, <2>5 DEF Existing
    <3>2. PICK i \in DOMAIN answer : answer[i] = db[k]
      BY <1>2, <3>1 DEF Range
    <3>3. db[k].key = k
      BY <1>2, <2>5, OwnIsData DEF KeptUnderOwnKey
    <3>4. QED
      BY <3>2, <3>3 DEF KeysOf
  <2>6. \A i \in DOMAIN answer : answer[i].key \in Key /\ answer[i] = db[answer[i].key]
    BY <2>1, <2>3
  <2>7. \A i, j \in DOMAIN answer : answer[i].key = answer[j].key => i = j
    BY <2>2, <2>6
  <2>8. QED
    BY <2>4, <2>5, <2>6, <2>7
<1>3. CASE answer \in Answers(t) /\ call[t] = << >>
  <2>1. Missed(t) \subseteq Key
    BY ArgumentOfKeys DEF Missed
  <2>2. QED
    BY <1>2, <1>3, <2>1 DEF Answers
<1>4. CASE answer \in Answers(t) /\ call[t] # << >>
  <2>1. PICK more \in SUBSET Strangers :
          /\ answer \in [1 .. Cardinality(Existing(Missed(t) \union more))
                           -> Existing(Missed(t) \union more)]
          /\ Range(answer) = Existing(Missed(t) \union more)
    BY <1>4 DEF Answers
  <2>2. Missed(t) \union more \in SUBSET Key
    BY KeysAssumption, ArgumentOfKeys DEF Missed
  <2>3. QED
    BY <1>2, <2>1, <2>2
<1>5. QED
  BY <1>1, <1>3, <1>4 DEF Answered

\* Of an answer everything is written under its own key, and as it is in the database.
LEMMA WrittenIsTrue ==
    ASSUME TypeOK, KeptUnderOwnKey, NEW t \in Thread, NEW answer \in Answered(t)
    PROVE  /\ Unmatched(t, answer) \in Found
           /\ KeysOf(answer) \subseteq DOMAIN Unmatched(t, answer)
           /\ \A k \in DOMAIN Unmatched(t, answer) :
                 /\ Unmatched(t, answer)[k] = db[k]
                 /\ db[k] # Null <=> k \in KeysOf(answer)
<1> DEFINE u == Unmatched(t, answer)
           found == KeysOf(answer)
           nulls == IF Cardinality(found) < Cardinality(Missed(t))
                    THEN Missed(t) \ found ELSE {}
<1>1. /\ answer \in Seq(Row)
      /\ \A i \in DOMAIN answer : answer[i].key \in Key /\ answer[i] = db[answer[i].key]
      /\ \A k \in Missed(t) : db[k] # Null => k \in found
  BY AnswerIsTrue
<1>2. DOMAIN u = found \union nulls
  BY DEF Unmatched
<1>3. found \union nulls \in SUBSET Key
  BY <1>1, ArgumentOfKeys DEF KeysOf, Missed
<1>4. ASSUME NEW k \in found PROVE u[k] = db[k] /\ db[k] # Null
  <2>1. PICK i \in DOMAIN answer : answer[i].key = k
    BY DEF KeysOf
  <2>2. answer[i] \in Range(answer) /\ answer[i] = db[k]
    BY <1>1, <2>1 DEF Range
  <2>3. \A r \in Range(answer) : r.key = k => r = db[k]
    BY <1>1 DEF Range
  <2>4. (CHOOSE r \in Range(answer) : r.key = k) = db[k]
    BY <2>1, <2>2, <2>3
  <2>5. answer[i] \in Row
    BY <1>1
  <2>6. QED
    BY <2>2, <2>4, <2>5, NullAssumption DEF Unmatched, Data
<1>5. ASSUME NEW k \in nulls PROVE u[k] = db[k] /\ db[k] = Null /\ k \notin found
  BY <1>1 DEF Unmatched
<1>6. \A k \in DOMAIN u : u[k] = db[k] /\ (db[k] # Null <=> k \in found)
  BY <1>2, <1>4, <1>5
<1>7. u \in [DOMAIN u -> Data]
  <2>1. \A k \in DOMAIN u : u[k] \in Data
    BY <1>2, <1>3, <1>6 DEF TypeOK
  <2>2. u = [k \in DOMAIN u |-> u[k]]
    BY DEF Unmatched
  <2>3. QED
    BY <2>1, <2>2
<1>8. u \in Found
  BY <1>2, <1>3, <1>7 DEF Found
<1>9. QED
  BY <1>2, <1>6, <1>8

\* A map with one more pair.
LEMMA WithOneMore ==
    ASSUME NEW f \in Found, NEW k \in Key, NEW v \in Data
    PROVE  /\ With(f, k, v) \in Found
           /\ DOMAIN With(f, k, v) = DOMAIN f \union {k}
           /\ \A x \in DOMAIN With(f, k, v) :
                With(f, k, v)[x] = IF x = k THEN v ELSE f[x]
<1>1. PICK keys \in SUBSET Key : f \in [keys -> Data]
  BY DEF Found
<1>2. keys \union {k} \in SUBSET Key /\ With(f, k, v) \in [keys \union {k} -> Data]
  BY <1>1 DEF With
<1>3. QED
  BY <1>1, <1>2 DEF With, Found

\* A map that keeps everything under its own key, with one more pair that does.
LEMMA WithOwn ==
    ASSUME NEW f \in Found, NEW k \in Key, NEW v \in Own(k),
           \A x \in DOMAIN f : f[x] \in Own(x)
    PROVE  \A x \in DOMAIN With(f, k, v) : With(f, k, v)[x] \in Own(x)
BY DEF With

\* Nothing in hand.
LEMMA Empty ==
    /\ << >> \in Found /\ DOMAIN << >> = {}
    /\ << >> \in Seq(Row) /\ << >> \in Seq(Data)
    /\ KeysOf(<< >>) = {}
<1>1. DOMAIN << >> = {} /\ << >> \in [{} -> Data]
  OBVIOUS
<1>2. << >> \in Found
  BY <1>1 DEF Found
<1>3. QED
  BY <1>1, <1>2 DEF KeysOf

\* What is found for each position of the argument.
All(t) == [i \in DOMAIN call[t] |-> ValueOf(t, call[t][i])]

\* What is found for a key is its own.
LEMMA ValueIsOwn ==
    ASSUME TypeOK, KeptUnderOwnKey, NEW t \in Thread, NEW k \in Key
    PROVE  ValueOf(t, k) \in Own(k)
BY DEF ValueOf, KeptUnderOwnKey, Own

\* The values are in the argument's order, and none but nulls are passed over.
LEMMA ValuesInOrder ==
    ASSUME TypeOK, KeptUnderOwnKey, NEW t \in Thread
    PROVE  /\ All(t) \in Seq(Data) /\ Len(All(t)) = Len(call[t])
           /\ Values(t) \in Seq(Data)
           /\ t \in ReturnsNull => Values(t) = All(t)
           /\ t \notin ReturnsNull => Values(t) = At(All(t), Present(All(t)))
<1>1. call[t] \in Seq(Key)
  BY ArgumentOfKeys
<1>2. \A i \in DOMAIN call[t] : ValueOf(t, call[t][i]) \in Data
  BY <1>1, ValueIsOwn, OwnIsData
<1>3. All(t) \in [1 .. Len(call[t]) -> Data]
  BY <1>1, <1>2 DEF All
<1>4. All(t) \in Seq(Data) /\ Len(All(t)) = Len(call[t])
  BY <1>1, <1>3
<1>5. At(All(t), Present(All(t))) \in Seq(Data)
  BY <1>4, Collected DEF Present
<1>6. QED
  BY <1>4, <1>5 DEF Values, All

\* The hits are finitely many.
LEMMA SizeIsNatural ==
    ASSUME TypeOK, NEW t \in Thread
    PROVE  /\ IsFiniteSet(DOMAIN hits[t]) /\ Cardinality(DOMAIN hits[t]) \in Nat
           /\ ResSize(t) \in Nat
<1>1. DOMAIN hits[t] \in SUBSET Key
  BY ArgumentOfKeys DEF TypeOK
<1>2. IsFiniteSet(DOMAIN hits[t])
  BY <1>1, KeysAssumption, FS_Subset
<1>3. Cardinality(DOMAIN hits[t]) \in Nat
  BY <1>2, FS_CardinalityType
<1>4. Len(call[t]) \in Nat /\ Len(rows[t]) \in Nat
  BY ArgumentOfKeys DEF TypeOK
<1>5. QED
  BY <1>2, <1>3, <1>4 DEF ResSize

-----------------------------------------------------------------------------
(* The invariant *)

LEMMA InitIInv == Init => IInv
<1> SUFFICES ASSUME Init PROVE IInv
  OBVIOUS
<1>1. \A k \in Key : db[k] \in Own(k) /\ Own(k) \subseteq Data
  BY OwnIsData, UpdatesAssumption DEF Init, Own
<1>2. TypeOK
  BY <1>1, Empty, UpdatesAssumption DEF Init, TypeOK
<1>3. KeptUnderOwnKey
  BY <1>1, Empty DEF Init, KeptUnderOwnKey
<1>4. WrittenAsAnswered
  BY Empty DEF Init, WrittenAsAnswered
<1>5. StillToWrite /\ StaleIsLate /\ ReturnedAsBuilt
  BY DEF Init, StillToWrite, StaleIsLate, ReturnedAsBuilt
<1>6. OnlyWhatIsAsked
  BY DEF Init, OnlyWhatIsAsked
<1>7. QED
  BY <1>2, <1>3, <1>4, <1>5, <1>6 DEF IInv

\* A result fits its type.
LEMMA ResultType ==
    ASSUME IInv, NEW t \in Thread
    PROVE  ReturnObject(t) \in Seq(Data)
<1>1. Values(t) \in Seq(Data)
  BY ValuesInOrder DEF IInv
<1>2. rows[t] \in Seq(Data)
  BY DEF IInv, TypeOK, Data
<1>3. ASSUME call[t] # << >>, t \in ReturnsArray
      PROVE  Filled(Values(t), ResSize(t)) \in Seq(Data)
  <2>1. ResSize(t) \in Nat
    BY SizeIsNatural DEF IInv
  <2>2. QED
    BY <1>1, <2>1 DEF Filled, Data
<1>4. QED
  BY <1>1, <1>2, <1>3 DEF ReturnObject

\* Every step keeps the state well-formed.
LEMMA TypeStep == IInv /\ [Next]_vars => TypeOK'
<1> SUFFICES ASSUME IInv, [Next]_vars PROVE TypeOK'
  OBVIOUS
<1> USE DEF IInv
<1>1. ASSUME NEW t \in Thread, NEW c \in Calls, Call(t, c) PROVE TypeOK'
  <2>1. c \in Seq(Key) /\ Range(c) \subseteq Key
    BY CallsAssumption DEF Range
  <2>2. DOMAIN hits[t] = {}
    <3>1. hits[t] = << >>
      BY <1>1 DEF Call, OnlyWhatIsAsked
    <3>2. QED
      BY <3>1, Empty
  <2>3. \A u \in Thread : DOMAIN hits'[u] \subseteq Asked(u)'
    BY <1>1, <2>2 DEF Call, TypeOK, Asked
  <2>4. QED
    BY <1>1, <2>1, <2>3 DEF Call, TypeOK
<1>2. ASSUME NEW t \in Thread, NEW k \in Key, Get(t, k) PROVE TypeOK'
  <2>1. hits' \in [Thread -> Found] /\ \A u \in Thread : DOMAIN hits'[u] \subseteq Asked(u)
    <3>1. CASE hits' = hits
      BY <3>1 DEF TypeOK
    <3>2. CASE cache[k] # Absent /\ hits' = [hits EXCEPT ![t] = With(@, k, cache[k])]
      <4>0. k \in Asked(t)
        BY <1>2 DEF Get, OnlyWhatIsAsked
      <4>1. cache[k] \in Data /\ hits[t] \in Found
        BY <3>2 DEF TypeOK
      <4>2. /\ With(hits[t], k, cache[k]) \in Found
            /\ DOMAIN With(hits[t], k, cache[k]) = DOMAIN hits[t] \union {k}
        BY <4>1, WithOneMore
      <4>3. QED
        BY <3>2, <4>0, <4>2 DEF TypeOK
    <3>3. QED
      BY <3>1, <3>2, <1>2 DEF Get
  <2>2. QED
    BY <1>2, <2>1 DEF Get, TypeOK, Asked
<1>3. ASSUME NEW t \in Thread, NEW k \in Key, Put(t, k) PROVE TypeOK'
  <2>1. unmatch[t][k] \in Data
    BY <1>3, OwnIsData DEF Put, StillToWrite, KeptUnderOwnKey
  <2>2. QED
    BY <1>3, <2>1 DEF Put, TypeOK, Asked
<1>4. ASSUME NEW t \in Thread, LoadData(t) PROVE TypeOK'
  <2>1. PICK answer \in Answered(t) :
          /\ rows' = [rows EXCEPT ![t] = answer]
          /\ unmatch' = [unmatch EXCEPT ![t] = Unmatched(t, answer)]
          /\ todo' = [todo EXCEPT ![t] = DOMAIN Unmatched(t, answer)]
    BY <1>4 DEF LoadData, Answered
  <2>2. answer \in Seq(Row) /\ Unmatched(t, answer) \in Found
    BY AnswerIsTrue, WrittenIsTrue
  <2>3. DOMAIN Unmatched(t, answer) \in SUBSET Key
    BY <2>2 DEF Found
  <2>4. QED
    BY <1>4, <2>1, <2>2, <2>3 DEF LoadData, TypeOK, Asked
<1>5. ASSUME NEW t \in Thread, PutBreaks(t) PROVE TypeOK'
  BY <1>5 DEF PutBreaks, TypeOK, Asked
<1>6. ASSUME NEW t \in Thread, ConvertToReturnObject(t) PROVE TypeOK'
  BY <1>6, ResultType DEF ConvertToReturnObject, TypeOK, Asked
<1>7. ASSUME NEW t \in Thread, Return(t) \/ Throw(t) PROVE TypeOK'
  <2>1. Forget(t)
    BY <1>7 DEF Return, Throw
  <2>2. \A u \in Thread : DOMAIN hits'[u] \subseteq Asked(u)'
    BY <2>1, Empty DEF Forget, TypeOK, Asked
  <2>3. QED
    BY <2>1, <2>2, Empty DEF Forget, TypeOK
<1>8. ASSUME NEW keys \in SUBSET Key, Update(keys) PROVE TypeOK'
  <2>1. updates + 1 \in 0 .. MaxUpdates
    BY <1>8, UpdatesAssumption DEF Update, TypeOK
  <2>2. db' \in [Key -> Data]
    BY <1>8, <2>1 DEF Update, TypeOK, Data, Row
  <2>3. behind' \in [Thread -> SUBSET Key]
    BY <1>8 DEF Update, TypeOK
  <2>4. QED
    BY <1>8, <2>1, <2>2, <2>3 DEF Update, TypeOK, Asked, threadVars
<1>9. ASSUME NEW k \in Key, Delete(k) \/ Lose(k) PROVE TypeOK'
  BY <1>9 DEF Delete, Lose, TypeOK, Asked, threadVars
<1>10. CASE UNCHANGED vars
  BY <1>10 DEF vars, TypeOK, Asked
<1>11. QED
  BY <1>1, <1>2, <1>3, <1>4, <1>5, <1>6, <1>7, <1>8, <1>9, <1>10 DEF Next

\* No step looks for what was not asked for.
LEMMA AskedStep == IInv /\ [Next]_vars => OnlyWhatIsAsked'
<1> SUFFICES ASSUME IInv, [Next]_vars PROVE OnlyWhatIsAsked'
  OBVIOUS
<1> USE DEF IInv, TypeOK, OnlyWhatIsAsked, Asked
<1>1. ASSUME NEW t \in Thread, NEW c \in Calls, Call(t, c) PROVE OnlyWhatIsAsked'
  BY <1>1 DEF Call
<1>2. ASSUME NEW t \in Thread, NEW k \in Key, Get(t, k) PROVE OnlyWhatIsAsked'
  BY <1>2 DEF Get
<1>3. ASSUME NEW t \in Thread, NEW k \in Key, Put(t, k) PROVE OnlyWhatIsAsked'
  BY <1>3 DEF Put
<1>4. ASSUME NEW t \in Thread, LoadData(t) PROVE OnlyWhatIsAsked'
  BY <1>4 DEF LoadData
<1>5. ASSUME NEW t \in Thread, PutBreaks(t) PROVE OnlyWhatIsAsked'
  BY <1>5 DEF PutBreaks
<1>6. ASSUME NEW t \in Thread, ConvertToReturnObject(t) PROVE OnlyWhatIsAsked'
  BY <1>6 DEF ConvertToReturnObject
<1>7. ASSUME NEW t \in Thread, Return(t) \/ Throw(t) PROVE OnlyWhatIsAsked'
  BY <1>7, Empty DEF Return, Throw, Forget
<1>8. ASSUME NEW keys \in SUBSET Key, Update(keys) PROVE OnlyWhatIsAsked'
  BY <1>8 DEF Update, threadVars
<1>9. ASSUME NEW k \in Key, Delete(k) \/ Lose(k) PROVE OnlyWhatIsAsked'
  BY <1>9 DEF Delete, Lose, threadVars
<1>10. CASE UNCHANGED vars
  BY <1>10 DEF vars
<1>11. QED
  BY <1>1, <1>2, <1>3, <1>4, <1>5, <1>6, <1>7, <1>8, <1>9, <1>10 DEF Next

\* No step keeps data under a key that is not its own.
LEMMA KeptStep == IInv /\ [Next]_vars => KeptUnderOwnKey'
<1> SUFFICES ASSUME IInv, [Next]_vars PROVE KeptUnderOwnKey'
  OBVIOUS
<1> USE DEF IInv, TypeOK, KeptUnderOwnKey
<1>1. ASSUME NEW t \in Thread, NEW c \in Calls, Call(t, c) PROVE KeptUnderOwnKey'
  BY <1>1 DEF Call
<1>2. ASSUME NEW t \in Thread, NEW k \in Key, Get(t, k) PROVE KeptUnderOwnKey'
  <2>1. ASSUME cache[k] # Absent
        PROVE  \A x \in DOMAIN With(hits[t], k, cache[k]) : With(hits[t], k, cache[k])[x] \in Own(x)
    <3>1. hits[t] \in Found /\ cache[k] \in Data /\ cache[k] \in Own(k)
      BY <2>1
    <3>2. QED
      BY <3>1, WithOwn
  <2>2. \/ hits' = hits
        \/ /\ cache[k] # Absent
           /\ hits' = [hits EXCEPT ![t] = With(hits[t], k, cache[k])]
    BY <1>2 DEF Get
  <2>3. QED
    BY <1>2, <2>1, <2>2 DEF Get
<1>3. ASSUME NEW t \in Thread, NEW k \in Key, Put(t, k) PROVE KeptUnderOwnKey'
  <2>1. unmatch[t][k] \in Own(k)
    BY <1>3 DEF Put, StillToWrite
  <2>2. QED
    BY <1>3, <2>1 DEF Put
<1>4. ASSUME NEW t \in Thread, LoadData(t) PROVE KeptUnderOwnKey'
  <2>1. PICK answer \in Answered(t) :
          /\ rows' = [rows EXCEPT ![t] = answer]
          /\ unmatch' = [unmatch EXCEPT ![t] = Unmatched(t, answer)]
          /\ todo' = [todo EXCEPT ![t] = DOMAIN Unmatched(t, answer)]
    BY <1>4 DEF LoadData, Answered
  <2>2. Unmatched(t, answer) \in Found
        /\ \A k \in DOMAIN Unmatched(t, answer) : Unmatched(t, answer)[k] = db[k]
    BY WrittenIsTrue
  <2>3. \A k \in DOMAIN Unmatched(t, answer) : Unmatched(t, answer)[k] \in Own(k)
    BY <2>2 DEF Found
  <2>4. QED
    BY <1>4, <2>1, <2>3 DEF LoadData
<1>5. ASSUME NEW t \in Thread, PutBreaks(t) PROVE KeptUnderOwnKey'
  BY <1>5 DEF PutBreaks
<1>6. ASSUME NEW t \in Thread, ConvertToReturnObject(t) PROVE KeptUnderOwnKey'
  BY <1>6 DEF ConvertToReturnObject
<1>7. ASSUME NEW t \in Thread, Return(t) \/ Throw(t) PROVE KeptUnderOwnKey'
  BY <1>7, Empty DEF Return, Throw, Forget
<1>8. ASSUME NEW keys \in SUBSET Key, Update(keys) PROVE KeptUnderOwnKey'
  <2>1. updates + 1 \in 0 .. MaxUpdates
    BY <1>8, UpdatesAssumption DEF Update
  <2>2. \A k \in Key : db'[k] \in Own(k)
    BY <1>8, <2>1 DEF Update, Own
  <2>3. QED
    BY <1>8, <2>2 DEF Update, threadVars
<1>9. ASSUME NEW k \in Key, Delete(k) \/ Lose(k) PROVE KeptUnderOwnKey'
  BY <1>9 DEF Delete, Lose, threadVars
<1>10. CASE UNCHANGED vars
  BY <1>10 DEF vars
<1>11. QED
  BY <1>1, <1>2, <1>3, <1>4, <1>5, <1>6, <1>7, <1>8, <1>9, <1>10 DEF Next

\* What is to be written stays what was answered.
LEMMA WrittenStep == IInv /\ [Next]_vars => WrittenAsAnswered'
<1> SUFFICES ASSUME IInv, [Next]_vars PROVE WrittenAsAnswered'
  OBVIOUS
<1> USE DEF IInv, TypeOK, WrittenAsAnswered
<1>1. ASSUME NEW t \in Thread, NEW c \in Calls, Call(t, c) PROVE WrittenAsAnswered'
  BY <1>1 DEF Call
<1>2. ASSUME NEW t \in Thread, NEW k \in Key, Get(t, k) PROVE WrittenAsAnswered'
  BY <1>2 DEF Get
<1>3. ASSUME NEW t \in Thread, NEW k \in Key, Put(t, k) PROVE WrittenAsAnswered'
  BY <1>3 DEF Put
<1>4. ASSUME NEW t \in Thread, LoadData(t) PROVE WrittenAsAnswered'
  <2>1. PICK answer \in Answered(t) :
          /\ rows' = [rows EXCEPT ![t] = answer]
          /\ unmatch' = [unmatch EXCEPT ![t] = Unmatched(t, answer)]
          /\ todo' = [todo EXCEPT ![t] = DOMAIN Unmatched(t, answer)]
    BY <1>4 DEF LoadData, Answered
  <2>2. \A i, j \in DOMAIN answer : answer[i].key = answer[j].key => i = j
    BY AnswerIsTrue
  <2>3. /\ KeysOf(answer) \subseteq DOMAIN Unmatched(t, answer)
        /\ \A k \in DOMAIN Unmatched(t, answer) :
             /\ Unmatched(t, answer)[k] = db[k]
             /\ db[k] # Null <=> k \in KeysOf(answer)
    BY WrittenIsTrue
  <2>4. \A k \in DOMAIN Unmatched(t, answer) :
             Unmatched(t, answer)[k] # Null <=> k \in KeysOf(answer)
    BY <2>3
  <2>5. QED
    BY <1>4, <2>1, <2>2, <2>3, <2>4 DEF LoadData
<1>5. ASSUME NEW t \in Thread, PutBreaks(t) PROVE WrittenAsAnswered'
  BY <1>5 DEF PutBreaks
<1>6. ASSUME NEW t \in Thread, ConvertToReturnObject(t) PROVE WrittenAsAnswered'
  BY <1>6 DEF ConvertToReturnObject
<1>7. ASSUME NEW t \in Thread, Return(t) \/ Throw(t) PROVE WrittenAsAnswered'
  BY <1>7, Empty DEF Return, Throw, Forget
<1>8. ASSUME NEW keys \in SUBSET Key, Update(keys) PROVE WrittenAsAnswered'
  BY <1>8 DEF Update, threadVars
<1>9. ASSUME NEW k \in Key, Delete(k) \/ Lose(k) PROVE WrittenAsAnswered'
  BY <1>9 DEF Delete, Lose, threadVars
<1>10. CASE UNCHANGED vars
  BY <1>10 DEF vars
<1>11. QED
  BY <1>1, <1>2, <1>3, <1>4, <1>5, <1>6, <1>7, <1>8, <1>9, <1>10 DEF Next

\* What is still to be written is current, or known to be behind.
LEMMA StillStep == IInv /\ [Next]_vars => StillToWrite'
<1> SUFFICES ASSUME IInv, [Next]_vars PROVE StillToWrite'
  OBVIOUS
<1> USE DEF IInv, TypeOK, StillToWrite
<1>1. ASSUME NEW t \in Thread, NEW c \in Calls, Call(t, c) PROVE StillToWrite'
  BY <1>1 DEF Call
<1>2. ASSUME NEW t \in Thread, NEW k \in Key, Get(t, k) PROVE StillToWrite'
  BY <1>2 DEF Get
<1>3. ASSUME NEW t \in Thread, NEW k \in Key, Put(t, k) PROVE StillToWrite'
  BY <1>3 DEF Put
<1>4. ASSUME NEW t \in Thread, LoadData(t) PROVE StillToWrite'
  <2>1. PICK answer \in Answered(t) :
          /\ rows' = [rows EXCEPT ![t] = answer]
          /\ unmatch' = [unmatch EXCEPT ![t] = Unmatched(t, answer)]
          /\ todo' = [todo EXCEPT ![t] = DOMAIN Unmatched(t, answer)]
    BY <1>4 DEF LoadData, Answered
  <2>2. \A k \in DOMAIN Unmatched(t, answer) : Unmatched(t, answer)[k] = db[k]
    BY WrittenIsTrue
  <2>3. QED
    BY <1>4, <2>1, <2>2 DEF LoadData
<1>5. ASSUME NEW t \in Thread, PutBreaks(t) PROVE StillToWrite'
  BY <1>5 DEF PutBreaks
<1>6. ASSUME NEW t \in Thread, ConvertToReturnObject(t) PROVE StillToWrite'
  BY <1>6 DEF ConvertToReturnObject
<1>7. ASSUME NEW t \in Thread, Return(t) \/ Throw(t) PROVE StillToWrite'
  BY <1>7, Empty DEF Return, Throw, Forget
<1>8. ASSUME NEW keys \in SUBSET Key, Update(keys) PROVE StillToWrite'
  BY <1>8 DEF Update, threadVars
<1>9. ASSUME NEW k \in Key, Delete(k) \/ Lose(k) PROVE StillToWrite'
  BY <1>9 DEF Delete, Lose, threadVars
<1>10. CASE UNCHANGED vars
  BY <1>10 DEF vars
<1>11. QED
  BY <1>1, <1>2, <1>3, <1>4, <1>5, <1>6, <1>7, <1>8, <1>9, <1>10 DEF Next

\* Nothing stale gets into the cache but by those who are behind.
LEMMA StaleStep == IInv /\ [Next]_vars => StaleIsLate'
<1> SUFFICES ASSUME IInv, [Next]_vars PROVE StaleIsLate'
  OBVIOUS
<1> USE DEF IInv, TypeOK, StaleIsLate, StillToWrite
<1>1. ASSUME NEW t \in Thread, NEW c \in Calls, Call(t, c) PROVE StaleIsLate'
  BY <1>1 DEF Call
<1>2. ASSUME NEW t \in Thread, NEW k \in Key, Get(t, k) PROVE StaleIsLate'
  BY <1>2 DEF Get
<1>3. ASSUME NEW t \in Thread, NEW k \in Key, Put(t, k) PROVE StaleIsLate'
  BY <1>3 DEF Put
<1>4. ASSUME NEW t \in Thread, LoadData(t) PROVE StaleIsLate'
  BY <1>4 DEF LoadData
<1>5. ASSUME NEW t \in Thread, PutBreaks(t) PROVE StaleIsLate'
  BY <1>5 DEF PutBreaks
<1>6. ASSUME NEW t \in Thread, ConvertToReturnObject(t) PROVE StaleIsLate'
  BY <1>6 DEF ConvertToReturnObject
<1>7. ASSUME NEW t \in Thread, Return(t) \/ Throw(t) PROVE StaleIsLate'
  BY <1>7, Empty DEF Return, Throw, Forget
<1>8. ASSUME NEW keys \in SUBSET Key, Update(keys) PROVE StaleIsLate'
  BY <1>8 DEF Update, threadVars
<1>9. ASSUME NEW k \in Key, Delete(k) \/ Lose(k) PROVE StaleIsLate'
  BY <1>9 DEF Delete, Lose, threadVars
<1>10. CASE UNCHANGED vars
  BY <1>10 DEF vars
<1>11. QED
  BY <1>1, <1>2, <1>3, <1>4, <1>5, <1>6, <1>7, <1>8, <1>9, <1>10 DEF Next

\* What a call returns depends on what the thread has in hand, and on nothing else.
LEMMA SameReturn ==
    ASSUME NEW t \in Thread, UNCHANGED <<call[t], hits[t], rows[t], unmatch[t]>>
    PROVE  ReturnObject(t)' = ReturnObject(t) /\ Overflows(t)' = Overflows(t)
<1>1. \A k : ValueOf(t, k)' = ValueOf(t, k)
  BY DEF ValueOf
<1>2. Values(t)' = Values(t)
  BY <1>1 DEF Values
<1>3. ResSize(t)' = ResSize(t)
  BY DEF ResSize
<1>4. QED
  BY <1>2, <1>3 DEF ReturnObject, Overflows

\* No step changes what a call returns.
LEMMA ReturnedStep == IInv /\ [Next]_vars => ReturnedAsBuilt'
<1> SUFFICES ASSUME IInv, [Next]_vars, NEW u \in Thread, phase'[u] \in {"done", "overflow"}
             PROVE  IF phase'[u] = "done"
                    THEN ~Overflows(u)' /\ result'[u] = ReturnObject(u)'
                    ELSE Overflows(u)'
  BY DEF ReturnedAsBuilt
<1>1. CASE ConvertToReturnObject(u)
  <2>1. UNCHANGED <<call[u], hits[u], rows[u], unmatch[u]>>
    BY <1>1 DEF ConvertToReturnObject
  <2>2. ReturnObject(u)' = ReturnObject(u) /\ Overflows(u)' = Overflows(u)
    BY <2>1, SameReturn
  <2>3. IF Overflows(u) THEN phase'[u] = "overflow"
        ELSE phase'[u] = "done" /\ result'[u] = ReturnObject(u)
    BY <1>1 DEF ConvertToReturnObject, IInv, TypeOK
  <2>4. QED
    BY <2>2, <2>3
<1>2. ASSUME ~ConvertToReturnObject(u)
      PROVE  UNCHANGED <<phase[u], result[u], call[u], hits[u], rows[u], unmatch[u]>>
  <2> USE DEF IInv, TypeOK
  <2>1. ASSUME NEW t \in Thread, NEW c \in Calls, Call(t, c) PROVE t # u
    BY <2>1 DEF Call
  <2>2. ASSUME NEW t \in Thread, NEW k \in Key, Get(t, k) PROVE t # u
    BY <2>2 DEF Get
  <2>3. ASSUME NEW t \in Thread, LoadData(t) PROVE t # u
    BY <2>3 DEF LoadData
  <2>4. ASSUME NEW t \in Thread, Return(t) \/ Throw(t) PROVE t # u
    BY <2>4 DEF Return, Throw, Forget
  <2>5. ASSUME NEW t \in Thread, t # u,
               \/ \E c \in Calls : Call(t, c)
               \/ \E k \in Key : Get(t, k)
               \/ LoadData(t) \/ ConvertToReturnObject(t) \/ Return(t) \/ Throw(t)
        PROVE  UNCHANGED <<phase[u], result[u], call[u], hits[u], rows[u], unmatch[u]>>
    BY <2>5 DEF Call, Get, LoadData, ConvertToReturnObject, Return, Throw, Forget
  <2>6. ASSUME \/ \E t \in Thread : PutBreaks(t) \/ \E k \in Key : Put(t, k)
               \/ \E keys \in SUBSET Key : Update(keys)
               \/ \E k \in Key : Delete(k) \/ Lose(k)
               \/ UNCHANGED vars
        PROVE  UNCHANGED <<phase[u], result[u], call[u], hits[u], rows[u], unmatch[u]>>
    BY <2>6 DEF Put, PutBreaks, Update, Delete, Lose, vars, threadVars
  <2>7. QED
    BY <1>2, <2>1, <2>2, <2>3, <2>4, <2>5, <2>6 DEF Next
<1>3. CASE ~ConvertToReturnObject(u)
  <2>1. ReturnObject(u)' = ReturnObject(u) /\ Overflows(u)' = Overflows(u)
    BY <1>2, <1>3, SameReturn
  <2>2. QED
    BY <1>2, <1>3, <2>1 DEF IInv, ReturnedAsBuilt
<1>4. QED
  BY <1>1, <1>3

LEMMA InvariantHolds == Spec => []IInv
<1>1. IInv /\ [Next]_vars => IInv'
  BY TypeStep, AskedStep, KeptStep, WrittenStep, StillStep, StaleStep, ReturnedStep DEF IInv
<1>2. QED
  BY InitIInv, <1>1, PTL DEF Spec

-----------------------------------------------------------------------------
(* What a call returns *)

\* A sequence as long as the array fills it.
LEMMA FilledUp ==
    ASSUME NEW v \in Seq(Data)
    PROVE  Filled(v, Len(v)) = v
BY DEF Filled

\* From an array that was filled a loop that passes over nulls collects what it was
\* filled with.
LEMMA FilledBack ==
    ASSUME NEW v \in Seq(Data), \A i \in DOMAIN v : v[i] # Null,
           NEW n \in Nat, Len(v) <= n
    PROVE  At(Filled(v, n), Present(Filled(v, n))) = v
<1> DEFINE m == Len(v)
           s == Filled(v, n)
<1>1. m \in Nat /\ DOMAIN v = 1 .. m /\ DOMAIN s = 1 .. n
  BY DEF Filled
<1>2. \A i \in 1 .. n : s[i] = IF i <= m THEN v[i] ELSE Null
  BY DEF Filled
<1>3. Present(s) = 1 .. m
  BY <1>1, <1>2 DEF Present
<1>4. At(s, Present(s)) = [i \in 1 .. m |-> s[Nth(1 .. m, i)]]
  BY <1>1, <1>3, IntervalSize DEF At
<1>5. \A i \in 1 .. m : s[Nth(1 .. m, i)] = v[i]
  BY <1>1, <1>2, NthOfInterval
<1>6. v = [i \in 1 .. m |-> v[i]]
  BY <1>1
<1>7. QED
  BY <1>4, <1>5, <1>6

\* Without the nulls, a result is what was found in the argument's order.
LEMMA ResultInOrder ==
    ASSUME IInv, NEW t \in Thread, phase[t] = "done", call[t] # << >>
    PROVE  /\ At(result[t], Present(result[t])) = At(All(t), Present(All(t)))
           /\ t \in ReturnsNull => result[t] = All(t)
<1> DEFINE v == At(All(t), Present(All(t)))
<1> USE DEF IInv
<1>1. /\ All(t) \in Seq(Data) /\ Len(All(t)) = Len(call[t])
      /\ t \in ReturnsNull => Values(t) = All(t)
      /\ t \notin ReturnsNull => Values(t) = v
  BY ValuesInOrder
<1>2. ~Overflows(t) /\ result[t] = ReturnObject(t)
  BY DEF ReturnedAsBuilt
<1>3. ASSUME t \in ReturnsNull PROVE result[t] = All(t)
  <2>1. ResSize(t) = Len(All(t))
    BY <1>1, <1>3 DEF ResSize
  <2>2. QED
    BY <1>1, <1>2, <1>3, <2>1, FilledUp DEF ReturnObject
<1>4. ASSUME t \notin ReturnsNull PROVE At(result[t], Present(result[t])) = v
  <2>1. v \in Seq(Data) /\ \A i \in DOMAIN v : v[i] # Null
    <3>1. Present(All(t)) \in SUBSET (DOMAIN All(t))
      BY DEF Present
    <3>2. /\ v \in Seq(Data) /\ Len(v) = Cardinality(Present(All(t)))
          /\ \A n \in 1 .. Cardinality(Present(All(t))) :
                Nth(Present(All(t)), n) \in Present(All(t)) /\ v[n] = All(t)[Nth(Present(All(t)), n)]
      BY <1>1, <3>1, Collected
    <3>3. DOMAIN v = 1 .. Cardinality(Present(All(t)))
      BY <3>2
    <3>4. \A i \in Present(All(t)) : All(t)[i] # Null
      BY DEF Present
    <3>5. QED
      BY <3>2, <3>3, <3>4
  <2>2. PICK n \in Nat : Len(v) <= n /\ result[t] = Filled(v, n)
    <3>1. CASE t \in ReturnsArray
      <4>1. ResSize(t) \in Nat /\ ~(ResSize(t) < Len(v))
        BY <1>1, <1>2, <1>4, <3>1, SizeIsNatural DEF Overflows
      <4>2. Len(v) <= ResSize(t)
        BY <2>1, <4>1
      <4>3. result[t] = Filled(v, ResSize(t))
        BY <1>1, <1>2, <1>4, <3>1 DEF ReturnObject
      <4>4. QED
        BY <4>1, <4>2, <4>3
    <3>2. CASE t \notin ReturnsArray
      BY <1>1, <1>2, <1>4, <2>1, <3>2, FilledUp DEF ReturnObject
    <3>3. QED
      BY <3>1, <3>2
  <2>3. QED
    BY <2>1, <2>2, FilledBack
<1>5. QED
  BY <1>3, <1>4

\* What is found is found under the keys of the argument, in its order.
LEMMA KeysInOrder ==
    ASSUME IInv, NEW t \in Thread
    PROVE  LET v == At(All(t), Present(All(t)))
           IN  [i \in DOMAIN v |-> v[i].key] =
                 At(call[t], {i \in DOMAIN call[t] : call[t][i] \in KeysOf(v)})
<1> DEFINE P == Present(All(t))
           v == At(All(t), P)
           Q == {i \in DOMAIN call[t] : call[t][i] \in KeysOf(v)}
<1>1. call[t] \in Seq(Key) /\ All(t) \in Seq(Data) /\ DOMAIN All(t) = DOMAIN call[t]
  BY ArgumentOfKeys, ValuesInOrder DEF IInv, All
<1>2. \A i \in DOMAIN call[t] : All(t)[i] = ValueOf(t, call[t][i])
  BY DEF All
<1>3. P \in SUBSET (DOMAIN All(t)) /\ \A i \in P : All(t)[i] # Null
  BY DEF Present
<1>4. /\ Cardinality(P) \in Nat /\ DOMAIN v = 1 .. Cardinality(P)
      /\ \A n \in 1 .. Cardinality(P) : Nth(P, n) \in P /\ v[n] = All(t)[Nth(P, n)]
      /\ \A i \in P : \E n \in 1 .. Cardinality(P) : Nth(P, n) = i
  BY <1>1, <1>3, Collected
<1>5. \A i \in P : All(t)[i].key = call[t][i]
  <2> TAKE i \in P
  <2>1. call[t][i] \in Key /\ All(t)[i] = ValueOf(t, call[t][i]) /\ All(t)[i] # Null
    BY <1>1, <1>2, <1>3
  <2>2. ValueOf(t, call[t][i]) \in Own(call[t][i])
    BY <2>1, ValueIsOwn DEF IInv
  <2>3. QED
    BY <2>1, <2>2, OwnIsData
<1>6. \A n \in 1 .. Cardinality(P) : v[n].key = call[t][Nth(P, n)]
  BY <1>4, <1>5
<1>7. Q = P
  <2>1. ASSUME NEW i \in P PROVE i \in Q
    <3>1. PICK n \in 1 .. Cardinality(P) : Nth(P, n) = i
      BY <1>4
    <3>2. v[n].key = call[t][i] /\ n \in DOMAIN v
      BY <1>4, <1>6, <3>1
    <3>3. QED
      BY <1>1, <1>3, <3>2 DEF KeysOf
  <2>2. ASSUME NEW i \in Q PROVE i \in P
    <3>1. PICK n \in DOMAIN v : v[n].key = call[t][i]
      BY DEF KeysOf
    <3>2. Nth(P, n) \in P /\ call[t][Nth(P, n)] = call[t][i]
      BY <1>4, <1>6, <3>1
    <3>3. All(t)[i] = All(t)[Nth(P, n)] /\ All(t)[Nth(P, n)] # Null
      BY <1>1, <1>2, <1>3, <3>2
    <3>4. QED
      BY <1>1, <3>3 DEF Present
  <2>3. QED
    BY <2>1, <2>2
<1>8. [n \in DOMAIN v |-> v[n].key] = [n \in 1 .. Cardinality(P) |-> call[t][Nth(P, n)]]
  BY <1>4, <1>6
<1>9. QED
  BY <1>7, <1>8 DEF At

\* What a call has found are its hits and the rows of the answer, each key once, when
\* no key is asked for twice and the DAO answers only what it is asked.
LEMMA FoundOnce ==
    ASSUME IInv, NEW t \in Thread,
           Cardinality(Asked(t)) = Len(call[t]),
           Null \notin Range(hits[t]),
           KeysOf(rows[t]) \subseteq Missed(t)
    PROVE  Cardinality(Present(All(t))) = Cardinality(DOMAIN hits[t]) + Len(rows[t])
<1> DEFINE c == call[t]
           P == Present(All(t))
           H == DOMAIN hits[t]
           K == KeysOf(rows[t])
           f == [i \in P |-> c[i]]
           g == [i \in 1 .. Len(rows[t]) |-> rows[t][i].key]
<1>1. /\ c \in Seq(Key) /\ \A i \in DOMAIN c : c[i] \in Asked(t)
      /\ \A k \in Asked(t) : \E i \in DOMAIN c : c[i] = k
  BY ArgumentOfKeys DEF IInv
<1>2. /\ H \subseteq Asked(t) /\ K \subseteq Asked(t) /\ H \intersect K = {}
      /\ IsFiniteSet(H) /\ Cardinality(H) \in Nat
  BY SizeIsNatural DEF IInv, TypeOK, Missed
<1>3. \A i, j \in DOMAIN c : c[i] = c[j] => i = j
  <2>1. Len(c) \in Nat /\ DOMAIN c = 1 .. Len(c)
    BY <1>1
  <2>2. IsFiniteSet(1 .. Len(c)) /\ Cardinality(1 .. Len(c)) = Cardinality(Asked(t))
    BY <2>1, IntervalSize
  <2>3. c \in Surjection(1 .. Len(c), Asked(t))
    BY <1>1, <2>1 DEF Surjection
  <2>4. c \in Injection(1 .. Len(c), Asked(t))
    BY <2>2, <2>3, FS_SurjSameCardinalityImpliesInj
  <2>5. QED
    BY <2>1, <2>4 DEF Injection, IsInjective
<1>4. P \in SUBSET (DOMAIN c) /\ \A i \in DOMAIN c : i \in P <=> ValueOf(t, c[i]) # Null
  BY DEF Present, All
<1>5. \A k \in Asked(t) : ValueOf(t, k) # Null <=> k \in H \union K
  <2> TAKE k \in Asked(t)
  <2>1. CASE k \in H
    BY <2>1 DEF ValueOf, Range
  <2>2. CASE k \notin H /\ k \in DOMAIN unmatch[t]
    BY <2>2 DEF ValueOf, IInv, WrittenAsAnswered
  <2>3. CASE k \notin H /\ k \notin DOMAIN unmatch[t]
    BY <2>3 DEF ValueOf, IInv, WrittenAsAnswered
  <2>4. QED
    BY <2>1, <2>2, <2>3
<1>6. f \in Bijection(P, H \union K)
  <2>1. f \in Injection(P, H \union K)
    BY <1>1, <1>3, <1>4, <1>5 DEF Injection, IsInjective
  <2>2. \A k \in H \union K : \E i \in P : f[i] = k
    BY <1>1, <1>2, <1>4, <1>5
  <2>3. QED
    BY <2>1, <2>2 DEF Bijection, Injection, Surjection
<1>7. Len(rows[t]) \in Nat /\ DOMAIN rows[t] = 1 .. Len(rows[t])
  BY DEF IInv, TypeOK
<1>8. g \in Bijection(1 .. Len(rows[t]), K)
  <2>1. g \in Injection(1 .. Len(rows[t]), K)
    BY <1>7 DEF Injection, IsInjective, IInv, WrittenAsAnswered, KeysOf
  <2>2. \A k \in K : \E i \in 1 .. Len(rows[t]) : g[i] = k
    BY <1>7 DEF KeysOf
  <2>3. QED
    BY <2>1, <2>2 DEF Bijection, Injection, Surjection
<1>9. IsFiniteSet(K) /\ Cardinality(K) = Len(rows[t])
  <2>1. IsFiniteSet(1 .. Len(rows[t])) /\ Cardinality(1 .. Len(rows[t])) = Len(rows[t])
    BY <1>7, IntervalSize
  <2>2. QED
    BY <1>8, <2>1, FS_Bijection DEF ExistsBijection
<1>10. Cardinality(H \union K) = Cardinality(H) + Len(rows[t])
  <2>1. Cardinality(H \union K) = Cardinality(H) + Cardinality(K) - Cardinality(H \intersect K)
    BY <1>2, <1>9, FS_Union
  <2>2. Cardinality(H \intersect K) = 0
    BY <1>2, FS_EmptySet
  <2>3. QED
    BY <1>2, <1>7, <1>9, <2>1, <2>2
<1>11. IsFiniteSet(P)
  <2>1. Len(c) \in Nat /\ DOMAIN c = 1 .. Len(c)
    BY <1>1
  <2>2. QED
    BY <1>4, <2>1, IntervalSize, FS_Subset
<1>12. Cardinality(H \union K) = Cardinality(P)
  BY <1>6, <1>11, FS_Bijection DEF ExistsBijection
<1>13. QED
  BY <1>10, <1>12

\* Whatever threads, updates and lost entries do, rows, hits and results stay what they
\* are taken for: nothing absent counts as found, no null among a DAO's rows.
THEOREM TypeCorrect == Spec => []TypeOK
<1>1. IInv => TypeOK
  BY DEF IInv
<1>2. QED
  BY InvariantHolds, <1>1, PTL

\* Whoever writes data that is not the database's was behind when it did, or a delete
\* is about to take the key away (MagicHandler.java:309).
THEOREM StaleOnlyLate == Spec => []StaleIsLate
<1>1. IInv => StaleIsLate
  BY DEF IInv
<1>2. QED
  BY InvariantHolds, <1>1, PTL

\* Results are matched with the argument by key, position by position, whatever the
\* order of the DAO's answer (MagicHandler.java:366).
THEOREM Matched == Spec => []MatchedToTheCall
<1>1. ASSUME IInv PROVE MatchedToTheCall
  <2> SUFFICES ASSUME NEW t \in Thread, phase[t] = "done", call[t] # << >>
               PROVE  LET values == At(result[t], Present(result[t]))
                      IN  /\ [i \in DOMAIN values |-> values[i].key] =
                                At(call[t], {i \in DOMAIN call[t] : call[t][i] \in KeysOf(values)})
                          /\ t \in ReturnsNull =>
                               /\ Len(result[t]) = Len(call[t])
                               /\ \A i \in DOMAIN result[t] :
                                    result[t][i] \in {Null} \union
                                      [key : {call[t][i]}, version : 0 .. MaxUpdates]
    BY DEF MatchedToTheCall
  <2>1. /\ At(result[t], Present(result[t])) = At(All(t), Present(All(t)))
        /\ t \in ReturnsNull => result[t] = All(t)
    BY <1>1, ResultInOrder
  <2>2. ASSUME t \in ReturnsNull, NEW i \in DOMAIN result[t]
        PROVE  result[t][i] \in Own(call[t][i])
    <3>1. i \in DOMAIN call[t] /\ result[t][i] = ValueOf(t, call[t][i])
      BY <2>1, <2>2 DEF All
    <3>2. QED
      BY <1>1, <3>1, ArgumentOfKeys, ValueIsOwn DEF IInv
  <2>3. t \in ReturnsNull => Len(result[t]) = Len(call[t])
    BY <1>1, <2>1, ValuesInOrder DEF IInv
  <2>4. QED
    BY <1>1, <2>1, <2>2, <2>3, KeysInOrder DEF Own
<1>2. QED
  BY InvariantHolds, <1>1, PTL

\* An array fits what is put into it, and is filled by it, unless a key was asked for
\* twice, a null was hit or the DAO answered what it was not asked
\* (MagicHandler.java:345).
THEOREM Fits == Spec => []ArraysFit
<1>1. ASSUME IInv PROVE ArraysFit
  <2> SUFFICES ASSUME NEW t \in ReturnsArray \ ReturnsNull, t \in Thread,
                      phase[t] \in {"done", "overflow"},
                      Cardinality(Asked(t)) = Len(call[t]),
                      Null \notin Range(hits[t]),
                      KeysOf(rows[t]) \subseteq Missed(t) \/ call[t] = << >>
               PROVE  phase[t] = "done" /\ Null \notin Range(result[t])
    BY ThreadAssumption DEF ArraysFit
  <2> DEFINE P == Present(All(t))
  <2>1. /\ All(t) \in Seq(Data) /\ Len(All(t)) = Len(call[t])
        /\ Values(t) = At(All(t), P) /\ Values(t) \in Seq(Data) /\ ResSize(t) \in Nat
    BY <1>1, ValuesInOrder, SizeIsNatural DEF IInv
  <2>2. /\ Cardinality(P) \in Nat /\ Cardinality(P) <= Len(call[t])
        /\ Len(Values(t)) = Cardinality(P)
        /\ \A i \in DOMAIN Values(t) : Values(t)[i] # Null
    <3>1. P \in SUBSET (DOMAIN All(t)) /\ \A i \in P : All(t)[i] # Null
      BY DEF Present
    <3>2. /\ Cardinality(P) \in Nat /\ Cardinality(P) <= Len(All(t))
          /\ Len(Values(t)) = Cardinality(P)
          /\ \A n \in 1 .. Cardinality(P) : Nth(P, n) \in P /\ Values(t)[n] = All(t)[Nth(P, n)]
      BY <2>1, <3>1, Collected
    <3>3. DOMAIN Values(t) = 1 .. Cardinality(P)
      BY <2>1, <3>2
    <3>4. QED
      BY <2>1, <3>1, <3>2, <3>3
  <2>3. CASE call[t] = << >>
    <3>1. ~Overflows(t)
      BY <2>1, <2>2, <2>3 DEF Overflows
    <3>2. phase[t] = "done" /\ result[t] = rows[t]
      BY <1>1, <2>3, <3>1 DEF IInv, ReturnedAsBuilt, ReturnObject
    <3>3. rows[t] \in Seq(Row)
      BY <1>1 DEF IInv, TypeOK
    <3>4. QED
      BY <3>2, <3>3, NullAssumption DEF Range
  <2>4. CASE call[t] # << >>
    <3>1. Len(Values(t)) = ResSize(t)
      BY <1>1, <2>2, <2>4, FoundOnce DEF ResSize
    <3>2. ~Overflows(t)
      BY <2>1, <3>1 DEF Overflows
    <3>3. phase[t] = "done" /\ result[t] = Filled(Values(t), Len(Values(t)))
      BY <1>1, <2>4, <3>1, <3>2 DEF IInv, ReturnedAsBuilt, ReturnObject
    <3>4. result[t] = Values(t)
      BY <2>1, <3>3, FilledUp
    <3>5. QED
      BY <2>2, <3>3, <3>4 DEF Range
  <2>5. QED
    BY <2>3, <2>4
<1>2. QED
  BY InvariantHolds, <1>1, PTL

-----------------------------------------------------------------------------
(* The keys without a row *)

\* A call whose DAO answered only what it was asked has a row or a null to write for
\* every key that missed.
MissesAnswered ==
    \A t \in Thread :
        phase[t] \in {"put", "done", "overflow"} /\ KeysOf(rows[t]) \subseteq Missed(t) =>
            Missed(t) \subseteq DOMAIN unmatch[t]

\* As many rows as keys were missed are the rows of these keys; when there are fewer,
\* nulls stand for the rest.
LEMMA NoMissLeft ==
    ASSUME TypeOK, NEW t \in Thread, NEW answer, KeysOf(answer) \subseteq Missed(t)
    PROVE  Missed(t) \subseteq DOMAIN Unmatched(t, answer)
<1> DEFINE found == KeysOf(answer)
<1>1. IsFiniteSet(Missed(t))
  BY KeysAssumption, ArgumentOfKeys, FS_Subset DEF Missed
<1>2. /\ Cardinality(found) \in Nat /\ Cardinality(Missed(t)) \in Nat
      /\ Cardinality(found) <= Cardinality(Missed(t))
      /\ Cardinality(Missed(t)) = Cardinality(found) => Missed(t) = found
  <2>1. found \in SUBSET Missed(t)
    OBVIOUS
  <2>2. IsFiniteSet(found)
    BY <1>1, <2>1, FS_Subset
  <2>3. QED
    BY <1>1, <2>1, <2>2, FS_Subset, FS_CardinalityType
<1>3. CASE Cardinality(found) < Cardinality(Missed(t))
  BY <1>3 DEF Unmatched
<1>4. CASE Missed(t) = found
  BY <1>4 DEF Unmatched
<1>5. QED
  BY <1>2, <1>3, <1>4

\* Missing data are answered for, row or null: this is what later calls find instead of
\* the DAO (MagicHandler.java:294-307), unless the answer has strangers' rows or a
\* write fails.
THEOREM MissesAreAnswered == Spec => []MissesAnswered
<1>1. Init => MissesAnswered
  BY DEF Init, MissesAnswered
<1>2. TypeOK /\ MissesAnswered /\ [Next]_vars => MissesAnswered'
  <2> SUFFICES ASSUME TypeOK, MissesAnswered, [Next]_vars PROVE MissesAnswered'
    OBVIOUS
  <2> DEFINE Same(t) == UNCHANGED <<call[t], hits[t], rows[t], unmatch[t]>>
  <2>0. ASSUME \A t \in Thread :
                  \/ phase'[t] \in {"idle", "get"}
                  \/ Same(t) /\ phase[t] \in {"put", "done", "overflow"}
                  \/ KeysOf(rows[t])' \subseteq Missed(t)' => Missed(t)' \subseteq DOMAIN unmatch'[t]
        PROVE  MissesAnswered'
    BY <2>0 DEF MissesAnswered, KeysOf, Missed, Asked
  <2>1. ASSUME UNCHANGED <<phase, call, hits, rows, unmatch>> PROVE MissesAnswered'
    BY <2>1 DEF MissesAnswered, Missed, Asked
  <2>2. ASSUME NEW t \in Thread, NEW c \in Calls, Call(t, c) PROVE MissesAnswered'
    BY <2>0, <2>2 DEF Call, TypeOK
  <2>3. ASSUME NEW t \in Thread, NEW k \in Key, Get(t, k) PROVE MissesAnswered'
    BY <2>0, <2>3 DEF Get, TypeOK
  <2>4. ASSUME NEW t \in Thread, LoadData(t) PROVE MissesAnswered'
    <3>1. PICK answer :
            /\ rows' = [rows EXCEPT ![t] = answer]
            /\ unmatch' = [unmatch EXCEPT ![t] = Unmatched(t, answer)]
      BY <2>4 DEF LoadData
    <3>2. rows'[t] = answer /\ unmatch'[t] = Unmatched(t, answer)
      BY <3>1 DEF TypeOK
    <3>3. Missed(t)' = Missed(t)
      BY <2>4 DEF LoadData, Missed, Asked
    <3>4. KeysOf(rows[t])' = KeysOf(answer)
      BY <3>2 DEF KeysOf
    <3>5. KeysOf(rows[t])' \subseteq Missed(t)' => Missed(t)' \subseteq DOMAIN unmatch'[t]
      BY <3>2, <3>3, <3>4, NoMissLeft
    <3>6. \A u \in Thread \ {t} : Same(u) /\ phase'[u] = phase[u]
      BY <2>4, <3>1 DEF LoadData, TypeOK
    <3>7. QED
      BY <2>0, <3>5, <3>6 DEF TypeOK
  <2>5. ASSUME NEW t \in Thread, ConvertToReturnObject(t) PROVE MissesAnswered'
    BY <2>0, <2>5 DEF ConvertToReturnObject, TypeOK
  <2>6. ASSUME NEW t \in Thread, Return(t) \/ Throw(t) PROVE MissesAnswered'
    BY <2>0, <2>6 DEF Return, Throw, Forget, TypeOK
  <2>7. ASSUME NEW t \in Thread, PutBreaks(t) \/ \E k \in Key : Put(t, k) PROVE MissesAnswered'
    BY <2>1, <2>7 DEF PutBreaks, Put
  <2>8. ASSUME \/ \E keys \in SUBSET Key : Update(keys)
               \/ \E k \in Key : Delete(k) \/ Lose(k)
        PROVE  MissesAnswered'
    BY <2>1, <2>8 DEF Update, Delete, Lose, threadVars
  <2>9. CASE UNCHANGED vars
    BY <2>1, <2>9 DEF vars
  <2>10. QED
    BY <2>2, <2>3, <2>4, <2>5, <2>6, <2>7, <2>8, <2>9 DEF Next
<1>3. QED
  BY <1>1, <1>2, TypeCorrect, PTL DEF Spec
=============================================================================

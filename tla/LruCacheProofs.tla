--------------------------- MODULE LruCacheProofs ----------------------------
(***************************************************************************)
(* Proofs about LruCache: its two maps index one another and stay within   *)
(* the capacity, and the generation-indexed code implements LruSpec.       *)
(***************************************************************************)
EXTENDS LruCache, Integers, FiniteSetTheorems, WellFoundedInduction, TLAPS

LruTypeOK ==
  /\ DOMAIN map \subseteq Hashes
  /\ map \in [DOMAIN map -> [entry : Entries, gen : Nat]]
  /\ DOMAIN recency \subseteq Nat
  /\ recency \in [DOMAIN recency -> Hashes]
  /\ next_gen \in Nat
  /\ capacity \in Nat

\* The inductive invariant: types, agreement of the two maps, and the bound.
LruInv == LruTypeOK /\ IndexAgrees /\ WithinCapacity

\* Every nonempty set of generations has a lowest one, so the eviction loop of
\* Lru::put finds its victim.
LEMMA LowestGeneration ==
  ASSUME NEW T \in SUBSET Nat, T # {}
  PROVE  \E x \in T : \A y \in T : x <= y
<1> DEFINE R == {ss \in Nat \X Nat : ss[1] < ss[2]}
<1>1. IsWellFoundedOn(R, Nat)
  BY NatLessThanWellFounded, Zenon DEF OpToRel
<1>2. \A x, y \in Nat : y < x => <<y, x>> \in R
  OBVIOUS
<1> HIDE DEF R
<1>3. PICK x \in T : \A y \in T : ~ (<<y, x>> \in R)
  BY <1>1, WFMin, Zenon
<1>4. \A y \in T : ~ (y < x)
  BY <1>2, <1>3
<1>5. QED
  BY <1>4

------------------------------------------------------------------------------
LEMMA InitInv == Init => LruInv
<1> SUFFICES ASSUME Init PROVE LruInv
  OBVIOUS
<1> USE CapacitiesAssumption DEF Init
<1>1. DOMAIN map = {} /\ DOMAIN recency = {}
  OBVIOUS
<1>2. LruTypeOK
  BY <1>1 DEF LruTypeOK
<1>3. IndexAgrees
  BY <1>1 DEF IndexAgrees
<1>4. WithinCapacity
  BY <1>1, FS_EmptySet DEF WithinCapacity
<1>5. QED
  BY <1>2, <1>3, <1>4 DEF LruInv

\* Restamping a key moves it from its old generation to the next one.
LEMMA RestampedFacts ==
  ASSUME LruInv, NEW k \in Hashes
  PROVE  LET old == {map[j].gen : j \in DOMAIN map \cap {k}}
         IN  /\ DOMAIN Restamped(k) = (DOMAIN recency \ old) \cup {next_gen}
             /\ Restamped(k)[next_gen] = k
             /\ \A g \in DOMAIN recency \ old : Restamped(k)[g] = recency[g]
             /\ Restamped(k) \in [DOMAIN Restamped(k) -> Hashes]
             /\ DOMAIN Restamped(k) \subseteq 0..next_gen
<1> DEFINE old == {map[j].gen : j \in DOMAIN map \cap {k}}
           freed == Dropping(recency, old)
<1>1. /\ DOMAIN freed = DOMAIN recency \ old
      /\ \A g \in DOMAIN freed : freed[g] = recency[g]
  BY DEF Dropping, Restrict
<1>2. Restamped(k) = With(freed, next_gen, k)
  BY DEF Restamped
<1> HIDE DEF freed, old
<1>3. next_gen \notin DOMAIN recency /\ DOMAIN recency \subseteq 0..(next_gen - 1)
  BY DEF LruInv, LruTypeOK, IndexAgrees
<1>4. \A g \in DOMAIN freed : g # next_gen /\ freed[g] \in Hashes
  BY <1>1, <1>3 DEF LruInv, LruTypeOK
<1>5. /\ DOMAIN Restamped(k) = (DOMAIN recency \ old) \cup {next_gen}
      /\ Restamped(k)[next_gen] = k
      /\ \A g \in DOMAIN freed : Restamped(k)[g] = freed[g]
      /\ Restamped(k) \in [DOMAIN Restamped(k) -> Hashes]
  BY <1>1, <1>2, <1>4 DEF With
<1>6. DOMAIN Restamped(k) \subseteq 0..next_gen
  BY <1>3, <1>5 DEF LruInv, LruTypeOK
<1>7. QED
  BY <1>1, <1>5, <1>6 DEF old

\* A hit keeps the set of keys and replaces the generation of one of them.
LEMMA GetHitInv ==
  ASSUME LruInv, NEW k \in Hashes, GetHit(k)
  PROVE  LruInv'
<1> USE DEF LruInv
<1>1. /\ recency' = Restamped(k) /\ next_gen' = next_gen + 1
      /\ capacity' = capacity /\ k \in DOMAIN map
  BY DEF GetHit
<1>2. /\ DOMAIN recency' = (DOMAIN recency \ {map[k].gen}) \cup {next_gen}
      /\ recency'[next_gen] = k
      /\ \A g \in DOMAIN recency \ {map[k].gen} : recency'[g] = recency[g]
      /\ recency' \in [DOMAIN recency' -> Hashes]
      /\ DOMAIN recency' \subseteq 0..next_gen
  BY <1>1, RestampedFacts
<1>3. /\ DOMAIN map' = DOMAIN map
      /\ map' \in [DOMAIN map -> [entry : Entries, gen : Nat]]
      /\ map'[k].gen = next_gen
      /\ \A j \in DOMAIN map : j # k => map'[j] = map[j]
  BY DEF GetHit, LruTypeOK
<1>4. LruTypeOK'
  BY <1>1, <1>2, <1>3 DEF LruTypeOK
<1>5. IndexAgrees'
  <2>1. \A j \in DOMAIN map' : map'[j].gen \in DOMAIN recency' /\ recency'[map'[j].gen] = j
    BY <1>1, <1>2, <1>3 DEF IndexAgrees, LruTypeOK
  <2>2. \A g \in DOMAIN recency' : recency'[g] \in DOMAIN map' /\ map'[recency'[g]].gen = g
    BY <1>1, <1>2, <1>3 DEF IndexAgrees, LruTypeOK
  <2>3. \A g \in DOMAIN recency' : g < next_gen'
    BY <1>1, <1>2 DEF LruTypeOK
  <2>4. QED
    BY <2>1, <2>2, <2>3 DEF IndexAgrees
<1>6. WithinCapacity'
  BY <1>1, <1>3 DEF WithinCapacity
<1>7. QED
  BY <1>4, <1>5, <1>6

\* After the insertion of put and before its eviction, the two maps agree and
\* hold at most one key too many.
StoredAgrees(k, e, m, r) ==
  /\ DOMAIN m = DOMAIN map \cup {k}
  /\ m \in [DOMAIN m -> [entry : Entries, gen : Nat]]
  /\ m[k] = [entry |-> e, gen |-> next_gen]
  /\ \A j \in DOMAIN map \ {k} : m[j] = map[j]
  /\ \A j \in DOMAIN m : m[j].gen \in DOMAIN r /\ r[m[j].gen] = j
  /\ \A g \in DOMAIN r : r[g] \in DOMAIN m /\ m[r[g]].gen = g
  /\ IsFiniteSet(DOMAIN m)
  /\ Cardinality(DOMAIN m) \in 0..(capacity + 1)

LEMMA StoredFacts ==
  ASSUME LruInv, NEW k \in Hashes, NEW e \in Entries
  PROVE  StoredAgrees(k, e, Stored(k, e), Restamped(k))
<1> DEFINE m == Stored(k, e)
           r == Restamped(k)
           old == {map[j].gen : j \in DOMAIN map \cap {k}}
<1> USE DEF LruInv
<1>1. /\ DOMAIN m = DOMAIN map \cup {k}
      /\ m \in [DOMAIN m -> [entry : Entries, gen : Nat]]
      /\ m[k] = [entry |-> e, gen |-> next_gen]
      /\ \A j \in DOMAIN map \ {k} : m[j] = map[j]
  BY DEF Stored, With, LruTypeOK
<1>2. /\ DOMAIN r = (DOMAIN recency \ old) \cup {next_gen}
      /\ r[next_gen] = k
      /\ \A g \in DOMAIN recency \ old : r[g] = recency[g]
  BY RestampedFacts
<1>3. /\ IsFiniteSet(DOMAIN m)
      /\ Cardinality(DOMAIN m) \in 0..(capacity + 1)
  <2>1. IsFiniteSet(DOMAIN map) /\ Cardinality(DOMAIN map) <= capacity
    BY DEF WithinCapacity
  <2>2. Cardinality(DOMAIN map) \in Nat
    BY <2>1, FS_CardinalityType
  <2>3. /\ IsFiniteSet(DOMAIN map \cup {k})
        /\ \/ Cardinality(DOMAIN map \cup {k}) = Cardinality(DOMAIN map)
           \/ Cardinality(DOMAIN map \cup {k}) = Cardinality(DOMAIN map) + 1
    BY <2>1, FS_AddElement
  <2>4. QED
    BY <1>1, <2>1, <2>2, <2>3 DEF LruTypeOK
<1> HIDE DEF m, r
<1>4. \A j \in DOMAIN m : m[j].gen \in DOMAIN r /\ r[m[j].gen] = j
  <2> SUFFICES ASSUME NEW j \in DOMAIN m
               PROVE  m[j].gen \in DOMAIN r /\ r[m[j].gen] = j
    OBVIOUS
  <2>1. CASE j = k
    BY <1>1, <1>2, <2>1
  <2>2. CASE j # k
    <3>1. m[j] = map[j] /\ map[j].gen \in DOMAIN recency /\ recency[map[j].gen] = j
      BY <1>1, <2>2 DEF IndexAgrees
    <3>2. map[j].gen \notin old
      BY <1>1, <2>2, <3>1 DEF IndexAgrees
    <3>3. QED
      BY <1>2, <3>1, <3>2
  <2>3. QED
    BY <2>1, <2>2
<1>5. \A g \in DOMAIN r : r[g] \in DOMAIN m /\ m[r[g]].gen = g
  <2> SUFFICES ASSUME NEW g \in DOMAIN r
               PROVE  r[g] \in DOMAIN m /\ m[r[g]].gen = g
    OBVIOUS
  <2>1. CASE g = next_gen
    BY <1>1, <1>2, <2>1
  <2>2. CASE g # next_gen
    <3>1. /\ g \in DOMAIN recency \ old /\ r[g] = recency[g]
          /\ recency[g] \in DOMAIN map /\ map[recency[g]].gen = g
      BY <1>2, <2>2 DEF IndexAgrees
    <3>2. recency[g] # k
      BY <3>1
    <3>3. QED
      BY <1>1, <3>1, <3>2
  <2>3. QED
    BY <2>1, <2>2
<1>6. QED
  BY <1>1, <1>3, <1>4, <1>5 DEF m, r, StoredAgrees

\* The eviction loop has a victim: the generation no other is below.
LEMMA VictimFacts ==
  ASSUME LruInv, NEW k \in Hashes
  PROVE  LET r == Restamped(k)
             v == CHOOSE g \in DOMAIN r : \A h \in DOMAIN r : g <= h
         IN  v \in DOMAIN r /\ \A h \in DOMAIN r : v <= h
<1> DEFINE r == Restamped(k)
<1>1. DOMAIN r \subseteq 0..next_gen /\ next_gen \in DOMAIN r
  BY RestampedFacts
<1>2. DOMAIN r \in SUBSET Nat /\ DOMAIN r # {}
  BY <1>1 DEF LruInv, LruTypeOK
<1> HIDE DEF r
<1>3. \E g \in DOMAIN r : \A h \in DOMAIN r : g <= h
  BY <1>2, LowestGeneration
<1>4. QED
  BY <1>3 DEF r

\* An insertion evicts at most one key, from both maps, and that is enough.
LEMMA PutInv ==
  ASSUME LruInv, NEW k \in Hashes, NEW e \in Entries, PutEnabled(k, e)
  PROVE  LruInv'
<1> DEFINE m == Stored(k, e)
           r == Restamped(k)
           v == CHOOSE g \in DOMAIN r : \A h \in DOMAIN r : g <= h
<1>1. /\ DOMAIN m = DOMAIN map \cup {k}
      /\ m \in [DOMAIN m -> [entry : Entries, gen : Nat]]
      /\ \A j \in DOMAIN m : m[j].gen \in DOMAIN r /\ r[m[j].gen] = j
      /\ \A g \in DOMAIN r : r[g] \in DOMAIN m /\ m[r[g]].gen = g
      /\ IsFiniteSet(DOMAIN m)
      /\ Cardinality(DOMAIN m) \in 0..(capacity + 1)
  <2>1. StoredAgrees(k, e, m, r)
    BY StoredFacts
  <2>2. QED
    BY <2>1 DEF StoredAgrees
<1>2. /\ r \in [DOMAIN r -> Hashes]
      /\ DOMAIN r \subseteq 0..next_gen
  BY RestampedFacts
<1>3. v \in DOMAIN r
  BY VictimFacts
<1>4. /\ map' = Dropping(m, {r[g] : g \in Evicted(m, r)})
      /\ recency' = Dropping(r, Evicted(m, r))
      /\ next_gen' = next_gen + 1 /\ capacity' = capacity
  BY DEF PutEnabled
<1>5. next_gen \in Nat /\ capacity \in Nat /\ DOMAIN map \subseteq Hashes
  BY DEF LruInv, LruTypeOK
<1> HIDE DEF m, r
<1>6. /\ Cardinality(DOMAIN m) > capacity => Evicted(m, r) = {v}
      /\ Cardinality(DOMAIN m) <= capacity => Evicted(m, r) = {}
  BY <1>1, <1>5 DEF Evicted
<1> HIDE DEF v
<1> DEFINE out == Evicted(m, r)
           gone == {r[g] : g \in out}
<1>7. out \subseteq DOMAIN r
  BY <1>1, <1>3, <1>5, <1>6
<1> HIDE DEF out
<1>8. /\ DOMAIN map' = DOMAIN m \ gone
      /\ \A j \in DOMAIN map' : map'[j] = m[j]
      /\ map' \in [DOMAIN map' -> [entry : Entries, gen : Nat]]
  BY <1>1, <1>4 DEF Dropping, Restrict, out
<1>9. /\ DOMAIN recency' = DOMAIN r \ out
      /\ \A g \in DOMAIN recency' : recency'[g] = r[g]
      /\ recency' \in [DOMAIN recency' -> Hashes]
  BY <1>2, <1>4 DEF Dropping, Restrict, out
<1>10. LruTypeOK'
  <2> HIDE DEF gone
  <2>1. DOMAIN map' \subseteq Hashes
    BY <1>1, <1>5, <1>8
  <2>2. DOMAIN recency' \subseteq Nat
    BY <1>2, <1>5, <1>9
  <2>3. next_gen' \in Nat /\ capacity' \in Nat
    BY <1>4, <1>5
  <2>4. QED
    BY <1>8, <1>9, <2>1, <2>2, <2>3 DEF LruTypeOK
<1>11. IndexAgrees'
  <2>1. \A j \in DOMAIN map' : map'[j].gen \in DOMAIN recency' /\ recency'[map'[j].gen] = j
    BY <1>1, <1>8, <1>9
  <2>2. \A g \in DOMAIN recency' : recency'[g] \in DOMAIN map' /\ map'[recency'[g]].gen = g
    BY <1>1, <1>7, <1>8, <1>9
  <2>3. \A g \in DOMAIN recency' : g < next_gen'
    BY <1>2, <1>4, <1>5, <1>9
  <2>4. QED
    BY <2>1, <2>2, <2>3 DEF IndexAgrees
<1>12. WithinCapacity'
  <2>1. CASE Cardinality(DOMAIN m) > capacity
    <3>1. out = {v}
      BY <1>6, <2>1 DEF out
    <3>2. r[v] \in DOMAIN m /\ DOMAIN map' = DOMAIN m \ {r[v]}
      BY <1>1, <1>3, <1>8, <3>1
    <3>3. /\ IsFiniteSet(DOMAIN m \ {r[v]})
          /\ Cardinality(DOMAIN m \ {r[v]}) = Cardinality(DOMAIN m) - 1
      <4>1. IsFiniteSet(DOMAIN m) /\ r[v] \in DOMAIN m
        BY <1>1, <3>2
      <4>2. QED
        BY <4>1, FS_RemoveElement
    <3>4. QED
      BY <1>1, <1>4, <1>5, <3>2, <3>3 DEF WithinCapacity
  <2>2. CASE Cardinality(DOMAIN m) <= capacity
    <3>1. out = {}
      BY <1>6, <2>2 DEF out
    <3>2. DOMAIN map' = DOMAIN m
      BY <1>8, <3>1
    <3>3. QED
      BY <1>1, <1>4, <2>2, <3>2 DEF WithinCapacity
  <2>3. QED
    BY <1>1, <1>5, <2>1, <2>2
<1>13. QED
  BY <1>10, <1>11, <1>12 DEF LruInv

\* A removal takes the key out of both maps.
LEMMA RemoveInv ==
  ASSUME LruInv, NEW k \in Hashes, Remove(k)
  PROVE  LruInv'
<1> DEFINE gens == {map[j].gen : j \in DOMAIN map \cap {k}}
<1> USE DEF LruInv
<1>1. /\ DOMAIN map' = DOMAIN map \ {k}
      /\ \A j \in DOMAIN map' : map'[j] = map[j]
      /\ map' \in [DOMAIN map' -> [entry : Entries, gen : Nat]]
  BY DEF Remove, Dropping, Restrict, LruTypeOK
<1>2. /\ DOMAIN recency' = DOMAIN recency \ gens
      /\ \A g \in DOMAIN recency' : recency'[g] = recency[g]
      /\ recency' \in [DOMAIN recency' -> Hashes]
  BY DEF Remove, Dropping, Restrict, LruTypeOK
<1>3. next_gen' = next_gen /\ capacity' = capacity
  BY DEF Remove
<1>4. LruTypeOK'
  BY <1>1, <1>2, <1>3 DEF LruTypeOK
<1>5. IndexAgrees'
  <2>1. \A j \in DOMAIN map' : map'[j].gen \in DOMAIN recency' /\ recency'[map'[j].gen] = j
    BY <1>1, <1>2 DEF IndexAgrees
  <2>2. \A g \in DOMAIN recency' : recency'[g] \in DOMAIN map' /\ map'[recency'[g]].gen = g
    BY <1>1, <1>2 DEF IndexAgrees
  <2>3. QED
    BY <1>2, <1>3, <2>1, <2>2 DEF IndexAgrees
<1>6. WithinCapacity'
  <2>1. IsFiniteSet(DOMAIN map') /\ Cardinality(DOMAIN map') <= Cardinality(DOMAIN map)
    BY <1>1, FS_Subset DEF WithinCapacity
  <2>2. Cardinality(DOMAIN map') \in Nat /\ Cardinality(DOMAIN map) \in Nat
    BY <2>1, FS_CardinalityType DEF WithinCapacity
  <2>3. QED
    BY <1>3, <2>1, <2>2 DEF WithinCapacity, LruTypeOK
<1>7. QED
  BY <1>4, <1>5, <1>6

LEMMA NextInv == LruInv /\ [Next]_vars => LruInv'
<1> SUFFICES ASSUME LruInv, [Next]_vars PROVE LruInv'
  OBVIOUS
<1>1. CASE UNCHANGED <<map, recency, next_gen, capacity>>
  BY <1>1 DEF LruInv, LruTypeOK, IndexAgrees, WithinCapacity
<1>2. ASSUME NEW k \in Hashes, Get(k) PROVE LruInv'
  BY <1>1, <1>2, GetHitInv DEF Get, GetMiss
<1>3. ASSUME NEW k \in Hashes, Peek(k) PROVE LruInv'
  BY <1>1, <1>3 DEF Peek
<1>4. ASSUME NEW k \in Hashes, NEW e \in Entries, Put(k, e) PROVE LruInv'
  BY <1>1, <1>4, PutInv DEF Put, PutDisabled
<1>5. ASSUME NEW k \in Hashes, Remove(k) PROVE LruInv'
  BY <1>5, RemoveInv
<1>6. CASE UNCHANGED vars
  BY <1>1, <1>6 DEF vars
<1>7. QED
  BY <1>2, <1>3, <1>4, <1>5, <1>6 DEF Next

\* The strengthened invariant holds of every cache the program can build.
THEOREM LruInvariant == Spec => []LruInv
<1>1. QED
  BY InitInv, NextInv, PTL DEF Spec

\* The hash map and the recency map of struct Lru index one another, for any
\* keys and capacity: no promotion or eviction leaves a stale generation.
THEOREM LruIndexCorrect == Spec => []IndexAgrees
<1>1. LruInv => IndexAgrees
  BY DEF LruInv
<1>2. QED
  BY <1>1, LruInvariant, PTL

\* The cache never holds more sessions than its capacity; the eviction loop of
\* Lru::put therefore runs at most once.
THEOREM LruBounded == Spec => []WithinCapacity
<1>1. LruInv => WithinCapacity
  BY DEF LruInv
<1>2. QED
  BY <1>1, LruInvariant, PTL

------------------------------------------------------------------------------
\* The cache a map of stamped entries stands for.
CacheOf(m) ==
  [entry |-> [k \in DOMAIN m |-> m[k].entry],
   older |-> {p \in (DOMAIN m) \X (DOMAIN m) : m[p[1]].gen < m[p[2]].gen}]

LEMMA SameCardinality ==
  ASSUME NEW S
  PROVE  Abstract!Cardinality(S) = Cardinality(S)
BY DEF Abstract!Cardinality, Cardinality

LEMMA SamePairs ==
  ASSUME NEW D, NEW L \in SUBSET (D \X D), NEW R \in SUBSET (D \X D),
         \A a, b \in D : <<a, b>> \in L <=> <<a, b>> \in R
  PROVE  L = R
OBVIOUS

LEMMA PromotedRecord ==
  ASSUME NEW E, NEW O, NEW k
  PROVE  Abstract!Promoted([entry |-> E, older |-> O], k)
           = [entry |-> E, older |-> {p \in O : p[1] # k} \cup ((DOMAIN E \ {k}) \X {k})]
BY DEF Abstract!Promoted, Abstract!Keys

\* Giving k the highest generation is promoting it.
LEMMA PromotedView ==
  ASSUME NEW m, NEW n, NEW k, DOMAIN n = DOMAIN m \cup {k}, n[k].gen \in Nat,
         \A j \in DOMAIN m \ {k} :
           n[j].gen = m[j].gen /\ n[j].gen \in Nat /\ n[j].gen < n[k].gen
  PROVE  Abstract!Promoted([entry |-> CacheOf(n).entry, older |-> CacheOf(m).older], k)
           = CacheOf(n)
<1> DEFINE D == DOMAIN n
           L == {p \in CacheOf(m).older : p[1] # k} \cup ((D \ {k}) \X {k})
           R == CacheOf(n).older
<1>1. L \in SUBSET (D \X D) /\ R \in SUBSET (D \X D)
  BY DEF CacheOf
<1>2. ASSUME NEW a \in D, NEW b \in D
      PROVE  <<a, b>> \in L <=> <<a, b>> \in R
  <2>1. <<a, b>> \in R <=> n[a].gen < n[b].gen
    BY DEF CacheOf
  <2>2. CASE a = k
    BY <2>1, <2>2
  <2>3. CASE a # k /\ b = k
    BY <2>1, <2>3
  <2>4. CASE a # k /\ b # k
    BY <2>1, <2>4 DEF CacheOf
  <2>5. QED
    BY <2>2, <2>3, <2>4
<1>3. L = R
  <2> HIDE DEF L, R, D
  <2>1. QED
    BY <1>1, <1>2, SamePairs
<1>4. CacheOf(n).entry = [j \in D |-> n[j].entry]
  BY DEF CacheOf
<1>5. Abstract!Promoted([entry |-> CacheOf(n).entry, older |-> CacheOf(m).older], k)
        = [entry |-> CacheOf(n).entry, older |-> L]
  <2>1. DOMAIN CacheOf(n).entry = D
    BY <1>4
  <2>2. QED
    BY <2>1, PromotedRecord
<1>6. CacheOf(n) = [entry |-> CacheOf(n).entry, older |-> R]
  BY DEF CacheOf
<1>7. QED
  BY <1>3, <1>5, <1>6

\* Dropping a key is forgetting it.
LEMMA WithoutView ==
  ASSUME NEW m, NEW k
  PROVE  Abstract!Without(CacheOf(m), k) = CacheOf(Dropping(m, {k}))
<1> DEFINE n == Dropping(m, {k})
           D == DOMAIN m \ {k}
           L == {p \in CacheOf(m).older : p[1] # k /\ p[2] # k}
           R == CacheOf(n).older
<1>1. DOMAIN n = D /\ \A j \in D : n[j] = m[j]
  BY DEF Dropping, Restrict
<1> HIDE DEF n
<1>2. L \in SUBSET (D \X D) /\ R \in SUBSET (D \X D)
  BY <1>1 DEF CacheOf
<1>3. \A a, b \in D : <<a, b>> \in L <=> <<a, b>> \in R
  BY <1>1 DEF CacheOf
<1>4. L = R
  <2> HIDE DEF L, R, D
  <2>1. QED
    BY <1>2, <1>3, SamePairs
<1>5. [j \in D |-> CacheOf(m).entry[j]] = CacheOf(n).entry
  BY <1>1 DEF CacheOf
<1>6. Abstract!Without(CacheOf(m), k) = [entry |-> [j \in D |-> CacheOf(m).entry[j]], older |-> L]
  BY DEF Abstract!Without, Abstract!Keys, Abstract!Restrict, CacheOf
<1>7. CacheOf(n) = [entry |-> CacheOf(n).entry, older |-> R]
  BY DEF CacheOf
<1>8. QED
  BY <1>4, <1>5, <1>6, <1>7 DEF n

\* The key with the lowest generation is the least recently used one.
LEMMA LeastRecentView ==
  ASSUME NEW m, NEW w \in DOMAIN m, \A j \in DOMAIN m : m[j].gen \in Nat,
         \A j \in DOMAIN m \ {w} : m[w].gen < m[j].gen
  PROVE  Abstract!LeastRecent(CacheOf(m)) = w
<1>1. \A a, b \in DOMAIN m : <<a, b>> \in CacheOf(m).older <=> m[a].gen < m[b].gen
  BY DEF CacheOf
<1>2. Abstract!Keys(CacheOf(m)) = DOMAIN m
  BY DEF Abstract!Keys, CacheOf
<1>3. \A k \in DOMAIN m : (\A j \in DOMAIN m \ {k} : <<k, j>> \in CacheOf(m).older) <=> k = w
  <2> SUFFICES ASSUME NEW k \in DOMAIN m
               PROVE  (\A j \in DOMAIN m \ {k} : <<k, j>> \in CacheOf(m).older) <=> k = w
    OBVIOUS
  <2>1. CASE k = w
    BY <1>1, <2>1
  <2>2. CASE k # w
    <3>1. ~ (<<k, w>> \in CacheOf(m).older)
      BY <1>1, <2>2
    <3>2. QED
      BY <2>2, <3>1
  <2>3. QED
    BY <2>1, <2>2
<1>4. QED
  BY <1>2, <1>3 DEF Abstract!LeastRecent

\* A lookup that hits, an insertion and a removal, seen so.
LEMMA HitView ==
  ASSUME LruInv, NEW k \in Hashes, GetHit(k)
  PROVE  CacheOf(map') = Abstract!Promoted(CacheOf(map), k)
<1>1. /\ k \in DOMAIN map /\ DOMAIN map' = DOMAIN map
      /\ map'[k].gen = next_gen /\ map'[k].entry = map[k].entry
      /\ \A j \in DOMAIN map \ {k} : map'[j] = map[j]
  BY DEF GetHit, LruInv, LruTypeOK
<1>2. next_gen \in Nat /\ \A j \in DOMAIN map : map[j].gen \in Nat /\ map[j].gen < next_gen
  BY DEF LruInv, LruTypeOK, IndexAgrees
<1>3. CacheOf(map').entry = CacheOf(map).entry
  BY <1>1 DEF CacheOf
<1>4. PICK m, n : m = map /\ n = map'
  OBVIOUS
<1>5. Abstract!Promoted([entry |-> CacheOf(n).entry, older |-> CacheOf(m).older], k) = CacheOf(n)
  BY <1>1, <1>2, <1>4, PromotedView
<1>6. CacheOf(m) = [entry |-> CacheOf(m).entry, older |-> CacheOf(m).older]
  BY DEF CacheOf
<1>7. QED
  BY <1>3, <1>4, <1>5, <1>6

LEMMA StoredView ==
  ASSUME LruInv, NEW k \in Hashes, NEW e \in Entries
  PROVE  Abstract!Stored(CacheOf(map), k, e) = CacheOf(Stored(k, e))
<1> DEFINE E == [j \in DOMAIN map \cup {k} |-> IF j = k THEN e ELSE CacheOf(map).entry[j]]
<1>1. PICK m, n : m = map /\ n = Stored(k, e)
  OBVIOUS
<1>2. /\ DOMAIN n = DOMAIN m \cup {k} /\ n[k] = [entry |-> e, gen |-> next_gen]
      /\ \A j \in DOMAIN m \ {k} : n[j] = m[j]
  <2>1. StoredAgrees(k, e, Stored(k, e), Restamped(k))
    BY StoredFacts
  <2>2. QED
    BY <1>1, <2>1 DEF StoredAgrees
<1>3. next_gen \in Nat /\ \A j \in DOMAIN m : m[j].gen \in Nat /\ m[j].gen < next_gen
  BY <1>1 DEF LruInv, LruTypeOK, IndexAgrees
<1>4. CacheOf(n).entry = E
  BY <1>1, <1>2 DEF CacheOf
<1>5. Abstract!Promoted([entry |-> CacheOf(n).entry, older |-> CacheOf(m).older], k) = CacheOf(n)
  BY <1>2, <1>3, PromotedView
<1>6. Abstract!Stored(CacheOf(map), k, e)
        = Abstract!Promoted([CacheOf(map) EXCEPT !.entry = E], k)
  BY DEF Abstract!Stored, Abstract!Keys, CacheOf
<1>7. [CacheOf(map) EXCEPT !.entry = E] = [entry |-> E, older |-> CacheOf(map).older]
  <2>1. PICK F, O, A : F = E /\ A = CacheOf(map).entry /\ O = CacheOf(map).older
    OBVIOUS
  <2>2. CacheOf(map) = [entry |-> A, older |-> O]
    BY <2>1 DEF CacheOf
  <2> HIDE DEF E
  <2>3. [[entry |-> A, older |-> O] EXCEPT !.entry = F] = [entry |-> F, older |-> O]
    OBVIOUS
  <2>4. QED
    BY <2>1, <2>2, <2>3
<1>8. QED
  BY <1>1, <1>4, <1>5, <1>6, <1>7

LEMMA InsertedView ==
  ASSUME LruInv, NEW k \in Hashes, NEW e \in Entries, PutEnabled(k, e)
  PROVE  CacheOf(map') = Abstract!Inserted(CacheOf(map), k, e, capacity)
<1> DEFINE v == CHOOSE g \in DOMAIN Restamped(k) : \A h \in DOMAIN Restamped(k) : g <= h
<1>1. PICK m, r : m = Stored(k, e) /\ r = Restamped(k)
  OBVIOUS
<1>2. /\ m \in [DOMAIN m -> [entry : Entries, gen : Nat]]
      /\ \A j \in DOMAIN m : m[j].gen \in DOMAIN r /\ r[m[j].gen] = j
      /\ \A g \in DOMAIN r : r[g] \in DOMAIN m /\ m[r[g]].gen = g
  <2>1. StoredAgrees(k, e, m, r)
    BY <1>1, StoredFacts
  <2>2. QED
    BY <2>1 DEF StoredAgrees
<1>3. v \in DOMAIN r /\ \A h \in DOMAIN r : v <= h
  BY <1>1, VictimFacts
<1>4. DOMAIN r \subseteq Nat
  <2>1. DOMAIN Restamped(k) \subseteq 0..next_gen
    BY RestampedFacts
  <2>2. QED
    BY <1>1, <2>1 DEF LruInv, LruTypeOK
<1>5. map' = Dropping(m, {r[g] : g \in Evicted(m, r)}) /\ capacity # 0
  BY <1>1 DEF PutEnabled
<1>6. Evicted(m, r) = IF Cardinality(DOMAIN m) > capacity THEN {v} ELSE {}
  BY <1>1 DEF Evicted
<1> HIDE DEF v
<1>7. Abstract!LeastRecent(CacheOf(m)) = r[v]
  <2>1. r[v] \in DOMAIN m /\ m[r[v]].gen = v /\ \A j \in DOMAIN m : m[j].gen \in Nat
    BY <1>2, <1>3
  <2>2. \A j \in DOMAIN m \ {r[v]} : m[r[v]].gen < m[j].gen
    BY <1>2, <1>3, <1>4, <2>1
  <2>3. QED
    BY <2>1, <2>2, LeastRecentView
<1>8. /\ Abstract!Stored(CacheOf(map), k, e) = CacheOf(m)
      /\ Abstract!Keys(CacheOf(m)) = DOMAIN m
  BY <1>1, StoredView DEF Abstract!Keys, CacheOf
<1>9. CASE Cardinality(DOMAIN m) > capacity
  <2>1. map' = Dropping(m, {r[v]})
    BY <1>5, <1>6, <1>9
  <2>2. CacheOf(map') = Abstract!Without(CacheOf(m), r[v])
    BY <2>1, WithoutView
  <2>3. QED
    BY <1>5, <1>7, <1>8, <1>9, <2>2, SameCardinality DEF Abstract!Inserted
<1>10. CASE ~ (Cardinality(DOMAIN m) > capacity)
  <2>1. map' = m
    BY <1>2, <1>5, <1>6, <1>10 DEF Dropping, Restrict
  <2>2. QED
    BY <1>5, <1>8, <1>10, <2>1, SameCardinality DEF Abstract!Inserted
<1>11. QED
  BY <1>9, <1>10

\* Every step of the code is one LruSpec allows, or leaves its state alone.
LEMMA NextRefines == LruInv /\ [Next]_vars => [Abstract!Next]_Abstract!vars
<1> SUFFICES ASSUME LruInv, Next PROVE Abstract!Next
  BY DEF vars, Abstract!vars, cache
<1>1. cache = CacheOf(map) /\ cache' = CacheOf(map') /\ Abstract!Keys(cache) = DOMAIN map
      /\ \A k \in DOMAIN map : cache.entry[k] = map[k].entry
  BY DEF cache, CacheOf, Abstract!Keys
<1>2. UNCHANGED map => UNCHANGED cache
  BY <1>1
<1>3. \A op, k, found : Abstract!Reply(op, k, found) = Reply(op, k, found)
  BY DEF Abstract!Reply, Reply
<1>4. ASSUME NEW k \in Hashes, Get(k)
      PROVE  Abstract!Get(k)
  <2>1. CASE GetMiss(k)
    <3>1. capacity = 0 => DOMAIN map = {}
      <4>1. IsFiniteSet(DOMAIN map) /\ Cardinality(DOMAIN map) <= capacity
        BY DEF LruInv, WithinCapacity
      <4>2. Cardinality(DOMAIN map) \in Nat
        BY <4>1, FS_CardinalityType
      <4>3. capacity = 0 => Cardinality(DOMAIN map) = 0
        BY <4>1, <4>2
      <4>4. QED
        BY <4>1, <4>3, FS_EmptySet
    <3>2. k \notin DOMAIN map
      BY <2>1, <3>1 DEF GetMiss
    <3>3. QED
      BY <1>1, <1>2, <1>3, <2>1, <3>2 DEF GetMiss, Abstract!Get, Abstract!Found
  <2>2. CASE GetHit(k)
    <3>1. cache' = Abstract!Promoted(cache, k)
      BY <1>1, <2>2, HitView
    <3>2. QED
      BY <1>1, <1>3, <2>2, <3>1 DEF GetHit, Abstract!Get, Abstract!Found
  <2>3. QED
    BY <1>4, <2>1, <2>2 DEF Get
<1>5. ASSUME NEW k \in Hashes, Peek(k)
      PROVE  Abstract!Peek(k)
  BY <1>1, <1>2, <1>3, <1>5 DEF Peek, Abstract!Peek, Abstract!Found
<1>6. ASSUME NEW k \in Hashes, NEW e \in Entries, Put(k, e)
      PROVE  Abstract!Put(k, e)
  <2>1. CASE PutDisabled(k, e)
    BY <1>2, <1>3, <2>1 DEF PutDisabled, Abstract!Put, Abstract!Inserted
  <2>2. CASE PutEnabled(k, e)
    <3>1. cache' = Abstract!Inserted(cache, k, e, capacity)
      BY <1>1, <2>2, InsertedView
    <3>2. QED
      BY <1>3, <2>2, <3>1 DEF PutEnabled, Abstract!Put
  <2>3. QED
    BY <1>6, <2>1, <2>2 DEF Put
<1>7. ASSUME NEW k \in Hashes, Remove(k)
      PROVE  Abstract!Remove(k)
  <2>1. cache' = Abstract!Without(cache, k)
    BY <1>1, <1>7, WithoutView DEF Remove
  <2>2. QED
    BY <1>3, <1>7, <2>1 DEF Remove, Abstract!Remove
<1>8. QED
  BY <1>4, <1>5, <1>6, <1>7 DEF Next, Abstract!Next

\* The generation-indexed maps of struct Lru behave, for any keys, entries and
\* capacity, as the bounded map that forgets its least recently used key: the
\* same answers, and the same victims.
THEOREM LruRefinesSpec == Spec => RefinesLru
<1>1. Init => Abstract!Init
  BY DEF Init, Abstract!Init, cache, Abstract!Empty
<1>2. QED
  BY <1>1, InitInv, NextInv, NextRefines, PTL DEF Spec, RefinesLru, Abstract!Spec
==============================================================================

------------------------------ MODULE LruCache -------------------------------
(***************************************************************************)
(* struct Lru of session.rs: a hash map of entries stamped with a recency  *)
(* generation, and an ordered map from generations back to keys.  Every    *)
(* operation runs under the resolver's cache mutex, so each is one action. *)
(***************************************************************************)
EXTENDS FiniteSets, Functions

CONSTANTS Hashes,      \* keys: session token hashes
          Entries,     \* cache entries
          NoEntry,     \* None
          Capacities,  \* capacities a cache may be built with
          MaxGen       \* bound: the model stops promoting at this generation

ASSUME CapacitiesAssumption == Capacities \subseteq Nat
ASSUME MaxGenAssumption == MaxGen \in Nat

VARIABLES
  map,       \* cached key -> [entry, gen]
  recency,   \* generation -> key
  next_gen,  \* the next generation to hand out
  capacity,
  reply      \* the last operation and what it returned
vars == <<map, recency, next_gen, capacity, reply>>

\* f extended with, or changed to, x |-> y (a map's insert).
With(f, x, y) == [z \in DOMAIN f \cup {x} |-> IF z = x THEN y ELSE f[z]]

\* f without the keys of S (a map's remove).
Dropping(f, S) == Restrict(f, DOMAIN f \ S)

\* The caller's view of an operation.
Reply(op, k, found) == [op |-> op, key |-> k, found |-> found]

Init ==
  /\ map = <<>>
  /\ recency = <<>>
  /\ next_gen = 0
  /\ capacity \in Capacities
  /\ reply = NoEntry

\* The maps of get and put with k at the next generation, off its old one.
Restamped(k) ==
  With(Dropping(recency, {map[j].gen : j \in DOMAIN map \cap {k}}), next_gen, k)
Stored(k, e) == With(map, k, [entry |-> e, gen |-> next_gen])

GetMiss(k) ==
  /\ capacity = 0 \/ k \notin DOMAIN map
  /\ reply' = Reply("get", k, NoEntry)
  /\ UNCHANGED <<map, recency, next_gen, capacity>>

\* Faulty variant: the old generation stays behind.
GetHitKeepsGeneration(k) ==
  /\ capacity # 0
  /\ k \in DOMAIN map
  /\ next_gen < MaxGen
  /\ recency' = With(recency, next_gen, k)
  /\ map' = [map EXCEPT ![k].gen = next_gen]
  /\ next_gen' = next_gen + 1
  /\ reply' = Reply("get", k, map[k].entry)
  /\ UNCHANGED capacity

\* Faulty variant: a hit does not promote.
GetHitUnpromoted(k) ==
  /\ capacity # 0
  /\ k \in DOMAIN map
  /\ reply' = Reply("get", k, map[k].entry)
  /\ UNCHANGED <<map, recency, next_gen, capacity>>

\* The entry moves from its old generation to the next one.
GetHit(k) ==
  /\ capacity # 0
  /\ k \in DOMAIN map
  /\ next_gen < MaxGen
  /\ recency' = Restamped(k)
  /\ map' = [map EXCEPT ![k].gen = next_gen]
  /\ next_gen' = next_gen + 1
  /\ reply' = Reply("get", k, map[k].entry)
  /\ UNCHANGED capacity

Get(k) == GetMiss(k) \/ GetHit(k)

Peek(k) ==
  /\ reply' = Reply("peek", k, IF k \in DOMAIN map THEN map[k].entry ELSE NoEntry)
  /\ UNCHANGED <<map, recency, next_gen, capacity>>

PutDisabled(k, e) ==
  /\ capacity = 0
  /\ reply' = Reply("put", k, NoEntry)
  /\ UNCHANGED <<map, recency, next_gen, capacity>>

\* Faulty variant: one entry too many is tolerated.
EvictedLate(m, r) ==
  IF Cardinality(DOMAIN m) > capacity + 1
  THEN {CHOOSE g \in DOMAIN r : \A h \in DOMAIN r : g <= h}
  ELSE {}

\* The generations the eviction loop removes from maps m and r: the lowest,
\* when m is over capacity.  WithinCapacity below is why once is enough.
Evicted(m, r) ==
  IF Cardinality(DOMAIN m) > capacity
  THEN {CHOOSE g \in DOMAIN r : \A h \in DOMAIN r : g <= h}
  ELSE {}

PutEnabled(k, e) ==
  LET m   == Stored(k, e)
      r   == Restamped(k)
      out == Evicted(m, r)
  IN  /\ capacity # 0
      /\ next_gen < MaxGen
      /\ recency' = Dropping(r, out)
      /\ map' = Dropping(m, {r[g] : g \in out})
      /\ next_gen' = next_gen + 1
      /\ reply' = Reply("put", k, NoEntry)
      /\ UNCHANGED capacity

Put(k, e) == PutDisabled(k, e) \/ PutEnabled(k, e)

Remove(k) ==
  /\ map' = Dropping(map, {k})
  /\ recency' = Dropping(recency, {map[j].gen : j \in DOMAIN map \cap {k}})
  /\ reply' = Reply("remove", k, NoEntry)
  /\ UNCHANGED <<next_gen, capacity>>

Next ==
  \E k \in Hashes :
    \/ Get(k)
    \/ Peek(k)
    \/ \E e \in Entries : Put(k, e)
    \/ Remove(k)

Spec == Init /\ [][Next]_vars

------------------------------------------------------------------------------
\* The two maps index one another: an entry's generation leads back to its
\* key, every generation's key carries it, and none was handed out twice
\* (a stale generation left in recency would evict a key just used).
IndexAgrees ==
  /\ \A k \in DOMAIN map :
       map[k].gen \in DOMAIN recency /\ recency[map[k].gen] = k
  /\ \A g \in DOMAIN recency :
       recency[g] \in DOMAIN map /\ map[recency[g]].gen = g
  /\ \A g \in DOMAIN recency : g < next_gen

\* No more keys are cached than the capacity, whatever the order of lookups,
\* insertions and removals; so the eviction loop of put runs at most once.
WithinCapacity ==
  /\ IsFiniteSet(DOMAIN map)
  /\ Cardinality(DOMAIN map) <= capacity

\* The cache this state stands for: recency order is generation order.
cache ==
  [entry |-> [k \in DOMAIN map |-> map[k].entry],
   older |-> {p \in (DOMAIN map) \X (DOMAIN map) : map[p[1]].gen < map[p[2]].gen}]

Abstract == INSTANCE LruSpec

\* The generation-indexed maps behave as the bounded least-recently-used map
\* LruSpec describes: same answers, same victims.
RefinesLru == Abstract!Spec
==============================================================================

--------------------------------- MODULE Lru ---------------------------------
(***************************************************************************)
(* The operations of the session cache's LRU (session.rs, struct Lru), as  *)
(* functions from a cache to a cache, without the generation counter that  *)
(* implements them.  A cache is a record                                   *)
(*   entry : a function from the cached keys to their entries,             *)
(*   older : the pairs <<j, k>> of cached keys where j was used less       *)
(*           recently than k.                                              *)
(* LruCache.tla models the generation-indexed code and is shown to         *)
(* implement these operations; SessionResolver.tla uses them.              *)
(***************************************************************************)
EXTENDS FiniteSets, Functions

Empty == [entry |-> <<>>, older |-> {}]

Keys(c) == DOMAIN c.entry

\* Faulty variant: the key's place in the order is not given up.
WithoutEntry(c, k) ==
  [entry |-> Restrict(c.entry, Keys(c) \ {k}), older |-> c.older]

\* Lru::remove: forget k, if it is cached.
Without(c, k) ==
  [entry |-> Restrict(c.entry, Keys(c) \ {k}),
   older |-> {p \in c.older : p[1] # k /\ p[2] # k}]

\* Lru::get on a cached key: k becomes the most recently used key.
Promoted(c, k) ==
  [c EXCEPT !.older = {p \in @ : p[1] # k} \cup ((Keys(c) \ {k}) \X {k})]

\* The key with the lowest generation: no other key is older.
LeastRecent(c) ==
  CHOOSE k \in Keys(c) : \A j \in Keys(c) \ {k} : <<k, j>> \in c.older

\* Lru::put before its eviction loop: k holds e and is the most recent key.
Stored(c, k, e) ==
  Promoted([c EXCEPT !.entry = [j \in Keys(c) \cup {k} |->
                                  IF j = k THEN e ELSE c.entry[j]]], k)

\* Faulty variant: one entry too many is tolerated.
InsertedLate(c, k, e, capacity) ==
  LET d == Stored(c, k, e)
  IN  IF capacity = 0 THEN c
      ELSE IF Cardinality(Keys(d)) > capacity + 1 THEN Without(d, LeastRecent(d))
      ELSE d

\* Lru::put.  The eviction loop runs at most once: the cache was within its
\* capacity before the insertion.
Inserted(c, k, e, capacity) ==
  LET d == Stored(c, k, e)
  IN  IF capacity = 0 THEN c
      ELSE IF Cardinality(Keys(d)) > capacity THEN Without(d, LeastRecent(d))
      ELSE d
==============================================================================

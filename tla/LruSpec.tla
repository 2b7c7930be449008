------------------------------- MODULE LruSpec -------------------------------
(***************************************************************************)
(* What the session cache's LRU promises: a bounded map that forgets the   *)
(* least recently used key.  reply is the last operation with what it      *)
(* returned (NoEntry for None and for operations that return nothing).     *)
(***************************************************************************)
EXTENDS Lru

CONSTANTS Hashes,      \* keys: session token hashes
          Entries,     \* cache entries
          NoEntry,     \* None
          Capacities   \* capacities a cache may be built with

VARIABLES capacity, cache, reply
vars == <<capacity, cache, reply>>

Found(k) == IF k \in Keys(cache) THEN cache.entry[k] ELSE NoEntry

\* The caller's view of an operation.
Reply(op, k, found) == [op |-> op, key |-> k, found |-> found]

Init == capacity \in Capacities /\ cache = Empty /\ reply = NoEntry

\* A lookup promotes the key it finds.
Get(k) ==
  /\ reply' = Reply("get", k, Found(k))
  /\ cache' = IF k \in Keys(cache) THEN Promoted(cache, k) ELSE cache
  /\ UNCHANGED capacity

\* A peek promotes nothing.
Peek(k) == reply' = Reply("peek", k, Found(k)) /\ UNCHANGED <<capacity, cache>>

Put(k, e) ==
  /\ cache' = Inserted(cache, k, e, capacity)
  /\ reply' = Reply("put", k, NoEntry)
  /\ UNCHANGED capacity

Remove(k) ==
  /\ cache' = Without(cache, k)
  /\ reply' = Reply("remove", k, NoEntry)
  /\ UNCHANGED capacity

Next ==
  \E k \in Hashes :
    \/ Get(k)
    \/ Peek(k)
    \/ \E e \in Entries : Put(k, e)
    \/ Remove(k)

Spec == Init /\ [][Next]_vars
==============================================================================

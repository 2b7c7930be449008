--------------------------- MODULE SessionResolver ---------------------------
(***************************************************************************)
(* The session-resolution cache of session.rs: CachedResolver over its     *)
(* LRU (module Lru), its single-flight table and a SessionFetcher.         *)
(*                                                                         *)
(* Actors: the callers of resolve() (Calls), the detached refresh-ahead    *)
(* tasks, the detached fills (Flights), evict(), the session authority     *)
(* (external), and time.  The runtime is multi-threaded, so every section  *)
(* under a mutex, every clock reading before one and every await is an     *)
(* action of its own.                                                      *)
(*                                                                         *)
(* Two clocks: now is tokio's monotonic Instant, which every TTL uses, and *)
(* now + skew is the wall clock, which session expiries are compared with. *)
(* The fields ver and asOf of an answer are history: the version of the    *)
(* session the authority read, and the instant at which it did.            *)
(***************************************************************************)
EXTENDS Lru

CONSTANTS
  Hashes,        \* session token hashes
  Calls,         \* callers of resolve()
  Flights,       \* identities of fills
  None,          \* absence: Rust's None, of a session, an entry or a flight
  Capacity,      \* ResolverConfig::capacity
  L1Ttl,         \* ResolverConfig::l1_ttl
  NegTtl,        \* ResolverConfig::neg_ttl
  StaleIfError,  \* ResolverConfig::stale_if_error
  FetchTimeout,  \* RESOLVE_TIMEOUT
  Jitters,       \* TTL jitter outcomes, in percent of L1Ttl
  Expiries,      \* wall-clock expiries the authority gives sessions
  Skews,         \* offsets of the wall clock from true time
  Steps,         \* lengths of clock advances
  MaxNow,        \* bound: the clock stops here
  MaxVersion,    \* bound: changes of one session at the authority
  MaxRefreshers  \* bound: refresh tasks of a hash told apart while they wait to run

ASSUME ConfigAssumption ==
  /\ Capacity \in Nat /\ L1Ttl \in Nat /\ NegTtl \in Nat
  /\ StaleIfError \in Nat /\ FetchTimeout \in Nat
  /\ Jitters \subseteq 80..100
ASSUME ClockAssumption ==
  Expiries \subseteq Nat /\ Skews \subseteq Int /\ 0 \in Skews /\ Steps \subseteq Nat
ASSUME BoundAssumption ==
  MaxNow \in Nat /\ MaxVersion \in Nat /\ MaxRefreshers \in Nat
ASSUME NoneAssumption ==
  None \notin Hashes \cup Flights \cup Nat

VARIABLES
  now,         \* the monotonic clock
  skew,        \* wall clock minus monotonic clock
  server,      \* hash -> [ver, session] at the session authority
  cache,       \* ResolverInner::cache
  inflight,    \* hash -> flight, SingleFlight::inflight
  flight,      \* flight -> the state of that fill
  call,        \* caller -> the state of its resolve()
  refreshers   \* hash -> refresh tasks spawned and not yet run
vars == <<now, skew, server, cache, inflight, flight, call, refreshers>>

Wall == now + skew

\* What a fill yields: "fill" with the authority's answer, or an error.
Ok(ans)    == [kind |-> "fill", ans |-> ans]
Error(kind) == [kind |-> kind, ans |-> None]
ErrorKinds == {"transport", "backend"}

IdleFlight == [stage |-> "idle", hash |-> None, deadline |-> 0, result |-> None]
IdleCall == [pc |-> "idle", hash |-> None, now |-> 0, wall |-> 0,
             stale |-> None, flight |-> None, result |-> None]

Busy(i) == flight[i].stage # "idle"
\* The fetch of flight i has neither been received nor given up.
Pending(i) == flight[i].stage \in {"asked", "answered"}

Init ==
  /\ now = 0
  /\ skew = 0
  /\ server \in [Hashes -> [ver : {0}, session : Expiries \cup {None}]]
  /\ cache = Empty
  /\ inflight = [h \in Hashes |-> None]
  /\ flight = [i \in Flights |-> IdleFlight]
  /\ call = [c \in Calls |-> IdleCall]
  /\ refreshers = [h \in Hashes |-> 0]

------------------------------------------------------------------------------
\* The outcomes of effective_ttl: a downward-only jitter of L1Ttl.
EffectiveTtls == {(L1Ttl * j) \div 100 : j \in Jitters}

Lesser(a, b) == IF a <= b THEN a ELSE b

\* Faulty variant: the TTL is not capped by the life the session has left.
SessionEntryUncapped(ans, eff) ==
  [ans |-> ans, fresh_until |-> now + eff,
   stale_until |-> now + eff + StaleIfError, effective_ttl |-> eff]

\* A positive cache entry: it ends with the session, if that is sooner.
SessionEntry(ans, eff) ==
  LET remaining == IF ans.session > Wall THEN ans.session - Wall ELSE 0
      ttl       == Lesser(eff, remaining)
  IN  [ans |-> ans, fresh_until |-> now + ttl,
       stale_until |-> now + ttl + StaleIfError, effective_ttl |-> eff]

\* Faulty variant: a tombstone lives as long as a session.
TombstoneLong(ans) ==
  [ans |-> ans, fresh_until |-> now + L1Ttl,
   stale_until |-> now + L1Ttl, effective_ttl |-> L1Ttl]

\* A negative tombstone.
Tombstone(ans) ==
  [ans |-> ans, fresh_until |-> now + NegTtl,
   stale_until |-> now + NegTtl, effective_ttl |-> NegTtl]

NewEntries(ans) ==
  IF ans.session = None
  THEN {Tombstone(ans)}
  ELSE {SessionEntry(ans, eff) : eff \in EffectiveTtls}

\* The entry outlived its session on the caller's wall clock.
Expired(e, wall) == e.ans.session # None /\ e.ans.session <= wall

\* Less than a tenth of the entry's TTL is left at time t.
NearlyUnfresh(e, t) ==
  e.ans.session # None /\ 10 * (e.fresh_until - t) < e.effective_ttl

\* Faulty variant: the stale window never closes.
ServableStaleAlways(e, t, wall) == e.ans.session # None /\ e.ans.session > wall

\* Faulty variant: the session's own end is forgotten.
ServableStaleEnded(e, t, wall) == e.ans.session # None /\ t < e.stale_until

\* May the entry cover for a failed fetch of a caller that began at t?
ServableStale(e, t, wall) ==
  e.ans.session # None /\ e.ans.session > wall /\ t < e.stale_until

------------------------------------------------------------------------------
\* resolve(): the two clocks are read before anything else.
NewCall(h) == [pc |-> "lookup", hash |-> h, now |-> now, wall |-> Wall,
               stale |-> None, flight |-> None, result |-> None]

Begin(c, h) ==
  /\ call[c].pc \in {"idle", "done"}
  /\ call' = [call EXCEPT ![c] = NewCall(h)]
  /\ UNCHANGED <<now, skew, server, cache, inflight, flight, refreshers>>

\* cache.get() finds nothing.
LookupMiss(c) ==
  /\ call[c].pc = "lookup"
  /\ call[c].hash \notin Keys(cache)
  /\ call' = [call EXCEPT ![c].pc = "stale"]
  /\ UNCHANGED <<now, skew, server, cache, inflight, flight, refreshers>>

\* The entry cached for the caller's hash.
Found(c) == cache.entry[call[c].hash]

\* cache.get() finds an entry, and promotes it.
LookupFinds(c) ==
  /\ call[c].pc = "lookup"
  /\ call[c].hash \in Keys(cache)
  /\ cache' = Promoted(cache, call[c].hash)
  /\ UNCHANGED <<now, skew, server, inflight, flight>>

LookupExpired(c) ==
  /\ LookupFinds(c)
  /\ Expired(Found(c), call[c].wall)
  /\ call' = [call EXCEPT ![c].pc = "expired"]
  /\ UNCHANGED refreshers

LookupUnfresh(c) ==
  /\ LookupFinds(c)
  /\ ~Expired(Found(c), call[c].wall)
  /\ call[c].now >= Found(c).fresh_until
  /\ call' = [call EXCEPT ![c].pc = "stale"]
  /\ UNCHANGED refreshers

\* A hit.
LookupHit(c) ==
  /\ LookupFinds(c)
  /\ ~Expired(Found(c), call[c].wall)
  /\ call[c].now < Found(c).fresh_until
  /\ call' = [call EXCEPT ![c].pc = "done",
                          ![c].result = [kind |-> "hit", ans |-> Found(c).ans]]

\* A hit on an entry with life enough left, ...
LookupYoungHit(c) ==
  /\ LookupHit(c)
  /\ ~NearlyUnfresh(Found(c), call[c].now)
  /\ UNCHANGED refreshers

\* ... and one that also spawns a refresh-ahead task.
LookupOldHit(c) ==
  /\ LookupHit(c)
  /\ NearlyUnfresh(Found(c), call[c].now)
  /\ refreshers' = [refreshers EXCEPT ![call[c].hash] = Lesser(@ + 1, MaxRefreshers)]

\* The forced miss: a second critical section removes whatever is cached now.
DropExpired(c) ==
  /\ call[c].pc = "expired"
  /\ cache' = Without(cache, call[c].hash)
  /\ call' = [call EXCEPT ![c].pc = "stale"]
  /\ UNCHANGED <<now, skew, server, inflight, flight, refreshers>>

\* stale_candidate(): a peek, judged by the clocks read at the beginning.
StaleCandidate(c) ==
  LET h == call[c].hash
      candidates == {e \in {cache.entry[k] : k \in Keys(cache) \cap {h}} :
                       StaleIfError > 0 /\ ServableStale(e, call[c].now, call[c].wall)}
  IN  /\ call[c].pc = "stale"
      /\ \/ \E e \in candidates : call' = [call EXCEPT ![c].pc = "join", ![c].stale = e]
         \/ candidates = {} /\ call' = [call EXCEPT ![c].pc = "join"]
      /\ UNCHANGED <<now, skew, server, cache, inflight, flight, refreshers>>

\* SingleFlight::run without a fill in flight for h: start one, detached.
NewFlight(h) ==
  [stage |-> "asked", hash |-> h, deadline |-> now + FetchTimeout, result |-> None]

Launch(h, i) ==
  /\ inflight[h] = None
  /\ ~Busy(i)
  /\ inflight' = [inflight EXCEPT ![h] = i]
  /\ flight' = [flight EXCEPT ![i] = NewFlight(h)]

\* The caller awaits a fill of its own ...
JoinNew(c, i) ==
  /\ call[c].pc = "join"
  /\ Launch(call[c].hash, i)
  /\ call' = [call EXCEPT ![c].pc = "waiting", ![c].flight = i]
  /\ UNCHANGED <<now, skew, server, cache, refreshers>>

\* ... or the one in flight.
JoinExisting(c) ==
  /\ call[c].pc = "join"
  /\ inflight[call[c].hash] # None
  /\ call' = [call EXCEPT ![c].pc = "waiting", ![c].flight = inflight[call[c].hash]]
  /\ UNCHANGED <<now, skew, server, cache, inflight, flight, refreshers>>

\* Faulty variant: the refresh-ahead task fills past the single flight.
RefreshNewDirect(h, i) ==
  /\ refreshers[h] > 0
  /\ ~Busy(i)
  /\ inflight' = [inflight EXCEPT ![h] = i]
  /\ flight' = [flight EXCEPT ![i] = NewFlight(h)]
  /\ refreshers' = [refreshers EXCEPT ![h] = @ - 1]
  /\ UNCHANGED <<now, skew, server, cache, call>>

\* The refresh-ahead task runs: it goes through the same single flight and
\* ignores the result.
RefreshNew(h, i) ==
  /\ refreshers[h] > 0
  /\ Launch(h, i)
  /\ refreshers' = [refreshers EXCEPT ![h] = @ - 1]
  /\ UNCHANGED <<now, skew, server, cache, call>>

RefreshExisting(h) ==
  /\ refreshers[h] > 0
  /\ inflight[h] # None
  /\ refreshers' = [refreshers EXCEPT ![h] = @ - 1]
  /\ UNCHANGED <<now, skew, server, cache, inflight, flight, call>>

\* Faulty variant: a dropped leader takes its inflight entry with it.
CancelUnregisters(c) ==
  /\ call[c].pc \in {"waiting", "woken"}
  /\ call' = [call EXCEPT ![c] = IdleCall]
  /\ inflight' = [inflight EXCEPT ![call[c].hash] = None]
  /\ UNCHANGED <<now, skew, server, cache, flight, refreshers>>

\* The future of resolve() is dropped at its only await (client disconnect).
Cancel(c) ==
  /\ call[c].pc \in {"waiting", "woken"}
  /\ call' = [call EXCEPT ![c] = IdleCall]
  /\ UNCHANGED <<now, skew, server, cache, inflight, flight, refreshers>>

\* The awaited fill's result reaches the caller.
Resume(c) ==
  /\ call[c].pc = "woken"
  /\ ~(call[c].result.kind = "transport" /\ call[c].stale # None)
  /\ call' = [call EXCEPT ![c].pc = "done", ![c].stale = None]
  /\ UNCHANGED <<now, skew, server, cache, inflight, flight, refreshers>>

\* Faulty variant: an older session covers for any failure.
ResumeStaleAlways(c) ==
  /\ call[c].pc = "woken"
  /\ call[c].result.kind \in ErrorKinds
  /\ call[c].stale # None
  /\ call' = [call EXCEPT ![c].pc = "done", ![c].stale = None,
                          ![c].result = [kind |-> "stale", ans |-> call[c].stale.ans]]
  /\ UNCHANGED <<now, skew, server, cache, inflight, flight, refreshers>>

\* A transport error is covered by the stale candidate.
ResumeStale(c) ==
  /\ call[c].pc = "woken"
  /\ call[c].result.kind = "transport"
  /\ call[c].stale # None
  /\ call' = [call EXCEPT ![c].pc = "done", ![c].stale = None,
                          ![c].result = [kind |-> "stale", ans |-> call[c].stale.ans]]
  /\ UNCHANGED <<now, skew, server, cache, inflight, flight, refreshers>>

------------------------------------------------------------------------------
\* The authority reads the session for flight i; the answer starts back.
\* It answers "not found" for a session that is unknown, revoked or expired.
Answer(i) ==
  LET s    == server[flight[i].hash]
      live == IF s.session # None /\ s.session > now THEN s.session ELSE None
  IN  /\ flight[i].stage = "asked"
      /\ flight' = [flight EXCEPT ![i].stage = "answered",
                      ![i].result = Ok([session |-> live, ver |-> s.ver, asOf |-> now])]
      /\ UNCHANGED <<now, skew, server, cache, inflight, call, refreshers>>

\* fill() receives the answer, reads the clocks and stores an entry.
Store(i) ==
  /\ flight[i].stage = "answered"
  /\ \E e \in NewEntries(flight[i].result.ans) :
       cache' = Inserted(cache, flight[i].hash, e, Capacity)
  /\ flight' = [flight EXCEPT ![i].stage = "settled"]
  /\ UNCHANGED <<now, skew, server, inflight, call, refreshers>>

\* The fetch fails, before or after the authority read the session.
Fail(i, kind) ==
  /\ Pending(i)
  /\ flight' = [flight EXCEPT ![i].stage = "settled", ![i].result = Error(kind)]
  /\ UNCHANGED <<now, skew, server, cache, inflight, call, refreshers>>

\* Faulty variant: the timeout does not cover the wait for the authority.
TimeoutOfAnswer(i) ==
  /\ flight[i].stage = "answered"
  /\ now >= flight[i].deadline \/ now = MaxNow
  /\ Fail(i, "transport")

\* tokio::time::timeout gives the fetch up.  The stopped clock of the bound
\* MaxNow stands for all later instants.
Timeout(i) ==
  /\ now >= flight[i].deadline \/ now = MaxNow
  /\ Fail(i, "transport")

\* Faulty variant: the inflight entry is left behind.
FinishLeaks(i) ==
  /\ flight[i].stage = "settled"
  /\ call' = [c \in Calls |->
                IF call[c].pc = "waiting" /\ call[c].flight = i
                THEN [call[c] EXCEPT !.pc = "woken", !.flight = None,
                                     !.result = flight[i].result]
                ELSE call[c]]
  /\ flight' = [flight EXCEPT ![i] = IdleFlight]
  /\ UNCHANGED <<now, skew, server, cache, inflight, refreshers>>

\* The shared future ends: it removes its own inflight entry, and every
\* waiter's clone of it becomes ready with the result.
Finish(i) ==
  LET h == flight[i].hash IN
  /\ flight[i].stage = "settled"
  /\ inflight' = IF inflight[h] = i THEN [inflight EXCEPT ![h] = None] ELSE inflight
  /\ call' = [c \in Calls |->
                IF call[c].pc = "waiting" /\ call[c].flight = i
                THEN [call[c] EXCEPT !.pc = "woken", !.flight = None,
                                     !.result = flight[i].result]
                ELSE call[c]]
  /\ flight' = [flight EXCEPT ![i] = IdleFlight]
  /\ UNCHANGED <<now, skew, server, cache, refreshers>>

\* Faulty variant: an eviction also forgets the fill in flight.
EvictForgetsFlight(h) ==
  /\ cache' = Without(cache, h)
  /\ inflight' = [inflight EXCEPT ![h] = None]
  /\ UNCHANGED <<now, skew, server, flight, call, refreshers>>

\* Faulty variant: an eviction ends the entry's freshness but keeps it.
EvictDemotes(h) ==
  /\ cache' = IF h \in Keys(cache)
               THEN [cache EXCEPT !.entry[h].fresh_until = Lesser(@, now)] ELSE cache
  /\ UNCHANGED <<now, skew, server, inflight, flight, call, refreshers>>

\* SessionResolver::evict.
Evict(h) ==
  /\ cache' = Without(cache, h)
  /\ UNCHANGED <<now, skew, server, inflight, flight, call, refreshers>>

------------------------------------------------------------------------------
\* The authority creates, prolongs or revokes a session.
ServerChange(h) ==
  /\ server[h].ver < MaxVersion
  /\ \E s \in (Expiries \cup {None}) \ {server[h].session} :
       server' = [server EXCEPT ![h] = [ver |-> @.ver + 1, session |-> s]]
  /\ UNCHANGED <<now, skew, cache, inflight, flight, call, refreshers>>

\* Time passes, but not past the deadline of a fetch (timers fire promptly)
\* nor while a fill runs on after its fetch (it awaits nothing there).
Tick ==
  /\ \E d \in Steps :
       /\ now + d <= MaxNow
       /\ \A i \in Flights : Busy(i) => Pending(i) /\ now + d <= flight[i].deadline
       /\ now' = now + d
  /\ UNCHANGED <<skew, server, cache, inflight, flight, call, refreshers>>

\* The wall clock is stepped.
StepWall ==
  /\ skew' \in Skews \ {skew}
  /\ UNCHANGED <<now, server, cache, inflight, flight, call, refreshers>>

------------------------------------------------------------------------------
\* Steps of resolve() up to its await, and after it.
CallStep(c) ==
  \/ LookupMiss(c) \/ LookupExpired(c) \/ LookupUnfresh(c)
  \/ LookupYoungHit(c) \/ LookupOldHit(c)
  \/ DropExpired(c) \/ StaleCandidate(c)
  \/ JoinExisting(c) \/ \E i \in Flights : JoinNew(c, i)
  \/ Resume(c) \/ ResumeStale(c)

RefreshStep(h) == RefreshExisting(h) \/ \E i \in Flights : RefreshNew(h, i)

FlightStep(i) ==
  Answer(i) \/ Store(i) \/ (\E kind \in ErrorKinds : Fail(i, kind)) \/ Timeout(i) \/ Finish(i)

ResolverStep ==
  \/ \E c \in Calls : CallStep(c) \/ Cancel(c) \/ \E h \in Hashes : Begin(c, h)
  \/ \E h \in Hashes : RefreshStep(h)
  \/ \E i \in Flights : FlightStep(i)
  \/ Tick
  \/ StepWall

Next == ResolverStep \/ \E h \in Hashes : Evict(h) \/ ServerChange(h)

Spec == Init /\ [][Next]_vars

\* Tasks are polled, timers fire and time passes.  Nothing is assumed of the
\* authority and the network, nor that callers come, go or evict.
Fairness ==
  /\ \A c \in Calls : WF_vars(CallStep(c))
  /\ \A h \in Hashes : WF_vars(RefreshStep(h))
  /\ \A i \in Flights : WF_vars(Timeout(i)) /\ WF_vars(Finish(i))
  /\ WF_vars(Tick)

FairSpec == Spec /\ Fairness

------------------------------------------------------------------------------
Answers == [session : Nat \cup {None}, ver : Nat, asOf : Nat]
CacheEntries == [ans : Answers, fresh_until : Nat, stale_until : Nat, effective_ttl : Nat]
FillResults == [kind : {"fill"}, ans : Answers] \cup [kind : ErrorKinds, ans : {None}]
CallResults == FillResults \cup [kind : {"hit", "stale"}, ans : Answers]

\* What a fill holds at each of its stages.
AskedFlights == [stage : {"asked"}, hash : Hashes, deadline : Nat, result : {None}]
AnsweredFlights == [stage : {"answered"}, hash : Hashes, deadline : Nat,
                    result : [kind : {"fill"}, ans : Answers]]
SettledFlights == [stage : {"settled"}, hash : Hashes, deadline : Nat, result : FillResults]
FlightRecords == {IdleFlight} \cup AskedFlights \cup AnsweredFlights \cup SettledFlights

\* What a call holds at each of its steps.
LookingCalls == [pc : {"lookup", "expired", "stale"}, hash : Hashes, now : Nat, wall : Int,
                 stale : {None}, flight : {None}, result : {None}]
JoiningCalls == [pc : {"join"}, hash : Hashes, now : Nat, wall : Int,
                 stale : CacheEntries \cup {None}, flight : {None}, result : {None}]
WaitingCalls == [pc : {"waiting"}, hash : Hashes, now : Nat, wall : Int,
                 stale : CacheEntries \cup {None}, flight : Flights, result : {None}]
WokenCalls == [pc : {"woken"}, hash : Hashes, now : Nat, wall : Int,
               stale : CacheEntries \cup {None}, flight : {None}, result : FillResults]
DoneCalls == [pc : {"done"}, hash : Hashes, now : Nat, wall : Int,
              stale : {None}, flight : {None}, result : CallResults]
CallRecords ==
  {IdleCall} \cup LookingCalls \cup JoiningCalls \cup WaitingCalls \cup WokenCalls \cup DoneCalls

CacheOK(c) ==
  /\ Keys(c) \subseteq Hashes
  /\ c \in [entry : [Keys(c) -> CacheEntries], older : SUBSET (Keys(c) \X Keys(c))]

\* Types of the state, and what each stage of a fill and of a call holds: the
\* fields a step of resolve(), fill() or SingleFlight::run leaves set or clear.
TypeOK ==
  /\ now \in Nat /\ skew \in Int
  /\ server \in [Hashes -> [ver : Nat, session : Nat \cup {None}]]
  /\ CacheOK(cache)
  /\ inflight \in [Hashes -> Flights \cup {None}]
  /\ flight \in [Flights -> FlightRecords]
  /\ call \in [Calls -> CallRecords]
  /\ refreshers \in [Hashes -> 0..MaxRefreshers]

\* At most one fill runs per token hash, whatever the interleaving of misses,
\* refresh-ahead tasks, cancelled leaders and evictions (SingleFlight::run).
OneFillPerHash ==
  \A i, j \in Flights : Busy(i) /\ Busy(j) /\ flight[i].hash = flight[j].hash => i = j

\* A cached answer is never replaced by one the authority gave earlier: no
\* slow fill overwrites the result of a later one (fill and SingleFlight::run:
\* the put comes before the inflight entry is removed).
CacheNeverGoesBack ==
  [][\A h \in Keys(cache) \cap Keys(cache') :
       /\ cache.entry[h].ans.ver <= cache'.entry[h].ans.ver
       /\ cache.entry[h].ans.asOf <= cache'.entry[h].ans.asOf]_vars

\* The cache never holds more sessions than configured, though fills store
\* while lookups promote and evictions remove (Lru::put).
CacheWithinCapacity == Cardinality(Keys(cache)) <= Capacity

\* The time a cached answer may be served, by how it is served.
Lifetime(r) ==
  CASE r.kind = "hit" /\ r.ans.session = None -> NegTtl
    [] r.kind = "hit" /\ r.ans.session # None -> L1Ttl
    [] r.kind = "stale" -> L1Ttl + StaleIfError

\* The staleness the design really bounds: an answer was true at the authority
\* no longer before the call began than a fetch may take, plus, when it comes
\* from the cache, its TTL and, when it covers for an error, the stale window.
AnswerAge ==
  \A c \in Calls :
    LET r   == call[c].result
        age == call[c].now - r.ans.asOf
    IN  call[c].pc = "done" /\ r.ans # None =>
          IF r.kind = "fill" THEN age <= FetchTimeout ELSE age < FetchTimeout + Lifetime(r)

\* While the wall clock is not stepped, an entry is fresh only as long as its
\* session lasts (fill caps the TTL by the time the session has left), so a
\* hit never extends a session.
FreshMeansLive ==
  \A h \in Keys(cache) :
    LET e == cache.entry[h]
    IN  e.ans.session # None /\ now < e.fresh_until => e.ans.session > now

\* Nobody is told of a session that has ended, except by a fill that read it
\* while it lasted: a hit is checked against the caller's clock (:283) and so
\* is a stale entry (:379), but fill() returns what it fetched (:364) as it is,
\* so a caller that waits for it hears of a session that ended up to one fetch
\* before the call began.
NoSessionBeyondItsEnd ==
  \A c \in Calls :
    LET r == call[c].result
    IN  call[c].pc = "done" /\ r.ans # None /\ r.ans.session # None =>
          IF r.kind = "fill" THEN r.ans.session + FetchTimeout > call[c].now
                             ELSE r.ans.session > call[c].wall

\* Every resolve() that is not cancelled is answered, though its fetch may
\* never be, and though the caller that started the fill may be cancelled.
EveryCallAnswered ==
  \A c \in Calls : call[c].pc \notin {"idle", "done"} ~> call[c].pc \in {"idle", "done"}

\* No fill stays in flight for ever, even when every caller that awaited it is
\* gone: a leaked entry would freeze the hash on one result.
FlightsEnd ==
  \A h \in Hashes : inflight[h] # None ~> inflight[h] = None
==============================================================================

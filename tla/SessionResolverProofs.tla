------------------------ MODULE SessionResolverProofs ------------------------
(***************************************************************************)
(* Safety of SessionResolver for every set of hashes, callers and fills    *)
(* and every configuration: the types of the state and what each stage of  *)
(* a fill and of a call holds, one fill per token, a cache that never goes *)
(* back to an earlier answer and never outgrows its capacity.              *)
(***************************************************************************)
EXTENDS SessionResolver, FiniteSetTheorems, WellFoundedInduction, TLAPS

\* How the operations of the LRU change the contents of a cache.
LEMMA WithoutFacts ==
  ASSUME NEW c, CacheOK(c), NEW k
  PROVE  /\ CacheOK(Without(c, k))
         /\ Keys(Without(c, k)) = Keys(c) \ {k}
         /\ \A j \in Keys(c) \ {k} : Without(c, k).entry[j] = c.entry[j]
<1>1. /\ Without(c, k).entry = Restrict(c.entry, Keys(c) \ {k})
      /\ Without(c, k).older = {p \in c.older : p[1] # k /\ p[2] # k}
  BY DEF Without
<1>2. Keys(Without(c, k)) = Keys(c) \ {k}
  BY <1>1 DEF Keys, Restrict
<1>3. \A j \in Keys(c) \ {k} : Without(c, k).entry[j] = c.entry[j]
  BY <1>1 DEF Keys, Restrict
<1>4. Without(c, k).entry \in [Keys(c) \ {k} -> CacheEntries]
  BY <1>1 DEF Keys, Restrict, CacheOK
<1>5. Without(c, k).older \in SUBSET ((Keys(c) \ {k}) \X (Keys(c) \ {k}))
  BY <1>1 DEF CacheOK
<1>6. QED
  BY <1>2, <1>3, <1>4, <1>5 DEF CacheOK, Without

LEMMA PromotedFacts ==
  ASSUME NEW c, CacheOK(c), NEW k \in Keys(c)
  PROVE  CacheOK(Promoted(c, k)) /\ Promoted(c, k).entry = c.entry
<1>1. /\ Promoted(c, k).entry = c.entry
      /\ Promoted(c, k).older = {p \in c.older : p[1] # k} \cup ((Keys(c) \ {k}) \X {k})
      /\ Promoted(c, k) = [entry |-> Promoted(c, k).entry, older |-> Promoted(c, k).older]
  BY DEF Promoted, CacheOK
<1>2. Promoted(c, k).older \in SUBSET (Keys(c) \X Keys(c))
  BY <1>1 DEF CacheOK
<1>3. QED
  BY <1>1, <1>2 DEF CacheOK, Keys

LEMMA StoredFacts ==
  ASSUME NEW c, CacheOK(c), NEW h \in Hashes, NEW e \in CacheEntries
  PROVE  /\ CacheOK(Stored(c, h, e))
         /\ Keys(Stored(c, h, e)) = Keys(c) \cup {h}
         /\ \A j \in Keys(c) \cup {h} :
              Stored(c, h, e).entry[j] = IF j = h THEN e ELSE c.entry[j]
<1> DEFINE n == [j \in Keys(c) \cup {h} |-> IF j = h THEN e ELSE c.entry[j]]
           d == [c EXCEPT !.entry = n]
<1>1. d = [entry |-> n, older |-> c.older]
  BY DEF CacheOK
<1>2. Keys(d) = Keys(c) \cup {h}
  BY <1>1 DEF Keys
<1>3. n \in [Keys(c) \cup {h} -> CacheEntries]
  BY DEF CacheOK
<1>4. c.older \in SUBSET (Keys(c) \X Keys(c)) /\ Keys(c) \subseteq Hashes
  BY DEF CacheOK
<1>5. c.older \in SUBSET ((Keys(c) \cup {h}) \X (Keys(c) \cup {h}))
  BY <1>4
<1>6. CacheOK(d)
  <2> HIDE DEF n
  <2>1. d \in [entry : [Keys(c) \cup {h} -> CacheEntries],
               older : SUBSET ((Keys(c) \cup {h}) \X (Keys(c) \cup {h}))]
    BY <1>1, <1>3, <1>5
  <2> HIDE DEF d
  <2>2. QED
    BY <2>1, <1>2, <1>4 DEF CacheOK
<1>7. Stored(c, h, e) = Promoted(d, h)
  BY DEF Stored
<1>8. /\ CacheOK(Promoted(d, h)) /\ Promoted(d, h).entry = d.entry
  <2> HIDE DEF d
  <2>1. QED
    BY <1>2, <1>6, PromotedFacts
<1>9. d.entry = n
  BY <1>1
<1>10. QED
  BY <1>7, <1>8, <1>9 DEF Keys

\* Whatever the eviction removes, an insertion leaves every other entry as it
\* was, and what the key holds afterwards is the new entry or the old one.
LEMMA InsertedFacts ==
  ASSUME NEW c, CacheOK(c), NEW h \in Hashes, NEW e \in CacheEntries
  PROVE  LET d == Inserted(c, h, e, Capacity)
         IN  /\ CacheOK(d)
             /\ Keys(d) \subseteq Keys(c) \cup {h}
             /\ \A j \in Keys(d) : \/ d.entry[j] = e /\ j = h
                                   \/ j \in Keys(c) /\ d.entry[j] = c.entry[j]
             /\ Capacity # 0 /\ h \in Keys(d) => d.entry[h] = e
             /\ Capacity = 0 => d = c
<1> DEFINE s == Stored(c, h, e)
           d == Inserted(c, h, e, Capacity)
<1>1. /\ CacheOK(s) /\ Keys(s) = Keys(c) \cup {h}
      /\ \A j \in Keys(c) \cup {h} : s.entry[j] = IF j = h THEN e ELSE c.entry[j]
  BY StoredFacts
<1>0. Capacity = 0 => d = c
  BY DEF Inserted
<1>2. Capacity # 0 => d \in {s, Without(s, LeastRecent(s))}
  BY DEF Inserted
<1> HIDE DEF s
<1> DEFINE w == Without(s, LeastRecent(s))
<1>3. /\ CacheOK(w) /\ Keys(w) = Keys(s) \ {LeastRecent(s)}
      /\ \A j \in Keys(s) \ {LeastRecent(s)} : w.entry[j] = s.entry[j]
  BY <1>1, WithoutFacts
<1> HIDE DEF d, w
<1>4. CASE Capacity = 0
  BY <1>0, <1>4 DEF d
<1>5. CASE Capacity # 0 /\ d = s
  BY <1>1, <1>5 DEF d
<1>6. CASE Capacity # 0 /\ d = w
  <2>1. Keys(d) \subseteq Keys(c) \cup {h}
    BY <1>1, <1>3, <1>6
  <2>2. \A j \in Keys(d) : \/ d.entry[j] = e /\ j = h
                           \/ j \in Keys(c) /\ d.entry[j] = c.entry[j]
    BY <1>1, <1>3, <1>6
  <2>3. CacheOK(d)
    BY <1>3, <1>6
  <2>4. h \in Keys(d) => d.entry[h] = e
    BY <1>1, <1>3, <1>6
  <2>5. QED
    BY <1>6, <2>1, <2>2, <2>3, <2>4 DEF d
<1>7. QED
  BY <1>2, <1>4, <1>5, <1>6 DEF w

\* The entries a fill may store are well typed and hold its answer.
LEMMA NewEntriesFacts ==
  ASSUME now \in Nat, skew \in Int, NEW ans \in Answers, NEW e \in NewEntries(ans)
  PROVE  e \in CacheEntries /\ e.ans = ans
<1>0. L1Ttl \in Nat /\ NegTtl \in Nat /\ StaleIfError \in Nat
  BY ConfigAssumption
<1>1. CASE ans.session = None
  <2>1. e = Tombstone(ans)
    BY <1>1 DEF NewEntries
  <2>2. QED
    BY <2>1, <1>0 DEF Tombstone, CacheEntries
<1>2. CASE ans.session # None
  <2>1. PICK eff \in EffectiveTtls : e = SessionEntry(ans, eff)
    BY <1>2 DEF NewEntries
  <2>2. eff \in Nat
    <3>1. PICK j \in 80..100 : eff = (L1Ttl * j) \div 100
      BY ConfigAssumption DEF EffectiveTtls
    <3>2. L1Ttl * j \in Nat
      BY <1>0
    <3> DEFINE x == L1Ttl * j
    <3> HIDE DEF x
    <3>3. x \in Nat => x \div 100 \in Nat
      OBVIOUS
    <3>4. QED
      BY <3>1, <3>2, <3>3 DEF x
  <2> DEFINE remaining == IF ans.session > Wall THEN ans.session - Wall ELSE 0
             ttl == Lesser(eff, remaining)
  <2>3. ans.session \in Nat
    BY <1>2 DEF Answers
  <2>4. remaining \in Nat
    BY <2>3 DEF Wall
  <2>5. ttl \in Nat
    <3> HIDE DEF remaining
    <3>1. QED
      BY <2>2, <2>4 DEF Lesser
  <2>6. e = [ans |-> ans, fresh_until |-> now + ttl,
             stale_until |-> now + ttl + StaleIfError, effective_ttl |-> eff]
    BY <2>1 DEF SessionEntry
  <2> HIDE DEF ttl
  <2>7. QED
    BY <2>2, <2>5, <2>6, <1>0 DEF CacheEntries
<1>3. QED
  BY <1>1, <1>2

------------------------------------------------------------------------------
\* What the types say of a fill at each stage, and of a call at each step.
LEMMA FlightStages ==
  ASSUME NEW f \in FlightRecords
  PROVE  /\ f.stage = "idle" => f = IdleFlight
         /\ f.stage # "idle" => f.hash \in Hashes /\ f.deadline \in Nat
         /\ f.stage = "asked" => f \in AskedFlights
         /\ f.stage = "answered" => f \in AnsweredFlights
         /\ f.stage = "settled" => f \in SettledFlights
BY DEF FlightRecords, IdleFlight, AskedFlights, AnsweredFlights, SettledFlights

LEMMA CallSteps ==
  ASSUME NEW r \in CallRecords
  PROVE  /\ r.pc = "idle" => r = IdleCall
         /\ r.pc \in {"lookup", "expired", "stale"} => r \in LookingCalls
         /\ r.pc = "join" => r \in JoiningCalls
         /\ r.pc = "waiting" => r \in WaitingCalls
         /\ r.pc = "woken" => r \in WokenCalls
         /\ r.pc = "done" => r \in DoneCalls
BY DEF CallRecords, IdleCall, LookingCalls, JoiningCalls, WaitingCalls, WokenCalls, DoneCalls

------------------------------------------------------------------------------
\* Every step keeps the types.

LEMMA BeginTypes ==
  ASSUME TypeOK, NEW c \in Calls, NEW h \in Hashes, Begin(c, h)
  PROVE  TypeOK'
<1>1. now \in Nat /\ Wall \in Int
  BY DEF TypeOK, Wall
<1>2. NewCall(h) \in LookingCalls
  BY <1>1 DEF LookingCalls, NewCall
<1>3. call' \in [Calls -> CallRecords]
  BY <1>2 DEF TypeOK, CallRecords, Begin
<1>4. QED
  BY <1>3 DEF TypeOK, Begin

\* A step of resolve() up to its await that only moves on to another step.
LEMMA LookingOn ==
  ASSUME TypeOK, NEW c \in Calls, NEW p \in {"expired", "stale"},
         call[c].pc \in {"lookup", "expired"}, call' = [call EXCEPT ![c].pc = p]
  PROVE  call' \in [Calls -> CallRecords]
<1>1. call[c] \in LookingCalls
  BY CallSteps DEF TypeOK
<1>2. [call[c] EXCEPT !.pc = p] \in LookingCalls
  BY <1>1 DEF LookingCalls
<1>3. call' = [call EXCEPT ![c] = [call[c] EXCEPT !.pc = p]]
  BY DEF TypeOK
<1>4. QED
  BY <1>2, <1>3 DEF TypeOK, CallRecords

LEMMA LookupMissTypes ==
  ASSUME TypeOK, NEW c \in Calls, LookupMiss(c)
  PROVE  TypeOK'
BY LookingOn DEF LookupMiss, TypeOK

LEMMA LookupFindsTypes ==
  ASSUME TypeOK, NEW c \in Calls, LookupFinds(c)
  PROVE  /\ CacheOK(cache') /\ cache'.entry = cache.entry
         /\ Found(c) \in CacheEntries
         /\ call[c] \in LookingCalls
<1>1. call[c] \in LookingCalls
  BY CallSteps DEF TypeOK, LookupFinds
<1>2. CacheOK(cache') /\ cache'.entry = cache.entry
  BY PromotedFacts DEF TypeOK, LookupFinds
<1>3. Found(c) \in CacheEntries
  BY DEF TypeOK, LookupFinds, Found, CacheOK
<1>4. QED
  BY <1>1, <1>2, <1>3

LEMMA LookupExpiredTypes ==
  ASSUME TypeOK, NEW c \in Calls, LookupExpired(c)
  PROVE  TypeOK'
<1>1. CacheOK(cache')
  BY LookupFindsTypes DEF LookupExpired
<1>2. call' \in [Calls -> CallRecords]
  BY LookingOn DEF LookupExpired, LookupFinds
<1>3. QED
  BY <1>1, <1>2 DEF LookupExpired, LookupFinds, TypeOK

LEMMA LookupUnfreshTypes ==
  ASSUME TypeOK, NEW c \in Calls, LookupUnfresh(c)
  PROVE  TypeOK'
<1>1. CacheOK(cache')
  BY LookupFindsTypes DEF LookupUnfresh
<1>2. call' \in [Calls -> CallRecords]
  BY LookingOn DEF LookupUnfresh, LookupFinds
<1>3. QED
  BY <1>1, <1>2 DEF LookupUnfresh, LookupFinds, TypeOK

LEMMA LookupHitTypes ==
  ASSUME TypeOK, NEW c \in Calls, LookupYoungHit(c) \/ LookupOldHit(c)
  PROVE  TypeOK'
<1> DEFINE r == [call[c] EXCEPT !.pc = "done", !.result = [kind |-> "hit", ans |-> Found(c).ans]]
<1>1. LookupHit(c) /\ LookupFinds(c)
  BY DEF LookupYoungHit, LookupOldHit, LookupHit
<1>2. /\ CacheOK(cache') /\ Found(c) \in CacheEntries /\ call[c] \in LookingCalls
  BY <1>1, LookupFindsTypes
<1>3. [kind |-> "hit", ans |-> Found(c).ans] \in CallResults
  BY <1>2 DEF CacheEntries, CallResults
<1>4. r \in DoneCalls
  BY <1>2, <1>3 DEF LookingCalls, DoneCalls
<1>5. call' = [call EXCEPT ![c] = r]
  BY <1>1 DEF LookupHit, TypeOK
<1> HIDE DEF r
<1>6. call' \in [Calls -> CallRecords]
  BY <1>4, <1>5 DEF TypeOK, CallRecords
<1>7. refreshers' \in [Hashes -> 0..MaxRefreshers]
  <2>1. CASE LookupYoungHit(c)
    BY <2>1 DEF LookupYoungHit, TypeOK
  <2>2. CASE LookupOldHit(c)
    <3>1. \A n \in 0..MaxRefreshers : Lesser(n + 1, MaxRefreshers) \in 0..MaxRefreshers
      BY BoundAssumption DEF Lesser
    <3>2. call[c].hash \in Hashes
      BY <1>2 DEF LookingCalls
    <3>3. QED
      BY <2>2, <3>1, <3>2 DEF LookupOldHit, TypeOK
  <2>3. QED
    BY <2>1, <2>2
<1>8. QED
  BY <1>1, <1>2, <1>6, <1>7 DEF LookupFinds, TypeOK

LEMMA DropExpiredTypes ==
  ASSUME TypeOK, NEW c \in Calls, DropExpired(c)
  PROVE  TypeOK'
<1>1. CacheOK(cache')
  BY WithoutFacts DEF DropExpired, TypeOK
<1>2. call' \in [Calls -> CallRecords]
  BY LookingOn DEF DropExpired
<1>3. QED
  BY <1>1, <1>2 DEF DropExpired, TypeOK

LEMMA StaleCandidateTypes ==
  ASSUME TypeOK, NEW c \in Calls, StaleCandidate(c)
  PROVE  TypeOK'
<1>1. call[c] \in LookingCalls
  BY CallSteps DEF StaleCandidate, TypeOK
<1>2. \A e \in {cache.entry[k] : k \in Keys(cache) \cap {call[c].hash}} : e \in CacheEntries
  BY DEF TypeOK, CacheOK
<1>3. \/ call' = [call EXCEPT ![c].pc = "join"]
      \/ \E e \in CacheEntries : call' = [call EXCEPT ![c].pc = "join", ![c].stale = e]
  BY <1>2 DEF StaleCandidate
<1>4. CASE call' = [call EXCEPT ![c].pc = "join"]
  <2>1. [call[c] EXCEPT !.pc = "join"] \in JoiningCalls
    BY <1>1 DEF LookingCalls, JoiningCalls
  <2>2. call' = [call EXCEPT ![c] = [call[c] EXCEPT !.pc = "join"]]
    BY <1>4 DEF TypeOK
  <2>3. call' \in [Calls -> CallRecords]
    BY <2>1, <2>2 DEF TypeOK, CallRecords
  <2>4. QED
    BY <2>3 DEF StaleCandidate, TypeOK
<1>5. ASSUME NEW e \in CacheEntries,
             call' = [call EXCEPT ![c].pc = "join", ![c].stale = e]
      PROVE  TypeOK'
  <2>1. [call[c] EXCEPT !.pc = "join", !.stale = e] \in JoiningCalls
    BY <1>1 DEF LookingCalls, JoiningCalls
  <2>2. call' = [call EXCEPT ![c] = [call[c] EXCEPT !.pc = "join", !.stale = e]]
    BY <1>5 DEF TypeOK
  <2>3. call' \in [Calls -> CallRecords]
    BY <2>1, <2>2 DEF TypeOK, CallRecords
  <2>4. QED
    BY <2>3 DEF StaleCandidate, TypeOK
<1>6. QED
  BY <1>3, <1>4, <1>5

LEMMA LaunchTypes ==
  ASSUME TypeOK, NEW h \in Hashes, NEW i \in Flights, Launch(h, i)
  PROVE  /\ inflight' \in [Hashes -> Flights \cup {None}]
         /\ flight' \in [Flights -> FlightRecords]
<1>1. now + FetchTimeout \in Nat
  BY ConfigAssumption DEF TypeOK
<1>2. NewFlight(h) \in AskedFlights
  BY <1>1 DEF NewFlight, AskedFlights
<1>3. QED
  BY <1>2 DEF Launch, TypeOK, FlightRecords

\* The caller leaves for its await.
LEMMA JoinCallTypes ==
  ASSUME TypeOK, NEW c \in Calls, NEW i \in Flights, call[c].pc = "join",
         call' = [call EXCEPT ![c].pc = "waiting", ![c].flight = i]
  PROVE  call' \in [Calls -> CallRecords]
<1>1. call[c] \in JoiningCalls
  BY CallSteps DEF TypeOK
<1>2. [call[c] EXCEPT !.pc = "waiting", !.flight = i] \in WaitingCalls
  BY <1>1 DEF JoiningCalls, WaitingCalls
<1>3. call' = [call EXCEPT ![c] = [call[c] EXCEPT !.pc = "waiting", !.flight = i]]
  BY DEF TypeOK
<1>4. QED
  BY <1>2, <1>3 DEF TypeOK, CallRecords

LEMMA JoinTypes ==
  ASSUME TypeOK, NEW c \in Calls,
         JoinExisting(c) \/ \E i \in Flights : JoinNew(c, i)
  PROVE  TypeOK'
<1>1. CASE JoinExisting(c)
  <2>0. call[c] \in JoiningCalls
    BY <1>1, CallSteps DEF JoinExisting, TypeOK
  <2>1. call[c].hash \in Hashes
    BY <2>0 DEF JoiningCalls
  <2>2. inflight[call[c].hash] \in Flights
    BY <1>1, <2>1 DEF JoinExisting, TypeOK
  <2>3. call' \in [Calls -> CallRecords]
    BY <1>1, <2>2, JoinCallTypes DEF JoinExisting
  <2>4. QED
    BY <1>1, <2>3 DEF JoinExisting, TypeOK
<1>2. ASSUME NEW i \in Flights, JoinNew(c, i)
      PROVE  TypeOK'
  <2>0. call[c] \in JoiningCalls
    BY <1>2, CallSteps DEF JoinNew, TypeOK
  <2>1. call[c].hash \in Hashes
    BY <2>0 DEF JoiningCalls
  <2>2. /\ inflight' \in [Hashes -> Flights \cup {None}]
        /\ flight' \in [Flights -> FlightRecords]
    BY <1>2, <2>1, LaunchTypes DEF JoinNew
  <2>3. call' \in [Calls -> CallRecords]
    BY <1>2, JoinCallTypes DEF JoinNew
  <2>4. QED
    BY <1>2, <2>2, <2>3 DEF JoinNew, TypeOK
<1>3. QED
  BY <1>1, <1>2

LEMMA RefreshTypes ==
  ASSUME TypeOK, NEW h \in Hashes, RefreshStep(h)
  PROVE  TypeOK'
<1>1. CASE RefreshExisting(h)
  BY <1>1, BoundAssumption DEF RefreshExisting, TypeOK
<1>2. ASSUME NEW i \in Flights, RefreshNew(h, i)
      PROVE  TypeOK'
  <2>1. /\ inflight' \in [Hashes -> Flights \cup {None}]
        /\ flight' \in [Flights -> FlightRecords]
    BY <1>2, LaunchTypes DEF RefreshNew
  <2>2. refreshers' \in [Hashes -> 0..MaxRefreshers]
    BY <1>2, BoundAssumption DEF RefreshNew, TypeOK
  <2>3. QED
    BY <1>2, <2>1, <2>2 DEF RefreshNew, TypeOK
<1>3. QED
  BY <1>1, <1>2 DEF RefreshStep

LEMMA CancelTypes ==
  ASSUME TypeOK, NEW c \in Calls, Cancel(c)
  PROVE  TypeOK'
BY DEF Cancel, TypeOK, CallRecords

LEMMA ResumeTypes ==
  ASSUME TypeOK, NEW c \in Calls, Resume(c)
  PROVE  TypeOK'
<1> DEFINE r == [call[c] EXCEPT !.pc = "done", !.stale = None]
<1>1. call[c] \in WokenCalls
  BY CallSteps DEF Resume, TypeOK
<1>2. r \in DoneCalls
  BY <1>1 DEF WokenCalls, DoneCalls, CallResults
<1>3. call' = [call EXCEPT ![c] = r]
  BY DEF Resume, TypeOK
<1> HIDE DEF r
<1>4. call' \in [Calls -> CallRecords]
  BY <1>2, <1>3 DEF TypeOK, CallRecords
<1>5. QED
  BY <1>4 DEF Resume, TypeOK

LEMMA ResumeStaleTypes ==
  ASSUME TypeOK, NEW c \in Calls, ResumeStale(c)
  PROVE  TypeOK'
<1> DEFINE s == [kind |-> "stale", ans |-> call[c].stale.ans]
           r == [call[c] EXCEPT !.pc = "done", !.stale = None, !.result = s]
<1>1. call[c] \in WokenCalls
  BY CallSteps DEF ResumeStale, TypeOK
<1>2. call[c].stale \in CacheEntries
  BY <1>1 DEF ResumeStale, WokenCalls
<1>3. s \in CallResults
  BY <1>2 DEF CacheEntries, CallResults
<1>4. call' = [call EXCEPT ![c] = r]
  BY DEF ResumeStale, TypeOK
<1> HIDE DEF s
<1>5. r \in DoneCalls
  BY <1>1, <1>3 DEF WokenCalls, DoneCalls
<1> HIDE DEF r
<1>6. call' \in [Calls -> CallRecords]
  BY <1>4, <1>5 DEF TypeOK, CallRecords
<1>7. QED
  BY <1>6 DEF ResumeStale, TypeOK

LEMMA AnswerTypes ==
  ASSUME TypeOK, NEW i \in Flights, Answer(i)
  PROVE  TypeOK'
<1> DEFINE s    == server[flight[i].hash]
           live == IF s.session # None /\ s.session > now THEN s.session ELSE None
           ans  == [session |-> live, ver |-> s.ver, asOf |-> now]
           f    == [flight[i] EXCEPT !.stage = "answered", !.result = Ok(ans)]
<1>1. flight[i] \in AskedFlights
  BY FlightStages DEF Answer, TypeOK
<1>2. s \in [ver : Nat, session : Nat \cup {None}]
  BY <1>1 DEF AskedFlights, TypeOK
<1>3. ans \in Answers
  <2> HIDE DEF s
  <2>1. QED
    BY <1>2 DEF Answers, TypeOK
<1> HIDE DEF ans
<1>4. f \in AnsweredFlights
  BY <1>1, <1>3 DEF AskedFlights, AnsweredFlights, Ok
<1>5. flight' = [flight EXCEPT ![i] = f]
  BY DEF Answer, TypeOK, ans
<1> HIDE DEF f
<1>6. flight' \in [Flights -> FlightRecords]
  BY <1>4, <1>5 DEF TypeOK, FlightRecords
<1>7. QED
  BY <1>6 DEF Answer, TypeOK

LEMMA StoreTypes ==
  ASSUME TypeOK, NEW i \in Flights, Store(i)
  PROVE  TypeOK'
<1> DEFINE f == [flight[i] EXCEPT !.stage = "settled"]
<1>1. flight[i] \in AnsweredFlights
  BY FlightStages DEF Store, TypeOK
<1>2. flight[i].hash \in Hashes /\ flight[i].result.ans \in Answers
  BY <1>1 DEF AnsweredFlights
<1>3. f \in SettledFlights
  BY <1>1 DEF AnsweredFlights, SettledFlights, FillResults
<1>4. flight' = [flight EXCEPT ![i] = f]
  BY DEF Store, TypeOK
<1> HIDE DEF f
<1>5. flight' \in [Flights -> FlightRecords]
  BY <1>3, <1>4 DEF TypeOK, FlightRecords
<1>6. CacheOK(cache')
  <2>1. PICK e \in NewEntries(flight[i].result.ans) :
          cache' = Inserted(cache, flight[i].hash, e, Capacity)
    BY DEF Store
  <2>2. e \in CacheEntries
    BY <1>2, NewEntriesFacts DEF TypeOK
  <2>3. QED
    BY <1>2, <2>1, <2>2, InsertedFacts DEF TypeOK
<1>7. QED
  BY <1>5, <1>6 DEF Store, TypeOK

LEMMA FailTypes ==
  ASSUME TypeOK, NEW i \in Flights, NEW kind \in ErrorKinds, Fail(i, kind)
  PROVE  TypeOK'
<1> DEFINE f == [flight[i] EXCEPT !.stage = "settled", !.result = Error(kind)]
<1>1. flight[i].hash \in Hashes /\ flight[i].deadline \in Nat
  BY FlightStages DEF Fail, Pending, TypeOK
<1>2. flight[i] \in AskedFlights \cup AnsweredFlights
  BY FlightStages DEF Fail, Pending, TypeOK
<1>3. Error(kind) \in FillResults
  BY DEF Error, FillResults
<1>4. f \in SettledFlights
  BY <1>2, <1>3 DEF AskedFlights, AnsweredFlights, SettledFlights
<1>5. flight' = [flight EXCEPT ![i] = f]
  BY DEF Fail, TypeOK
<1> HIDE DEF f
<1>6. flight' \in [Flights -> FlightRecords]
  BY <1>4, <1>5 DEF TypeOK, FlightRecords
<1>7. QED
  BY <1>6 DEF Fail, TypeOK

LEMMA FinishTypes ==
  ASSUME TypeOK, NEW i \in Flights, Finish(i)
  PROVE  TypeOK'
<1>1. flight[i] \in SettledFlights
  BY FlightStages DEF Finish, TypeOK
<1>2. flight[i].hash \in Hashes /\ flight[i].result \in FillResults
  BY <1>1 DEF SettledFlights
<1>3. inflight' \in [Hashes -> Flights \cup {None}]
  BY <1>2 DEF Finish, TypeOK
<1>4. flight' \in [Flights -> FlightRecords]
  BY DEF Finish, TypeOK, FlightRecords
<1>5. call' \in [Calls -> CallRecords]
  <2>1. ASSUME NEW c \in Calls, call[c].pc = "waiting"
        PROVE  [call[c] EXCEPT !.pc = "woken", !.flight = None, !.result = flight[i].result]
                 \in CallRecords
    <3>1. call[c] \in WaitingCalls
      BY <2>1, CallSteps DEF TypeOK
    <3> DEFINE res == flight[i].result
    <3>2. res \in FillResults
      BY <1>2
    <3> HIDE DEF res
    <3>3. [call[c] EXCEPT !.pc = "woken", !.flight = None, !.result = res] \in WokenCalls
      BY <3>1, <3>2 DEF WaitingCalls, WokenCalls
    <3>4. QED
      BY <3>3 DEF CallRecords, res
  <2>2. \A c \in Calls : call'[c] \in CallRecords
    BY <2>1 DEF Finish, TypeOK
  <2>3. QED
    BY <2>2 DEF Finish
<1>6. QED
  BY <1>3, <1>4, <1>5 DEF Finish, TypeOK

LEMMA FlightTypes ==
  ASSUME TypeOK, NEW i \in Flights, FlightStep(i)
  PROVE  TypeOK'
BY AnswerTypes, StoreTypes, FailTypes, FinishTypes DEF FlightStep, Timeout, ErrorKinds

LEMMA CallTypes ==
  ASSUME TypeOK, NEW c \in Calls, CallStep(c)
  PROVE  TypeOK'
BY LookupMissTypes, LookupExpiredTypes, LookupUnfreshTypes, LookupHitTypes, DropExpiredTypes,
   StaleCandidateTypes, JoinTypes, ResumeTypes, ResumeStaleTypes DEF CallStep

LEMMA OutsideTypes ==
  ASSUME TypeOK, Tick \/ StepWall \/ \E h \in Hashes : Evict(h) \/ ServerChange(h)
  PROVE  TypeOK'
<1>1. CASE Tick
  <2>1. now' \in Nat
    BY <1>1, ClockAssumption DEF Tick, TypeOK
  <2>2. QED
    BY <1>1, <2>1 DEF Tick, TypeOK
<1>2. CASE StepWall
  BY <1>2, ClockAssumption DEF StepWall, TypeOK
<1>3. ASSUME NEW h \in Hashes, Evict(h)
      PROVE  TypeOK'
  BY <1>3, WithoutFacts DEF Evict, TypeOK
<1>4. ASSUME NEW h \in Hashes, ServerChange(h)
      PROVE  TypeOK'
  <2>1. PICK s \in Expiries \cup {None} :
          server' = [server EXCEPT ![h] = [ver |-> server[h].ver + 1, session |-> s]]
    BY <1>4 DEF ServerChange
  <2>2. [ver |-> server[h].ver + 1, session |-> s] \in [ver : Nat, session : Nat \cup {None}]
    BY ClockAssumption DEF TypeOK
  <2>3. server' \in [Hashes -> [ver : Nat, session : Nat \cup {None}]]
    BY <2>1, <2>2 DEF TypeOK
  <2>4. QED
    BY <1>4, <2>3 DEF ServerChange, TypeOK
<1>5. QED
  BY <1>1, <1>2, <1>3, <1>4

LEMMA InitTypes ==
  ASSUME Init
  PROVE  TypeOK
<1>1. server \in [Hashes -> [ver : Nat, session : Nat \cup {None}]]
  <2>1. Expiries \cup {None} \subseteq Nat \cup {None}
    BY ClockAssumption
  <2> DEFINE S == Expiries \cup {None}
             T == Nat \cup {None}
  <2>2. server \in [Hashes -> [ver : {0}, session : S]]
    BY DEF Init
  <2>3. S \subseteq T
    BY <2>1
  <2> HIDE DEF S, T
  <2>4. [ver : {0}, session : S] \subseteq [ver : Nat, session : T]
    BY <2>3
  <2>5. server \in [Hashes -> [ver : Nat, session : T]]
    BY <2>2, <2>4
  <2>6. QED
    BY <2>5 DEF T
<1>2. CacheOK(cache)
  BY DEF Init, CacheOK, Empty, Keys
<1>3. /\ flight \in [Flights -> FlightRecords]
      /\ call \in [Calls -> CallRecords]
  BY DEF Init, FlightRecords, CallRecords
<1>4. refreshers \in [Hashes -> 0..MaxRefreshers]
  BY BoundAssumption DEF Init
<1>5. QED
  BY <1>1, <1>2, <1>3, <1>4 DEF Init, TypeOK

LEMMA NextTypes ==
  ASSUME TypeOK, [Next]_vars
  PROVE  TypeOK'
<1>1. CASE Next
  BY <1>1, CallTypes, CancelTypes, BeginTypes, RefreshTypes, FlightTypes, OutsideTypes
  DEF Next, ResolverStep
<1>2. CASE UNCHANGED vars
  BY <1>2 DEF vars, TypeOK
<1>3. QED
  BY <1>1, <1>2

\* The state is always well typed, and a fill and a call hold at each stage
\* just what the code has given them there (resolve, fill, SingleFlight::run).
THEOREM TypeCorrect == Spec => []TypeOK
<1>1. Init => TypeOK
  BY InitTypes
<1>2. TypeOK /\ [Next]_vars => TypeOK'
  BY NextTypes
<1>3. QED
  BY <1>1, <1>2, PTL DEF Spec

------------------------------------------------------------------------------
\* The single-flight table and the fills agree: a fill is the one registered
\* for its hash until it ends, and what is registered is a fill of that hash.
Registered ==
  /\ \A i \in Flights : Busy(i) => inflight[flight[i].hash] = i
  /\ \A h \in Hashes : inflight[h] # None =>
       Busy(inflight[h]) /\ flight[inflight[h]].hash = h

\* A new fill registers itself where none was registered.
LEMMA LaunchRegistered ==
  ASSUME TypeOK, Registered, NEW h \in Hashes, NEW i \in Flights, Launch(h, i)
  PROVE  Registered'
<1>1. /\ inflight[h] = None /\ flight[i].stage = "idle"
      /\ inflight' = [inflight EXCEPT ![h] = i]
      /\ flight' = [flight EXCEPT ![i] = NewFlight(h)]
  BY DEF Launch, Busy
<1>2. /\ NewFlight(h).stage = "asked" /\ NewFlight(h).hash = h
  BY DEF NewFlight
<1> DEFINE f == NewFlight(h)
<1> HIDE DEF f
<1>3. ASSUME NEW j \in Flights, flight'[j].stage # "idle"
      PROVE  inflight'[flight'[j].hash] = j
  <2>1. CASE j = i
    BY <1>1, <1>2, <2>1 DEF TypeOK
  <2>2. CASE j # i
    <3>1. flight'[j] = flight[j] /\ flight[j].stage # "idle"
      BY <1>1, <1>3, <2>2 DEF TypeOK
    <3>2. inflight[flight[j].hash] = j /\ flight[j].hash \in Hashes
      BY <3>1, FlightStages DEF Registered, Busy, TypeOK
    <3>3. flight[j].hash # h
      BY <1>1, <3>2, NoneAssumption
    <3>4. QED
      BY <1>1, <3>1, <3>2, <3>3 DEF TypeOK
  <2>3. QED
    BY <2>1, <2>2
<1>4. ASSUME NEW g \in Hashes, inflight'[g] # None
      PROVE  flight'[inflight'[g]].stage # "idle" /\ flight'[inflight'[g]].hash = g
  <2>1. CASE g = h
    BY <1>1, <1>2, <2>1 DEF TypeOK
  <2>2. CASE g # h
    <3>1. inflight'[g] = inflight[g] /\ inflight[g] \in Flights
      BY <1>1, <1>4, <2>2 DEF TypeOK
    <3>2. flight[inflight[g]].stage # "idle" /\ flight[inflight[g]].hash = g
      BY <1>4, <3>1 DEF Registered, Busy
    <3>3. flight'[inflight[g]] = flight[inflight[g]]
      BY <1>1, <3>1, <3>2 DEF TypeOK
    <3>4. QED
      BY <3>1, <3>2, <3>3
  <2>3. QED
    BY <2>1, <2>2
<1>5. QED
  BY <1>3, <1>4 DEF Registered, Busy

\* A fill that only moves on stays registered.
LEMMA StageRegistered ==
  ASSUME TypeOK, Registered, NEW i \in Flights, Answer(i) \/ Store(i)
                                \/ \E kind \in ErrorKinds : Fail(i, kind)
  PROVE  Registered'
<1>1. /\ inflight' = inflight
      /\ flight[i].stage # "idle"
      /\ flight'[i].stage # "idle" /\ flight'[i].hash = flight[i].hash
      /\ \A j \in Flights \ {i} : flight'[j] = flight[j]
  <2>1. flight[i].stage \in {"asked", "answered"}
    BY DEF Answer, Store, Fail, Pending
  <2>2. flight[i] \in AskedFlights \cup AnsweredFlights
    BY <2>1, FlightStages DEF TypeOK
  <2>3. CASE Answer(i)
    BY <2>2, <2>3 DEF Answer, AskedFlights, AnsweredFlights, TypeOK
  <2>4. CASE Store(i)
    BY <2>2, <2>4 DEF Store, AskedFlights, AnsweredFlights, TypeOK
  <2>5. CASE \E kind \in ErrorKinds : Fail(i, kind)
    <3>1. PICK e : flight' = [flight EXCEPT ![i].stage = "settled", ![i].result = e]
      BY <2>5 DEF Fail
    <3>2. inflight' = inflight
      BY <2>5 DEF Fail
    <3>3. QED
      BY <2>2, <3>1, <3>2 DEF AskedFlights, AnsweredFlights, TypeOK
  <2>6. QED
    BY <2>3, <2>4, <2>5
<1>2. \A j \in Flights : /\ flight'[j].stage # "idle" <=> flight[j].stage # "idle"
                         /\ flight'[j].hash = flight[j].hash
  BY <1>1
<1>3. QED
  BY <1>1, <1>2 DEF Registered, Busy, TypeOK

\* A fill that ends takes its own registration with it, and no other.
LEMMA FinishRegistered ==
  ASSUME TypeOK, Registered, NEW i \in Flights, Finish(i)
  PROVE  Registered'
<1> DEFINE h == flight[i].hash
<1>1. /\ flight[i].stage # "idle" /\ h \in Hashes
      /\ flight' = [flight EXCEPT ![i] = IdleFlight]
  BY FlightStages DEF Finish, TypeOK
<1>2. inflight[h] = i
  BY <1>1 DEF Registered, Busy
<1>3. inflight' = [inflight EXCEPT ![h] = None]
  BY <1>2 DEF Finish
<1> HIDE DEF h
<1>4. ASSUME NEW j \in Flights, flight'[j].stage # "idle"
      PROVE  inflight'[flight'[j].hash] = j
  <2>1. j # i
    BY <1>1, <1>4 DEF IdleFlight, TypeOK
  <2>2. flight'[j] = flight[j]
    BY <1>1, <2>1 DEF TypeOK
  <2>3. inflight[flight[j].hash] = j /\ flight[j].hash \in Hashes
    BY <1>4, <2>2, FlightStages DEF Registered, Busy, TypeOK
  <2>4. flight[j].hash # h
    BY <1>2, <2>1, <2>3
  <2>5. QED
    BY <1>3, <2>2, <2>3, <2>4 DEF TypeOK
<1>5. ASSUME NEW g \in Hashes, inflight'[g] # None
      PROVE  flight'[inflight'[g]].stage # "idle" /\ flight'[inflight'[g]].hash = g
  <2>1. g # h /\ inflight'[g] = inflight[g] /\ inflight[g] \in Flights
    BY <1>1, <1>3, <1>5 DEF TypeOK
  <2>2. flight[inflight[g]].stage # "idle" /\ flight[inflight[g]].hash = g
    BY <1>5, <2>1 DEF Registered, Busy
  <2>3. inflight[g] # i
    BY <2>1, <2>2 DEF h
  <2>4. QED
    BY <1>1, <2>1, <2>2, <2>3 DEF TypeOK
<1>6. QED
  BY <1>4, <1>5 DEF Registered, Busy

LEMMA NextRegistered ==
  ASSUME TypeOK, Registered, [Next]_vars
  PROVE  Registered'
<1>1. CASE UNCHANGED <<inflight, flight>>
  BY <1>1 DEF Registered, Busy
<1>2. ASSUME NEW c \in Calls, NEW i \in Flights, JoinNew(c, i)
      PROVE  Registered'
  <2>1. call[c] \in JoiningCalls
    BY <1>2, CallSteps DEF JoinNew, TypeOK
  <2>2. call[c].hash \in Hashes
    BY <2>1 DEF JoiningCalls
  <2>3. QED
    BY <1>2, <2>2, LaunchRegistered DEF JoinNew
<1>3. ASSUME NEW h \in Hashes, NEW i \in Flights, RefreshNew(h, i)
      PROVE  Registered'
  BY <1>3, LaunchRegistered DEF RefreshNew
<1>4. ASSUME NEW i \in Flights, FlightStep(i)
      PROVE  Registered'
  BY <1>4, StageRegistered, FinishRegistered DEF FlightStep, Timeout, ErrorKinds
<1>5. ASSUME NEW c \in Calls, CallStep(c)
      PROVE  Registered'
  BY <1>1, <1>2, <1>5
  DEF CallStep, LookupMiss, LookupExpired, LookupUnfresh, LookupYoungHit, LookupOldHit,
      LookupHit, LookupFinds, DropExpired, StaleCandidate, JoinExisting, Resume, ResumeStale
<1>6. ASSUME NEW h \in Hashes, RefreshStep(h)
      PROVE  Registered'
  BY <1>1, <1>3, <1>6 DEF RefreshStep, RefreshExisting
<1>7. QED
  BY <1>1, <1>4, <1>5, <1>6
  DEF Next, ResolverStep, vars, Cancel, Begin, Tick, StepWall, Evict, ServerChange

\* A token has at most one fill at any time, for any number of callers,
\* refresh-ahead tasks, cancelled leaders and evictions (SingleFlight::run).
THEOREM SingleFlight == Spec => []OneFillPerHash
<1>1. Init => Registered
  BY DEF Init, Registered, Busy, IdleFlight
<1>2. TypeOK /\ Registered /\ [Next]_vars => Registered'
  BY NextRegistered
<1>3. Registered => OneFillPerHash
  BY DEF Registered, OneFillPerHash
<1>4. QED
  BY <1>1, <1>2, <1>3, TypeCorrect, PTL DEF Spec

------------------------------------------------------------------------------
\* An answer about h that the authority has given by now.
Given(h, a) == a.asOf <= now /\ a.ver <= server[h].ver

\* Answer b was not given before answer a.
NotBefore(a, b) == a.ver <= b.ver /\ a.asOf <= b.asOf

\* Nobody holds an answer from the future, and an answer that is still on its
\* way to the cache is not older than the one it will replace.
Ordered ==
  /\ \A h \in Keys(cache) : Given(h, cache.entry[h].ans)
  /\ \A i \in Flights : flight[i].stage = "answered" =>
       /\ Given(flight[i].hash, flight[i].result.ans)
       /\ flight[i].hash \in Keys(cache) =>
            NotBefore(cache.entry[flight[i].hash].ans, flight[i].result.ans)

\* The fill holds an answer of the authority: on its way to the cache, or past it.
HoldsAnswer(f) ==
  f.stage = "answered" \/ (f.stage = "settled" /\ f.result.kind = "fill")

\* What all steps but Answer and Store do to entries, answers and the clock.
Keeping ==
  /\ \A h \in Keys(cache') : h \in Keys(cache) /\ cache'.entry[h] = cache.entry[h]
  /\ \A i \in Flights : HoldsAnswer(flight'[i]) => flight'[i] = flight[i]
  /\ now <= now'
  /\ \A h \in Hashes : server[h].ver <= server'[h].ver

LEMMA EntryAnswers ==
  ASSUME TypeOK, NEW h \in Keys(cache)
  PROVE  /\ h \in Hashes
         /\ cache.entry[h].ans \in Answers
         /\ cache.entry[h].ans.ver \in Nat /\ cache.entry[h].ans.asOf \in Nat
<1>1. h \in Hashes /\ cache.entry[h] \in CacheEntries
  BY DEF TypeOK, CacheOK
<1>2. cache.entry[h].ans \in Answers
  BY <1>1 DEF CacheEntries
<1>3. QED
  BY <1>1, <1>2 DEF Answers

LEMMA FlightAnswers ==
  ASSUME TypeOK, NEW i \in Flights, flight[i].stage = "answered"
  PROVE  /\ flight[i].hash \in Hashes
         /\ flight[i].result.ans \in Answers
         /\ flight[i].result.ans.ver \in Nat /\ flight[i].result.ans.asOf \in Nat
<1>1. flight[i] \in AnsweredFlights
  BY FlightStages DEF TypeOK
<1>2. flight[i].hash \in Hashes /\ flight[i].result.ans \in Answers
  BY <1>1 DEF AnsweredFlights
<1>3. QED
  BY <1>2 DEF Answers

LEMMA KeepingOrdered ==
  ASSUME TypeOK, TypeOK', Ordered, Keeping
  PROVE  Ordered'
<1>1. /\ now \in Nat /\ now' \in Nat /\ now <= now'
      /\ \A h \in Hashes : /\ server[h].ver \in Nat /\ server'[h].ver \in Nat
                           /\ server[h].ver <= server'[h].ver
  BY DEF TypeOK, Keeping
<1>2. ASSUME NEW h \in Hashes, NEW a, a.ver \in Nat, a.asOf \in Nat, Given(h, a)
      PROVE  Given(h, a)'
  BY <1>1, <1>2 DEF Given
<1>3. ASSUME NEW h \in Keys(cache')
      PROVE  Given(h, cache.entry[h].ans)'
  <2>1. h \in Keys(cache) /\ cache'.entry[h] = cache.entry[h]
    BY <1>3 DEF Keeping
  <2>2. /\ h \in Hashes /\ cache.entry[h].ans.ver \in Nat /\ cache.entry[h].ans.asOf \in Nat
        /\ cache.entry[h].ans.asOf <= now /\ cache.entry[h].ans.ver <= server[h].ver
    BY <2>1, EntryAnswers DEF Ordered, Given
  <2>3. cache.entry[h].ans.asOf <= now' /\ cache.entry[h].ans.ver <= server'[h].ver
    BY <1>1, <2>2
  <2>4. QED
    BY <2>1, <2>3 DEF Given
<1>4. ASSUME NEW i \in Flights, flight'[i].stage = "answered"
      PROVE  /\ Given(flight[i].hash, flight[i].result.ans)'
             /\ flight'[i].hash \in Keys(cache') =>
                  NotBefore(cache.entry[flight[i].hash].ans, flight[i].result.ans)'
  <2>1. flight'[i] = flight[i] /\ flight[i].stage = "answered"
    BY <1>4 DEF Keeping, HoldsAnswer
  <2> DEFINE a == flight[i].result.ans
             h == flight[i].hash
  <2>2. /\ h \in Hashes /\ a.ver \in Nat /\ a.asOf \in Nat
        /\ a.asOf <= now /\ a.ver <= server[h].ver
    BY <2>1, FlightAnswers DEF Ordered, Given
  <2>3. a.asOf <= now' /\ a.ver <= server'[h].ver
    BY <1>1, <2>2
  <2>4. h \in Keys(cache') => NotBefore(cache'.entry[h].ans, a)
    BY <2>1 DEF Ordered, Keeping
  <2>5. QED
    BY <2>1, <2>3, <2>4 DEF Given, NotBefore
<1>5. QED
  BY <1>3, <1>4 DEF Ordered

\* The authority answers with what it has now.
LEMMA AnswerOrdered ==
  ASSUME TypeOK, Ordered, NEW i \in Flights, Answer(i)
  PROVE  Ordered'
<1> DEFINE h == flight[i].hash
           s == server[h]
           a == flight'[i].result.ans
<1>1. flight[i] \in AskedFlights
  BY FlightStages DEF Answer, TypeOK
<1>2. h \in Hashes /\ s.ver \in Nat /\ now \in Nat
  BY <1>1 DEF AskedFlights, TypeOK
<1>3. /\ a.ver = s.ver /\ a.asOf = now /\ flight'[i].hash = h
      /\ \A j \in Flights \ {i} : flight'[j] = flight[j]
  BY <1>1 DEF Answer, AskedFlights, Ok, TypeOK
<1>4. /\ cache' = cache /\ now' = now /\ server' = server
  BY DEF Answer
<1>5. a.asOf <= now' /\ a.ver <= server'[h].ver
  BY <1>2, <1>3, <1>4
<1>6. h \in Keys(cache) => NotBefore(cache.entry[h].ans, a)
  BY <1>3, EntryAnswers DEF Ordered, Given, NotBefore
<1> HIDE DEF a, h, s
<1>7. ASSUME NEW j \in Flights, flight'[j].stage = "answered"
      PROVE  /\ Given(flight[j].hash, flight[j].result.ans)'
             /\ flight'[j].hash \in Keys(cache') =>
                  NotBefore(cache.entry[flight[j].hash].ans, flight[j].result.ans)'
  <2>1. CASE j = i
    BY <1>3, <1>4, <1>5, <1>6, <2>1 DEF a, h, Given, NotBefore
  <2>2. CASE j # i
    BY <1>3, <1>4, <1>7, <2>2 DEF Ordered, Given, NotBefore
  <2>3. QED
    BY <2>1, <2>2
<1>8. QED
  BY <1>4, <1>7 DEF Ordered, Given

\* A fill stores its answer: single flight keeps the answers of other fills
\* of the same hash away.
LEMMA StoreFacts ==
  ASSUME TypeOK, NEW i \in Flights, Store(i)
  PROVE  /\ flight[i].stage = "answered" /\ flight[i].hash \in Hashes
         /\ \A h \in Keys(cache') :
              \/ h \in Keys(cache) /\ cache'.entry[h] = cache.entry[h]
              \/ h = flight[i].hash /\ cache'.entry[h].ans = flight[i].result.ans
         /\ flight'[i].stage = "settled"
         /\ \A j \in Flights \ {i} : flight'[j] = flight[j]
         /\ now' = now /\ server' = server
<1>1. flight[i].stage = "answered" /\ flight[i].hash \in Hashes /\ flight[i].result.ans \in Answers
  BY FlightAnswers DEF Store
<1>2. PICK e \in NewEntries(flight[i].result.ans) :
        cache' = Inserted(cache, flight[i].hash, e, Capacity)
  BY DEF Store
<1>3. e \in CacheEntries /\ e.ans = flight[i].result.ans
  BY <1>1, NewEntriesFacts DEF TypeOK
<1>4. \A h \in Keys(cache') : \/ cache'.entry[h] = e /\ h = flight[i].hash
                              \/ h \in Keys(cache) /\ cache'.entry[h] = cache.entry[h]
  BY <1>1, <1>2, <1>3, InsertedFacts DEF TypeOK
<1>5. /\ flight'[i].stage = "settled"
      /\ \A j \in Flights \ {i} : flight'[j] = flight[j]
  <2>1. flight[i] \in AnsweredFlights
    BY <1>1, FlightStages DEF TypeOK
  <2>2. QED
    BY <2>1 DEF Store, AnsweredFlights, TypeOK
<1>6. QED
  BY <1>1, <1>3, <1>4, <1>5 DEF Store

LEMMA StoreOrdered ==
  ASSUME TypeOK, Registered, Ordered, NEW i \in Flights, Store(i)
  PROVE  Ordered'
<1>1. /\ flight[i].stage = "answered" /\ flight[i].hash \in Hashes
      /\ \A h \in Keys(cache') :
           \/ h \in Keys(cache) /\ cache'.entry[h] = cache.entry[h]
           \/ h = flight[i].hash /\ cache'.entry[h].ans = flight[i].result.ans
      /\ flight'[i].stage = "settled"
      /\ \A j \in Flights \ {i} : flight'[j] = flight[j]
      /\ now' = now /\ server' = server
  BY StoreFacts
<1>2. \A h \in Keys(cache') : Given(h, cache.entry[h].ans)'
  BY <1>1 DEF Ordered, Given
<1>3. ASSUME NEW j \in Flights, flight'[j].stage = "answered"
      PROVE  /\ Given(flight[j].hash, flight[j].result.ans)'
             /\ flight'[j].hash \in Keys(cache') =>
                  NotBefore(cache.entry[flight[j].hash].ans, flight[j].result.ans)'
  <2>1. j # i /\ flight'[j] = flight[j] /\ flight[j].stage = "answered"
    BY <1>1, <1>3
  <2>2. flight[j].hash # flight[i].hash
    BY <1>1, <2>1 DEF Registered, Busy
  <2>3. flight[j].hash \in Keys(cache') =>
          flight[j].hash \in Keys(cache) /\ cache'.entry[flight[j].hash] = cache.entry[flight[j].hash]
    BY <1>1, <2>2
  <2>4. QED
    BY <1>1, <2>1, <2>3 DEF Ordered, Given, NotBefore
<1>4. QED
  BY <1>2, <1>3 DEF Ordered

\* A cache that was left alone, promoted or deprived of a key.
EntriesKept == \A h \in Keys(cache') : h \in Keys(cache) /\ cache'.entry[h] = cache.entry[h]

\* No fill has received an answer, or stored one.
NoneAnswered == \A i \in Flights : HoldsAnswer(flight'[i]) => flight'[i] = flight[i]

LEMMA DropKeeps ==
  ASSUME TypeOK, NEW h, cache' = Without(cache, h)
  PROVE  EntriesKept
BY WithoutFacts DEF TypeOK, EntriesKept

LEMMA LaunchKeeps ==
  ASSUME TypeOK, NEW h, NEW i \in Flights, Launch(h, i)
  PROVE  NoneAnswered
<1>1. flight' = [flight EXCEPT ![i] = NewFlight(h)] /\ NewFlight(h).stage = "asked"
  BY DEF Launch, NewFlight
<1> DEFINE f == NewFlight(h)
<1> HIDE DEF f
<1>2. flight' = [flight EXCEPT ![i] = f] /\ f.stage = "asked"
  BY <1>1 DEF f
<1>3. QED
  BY <1>2 DEF NoneAnswered, HoldsAnswer, TypeOK

LEMMA CallKeeps ==
  ASSUME TypeOK, NEW c \in Calls, CallStep(c)
  PROVE  EntriesKept /\ NoneAnswered /\ UNCHANGED <<now, server>>
<1>1. CASE \/ LookupMiss(c) \/ StaleCandidate(c) \/ JoinExisting(c) \/ Resume(c) \/ ResumeStale(c)
  BY <1>1 DEF LookupMiss, StaleCandidate, JoinExisting, Resume, ResumeStale,
              EntriesKept, NoneAnswered
<1>2. CASE LookupExpired(c) \/ LookupUnfresh(c) \/ LookupYoungHit(c) \/ LookupOldHit(c)
  <2>1. LookupFinds(c)
    BY <1>2 DEF LookupExpired, LookupUnfresh, LookupYoungHit, LookupOldHit, LookupHit
  <2>2. cache'.entry = cache.entry
    BY <2>1, LookupFindsTypes
  <2>3. QED
    BY <2>1, <2>2 DEF LookupFinds, EntriesKept, NoneAnswered, Keys
<1>3. CASE DropExpired(c)
  BY <1>3, DropKeeps DEF DropExpired, NoneAnswered
<1>4. CASE \E i \in Flights : JoinNew(c, i)
  BY <1>4, LaunchKeeps DEF JoinNew, EntriesKept
<1>5. QED
  BY <1>1, <1>2, <1>3, <1>4 DEF CallStep

LEMMA RefreshKeeps ==
  ASSUME TypeOK, NEW h \in Hashes, RefreshStep(h)
  PROVE  EntriesKept /\ NoneAnswered /\ UNCHANGED <<now, server>>
<1>1. CASE RefreshExisting(h)
  BY <1>1 DEF RefreshExisting, EntriesKept, NoneAnswered
<1>2. CASE \E i \in Flights : RefreshNew(h, i)
  BY <1>2, LaunchKeeps DEF RefreshNew, EntriesKept
<1>3. QED
  BY <1>1, <1>2 DEF RefreshStep

LEMMA EndKeeps ==
  ASSUME TypeOK, NEW i \in Flights, Finish(i) \/ \E kind \in ErrorKinds : Fail(i, kind)
  PROVE  EntriesKept /\ NoneAnswered /\ UNCHANGED <<now, server>>
<1>1. CASE Finish(i)
  BY <1>1 DEF Finish, EntriesKept, NoneAnswered, HoldsAnswer, TypeOK, IdleFlight
<1>2. ASSUME NEW kind \in ErrorKinds, Fail(i, kind)
      PROVE  EntriesKept /\ NoneAnswered /\ UNCHANGED <<now, server>>
  <2>1. flight[i] \in AskedFlights \cup AnsweredFlights
    BY <1>2, FlightStages DEF Fail, Pending, TypeOK
  <2>2. flight'[i].stage = "settled" /\ flight'[i].result.kind # "fill"
    <3> DEFINE e == Error(kind)
    <3>1. /\ flight' = [flight EXCEPT ![i].stage = "settled", ![i].result = e]
          /\ e.kind # "fill"
      BY <1>2 DEF Fail, Error, ErrorKinds
    <3> HIDE DEF e
    <3>2. QED
      BY <2>1, <3>1 DEF AskedFlights, AnsweredFlights, TypeOK
  <2>3. \A j \in Flights \ {i} : flight'[j] = flight[j]
    BY <1>2 DEF Fail, TypeOK
  <2>4. QED
    BY <1>2, <2>2, <2>3 DEF Fail, EntriesKept, NoneAnswered, HoldsAnswer
<1>3. QED
  BY <1>1, <1>2

LEMMA OutsideKeeps ==
  ASSUME TypeOK, \/ Tick \/ StepWall \/ UNCHANGED vars
                 \/ \E c \in Calls : Cancel(c) \/ \E h \in Hashes : Begin(c, h)
                 \/ \E h \in Hashes : Evict(h) \/ ServerChange(h)
  PROVE  Keeping
<1>1. CASE Tick
  <2>1. PICK d \in Steps : now' = now + d
    BY <1>1 DEF Tick
  <2>2. now <= now'
    BY <2>1, ClockAssumption DEF TypeOK
  <2>3. QED
    BY <1>1, <2>2 DEF Tick, Keeping, TypeOK
<1>2. CASE \/ StepWall \/ UNCHANGED vars
           \/ \E c \in Calls : Cancel(c) \/ \E h \in Hashes : Begin(c, h)
  BY <1>2 DEF StepWall, vars, Cancel, Begin, Keeping, TypeOK
<1>3. ASSUME NEW h \in Hashes, Evict(h)
      PROVE  Keeping
  <2>1. EntriesKept
    BY <1>3, DropKeeps DEF Evict
  <2>2. QED
    BY <1>3, <2>1 DEF Evict, Keeping, EntriesKept, TypeOK
<1>4. ASSUME NEW h \in Hashes, ServerChange(h)
      PROVE  Keeping
  <2>1. PICK s : server' = [server EXCEPT ![h] = [ver |-> server[h].ver + 1, session |-> s]]
    BY <1>4 DEF ServerChange
  <2>2. \A g \in Hashes : server[g].ver <= server'[g].ver
    BY <2>1 DEF TypeOK
  <2>3. QED
    BY <1>4, <2>2 DEF ServerChange, Keeping, TypeOK
<1>5. QED
  BY <1>1, <1>2, <1>3, <1>4

LEMMA StepCases ==
  ASSUME TypeOK, [Next]_vars
  PROVE  Keeping \/ \E i \in Flights : Answer(i) \/ Store(i)
<1>1. ASSUME EntriesKept, NoneAnswered, UNCHANGED <<now, server>>
      PROVE  Keeping
  BY <1>1 DEF EntriesKept, NoneAnswered, Keeping, TypeOK
<1>2. CASE \E c \in Calls : CallStep(c)
  BY <1>1, <1>2, CallKeeps
<1>3. CASE \E h \in Hashes : RefreshStep(h)
  BY <1>1, <1>3, RefreshKeeps
<1>4. CASE \E i \in Flights : FlightStep(i)
  BY <1>1, <1>4, EndKeeps DEF FlightStep, Timeout, ErrorKinds
<1>5. QED
  BY <1>2, <1>3, <1>4, OutsideKeeps DEF Next, ResolverStep

LEMMA NextOrdered ==
  ASSUME TypeOK, Registered, Ordered, [Next]_vars
  PROVE  Ordered'
BY StepCases, NextTypes, KeepingOrdered, AnswerOrdered, StoreOrdered

\* The body of CacheNeverGoesBack.
NoOlderAnswer ==
  \A h \in Keys(cache) \cap Keys(cache') :
    /\ cache.entry[h].ans.ver <= cache'.entry[h].ans.ver
    /\ cache.entry[h].ans.asOf <= cache'.entry[h].ans.asOf

LEMMA StepForward ==
  ASSUME TypeOK, Ordered, [Next]_vars
  PROVE  NoOlderAnswer
<1>1. ASSUME NEW h \in Keys(cache) \cap Keys(cache'), cache'.entry[h].ans = cache.entry[h].ans
      PROVE  /\ cache.entry[h].ans.ver <= cache'.entry[h].ans.ver
             /\ cache.entry[h].ans.asOf <= cache'.entry[h].ans.asOf
  BY <1>1, EntryAnswers
<1>2. CASE Keeping
  BY <1>1, <1>2 DEF Keeping, NoOlderAnswer
<1>3. CASE \E i \in Flights : Answer(i)
  BY <1>1, <1>3 DEF Answer, NoOlderAnswer
<1>4. ASSUME NEW i \in Flights, Store(i)
      PROVE  NoOlderAnswer
  BY <1>1, <1>4, StoreFacts DEF Ordered, NotBefore, NoOlderAnswer
<1>5. QED
  BY <1>2, <1>3, <1>4, StepCases

\* Whatever fills, refreshes, evictions and changes at the authority overlap,
\* the answer cached for a token is never replaced by one the authority gave
\* earlier (fill's put and SingleFlight::run).
THEOREM CacheMovesForward == Spec => CacheNeverGoesBack
<1>1. Init => Registered /\ Ordered
  BY DEF Init, Registered, Busy, IdleFlight, Ordered, Empty, Keys
<1>2. TypeOK /\ Registered /\ Ordered /\ [Next]_vars => (Registered /\ Ordered)'
  BY NextRegistered, NextOrdered
<1>3. TypeOK /\ Ordered /\ [Next]_vars => [NoOlderAnswer]_vars
  BY StepForward
<1>4. Spec => [][NoOlderAnswer]_vars
  BY <1>1, <1>2, <1>3, TypeCorrect, PTL DEF Spec
<1>5. QED
  BY <1>4 DEF CacheNeverGoesBack, NoOlderAnswer

------------------------------------------------------------------------------
\* R orders the keys S, strictly and totally: the recency order of a cache.
Orders(R, S) ==
  /\ \A j \in S : <<j, j>> \notin R
  /\ \A j, k, l \in S : <<j, k>> \in R /\ <<k, l>> \in R => <<j, l>> \in R
  /\ \A j, k \in S : j # k => <<j, k>> \in R \/ <<k, j>> \in R

\* Every nonempty set of numbers has a lowest one.
LEMMA LowestNumber ==
  ASSUME NEW T \in SUBSET Nat, T # {}
  PROVE  \E x \in T : \A y \in T : x <= y
<1> DEFINE R == {ss \in Nat \X Nat : ss[1] < ss[2]}
<1>1. IsWellFoundedOn(R, Nat)
  BY NatLessThanWellFounded, Zenon DEF OpToRel
<1>2. \A x, y \in Nat : y < x => <<y, x>> \in R
  OBVIOUS
<1> HIDE DEF R
<1>3. PICK x \in T : \A y \in T : ~ (<<y, x>> \in R)
  BY <1>1, WFMin, Zenon
<1>4. \A y \in T : ~ (y < x)
  BY <1>2, <1>3
<1>5. QED
  BY <1>4

\* Finitely many keys have a least recent one: the key with the fewest keys
\* before it has none.
LEMMA FirstExists ==
  ASSUME NEW S, IsFiniteSet(S), S # {}, NEW R, Orders(R, S)
  PROVE  \E k \in S : \A j \in S \ {k} : <<k, j>> \in R
<1> DEFINE Before(x) == {y \in S : <<y, x>> \in R}
           T == {Cardinality(Before(x)) : x \in S}
<1>1. \A x \in S : IsFiniteSet(Before(x)) /\ Cardinality(Before(x)) \in Nat
  <2> SUFFICES ASSUME NEW x \in S
               PROVE  IsFiniteSet(Before(x)) /\ Cardinality(Before(x)) \in Nat
    OBVIOUS
  <2>1. IsFiniteSet(Before(x))
    BY FS_Subset
  <2>2. QED
    BY <2>1, FS_CardinalityType
<1>2. PICK n \in T : \A m \in T : n <= m
  <2>1. T \in SUBSET Nat /\ T # {}
    BY <1>1
  <2> HIDE DEF T
  <2>2. QED
    BY <2>1, LowestNumber
<1>3. PICK x \in S : n = Cardinality(Before(x))
  OBVIOUS
<1>4. ASSUME NEW y \in Before(x)
      PROVE  FALSE
  <2>1. y \in S /\ <<y, x>> \in R
    OBVIOUS
  <2>2. Before(y) \subseteq Before(x) \ {y}
    BY <2>1 DEF Orders
  <2>3. IsFiniteSet(Before(x)) /\ Cardinality(Before(x)) \in Nat /\ Cardinality(Before(y)) \in Nat
    BY <1>1, <2>1
  <2>4. Cardinality(Before(y)) \in T
    BY <2>1
  <2> DEFINE B == Before(x)
             A == Before(y)
  <2>5. y \in B
    OBVIOUS
  <2> HIDE DEF B, A, Before
  <2>6. IsFiniteSet(B \ {y}) /\ Cardinality(B \ {y}) = Cardinality(B) - 1
    BY <2>3, <2>5, FS_RemoveElement DEF B
  <2>7. Cardinality(A) <= Cardinality(B \ {y})
    BY <2>2, <2>6, FS_Subset DEF A, B
  <2>8. n <= Cardinality(A) /\ n = Cardinality(B)
    BY <1>2, <1>3, <2>4 DEF A, B
  <2>9. QED
    BY <2>3, <2>6, <2>7, <2>8 DEF A, B
<1>5. Before(x) = {}
  BY <1>4
<1>6. QED
  BY <1>5 DEF Orders

\* A promoted key comes last, and the others keep their order.
LEMMA PromotedOrder ==
  ASSUME NEW c, CacheOK(c), NEW k \in Keys(c), Orders(c.older, Keys(c) \ {k})
  PROVE  Orders(Promoted(c, k).older, Keys(c))
<1>1. Promoted(c, k).older = {p \in c.older : p[1] # k} \cup ((Keys(c) \ {k}) \X {k})
  BY DEF Promoted, CacheOK
<1>2. \A i, j \in Keys(c) :
        <<i, j>> \in Promoted(c, k).older <=>
          i # k /\ (j = k \/ <<i, j>> \in c.older)
  BY <1>1
<1> DEFINE R == Promoted(c, k).older
           K == Keys(c)
<1> HIDE DEF R, K
<1>3. \A i, j \in K : <<i, j>> \in R <=> i # k /\ (j = k \/ <<i, j>> \in c.older)
  BY <1>2 DEF R, K
<1>4. Orders(c.older, K \ {k}) /\ k \in K
  BY DEF K
<1>5. Orders(R, K)
  <2>1. \A j \in K : <<j, j>> \notin R
    BY <1>3, <1>4 DEF Orders
  <2>2. \A i, j, l \in K : <<i, j>> \in R /\ <<j, l>> \in R => <<i, l>> \in R
    BY <1>3, <1>4 DEF Orders
  <2>3. \A i, j \in K : i # j => <<i, j>> \in R \/ <<j, i>> \in R
    BY <1>3, <1>4 DEF Orders
  <2>4. QED
    BY <2>1, <2>2, <2>3 DEF Orders
<1>6. QED
  BY <1>5 DEF R, K

LEMMA WithoutOrder ==
  ASSUME NEW c, CacheOK(c), NEW k, Orders(c.older, Keys(c))
  PROVE  Orders(Without(c, k).older, Keys(Without(c, k)))
<1>1. Without(c, k).older = {p \in c.older : p[1] # k /\ p[2] # k}
  BY DEF Without
<1>2. Keys(Without(c, k)) = Keys(c) \ {k}
  BY WithoutFacts
<1>3. \A i, j \in Keys(c) \ {k} : <<i, j>> \in Without(c, k).older <=> <<i, j>> \in c.older
  BY <1>1
<1> DEFINE R == Without(c, k).older
<1> HIDE DEF R
<1>4. Orders(R, Keys(c) \ {k})
  BY <1>3 DEF Orders, R
<1>5. QED
  BY <1>2, <1>4 DEF R

\* A cache in recency order that is within its capacity.
Bounded(c) ==
  /\ IsFiniteSet(Keys(c))
  /\ Cardinality(Keys(c)) <= Capacity
  /\ Orders(c.older, Keys(c))

LEMMA PromotedBounded ==
  ASSUME NEW c, CacheOK(c), Bounded(c), NEW k \in Keys(c)
  PROVE  Bounded(Promoted(c, k))
<1>1. Keys(Promoted(c, k)) = Keys(c)
  BY PromotedFacts DEF Keys
<1>2. Orders(c.older, Keys(c) \ {k})
  BY DEF Bounded, Orders
<1>3. Orders(Promoted(c, k).older, Keys(c))
  BY <1>2, PromotedOrder
<1>4. QED
  BY <1>1, <1>3 DEF Bounded

LEMMA WithoutBounded ==
  ASSUME NEW c, CacheOK(c), Bounded(c), NEW k
  PROVE  Bounded(Without(c, k))
<1>1. Keys(Without(c, k)) = Keys(c) \ {k}
  BY WithoutFacts
<1>2. IsFiniteSet(Keys(c) \ {k}) /\ Cardinality(Keys(c) \ {k}) <= Cardinality(Keys(c))
  BY FS_Subset DEF Bounded
<1>3. Cardinality(Keys(c)) \in Nat /\ Cardinality(Keys(c) \ {k}) \in Nat
  BY <1>2, FS_CardinalityType DEF Bounded
<1>4. Cardinality(Keys(c) \ {k}) <= Capacity
  BY <1>2, <1>3, ConfigAssumption DEF Bounded
<1>5. Orders(Without(c, k).older, Keys(Without(c, k)))
  BY WithoutOrder DEF Bounded
<1>6. QED
  BY <1>1, <1>2, <1>4, <1>5 DEF Bounded

\* An insertion adds at most one key, and the one it evicts when that is one
\* too many is a key of the cache: the eviction is enough.
LEMMA InsertedBounded ==
  ASSUME NEW c, CacheOK(c), Bounded(c), NEW h \in Hashes, NEW e \in CacheEntries
  PROVE  Bounded(Inserted(c, h, e, Capacity))
<1> DEFINE s == Stored(c, h, e)
           w == Without(s, LeastRecent(s))
<1>1. /\ CacheOK(s) /\ Keys(s) = Keys(c) \cup {h}
  BY StoredFacts
<1>2. Orders(s.older, Keys(s))
  <2> DEFINE n == [j \in Keys(c) \cup {h} |-> IF j = h THEN e ELSE c.entry[j]]
             d == [c EXCEPT !.entry = n]
  <2>1. s = Promoted(d, h)
    BY DEF Stored
  <2>2. d = [entry |-> n, older |-> c.older]
    BY DEF CacheOK
  <2>3. Keys(d) = Keys(c) \cup {h} /\ d.older = c.older
    BY <2>2 DEF Keys
  <2>4. n \in [Keys(c) \cup {h} -> CacheEntries]
    BY DEF CacheOK
  <2>5. c.older \in SUBSET ((Keys(c) \cup {h}) \X (Keys(c) \cup {h}))
    <3>1. c.older \in SUBSET (Keys(c) \X Keys(c))
      BY DEF CacheOK
    <3>2. QED
      BY <3>1
  <2>6. CacheOK(d)
    <3> HIDE DEF n
    <3>1. d \in [entry : [Keys(c) \cup {h} -> CacheEntries],
                 older : SUBSET ((Keys(c) \cup {h}) \X (Keys(c) \cup {h}))]
      BY <2>2, <2>4, <2>5
    <3> HIDE DEF d
    <3>2. Keys(c) \subseteq Hashes
      BY DEF CacheOK
    <3>3. QED
      BY <2>3, <3>1, <3>2 DEF CacheOK
  <2>7. Orders(d.older, Keys(d) \ {h})
    BY <2>3 DEF Bounded, Orders
  <2> HIDE DEF d
  <2>8. Orders(Promoted(d, h).older, Keys(d))
    BY <2>3, <2>6, <2>7, PromotedOrder
  <2>9. QED
    BY <1>1, <2>1, <2>3, <2>8
<1>3. /\ IsFiniteSet(Keys(s))
      /\ Cardinality(Keys(s)) \in Nat
      /\ Cardinality(Keys(s)) <= Capacity + 1
  <2>1. /\ IsFiniteSet(Keys(c) \cup {h})
        /\ \/ Cardinality(Keys(c) \cup {h}) = Cardinality(Keys(c))
           \/ Cardinality(Keys(c) \cup {h}) = Cardinality(Keys(c)) + 1
    BY FS_AddElement DEF Bounded
  <2>2. Cardinality(Keys(c)) \in Nat /\ Cardinality(Keys(c)) <= Capacity
    BY FS_CardinalityType DEF Bounded
  <2>3. QED
    BY <1>1, <2>1, <2>2, ConfigAssumption
<1>4. Inserted(c, h, e, Capacity) =
        IF Capacity = 0 THEN c ELSE IF Cardinality(Keys(s)) > Capacity THEN w ELSE s
  BY DEF Inserted
<1> HIDE DEF s
<1>5. CASE Capacity = 0
  BY <1>4, <1>5
<1>6. CASE Capacity # 0 /\ ~ (Cardinality(Keys(s)) > Capacity)
  <2>1. Bounded(s)
    BY <1>2, <1>3, <1>6, ConfigAssumption DEF Bounded
  <2>2. QED
    BY <1>4, <1>6, <2>1
<1>7. CASE Capacity # 0 /\ Cardinality(Keys(s)) > Capacity
  <2>1. LeastRecent(s) \in Keys(s)
    <3>1. Keys(s) # {}
      BY <1>1
    <3>2. \E k \in Keys(s) : \A j \in Keys(s) \ {k} : <<k, j>> \in s.older
      BY <1>2, <1>3, <3>1, FirstExists
    <3>3. QED
      BY <3>2 DEF LeastRecent
  <2>2. Keys(w) = Keys(s) \ {LeastRecent(s)}
    BY <1>1, WithoutFacts
  <2>3. /\ IsFiniteSet(Keys(s) \ {LeastRecent(s)})
        /\ Cardinality(Keys(s) \ {LeastRecent(s)}) = Cardinality(Keys(s)) - 1
    BY <1>3, <2>1, FS_RemoveElement
  <2>4. Orders(w.older, Keys(w))
    BY <1>1, <1>2, WithoutOrder
  <2> HIDE DEF w
  <2>5. Cardinality(Keys(w)) <= Capacity
    BY <1>3, <2>2, <2>3, ConfigAssumption
  <2>6. QED
    BY <1>4, <1>7, <2>2, <2>3, <2>4, <2>5 DEF Bounded
<1>8. QED
  BY <1>5, <1>6, <1>7

\* What the steps do to the cache.
LEMMA CacheSteps ==
  ASSUME TypeOK, [Next]_vars
  PROVE  \/ cache' = cache
         \/ \E k \in Keys(cache) : cache' = Promoted(cache, k)
         \/ \E k : cache' = Without(cache, k)
         \/ \E h \in Hashes, e \in CacheEntries : cache' = Inserted(cache, h, e, Capacity)
<1> DEFINE Steps4 == \/ cache' = cache
                     \/ \E k \in Keys(cache) : cache' = Promoted(cache, k)
                     \/ \E k : cache' = Without(cache, k)
                     \/ \E h \in Hashes, e \in CacheEntries :
                          cache' = Inserted(cache, h, e, Capacity)
<1>1. ASSUME NEW c \in Calls, CallStep(c)
      PROVE  Steps4
  <2>1. CASE LookupExpired(c) \/ LookupUnfresh(c) \/ LookupYoungHit(c) \/ LookupOldHit(c)
    <3>1. LookupFinds(c)
      BY <2>1 DEF LookupExpired, LookupUnfresh, LookupYoungHit, LookupOldHit, LookupHit
    <3>2. QED
      BY <3>1 DEF LookupFinds
  <2>2. CASE DropExpired(c)
    BY <2>2 DEF DropExpired
  <2>3. QED
    BY <1>1, <2>1, <2>2
    DEF CallStep, LookupMiss, StaleCandidate, JoinExisting, JoinNew, Resume, ResumeStale
<1>2. ASSUME NEW h \in Hashes, RefreshStep(h)
      PROVE  Steps4
  BY <1>2 DEF RefreshStep, RefreshExisting, RefreshNew
<1>3. ASSUME NEW i \in Flights, FlightStep(i)
      PROVE  Steps4
  <2>1. CASE Store(i)
    <3>1. flight[i].hash \in Hashes /\ flight[i].result.ans \in Answers
      BY <2>1, FlightAnswers DEF Store
    <3>2. PICK e \in NewEntries(flight[i].result.ans) :
            cache' = Inserted(cache, flight[i].hash, e, Capacity)
      BY <2>1 DEF Store
    <3>3. e \in CacheEntries
      BY <3>1, NewEntriesFacts DEF TypeOK
    <3>4. QED
      BY <3>1, <3>2, <3>3
  <2>2. QED
    BY <1>3, <2>1 DEF FlightStep, Answer, Fail, Timeout, Finish, ErrorKinds
<1>4. QED
  BY <1>1, <1>2, <1>3
  DEF Next, ResolverStep, vars, Cancel, Begin, Tick, StepWall, Evict, ServerChange

LEMMA NextBounded ==
  ASSUME TypeOK, Bounded(cache), [Next]_vars
  PROVE  Bounded(cache')
<1>1. CacheOK(cache)
  BY DEF TypeOK
<1>2. QED
  BY <1>1, CacheSteps, PromotedBounded, WithoutBounded, InsertedBounded

\* The cache never holds more sessions than its capacity, whatever lookups,
\* fills and evictions run side by side: put always finds a least recent key
\* to evict (Lru::put under the resolver's mutex).
THEOREM CapacityKept == Spec => []CacheWithinCapacity
<1> DEFINE B == Bounded(cache)
<1>1. Init => B
  <2> SUFFICES ASSUME Init PROVE Bounded(cache)
    OBVIOUS
  <2>1. Keys(cache) = {}
    BY DEF Init, Empty, Keys
  <2>2. IsFiniteSet({}) /\ Cardinality({}) = 0
    BY FS_EmptySet
  <2>3. QED
    BY <2>1, <2>2, ConfigAssumption DEF Bounded, Orders
<1>2. TypeOK /\ B /\ [Next]_vars => B'
  BY NextBounded
<1>3. B => CacheWithinCapacity
  BY DEF Bounded, CacheWithinCapacity
<1> HIDE DEF B
<1>4. QED
  BY <1>1, <1>2, <1>3, TypeCorrect, PTL DEF Spec
==============================================================================

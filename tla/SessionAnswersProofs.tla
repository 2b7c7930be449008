------------------------- MODULE SessionAnswersProofs -------------------------
(***************************************************************************)
(* What the callers of resolve() are told, for every set of hashes,        *)
(* callers and fills and every configuration: how old an answer may be,    *)
(* that it does not outlive its session, that the answers about one token  *)
(* never go back in time, and how soon a sign-out is honoured.             *)
(***************************************************************************)
EXTENDS SessionHistory, SignOut, ResolverContract, SessionResolverProofs

\* The session of the answer, if there is one, lasted when the authority read it.
Lasting(a) == a.session # None => a.session > a.asOf

\* The TTL an entry with this answer gets at most.
LongestTtl(a) == IF a.session = None THEN NegTtl ELSE L1Ttl

\* A running fill is within its deadline, and began no earlier than a fetch
\* takes; the authority read its answer after it began.
FlightTimely(f) ==
  /\ now <= f.deadline /\ f.deadline <= now + FetchTimeout
  /\ f.stage \in {"answered", "settled"} /\ f.result.kind = "fill" =>
       f.deadline <= f.result.ans.asOf + FetchTimeout /\ Lasting(f.result.ans)

\* An entry ends a TTL after its answer was received, which is no later than
\* the time of a fetch after it was given.
EntryTimely(e) ==
  /\ e.fresh_until <= e.ans.asOf + FetchTimeout + LongestTtl(e.ans)
  /\ e.ans.session # None =>
       e.stale_until <= e.ans.asOf + FetchTimeout + L1Ttl + StaleIfError

\* A fill's answer, as a call that awaited the fill may be told it ...
FillTimely(a, r) ==
  /\ r.now <= a.asOf + FetchTimeout
  /\ a.session # None => a.session + FetchTimeout > r.now

\* ... and a cached one that a call may be told as a hit, or to cover an error.
HitTimely(a, r) ==
  /\ r.now < a.asOf + FetchTimeout + LongestTtl(a)
  /\ a.session # None => a.session > r.wall
StaleTimely(a, r) ==
  /\ a.session # None
  /\ r.now < a.asOf + FetchTimeout + L1Ttl + StaleIfError
  /\ a.session > r.wall

\* A call holds only what it may be told.
CallTimely(r) ==
  /\ r.now <= now
  /\ r.pc \in {"join", "waiting", "woken"} /\ r.stale # None => StaleTimely(r.stale.ans, r)
  /\ r.pc \in {"woken", "done"} /\ r.result.kind = "fill" => FillTimely(r.result.ans, r)
  /\ r.pc = "done" /\ r.result.kind = "hit" => HitTimely(r.result.ans, r)
  /\ r.pc = "done" /\ r.result.kind = "stale" => StaleTimely(r.result.ans, r)

FlightsTimely == \A i \in Flights : Busy(i) => FlightTimely(flight[i])
EntriesTimely == \A h \in Keys(cache) : EntryTimely(cache.entry[h])
CallsTimely   == \A c \in Calls : CallTimely(call[c])

Timely == FlightsTimely /\ EntriesTimely /\ CallsTimely

------------------------------------------------------------------------------
LEMMA FlightResults ==
  ASSUME NEW f \in FlightRecords
  PROVE  /\ f.stage # "idle" => f.deadline \in Nat
         /\ f.stage \in {"answered", "settled"} /\ f.result.kind = "fill" =>
              f.result.ans \in Answers
<1>1. CASE f.stage = "answered"
  <2>1. f \in AnsweredFlights
    BY <1>1, FlightStages
  <2>2. QED
    BY <2>1 DEF AnsweredFlights
<1>2. CASE f.stage = "settled"
  <2>1. f \in SettledFlights
    BY <1>2, FlightStages
  <2>2. QED
    BY <2>1 DEF SettledFlights, FillResults, ErrorKinds
<1>3. QED
  BY <1>1, <1>2, FlightStages

\* A step that changes one fill and lets no time pass.
LEMMA OneFlightTimely ==
  ASSUME TypeOK, FlightsTimely, NEW i \in Flights, NEW f,
         flight' = [flight EXCEPT ![i] = f], now' = now,
         f.stage # "idle" => FlightTimely(f)
  PROVE  FlightsTimely'
<1>1. /\ flight'[i] = f
      /\ \A j \in Flights \ {i} : flight'[j] = flight[j]
  BY DEF TypeOK
<1>2. ASSUME NEW j \in Flights, Busy(j)'
      PROVE  FlightTimely(flight[j])'
  <2>1. CASE j = i
    BY <1>1, <1>2, <2>1 DEF FlightTimely, Busy
  <2>2. CASE j # i
    BY <1>1, <1>2, <2>2 DEF FlightTimely, FlightsTimely, Busy
  <2>3. QED
    BY <2>1, <2>2
<1>3. QED
  BY <1>2 DEF FlightsTimely

LEMMA LaunchTimely ==
  ASSUME TypeOK, FlightsTimely, NEW h \in Hashes, NEW i \in Flights, Launch(h, i), now' = now
  PROVE  FlightsTimely'
<1>1. flight' = [flight EXCEPT ![i] = NewFlight(h)]
  BY DEF Launch
<1>2. FlightTimely(NewFlight(h))
  BY ConfigAssumption DEF FlightTimely, NewFlight, TypeOK
<1> DEFINE f == NewFlight(h)
<1> HIDE DEF f
<1>3. QED
  BY <1>1, <1>2, OneFlightTimely DEF f

\* The authority reads a session that still lasts, after the fill began.
LEMMA AnswerTimely ==
  ASSUME TypeOK, FlightsTimely, NEW i \in Flights, Answer(i)
  PROVE  FlightsTimely'
<1> DEFINE s    == server[flight[i].hash]
           live == IF s.session # None /\ s.session > now THEN s.session ELSE None
           a    == [session |-> live, ver |-> s.ver, asOf |-> now]
           f    == [flight[i] EXCEPT !.stage = "answered", !.result = Ok(a)]
<1>1. flight[i] \in AskedFlights /\ Busy(i)
  BY FlightStages DEF Answer, TypeOK, Busy
<1>2. a.asOf = now /\ Lasting(a)
  BY DEF Lasting
<1>3. flight' = [flight EXCEPT ![i] = f] /\ now' = now
  BY DEF Answer, TypeOK
<1> HIDE DEF a
<1>4. f.stage = "answered" /\ f.deadline = flight[i].deadline /\ f.result.ans = a
  BY <1>1 DEF AskedFlights, Ok
<1>5. /\ now <= flight[i].deadline /\ flight[i].deadline <= now + FetchTimeout
  BY <1>1 DEF FlightsTimely, FlightTimely
<1> HIDE DEF f
<1>6. FlightTimely(f)
  BY <1>2, <1>4, <1>5 DEF FlightTimely
<1>7. QED
  BY <1>3, <1>6, OneFlightTimely

LEMMA StoreTimely ==
  ASSUME TypeOK, FlightsTimely, NEW i \in Flights, Store(i)
  PROVE  FlightsTimely'
<1> DEFINE f == [flight[i] EXCEPT !.stage = "settled"]
<1>1. flight[i] \in AnsweredFlights /\ Busy(i)
  BY FlightStages DEF Store, TypeOK, Busy
<1>2. flight' = [flight EXCEPT ![i] = f] /\ now' = now
  BY DEF Store, TypeOK
<1>3. f.deadline = flight[i].deadline /\ f.result = flight[i].result
  BY <1>1 DEF AnsweredFlights
<1>4. FlightTimely(flight[i]) /\ flight[i].stage = "answered"
  BY <1>1 DEF FlightsTimely, AnsweredFlights
<1> HIDE DEF f
<1>5. FlightTimely(f)
  BY <1>3, <1>4 DEF FlightTimely
<1>6. QED
  BY <1>2, <1>5, OneFlightTimely

LEMMA FailTimely ==
  ASSUME TypeOK, FlightsTimely, NEW i \in Flights, NEW kind \in ErrorKinds, Fail(i, kind)
  PROVE  FlightsTimely'
<1> DEFINE f == [flight[i] EXCEPT !.stage = "settled", !.result = Error(kind)]
<1>1. flight[i] \in AskedFlights \cup AnsweredFlights /\ Busy(i)
  BY FlightStages DEF Fail, Pending, TypeOK, Busy
<1>2. flight' = [flight EXCEPT ![i] = f] /\ now' = now
  BY DEF Fail, TypeOK
<1>3. f.deadline = flight[i].deadline /\ f.result = Error(kind)
  BY <1>1 DEF AskedFlights, AnsweredFlights
<1>4. FlightTimely(flight[i])
  BY <1>1 DEF FlightsTimely
<1>5. Error(kind).kind # "fill"
  BY DEF Error, ErrorKinds
<1> HIDE DEF f
<1>6. FlightTimely(f)
  BY <1>3, <1>4, <1>5 DEF FlightTimely
<1>7. QED
  BY <1>2, <1>6, OneFlightTimely

\* Time does not pass a deadline, nor while a fill runs on after its fetch.
LEMMA TickTimely ==
  ASSUME TypeOK, FlightsTimely, Tick
  PROVE  FlightsTimely'
<1>1. PICK d \in Steps :
        /\ \A i \in Flights : Busy(i) => Pending(i) /\ now + d <= flight[i].deadline
        /\ now' = now + d
  BY DEF Tick
<1>2. d \in Nat /\ now \in Nat /\ FetchTimeout \in Nat
  BY ClockAssumption, ConfigAssumption DEF TypeOK
<1>3. flight' = flight
  BY DEF Tick
<1>4. ASSUME NEW i \in Flights, Busy(i)
      PROVE  FlightTimely(flight[i])'
  <2>1. FlightTimely(flight[i]) /\ now + d <= flight[i].deadline /\ flight[i].deadline \in Nat
    BY <1>1, <1>4, FlightResults DEF FlightsTimely, Busy, TypeOK
  <2>2. QED
    BY <1>1, <1>2, <1>3, <2>1 DEF FlightTimely
<1>5. QED
  BY <1>3, <1>4 DEF FlightsTimely, Busy

LEMMA NextFlightsTimely ==
  ASSUME TypeOK, FlightsTimely, [Next]_vars
  PROVE  FlightsTimely'
<1>1. CASE UNCHANGED <<now, flight>>
  BY <1>1 DEF FlightsTimely, FlightTimely, Busy
<1>2. ASSUME NEW c \in Calls, NEW i \in Flights, JoinNew(c, i)
      PROVE  FlightsTimely'
  <2>1. call[c] \in JoiningCalls
    BY <1>2, CallSteps DEF JoinNew, TypeOK
  <2>2. call[c].hash \in Hashes
    BY <2>1 DEF JoiningCalls
  <2>3. QED
    BY <1>2, <2>2, LaunchTimely DEF JoinNew
<1>3. ASSUME NEW h \in Hashes, NEW i \in Flights, RefreshNew(h, i)
      PROVE  FlightsTimely'
  BY <1>3, LaunchTimely DEF RefreshNew
<1>4. ASSUME NEW i \in Flights, Finish(i)
      PROVE  FlightsTimely'
  <2>1. flight' = [flight EXCEPT ![i] = IdleFlight] /\ now' = now /\ IdleFlight.stage = "idle"
    BY <1>4 DEF Finish, IdleFlight
  <2> DEFINE f == IdleFlight
  <2> HIDE DEF f
  <2>2. QED
    BY <2>1, OneFlightTimely DEF f
<1>5. ASSUME NEW i \in Flights, FlightStep(i)
      PROVE  FlightsTimely'
  BY <1>4, <1>5, AnswerTimely, StoreTimely, FailTimely DEF FlightStep, Timeout, ErrorKinds
<1>6. ASSUME NEW c \in Calls, CallStep(c)
      PROVE  FlightsTimely'
  BY <1>1, <1>2, <1>6
  DEF CallStep, LookupMiss, LookupExpired, LookupUnfresh, LookupYoungHit, LookupOldHit,
      LookupHit, LookupFinds, DropExpired, StaleCandidate, JoinExisting, Resume, ResumeStale
<1>7. ASSUME NEW h \in Hashes, RefreshStep(h)
      PROVE  FlightsTimely'
  BY <1>1, <1>3, <1>7 DEF RefreshStep, RefreshExisting
<1>8. QED
  BY <1>1, <1>5, <1>6, <1>7, TickTimely
  DEF Next, ResolverStep, vars, Cancel, Begin, StepWall, Evict, ServerChange

------------------------------------------------------------------------------
\* Jitter only shortens a TTL (effective_ttl).
LEMMA JitterShortens ==
  ASSUME NEW eff \in EffectiveTtls
  PROVE  eff \in Nat /\ eff <= L1Ttl
<1>1. L1Ttl \in Nat
  BY ConfigAssumption
<1>2. PICK j \in 80..100 : eff = (L1Ttl * j) \div 100
  BY ConfigAssumption DEF EffectiveTtls
<1>3. L1Ttl * j \in Nat /\ L1Ttl * j <= L1Ttl * 100
  BY <1>1
<1> DEFINE x == L1Ttl * j
<1> HIDE DEF x
<1>4. x \in Nat /\ x <= 100 * L1Ttl => x \div 100 \in Nat /\ x \div 100 <= L1Ttl
  BY <1>1
<1>5. QED
  BY <1>1, <1>2, <1>3, <1>4 DEF x

\* A fill's entry is fresh for a TTL from now, and a session's may cover
\* errors for the stale window after that (session_entry, tombstone).
LEMMA NewEntryLife ==
  ASSUME now \in Nat, skew \in Int, NEW a \in Answers, NEW e \in NewEntries(a)
  PROVE  /\ e \in CacheEntries /\ e.ans = a
         /\ e.fresh_until <= now + LongestTtl(a)
         /\ a.session # None => e.stale_until <= now + L1Ttl + StaleIfError
<1>0. L1Ttl \in Nat /\ NegTtl \in Nat /\ StaleIfError \in Nat
  BY ConfigAssumption
<1>1. e \in CacheEntries /\ e.ans = a
  BY NewEntriesFacts
<1>2. CASE a.session = None
  <2>1. e = Tombstone(a)
    BY <1>2 DEF NewEntries
  <2>2. QED
    BY <1>0, <1>1, <1>2, <2>1 DEF Tombstone, LongestTtl
<1>3. CASE a.session # None
  <2>1. PICK eff \in EffectiveTtls : e = SessionEntry(a, eff)
    BY <1>3 DEF NewEntries
  <2>2. eff \in Nat /\ eff <= L1Ttl
    BY JitterShortens
  <2> DEFINE remaining == IF a.session > Wall THEN a.session - Wall ELSE 0
             ttl == Lesser(eff, remaining)
  <2>3. a.session \in Nat
    BY <1>3 DEF Answers
  <2>4. remaining \in Nat
    BY <2>3 DEF Wall
  <2>5. ttl \in Nat /\ ttl <= L1Ttl
    <3> HIDE DEF remaining
    <3>1. QED
      BY <1>0, <2>2, <2>4 DEF Lesser
  <2>6. e.fresh_until = now + ttl /\ e.stale_until = now + ttl + StaleIfError
    BY <2>1 DEF SessionEntry
  <2> HIDE DEF ttl
  <2>7. QED
    BY <1>0, <1>1, <1>3, <2>5, <2>6 DEF LongestTtl
<1>4. QED
  BY <1>2, <1>3

\* What a store does to the entries.
LEMMA StoreEntries ==
  ASSUME TypeOK, NEW i \in Flights, Store(i)
  PROVE  /\ flight[i] \in AnsweredFlights /\ flight[i].hash \in Hashes
         /\ \E e \in NewEntries(flight[i].result.ans) :
              \A h \in Keys(cache') :
                \/ h \in Keys(cache) /\ cache'.entry[h] = cache.entry[h]
                \/ h = flight[i].hash /\ cache'.entry[h] = e
<1>1. flight[i] \in AnsweredFlights
  BY FlightStages DEF Store, TypeOK
<1>2. flight[i].hash \in Hashes /\ flight[i].result.ans \in Answers
  BY <1>1 DEF AnsweredFlights
<1>3. PICK e \in NewEntries(flight[i].result.ans) :
        cache' = Inserted(cache, flight[i].hash, e, Capacity)
  BY DEF Store
<1>4. e \in CacheEntries
  BY <1>2, NewEntriesFacts DEF TypeOK
<1>5. \A h \in Keys(cache') : \/ cache'.entry[h] = e /\ h = flight[i].hash
                              \/ h \in Keys(cache) /\ cache'.entry[h] = cache.entry[h]
  BY <1>2, <1>3, <1>4, InsertedFacts DEF TypeOK
<1>6. QED
  BY <1>1, <1>2, <1>5

\* All other steps keep entries or drop them.
LEMMA OtherSteps ==
  ASSUME TypeOK, [Next]_vars
  PROVE  EntriesKept \/ \E i \in Flights : Store(i)
BY StepCases DEF Keeping, EntriesKept, Answer

LEMMA NextEntriesTimely ==
  ASSUME TypeOK, FlightsTimely, EntriesTimely, [Next]_vars
  PROVE  EntriesTimely'
<1>1. CASE EntriesKept
  BY <1>1 DEF EntriesKept, EntriesTimely, EntryTimely
<1>2. ASSUME NEW i \in Flights, Store(i)
      PROVE  EntriesTimely'
  <2> DEFINE a == flight[i].result.ans
  <2>1. /\ flight[i] \in AnsweredFlights
        /\ \E e \in NewEntries(a) :
              \A h \in Keys(cache') :
                \/ h \in Keys(cache) /\ cache'.entry[h] = cache.entry[h]
                \/ h = flight[i].hash /\ cache'.entry[h] = e
    BY <1>2, StoreEntries
  <2>2. PICK e \in NewEntries(a) :
              \A h \in Keys(cache') :
                \/ h \in Keys(cache) /\ cache'.entry[h] = cache.entry[h]
                \/ h = flight[i].hash /\ cache'.entry[h] = e
    BY <2>1
  <2>3. a \in Answers /\ flight[i].stage = "answered" /\ flight[i].result.kind = "fill"
    BY <2>1 DEF AnsweredFlights
  <2>4. now <= flight[i].deadline /\ flight[i].deadline <= a.asOf + FetchTimeout
    BY <2>3 DEF FlightsTimely, FlightTimely, Busy
  <2>5. flight[i].deadline \in Nat /\ a.asOf \in Nat /\ now \in Nat
    BY <2>1, <2>3 DEF AnsweredFlights, Answers, TypeOK
  <2>6. /\ e \in CacheEntries /\ e.ans = a
        /\ e.fresh_until <= now + LongestTtl(a)
        /\ a.session # None => e.stale_until <= now + L1Ttl + StaleIfError
    BY <2>3, NewEntryLife DEF TypeOK
  <2>7. e.fresh_until \in Nat /\ e.stale_until \in Nat /\ LongestTtl(a) \in Nat
    BY <2>6, ConfigAssumption DEF CacheEntries, LongestTtl
  <2> HIDE DEF a
  <2>8. EntryTimely(e)
    BY <2>4, <2>5, <2>6, <2>7, ConfigAssumption DEF EntryTimely
  <2>9. QED
    BY <2>2, <2>8 DEF EntriesTimely, EntryTimely
<1>3. QED
  BY <1>1, <1>2, OtherSteps

------------------------------------------------------------------------------
\* A step that changes one call and lets no time pass.
LEMMA OneCallTimely ==
  ASSUME TypeOK, CallsTimely, NEW c \in Calls, NEW r,
         call' = [call EXCEPT ![c] = r], now' = now, CallTimely(r)
  PROVE  CallsTimely'
<1>1. /\ call'[c] = r
      /\ \A d \in Calls \ {c} : call'[d] = call[d]
  BY DEF TypeOK
<1>2. ASSUME NEW d \in Calls
      PROVE  CallTimely(call[d])'
  <2>1. CASE d = c
    BY <1>1, <2>1 DEF CallTimely, FillTimely, HitTimely, StaleTimely
  <2>2. CASE d # c
    BY <1>1, <2>2 DEF CallTimely, CallsTimely, FillTimely, HitTimely, StaleTimely
  <2>3. QED
    BY <2>1, <2>2
<1>3. QED
  BY <1>2 DEF CallsTimely

LEMMA BeginTimely ==
  ASSUME TypeOK, CallsTimely, NEW c \in Calls, NEW h \in Hashes, Begin(c, h)
  PROVE  CallsTimely'
<1>1. CallTimely(NewCall(h))
  BY DEF CallTimely, NewCall, TypeOK
<1>2. call' = [call EXCEPT ![c] = NewCall(h)] /\ now' = now
  BY DEF Begin
<1> DEFINE r == NewCall(h)
<1> HIDE DEF r
<1>3. QED
  BY <1>1, <1>2, OneCallTimely DEF r

\* A step up to the await that only moves on.
LEMMA MovesOnTimely ==
  ASSUME TypeOK, CallsTimely, NEW c \in Calls, NEW p \in {"expired", "stale"},
         call[c].pc \in {"lookup", "expired"}, call' = [call EXCEPT ![c].pc = p], now' = now
  PROVE  CallsTimely'
<1> DEFINE r == [call[c] EXCEPT !.pc = p]
<1>1. call[c] \in LookingCalls /\ CallTimely(call[c])
  BY CallSteps DEF TypeOK, CallsTimely
<1>2. r.pc = p /\ r.now = call[c].now
  BY <1>1 DEF LookingCalls
<1>3. call' = [call EXCEPT ![c] = r]
  BY DEF TypeOK
<1> HIDE DEF r
<1>4. CallTimely(r)
  BY <1>1, <1>2 DEF CallTimely
<1>5. QED
  BY <1>3, <1>4, OneCallTimely

\* A hit is on a fresh entry whose session the caller's wall clock allows.
LEMMA HitTimelyStep ==
  ASSUME TypeOK, EntriesTimely, CallsTimely, NEW c \in Calls, LookupHit(c)
  PROVE  CallsTimely'
<1> DEFINE a == Found(c).ans
           r == [call[c] EXCEPT !.pc = "done", !.result = [kind |-> "hit", ans |-> a]]
<1>1. call[c] \in LookingCalls /\ Found(c) \in CacheEntries /\ CallTimely(call[c])
  BY LookupFindsTypes DEF LookupHit, CallsTimely
<1>2. /\ ~ Expired(Found(c), call[c].wall) /\ call[c].now < Found(c).fresh_until
      /\ EntryTimely(Found(c)) /\ now' = now
  BY DEF LookupHit, LookupFinds, EntriesTimely, Found
<1>3. call' = [call EXCEPT ![c] = r]
  BY DEF LookupHit, TypeOK
<1>4. /\ r.pc = "done" /\ r.now = call[c].now /\ r.wall = call[c].wall
      /\ r.result.kind = "hit" /\ r.result.ans = a
  BY <1>1 DEF LookingCalls
<1>5. /\ Found(c).fresh_until \in Nat /\ a \in Answers /\ a.asOf \in Nat
      /\ a.session \in Nat \cup {None} /\ call[c].now \in Nat /\ call[c].wall \in Int
  BY <1>1 DEF CacheEntries, Answers, LookingCalls
<1> HIDE DEF r
<1>6. HitTimely(a, r)
  <2>1. LongestTtl(a) \in Nat /\ FetchTimeout \in Nat
    BY ConfigAssumption DEF LongestTtl
  <2>2. Found(c).fresh_until <= a.asOf + FetchTimeout + LongestTtl(a)
    BY <1>2 DEF EntryTimely
  <2>3. r.now < a.asOf + FetchTimeout + LongestTtl(a)
    BY <1>2, <1>4, <1>5, <2>1, <2>2
  <2>4. a.session # None => a.session > r.wall
    BY <1>2, <1>4, <1>5 DEF Expired
  <2>5. QED
    BY <2>3, <2>4 DEF HitTimely
<1>7. CallTimely(r)
  BY <1>1, <1>4, <1>6 DEF CallTimely
<1>8. QED
  BY <1>2, <1>3, <1>7, OneCallTimely

\* A stale candidate is judged by the clocks read when the call began.
LEMMA CandidateTimely ==
  ASSUME TypeOK, EntriesTimely, CallsTimely, NEW c \in Calls, StaleCandidate(c)
  PROVE  CallsTimely'
<1>1. call[c] \in LookingCalls /\ CallTimely(call[c]) /\ now' = now
  BY CallSteps DEF StaleCandidate, TypeOK, CallsTimely
<1>2. \/ call' = [call EXCEPT ![c].pc = "join"]
      \/ \E k \in Keys(cache) :
           /\ call' = [call EXCEPT ![c].pc = "join", ![c].stale = cache.entry[k]]
           /\ ServableStale(cache.entry[k], call[c].now, call[c].wall)
  BY DEF StaleCandidate
<1>3. CASE call' = [call EXCEPT ![c].pc = "join"]
  <2> DEFINE r == [call[c] EXCEPT !.pc = "join"]
  <2>1. r.pc = "join" /\ r.now = call[c].now /\ r.stale = None
    BY <1>1 DEF LookingCalls
  <2>2. call' = [call EXCEPT ![c] = r]
    BY <1>3 DEF TypeOK
  <2> HIDE DEF r
  <2>3. CallTimely(r)
    BY <1>1, <2>1 DEF CallTimely
  <2>4. QED
    BY <1>1, <2>2, <2>3, OneCallTimely
<1>4. ASSUME NEW k \in Keys(cache),
             call' = [call EXCEPT ![c].pc = "join", ![c].stale = cache.entry[k]],
             ServableStale(cache.entry[k], call[c].now, call[c].wall)
      PROVE  CallsTimely'
  <2> DEFINE e == cache.entry[k]
             r == [call[c] EXCEPT !.pc = "join", !.stale = e]
  <2>1. e \in CacheEntries /\ EntryTimely(e)
    BY DEF TypeOK, CacheOK, EntriesTimely
  <2>2. call' = [call EXCEPT ![c] = r]
    BY <1>4 DEF TypeOK
  <2>3. ServableStale(e, call[c].now, call[c].wall)
    BY <1>4
  <2> HIDE DEF e
  <2>4. r.pc = "join" /\ r.now = call[c].now /\ r.wall = call[c].wall /\ r.stale = e
    BY <1>1 DEF LookingCalls
  <2> HIDE DEF r
  <2>5. /\ e.ans.asOf \in Nat /\ e.stale_until \in Nat /\ e.ans.session \in Nat \cup {None}
        /\ call[c].now \in Nat /\ call[c].wall \in Int
    <3>1. e.ans \in Answers
      BY <2>1 DEF CacheEntries
    <3>2. QED
      BY <1>1, <2>1, <3>1 DEF CacheEntries, Answers, LookingCalls
  <2>6. StaleTimely(e.ans, r)
    BY <2>1, <2>3, <2>4, <2>5, ConfigAssumption DEF ServableStale, EntryTimely, StaleTimely
  <2>7. CallTimely(r)
    BY <1>1, <2>4, <2>6 DEF CallTimely
  <2>8. QED
    BY <1>1, <2>2, <2>7, OneCallTimely
<1>5. QED
  BY <1>2, <1>3, <1>4

LEMMA JoinTimely ==
  ASSUME TypeOK, CallsTimely, NEW c \in Calls, NEW i \in Flights, call[c].pc = "join",
         call' = [call EXCEPT ![c].pc = "waiting", ![c].flight = i], now' = now
  PROVE  CallsTimely'
<1> DEFINE r == [call[c] EXCEPT !.pc = "waiting", !.flight = i]
<1>1. call[c] \in JoiningCalls /\ CallTimely(call[c])
  BY CallSteps DEF TypeOK, CallsTimely
<1>2. call' = [call EXCEPT ![c] = r]
  BY DEF TypeOK
<1>3. /\ r.pc = "waiting" /\ r.now = call[c].now /\ r.wall = call[c].wall
      /\ r.stale = call[c].stale
  BY <1>1 DEF JoiningCalls
<1> HIDE DEF r
<1>4. CallTimely(r)
  BY <1>1, <1>3 DEF CallTimely, StaleTimely
<1>5. QED
  BY <1>2, <1>4, OneCallTimely

LEMMA ResumeTimely ==
  ASSUME TypeOK, CallsTimely, NEW c \in Calls, Resume(c)
  PROVE  CallsTimely'
<1> DEFINE r == [call[c] EXCEPT !.pc = "done", !.stale = None]
<1>1. call[c] \in WokenCalls /\ CallTimely(call[c]) /\ now' = now /\ call[c].pc = "woken"
  BY CallSteps DEF Resume, TypeOK, CallsTimely
<1>2. call' = [call EXCEPT ![c] = r]
  BY DEF Resume, TypeOK
<1>3. /\ r.pc = "done" /\ r.now = call[c].now /\ r.wall = call[c].wall
      /\ r.result = call[c].result
  BY <1>1 DEF WokenCalls
<1>4. call[c].result.kind \notin {"hit", "stale"}
  BY <1>1 DEF WokenCalls, FillResults, ErrorKinds
<1> HIDE DEF r
<1>5. CallTimely(r)
  BY <1>1, <1>3, <1>4 DEF CallTimely, FillTimely
<1>6. QED
  BY <1>1, <1>2, <1>5, OneCallTimely

LEMMA ResumeStaleTimely ==
  ASSUME TypeOK, CallsTimely, NEW c \in Calls, ResumeStale(c)
  PROVE  CallsTimely'
<1> DEFINE s == [kind |-> "stale", ans |-> call[c].stale.ans]
           r == [call[c] EXCEPT !.pc = "done", !.stale = None, !.result = s]
<1>1. /\ call[c] \in WokenCalls /\ CallTimely(call[c]) /\ now' = now
      /\ call[c].pc = "woken" /\ call[c].stale # None
  BY CallSteps DEF ResumeStale, TypeOK, CallsTimely
<1>2. call' = [call EXCEPT ![c] = r]
  BY DEF ResumeStale, TypeOK
<1>3. s.kind = "stale" /\ s.ans = call[c].stale.ans
  OBVIOUS
<1> HIDE DEF s
<1>4. /\ r.pc = "done" /\ r.now = call[c].now /\ r.wall = call[c].wall
      /\ r.result = s
  BY <1>1 DEF WokenCalls
<1> HIDE DEF r
<1>5. CallTimely(r)
  BY <1>1, <1>3, <1>4 DEF CallTimely, StaleTimely
<1>6. QED
  BY <1>1, <1>2, <1>5, OneCallTimely

\* The awaited fill ends within its deadline: a call that is woken by it began
\* no later, so its answer is no older than a fetch may take.
LEMMA FinishTimely ==
  ASSUME TypeOK, FlightsTimely, CallsTimely, NEW i \in Flights, Finish(i)
  PROVE  CallsTimely'
<1>1. flight[i] \in SettledFlights /\ FlightTimely(flight[i]) /\ flight[i].stage = "settled"
  BY FlightStages DEF Finish, TypeOK, FlightsTimely, Busy
<1>2. now' = now
  BY DEF Finish
<1>3. ASSUME NEW c \in Calls, call[c].pc = "waiting", call[c].flight = i
      PROVE  CallTimely(call[c])'
  <2> DEFINE res == flight[i].result
             r   == [call[c] EXCEPT !.pc = "woken", !.flight = None, !.result = res]
  <2>1. call[c] \in WaitingCalls /\ CallTimely(call[c])
    BY <1>3, CallSteps DEF TypeOK, CallsTimely
  <2>2. call'[c] = r
    BY <1>3 DEF Finish
  <2> HIDE DEF res
  <2>3. /\ r.pc = "woken" /\ r.now = call[c].now /\ r.wall = call[c].wall
        /\ r.stale = call[c].stale /\ r.result = res
    BY <2>1 DEF WaitingCalls
  <2> HIDE DEF r
  <2>4. res.kind = "fill" => FillTimely(res.ans, r)
    <3> SUFFICES ASSUME res.kind = "fill" PROVE FillTimely(res.ans, r)
      OBVIOUS
    <3> DEFINE a == res.ans
    <3>1. a \in Answers
      BY <1>1, FlightResults DEF res, TypeOK
    <3>2. flight[i].deadline <= a.asOf + FetchTimeout /\ Lasting(a) /\ now <= flight[i].deadline
      BY <1>1 DEF FlightTimely, res
    <3> HIDE DEF a
    <3>3. /\ a.asOf \in Nat /\ a.session \in Nat \cup {None}
          /\ flight[i].deadline \in Nat /\ now \in Nat /\ r.now \in Nat /\ r.now <= now
      BY <1>1, <2>1, <2>3, <3>1
      DEF Answers, SettledFlights, TypeOK, WaitingCalls, CallTimely
    <3>4. FillTimely(a, r)
      BY <3>2, <3>3, ConfigAssumption DEF FillTimely, Lasting
    <3>5. QED
      BY <3>4 DEF a
  <2>5. CallTimely(r)
    BY <1>3, <2>1, <2>3, <2>4 DEF CallTimely, StaleTimely
  <2>6. QED
    BY <1>2, <2>2, <2>5 DEF CallTimely, FillTimely, HitTimely, StaleTimely
<1>4. ASSUME NEW c \in Calls, ~ (call[c].pc = "waiting" /\ call[c].flight = i)
      PROVE  CallTimely(call[c])'
  <2>1. call'[c] = call[c]
    BY <1>4 DEF Finish
  <2>2. CallTimely(call[c])
    BY DEF CallsTimely
  <2>3. QED
    BY <1>2, <2>1, <2>2 DEF CallTimely, FillTimely, HitTimely, StaleTimely
<1>5. QED
  BY <1>3, <1>4 DEF CallsTimely

LEMMA NextCallsTimely ==
  ASSUME TypeOK, Timely, [Next]_vars
  PROVE  CallsTimely'
<1> USE DEF Timely
<1>1. CASE UNCHANGED <<now, call>>
  BY <1>1 DEF CallsTimely, CallTimely, FillTimely, HitTimely, StaleTimely
<1>2. ASSUME NEW c \in Calls, CallStep(c)
      PROVE  CallsTimely'
  <2>1. CASE LookupMiss(c) \/ LookupExpired(c) \/ LookupUnfresh(c) \/ DropExpired(c)
    BY <2>1, MovesOnTimely
    DEF LookupMiss, LookupExpired, LookupUnfresh, LookupFinds, DropExpired
  <2>2. CASE LookupYoungHit(c) \/ LookupOldHit(c)
    BY <2>2, HitTimelyStep DEF LookupYoungHit, LookupOldHit
  <2>3. CASE JoinExisting(c)
    <3>1. call[c] \in JoiningCalls
      BY <2>3, CallSteps DEF JoinExisting, TypeOK
    <3>2. inflight[call[c].hash] \in Flights
      BY <2>3, <3>1 DEF JoinExisting, TypeOK, JoiningCalls
    <3>3. QED
      BY <2>3, <3>2, JoinTimely DEF JoinExisting
  <2>4. ASSUME NEW i \in Flights, JoinNew(c, i)
        PROVE  CallsTimely'
    BY <2>4, JoinTimely DEF JoinNew
  <2>5. QED
    BY <1>2, <2>1, <2>2, <2>3, <2>4, CandidateTimely, ResumeTimely, ResumeStaleTimely
    DEF CallStep
<1>3. ASSUME NEW c \in Calls, Cancel(c)
      PROVE  CallsTimely'
  <2>1. CallTimely(IdleCall)
    BY DEF CallTimely, IdleCall, TypeOK
  <2> DEFINE r == IdleCall
  <2> HIDE DEF r
  <2>2. QED
    BY <1>3, <2>1, OneCallTimely DEF Cancel, r
<1>4. ASSUME NEW h \in Hashes, RefreshStep(h)
      PROVE  CallsTimely'
  BY <1>1, <1>4 DEF RefreshStep, RefreshExisting, RefreshNew
<1>5. ASSUME NEW i \in Flights, FlightStep(i)
      PROVE  CallsTimely'
  BY <1>1, <1>5, FinishTimely DEF FlightStep, Answer, Store, Fail, Timeout, ErrorKinds
<1>6. CASE Tick
  <2>1. now <= now' /\ call' = call /\ now \in Nat /\ now' \in Nat
    BY <1>6, ClockAssumption DEF Tick, TypeOK
  <2>2. ASSUME NEW c \in Calls
        PROVE  CallTimely(call[c])'
    <3>1. CallTimely(call[c]) /\ call[c].now \in Nat
      BY DEF CallsTimely, TypeOK, CallRecords, IdleCall, LookingCalls, JoiningCalls,
             WaitingCalls, WokenCalls, DoneCalls
    <3>2. call[c].now <= now'
      BY <2>1, <3>1 DEF CallTimely
    <3>3. QED
      BY <2>1, <3>1, <3>2 DEF CallTimely, FillTimely, HitTimely, StaleTimely
  <2>3. QED
    BY <2>2 DEF CallsTimely
<1>7. QED
  BY <1>1, <1>2, <1>3, <1>4, <1>5, <1>6, BeginTimely
  DEF Next, ResolverStep, vars, StepWall, Evict, ServerChange
LEMMA NextTimely ==
  ASSUME TypeOK, Timely, [Next]_vars
  PROVE  Timely'
BY NextFlightsTimely, NextEntriesTimely, NextCallsTimely DEF Timely

LEMMA InitTimely ==
  ASSUME Init
  PROVE  Timely
<1>1. FlightsTimely
  BY DEF Init, FlightsTimely, Busy, IdleFlight
<1>2. EntriesTimely
  BY DEF Init, EntriesTimely, Empty, Keys
<1>3. CallsTimely
  BY DEF Init, CallsTimely, CallTimely, IdleCall
<1>4. QED
  BY <1>1, <1>2, <1>3 DEF Timely

\* What a finished call that was told an answer holds.
LEMMA Told ==
  ASSUME TypeOK, CallsTimely, NEW c \in Calls, call[c].pc = "done", call[c].result.ans # None
  PROVE  LET r == call[c].result
         IN  /\ r.ans \in Answers /\ call[c].now \in Nat /\ call[c].wall \in Int
             /\ \/ r.kind = "fill" /\ FillTimely(r.ans, call[c])
                \/ r.kind = "hit" /\ HitTimely(r.ans, call[c])
                \/ r.kind = "stale" /\ StaleTimely(r.ans, call[c])
<1>1. call[c] \in DoneCalls /\ CallTimely(call[c])
  BY CallSteps DEF TypeOK, CallsTimely
<1> DEFINE r == call[c].result
<1>2. r \in CallResults /\ r.ans # None /\ call[c].now \in Nat /\ call[c].wall \in Int
  BY <1>1 DEF DoneCalls
<1> HIDE DEF r
<1>3. r.kind \in {"fill", "hit", "stale"} /\ r.ans \in Answers
  BY <1>2 DEF CallResults, FillResults
<1>4. QED
  BY <1>1, <1>2, <1>3 DEF CallTimely, r

\* What a call has been told was true at the authority recently enough.
LEMMA YoungAnswers ==
  ASSUME TypeOK, CallsTimely
  PROVE  AnswerAge
<1> SUFFICES ASSUME NEW c \in Calls, call[c].pc = "done",
                    call[c].result.ans # None
             PROVE  LET r   == call[c].result
                        age == call[c].now - r.ans.asOf
                    IN  IF r.kind = "fill" THEN age <= FetchTimeout
                                           ELSE age < FetchTimeout + Lifetime(r)
  BY DEF AnswerAge
<1> DEFINE r == call[c].result
<1>1. /\ r.ans \in Answers /\ call[c].now \in Nat /\ call[c].wall \in Int
      /\ \/ r.kind = "fill" /\ FillTimely(r.ans, call[c])
         \/ r.kind = "hit" /\ HitTimely(r.ans, call[c])
         \/ r.kind = "stale" /\ StaleTimely(r.ans, call[c])
  BY Told
<1>2. r.ans.asOf \in Nat /\ FetchTimeout \in Nat /\ L1Ttl \in Nat /\ NegTtl \in Nat
      /\ StaleIfError \in Nat
  BY <1>1, ConfigAssumption DEF Answers
<1> HIDE DEF r
<1>3. CASE r.kind = "fill" /\ FillTimely(r.ans, call[c])
  BY <1>1, <1>2, <1>3 DEF FillTimely, r
<1>4. CASE r.kind = "hit" /\ HitTimely(r.ans, call[c])
  <2>1. Lifetime(r) = LongestTtl(r.ans)
    BY <1>4 DEF Lifetime, LongestTtl
  <2>2. LongestTtl(r.ans) \in Nat
    BY <1>2 DEF LongestTtl
  <2>3. QED
    BY <1>1, <1>2, <1>4, <2>1, <2>2 DEF HitTimely, r
<1>5. CASE r.kind = "stale" /\ StaleTimely(r.ans, call[c])
  <2>1. Lifetime(r) = L1Ttl + StaleIfError
    BY <1>5 DEF Lifetime
  <2>2. QED
    BY <1>1, <1>2, <1>5, <2>1 DEF StaleTimely, r
<1>6. QED
  BY <1>1, <1>3, <1>4, <1>5 DEF r

\* An answer is as old as the time of one fetch when it comes from a fill, and
\* only a TTL older when it comes from the cache, or a TTL and the stale window
\* when it covers for an error: whatever callers, fills and clocks do
\* (resolve, fill, effective_ttl, stale_candidate).
THEOREM AnswersAreYoung == Spec => []AnswerAge
<1>1. Timely => CallsTimely
  BY DEF Timely
<1>2. QED
  BY <1>1, YoungAnswers, InitTimely, NextTimely, TypeCorrect, PTL DEF Spec

\* Nobody is told of a session past its end on the clocks read when the call
\* began, but by the fill it waited for, which read the session while it lasted
\* (the checks of resolve and stale_candidate, and fill which has none).
THEOREM SessionsEnd == Spec => []NoSessionBeyondItsEnd
<1>1. TypeOK /\ CallsTimely => NoSessionBeyondItsEnd
  <2> SUFFICES ASSUME TypeOK, CallsTimely, NEW c \in Calls, call[c].pc = "done",
                      call[c].result.ans # None, call[c].result.ans.session # None
               PROVE  LET r == call[c].result
                      IN  IF r.kind = "fill" THEN r.ans.session + FetchTimeout > call[c].now
                                             ELSE r.ans.session > call[c].wall
    BY DEF NoSessionBeyondItsEnd
  <2>1. QED
    BY Told DEF FillTimely, HitTimely, StaleTimely
<1>2. Timely => CallsTimely
  BY DEF Timely
<1>3. QED
  BY <1>1, <1>2, InitTimely, NextTimely, TypeCorrect, PTL DEF Spec

------------------------------------------------------------------------------
\* An entry's freshness ends with its session or is over already.
FreshnessEnds ==
  \A h \in Keys(cache) :
    LET e == cache.entry[h]
    IN  e.ans.session # None => e.fresh_until <= e.ans.session \/ e.fresh_until <= now

\* While the wall clock shows true time, a fill's entry is fresh no longer than
\* its session lasts, however the TTL is jittered (session_entry).
LEMMA NewEntryEnds ==
  ASSUME now \in Nat, skew = 0, NEW a \in Answers, NEW e \in NewEntries(a)
  PROVE  a.session # None => e.fresh_until <= a.session \/ e.fresh_until <= now
<1> SUFFICES ASSUME a.session # None
             PROVE  e.fresh_until <= a.session \/ e.fresh_until <= now
  OBVIOUS
<1>1. PICK eff \in EffectiveTtls : e = SessionEntry(a, eff)
  BY DEF NewEntries
<1>2. eff \in Nat
  BY JitterShortens
<1>3. a.session \in Nat /\ Wall = now
  BY DEF Answers, Wall
<1> DEFINE remaining == IF a.session > Wall THEN a.session - Wall ELSE 0
           ttl == Lesser(eff, remaining)
<1>4. remaining \in Nat /\ (now + remaining <= a.session \/ remaining = 0)
  BY <1>3
<1>5. ttl \in Nat /\ ttl <= remaining
  <2> HIDE DEF remaining
  <2>1. QED
    BY <1>2, <1>4 DEF Lesser
<1>6. e.fresh_until = now + ttl
  BY <1>1 DEF SessionEntry
<1> HIDE DEF ttl, remaining
<1>7. QED
  BY <1>3, <1>4, <1>5, <1>6

LEMMA NextFreshnessEnds ==
  ASSUME TypeOK, TypeOK', skew = 0, FreshnessEnds, [Next]_vars
  PROVE  FreshnessEnds'
<1>1. ASSUME EntriesKept, now <= now'
      PROVE  FreshnessEnds'
  <2> SUFFICES ASSUME NEW h \in Keys(cache'), cache'.entry[h].ans.session # None
               PROVE  \/ cache'.entry[h].fresh_until <= cache'.entry[h].ans.session
                      \/ cache'.entry[h].fresh_until <= now'
    BY DEF FreshnessEnds
  <2>1. h \in Keys(cache) /\ cache'.entry[h] = cache.entry[h]
    BY <1>1 DEF EntriesKept
  <2>2. cache.entry[h].fresh_until \in Nat /\ now \in Nat /\ now' \in Nat
    BY <2>1 DEF TypeOK, CacheOK, CacheEntries
  <2>3. \/ cache.entry[h].fresh_until <= cache.entry[h].ans.session
        \/ cache.entry[h].fresh_until <= now
    BY <2>1 DEF FreshnessEnds
  <2>4. QED
    BY <1>1, <2>1, <2>2, <2>3
<1>2. CASE Keeping
  BY <1>1, <1>2 DEF Keeping, EntriesKept
<1>3. CASE \E i \in Flights : Answer(i)
  BY <1>3 DEF Answer, FreshnessEnds
<1>4. ASSUME NEW i \in Flights, Store(i)
      PROVE  FreshnessEnds'
  <2> DEFINE a == flight[i].result.ans
  <2>1. /\ flight[i] \in AnsweredFlights
        /\ \E e \in NewEntries(a) :
              \A h \in Keys(cache') :
                \/ h \in Keys(cache) /\ cache'.entry[h] = cache.entry[h]
                \/ h = flight[i].hash /\ cache'.entry[h] = e
    BY <1>4, StoreEntries
  <2>2. PICK e \in NewEntries(a) :
              \A h \in Keys(cache') :
                \/ h \in Keys(cache) /\ cache'.entry[h] = cache.entry[h]
                \/ h = flight[i].hash /\ cache'.entry[h] = e
    BY <2>1
  <2>3. a \in Answers
    BY <2>1 DEF AnsweredFlights
  <2>4. e.ans = a /\ (a.session # None => e.fresh_until <= a.session \/ e.fresh_until <= now)
    BY <2>3, NewEntryEnds, NewEntryLife DEF TypeOK
  <2>5. now' = now
    BY <1>4 DEF Store
  <2> HIDE DEF a
  <2>6. QED
    BY <2>2, <2>4, <2>5 DEF FreshnessEnds
<1>5. QED
  BY <1>2, <1>3, <1>4, StepCases

\* While the wall clock is not stepped, a fresh entry's session still lasts, so
\* a hit never extends a session (session_entry caps the TTL by the life left).
THEOREM FreshSessionsLive == Spec /\ [](skew = 0) => []FreshMeansLive
<1>1. Init => FreshnessEnds
  BY DEF Init, FreshnessEnds, Empty, Keys
<1>2. TypeOK /\ TypeOK' /\ skew = 0 /\ FreshnessEnds /\ [Next]_vars => FreshnessEnds'
  BY NextFreshnessEnds
<1>3. TypeOK /\ FreshnessEnds => FreshMeansLive
  <2> SUFFICES ASSUME TypeOK, FreshnessEnds, NEW h \in Keys(cache),
                      cache.entry[h].ans.session # None, now < cache.entry[h].fresh_until
               PROVE  cache.entry[h].ans.session > now
    BY DEF FreshMeansLive
  <2>1. cache.entry[h] \in CacheEntries /\ now \in Nat
    BY DEF TypeOK, CacheOK
  <2>2. cache.entry[h].ans \in Answers /\ cache.entry[h].fresh_until \in Nat
    BY <2>1 DEF CacheEntries
  <2>3. cache.entry[h].ans.session \in Nat
    BY <2>2 DEF Answers
  <2>4. QED
    BY <2>1, <2>2, <2>3 DEF FreshnessEnds
<1>4. QED
  BY <1>1, <1>2, <1>3, TypeCorrect, PTL DEF Spec

------------------------------------------------------------------------------
\* Version v of h is no newer than anything callers may still be told of h: than
\* the cached answer, the answer of the fill in flight, and the authority's own.
NoneOlder(h, v) ==
  /\ v \in Nat /\ v <= server[h].ver
  /\ h \in Keys(cache) => v <= cache.entry[h].ans.ver
  /\ \A i \in Flights :
       flight[i].hash = h /\ HoldsAnswer(flight[i]) => v <= flight[i].result.ans.ver

\* Such is the version that is cached, and the version a fill has stored.
Sourced ==
  /\ \A h \in Keys(cache) : NoneOlder(h, cache.entry[h].ans.ver)
  /\ \A i \in Flights :
       flight[i].stage = "settled" /\ flight[i].result.kind = "fill" =>
         NoneOlder(flight[i].hash, flight[i].result.ans.ver)

\* A call awaits the fill that is registered for its hash.
Awaited ==
  \A c \in Calls : call[c].pc = "waiting" => inflight[call[c].hash] = call[c].flight

\* What a call was told, or keeps to cover an error, is no older than what had
\* been returned when it began, and no newer than what may still be told.
CallReads(c) ==
  LET r == call[c] IN
  /\ r.pc # "idle" => floor[c] \in Nat /\ floor[c] <= seen[r.hash]
  /\ r.pc \in {"join", "waiting", "woken"} /\ r.stale # None =>
       floor[c] <= r.stale.ans.ver /\ NoneOlder(r.hash, r.stale.ans.ver)
  /\ r.pc \in {"woken", "done"} /\ r.result.ans # None =>
       floor[c] <= r.result.ans.ver /\ NoneOlder(r.hash, r.result.ans.ver)

SeenReads == \A h \in Hashes : NoneOlder(h, seen[h])

\* The inductive invariant of SessionHistory.
HistoryInv == Sourced /\ Awaited /\ SeenReads /\ \A c \in Calls : CallReads(c)

\* What the steps of the authority and of a fill do, of the rest nothing but
\* StepCases is needed.
LEMMA AnswerExact ==
  ASSUME TypeOK, NEW i \in Flights, Answer(i)
  PROVE  /\ flight[i].hash \in Hashes /\ flight[i].stage = "asked"
         /\ flight'[i].stage = "answered" /\ flight'[i].hash = flight[i].hash
         /\ flight'[i].result.ans.ver = server[flight[i].hash].ver
         /\ flight'[i].result.ans.asOf = now
         /\ flight'[i].result.ans.session # None => server[flight[i].hash].session # None
         /\ \A j \in Flights \ {i} : flight'[j] = flight[j]
         /\ UNCHANGED <<now, server, cache, inflight, call>>
<1>1. flight[i] \in AskedFlights
  BY FlightStages DEF Answer, TypeOK
<1>2. QED
  BY <1>1 DEF Answer, AskedFlights, Ok, TypeOK

LEMMA StoreExact ==
  ASSUME TypeOK, NEW i \in Flights, Store(i)
  PROVE  /\ flight[i].hash \in Hashes /\ flight[i].stage = "answered"
         /\ flight[i].result.kind = "fill" /\ flight[i].result.ans \in Answers
         /\ flight'[i].stage = "settled" /\ flight'[i].hash = flight[i].hash
         /\ flight'[i].result = flight[i].result
         /\ \A j \in Flights \ {i} : flight'[j] = flight[j]
         /\ \A h \in Keys(cache') :
              \/ h \in Keys(cache) /\ cache'.entry[h] = cache.entry[h]
              \/ h = flight[i].hash /\ cache'.entry[h].ans = flight[i].result.ans
         /\ Capacity # 0 /\ flight[i].hash \in Keys(cache') =>
              cache'.entry[flight[i].hash].ans = flight[i].result.ans
         /\ Capacity = 0 => cache' = cache
         /\ UNCHANGED <<now, server, inflight, call>>
<1>1. flight[i] \in AnsweredFlights
  BY FlightStages DEF Store, TypeOK
<1>2. flight[i].hash \in Hashes /\ flight[i].result.ans \in Answers
  BY <1>1 DEF AnsweredFlights
<1>3. PICK e \in NewEntries(flight[i].result.ans) :
        cache' = Inserted(cache, flight[i].hash, e, Capacity)
  BY DEF Store
<1>4. e \in CacheEntries /\ e.ans = flight[i].result.ans
  BY <1>2, NewEntriesFacts DEF TypeOK
<1>5. /\ \A h \in Keys(cache') : \/ cache'.entry[h] = e /\ h = flight[i].hash
                                 \/ h \in Keys(cache) /\ cache'.entry[h] = cache.entry[h]
      /\ Capacity # 0 /\ flight[i].hash \in Keys(cache') => cache'.entry[flight[i].hash] = e
      /\ Capacity = 0 => cache' = cache
  BY <1>2, <1>3, <1>4, InsertedFacts DEF TypeOK
<1>6. /\ flight'[i].stage = "settled" /\ flight'[i].hash = flight[i].hash
      /\ flight'[i].result = flight[i].result
      /\ \A j \in Flights \ {i} : flight'[j] = flight[j]
  BY <1>1 DEF Store, AnsweredFlights, TypeOK
<1>7. /\ UNCHANGED <<now, server, inflight, call>>
      /\ flight[i].stage = "answered" /\ flight[i].result.kind = "fill"
  BY <1>1 DEF Store, AnsweredFlights
<1>8. QED
  BY <1>2, <1>4, <1>5, <1>6, <1>7

\* What is no newer than all that may still be told stays so: answers enter by
\* the authority's latest state only, and reach the cache in their order.
LEMMA NoneOlderKept ==
  ASSUME TypeOK, TypeOK', [Next]_vars, NEW h \in Hashes, NEW v, NoneOlder(h, v)
  PROVE  NoneOlder(h, v)'
<1>1. v \in Nat /\ server[h].ver \in Nat /\ server'[h].ver \in Nat
  BY DEF NoneOlder, TypeOK
<1>2. CASE Keeping
  BY <1>1, <1>2 DEF Keeping, NoneOlder
<1>3. ASSUME NEW i \in Flights, Answer(i)
      PROVE  NoneOlder(h, v)'
  <2>1. /\ flight'[i].hash = flight[i].hash
        /\ flight'[i].result.ans.ver = server[flight[i].hash].ver
        /\ \A j \in Flights \ {i} : flight'[j] = flight[j]
        /\ UNCHANGED <<server, cache>>
    BY <1>3, AnswerExact
  <2>2. QED
    BY <2>1 DEF NoneOlder
<1>4. ASSUME NEW i \in Flights, Store(i)
      PROVE  NoneOlder(h, v)'
  <2>1. /\ flight[i].stage = "answered" /\ flight'[i].hash = flight[i].hash
        /\ flight'[i].result = flight[i].result
        /\ \A j \in Flights \ {i} : flight'[j] = flight[j]
        /\ \A g \in Keys(cache') :
             \/ g \in Keys(cache) /\ cache'.entry[g] = cache.entry[g]
             \/ g = flight[i].hash /\ cache'.entry[g].ans = flight[i].result.ans
        /\ UNCHANGED server
    BY <1>4, StoreExact
  <2>2. QED
    BY <2>1 DEF NoneOlder, HoldsAnswer
<1>5. QED
  BY <1>2, <1>3, <1>4, StepCases

\* A disabled cache is empty.
LEMMA DisabledEmpty ==
  ASSUME Bounded(cache), Capacity = 0
  PROVE  Keys(cache) = {}
<1>1. IsFiniteSet(Keys(cache)) /\ Cardinality(Keys(cache)) <= 0
  BY DEF Bounded
<1>2. Cardinality(Keys(cache)) \in Nat
  BY <1>1, FS_CardinalityType
<1>3. QED
  BY <1>1, <1>2, FS_EmptySet

LEMMA NextSourced ==
  ASSUME TypeOK, TypeOK', Registered, Ordered, Bounded(cache), Sourced, [Next]_vars
  PROVE  Sourced'
<1>1. ASSUME NEW h \in Keys(cache'), h \in Keys(cache), cache'.entry[h] = cache.entry[h]
      PROVE  NoneOlder(h, cache.entry[h].ans.ver)'
  <2> DEFINE v == cache.entry[h].ans.ver
  <2>1. h \in Hashes /\ NoneOlder(h, v)
    BY <1>1, EntryAnswers DEF Sourced
  <2>2. PICK w : w = v
    OBVIOUS
  <2>3. NoneOlder(h, w)'
    BY <2>1, <2>2, NoneOlderKept
  <2>4. QED
    BY <1>1, <2>2, <2>3 DEF NoneOlder
<1>2. ASSUME NEW j \in Flights, flight[j].stage = "settled", flight[j].result.kind = "fill",
             flight'[j] = flight[j]
      PROVE  NoneOlder(flight[j].hash, flight[j].result.ans.ver)'
  <2>1. PICK g, w : g = flight[j].hash /\ w = flight[j].result.ans.ver
    OBVIOUS
  <2>2. g \in Hashes
    BY <1>2, <2>1, FlightStages DEF TypeOK
  <2>3. NoneOlder(g, w)'
    BY <1>2, <2>1, <2>2, NoneOlderKept DEF Sourced
  <2>4. QED
    BY <1>2, <2>1, <2>3 DEF NoneOlder
<1>3. CASE Keeping
  BY <1>1, <1>2, <1>3 DEF Keeping, HoldsAnswer, Sourced
<1>4. ASSUME NEW i \in Flights, Answer(i)
      PROVE  Sourced'
  <2>1. /\ flight'[i].stage = "answered"
        /\ \A j \in Flights \ {i} : flight'[j] = flight[j]
        /\ cache' = cache
    BY <1>4, AnswerExact
  <2>2. QED
    BY <1>1, <1>2, <2>1 DEF Sourced
<1>5. ASSUME NEW i \in Flights, Store(i)
      PROVE  Sourced'
  <2> DEFINE h == flight[i].hash
             v == flight[i].result.ans.ver
  <2>1. /\ h \in Hashes /\ flight[i].stage = "answered"
        /\ flight[i].result.kind = "fill" /\ flight[i].result.ans \in Answers
        /\ flight'[i].stage = "settled" /\ flight'[i].hash = h
        /\ flight'[i].result = flight[i].result
        /\ \A j \in Flights \ {i} : flight'[j] = flight[j]
        /\ \A g \in Keys(cache') :
             \/ g \in Keys(cache) /\ cache'.entry[g] = cache.entry[g]
             \/ g = h /\ cache'.entry[g].ans = flight[i].result.ans
        /\ Capacity # 0 /\ h \in Keys(cache') => cache'.entry[h].ans = flight[i].result.ans
        /\ Capacity = 0 => cache' = cache
        /\ UNCHANGED server
    BY <1>5, StoreExact
  <2>2. v \in Nat /\ v <= server'[h].ver
    BY <2>1 DEF Ordered, Given, Answers
  <2>3. h \in Keys(cache') => cache'.entry[h].ans.ver = v
    BY <2>1, DisabledEmpty
  <2>4. ASSUME NEW j \in Flights, flight'[j].hash = h, HoldsAnswer(flight'[j])
        PROVE  j = i
    <3>1. CASE j # i
      <4>1. flight[j].hash = h /\ Busy(j) /\ Busy(i)
        BY <2>1, <2>4, <3>1 DEF HoldsAnswer, Busy
      <4>2. QED
        BY <3>1, <4>1 DEF Registered
    <3>2. QED
      BY <3>1
  <2>5. PICK g, w : g = h /\ w = v
    OBVIOUS
  <2>6. NoneOlder(g, w)'
    <3> HIDE DEF h
    <3>1. QED
      BY <2>1, <2>2, <2>3, <2>4, <2>5 DEF NoneOlder
  <2>7. ASSUME NEW k \in Keys(cache')
        PROVE  NoneOlder(k, cache.entry[k].ans.ver)'
    <3>1. CASE k \in Keys(cache) /\ cache'.entry[k] = cache.entry[k]
      BY <1>1, <3>1
    <3>2. CASE k = h /\ cache'.entry[k].ans = flight[i].result.ans
      BY <2>5, <2>6, <3>2 DEF NoneOlder
    <3>3. QED
      BY <2>1, <3>1, <3>2
  <2>8. ASSUME NEW j \in Flights, flight'[j].stage = "settled", flight'[j].result.kind = "fill"
        PROVE  NoneOlder(flight[j].hash, flight[j].result.ans.ver)'
    <3>1. CASE j = i
      BY <2>1, <2>5, <2>6, <3>1 DEF NoneOlder
    <3>2. CASE j # i
      BY <1>2, <2>1, <2>8, <3>2
    <3>3. QED
      BY <3>1, <3>2
  <2>9. QED
    BY <2>7, <2>8 DEF Sourced
<1>6. QED
  BY <1>3, <1>4, <1>5, StepCases

------------------------------------------------------------------------------
\* A call begins ...
Starts(c) == call[c].pc # "lookup" /\ call'[c].pc = "lookup"

\* ... or goes on.  What it keeps to cover an error it has kept so far, or finds
\* cached now.
Keeps(c) ==
  call'[c].pc \in {"join", "waiting", "woken"} /\ call'[c].stale # None =>
    \/ call[c].pc \in {"join", "waiting", "woken"} /\ call'[c].stale = call[c].stale
    \/ /\ call[c].hash \in Keys(cache) /\ call'[c].stale = cache.entry[call[c].hash]
       /\ call'[c].stale.ans.session # None

\* What it is told it was told before, finds cached now, has kept to cover an
\* error, or is the result of the fill it awaits.
Learns(c) ==
  call'[c].pc \in {"woken", "done"} /\ call'[c].result.ans # None =>
    \/ call[c].pc \in {"woken", "done"} /\ call'[c].result = call[c].result
    \/ call[c].hash \in Keys(cache) /\ call'[c].result.ans = cache.entry[call[c].hash].ans
    \/ /\ call[c].pc = "woken" /\ call[c].stale # None
       /\ call'[c].result.ans = call[c].stale.ans
    \/ /\ call[c].pc = "waiting" /\ call[c].flight \in Flights
       /\ flight[call[c].flight].stage = "settled"
       /\ call'[c].result = flight[call[c].flight].result

\* It takes a step of resolve() at an instant: of its lookup, into and out of the
\* wait for a fill, or the last.
Proceeds(c) ==
  /\ now' = now /\ call'[c].now = call[c].now
  /\ \/ /\ call[c].pc \in {"lookup", "expired", "stale"}
        /\ call'[c].pc \in {"expired", "stale", "join"}
     \/ call[c].pc = "lookup" /\ call'[c].pc = "done" /\ call'[c].result.kind = "hit"
     \/ call[c].pc = "join" /\ call'[c].pc = "waiting"
     \/ /\ call[c].pc = "waiting" /\ call'[c].pc = "woken"
        /\ flight[call[c].flight].stage = "settled"
        /\ call'[c].result = flight[call[c].flight].result
     \/ /\ call[c].pc = "woken" /\ call'[c].pc = "done"
        /\ call'[c].result = call[c].result \/ call'[c].result.kind = "stale"

GoesOn(c) ==
  /\ call[c].pc # "idle" /\ call'[c].hash = call[c].hash /\ ~ Starts(c)
  /\ Keeps(c) /\ Learns(c)
  /\ call'[c] = call[c] \/ Proceeds(c)

\* What a step may do to a call.
Moves(c) ==
  \/ call'[c].pc = "idle"
  \/ Starts(c) /\ call'[c].hash \in Hashes /\ call'[c].now = now /\ now' = now
  \/ GoesOn(c)

LEMMA Unmoved ==
  ASSUME NEW c \in Calls, call'[c] = call[c]
  PROVE  Moves(c)
BY DEF Moves, GoesOn, Starts, Keeps, Learns

LEMMA MovesOn ==
  ASSUME TypeOK, NEW c \in Calls, NEW p \in {"expired", "stale"},
         call[c].pc \in {"lookup", "expired"}, call' = [call EXCEPT ![c].pc = p], now' = now
  PROVE  \A d \in Calls : Moves(d)
<1>1. call[c] \in LookingCalls
  BY CallSteps DEF TypeOK
<1>2. /\ call'[c].pc = p /\ call'[c].hash = call[c].hash /\ call[c].pc # "idle"
      /\ call'[c].now = call[c].now
  BY <1>1 DEF LookingCalls, TypeOK
<1>3. Moves(c)
  BY <1>2 DEF Moves, GoesOn, Starts, Keeps, Learns, Proceeds
<1>4. \A d \in Calls \ {c} : call'[d] = call[d]
  BY DEF TypeOK
<1>5. QED
  BY <1>3, <1>4, Unmoved

LEMMA HitMoves ==
  ASSUME TypeOK, NEW c \in Calls, LookupHit(c)
  PROVE  \A d \in Calls : Moves(d)
<1> DEFINE res == [kind |-> "hit", ans |-> Found(c).ans]
           r == [call[c] EXCEPT !.pc = "done", !.result = res]
<1>1. call[c] \in LookingCalls /\ call[c].pc = "lookup" /\ call[c].hash \in Keys(cache)
  BY LookupFindsTypes DEF LookupHit, LookupFinds
<1>2. /\ call' = [call EXCEPT ![c] = r] /\ now' = now
      /\ res.ans = cache.entry[call[c].hash].ans /\ res.kind = "hit"
  BY DEF LookupHit, LookupFinds, TypeOK, Found
<1> HIDE DEF res
<1>3. r.pc = "done" /\ r.hash = call[c].hash /\ r.now = call[c].now /\ r.result = res
  BY <1>1 DEF LookingCalls
<1> HIDE DEF r
<1>4. call'[c] = r /\ \A d \in Calls \ {c} : call'[d] = call[d]
  BY <1>2 DEF TypeOK
<1>5. Moves(c)
  BY <1>1, <1>2, <1>3, <1>4 DEF Moves, GoesOn, Starts, Keeps, Learns, Proceeds
<1>6. QED
  BY <1>4, <1>5, Unmoved

LEMMA CandidateMoves ==
  ASSUME TypeOK, NEW c \in Calls, StaleCandidate(c)
  PROVE  \A d \in Calls : Moves(d)
<1>1. call[c] \in LookingCalls /\ call[c].pc = "stale" /\ now' = now
  BY CallSteps DEF StaleCandidate, TypeOK
<1>2. \/ call' = [call EXCEPT ![c].pc = "join"]
      \/ /\ call[c].hash \in Keys(cache)
         /\ call' = [call EXCEPT ![c].pc = "join", ![c].stale = cache.entry[call[c].hash]]
         /\ cache.entry[call[c].hash].ans.session # None
  BY DEF StaleCandidate, ServableStale
<1>3. CASE call' = [call EXCEPT ![c].pc = "join"]
  <2>1. /\ call'[c].pc = "join" /\ call'[c].hash = call[c].hash /\ call'[c].stale = None
        /\ call'[c].now = call[c].now
        /\ \A d \in Calls \ {c} : call'[d] = call[d]
    BY <1>1, <1>3 DEF LookingCalls, TypeOK
  <2>2. Moves(c)
    BY <1>1, <2>1 DEF Moves, GoesOn, Starts, Keeps, Learns, Proceeds
  <2>3. QED
    BY <2>1, <2>2, Unmoved
<1>4. CASE /\ call[c].hash \in Keys(cache)
           /\ call' = [call EXCEPT ![c].pc = "join", ![c].stale = cache.entry[call[c].hash]]
           /\ cache.entry[call[c].hash].ans.session # None
  <2> DEFINE e == cache.entry[call[c].hash]
             r == [call[c] EXCEPT !.pc = "join", !.stale = e]
  <2>1. call' = [call EXCEPT ![c] = r] /\ e.ans.session # None
    BY <1>4 DEF TypeOK
  <2>2. PICK f : f = e
    OBVIOUS
  <2> HIDE DEF e
  <2>3. r.pc = "join" /\ r.hash = call[c].hash /\ r.now = call[c].now /\ r.stale = e
    BY <1>1 DEF LookingCalls
  <2> HIDE DEF r
  <2>4. call'[c] = r /\ \A d \in Calls \ {c} : call'[d] = call[d]
    BY <2>1 DEF TypeOK
  <2>5. Moves(c)
    BY <1>1, <1>4, <2>1, <2>3, <2>4 DEF Moves, GoesOn, Starts, Keeps, Learns, Proceeds, e
  <2>6. QED
    BY <2>4, <2>5, Unmoved
<1>5. QED
  BY <1>2, <1>3, <1>4

LEMMA JoinMoves ==
  ASSUME TypeOK, NEW c \in Calls, NEW i \in Flights, call[c].pc = "join", now' = now,
         call' = [call EXCEPT ![c].pc = "waiting", ![c].flight = i]
  PROVE  \A d \in Calls : Moves(d)
<1>1. call[c] \in JoiningCalls
  BY CallSteps DEF TypeOK
<1>2. /\ call'[c].pc = "waiting" /\ call'[c].hash = call[c].hash
      /\ call'[c].stale = call[c].stale /\ call'[c].now = call[c].now
      /\ \A d \in Calls \ {c} : call'[d] = call[d]
  BY <1>1 DEF JoiningCalls, TypeOK
<1>3. Moves(c)
  BY <1>2 DEF Moves, GoesOn, Starts, Keeps, Learns, Proceeds
<1>4. QED
  BY <1>2, <1>3, Unmoved

LEMMA ResumeMoves ==
  ASSUME TypeOK, NEW c \in Calls, Resume(c) \/ ResumeStale(c)
  PROVE  \A d \in Calls : Moves(d)
<1>1. call[c] \in WokenCalls /\ call[c].pc = "woken" /\ now' = now
  BY CallSteps DEF Resume, ResumeStale, TypeOK
<1>2. CASE Resume(c)
  <2>1. /\ call'[c].pc = "done" /\ call'[c].hash = call[c].hash
        /\ call'[c].result = call[c].result /\ call'[c].now = call[c].now
        /\ \A d \in Calls \ {c} : call'[d] = call[d]
    BY <1>1, <1>2 DEF Resume, WokenCalls, TypeOK
  <2>2. Moves(c)
    BY <1>1, <2>1 DEF Moves, GoesOn, Starts, Keeps, Learns, Proceeds
  <2>3. QED
    BY <2>1, <2>2, Unmoved
<1>3. CASE ResumeStale(c)
  <2> DEFINE s == [kind |-> "stale", ans |-> call[c].stale.ans]
             r == [call[c] EXCEPT !.pc = "done", !.stale = None, !.result = s]
  <2>1. /\ call' = [call EXCEPT ![c] = r] /\ call[c].stale # None /\ s.ans = call[c].stale.ans
        /\ s.kind = "stale"
    BY <1>3 DEF ResumeStale, TypeOK
  <2> HIDE DEF s
  <2>2. r.pc = "done" /\ r.hash = call[c].hash /\ r.now = call[c].now /\ r.result = s
    BY <1>1 DEF WokenCalls
  <2> HIDE DEF r
  <2>3. call'[c] = r /\ \A d \in Calls \ {c} : call'[d] = call[d]
    BY <2>1 DEF TypeOK
  <2>4. Moves(c)
    BY <1>1, <2>1, <2>2, <2>3 DEF Moves, GoesOn, Starts, Keeps, Learns, Proceeds
  <2>5. QED
    BY <2>3, <2>4, Unmoved
<1>4. QED
  BY <1>2, <1>3

LEMMA FinishMoves ==
  ASSUME TypeOK, NEW i \in Flights, Finish(i)
  PROVE  \A d \in Calls : Moves(d)
<1> SUFFICES ASSUME NEW c \in Calls PROVE Moves(c)
  OBVIOUS
<1>1. CASE call[c].pc = "waiting" /\ call[c].flight = i
  <2>1. call[c] \in WaitingCalls
    BY <1>1, CallSteps DEF TypeOK
  <2> DEFINE res == flight[i].result
             r   == [call[c] EXCEPT !.pc = "woken", !.flight = None, !.result = res]
  <2>2. call'[c] = r /\ flight[i].stage = "settled" /\ now' = now
    BY <1>1 DEF Finish
  <2> HIDE DEF res
  <2>3. /\ r.pc = "woken" /\ r.hash = call[c].hash /\ r.stale = call[c].stale /\ r.result = res
        /\ r.now = call[c].now
    BY <2>1 DEF WaitingCalls
  <2> HIDE DEF r
  <2>4. QED
    BY <1>1, <2>2, <2>3 DEF Moves, GoesOn, Starts, Keeps, Learns, Proceeds, res
<1>2. CASE ~ (call[c].pc = "waiting" /\ call[c].flight = i)
  BY <1>2, Unmoved DEF Finish
<1>3. QED
  BY <1>1, <1>2

LEMMA CallMoves ==
  ASSUME TypeOK, [Next]_vars
  PROVE  \A d \in Calls : Moves(d)
<1>1. CASE UNCHANGED call
  BY <1>1, Unmoved
<1>2. ASSUME NEW c \in Calls, CallStep(c)
      PROVE  \A d \in Calls : Moves(d)
  <2>1. CASE LookupMiss(c) \/ LookupExpired(c) \/ LookupUnfresh(c) \/ DropExpired(c)
    BY <2>1, MovesOn DEF LookupMiss, LookupExpired, LookupUnfresh, LookupFinds, DropExpired
  <2>2. CASE LookupYoungHit(c) \/ LookupOldHit(c)
    BY <2>2, HitMoves DEF LookupYoungHit, LookupOldHit
  <2>3. CASE JoinExisting(c)
    <3>1. call[c] \in JoiningCalls
      BY <2>3, CallSteps DEF JoinExisting, TypeOK
    <3>2. inflight[call[c].hash] \in Flights
      BY <2>3, <3>1 DEF JoinExisting, TypeOK, JoiningCalls
    <3>3. QED
      BY <2>3, <3>2, JoinMoves DEF JoinExisting
  <2>4. ASSUME NEW i \in Flights, JoinNew(c, i)
        PROVE  \A d \in Calls : Moves(d)
    BY <2>4, JoinMoves DEF JoinNew
  <2>5. QED
    BY <1>2, <2>1, <2>2, <2>3, <2>4, CandidateMoves, ResumeMoves DEF CallStep
<1>3. ASSUME NEW c \in Calls, Cancel(c)
      PROVE  \A d \in Calls : Moves(d)
  <2>1. call'[c].pc = "idle" /\ \A d \in Calls \ {c} : call'[d] = call[d]
    BY <1>3 DEF Cancel, TypeOK, IdleCall
  <2>2. QED
    BY <2>1, Unmoved DEF Moves
<1>4. ASSUME NEW c \in Calls, NEW h \in Hashes, Begin(c, h)
      PROVE  \A d \in Calls : Moves(d)
  <2>1. NewCall(h).pc = "lookup" /\ NewCall(h).hash = h /\ NewCall(h).now = now
    BY DEF NewCall
  <2> DEFINE r == NewCall(h)
  <2>2. call' = [call EXCEPT ![c] = r] /\ call[c].pc # "lookup" /\ now' = now
    BY <1>4 DEF Begin
  <2> HIDE DEF r
  <2>3. call'[c] = r /\ \A d \in Calls \ {c} : call'[d] = call[d]
    BY <2>2 DEF TypeOK
  <2>4. Moves(c)
    BY <2>1, <2>2, <2>3 DEF Moves, Starts, r
  <2>5. QED
    BY <2>3, <2>4, Unmoved
<1>5. ASSUME NEW i \in Flights, FlightStep(i)
      PROVE  \A d \in Calls : Moves(d)
  BY <1>1, <1>5, FinishMoves DEF FlightStep, Answer, Store, Fail, Timeout, ErrorKinds
<1>6. QED
  BY <1>1, <1>2, <1>3, <1>4, <1>5
  DEF Next, ResolverStep, vars, RefreshStep, RefreshExisting, RefreshNew, Tick, StepWall,
      Evict, ServerChange

------------------------------------------------------------------------------
\* A call keeps awaiting the fill registered for its hash.
LEMMA WaitingCall ==
  ASSUME TypeOK, Awaited, NEW c \in Calls, call[c].pc = "waiting"
  PROVE  /\ call[c].hash \in Hashes /\ call[c].flight \in Flights
         /\ inflight[call[c].hash] = call[c].flight /\ call[c].flight # None
<1>1. call[c] \in WaitingCalls
  BY CallSteps DEF TypeOK
<1>2. QED
  BY <1>1, NoneAssumption DEF WaitingCalls, Awaited

LEMMA OneCallAwaited ==
  ASSUME TypeOK, Awaited, NEW c \in Calls, inflight' = inflight,
         \A d \in Calls \ {c} : call'[d] = call[d],
         call'[c].pc = "waiting" => inflight[call'[c].hash] = call'[c].flight
  PROVE  Awaited'
BY DEF Awaited

LEMMA LaunchAwaited ==
  ASSUME TypeOK, Awaited, NEW h \in Hashes, NEW i \in Flights, Launch(h, i)
  PROVE  /\ inflight'[h] = i
         /\ \A c \in Calls : call[c].pc = "waiting" => inflight'[call[c].hash] = call[c].flight
<1>1. inflight[h] = None /\ inflight' = [inflight EXCEPT ![h] = i]
  BY DEF Launch
<1>2. QED
  BY <1>1, WaitingCall DEF TypeOK

LEMMA NextAwaited ==
  ASSUME TypeOK, Registered, Awaited, [Next]_vars
  PROVE  Awaited'
<1>1. CASE UNCHANGED <<inflight, call>>
  BY <1>1 DEF Awaited
<1>2. ASSUME NEW c \in Calls, NEW r, call' = [call EXCEPT ![c] = r], r.pc # "waiting",
             inflight' = inflight
      PROVE  Awaited'
  BY <1>2, OneCallAwaited DEF TypeOK
<1>3. ASSUME NEW c \in Calls, CallStep(c)
      PROVE  Awaited'
  <2>1. CASE \/ LookupMiss(c) \/ LookupExpired(c) \/ LookupUnfresh(c) \/ DropExpired(c)
             \/ LookupYoungHit(c) \/ LookupOldHit(c) \/ Resume(c) \/ ResumeStale(c)
    <3>1. /\ call[c] \in LookingCalls \cup WokenCalls
          /\ inflight' = inflight
          /\ \/ \E p \in {"stale", "expired"} : call' = [call EXCEPT ![c].pc = p]
             \/ \E x : call' = [call EXCEPT ![c].pc = "done", ![c].result = x]
             \/ call' = [call EXCEPT ![c].pc = "done", ![c].stale = None]
             \/ \E x : call' = [call EXCEPT ![c].pc = "done", ![c].stale = None, ![c].result = x]
      BY <2>1, CallSteps
      DEF TypeOK, LookupMiss, LookupExpired, LookupUnfresh, DropExpired, LookupYoungHit,
          LookupOldHit, LookupHit, LookupFinds, Resume, ResumeStale
    <3>2. call'[c].pc # "waiting" /\ \A d \in Calls \ {c} : call'[d] = call[d]
      BY <3>1 DEF LookingCalls, WokenCalls, TypeOK
    <3>3. QED
      BY <3>1, <3>2, OneCallAwaited
  <2>2. CASE StaleCandidate(c)
    <3>1. /\ call[c] \in LookingCalls /\ inflight' = inflight
          /\ \/ call' = [call EXCEPT ![c].pc = "join"]
             \/ \E x : call' = [call EXCEPT ![c].pc = "join", ![c].stale = x]
      BY <2>2, CallSteps DEF TypeOK, StaleCandidate
    <3>2. call'[c].pc # "waiting" /\ \A d \in Calls \ {c} : call'[d] = call[d]
      BY <3>1 DEF LookingCalls, TypeOK
    <3>3. QED
      BY <3>1, <3>2, OneCallAwaited
  <2>3. CASE JoinExisting(c)
    <3>1. call[c] \in JoiningCalls /\ inflight' = inflight
      BY <2>3, CallSteps DEF TypeOK, JoinExisting
    <3>2. /\ call'[c].hash = call[c].hash /\ call'[c].flight = inflight[call[c].hash]
          /\ \A d \in Calls \ {c} : call'[d] = call[d]
      BY <2>3, <3>1 DEF JoinExisting, JoiningCalls, TypeOK
    <3>3. QED
      BY <3>1, <3>2, OneCallAwaited
  <2>4. ASSUME NEW i \in Flights, JoinNew(c, i)
        PROVE  Awaited'
    <3>1. call[c] \in JoiningCalls
      BY <2>4, CallSteps DEF TypeOK, JoinNew
    <3>2. /\ call'[c].hash = call[c].hash /\ call'[c].flight = i
          /\ \A d \in Calls \ {c} : call'[d] = call[d]
      BY <2>4, <3>1 DEF JoinNew, JoiningCalls, TypeOK
    <3>3. call[c].hash \in Hashes
      BY <3>1 DEF JoiningCalls
    <3>4. /\ inflight'[call[c].hash] = i
          /\ \A d \in Calls : call[d].pc = "waiting" => inflight'[call[d].hash] = call[d].flight
      BY <2>4, <3>3, LaunchAwaited DEF JoinNew
    <3>5. QED
      BY <3>2, <3>4 DEF Awaited
  <2>5. QED
    BY <1>3, <2>1, <2>2, <2>3, <2>4 DEF CallStep
<1>4. ASSUME NEW c \in Calls, Cancel(c)
      PROVE  Awaited'
  <2>1. IdleCall.pc # "waiting"
    BY DEF IdleCall
  <2>2. QED
    BY <1>2, <1>4, <2>1 DEF Cancel
<1>5. ASSUME NEW c \in Calls, NEW h \in Hashes, Begin(c, h)
      PROVE  Awaited'
  <2>1. NewCall(h).pc # "waiting"
    BY DEF NewCall
  <2> DEFINE r == NewCall(h)
  <2> HIDE DEF r
  <2>2. r.pc # "waiting" /\ call' = [call EXCEPT ![c] = r] /\ inflight' = inflight
    BY <1>5, <2>1 DEF Begin, r
  <2>3. QED
    BY <1>2, <2>2
<1>6. ASSUME NEW h \in Hashes, RefreshStep(h)
      PROVE  Awaited'
  <2>1. ASSUME NEW i \in Flights, RefreshNew(h, i)
        PROVE  Awaited'
    <3>1. \A d \in Calls : call[d].pc = "waiting" => inflight'[call[d].hash] = call[d].flight
      BY <2>1, LaunchAwaited DEF RefreshNew
    <3>2. QED
      BY <2>1, <3>1 DEF RefreshNew, Awaited
  <2>2. QED
    BY <1>1, <1>6, <2>1 DEF RefreshStep, RefreshExisting
<1>7. ASSUME NEW i \in Flights, Finish(i)
      PROVE  Awaited'
  <2> DEFINE h == flight[i].hash
  <2>1. flight[i].stage = "settled" /\ h \in Hashes
    BY <1>7, FlightStages DEF Finish, TypeOK
  <2>2. inflight[h] = i
    BY <2>1 DEF Registered, Busy
  <2>3. inflight' = [inflight EXCEPT ![h] = None]
    BY <1>7, <2>2 DEF Finish
  <2> HIDE DEF h
  <2>4. ASSUME NEW c \in Calls, call'[c].pc = "waiting"
        PROVE  inflight'[call'[c].hash] = call'[c].flight
    <3>1. CASE call[c].pc = "waiting" /\ call[c].flight = i
      <4>1. call[c] \in WaitingCalls
        BY <3>1, CallSteps DEF TypeOK
      <4> DEFINE res == flight[i].result
      <4>2. call'[c] = [call[c] EXCEPT !.pc = "woken", !.flight = None, !.result = res]
        BY <1>7, <3>1 DEF Finish
      <4> HIDE DEF res
      <4>3. call'[c].pc = "woken"
        BY <4>1, <4>2 DEF WaitingCalls
      <4>4. QED
        BY <2>4, <4>3
    <3>2. CASE ~ (call[c].pc = "waiting" /\ call[c].flight = i)
      <4>1. call'[c] = call[c] /\ call[c].pc = "waiting" /\ call[c].flight # i
        BY <1>7, <2>4, <3>2 DEF Finish
      <4>2. call[c].hash # h /\ inflight[call[c].hash] = call[c].flight
        BY <2>2, <4>1, WaitingCall
      <4>3. QED
        BY <2>3, <4>1, <4>2, WaitingCall DEF TypeOK
    <3>3. QED
      BY <3>1, <3>2
  <2>5. QED
    BY <2>4 DEF Awaited
<1>8. ASSUME NEW i \in Flights, FlightStep(i)
      PROVE  Awaited'
  BY <1>1, <1>7, <1>8 DEF FlightStep, Answer, Store, Fail, Timeout, ErrorKinds
<1>9. QED
  BY <1>1, <1>3, <1>4, <1>5, <1>6, <1>8
  DEF Next, ResolverStep, vars, Tick, StepWall, Evict, ServerChange

------------------------------------------------------------------------------
LEMMA MaxFacts ==
  ASSUME NEW S \in SUBSET Nat, S # {}, NEW b \in Nat, \A x \in S : x <= b
  PROVE  Max(S) \in S /\ \A x \in S : x <= Max(S)
<1> DEFINE U == {n \in Nat : \A x \in S : x <= n}
<1>1. U \in SUBSET Nat /\ b \in U
  OBVIOUS
<1>2. PICK m \in U : \A n \in U : m <= n
  BY <1>1, LowestNumber
<1>3. m \in S
  <2> SUFFICES ASSUME m \notin S PROVE FALSE
    OBVIOUS
  <2>1. m \in Nat /\ \A x \in S : x <= m /\ x # m /\ x \in Nat
    BY <1>2
  <2> PICK y \in S : TRUE
    OBVIOUS
  <2>2. m - 1 \in Nat /\ \A x \in S : x <= m - 1
    <3>1. y \in Nat /\ y < m /\ m \in Nat
      BY <2>1
    <3>2. m - 1 \in Nat
      BY <3>1
    <3>3. QED
      BY <2>1, <3>2
  <2>3. QED
    BY <1>2, <2>1, <2>2
<1>4. \A x \in S : m >= x
  BY <1>2
<1>5. \A y \in S : (\A x \in S : y >= x) <=> y = m
  BY <1>3, <1>4
<1>6. QED
  BY <1>3, <1>4, <1>5 DEF Max

LEMMA CallHashes ==
  ASSUME TypeOK, NEW c \in Calls, call[c].pc # "idle"
  PROVE  call[c].hash \in Hashes
BY CallSteps DEF TypeOK, CallRecords, IdleCall, LookingCalls, JoiningCalls, WaitingCalls,
   WokenCalls, DoneCalls

\* What a call is told is as new as what had been returned when it began ...
LEMMA LearnsNoOlder ==
  ASSUME TypeOK, Registered, HistoryInv, NEW c \in Calls, GoesOn(c),
         call'[c].pc \in {"woken", "done"}, call'[c].result.ans # None
  PROVE  /\ call[c].hash \in Hashes
         /\ floor[c] <= call'[c].result.ans.ver
         /\ NoneOlder(call[c].hash, call'[c].result.ans.ver)
<1> DEFINE h == call[c].hash
<1>1. h \in Hashes /\ floor[c] \in Nat /\ floor[c] <= seen[h] /\ seen[h] \in Nat
  BY CallHashes DEF GoesOn, HistoryInv, CallReads, SeenReads, NoneOlder
<1>2. CASE call[c].pc \in {"woken", "done"} /\ call'[c].result = call[c].result
  BY <1>1, <1>2 DEF HistoryInv, CallReads
<1>3. CASE h \in Keys(cache) /\ call'[c].result.ans = cache.entry[h].ans
  <2>1. seen[h] <= cache.entry[h].ans.ver /\ cache.entry[h].ans.ver \in Nat
    <3>1. NoneOlder(h, seen[h])
      BY <1>1 DEF HistoryInv, SeenReads
    <3>2. cache.entry[h].ans \in Answers
      BY <1>3, EntryAnswers
    <3>3. QED
      BY <1>3, <3>1, <3>2 DEF NoneOlder, Answers
  <2>2. NoneOlder(h, cache.entry[h].ans.ver)
    BY <1>3 DEF HistoryInv, Sourced
  <2>3. QED
    BY <1>1, <1>3, <2>1, <2>2
<1>4. CASE call[c].pc = "woken" /\ call[c].stale # None /\ call'[c].result.ans = call[c].stale.ans
  BY <1>1, <1>4 DEF HistoryInv, CallReads
<1>5. CASE /\ call[c].pc = "waiting" /\ call[c].flight \in Flights
           /\ flight[call[c].flight].stage = "settled"
           /\ call'[c].result = flight[call[c].flight].result
  <2>1. PICK i \in Flights : i = call[c].flight
    BY <1>5
  <2>2. inflight[h] = i /\ i # None
    BY <1>5, <2>1, WaitingCall DEF HistoryInv
  <2>3. flight[i].hash = h
    BY <1>1, <2>2 DEF Registered
  <2>4. flight[i] \in SettledFlights
    BY <1>5, <2>1, FlightStages DEF TypeOK
  <2>5. flight[i].result.kind = "fill" /\ flight[i].result.ans \in Answers
    BY <1>5, <2>1, <2>4 DEF SettledFlights, FillResults
  <2>6. NoneOlder(h, flight[i].result.ans.ver)
    BY <1>5, <2>1, <2>3, <2>5 DEF HistoryInv, Sourced
  <2>7. seen[h] <= flight[i].result.ans.ver /\ flight[i].result.ans.ver \in Nat
    BY <1>1, <1>5, <2>1, <2>3, <2>5 DEF HistoryInv, SeenReads, NoneOlder, HoldsAnswer, Answers
  <2>8. call'[c].result.ans.ver = flight[i].result.ans.ver
    BY <1>5, <2>1
  <2>9. QED
    BY <1>1, <2>6, <2>7, <2>8
<1>6. QED
  BY <1>2, <1>3, <1>4, <1>5 DEF GoesOn, Learns

\* ... and so is what it keeps.
LEMMA KeepsNoOlder ==
  ASSUME TypeOK, HistoryInv, NEW c \in Calls, GoesOn(c),
         call'[c].pc \in {"join", "waiting", "woken"}, call'[c].stale # None
  PROVE  /\ call[c].hash \in Hashes
         /\ floor[c] <= call'[c].stale.ans.ver
         /\ NoneOlder(call[c].hash, call'[c].stale.ans.ver)
<1> DEFINE h == call[c].hash
<1>1. h \in Hashes /\ floor[c] \in Nat /\ floor[c] <= seen[h] /\ seen[h] \in Nat
  BY CallHashes DEF GoesOn, HistoryInv, CallReads, SeenReads, NoneOlder
<1>2. CASE call[c].pc \in {"join", "waiting", "woken"} /\ call'[c].stale = call[c].stale
  BY <1>1, <1>2 DEF HistoryInv, CallReads
<1>3. CASE h \in Keys(cache) /\ call'[c].stale = cache.entry[h]
  <2>1. seen[h] <= cache.entry[h].ans.ver /\ cache.entry[h].ans.ver \in Nat
    <3>1. NoneOlder(h, seen[h])
      BY <1>1 DEF HistoryInv, SeenReads
    <3>2. cache.entry[h].ans \in Answers
      BY <1>3, EntryAnswers
    <3>3. QED
      BY <1>3, <3>1, <3>2 DEF NoneOlder, Answers
  <2>2. NoneOlder(h, cache.entry[h].ans.ver)
    BY <1>3 DEF HistoryInv, Sourced
  <2>3. QED
    BY <1>1, <1>3, <2>1, <2>2
<1>4. QED
  BY <1>2, <1>3 DEF GoesOn, Keeps

\* The newest version returned so far, after a step.
LEMMA SeenStep ==
  ASSUME TypeOK, TypeOK', Registered, HistoryInv, HNext, NEW h \in Hashes
  PROVE  seen[h] <= seen'[h] /\ NoneOlder(h, seen[h])'
         /\ \A x \in Returned(h) : x <= seen'[h]
<1> DEFINE S == {seen[h]} \cup Returned(h)
<1>0. [Next]_vars /\ \A d \in Calls : Moves(d)
  BY CallMoves DEF HNext
<1>1. ASSUME NEW x \in S
      PROVE  NoneOlder(h, x)'
  <2>1. CASE x = seen[h]
    BY <1>0, <2>1, NoneOlderKept DEF HistoryInv, SeenReads
  <2>2. CASE x \in Returned(h)
    <3>1. PICK d \in Calls : /\ call'[d].pc = "done" /\ call'[d].hash = h
                             /\ call'[d].result.ans # None
                             /\ x = call'[d].result.ans.ver
      BY <2>2 DEF Returned
    <3>2. GoesOn(d) /\ call[d].hash = h
      BY <1>0, <3>1 DEF Moves, Starts, GoesOn
    <3>3. NoneOlder(h, x)
      BY <3>1, <3>2, LearnsNoOlder
    <3>4. QED
      BY <1>0, <3>3, NoneOlderKept
  <2>3. QED
    BY <2>1, <2>2
<1>2. S \in SUBSET Nat /\ S # {} /\ \A x \in S : x <= server'[h].ver
  BY <1>1 DEF NoneOlder
<1>3. server'[h].ver \in Nat
  BY DEF TypeOK
<1>4. Max(S) \in S /\ \A x \in S : x <= Max(S)
  BY <1>2, <1>3, MaxFacts
<1>5. seen'[h] = Max(S)
  BY DEF HNext
<1>6. PICK v \in S : v = Max(S)
  BY <1>4
<1>7. NoneOlder(h, v)'
  BY <1>1
<1>8. QED
  BY <1>4, <1>5, <1>6, <1>7 DEF NoneOlder

LEMMA HistoryStep ==
  ASSUME TypeOK, TypeOK', Registered, Ordered, Bounded(cache), HistoryInv, HNext
  PROVE  HistoryInv'
<1>1. [Next]_vars /\ \A d \in Calls : Moves(d)
  BY CallMoves DEF HNext
<1>2. Sourced' /\ Awaited'
  BY <1>1, NextSourced, NextAwaited DEF HistoryInv
<1>3. SeenReads'
  BY SeenStep DEF SeenReads, NoneOlder
<1>4. ASSUME NEW c \in Calls
      PROVE  CallReads(c)'
  <2>1. floor'[c] = IF Starts(c) THEN seen[call'[c].hash]
                    ELSE IF call'[c].pc = "idle" THEN 0 ELSE floor[c]
    BY DEF HNext, Starts
  <2>2. CASE call'[c].pc = "idle"
    BY <2>2 DEF CallReads
  <2>3. CASE Starts(c) /\ call'[c].hash \in Hashes
    <3>1. PICK g \in Hashes : g = call'[c].hash
      BY <2>3
    <3>2. seen[g] \in Nat /\ seen[g] <= seen'[g] /\ floor'[c] = seen[g]
      BY <2>1, <2>3, <3>1, SeenStep DEF HistoryInv, SeenReads, NoneOlder
    <3>3. QED
      BY <2>3, <3>1, <3>2 DEF CallReads, Starts
  <2>4. CASE GoesOn(c) /\ call'[c].pc # "idle"
    <3>0. PICK h \in Hashes : h = call[c].hash
      BY <2>4, CallHashes DEF GoesOn
    <3>1. /\ h \in Hashes /\ call'[c].hash = h /\ floor'[c] = floor[c]
          /\ floor[c] \in Nat /\ floor[c] <= seen[h]
      BY <2>1, <2>4, <3>0, CallHashes DEF GoesOn, HistoryInv, CallReads
    <3>2. floor[c] <= seen'[h]
      <4>1. seen[h] \in Nat /\ seen'[h] \in Nat /\ seen[h] <= seen'[h]
        BY <3>1, SeenStep DEF HistoryInv, SeenReads, NoneOlder
      <4>2. QED
        BY <3>1, <4>1
    <3>3. ASSUME call'[c].pc \in {"join", "waiting", "woken"}, call'[c].stale # None
          PROVE  floor[c] <= call'[c].stale.ans.ver /\ NoneOlder(h, call[c].stale.ans.ver)'
      <4>1. PICK v : v = call'[c].stale.ans.ver
        OBVIOUS
      <4>2. floor[c] <= v /\ NoneOlder(h, v)
        BY <2>4, <3>0, <3>3, <4>1, KeepsNoOlder
      <4>3. NoneOlder(h, v)'
        BY <1>1, <3>1, <4>2, NoneOlderKept
      <4>4. QED
        BY <4>1, <4>2, <4>3 DEF NoneOlder
    <3>4. ASSUME call'[c].pc \in {"woken", "done"}, call'[c].result.ans # None
          PROVE  floor[c] <= call'[c].result.ans.ver /\ NoneOlder(h, call[c].result.ans.ver)'
      <4>1. PICK v : v = call'[c].result.ans.ver
        OBVIOUS
      <4>2. floor[c] <= v /\ NoneOlder(h, v)
        BY <2>4, <3>0, <3>4, <4>1, LearnsNoOlder
      <4>3. NoneOlder(h, v)'
        BY <1>1, <3>1, <4>2, NoneOlderKept
      <4>4. QED
        BY <4>1, <4>2, <4>3 DEF NoneOlder
    <3>5. QED
      BY <3>1, <3>2, <3>3, <3>4 DEF CallReads, NoneOlder
  <2>5. QED
    BY <1>1, <2>2, <2>3, <2>4 DEF Moves
<1>5. QED
  BY <1>2, <1>3, <1>4 DEF HistoryInv

\* When nothing changes, neither does what was returned.
LEMMA HistoryStutters ==
  ASSUME HistoryInv, UNCHANGED hvars
  PROVE  HistoryInv'
<1>1. UNCHANGED <<now, skew, server, cache, inflight, flight, call, refreshers, seen, floor>>
  BY DEF hvars, vars
<1>2. Sourced' /\ Awaited' /\ SeenReads'
  BY <1>1 DEF HistoryInv, Sourced, Awaited, SeenReads, NoneOlder, HoldsAnswer, Keys
<1>3. \A c \in Calls : CallReads(c)'
  BY <1>1 DEF HistoryInv, CallReads, NoneOlder, HoldsAnswer, Keys
<1>4. QED
  BY <1>2, <1>3 DEF HistoryInv

\* Resolves of one token never go back in time: what a call is told is no older
\* than what any resolve() had returned when the call began (the fill stores
\* before its in-flight entry goes, and a hit, a joined fill and a stale entry
\* are all read after the clocks).
THEOREM ReadsMoveForward == HSpec => []MonotonicReads
<1> DEFINE I == /\ TypeOK /\ Registered /\ Ordered /\ Bounded(cache) /\ HistoryInv
<1>1. HInit => I
  <2> SUFFICES ASSUME HInit PROVE I
    OBVIOUS
  <2>1. Init /\ seen = [h \in Hashes |-> 0] /\ Keys(cache) = {}
    BY DEF HInit, Init, Empty, Keys
  <2>2. TypeOK
    BY <2>1, InitTypes
  <2>3. Registered /\ Ordered
    BY <2>1 DEF Init, Registered, Busy, IdleFlight, Ordered, Empty, Keys
  <2>4. Bounded(cache)
    BY <2>1, FS_EmptySet, ConfigAssumption DEF Bounded, Orders
  <2>5. Sourced /\ Awaited
    BY <2>1 DEF Init, Sourced, Awaited, IdleFlight, IdleCall
  <2>6. SeenReads
    BY <2>1, <2>2 DEF Init, SeenReads, NoneOlder, HoldsAnswer, IdleFlight, TypeOK
  <2>7. \A c \in Calls : CallReads(c)
    BY <2>1 DEF Init, CallReads, IdleCall
  <2>8. QED
    BY <2>2, <2>3, <2>4, <2>5, <2>6, <2>7 DEF HistoryInv
<1>2. I /\ [HNext]_hvars => I'
  <2> SUFFICES ASSUME I, [HNext]_hvars PROVE I'
    OBVIOUS
  <2>1. [Next]_vars
    BY DEF HNext, hvars
  <2>2. TypeOK' /\ Registered' /\ Ordered' /\ Bounded(cache')
    BY <2>1, NextTypes, NextRegistered, NextOrdered, NextBounded
  <2>3. HistoryInv'
    BY <2>2, HistoryStep, HistoryStutters
  <2>4. QED
    BY <2>2, <2>3
<1>3. I => MonotonicReads
  BY DEF HistoryInv, CallReads, MonotonicReads
<1>4. QED
  BY <1>1, <1>2, <1>3, PTL DEF HSpec

------------------------------------------------------------------------------
\* An answer about h from no later than now and, when it bears a session and the
\* sign-out of h has removed that, from no later than the removal.
From(h, a) ==
  /\ a.asOf \in Nat /\ a.asOf <= now
  /\ signout[h].stage # "open" /\ a.session # None => a.asOf <= signout[h].at

\* Once a sign-out ended quietly, no session.
Barred(h, a) == signout[h].quiet => a.session = None

\* What a call holds; one that began after the sign-out had ended holds nothing
\* that is barred.
CallBarred(c) ==
  LET r == call[c]
      May(a) == From(r.hash, a) /\ (after[c] => Barred(r.hash, a))
  IN  /\ after[c] => r.pc # "idle" /\ signout[r.hash].stage = "done"
      /\ r.pc \in {"join", "waiting", "woken"} /\ r.stale # None => May(r.stale.ans)
      /\ r.pc \in {"woken", "done"} /\ r.result.ans # None => May(r.result.ans)

SignOutTypes ==
  /\ signout \in [Hashes -> [stage : {"open", "removed", "done"}, at : Nat, quiet : BOOLEAN]]
  /\ after \in [Calls -> BOOLEAN]

\* The authority has forgotten the session, and nobody but the calls that began
\* before holds it once a sign-out ended quietly.
SignOutInv ==
  /\ \A h \in Hashes : /\ signout[h].stage # "open" => server[h].session = None
                       /\ signout[h].quiet => signout[h].stage = "done"
  /\ \A h \in Keys(cache) : From(h, cache.entry[h].ans) /\ Barred(h, cache.entry[h].ans)
  /\ \A i \in Flights : HoldsAnswer(flight[i]) =>
       From(flight[i].hash, flight[i].result.ans) /\ Barred(flight[i].hash, flight[i].result.ans)
  /\ \A c \in Calls : CallBarred(c)

\* The steps of the resolver leave the authority alone, and time moves forward.
LEMMA ResolverAlone ==
  ASSUME TypeOK, ResolverStep
  PROVE  server' = server
<1>1. ASSUME NEW c \in Calls, CallStep(c) \/ Cancel(c) \/ \E h \in Hashes : Begin(c, h)
      PROVE  server' = server
  BY <1>1 DEF CallStep, Cancel, Begin, LookupMiss, LookupExpired, LookupUnfresh, LookupYoungHit,
     LookupOldHit, LookupHit, LookupFinds, DropExpired, StaleCandidate, JoinExisting, JoinNew,
     Resume, ResumeStale
<1>2. QED
  BY <1>1 DEF ResolverStep, RefreshStep, RefreshExisting, RefreshNew, FlightStep, Answer, Store,
     Fail, Timeout, Finish, Tick, StepWall

LEMMA TimeMoves ==
  ASSUME TypeOK, [Next]_vars
  PROVE  now <= now'
<1>1. CASE Keeping
  BY <1>1 DEF Keeping
<1>2. CASE \E i \in Flights : Answer(i) \/ Store(i)
  BY <1>2 DEF Answer, Store, TypeOK
<1>3. QED
  BY <1>1, <1>2, StepCases

\* What is from no later than now, or than the removal, stays so.
LEMMA FromKept ==
  ASSUME TypeOK, TypeOK', SignOutTypes, NEW h \in Hashes, NEW a, From(h, a), now <= now',
         signout' = signout \/ \E g \in Hashes : RemoveSession(g) \/ EvictSession(g)
  PROVE  From(h, a)'
<1>1. a.asOf \in Nat /\ a.asOf <= now /\ now \in Nat /\ now' \in Nat
  BY DEF From, TypeOK
<1>2. CASE signout' = signout
  BY <1>1, <1>2 DEF From
<1>3. ASSUME NEW g \in Hashes, RemoveSession(g)
      PROVE  From(h, a)'
  <2>1. signout'[h] = IF h = g THEN [signout[h] EXCEPT !.stage = "removed", !.at = now]
                      ELSE signout[h]
    BY <1>3 DEF RemoveSession, SignOutTypes
  <2>2. CASE h = g
    <3>1. signout'[h].at = now
      BY <2>1, <2>2 DEF SignOutTypes
    <3>2. QED
      BY <1>1, <3>1 DEF From
  <2>3. CASE h # g
    BY <1>1, <2>1, <2>3 DEF From
  <2>4. QED
    BY <2>2, <2>3
<1>4. ASSUME NEW g \in Hashes, EvictSession(g)
      PROVE  From(h, a)'
  <2> DEFINE q == inflight[g] = None
  <2>1. signout' = [signout EXCEPT ![g].stage = "done", ![g].quiet = q] 
    BY <1>4 DEF EvictSession
  <2>2. signout[g].stage = "removed"
    BY <1>4 DEF EvictSession
  <2> HIDE DEF q
  <2>3. signout'[h].at = signout[h].at /\ (signout[h].stage = "open" => signout'[h].stage = "open")
    BY <2>1, <2>2 DEF SignOutTypes
  <2>4. QED
    BY <1>1, <2>3 DEF From
<1>5. QED
  BY <1>2, <1>3, <1>4

\* What a call is told it may be told ...
LEMMA LearnsBarred ==
  ASSUME TypeOK, Registered, Awaited, SignOutInv, NEW c \in Calls, GoesOn(c),
         call'[c].pc \in {"woken", "done"}, call'[c].result.ans # None
  PROVE  /\ From(call[c].hash, call'[c].result.ans)
         /\ after[c] => Barred(call[c].hash, call'[c].result.ans)
<1> DEFINE h == call[c].hash
<1>1. h \in Hashes
  BY CallHashes DEF GoesOn
<1>2. CASE call[c].pc \in {"woken", "done"} /\ call'[c].result = call[c].result
  BY <1>2 DEF SignOutInv, CallBarred
<1>3. CASE h \in Keys(cache) /\ call'[c].result.ans = cache.entry[h].ans
  BY <1>3 DEF SignOutInv
<1>4. CASE call[c].pc = "woken" /\ call[c].stale # None /\ call'[c].result.ans = call[c].stale.ans
  BY <1>4 DEF SignOutInv, CallBarred
<1>5. CASE /\ call[c].pc = "waiting" /\ call[c].flight \in Flights
           /\ flight[call[c].flight].stage = "settled"
           /\ call'[c].result = flight[call[c].flight].result
  <2>1. PICK i \in Flights : i = call[c].flight
    BY <1>5
  <2>2. inflight[h] = i /\ i # None
    BY <1>5, <2>1, WaitingCall
  <2>3. flight[i].hash = h
    BY <1>1, <2>2 DEF Registered
  <2>4. flight[i] \in SettledFlights
    BY <1>5, <2>1, FlightStages DEF TypeOK
  <2>5. flight[i].result.kind = "fill"
    BY <1>5, <2>1, <2>4 DEF SettledFlights, FillResults
  <2>6. QED
    BY <1>5, <2>1, <2>3, <2>5 DEF SignOutInv, HoldsAnswer
<1>6. QED
  BY <1>2, <1>3, <1>4, <1>5 DEF GoesOn, Learns

\* ... and what it keeps it may be told too.
LEMMA KeepsBarred ==
  ASSUME TypeOK, SignOutInv, NEW c \in Calls, GoesOn(c),
         call'[c].pc \in {"join", "waiting", "woken"}, call'[c].stale # None
  PROVE  /\ From(call[c].hash, call'[c].stale.ans)
         /\ after[c] => Barred(call[c].hash, call'[c].stale.ans)
<1> DEFINE h == call[c].hash
<1>1. CASE call[c].pc \in {"join", "waiting", "woken"} /\ call'[c].stale = call[c].stale
  BY <1>1 DEF SignOutInv, CallBarred
<1>2. CASE h \in Keys(cache) /\ call'[c].stale = cache.entry[h]
  BY <1>2 DEF SignOutInv
<1>3. QED
  BY <1>1, <1>2 DEF GoesOn, Keeps

\* A step of the resolver hands on only what it was given.
LEMMA EntriesBarred ==
  ASSUME TypeOK, TypeOK', SignOutTypes, SignOutInv, [Next]_vars, signout' = signout
  PROVE  /\ \A h \in Keys(cache') : From(h, cache.entry[h].ans)' /\ Barred(h, cache.entry[h].ans)'
         /\ \A i \in Flights : HoldsAnswer(flight'[i]) =>
              /\ From(flight[i].hash, flight[i].result.ans)'
              /\ Barred(flight[i].hash, flight[i].result.ans)'
<1>1. \A h \in Hashes : \A a : From(h, a) => From(h, a)'
  BY FromKept, TimeMoves
<1>2. \A h, a : Barred(h, a) => Barred(h, a)'
  BY DEF Barred
<1>3. ASSUME NEW h \in Keys(cache'), NEW a, cache'.entry[h].ans = a, From(h, a), Barred(h, a)
      PROVE  From(h, cache.entry[h].ans)' /\ Barred(h, cache.entry[h].ans)'
  <2>1. h \in Hashes
    BY <1>3 DEF TypeOK, CacheOK
  <2>2. From(h, a)' /\ Barred(h, a)'
    BY <1>1, <1>2, <1>3, <2>1
  <2>3. QED
    BY <1>3, <2>2 DEF From, Barred
<1>4. ASSUME NEW i \in Flights, NEW h \in Hashes, NEW a, flight'[i].hash = h,
             flight'[i].result.ans = a, From(h, a), Barred(h, a)
      PROVE  /\ From(flight[i].hash, flight[i].result.ans)'
             /\ Barred(flight[i].hash, flight[i].result.ans)'
  <2>1. From(h, a)' /\ Barred(h, a)'
    BY <1>1, <1>2, <1>4
  <2>2. QED
    BY <1>4, <2>1 DEF From, Barred
<1>5. \A i \in Flights : HoldsAnswer(flight[i]) => flight[i].hash \in Hashes
  BY FlightStages DEF TypeOK, HoldsAnswer
<1>6. \A h \in Keys(cache) : From(h, cache.entry[h].ans) /\ Barred(h, cache.entry[h].ans)
  BY DEF SignOutInv
<1>7. \A i \in Flights : HoldsAnswer(flight[i]) =>
        From(flight[i].hash, flight[i].result.ans) /\ Barred(flight[i].hash, flight[i].result.ans)
  BY DEF SignOutInv
<1>8. CASE Keeping
  BY <1>3, <1>4, <1>5, <1>6, <1>7, <1>8 DEF Keeping
<1>9. ASSUME NEW i \in Flights, Answer(i)
      PROVE  /\ \A h \in Keys(cache') :
                   From(h, cache.entry[h].ans)' /\ Barred(h, cache.entry[h].ans)'
             /\ \A j \in Flights : HoldsAnswer(flight'[j]) =>
                  /\ From(flight[j].hash, flight[j].result.ans)'
                  /\ Barred(flight[j].hash, flight[j].result.ans)'
  <2> DEFINE h == flight[i].hash
  <2>1. /\ h \in Hashes /\ flight'[i].hash = h
        /\ flight'[i].result.ans.asOf = now
        /\ flight'[i].result.ans.session # None => server[h].session # None
        /\ \A j \in Flights \ {i} : flight'[j] = flight[j]
        /\ cache' = cache
    BY <1>9, AnswerExact
  <2>2. PICK a : a = flight'[i].result.ans
    OBVIOUS
  <2>3. From(h, a) /\ Barred(h, a)
    BY <2>1, <2>2 DEF SignOutInv, From, Barred, TypeOK
  <2>4. \A k \in Keys(cache') : From(k, cache.entry[k].ans)' /\ Barred(k, cache.entry[k].ans)'
    BY <1>3, <1>6, <2>1
  <2>5. ASSUME NEW j \in Flights, HoldsAnswer(flight'[j])
        PROVE  /\ From(flight[j].hash, flight[j].result.ans)'
               /\ Barred(flight[j].hash, flight[j].result.ans)'
    <3>1. CASE j = i
      BY <1>4, <2>1, <2>2, <2>3, <3>1
    <3>2. CASE j # i
      BY <1>4, <1>5, <1>7, <2>1, <2>5, <3>2
    <3>3. QED
      BY <3>1, <3>2
  <2>6. QED
    BY <2>4, <2>5
<1>10. ASSUME NEW i \in Flights, Store(i)
       PROVE  /\ \A h \in Keys(cache') :
                    From(h, cache.entry[h].ans)' /\ Barred(h, cache.entry[h].ans)'
              /\ \A j \in Flights : HoldsAnswer(flight'[j]) =>
                   /\ From(flight[j].hash, flight[j].result.ans)'
                   /\ Barred(flight[j].hash, flight[j].result.ans)'
  <2> DEFINE h == flight[i].hash
             a == flight[i].result.ans
  <2>1. /\ h \in Hashes /\ flight[i].stage = "answered"
        /\ flight'[i].hash = h /\ flight'[i].result = flight[i].result
        /\ \A j \in Flights \ {i} : flight'[j] = flight[j]
        /\ \A k \in Keys(cache') :
             \/ k \in Keys(cache) /\ cache'.entry[k] = cache.entry[k]
             \/ k = h /\ cache'.entry[k].ans = a
    BY <1>10, StoreExact
  <2>2. From(h, a) /\ Barred(h, a)
    BY <1>7, <2>1 DEF HoldsAnswer
  <2>3. \A k \in Keys(cache') : From(k, cache.entry[k].ans)' /\ Barred(k, cache.entry[k].ans)'
    BY <1>3, <1>6, <2>1, <2>2
  <2>4. ASSUME NEW j \in Flights, HoldsAnswer(flight'[j])
        PROVE  /\ From(flight[j].hash, flight[j].result.ans)'
               /\ Barred(flight[j].hash, flight[j].result.ans)'
    <3>1. CASE j = i
      BY <1>4, <2>1, <2>2, <3>1
    <3>2. CASE j # i
      BY <1>4, <1>5, <1>7, <2>1, <2>4, <3>2
    <3>3. QED
      BY <3>1, <3>2
  <2>5. QED
    BY <2>3, <2>4
<1>11. QED
  BY <1>8, <1>9, <1>10, StepCases

\* A call goes on holding only what it may.
LEMMA CallsBarred ==
  ASSUME TypeOK, TypeOK', Registered, Awaited, SignOutTypes, SignOutInv, Resolve
  PROVE  \A c \in Calls : CallBarred(c)'
<1> SUFFICES ASSUME NEW c \in Calls PROVE CallBarred(c)'
  OBVIOUS
<1>1. [Next]_vars /\ now <= now' /\ signout' = signout /\ Moves(c)
  BY CallMoves, TimeMoves DEF Resolve, Next
<1>2. after'[c] = IF Starts(c) THEN signout[call'[c].hash].stage = "done"
                  ELSE after[c] /\ call'[c].pc # "idle"
  BY DEF Resolve, Starts
<1>3. CASE call'[c].pc = "idle"
  BY <1>2, <1>3 DEF CallBarred, Starts
<1>4. CASE Starts(c)
  BY <1>1, <1>2, <1>4 DEF CallBarred, Starts
<1>5. CASE GoesOn(c) /\ call'[c].pc # "idle"
  <2>1. PICK h \in Hashes : h = call[c].hash
    BY <1>5, CallHashes DEF GoesOn
  <2>2. call'[c].hash = h /\ after'[c] = after[c]
    BY <1>2, <1>5, <2>1 DEF GoesOn, SignOutTypes
  <2>3. after[c] => signout'[h].stage = "done"
    BY <1>1, <2>1 DEF SignOutInv, CallBarred
  <2>4. ASSUME NEW a, From(h, a), after[c] => Barred(h, a)
        PROVE  From(h, a)' /\ (after[c] => Barred(h, a)')
    BY <1>1, <2>4, FromKept DEF Barred
  <2>5. ASSUME call'[c].pc \in {"join", "waiting", "woken"}, call'[c].stale # None
        PROVE  /\ From(h, call[c].stale.ans)'
               /\ after[c] => Barred(h, call[c].stale.ans)'
    <3>1. PICK a : a = call'[c].stale.ans
      OBVIOUS
    <3>2. From(h, a) /\ (after[c] => Barred(h, a))
      BY <1>5, <2>1, <2>5, <3>1, KeepsBarred
    <3>3. QED
      BY <2>4, <3>1, <3>2 DEF From, Barred
  <2>6. ASSUME call'[c].pc \in {"woken", "done"}, call'[c].result.ans # None
        PROVE  /\ From(h, call[c].result.ans)'
               /\ after[c] => Barred(h, call[c].result.ans)'
    <3>1. PICK a : a = call'[c].result.ans
      OBVIOUS
    <3>2. From(h, a) /\ (after[c] => Barred(h, a))
      BY <1>5, <2>1, <2>6, <3>1, LearnsBarred
    <3>3. QED
      BY <2>4, <3>1, <3>2 DEF From, Barred
  <2>7. QED
    BY <1>5, <2>2, <2>3, <2>5, <2>6 DEF CallBarred, From, Barred
<1>6. QED
  BY <1>1, <1>3, <1>4, <1>5 DEF Moves

LEMMA ResolveBarred ==
  ASSUME TypeOK, TypeOK', Registered, Awaited, SignOutTypes, SignOutInv, Resolve
  PROVE  SignOutTypes' /\ SignOutInv'
<1>1. [Next]_vars /\ signout' = signout /\ server' = server
  BY ResolverAlone DEF Resolve, Next
<1>2. SignOutTypes'
  BY <1>1 DEF SignOutTypes, Resolve
<1>3. QED
  BY <1>1, <1>2, EntriesBarred, CallsBarred DEF SignOutInv

\* The steps of a sign-out, and what they leave alone.
LEMMA RemoveBarred ==
  ASSUME TypeOK, Registered, Awaited, Timely, SignOutTypes, SignOutInv,
         NEW g \in Hashes, RemoveSession(g)
  PROVE  (TypeOK /\ Registered /\ Awaited /\ Timely /\ SignOutTypes /\ SignOutInv)'
<1>1. UNCHANGED <<now, skew, cache, inflight, flight, call, refreshers, after>>
  BY DEF RemoveSession
<1>2. /\ server' = [server EXCEPT ![g] = [ver |-> @.ver + 1, session |-> None]]
      /\ signout' = [signout EXCEPT ![g].stage = "removed", ![g].at = now]
      /\ signout[g].stage = "open"
  BY DEF RemoveSession
<1>3. server' \in [Hashes -> [ver : Nat, session : Nat \cup {None}]]
  BY <1>2 DEF TypeOK
<1>4. TypeOK'
  BY <1>1, <1>3 DEF TypeOK, CacheOK, Keys
<1>5. Registered' /\ Awaited'
  BY <1>1 DEF Registered, Awaited, Busy
<1>6. Timely'
  BY <1>1 DEF Timely, FlightsTimely, EntriesTimely, CallsTimely, FlightTimely, EntryTimely,
     CallTimely, FillTimely, HitTimely, StaleTimely, Lasting, LongestTtl, Busy, Keys
<1>7. PICK s \in [stage : {"removed"}, at : Nat, quiet : BOOLEAN] :
        signout' = [signout EXCEPT ![g] = s] /\ s.quiet = signout[g].quiet
  <2> DEFINE s == [signout[g] EXCEPT !.stage = "removed", !.at = now]
  <2>1. signout[g] \in [stage : {"open", "removed", "done"}, at : Nat, quiet : BOOLEAN]
    BY DEF SignOutTypes
  <2>2. s \in [stage : {"removed"}, at : Nat, quiet : BOOLEAN] /\ s.quiet = signout[g].quiet
    BY <2>1 DEF TypeOK
  <2>3. signout' = [signout EXCEPT ![g] = s]
    BY <1>2 DEF SignOutTypes
  <2> HIDE DEF s
  <2>4. QED
    BY <2>2, <2>3
<1>8. /\ signout'[g] = s
      /\ \A h \in Hashes \ {g} : signout'[h] = signout[h] /\ server'[h] = server[h]
      /\ server'[g].session = None
  BY <1>2, <1>7 DEF SignOutTypes, TypeOK
<1>9. SignOutTypes'
  BY <1>1, <1>7 DEF SignOutTypes
<1>10. \A h \in Hashes : /\ signout'[h].quiet = signout[h].quiet
                         /\ signout'[h].stage = IF h = g THEN "removed" ELSE signout[h].stage
  BY <1>7, <1>8
<1>11. \A h \in Hashes : /\ signout'[h].stage # "open" => server'[h].session = None
                         /\ signout'[h].quiet => signout'[h].stage = "done"
  <2> SUFFICES ASSUME NEW h \in Hashes
               PROVE  /\ signout'[h].stage # "open" => server'[h].session = None
                      /\ signout'[h].quiet => signout'[h].stage = "done"
    OBVIOUS
  <2>1. CASE h = g
    BY <1>2, <1>8, <1>10, <2>1 DEF SignOutInv
  <2>2. CASE h # g
    BY <1>8, <2>2 DEF SignOutInv
  <2>3. QED
    BY <2>1, <2>2
<1>12. \A h \in Hashes : \A a : From(h, a) => From(h, a)'
  <2>1. now <= now'
    BY <1>1 DEF TypeOK
  <2>2. QED
    BY <1>4, <2>1, FromKept
<1>13. \A h \in Hashes : \A a : Barred(h, a) => Barred(h, a)'
  BY <1>10 DEF Barred
<1>14. \A h \in Keys(cache') : From(h, cache.entry[h].ans)' /\ Barred(h, cache.entry[h].ans)'
  <2> SUFFICES ASSUME NEW h \in Keys(cache')
               PROVE  From(h, cache.entry[h].ans)' /\ Barred(h, cache.entry[h].ans)'
    OBVIOUS
  <2>1. PICK a : a = cache.entry[h].ans
    OBVIOUS
  <2>2. h \in Hashes /\ From(h, a) /\ Barred(h, a)
    BY <1>1, <2>1 DEF SignOutInv, TypeOK, CacheOK
  <2>3. QED
    BY <1>1, <1>12, <1>13, <2>1, <2>2 DEF From, Barred
<1>15. ASSUME NEW i \in Flights, HoldsAnswer(flight'[i])
       PROVE  /\ From(flight[i].hash, flight[i].result.ans)'
              /\ Barred(flight[i].hash, flight[i].result.ans)'
  <2>1. PICK h, a : h = flight[i].hash /\ a = flight[i].result.ans
    OBVIOUS
  <2>2. h \in Hashes /\ From(h, a) /\ Barred(h, a)
    BY <1>1, <1>15, <2>1, FlightStages DEF SignOutInv, TypeOK, HoldsAnswer
  <2>3. QED
    BY <1>1, <1>12, <1>13, <2>1, <2>2 DEF From, Barred
<1>16. ASSUME NEW c \in Calls
       PROVE  CallBarred(c)'
  <2>1. CASE call[c].pc = "idle"
    BY <1>1, <2>1 DEF SignOutInv, CallBarred
  <2>2. CASE call[c].pc # "idle"
    <3>1. PICK h \in Hashes : h = call[c].hash
      BY <2>2, CallHashes
    <3>2. after[c] => h # g /\ signout'[h].stage = "done"
      <4>1. after[c] => signout[h].stage = "done"
        BY <3>1 DEF SignOutInv, CallBarred
      <4>2. QED
        BY <1>2, <1>8, <1>10, <4>1
    <3>3. ASSUME call[c].pc \in {"join", "waiting", "woken"}, call[c].stale # None
          PROVE  /\ From(h, call[c].stale.ans)'
                 /\ after[c] => Barred(h, call[c].stale.ans)'
      <4>1. PICK a : a = call[c].stale.ans
        OBVIOUS
      <4>2. From(h, a) /\ (after[c] => Barred(h, a))
        BY <3>1, <3>3, <4>1 DEF SignOutInv, CallBarred
      <4>3. QED
        BY <1>1, <1>12, <1>13, <4>1, <4>2 DEF From, Barred
    <3>4. ASSUME call[c].pc \in {"woken", "done"}, call[c].result.ans # None
          PROVE  /\ From(h, call[c].result.ans)'
                 /\ after[c] => Barred(h, call[c].result.ans)'
      <4>1. PICK a : a = call[c].result.ans
        OBVIOUS
      <4>2. From(h, a) /\ (after[c] => Barred(h, a))
        BY <3>1, <3>4, <4>1 DEF SignOutInv, CallBarred
      <4>3. QED
        BY <1>1, <1>12, <1>13, <4>1, <4>2 DEF From, Barred
    <3>5. QED
      BY <1>1, <2>2, <3>1, <3>2, <3>3, <3>4 DEF CallBarred, From, Barred
  <2>3. QED
    BY <2>1, <2>2
<1>17. QED
  BY <1>4, <1>5, <1>6, <1>9, <1>11, <1>14, <1>15, <1>16 DEF SignOutInv

LEMMA EvictBarred ==
  ASSUME TypeOK, TypeOK', Registered, Awaited, SignOutTypes, SignOutInv,
         NEW g \in Hashes, EvictSession(g)
  PROVE  SignOutTypes' /\ SignOutInv'
<1>1. UNCHANGED <<now, skew, server, inflight, flight, call, after>>
  BY DEF EvictSession, Evict
<1> DEFINE q == inflight[g] = None
<1>2. /\ signout' = [signout EXCEPT ![g].stage = "done", ![g].quiet = q]
      /\ signout[g].stage = "removed" /\ q \in BOOLEAN
  BY DEF EvictSession
<1>3. \A h \in Keys(cache') : h \in Keys(cache) \ {g} /\ cache'.entry[h] = cache.entry[h]
  BY WithoutFacts DEF EvictSession, Evict, TypeOK
<1> HIDE DEF q
<1>4. \A h \in Hashes :
        /\ signout'[h].quiet = IF h = g THEN q ELSE signout[h].quiet
        /\ signout'[h].stage = IF h = g THEN "done" ELSE signout[h].stage
  BY <1>2 DEF SignOutTypes
<1>5. SignOutTypes'
  BY <1>1, <1>2 DEF SignOutTypes
<1>6. \A h \in Hashes : /\ signout'[h].stage # "open" => server'[h].session = None
                        /\ signout'[h].quiet => signout'[h].stage = "done"
  BY <1>1, <1>2, <1>4 DEF SignOutInv
<1>7. \A h \in Hashes : \A a : From(h, a) => From(h, a)'
  <2>1. now <= now'
    BY <1>1 DEF TypeOK
  <2>2. QED
    BY <2>1, FromKept
<1>8. \A h \in Hashes \ {g} : \A a : Barred(h, a) => Barred(h, a)'
  BY <1>4 DEF Barred
<1>9. \A h \in Keys(cache') : From(h, cache.entry[h].ans)' /\ Barred(h, cache.entry[h].ans)'
  <2> SUFFICES ASSUME NEW h \in Keys(cache')
               PROVE  From(h, cache.entry[h].ans)' /\ Barred(h, cache.entry[h].ans)'
    OBVIOUS
  <2>1. PICK a : a = cache.entry[h].ans
    OBVIOUS
  <2>2. h \in Hashes \ {g} /\ From(h, a) /\ Barred(h, a) /\ cache'.entry[h].ans = a
    BY <1>3, <2>1 DEF SignOutInv, TypeOK, CacheOK
  <2>3. QED
    BY <1>7, <1>8, <2>2 DEF From, Barred
<1>10. ASSUME NEW i \in Flights, HoldsAnswer(flight'[i])
       PROVE  /\ From(flight[i].hash, flight[i].result.ans)'
              /\ Barred(flight[i].hash, flight[i].result.ans)'
  <2>1. PICK h, a : h = flight[i].hash /\ a = flight[i].result.ans
    OBVIOUS
  <2>2. h \in Hashes /\ From(h, a) /\ Barred(h, a)
    BY <1>1, <1>10, <2>1, FlightStages DEF SignOutInv, TypeOK, HoldsAnswer
  <2>3. Barred(h, a)'
    <3>1. CASE h # g
      BY <1>8, <2>2, <3>1
    <3>2. CASE h = g
      <4>1. inflight[g] = i
        <5>1. flight'[i] = flight[i]
          BY <1>1
        <5>2. Busy(i)
          BY <1>10, <5>1 DEF Busy, HoldsAnswer
        <5>3. QED
          BY <2>1, <3>2, <5>2 DEF Registered
      <4>2. signout'[g].quiet = FALSE
        BY <1>4, <4>1, NoneAssumption DEF q
      <4>3. QED
        BY <3>2, <4>2 DEF Barred
    <3>3. QED
      BY <3>1, <3>2
  <2>4. QED
    BY <1>1, <1>7, <2>1, <2>2, <2>3 DEF From, Barred
<1>11. ASSUME NEW c \in Calls
       PROVE  CallBarred(c)'
  <2>1. CASE call[c].pc = "idle"
    BY <1>1, <2>1 DEF SignOutInv, CallBarred
  <2>2. CASE call[c].pc # "idle"
    <3>1. PICK h \in Hashes : h = call[c].hash
      BY <2>2, CallHashes
    <3>2. after[c] => h # g /\ signout'[h].stage = "done"
      BY <1>2, <1>4, <3>1 DEF SignOutInv, CallBarred
    <3>3. ASSUME call[c].pc \in {"join", "waiting", "woken"}, call[c].stale # None
          PROVE  /\ From(h, call[c].stale.ans)'
                 /\ after[c] => Barred(h, call[c].stale.ans)'
      <4>1. PICK a : a = call[c].stale.ans
        OBVIOUS
      <4>2. From(h, a) /\ (after[c] => Barred(h, a))
        BY <3>1, <3>3, <4>1 DEF SignOutInv, CallBarred
      <4>3. QED
        BY <1>1, <1>7, <1>8, <3>2, <4>1, <4>2 DEF From, Barred
    <3>4. ASSUME call[c].pc \in {"woken", "done"}, call[c].result.ans # None
          PROVE  /\ From(h, call[c].result.ans)'
                 /\ after[c] => Barred(h, call[c].result.ans)'
      <4>1. PICK a : a = call[c].result.ans
        OBVIOUS
      <4>2. From(h, a) /\ (after[c] => Barred(h, a))
        BY <3>1, <3>4, <4>1 DEF SignOutInv, CallBarred
      <4>3. QED
        BY <1>1, <1>7, <1>8, <3>2, <4>1, <4>2 DEF From, Barred
    <3>5. QED
      BY <1>1, <2>2, <3>1, <3>2, <3>3, <3>4 DEF CallBarred, From, Barred
  <2>3. QED
    BY <2>1, <2>2
<1>12. QED
  BY <1>5, <1>6, <1>9, <1>10, <1>11 DEF SignOutInv

LEMMA CreateBarred ==
  ASSUME TypeOK, TypeOK', SignOutTypes, SignOutInv, NEW g \in Hashes, CreateSession(g)
  PROVE  SignOutTypes' /\ SignOutInv'
<1>1. UNCHANGED <<now, cache, inflight, flight, call, signout, after>>
  BY DEF CreateSession, ServerChange
<1>2. signout[g].stage = "open" /\ \A h \in Hashes \ {g} : server'[h] = server[h]
  BY DEF CreateSession, ServerChange, TypeOK
<1>3. SignOutTypes'
  BY <1>1 DEF SignOutTypes
<1>4. \A c \in Calls : CallBarred(c)'
  BY <1>1 DEF SignOutInv, CallBarred, From, Barred
<1>5. QED
  BY <1>1, <1>2, <1>3, <1>4 DEF SignOutInv, From, Barred, HoldsAnswer, Keys

------------------------------------------------------------------------------
\* How long a call has awaited its fill, at the time it is told an answer: no
\* longer than a fetch may take, and not at all for a hit.  What a fill brings it
\* was read no longer before that than a fetch may take.
WaitTimely(c) ==
  LET r == call[c]
      w == waited[c]
  IN  /\ w <= FetchTimeout /\ r.now + w <= now
      /\ r.pc \in {"idle", "lookup", "expired", "stale", "join"} => w = 0
      /\ r.pc = "waiting" => w + flight[r.flight].deadline <= now + FetchTimeout
      /\ r.pc = "done" /\ r.result.kind = "hit" => w = 0
      /\ r.pc \in {"woken", "done"} /\ r.result.kind = "fill" =>
           r.now + w <= r.result.ans.asOf + FetchTimeout

Waits == waited \in [Calls -> Nat] /\ \A c \in Calls : WaitTimely(c)

\* What a call holds of interest here.
LEMMA WaitingTypes ==
  ASSUME TypeOK, NEW c \in Calls
  PROVE  /\ call[c].now \in Nat
         /\ call[c].pc \in {"idle", "lookup", "expired", "stale", "join",
                            "waiting", "woken", "done"}
         /\ call[c].pc = "idle" => call[c].now = 0
BY CallSteps DEF TypeOK, CallRecords, IdleCall, LookingCalls, JoiningCalls, WaitingCalls,
   WokenCalls, DoneCalls

\* A fill that goes on keeps its deadline.
LEMMA DeadlineKept ==
  ASSUME TypeOK, [Next]_vars, NEW i \in Flights, Busy(i), flight'[i].stage # "idle"
  PROVE  flight'[i].deadline = flight[i].deadline
<1>1. CASE flight'[i] = flight[i]
  BY <1>1
<1>2. ASSUME NEW j \in Flights, NEW h, Launch(h, j)
      PROVE  flight'[i] = flight[i]
  BY <1>2 DEF Launch, TypeOK
<1>3. ASSUME NEW j \in Flights, FlightStep(j)
      PROVE  flight'[i].deadline = flight[i].deadline
  <2>1. flight[i] \in AskedFlights \cup AnsweredFlights \cup SettledFlights
    BY FlightStages DEF Busy, TypeOK, FlightRecords, IdleFlight
  <2>2. CASE j # i
    BY <1>3, <2>2 DEF FlightStep, Answer, Store, Fail, Timeout, Finish, TypeOK
  <2>3. CASE j = i
    <3>1. \/ \E x : flight' = [flight EXCEPT ![i].stage = "answered", ![i].result = x]
          \/ flight' = [flight EXCEPT ![i].stage = "settled"]
          \/ \E x : flight' = [flight EXCEPT ![i].stage = "settled", ![i].result = x]
          \/ flight' = [flight EXCEPT ![i] = IdleFlight]
      BY <1>3, <2>3 DEF FlightStep, Answer, Store, Fail, Timeout, Finish
    <3>2. flight' # [flight EXCEPT ![i] = IdleFlight]
      BY DEF Busy, IdleFlight, TypeOK
    <3>3. QED
      BY <2>1, <3>1, <3>2 DEF TypeOK, AskedFlights, AnsweredFlights, SettledFlights
  <2>4. QED
    BY <2>2, <2>3
<1>4. ASSUME NEW c \in Calls, CallStep(c)
      PROVE  flight'[i] = flight[i]
  BY <1>2, <1>4
  DEF CallStep, LookupMiss, LookupExpired, LookupUnfresh, LookupYoungHit, LookupOldHit,
      LookupHit, LookupFinds, DropExpired, StaleCandidate, JoinExisting, JoinNew, Resume,
      ResumeStale
<1>5. QED
  BY <1>1, <1>2, <1>3, <1>4
  DEF Next, ResolverStep, vars, RefreshStep, RefreshExisting, RefreshNew, Cancel, Begin, Tick,
      StepWall, Evict, ServerChange

\* The fill that a call awaits runs, and is within its deadline: before a step ...
LEMMA AwaitedRuns ==
  ASSUME TypeOK, Registered, Awaited, FlightsTimely, NEW c \in Calls, call[c].pc = "waiting"
  PROVE  /\ call[c].flight \in Flights /\ Busy(call[c].flight)
         /\ FlightTimely(flight[call[c].flight])
         /\ flight[call[c].flight].deadline \in Nat
<1>1. /\ call[c].hash \in Hashes /\ call[c].flight \in Flights
      /\ inflight[call[c].hash] = call[c].flight /\ call[c].flight # None
  BY WaitingCall
<1>2. Busy(call[c].flight)
  BY <1>1 DEF Registered
<1>3. QED
  BY <1>1, <1>2, FlightResults DEF FlightsTimely, Busy, TypeOK

\* ... and after it.
LEMMA AwaitedRunsOn ==
  ASSUME TypeOK', Registered', Awaited', FlightsTimely', NEW c \in Calls,
         call'[c].pc = "waiting"
  PROVE  LET i == call'[c].flight
         IN  /\ i \in Flights /\ flight'[i].stage # "idle"
             /\ now' <= flight'[i].deadline /\ flight'[i].deadline <= now' + FetchTimeout
             /\ flight'[i].deadline \in Nat
<1> DEFINE i == call'[c].flight
<1>1. call'[c] \in WaitingCalls
  BY CallSteps DEF TypeOK
<1>2. i \in Flights /\ inflight'[call'[c].hash] = i /\ call'[c].hash \in Hashes /\ i # None
  BY <1>1, NoneAssumption DEF WaitingCalls, Awaited
<1>3. flight'[i].stage # "idle"
  BY <1>2 DEF Registered, Busy
<1>4. flight'[i] \in FlightRecords
  BY <1>2 DEF TypeOK
<1> HIDE DEF i
<1>5. flight'[i].deadline \in Nat
  BY <1>3, <1>4, FlightResults
<1>6. now' <= flight'[i].deadline /\ flight'[i].deadline <= now' + FetchTimeout
  BY <1>2, <1>3 DEF FlightsTimely, FlightTimely, Busy
<1>7. QED
  BY <1>2, <1>3, <1>5, <1>6 DEF i

\* A call that stays where it is ages with the clock while it waits ...
LEMMA StaysTimely ==
  ASSUME TypeOK, TypeOK', Registered, Registered', Awaited, Awaited', Timely, Timely',
         Waits, [Next]_vars, NEW c \in Calls, call'[c] = call[c], now <= now',
         waited'[c] = IF call'[c].pc \in {"idle", "lookup"} THEN 0
                      ELSE IF call[c].pc = "waiting" THEN waited[c] + (now' - now)
                      ELSE waited[c]
  PROVE  WaitTimely(c)'
<1>1. /\ now \in Nat /\ now' \in Nat /\ waited[c] \in Nat /\ call[c].now \in Nat
      /\ FetchTimeout \in Nat /\ WaitTimely(c)
  BY ConfigAssumption, WaitingTypes DEF TypeOK, Waits
<1>2. CASE call[c].pc = "waiting"
  <2> DEFINE i == call[c].flight
             w == waited[c]
  <2>1. i \in Flights /\ Busy(i) /\ flight[i].deadline \in Nat
    BY <1>2, AwaitedRuns DEF Timely
  <2>2. call'[c].pc = "waiting" /\ call'[c].flight = i
    BY <1>2
  <2>3. flight'[i].stage # "idle" /\ now' <= flight'[i].deadline
    BY <2>2, AwaitedRunsOn DEF Timely
  <2>4. flight'[i].deadline = flight[i].deadline
    BY <2>1, <2>3, DeadlineKept
  <2>5. w + flight[i].deadline <= now + FetchTimeout /\ now' <= flight[i].deadline
    BY <1>1, <1>2, <2>3, <2>4 DEF WaitTimely
  <2>6. waited'[c] = w + (now' - now)
    BY <1>2
  <2>7. call[c].now + w <= now
    BY <1>1 DEF WaitTimely
  <2> HIDE DEF w
  <2>8. /\ w + (now' - now) <= FetchTimeout
        /\ call[c].now + (w + (now' - now)) <= now'
        /\ w + (now' - now) + flight[i].deadline <= now' + FetchTimeout
    BY <1>1, <2>1, <2>5, <2>7 DEF w
  <2>9. QED
    BY <1>2, <2>4, <2>6, <2>8 DEF WaitTimely
<1>3. CASE call[c].pc # "waiting"
  <2>1. waited'[c] = waited[c]
    BY <1>1, <1>3 DEF WaitTimely
  <2>2. call[c].now + waited[c] <= now'
    BY <1>1 DEF WaitTimely
  <2>3. QED
    BY <1>1, <1>3, <2>1, <2>2 DEF WaitTimely
<1>4. QED
  BY <1>2, <1>3

\* ... one that takes a step waits from when it joins a fill until that ends ...
LEMMA ProceedsTimely ==
  ASSUME TypeOK, TypeOK', Registered, Registered', Awaited, Awaited', Timely, Timely',
         Waits, NEW c \in Calls, Proceeds(c), ~ Starts(c),
         waited'[c] = IF call'[c].pc \in {"idle", "lookup"} THEN 0
                      ELSE IF call[c].pc = "waiting" THEN waited[c] + (now' - now)
                      ELSE waited[c]
  PROVE  WaitTimely(c)'
<1>1. /\ now \in Nat /\ waited[c] \in Nat /\ call[c].now \in Nat
      /\ FetchTimeout \in Nat /\ WaitTimely(c) /\ now' = now /\ call'[c].now = call[c].now
  BY ConfigAssumption, WaitingTypes DEF TypeOK, Waits, Proceeds
<1>2. waited'[c] = waited[c]
  BY <1>1 DEF Proceeds
<1>3. waited[c] <= FetchTimeout /\ call[c].now + waited[c] <= now
  BY <1>1 DEF WaitTimely
<1>4. CASE /\ call[c].pc \in {"lookup", "expired", "stale"}
           /\ call'[c].pc \in {"expired", "stale", "join"}
  BY <1>1, <1>2, <1>3, <1>4 DEF WaitTimely
<1>5. CASE call[c].pc = "lookup" /\ call'[c].pc = "done" /\ call'[c].result.kind = "hit"
  BY <1>1, <1>2, <1>3, <1>5 DEF WaitTimely
<1>6. CASE call[c].pc = "join" /\ call'[c].pc = "waiting"
  <2>1. /\ flight'[call'[c].flight].deadline <= now + FetchTimeout
        /\ flight'[call'[c].flight].deadline \in Nat
    BY <1>1, <1>6, AwaitedRunsOn DEF Timely
  <2>2. waited[c] = 0
    BY <1>1, <1>6 DEF WaitTimely
  <2>3. QED
    BY <1>1, <1>2, <1>3, <1>6, <2>1, <2>2 DEF WaitTimely
<1>7. CASE /\ call[c].pc = "waiting" /\ call'[c].pc = "woken"
           /\ flight[call[c].flight].stage = "settled"
           /\ call'[c].result = flight[call[c].flight].result
  <2> DEFINE f == flight[call[c].flight]
             a == call'[c].result.ans
  <2>1. FlightTimely(f) /\ f.deadline \in Nat /\ f \in FlightRecords
    BY <1>7, AwaitedRuns DEF Timely, TypeOK
  <2>2. ASSUME call'[c].result.kind = "fill"
        PROVE  call[c].now + waited[c] <= a.asOf + FetchTimeout
    <3>1. a \in Answers /\ now <= f.deadline /\ f.deadline <= a.asOf + FetchTimeout
      BY <1>7, <2>1, <2>2, FlightResults DEF FlightTimely
    <3>2. a.asOf \in Nat
      BY <3>1 DEF Answers
    <3> HIDE DEF a, f
    <3>3. QED
      BY <1>1, <1>3, <2>1, <3>1, <3>2
  <2>3. QED
    BY <1>1, <1>2, <1>3, <1>7, <2>2 DEF WaitTimely
<1>8. CASE /\ call[c].pc = "woken" /\ call'[c].pc = "done"
           /\ call'[c].result = call[c].result \/ call'[c].result.kind = "stale"
  <2>1. call'[c].result.kind # "hit"
    <3>1. call[c] \in WokenCalls
      BY <1>8, CallSteps DEF TypeOK
    <3>2. call[c].result \in FillResults
      BY <3>1 DEF WokenCalls
    <3>3. QED
      BY <1>8, <3>2 DEF FillResults, ErrorKinds
  <2>2. QED
    BY <1>1, <1>2, <1>3, <1>8, <2>1 DEF WaitTimely
<1>9. QED
  BY <1>4, <1>5, <1>6, <1>7, <1>8 DEF Proceeds

\* ... and one that begins, or is dropped, has not waited.
LEMMA NextWaits ==
  ASSUME TypeOK, TypeOK', Registered, Registered', Awaited, Awaited', Timely, Timely',
         Waits, Resolve
  PROVE  Waits'
<1>1. /\ [Next]_vars /\ now <= now' /\ \A c \in Calls : Moves(c)
      /\ now \in Nat /\ now' \in Nat /\ FetchTimeout \in Nat
  BY CallMoves, TimeMoves, ConfigAssumption DEF Resolve, Next, TypeOK
<1>2. waited' = [c \in Calls |->
                  IF call'[c].pc \in {"idle", "lookup"} THEN 0
                  ELSE IF call[c].pc = "waiting" THEN waited[c] + (now' - now)
                  ELSE waited[c]]
  BY DEF Resolve
<1>3. waited' \in [Calls -> Nat]
  <2>1. \A c \in Calls : waited[c] \in Nat /\ waited[c] + (now' - now) \in Nat
    BY <1>1 DEF Waits
  <2>2. QED
    BY <1>2, <2>1
<1>4. ASSUME NEW c \in Calls
      PROVE  WaitTimely(c)'
  <2>1. CASE call'[c].pc = "idle"
    <3>1. waited'[c] = 0 /\ call'[c].now = 0
      BY <1>2, <2>1, CallSteps DEF TypeOK, IdleCall
    <3>2. QED
      BY <1>1, <2>1, <3>1 DEF WaitTimely
  <2>2. CASE Starts(c) /\ call'[c].now = now /\ now' = now
    <3>1. waited'[c] = 0
      BY <1>2, <2>2 DEF Starts
    <3>2. QED
      BY <1>1, <2>2, <3>1 DEF WaitTimely, Starts
  <2>3. CASE GoesOn(c)
    BY <1>1, <1>2, <2>3, StaysTimely, ProceedsTimely DEF GoesOn
  <2>4. QED
    BY <1>1, <2>1, <2>2, <2>3 DEF Moves
<1>5. QED
  BY <1>3, <1>4 DEF Waits

LEMMA WaitsKept ==
  ASSUME Waits, UNCHANGED <<now, call, flight, waited>>
  PROVE  Waits'
BY DEF Waits, WaitTimely

------------------------------------------------------------------------------
\* All that the two theorems about signing out rest on.
SignOutFacts ==
  /\ TypeOK /\ Registered /\ Awaited /\ Timely /\ SignOutTypes /\ SignOutInv /\ Waits

LEMMA SignOutStep ==
  ASSUME SignOutFacts, [SNext]_svars
  PROVE  SignOutFacts'
<1>1. ASSUME [Next]_vars
      PROVE  TypeOK' /\ Registered' /\ Awaited' /\ Timely'
  BY <1>1, NextTypes, NextRegistered, NextAwaited, NextTimely DEF SignOutFacts
<1>2. CASE Resolve
  <2>1. Next
    BY <1>2 DEF Resolve, Next
  <2>2. QED
    BY <1>1, <1>2, <2>1, ResolveBarred, NextWaits DEF SignOutFacts
<1>3. ASSUME NEW g \in Hashes, RemoveSession(g)
      PROVE  SignOutFacts'
  BY <1>3, RemoveBarred, WaitsKept DEF SignOutFacts, RemoveSession
<1>4. ASSUME NEW g \in Hashes, EvictSession(g)
      PROVE  SignOutFacts'
  <2>1. Next
    BY <1>4 DEF EvictSession, Next
  <2>2. QED
    BY <1>1, <1>4, <2>1, EvictBarred, WaitsKept DEF SignOutFacts, EvictSession, Evict
<1>5. ASSUME NEW g \in Hashes, CreateSession(g)
      PROVE  SignOutFacts'
  <2>1. Next
    BY <1>5 DEF CreateSession, Next
  <2>2. QED
    BY <1>1, <1>5, <2>1, CreateBarred, WaitsKept
    DEF SignOutFacts, CreateSession, ServerChange
<1>6. CASE UNCHANGED svars
  <2>1. UNCHANGED vars /\ UNCHANGED <<signout, after, waited>>
    BY <1>6 DEF svars
  <2>2. UNCHANGED <<now, server, cache, inflight, flight, call>>
    BY <2>1 DEF vars
  <2>3. \A c \in Calls : CallBarred(c)'
    BY <2>1, <2>2 DEF SignOutFacts, SignOutInv, CallBarred, From, Barred
  <2>4. SignOutTypes' /\ SignOutInv'
    BY <2>1, <2>2, <2>3
    DEF SignOutFacts, SignOutTypes, SignOutInv, From, Barred, HoldsAnswer, Keys
  <2>5. QED
    BY <1>1, <2>1, <2>2, <2>4, WaitsKept DEF SignOutFacts
<1>7. QED
  BY <1>2, <1>3, <1>4, <1>5, <1>6 DEF SNext

LEMMA SignOutStart ==
  ASSUME SInit
  PROVE  SignOutFacts
<1>1. Init /\ signout = [h \in Hashes |-> [stage |-> "open", at |-> 0, quiet |-> FALSE]]
      /\ after = [c \in Calls |-> FALSE] /\ waited = [c \in Calls |-> 0]
  BY DEF SInit
<1>2. TypeOK /\ Timely
  BY <1>1, InitTypes, InitTimely
<1>3. Registered /\ Awaited
  BY <1>1 DEF Init, Registered, Busy, IdleFlight, Awaited, IdleCall
<1>4. SignOutTypes
  BY <1>1 DEF SignOutTypes
<1>5. SignOutInv
  BY <1>1
  DEF Init, SignOutInv, Empty, Keys, HoldsAnswer, IdleFlight, CallBarred, IdleCall
<1>6. Waits
  BY <1>1, ConfigAssumption DEF Init, Waits, WaitTimely, IdleCall
<1>7. QED
  BY <1>2, <1>3, <1>4, <1>5, <1>6 DEF SignOutFacts

\* The session a call is told of, though the sign-out of its hash has removed it
\* at the authority, was read there no later than that.
LEMMA SignedInBefore ==
  ASSUME SignOutFacts, NEW c \in Calls, SignedIn(c), signout[call[c].hash].stage # "open"
  PROVE  /\ call[c].result.ans.asOf <= signout[call[c].hash].at
         /\ signout[call[c].hash].at \in Nat
<1>1. call[c].pc = "done" /\ call[c].result.ans # None /\ call[c].result.ans.session # None
  BY DEF SignedIn
<1>2. call[c].hash \in Hashes
  BY <1>1, CallHashes DEF SignOutFacts
<1>3. From(call[c].hash, call[c].result.ans)
  BY <1>1 DEF SignOutFacts, SignOutInv, CallBarred
<1>4. QED
  BY <1>1, <1>2, <1>3 DEF From, SignOutFacts, SignOutTypes

\* On every node, and though a sign-out races a fill, a session removed at the
\* authority is honoured, at the time of the answer, no longer than a fetch may
\* take when a fill brings the answer; for the time the cache may serve it on top
\* when it is a hit; and for another fetch, the one that failed, when the cached
\* session covers for an error (resolve, fill, stale_candidate).
THEOREM RevocationsReach == SSpec => []RevocationReaches
<1>1. SignOutFacts => RevocationReaches
  <2> SUFFICES ASSUME SignOutFacts, NEW c \in Calls, SignedIn(c),
                      signout[call[c].hash].stage # "open"
               PROVE  LET r    == call[c].result
                          late == AnsweredAt(c) - signout[call[c].hash].at
                      IN  /\ r.kind = "fill"  => late <= FetchTimeout
                          /\ r.kind = "hit"   => late < FetchTimeout + Lifetime(r)
                          /\ r.kind = "stale" =>
                               late < FetchTimeout + Lifetime(r) + FetchTimeout
    BY DEF RevocationReaches
  <2> DEFINE r == call[c].result
             at == signout[call[c].hash].at
             n  == call[c].now
             w  == waited[c]
             t  == AnsweredAt(c)
  <2>1. r.ans.asOf <= at /\ at \in Nat
    BY SignedInBefore
  <2>2. call[c].pc = "done" /\ r.ans # None /\ r.ans.session # None
    BY DEF SignedIn
  <2>3. AnswerAge
    BY YoungAnswers DEF SignOutFacts, Timely
  <2>4. r.kind # "fill" => n - r.ans.asOf < FetchTimeout + Lifetime(r)
    BY <2>2, <2>3 DEF AnswerAge
  <2>5. /\ r.ans \in Answers /\ n \in Nat
        /\ r.kind \in {"fill", "hit", "stale"}
    BY <2>2, Told DEF SignOutFacts, Timely
  <2>6. r.kind # "fill" => Lifetime(r) \in Nat
    BY <2>2, <2>5, ConfigAssumption DEF Lifetime
  <2>7. r.ans.asOf \in Nat /\ FetchTimeout \in Nat
    BY <2>5, ConfigAssumption DEF Answers
  <2>8. /\ w \in Nat /\ w <= FetchTimeout
        /\ r.kind = "hit" => w = 0
        /\ r.kind = "fill" => n + w <= r.ans.asOf + FetchTimeout
    BY <2>2 DEF SignOutFacts, Waits, WaitTimely
  <2>9. t = n + w
    BY DEF AnsweredAt
  <2> HIDE DEF r, at, n, w, t
  <2>10. r.kind = "fill" => t - at <= FetchTimeout
    BY <2>1, <2>5, <2>7, <2>8, <2>9
  <2>11. r.kind = "hit" => t - at < FetchTimeout + Lifetime(r)
    BY <2>1, <2>4, <2>5, <2>6, <2>7, <2>8, <2>9
  <2>12. r.kind = "stale" => t - at < FetchTimeout + Lifetime(r) + FetchTimeout
    BY <2>1, <2>4, <2>5, <2>6, <2>7, <2>8, <2>9
  <2>13. QED
    BY <2>10, <2>11, <2>12 DEF r, at, t
<1>2. QED
  BY <1>1, SignOutStart, SignOutStep, PTL DEF SSpec

\* A sign-out that evicts while no fill of the token is in flight is final on
\* this node: no cached entry, fill, refresh spawned before or stale candidate
\* brings the session back to a call that begins later.
THEOREM QuietSignOuts == SSpec => []QuietSignOutIsFinal
<1>1. SignOutFacts => QuietSignOutIsFinal
  BY DEF SignOutFacts, SignOutInv, CallBarred, Barred, QuietSignOutIsFinal, SignedIn
<1>2. QED
  BY <1>1, SignOutStart, SignOutStep, PTL DEF SSpec
------------------------------------------------------------------------------
\* What a step leaves alone, a user does not see change.
LEMMA ViewsKept ==
  /\ UNCHANGED <<now, skew, server>> => UNCHANGED <<Wall, AuthorityView>>
  /\ cache'.entry = cache.entry => UNCHANGED CacheView
  /\ UNCHANGED <<inflight, flight>> => UNCHANGED FlightView
  /\ UNCHANGED refreshers => UNCHANGED DueView
  /\ UNCHANGED call => UNCHANGED CallView
BY DEF Wall, AuthorityView, CacheView, Keys, FlightView, DueView, CallView

\* A step of one call.
LEMMA OneCallView ==
  ASSUME NEW c \in Calls, NEW r, call'[c] = r, \A d \in Calls \ {c} : call'[d] = call[d]
  PROVE  CallView' = [CallView EXCEPT ![c] = CallRecordView(r)]
BY DEF CallView

\* A step of the fill registered for h, the only one of h.
LEMMA OneFlightView ==
  ASSUME TypeOK, Registered, NEW i \in Flights, Busy(i),
         inflight' = inflight, \A j \in Flights \ {i} : flight'[j] = flight[j]
  PROVE  /\ flight[i].hash \in Hashes
         /\ FlightView[flight[i].hash] = FillView(flight[i])
         /\ FlightView' = [FlightView EXCEPT ![flight[i].hash] = FillView(flight'[i])]
<1>1. flight[i].hash \in Hashes /\ inflight[flight[i].hash] = i /\ i # None
  BY FlightStages, NoneAssumption DEF Registered, Busy, TypeOK
<1>2. \A h \in Hashes \ {flight[i].hash} : inflight[h] # None => inflight[h] \in Flights \ {i}
  BY DEF Registered, TypeOK
<1> DEFINE h == flight[i].hash
<1>3. FlightView[h] = FillView(flight[i])
  BY <1>1 DEF FlightView
<1>4. FlightView'[h] = FillView(flight'[i])
  BY <1>1 DEF FlightView
<1>5. \A g \in Hashes \ {h} : FlightView'[g] = FlightView[g]
  BY <1>2 DEF FlightView
<1> HIDE DEF h
<1>6. FlightView' = [FlightView EXCEPT ![h] = FillView(flight'[i])]
  BY <1>4, <1>5 DEF FlightView
<1>7. QED
  BY <1>1, <1>3, <1>6 DEF h

------------------------------------------------------------------------------
\* A call before its await, and the entry cached for its hash.
LEMMA CachedView ==
  ASSUME TypeOK, NEW h \in Keys(cache)
  PROVE  /\ h \in Hashes /\ cache.entry[h].ans \in Answers
         /\ CacheView[h] = {Outcome(cache.entry[h].ans)}
<1>1. h \in Hashes /\ cache.entry[h] \in CacheEntries
  BY DEF TypeOK, CacheOK
<1>2. cache.entry[h].ans \in Answers
  BY <1>1 DEF CacheEntries
<1>3. CacheView[h] = {Outcome(cache.entry[h].ans)}
  BY <1>1 DEF CacheView
<1>4. QED
  BY <1>1, <1>2, <1>3

\* What a user sees of an answer whose session had not ended when it began.
LEMMA OutcomeFacts ==
  ASSUME NEW ans \in Answers, NEW wall \in Int
  PROVE  /\ ans.session = None => Outcome(ans) = None
         /\ ans.session # None => Outcome(ans) # None
         /\ (ans.session # None => ans.session > wall) => Contract!Usable(Outcome(ans), wall)
<1>1. CASE ans.session = None
  BY <1>1 DEF Outcome, Contract!Usable
<1>2. CASE ans.session # None
  <2>1. ans.ver \in Nat /\ ans.session \in Nat
    BY <1>2 DEF Answers
  <2>2. /\ Outcome(ans) = [principal |-> ans.ver, expires_at |-> ans.session]
        /\ Outcome(ans) \in [principal : Nat, expires_at : Nat]
    BY <1>2, <2>1 DEF Outcome
  <2>3. Outcome(ans).expires_at = ans.session /\ Outcome(ans) # None
    BY <2>2, OutcomeAssumption
  <2> QED
    BY <1>2, <2>3 DEF Contract!Usable
<1>3. QED
  BY <1>1, <1>2

\* resolve() returns.
LEMMA Returns ==
  ASSUME NEW c \in Calls, NEW p, NEW h, NEW wall, NEW s, NEW x, NEW res,
         CallView[c] = [stage |-> p, hash |-> h, at |-> wall, stale |-> s, result |-> x],
         CallView' = [CallView EXCEPT ![c] =
           [stage |-> "done", hash |-> h, at |-> wall, stale |-> None, result |-> res]]
  PROVE  Contract!Return(c, res)
<1> DEFINE v == [stage |-> p, hash |-> h, at |-> wall, stale |-> s, result |-> x]
           w == [stage |-> "done", hash |-> h, at |-> wall, stale |-> None, result |-> res]
<1>1. [v EXCEPT !.stage = "done", !.stale = None, !.result = res] = w
  <2> DEFINE W == [stage : {"done"}, hash : {h}, at : {wall}, stale : {None}, result : {res}]
  <2>1. [v EXCEPT !.stage = "done", !.stale = None, !.result = res] \in W
    OBVIOUS
  <2>2. \A u \in W : u = w
    OBVIOUS
  <2>3. QED
    BY <2>1, <2>2
<1>2. CallView[c] = v
  OBVIOUS
<1> HIDE DEF v, w
<1>3. [CallView EXCEPT ![c].stage = "done", ![c].stale = None, ![c].result = res]
        = [CallView EXCEPT ![c] = w]
  BY <1>1, <1>2 DEF CallView
<1>4. QED
  BY <1>3 DEF Contract!Return, w

\* Nothing but the environment has changed, or nothing that a user sees.
Unseen == UNCHANGED <<CacheView, FlightView, DueView, CallView>>

LEMMA Stutters ==
  ASSUME Unseen
  PROVE  Contract!Next
BY DEF Unseen, Contract!Next, Contract!resolver

LEMMA BeginKeeps ==
  ASSUME TypeOK, NEW c \in Calls, NEW h \in Hashes, Begin(c, h)
  PROVE  Contract!Begin(c, h)
<1>1. /\ CallRecordView(NewCall(h)) = Contract!OpenCall(h)
  BY DEF CallRecordView, NewCall, StageView, Contract!OpenCall
<1> DEFINE r == NewCall(h)
<1> HIDE DEF r
<1>2. call'[c] = r /\ \A d \in Calls \ {c} : call'[d] = call[d]
  BY DEF Begin, TypeOK, r
<1>3. CallView' = [CallView EXCEPT ![c] = Contract!OpenCall(h)]
  BY <1>1, <1>2, OneCallView DEF r
<1>4. CallView[c].stage \in {"idle", "done"}
  BY DEF Begin, CallView, CallRecordView, StageView
<1>5. UNCHANGED <<CacheView, FlightView, DueView>>
  BY ViewsKept DEF Begin
<1>6. QED
  BY <1>3, <1>4, <1>5 DEF Contract!Begin

\* A call that looks on has done nothing a user sees.
LEMMA LookingView ==
  ASSUME TypeOK, NEW c \in Calls, NEW p \in {"expired", "stale"},
         call[c].pc \in {"lookup", "expired"}, call' = [call EXCEPT ![c].pc = p]
  PROVE  UNCHANGED CallView
<1>1. call[c] \in LookingCalls
  BY CallSteps DEF TypeOK
<1> DEFINE r == [call[c] EXCEPT !.pc = p]
<1>2. CallRecordView(r) = CallRecordView(call[c])
  BY <1>1 DEF LookingCalls, CallRecordView, StageView
<1> HIDE DEF r
<1>3. call'[c] = r /\ \A d \in Calls \ {c} : call'[d] = call[d]
  BY DEF TypeOK, r
<1>4. QED
  BY <1>2, <1>3 DEF CallView

LEMMA LookupKeeps ==
  ASSUME TypeOK, NEW c \in Calls, LookupMiss(c) \/ LookupExpired(c) \/ LookupUnfresh(c)
  PROVE  Unseen
<1>1. UNCHANGED CallView
  BY LookingView DEF LookupMiss, LookupExpired, LookupUnfresh, LookupFinds
<1>2. cache'.entry = cache.entry
  BY LookupFindsTypes DEF LookupMiss, LookupExpired, LookupUnfresh
<1>3. UNCHANGED <<inflight, flight, refreshers>>
  BY DEF LookupMiss, LookupExpired, LookupUnfresh, LookupFinds
<1>4. QED
  BY <1>1, <1>2, <1>3, ViewsKept DEF Unseen

LEMMA HitKeeps ==
  ASSUME TypeOK, NEW c \in Calls, LookupYoungHit(c) \/ LookupOldHit(c)
  PROVE  /\ call[c].hash \in Hashes
         /\ \E outcome \in CacheView[call[c].hash] : Contract!Hit(c, outcome)
<1> DEFINE h   == call[c].hash
           ans == cache.entry[h].ans
           res == [kind |-> "hit", ans |-> ans]
           r   == [call[c] EXCEPT !.pc = "done", !.result = res]
<1>1. /\ LookupHit(c) /\ LookupFinds(c)
      /\ call[c] \in LookingCalls /\ call[c].pc = "lookup" /\ h \in Keys(cache)
  BY LookupFindsTypes DEF LookupYoungHit, LookupOldHit, LookupHit, LookupFinds
<1>2. h \in Hashes /\ ans \in Answers /\ CacheView[h] = {Outcome(ans)}
  BY <1>1, CachedView
<1>3. call[c].wall \in Int /\ call[c].stale = None
  BY <1>1 DEF LookingCalls
<1>4. Contract!Usable(Outcome(ans), call[c].wall)
  <2>1. ~ Expired(cache.entry[h], call[c].wall)
    BY <1>1 DEF LookupHit, Found
  <2>2. ans.session # None => ans.session > call[c].wall
    <3>1. ans.session # None => ans.session \in Nat
      BY <1>2 DEF Answers
    <3>2. QED
      BY <1>3, <2>1, <3>1 DEF Expired
  <2> HIDE DEF ans
  <2>3. QED
    BY <1>2, <1>3, <2>2, OutcomeFacts
<1>5. call'[c] = r /\ \A d \in Calls \ {c} : call'[d] = call[d]
  BY <1>1 DEF LookupHit, Found, TypeOK
<1> HIDE DEF ans
<1>6. CallRecordView(call[c]) =
        [stage |-> "open", hash |-> h, at |-> call[c].wall, stale |-> None, result |-> None]
  BY <1>1, <1>3 DEF CallRecordView, StageView
<1>7. CallRecordView(r) =
        [stage |-> "done", hash |-> h, at |-> call[c].wall, stale |-> None,
         result |-> Contract!Found(Outcome(ans))]
  <2>1. ResultView(res) = Contract!Found(Outcome(ans))
    BY DEF ResultView, ErrorKinds, Contract!Found
  <2> HIDE DEF res
  <2>2. QED
    BY <1>1, <1>3, <2>1 DEF CallRecordView, StageView, LookingCalls
<1> HIDE DEF r
<1>8. CallView[c] = CallRecordView(call[c]) /\ CallView' = [CallView EXCEPT ![c] = CallRecordView(r)]
  BY <1>5, OneCallView DEF CallView
<1>9. Contract!Return(c, Contract!Found(Outcome(ans)))
  BY <1>6, <1>7, <1>8, Returns
<1>10. UNCHANGED <<CacheView, FlightView>>
  BY <1>1, LookupFindsTypes, ViewsKept DEF LookupFinds
<1>11. UNCHANGED DueView \/ (Outcome(ans) # None /\ DueView' = DueView \cup {h})
  <2>1. CASE LookupYoungHit(c)
    BY <2>1, ViewsKept DEF LookupYoungHit
  <2>2. CASE LookupOldHit(c)
    <3>1. /\ ans.session # None
          /\ refreshers' = [refreshers EXCEPT ![h] = Lesser(refreshers[h] + 1, MaxRefreshers)]
      BY <2>2 DEF LookupOldHit, NearlyUnfresh, Found, ans
    <3>2. Outcome(ans) # None
      BY <1>2, <1>3, <3>1, OutcomeFacts
    <3>3. \/ MaxRefreshers = 0 /\ refreshers' = refreshers
          \/ refreshers'[h] > 0 /\ \A g \in Hashes \ {h} : refreshers'[g] = refreshers[g]
      BY <1>2, <3>1, BoundAssumption DEF Lesser, TypeOK
    <3> HIDE DEF h
    <3>4. QED
      BY <1>2, <3>2, <3>3, ViewsKept DEF DueView
  <2>3. QED
    BY <2>1, <2>2
<1>12. Contract!Hit(c, Outcome(ans))
  BY <1>2, <1>4, <1>6, <1>8, <1>9, <1>10, <1>11 DEF Contract!Hit
<1>13. QED
  BY <1>2, <1>12

\* A removal from the cache.
LEMMA DropView ==
  ASSUME TypeOK, NEW h \in Hashes, cache' = Without(cache, h)
  PROVE  CacheView' = [CacheView EXCEPT ![h] = {}]
<1>1. /\ Keys(cache') = Keys(cache) \ {h}
      /\ \A k \in Keys(cache) \ {h} : cache'.entry[k] = cache.entry[k]
  BY WithoutFacts DEF TypeOK
<1>2. CacheView'[h] = {}
  BY <1>1 DEF CacheView
<1>3. \A k \in Hashes \ {h} : CacheView'[k] = CacheView[k]
  BY <1>1 DEF CacheView
<1>4. QED
  BY <1>2, <1>3 DEF CacheView

LEMMA DropKeepsContract ==
  ASSUME TypeOK, NEW c \in Calls, DropExpired(c)
  PROVE  call[c].hash \in Hashes /\ Contract!Forget(call[c].hash)
<1>1. call[c].hash \in Hashes
  <2>1. call[c] \in LookingCalls
    BY CallSteps DEF DropExpired, TypeOK
  <2>2. QED
    BY <2>1 DEF LookingCalls
<1>2. UNCHANGED CallView
  BY LookingView DEF DropExpired
<1>3. UNCHANGED <<FlightView, DueView>>
  BY ViewsKept DEF DropExpired
<1>4. QED
  BY <1>1, <1>2, <1>3, DropView DEF DropExpired, Contract!Forget

LEMMA EvictKeepsContract ==
  ASSUME TypeOK, NEW h \in Hashes, Evict(h)
  PROVE  Contract!Forget(h)
BY DropView, ViewsKept DEF Evict, Contract!Forget

LEMMA CandidateKeepsContract ==
  ASSUME TypeOK, NEW c \in Calls, StaleCandidate(c)
  PROVE  Contract!Miss(c)
<1> DEFINE h == call[c].hash
           e == cache.entry[h]
<1>1. /\ call[c] \in LookingCalls /\ call[c].pc = "stale"
      /\ h \in Hashes /\ call[c].wall \in Int /\ call[c].stale = None
  BY CallSteps DEF StaleCandidate, TypeOK, LookingCalls
<1>2. CallView[c] = [stage |-> "open", hash |-> h, at |-> call[c].wall, stale |-> None,
                     result |-> None]
  BY <1>1 DEF CallView, CallRecordView, StageView
<1>3. UNCHANGED <<CacheView, FlightView, DueView>>
  BY ViewsKept DEF StaleCandidate
<1>4. ASSUME NEW s, s = None \/ s \in CacheView[h],
             Contract!Usable(s, call[c].wall),
             NEW r, call'[c] = r, \A d \in Calls \ {c} : call'[d] = call[d],
             CallRecordView(r) = [stage |-> "joining", hash |-> h, at |-> call[c].wall,
                                  stale |-> s, result |-> None]
      PROVE  Contract!Miss(c)
  <2> DEFINE v == [stage |-> "open", hash |-> h, at |-> call[c].wall, stale |-> None,
                   result |-> None]
             w == [stage |-> "joining", hash |-> h, at |-> call[c].wall, stale |-> s,
                   result |-> None]
  <2>1. [v EXCEPT !.stage = "joining", !.stale = s] = w
    <3> DEFINE W == [stage : {"joining"}, hash : {h}, at : {call[c].wall}, stale : {s},
                     result : {None}]
    <3>1. [v EXCEPT !.stage = "joining", !.stale = s] \in W
      OBVIOUS
    <3>2. \A u \in W : u = w
      OBVIOUS
    <3>3. QED
      BY <3>1, <3>2
  <2>2. CallView[c] = v /\ v.stage = "open" /\ v.hash = h /\ v.at = call[c].wall
    BY <1>2
  <2> HIDE DEF v, w
  <2>3. CallView' = [CallView EXCEPT ![c] = w]
    BY <1>4, OneCallView DEF w
  <2>4. CallView' = [CallView EXCEPT ![c].stage = "joining", ![c].stale = s]
    BY <2>1, <2>2, <2>3 DEF CallView
  <2>5. QED
    BY <1>3, <1>4, <2>2, <2>4 DEF Contract!Miss
<1>5. CASE call' = [call EXCEPT ![c].pc = "join"]
  <2> DEFINE r == [call[c] EXCEPT !.pc = "join"]
  <2>1. CallRecordView(r) = [stage |-> "joining", hash |-> h, at |-> call[c].wall,
                             stale |-> None, result |-> None]
    BY <1>1 DEF CallRecordView, StageView, LookingCalls
  <2> HIDE DEF r
  <2>2. call'[c] = r /\ \A d \in Calls \ {c} : call'[d] = call[d]
    BY <1>5 DEF TypeOK, r
  <2>3. Contract!Usable(None, call[c].wall)
    BY DEF Contract!Usable
  <2>4. QED
    BY <1>4, <2>1, <2>2, <2>3
<1>6. CASE /\ h \in Keys(cache) /\ ServableStale(e, call[c].now, call[c].wall)
           /\ call' = [call EXCEPT ![c].pc = "join", ![c].stale = e]
  <2>1. e.ans \in Answers /\ CacheView[h] = {Outcome(e.ans)}
    BY <1>6, CachedView
  <2>2. Contract!Usable(Outcome(e.ans), call[c].wall)
    BY <1>1, <1>6, <2>1, OutcomeFacts DEF ServableStale
  <2>3. Contract!Usable(None, call[c].wall)
    BY DEF Contract!Usable
  <2> DEFINE r == [call[c] EXCEPT !.pc = "join", !.stale = e]
             s == IF e = None THEN None ELSE Outcome(e.ans)
  <2>4. call'[c] = r /\ \A d \in Calls \ {c} : call'[d] = call[d]
    BY <1>6 DEF TypeOK
  <2> HIDE DEF e
  <2>5. CallRecordView(r) = [stage |-> "joining", hash |-> h, at |-> call[c].wall,
                             stale |-> s, result |-> None]
    BY <1>1 DEF CallRecordView, StageView, LookingCalls
  <2>6. s = None \/ s = Outcome(e.ans)
    OBVIOUS
  <2> HIDE DEF r, s
  <2>7. QED
    BY <1>4, <2>1, <2>2, <2>3, <2>4, <2>5, <2>6
<1>7. QED
  BY <1>5, <1>6 DEF StaleCandidate

\* The call awaits a fill of its hash.
LEMMA JoinView ==
  ASSUME TypeOK, NEW c \in Calls, NEW i \in Flights, call[c].pc = "join",
         call' = [call EXCEPT ![c].pc = "waiting", ![c].flight = i]
  PROVE  /\ call[c].hash \in Hashes
         /\ CallView[c].stage = "joining" /\ CallView[c].hash = call[c].hash
         /\ CallView' = [CallView EXCEPT ![c].stage = "waiting"]
<1> DEFINE r == [call[c] EXCEPT !.pc = "waiting", !.flight = i]
           s == IF call[c].stale = None THEN None ELSE Outcome(call[c].stale.ans)
           v == [stage |-> "joining", hash |-> call[c].hash, at |-> call[c].wall,
                 stale |-> s, result |-> None]
           w == [stage |-> "waiting", hash |-> call[c].hash, at |-> call[c].wall,
                 stale |-> s, result |-> None]
<1>1. call[c] \in JoiningCalls
  BY CallSteps DEF TypeOK
<1>2. CallRecordView(call[c]) = v
  BY <1>1 DEF CallRecordView, StageView, JoiningCalls
<1>3. CallRecordView(r) = w
  BY <1>1 DEF CallRecordView, StageView, JoiningCalls
<1>4. call'[c] = r /\ \A d \in Calls \ {c} : call'[d] = call[d]
  BY DEF TypeOK
<1> HIDE DEF s
<1>5. [v EXCEPT !.stage = "waiting"] = w
  OBVIOUS
<1>6. v.stage = "joining" /\ v.hash = call[c].hash /\ call[c].hash \in Hashes
  BY <1>1 DEF JoiningCalls
<1> HIDE DEF r, v, w
<1>7. CallView[c] = v /\ CallView' = [CallView EXCEPT ![c] = w]
  BY <1>2, <1>3, <1>4, OneCallView DEF CallView
<1>8. CallView' = [CallView EXCEPT ![c].stage = "waiting"]
  BY <1>5, <1>7 DEF CallView
<1>9. QED
  BY <1>6, <1>7, <1>8

\* A fill of h is in flight: a new one, or the one that was.
LEMMA LaunchView ==
  ASSUME TypeOK, Registered, NEW h \in Hashes, NEW i \in Flights, Launch(h, i)
  PROVE  Contract!StartFill(h)
<1>1. /\ inflight[h] = None /\ flight[i].stage = "idle"
      /\ inflight' = [inflight EXCEPT ![h] = i]
      /\ flight' = [flight EXCEPT ![i] = NewFlight(h)]
  BY DEF Launch, Busy
<1>2. FillView(NewFlight(h)) = Contract!Asked /\ FillView(IdleFlight) = Contract!NoFill
  BY DEF FillView, NewFlight, IdleFlight, Contract!Asked, Contract!NoFill
<1> DEFINE f == NewFlight(h)
<1> HIDE DEF f
<1>3. FlightView[h] = Contract!NoFill
  BY <1>1, <1>2 DEF FlightView
<1>4. FlightView'[h] = Contract!Asked
  BY <1>1, <1>2, NoneAssumption DEF FlightView, TypeOK, f
<1>5. \A g \in Hashes \ {h} : FlightView'[g] = FlightView[g]
  <2> SUFFICES ASSUME NEW g \in Hashes \ {h} PROVE FlightView'[g] = FlightView[g]
    OBVIOUS
  <2>1. inflight'[g] = inflight[g]
    BY <1>1 DEF TypeOK
  <2>2. inflight[g] # None => inflight[g] \in Flights \ {i}
    BY <1>1 DEF Registered, Busy, TypeOK
  <2>3. inflight[g] # None => flight'[inflight[g]] = flight[inflight[g]]
    BY <1>1, <2>2 DEF TypeOK
  <2>4. QED
    BY <2>1, <2>3 DEF FlightView
<1>6. FlightView' = [FlightView EXCEPT ![h] = Contract!Asked]
  BY <1>4, <1>5 DEF FlightView
<1>7. QED
  BY <1>3, <1>6 DEF Contract!StartFill, FlightView

LEMMA JoinedView ==
  ASSUME TypeOK, Registered, NEW h \in Hashes, inflight[h] # None,
         UNCHANGED <<inflight, flight>>
  PROVE  Contract!StartFill(h)
<1>1. FlightView[h].stage # "idle"
  BY DEF FlightView, FillView, Registered, Busy
<1>2. FlightView[h] # Contract!NoFill
  BY <1>1 DEF Contract!NoFill
<1>3. QED
  BY <1>2, ViewsKept DEF Contract!StartFill, FlightView

LEMMA JoinKeepsContract ==
  ASSUME TypeOK, Registered, NEW c \in Calls,
         JoinExisting(c) \/ \E i \in Flights : JoinNew(c, i)
  PROVE  Contract!Join(c)
<1>1. CASE JoinExisting(c)
  <2>1. call[c] \in JoiningCalls
    BY <1>1, CallSteps DEF JoinExisting, TypeOK
  <2>2. call[c].hash \in Hashes /\ inflight[call[c].hash] \in Flights
    BY <1>1, <2>1 DEF JoinExisting, JoiningCalls, TypeOK
  <2>3. Contract!StartFill(call[c].hash)
    BY <1>1, <2>2, JoinedView DEF JoinExisting
  <2>4. UNCHANGED <<CacheView, DueView>>
    BY <1>1, ViewsKept DEF JoinExisting
  <2>5. QED
    BY <1>1, <2>2, <2>3, <2>4, JoinView DEF JoinExisting, Contract!Join
<1>2. ASSUME NEW i \in Flights, JoinNew(c, i)
      PROVE  Contract!Join(c)
  <2>1. /\ call[c].hash \in Hashes
        /\ CallView[c].stage = "joining" /\ CallView[c].hash = call[c].hash
        /\ CallView' = [CallView EXCEPT ![c].stage = "waiting"]
    BY <1>2, JoinView DEF JoinNew
  <2>2. Contract!StartFill(call[c].hash)
    BY <1>2, <2>1, LaunchView DEF JoinNew
  <2>3. UNCHANGED <<CacheView, DueView>>
    BY <1>2, ViewsKept DEF JoinNew
  <2>4. QED
    BY <2>1, <2>2, <2>3 DEF Contract!Join
<1>3. QED
  BY <1>1, <1>2

LEMMA RefreshKeepsContract ==
  ASSUME TypeOK, Registered, NEW h \in Hashes, RefreshStep(h)
  PROVE  Contract!Refresh(h)
<1>1. /\ refreshers[h] > 0 /\ refreshers' = [refreshers EXCEPT ![h] = refreshers[h] - 1]
      /\ UNCHANGED <<cache, call>>
  BY DEF RefreshStep, RefreshExisting, RefreshNew
<1>2. Contract!StartFill(h)
  BY LaunchView, JoinedView DEF RefreshStep, RefreshExisting, RefreshNew
<1>3. h \in DueView
  BY <1>1 DEF DueView
<1>4. DueView' \in {DueView, DueView \ {h}}
  <2>1. \A g \in Hashes \ {h} : refreshers'[g] = refreshers[g]
    BY <1>1 DEF TypeOK
  <2>2. CASE refreshers'[h] > 0
    BY <1>1, <2>1, <2>2 DEF DueView
  <2>3. CASE ~ (refreshers'[h] > 0)
    BY <1>1, <2>1, <2>3 DEF DueView
  <2>4. QED
    BY <2>2, <2>3
<1>5. UNCHANGED <<CacheView, CallView>>
  BY <1>1, ViewsKept
<1>6. QED
  BY <1>2, <1>3, <1>4, <1>5 DEF Contract!Refresh

LEMMA CancelKeepsContract ==
  ASSUME TypeOK, NEW c \in Calls, Cancel(c)
  PROVE  Contract!Cancel(c)
<1>1. CallRecordView(IdleCall) = Contract!IdleCall
  BY DEF CallRecordView, IdleCall, StageView, Contract!IdleCall
<1>2. call'[c] = IdleCall /\ \A d \in Calls \ {c} : call'[d] = call[d]
  BY DEF Cancel, TypeOK
<1>3. CallView' = [CallView EXCEPT ![c] = Contract!IdleCall]
  <2> DEFINE r == IdleCall
  <2>1. CallRecordView(r) = Contract!IdleCall /\ call'[c] = r
    BY <1>1, <1>2
  <2> HIDE DEF r
  <2>2. QED
    BY <1>2, <2>1, OneCallView
<1>4. CallView[c].stage \in {"waiting", "woken"}
  BY DEF Cancel, CallView, CallRecordView, StageView
<1>5. UNCHANGED <<CacheView, FlightView, DueView>>
  BY ViewsKept DEF Cancel
<1>6. QED
  BY <1>3, <1>4, <1>5 DEF Contract!Cancel

\* What resolve() makes of its fill's result, as a user sees it.
LEMMA ResumeKeepsContract ==
  ASSUME TypeOK, CallsTimely, NEW c \in Calls, Resume(c) \/ ResumeStale(c)
  PROVE  Contract!Resume(c)
<1> DEFINE h    == call[c].hash
           s    == IF call[c].stale = None THEN None ELSE Outcome(call[c].stale.ans)
           x    == ResultView(call[c].result)
           v    == [stage |-> "woken", hash |-> h, at |-> call[c].wall, stale |-> s, result |-> x]
<1>1. call[c] \in WokenCalls /\ call[c].pc = "woken" /\ call[c].result \in FillResults
  BY CallSteps DEF Resume, ResumeStale, TypeOK, WokenCalls
<1>2. CallRecordView(call[c]) = v
  BY <1>1 DEF CallRecordView, StageView
<1>3. x.kind = IF call[c].result.kind \in ErrorKinds THEN call[c].result.kind ELSE "found"
  BY DEF ResultView
<1>4. call[c].stale # None => s # None
  <2>1. call[c].stale # None => call[c].stale.ans.session # None
    BY <1>1 DEF CallsTimely, CallTimely, StaleTimely
  <2>2. call[c].stale # None => call[c].stale.ans \in Answers
    BY <1>1 DEF WokenCalls, CacheEntries
  <2>3. call[c].wall \in Int
    BY <1>1 DEF WokenCalls
  <2>4. QED
    BY <2>1, <2>2, <2>3, OutcomeFacts
<1>5. UNCHANGED <<CacheView, FlightView, DueView>>
  BY ViewsKept DEF Resume, ResumeStale
<1>6. ASSUME NEW r, call'[c] = r, \A d \in Calls \ {c} : call'[d] = call[d],
             CallRecordView(r) = [stage |-> "done", hash |-> h, at |-> call[c].wall,
                                  stale |-> None, result |-> Contract!Covered(v)]
      PROVE  Contract!Resume(c)
  <2> HIDE DEF h, s, x
  <2>1. v.stage = "woken"
    OBVIOUS
  <2>2. CallView[c] = v
    BY <1>2 DEF CallView
  <2>3. CallView' = [CallView EXCEPT ![c] = [stage |-> "done", hash |-> h, at |-> call[c].wall,
                                  stale |-> None, result |-> Contract!Covered(v)]]
    BY <1>6, OneCallView
  <2>4. Contract!Return(c, Contract!Covered(v))
    BY <2>2, <2>3, Returns
  <2> HIDE DEF v
  <2>5. QED
    BY <1>5, <2>1, <2>2, <2>4 DEF Contract!Resume
<1>7. CASE Resume(c)
  <2> DEFINE r == [call[c] EXCEPT !.pc = "done", !.stale = None]
  <2>1. call'[c] = r /\ \A d \in Calls \ {c} : call'[d] = call[d]
    BY <1>7 DEF Resume, TypeOK
  <2>2. CallRecordView(r) = [stage |-> "done", hash |-> h, at |-> call[c].wall,
                             stale |-> None, result |-> x]
    BY <1>1 DEF CallRecordView, StageView, WokenCalls
  <2>3. ~ (x.kind = "transport" /\ s # None)
    BY <1>3, <1>7 DEF Resume, ErrorKinds
  <2> HIDE DEF s, x, r
  <2>4. Contract!Covered(v) = x
    BY <2>3 DEF Contract!Covered
  <2>5. QED
    BY <1>6, <2>1, <2>2, <2>4
<1>8. CASE ResumeStale(c)
  <2> DEFINE res == [kind |-> "stale", ans |-> call[c].stale.ans]
             r   == [call[c] EXCEPT !.pc = "done", !.stale = None, !.result = res]
  <2>1. call'[c] = r /\ \A d \in Calls \ {c} : call'[d] = call[d]
    BY <1>8 DEF ResumeStale, TypeOK
  <2>2. ResultView(res) = Contract!Found(s)
    BY <1>8 DEF ResumeStale, ResultView, ErrorKinds, Contract!Found
  <2> HIDE DEF res
  <2>3. CallRecordView(r) = [stage |-> "done", hash |-> h, at |-> call[c].wall,
                             stale |-> None, result |-> Contract!Found(s)]
    BY <1>1, <2>2 DEF CallRecordView, StageView, WokenCalls
  <2>4. x.kind = "transport" /\ s # None
    BY <1>3, <1>4, <1>8 DEF ResumeStale, ErrorKinds
  <2> HIDE DEF s, x, r
  <2>5. Contract!Covered(v) = Contract!Found(s)
    BY <2>4 DEF Contract!Covered
  <2>6. QED
    BY <1>6, <2>1, <2>3, <2>5
<1>9. QED
  BY <1>7, <1>8

------------------------------------------------------------------------------
\* The steps of a fill.
LEMMA AnswerKeepsContract ==
  ASSUME TypeOK, Registered, NEW i \in Flights, Answer(i)
  PROVE  flight[i].hash \in Hashes /\ Contract!Fetch(flight[i].hash)
<1> DEFINE h    == flight[i].hash
           s    == server[h]
           live == IF s.session # None /\ s.session > now THEN s.session ELSE None
           ans  == [session |-> live, ver |-> s.ver, asOf |-> now]
           f    == [flight[i] EXCEPT !.stage = "answered", !.result = Ok(ans)]
<1>1. flight[i] \in AskedFlights /\ flight[i].stage = "asked"
  BY FlightStages DEF Answer, TypeOK
<1>2. flight'[i] = f /\ \A j \in Flights \ {i} : flight'[j] = flight[j]
  BY DEF Answer, TypeOK
<1>3. h \in Hashes /\ FlightView[h] = FillView(flight[i])
      /\ FlightView' = [FlightView EXCEPT ![h] = FillView(flight'[i])]
  BY <1>1, <1>2, OneFlightView DEF Answer, Busy
<1>4. Outcome(ans) = AuthorityView[h]
  BY <1>3 DEF Outcome, AuthorityView
<1> HIDE DEF ans
<1>5. ResultView(Ok(ans)) = Contract!Found(AuthorityView[h])
  BY <1>4 DEF ResultView, Ok, ErrorKinds, Contract!Found
<1> DEFINE res == Ok(ans)
<1> HIDE DEF res
<1>6. FillView(f) = Contract!Fetched(AuthorityView[h])
  BY <1>1, <1>5 DEF FillView, AskedFlights, Contract!Fetched, res
<1>7. FlightView[h].stage = "asked"
  BY <1>1, <1>3 DEF FillView
<1> HIDE DEF h, f
<1>8. FlightView' = [FlightView EXCEPT ![h] = Contract!Fetched(AuthorityView[h])]
  BY <1>2, <1>3, <1>6
<1>9. UNCHANGED <<CacheView, DueView, CallView>>
  BY ViewsKept DEF Answer
<1>10. Contract!Fetch(h)
  BY <1>7, <1>8, <1>9 DEF Contract!Fetch
<1>11. QED
  BY <1>3, <1>10 DEF h

\* A fill settles with a result.
LEMMA SettleView ==
  ASSUME TypeOK, Registered, NEW i \in Flights, flight[i].stage \in {"asked", "answered"},
         inflight' = inflight, \A j \in Flights \ {i} : flight'[j] = flight[j],
         flight'[i].stage = "settled"
  PROVE  /\ flight[i].hash \in Hashes
         /\ FlightView[flight[i].hash] = FillView(flight[i])
         /\ FlightView' = [FlightView EXCEPT ![flight[i].hash] =
                             Contract!Settled(ResultView(flight'[i].result))]
<1>1. FillView(flight'[i]) = Contract!Settled(ResultView(flight'[i].result))
  BY DEF FillView, Contract!Settled
<1>2. QED
  BY <1>1, OneFlightView DEF Busy

LEMMA StoreKeepsContract ==
  ASSUME TypeOK, Registered, Bounded(cache), NEW i \in Flights, Store(i)
  PROVE  flight[i].hash \in Hashes /\ Contract!Land(flight[i].hash)
<1> DEFINE h == flight[i].hash
           x == ResultView(flight[i].result)
<1>1. /\ h \in Hashes /\ flight[i].stage = "answered"
      /\ flight[i].result.kind = "fill"
      /\ flight'[i].stage = "settled" /\ flight'[i].result = flight[i].result
      /\ \A j \in Flights \ {i} : flight'[j] = flight[j]
      /\ \A k \in Keys(cache') :
           \/ k \in Keys(cache) /\ cache'.entry[k] = cache.entry[k]
           \/ k = h /\ cache'.entry[k].ans = flight[i].result.ans
      /\ Capacity # 0 /\ h \in Keys(cache') => cache'.entry[h].ans = flight[i].result.ans
      /\ Capacity = 0 => cache' = cache
      /\ UNCHANGED <<inflight, call>>
  BY StoreExact
<1>2. /\ FlightView[h] = FillView(flight[i])
      /\ FlightView' = [FlightView EXCEPT ![h] = Contract!Settled(x)]
  BY <1>1, SettleView
<1>3. FlightView[h].stage = "answered" /\ FlightView[h].result = x
  BY <1>1, <1>2 DEF FillView
<1>4. x.outcome = Outcome(flight[i].result.ans)
  BY <1>1 DEF ResultView, ErrorKinds
<1>5. h \in Keys(cache') => cache'.entry[h].ans = flight[i].result.ans
  BY <1>1, DisabledEmpty
<1>6. CacheView' = [k \in Hashes |->
                      IF k \notin Keys(cache') \cap Hashes THEN {}
                      ELSE IF k = h THEN {FlightView[h].result.outcome} ELSE CacheView[k]]
  <2>1. \A k \in Hashes : k \notin Keys(cache') => CacheView'[k] = {}
    BY DEF CacheView
  <2>2. h \in Keys(cache') => CacheView'[h] = {FlightView[h].result.outcome}
    BY <1>1, <1>3, <1>4, <1>5 DEF CacheView
  <2>3. \A k \in Keys(cache') \ {h} : k \in Hashes => CacheView'[k] = CacheView[k]
    BY <1>1 DEF CacheView
  <2> HIDE DEF h, x
  <2>4. QED
    BY <2>1, <2>2, <2>3 DEF CacheView
<1>7. Keys(cache') \cap Hashes \in SUBSET Hashes
  OBVIOUS
<1>8. \E kept \in SUBSET Hashes :
        CacheView' = [k \in Hashes |->
                        IF k \notin kept THEN {}
                        ELSE IF k = h THEN {FlightView[h].result.outcome} ELSE CacheView[k]]
  BY <1>6, <1>7
<1>9. UNCHANGED <<DueView, CallView>>
  BY <1>1, ViewsKept DEF Store
<1>10. FlightView' = [FlightView EXCEPT ![h] = Contract!Settled(FlightView[h].result)]
  BY <1>2, <1>3
<1> HIDE DEF h, x
<1>11. Contract!Land(h)
  BY <1>3, <1>8, <1>9, <1>10 DEF Contract!Land
<1>12. QED
  BY <1>1, <1>11 DEF h

LEMMA FailKeepsContract ==
  ASSUME TypeOK, Registered, NEW i \in Flights, NEW kind \in ErrorKinds, Fail(i, kind)
  PROVE  flight[i].hash \in Hashes /\ Contract!Fail(flight[i].hash, kind)
<1> DEFINE e == Error(kind)
           f == [flight[i] EXCEPT !.stage = "settled", !.result = e]
<1>1. /\ flight[i] \in AskedFlights \cup AnsweredFlights
      /\ flight[i].stage \in {"asked", "answered"}
  BY FlightStages DEF Fail, Pending, TypeOK
<1>2. ResultView(e) = Contract!Failed(kind)
  BY DEF ResultView, Error, Contract!Failed
<1>3. flight'[i] = f /\ \A j \in Flights \ {i} : flight'[j] = flight[j]
  BY DEF Fail, TypeOK
<1> HIDE DEF e
<1>4. f.stage = "settled" /\ f.result = e
  BY <1>1 DEF AskedFlights, AnsweredFlights
<1> HIDE DEF f
<1>5. /\ flight[i].hash \in Hashes
      /\ FlightView[flight[i].hash] = FillView(flight[i])
      /\ FlightView' = [FlightView EXCEPT ![flight[i].hash] =
                          Contract!Settled(Contract!Failed(kind))]
  BY <1>1, <1>2, <1>3, <1>4, SettleView DEF Fail
<1>6. FlightView[flight[i].hash].stage \in {"asked", "answered"}
  BY <1>1, <1>5 DEF FillView
<1>7. UNCHANGED <<CacheView, DueView, CallView>>
  BY ViewsKept DEF Fail
<1>8. QED
  BY <1>5, <1>6, <1>7 DEF Contract!Fail

\* Who waits for a fill is who waits for its hash.
LEMMA WaitsForFill ==
  ASSUME TypeOK, Registered, Awaited, NEW i \in Flights, Busy(i), NEW c \in Calls
  PROVE  (call[c].pc = "waiting" /\ call[c].flight = i)
           <=> (call[c].pc = "waiting" /\ call[c].hash = flight[i].hash)
<1>1. inflight[flight[i].hash] = i
  BY DEF Registered
<1>2. call[c].pc = "waiting" => /\ call[c].hash \in Hashes
                                /\ inflight[call[c].hash] = call[c].flight
                                /\ call[c].flight # None
  BY WaitingCall
<1>3. \A h \in Hashes : inflight[h] # None => flight[inflight[h]].hash = h
  BY DEF Registered
<1>4. QED
  BY <1>1, <1>2, <1>3

LEMMA FinishKeepsContract ==
  ASSUME TypeOK, Registered, Awaited, NEW i \in Flights, Finish(i)
  PROVE  flight[i].hash \in Hashes /\ Contract!Finish(flight[i].hash)
<1> DEFINE h   == flight[i].hash
           res == flight[i].result
<1>1. /\ flight[i].stage = "settled" /\ Busy(i)
      /\ flight' = [flight EXCEPT ![i] = IdleFlight]
      /\ UNCHANGED <<cache, refreshers>>
  BY DEF Finish, Busy
<1>2. h \in Hashes /\ inflight[h] = i /\ i # None
  BY <1>1, FlightStages, NoneAssumption DEF Registered, Busy, TypeOK
<1>3. inflight' = [inflight EXCEPT ![h] = None]
  BY <1>2 DEF Finish
<1>4. FlightView[h] = Contract!Settled(ResultView(res))
  BY <1>1, <1>2 DEF FlightView, FillView, Contract!Settled
<1>5. FlightView' = [FlightView EXCEPT ![h] = Contract!NoFill]
  <2>1. FillView(IdleFlight) = Contract!NoFill
    BY DEF FillView, IdleFlight, Contract!NoFill
  <2>2. FlightView'[h] = Contract!NoFill
    BY <1>2, <1>3, <2>1 DEF FlightView, TypeOK
  <2>3. ASSUME NEW g \in Hashes \ {h}
        PROVE  FlightView'[g] = FlightView[g]
    <3>1. inflight'[g] = inflight[g]
      BY <1>3 DEF TypeOK
    <3>2. inflight[g] # None => inflight[g] \in Flights \ {i}
      BY DEF Registered, TypeOK
    <3>3. inflight[g] # None => flight'[inflight[g]] = flight[inflight[g]]
      BY <1>1, <3>2 DEF TypeOK
    <3>4. QED
      BY <3>1, <3>3 DEF FlightView
  <2> HIDE DEF h
  <2>4. QED
    BY <2>2, <2>3 DEF FlightView
<1>6. ASSUME NEW c \in Calls
      PROVE  CallView'[c] = IF CallView[c].stage = "waiting" /\ CallView[c].hash = h
                            THEN [CallView[c] EXCEPT !.stage = "woken", !.result = ResultView(res)]
                            ELSE CallView[c]
  <2>1. /\ CallView[c] = CallRecordView(call[c])
        /\ CallView'[c] = CallRecordView(call'[c])
    BY DEF CallView
  <2>2. CallView[c].stage = "waiting" /\ CallView[c].hash = h
          <=> call[c].pc = "waiting" /\ call[c].flight = i
    <3>1. CallView[c].stage = "waiting" <=> call[c].pc = "waiting"
      BY <2>1 DEF CallRecordView, StageView
    <3>2. CallView[c].hash = call[c].hash
      BY <2>1 DEF CallRecordView
    <3>3. QED
      BY <1>1, <3>1, <3>2, WaitsForFill
  <2>3. CASE call[c].pc = "waiting" /\ call[c].flight = i
    <3> DEFINE r == [call[c] EXCEPT !.pc = "woken", !.flight = None, !.result = res]
               s == IF call[c].stale = None THEN None ELSE Outcome(call[c].stale.ans)
               x == ResultView(res)
               v == [stage |-> "waiting", hash |-> call[c].hash, at |-> call[c].wall,
                     stale |-> s, result |-> None]
               w == [stage |-> "woken", hash |-> call[c].hash, at |-> call[c].wall,
                     stale |-> s, result |-> x]
    <3>1. call[c] \in WaitingCalls
      BY <2>3, CallSteps DEF TypeOK
    <3>2. call'[c] = r
      BY <2>3 DEF Finish
    <3> HIDE DEF res
    <3>3. CallRecordView(call[c]) = v
      BY <2>3 DEF CallRecordView, StageView
    <3>4. CallRecordView(r) = w
      BY <3>1 DEF CallRecordView, StageView, WaitingCalls
    <3> HIDE DEF s, x
    <3>5. [v EXCEPT !.stage = "woken", !.result = x] = w
      <4> DEFINE W == [stage : {"woken"}, hash : {call[c].hash}, at : {call[c].wall},
                       stale : {s}, result : {x}]
      <4>1. [v EXCEPT !.stage = "woken", !.result = x] \in W
        OBVIOUS
      <4>2. \A u \in W : u = w
        OBVIOUS
      <4>3. QED
        BY <4>1, <4>2
    <3> HIDE DEF r, v, w
    <3>6. CallView'[c] = [CallView[c] EXCEPT !.stage = "woken", !.result = x]
      BY <2>1, <3>2, <3>3, <3>4, <3>5
    <3>7. QED
      BY <2>2, <2>3, <3>6 DEF x
  <2>4. CASE ~ (call[c].pc = "waiting" /\ call[c].flight = i)
    <3>1. call'[c] = call[c]
      BY <2>4 DEF Finish
    <3>2. QED
      BY <2>1, <2>2, <2>4, <3>1
  <2>5. QED
    BY <2>3, <2>4
<1>7. UNCHANGED <<CacheView, DueView>>
  BY <1>1, ViewsKept
<1> DEFINE x == ResultView(res)
<1> HIDE DEF h, res, x
<1>8. FlightView[h].stage = "settled" /\ FlightView[h].result = x
  BY <1>4 DEF Contract!Settled, x
<1>9. CallView' = [c \in Calls |-> IF CallView[c].stage = "waiting" /\ CallView[c].hash = h
                                    THEN [CallView[c] EXCEPT !.stage = "woken", !.result = x]
                                    ELSE CallView[c]]
  <2>1. CallView' = [c \in Calls |-> CallView'[c]]
    BY DEF CallView
  <2>2. QED
    BY <1>6, <2>1 DEF x
<1>10. Contract!Finish(h)
  BY <1>5, <1>7, <1>8, <1>9 DEF Contract!Finish
<1>11. QED
  BY <1>2, <1>10 DEF h

------------------------------------------------------------------------------
LEMMA CallKeepsContract ==
  ASSUME TypeOK, Registered, CallsTimely, NEW c \in Calls, CallStep(c)
  PROVE  Unseen \/ Contract!Step
<1>1. CASE LookupMiss(c) \/ LookupExpired(c) \/ LookupUnfresh(c)
  BY <1>1, LookupKeeps
<1>2. CASE LookupYoungHit(c) \/ LookupOldHit(c)
  BY <1>2, HitKeeps DEF Contract!Step
<1>3. CASE DropExpired(c)
  BY <1>3, DropKeepsContract DEF Contract!Step
<1>4. CASE StaleCandidate(c)
  BY <1>4, CandidateKeepsContract DEF Contract!Step
<1>5. CASE JoinExisting(c) \/ \E i \in Flights : JoinNew(c, i)
  BY <1>5, JoinKeepsContract DEF Contract!Step
<1>6. CASE Resume(c) \/ ResumeStale(c)
  BY <1>6, ResumeKeepsContract DEF Contract!Step
<1>7. QED
  BY <1>1, <1>2, <1>3, <1>4, <1>5, <1>6 DEF CallStep

LEMMA FlightKeepsContract ==
  ASSUME TypeOK, Registered, Awaited, Bounded(cache), NEW i \in Flights, FlightStep(i)
  PROVE  Contract!Step
<1>1. CASE Answer(i)
  BY <1>1, AnswerKeepsContract DEF Contract!Step
<1>2. CASE Store(i)
  BY <1>2, StoreKeepsContract DEF Contract!Step
<1>3. ASSUME NEW kind \in ErrorKinds, Fail(i, kind)
      PROVE  Contract!Step
  <2>1. kind \in Contract!ErrorKinds
    BY DEF ErrorKinds, Contract!ErrorKinds
  <2>2. QED
    BY <1>3, <2>1, FailKeepsContract DEF Contract!Step
<1>4. CASE Timeout(i)
  BY <1>3, <1>4 DEF Timeout, ErrorKinds
<1>5. CASE Finish(i)
  BY <1>5, FinishKeepsContract DEF Contract!Step
<1>6. QED
  BY <1>1, <1>2, <1>3, <1>4, <1>5 DEF FlightStep

\* Steps that leave the clocks and the authority alone, and those that do not.
LEMMA Surroundings ==
  ASSUME Next
  PROVE  \/ UNCHANGED <<now, skew, server>>
         \/ UNCHANGED <<cache, inflight, flight, call, refreshers>>
<1>1. ASSUME NEW c \in Calls, CallStep(c)
      PROVE  UNCHANGED <<now, skew, server>>
  BY <1>1 DEF CallStep, LookupMiss, LookupExpired, LookupUnfresh, LookupYoungHit, LookupOldHit,
              LookupHit, LookupFinds, DropExpired, StaleCandidate, JoinNew, JoinExisting,
              Resume, ResumeStale
<1>2. ASSUME NEW c \in Calls, Cancel(c) \/ \E h \in Hashes : Begin(c, h)
      PROVE  UNCHANGED <<now, skew, server>>
  BY <1>2 DEF Cancel, Begin
<1>3. ASSUME NEW h \in Hashes, RefreshStep(h) \/ Evict(h)
      PROVE  UNCHANGED <<now, skew, server>>
  BY <1>3 DEF RefreshStep, RefreshExisting, RefreshNew, Evict
<1>4. ASSUME NEW i \in Flights, FlightStep(i)
      PROVE  UNCHANGED <<now, skew, server>>
  BY <1>4 DEF FlightStep, Answer, Store, Fail, Timeout, Finish
<1>5. CASE Tick \/ StepWall \/ \E h \in Hashes : ServerChange(h)
  BY <1>5 DEF Tick, StepWall, ServerChange
<1>6. QED
  BY <1>1, <1>2, <1>3, <1>4, <1>5 DEF Next, ResolverStep

LEMMA NextKeepsContract ==
  ASSUME TypeOK, Registered, Awaited, Bounded(cache), CallsTimely, [Next]_vars
  PROVE  Contract!Next
<1>1. CASE UNCHANGED <<cache, inflight, flight, call, refreshers>>
  BY <1>1, ViewsKept, Stutters DEF Unseen
<1>2. CASE Next /\ UNCHANGED <<now, skew, server>>
  <2>1. UNCHANGED <<Wall, AuthorityView>>
    BY <1>2, ViewsKept
  <2>2. Contract!Step => Contract!Next
    BY <2>1 DEF Contract!Next
  <2>3. ASSUME NEW c \in Calls, CallStep(c)
        PROVE  Contract!Next
    BY <2>2, <2>3, CallKeepsContract, Stutters
  <2>4. ASSUME NEW c \in Calls, Cancel(c)
        PROVE  Contract!Next
    BY <2>2, <2>4, CancelKeepsContract DEF Contract!Step
  <2>5. ASSUME NEW c \in Calls, NEW h \in Hashes, Begin(c, h)
        PROVE  Contract!Next
    BY <2>2, <2>5, BeginKeeps DEF Contract!Step
  <2>6. ASSUME NEW h \in Hashes, RefreshStep(h)
        PROVE  Contract!Next
    BY <2>2, <2>6, RefreshKeepsContract DEF Contract!Step
  <2>7. ASSUME NEW i \in Flights, FlightStep(i)
        PROVE  Contract!Next
    BY <2>2, <2>7, FlightKeepsContract
  <2>8. ASSUME NEW h \in Hashes, Evict(h)
        PROVE  Contract!Next
    BY <2>2, <2>8, EvictKeepsContract DEF Contract!Step
  <2>9. CASE Tick \/ StepWall \/ \E h \in Hashes : ServerChange(h)
    BY <1>1, <2>9 DEF Tick, StepWall, ServerChange
  <2>10. QED
    BY <1>2, <2>3, <2>4, <2>5, <2>6, <2>7, <2>8, <2>9 DEF Next, ResolverStep
<1>3. QED
  BY <1>1, <1>2, Surroundings DEF vars

LEMMA InitKeepsContract ==
  ASSUME Init
  PROVE  Contract!Init
<1>1. CacheView = [h \in Hashes |-> {}]
  BY DEF Init, Empty, Keys, CacheView
<1>2. FlightView = [h \in Hashes |-> Contract!NoFill]
  BY DEF Init, FlightView, FillView, IdleFlight, Contract!NoFill
<1>3. DueView = {}
  BY DEF Init, DueView
<1>4. CallView = [c \in Calls |-> Contract!IdleCall]
  BY DEF Init, CallView, CallRecordView, IdleCall, StageView, Contract!IdleCall
<1>5. QED
  BY <1>1, <1>2, <1>3, <1>4 DEF Contract!Init

\* For any tokens, callers and fills and any configuration, session.rs keeps
\* what ResolverSpec promises its users: one fill per token whose result is told
\* to all that wait for it, answers from the cache that were usable when the call
\* began, and cover for transport errors only (resolve, SingleFlight::run, fill).
THEOREM ResolverKeepsContract == Spec => KeepsContract
<1>1. Init => Registered /\ Awaited /\ Bounded(cache)
  <2>1. Init => Keys(cache) = {} /\ cache.older = {}
    BY DEF Init, Empty, Keys
  <2>2. Init => Registered /\ Awaited
    BY DEF Init, Registered, Awaited, Busy, IdleFlight, IdleCall
  <2>3. Init => Bounded(cache)
    BY <2>1, FS_EmptySet, ConfigAssumption DEF Bounded, Orders
  <2>4. QED
    BY <2>2, <2>3
<1>2. TypeOK /\ Registered /\ Awaited /\ Bounded(cache) /\ [Next]_vars
        => (Registered /\ Awaited /\ Bounded(cache))'
  BY NextRegistered, NextAwaited, NextBounded
<1>3. Timely => CallsTimely
  BY DEF Timely
<1>4. Init => Contract!Init
  BY InitKeepsContract
<1>5. TypeOK /\ Registered /\ Awaited /\ Bounded(cache) /\ CallsTimely /\ [Next]_vars => Contract!Next
  BY NextKeepsContract
<1>6. QED
  BY <1>1, <1>2, <1>3, <1>4, <1>5, InitTimely, NextTimely, TypeCorrect, PTL
  DEF Spec, KeepsContract, Contract!Spec
==============================================================================

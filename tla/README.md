# A verification of nio-client

TLA+ models of nio-client, the Rust client library for the nio authorization
service, with the TLC configurations that check them on small instances and the
theorems TLAPS proves about them for every instance.

The library's hardest logic is the session resolver of `src/src/session.rs`: a
cache, a single-flight table, detached fills, refresh tasks and two clocks, used
by every request of a relying party. That is modelled in most detail. Around it
stand the request memo, the check client with its zookies, the watch stream, the
conversions to and from protobuf, and the axum extractors that put the resolver
and the check client in front of every handler of an application.

## The system

| part | state | operations | interacts with |
|---|---|---|---|
| LRU of the session cache (`session.rs:132-197`) | `map`, `recency`, `next_gen`, `capacity` | `new`, `get`, `peek`, `put`, `remove` | one mutex of the resolver guards it |
| Session resolver (`session.rs:202-440`) | the LRU, the in-flight table, detached tasks, callers suspended in `resolve` | `resolve`, `fill`, `stale_candidate`, `spawn_refresh`, `SingleFlight::run`, `evict` | a `SessionFetcher`, two clocks, the runtime |
| gRPC fetcher (`session.rs:442-491`) | none | `fetch`, `classify_status` | `am.SessionService` |
| Request memo (`memo.rs`) | one `OnceCell` per question, a timestamp | `check`, `list`, `with_timestamp` | the check client |
| Check client (`lib.rs:462-863`) | a channel, two observers; zookies are with its callers | `check`, `list`, `expand`, `read`, `write`, `add_*`, `delete_one`, `content_change_check`, `watch`, `list_namespaces` | `am.CheckService` |
| Watch stream (`lib.rs:356-372`) | a gRPC stream; the resume point is with its caller | `recv` | the check service |
| Conversions (`lib.rs:865-944`) | none | `tuple_to_pb`, `tuple_from_pb`, `watch_event_from_pb` | the check client |
| axum extractors (`axum.rs`, `auth.rs`) | none of their own | four `FromRequestParts` implementations | resolver and check client |
| Example web application and backend (`examples/webapp/`) | session, name and tuple tables under one lock | sign-in, sign-out, guarded pages | extractors, `evict`, the services |
| Errors, command-line examples, protocol files, tests | none | | |

What makes the system hard is in the resolver. Callers run on a multi-threaded
runtime and can be cancelled at their await; the cache and the in-flight table
have separate locks, so a lookup, the removal of an expired entry, the stale
candidate and the registration of a fill are four critical sections with
anything between them; a fill runs on when everyone that waits for it is gone;
evictions, refresh-ahead tasks, timeouts and changes at the authority come at
any point; and freshness is measured on one clock while expiry is measured on
another.

What makes each part correct:

* **LRU**: its two maps never disagree, it stays within its capacity, and it
  behaves as a bounded map that forgets the least recently used key.
* **Resolver**: at most one fill per token; the cache never replaces an answer
  by an earlier one, and callers never see time go backwards; how old an answer
  can be is bounded by TTL, stale window and one fetch; an entry is never fresh
  past its session's end; every call is answered and every fill ends.
* **Sign-out**: final on this node if no fill is in flight, and otherwise within
  a bound on how late an answer may still honour the session.
* **Memo**: one RPC per question; failures are not remembered; nobody hangs.
* **Check client**: an answer reflects every write whose zookie the caller
  passed; a write with a precondition loses no update; content guarded by the
  zookie of its own authorization is not shown to who was removed before; reads
  and writes are whole or fail.
* **Watch**: a follower that resumes from the zookie of the last event it
  finished holds a snapshot of the log, and catches up.
* **Extractors and the application**: a guarded handler runs for the owner of
  the request's token, where the policy lets that owner, and not once the
  session is over; an outage is not taken for a missing session.

## Modules

`Lru` holds the LRU operations as functions from a cache to a cache; a cache is
the cached entries and the pairs saying which key was used before which.
`LruSpec` makes a state machine of them: what the LRU promises. `LruCache` is
the code: `map`, `recency` and `next_gen`, with `Get`, `Peek`, `Put` and
`Remove` as in `session.rs:149-196`, and it implements `LruSpec`
(`RefinesLru`), the order being that of the generations. `SessionResolver`
therefore uses the functions of `Lru` and does not repeat the generations.

`SessionResolver` has the following state.

| variable | code |
|---|---|
| `cache` | `ResolverInner::cache` (`session.rs:257`) |
| `inflight` | `SingleFlight::inflight` (`:206`) |
| `flight` | the shared futures: `asked` (awaiting the authority), `answered` (the response is on its way), `settled` (the fill has put its entry, or failed, and its result is not yet published), `idle` (no such fill) |
| `call` | a caller in `resolve()`: `lookup`, `expired` (the forced miss of `:286`), `stale` (`:305`), `join` (`:308`), `waiting` (`:251`), `woken`, `done` |
| `refreshers` | tasks spawned by `spawn_refresh` that have not yet run |
| `now`, `skew` | `Instant::now()`, and the wall clock's distance from it |
| `server` | the session at the authority (external) |

Each critical section, each clock reading before one and each await is a step:
`Begin` reads the clocks (`:273`), `LookupMiss`, `LookupExpired`,
`LookupUnfresh`, `LookupYoungHit` and `LookupOldHit` are the outcomes of the
locked lookup (`:277-303`), `DropExpired` the second locked section (`:288`),
`StaleCandidate` the third (`:367`), `JoinNew` and `JoinExisting` the one under
the in-flight lock (`:216`), `Cancel` the drop of the future at its await,
`Finish` the cleanup inside the shared future (`:230-239`), `Resume` and
`ResumeStale` the rest of `resolve()` (`:316-327`). `Store` is the rest of
`fill()` after its fetch (`:336-363`). A few choices are worth naming:

* A `Finish` hands the result to all its waiters, as `Shared` does; waiters then
  resume one by one. Identities of fills are reused, which the code's increasing
  ids are not: the check of the id in the cleanup is kept.
* Timers fire promptly and a fill does not pause after its fetch: time does not
  pass the deadline of a pending fetch nor while a fill is `settled`. Without
  that no bound on the age of an answer could hold, in the model or the code.
* The clock stops at `MaxNow`. The stopped clock stands for all later instants,
  so a timeout may fire there.
* `refreshers` saturates at `MaxRefreshers`: more tasks waiting to run join the
  same fill as one does.
* `ver` and `asOf` of an answer are history (which version of the session the
  authority read, and when). No guard reads them.

`ResolverSpec` is what the resolver promises, without its TTLs, its capacity and
its locks: `resolve()` answers from the cache, with an outcome that was usable
when the call began, or with the result of the one fill its token has in flight,
and a session from the cache covers for that fill only if it failed in transport.
What the cache keeps of an answer, and for how long, is open. `ResolverContract`
says how the state of `SessionResolver` stands for that (`KeepsContract`): the
fill of a token is the one registered for it, fills and stale entries and hits
are all told alike, and the three stages before the join are one. The web
application is built on `ResolverSpec`, so what holds of it holds over the
resolver of `session.rs`.

`SessionHistory` adds what callers were told, `SignOut` composes the resolver
with the sign-out handler of `examples/webapp/app.rs:173-185` (remove the
session at the authority, whether there is one or not, then `evict`) and with
sign-ins (`CreateSession`, `backend.rs:92-105`). There `after` and `waited` are
history: whether a call began after its token was signed out, and how long it has
awaited a fill. A call is answered at `AnsweredAt`, which is when it read the
clock plus what it waited; `RevocationReaches` measures how late a session is
honoured at that time, because a stale entry is served only after the fetch that
failed (`session.rs:316-322`). What a task that is ready waits for a processor is
not counted: the code does not bound it. `ResolverClaims` states two sentences of
the documentation. `MCSessionResolver`, `MCSessionHistory` and
`MCSignOut` only add the symmetry sets. Hashes, callers and fills are
interchangeable: no definition names one, and the only `CHOOSE` is that of the
least recent key, which is unique.

`MemoSpec` is what the request memo promises: within a request a question has
at most one decision, and whoever is told one is told that one; it sees of a task
what it asked, whether it has been told, has failed or waits, and the answer.
`RequestMemo` is
`memo.rs`: `task` holds each task's stage in `check()` or `list()` (which work
alike), `cell` the contents of the question's `OnceCell`, and `holder` and
`waiting` the permit of that cell and the queue for it. `Ask` is the locked
`entry(key).or_default()` (`memo.rs:88-90`), `Report` the observer's call
(`:91`), and `JoinDecided`, `JoinFirst` and `JoinQueue` are what
`get_or_try_init` (`:92-98`) finds: a value, a free permit, or one that is taken.
The permit and its queue are tokio's and are modelled from how `OnceCell` is
used here: a failed or dropped initializer hands the permit to the head of the
queue (`Release`), a success closes the queue, and a task may be dropped while
it calls, when it has just been handed the permit, in the queue, and after the
queue closed. `billed` is a history of RPCs that neither failed nor were
abandoned. `with_timestamp` and `with_observer` consume the memo, so they
precede the first question and belong to the initial state.

`Wire` is what `lib.rs` and `session.rs` make of the messages: tuples with
subjects and expiries (`TupleToPb`, `TupleFromPb`), whole read responses and
watch batches, read filters, the session fetcher's answer and status codes, and
the meaning of a check response. Names are strings that nothing looks into; an
expiry is a number, `PerSecond` of them to the second, because `tuple_to_pb`
cuts it to seconds; `Representable` is the range of `DateTime::from_timestamp`.

`CheckService` is the check service as clients see it (external): commits that
each leave a snapshot, a zookie being the number of commits in its snapshot.
Rewrite rules are the server's and are not evaluated. `CheckClient` has tasks
that call every operation of `lib.rs:523-862` with zookies some call gave out:
`call` is a task's latest call with what it asked, what was sent and what came
of it; `zookies` is what the tasks know; `content` is a history of
`content_change_check`. A call is sent, served at any snapshot the request's
zookie allows, and returned; it may fail before or after it was served
(`Fail`), so a failed write may have been committed. Of the server it is assumed
that its snapshots honour zookies and that a write whose precondition is stale
is refused: the properties say that the client asks for it. Of a tuple that one
call both adds and deletes the service may keep either (`Settled`).

`Watch` is `CheckClient::watch`, `WatchStream::recv` and a follower built as
`examples/watch.rs` is, with the two things a follower needs besides: a copy of
the tuples, and the zookie of the last event it finished, both kept over a
crash. Responses wait in a queue; a stream may end or break and lose the rest of
its queue; the follower may crash between handling an event and saving its
zookie. The example prints a commit's `ts` before its updates, so the `ts` is a
point to resume from only once the updates under it are out. Heartbeats come
when the service has sent all it has, as `iam.proto` describes them.

`WebBackend`, `Extractors` and `WebApp` are one state machine in three layers.
`WebBackend` is `examples/webapp/backend.rs`: sessions, the seeded tuples, and
its answers to `Resolve` and `Check`. `Extractors` is `axum.rs`: a request is
`idle`, `resolving` (it has a token and a relation, and has called `resolve()`),
`checking` and `done` with a status (303, 400, 403, 405, 500 or 200) and the
principal its handler is given. Between these stages, and within `resolve()`,
other requests, sign-ins, sign-outs, faults and the clock take steps, and a
client may go away. Its resolver is `ResolverSpec` (`Resolver`): a request's
steps are composed with the steps its call takes there (`Arrive` with `Begin`,
`ResolveReturns` with `Hit` or `Resume`, `Disconnect` with `Cancel`, the sign-out
with `Forget`), and `ResolverWorks` is the rest of what the resolver does.
`WebApp` is `examples/webapp/app.rs`: sign-in, the two steps of sign-out, the
routes and the clients' requests. `MCOtherRoutes` adds an extractor and a method
that the example does not use. Each token signs out once. Clients send tokens
that were issued, or none: a forged token, which names no session and never will,
is left out. It is refused as a signed-out one is, which is in the traffic; that
a token under check has an owner (in `ChecksAreOwned`) is thereby given, and the
rest of that property is about whose session is used, for what and until when.

## Runs

| run | question | instance |
|---|---|---|
| `lru` | do the maps agree, is the bound kept, is `LruSpec` implemented? | 3 keys, 2 entries, capacities 0 to 2, 8 generations |
| `resolver_history` | single flight, age of answers, freshness, order of the cache and of what callers are told | 1 token, 2 callers, 2 fills, 1 change at the authority, sessions that end while cached, stale-if-error on, time to 3 |
| `resolver_refresh` | types, ages and capacity with two tokens competing for one slot, refresh-ahead tasks and a stepped wall clock; is `ResolverSpec` implemented? | 2 tokens, 1 caller, `L1Ttl` 11 so that an entry aged 10 is due for refresh, stale-if-error on |
| `resolver_live` | is every call answered, does every fill end; is `ResolverSpec` implemented where callers share a fill? | 1 token, 2 callers, 1 change at the authority, fair scheduling |
| `sign_out` | when is a sign-out final, and how late may a removed session still be honoured? | 1 token, 1 caller and its refresh-ahead tasks, `L1Ttl` 11, stale window 10, fetches of up to 10, time to 50 in steps of 10 |
| `memo` | one RPC and one decision per question, true hits, a queue that moves on | 3 tasks, 2 questions, 2 decisions, 5 lookups |
| `check_client` | do zookies and preconditions order reads and writes, and are both whole? | 2 tasks, 3 calls, 3 commits, writes of one tuple and of two additions with two deletions, two tuples that encode alike, a foreign tuple that cannot be decoded |
| `watch` | is the follower's copy a snapshot, and does it catch up? | 3 commits of 4 kinds, 2 faults, 2 responses on their way |
| `webapp` | who is admitted, checked, turned away, and until when? | 2 requests, 1 token, 2 principals, 3 articles, every extractor, a session that ends after one second |
| `sign_out_race`, `ttl_cap`, `burst` | three sentences of the documentation the code does not keep | see Findings |

One token is enough for the properties of `resolver_history`: tokens interact
only through the LRU's eviction, which can only remove an entry, and
`resolver_refresh` checks that interaction. Two fills are one more than may run
for a token; two callers give a leader and a waiter, or a caller and a cancelled
one. A TTL of 2, a negative TTL of 1, a fetch of 1 and a clock to 3 let an entry
be fresh, stale, expired and refetched. Jitter is the two ends of the interval,
and integer division makes one of them an earlier instant.

In `sign_out` a TTL of 11 makes an entry aged 10 a hit that spawns a
refresh-ahead task, and one aged 20 a stale one (its window ends at 21 after
receipt). Receipt may come 10 after the authority read the session and the stale
answer 10 after its call began, so 40 is the latest that a session read at 0 is
honoured; the clock to 50 leaves room for later answers, which would be wrong.

In `resolver_history` the session ends at 2, so that a call at 3 could be told of
it a fetch too late.

In `check_client` three calls are what the properties take to break: a write, a
call that learns its zookie or authorizes content, and the call that uses it;
the third commit is the one in between. A write is one addition, one deletion, or
two of each in one call, where an added tuple ends within the same second as a
deleted one and so is the same tuple to the service. In `watch` the batches are a store, a
replacement in one write, a commit of another namespace and a batch of which one
tuple cannot be decoded; two faults let a follower crash during a resumption. A
batch that cannot be decoded keeps the follower at the zookie before it for
ever: `CatchesUp` promises progress up to it, and that it is not passed over is
part of `CopyIsASnapshot`. In `webapp` the two requests share the token, its
cache entry and its fill, which is all that two requests can share; one of them
may come with every kind of request, the other, on one page, is there to race it.
The theorems are for any number of both and any requests. `LateIsRefused` leaves
out a sign-out that races a fetch: that one fails, as `sign_out_race` shows.

**Fairness** (`FairSpec`): the runtime polls every task that is ready, so each
caller's and refresh task's next step is weakly fair; timers fire (`Timeout`)
and time passes (`Tick`); a settled fill is driven to its end by its detached
task (`Finish`). Nothing is assumed of the network or the authority: `Answer`,
`Store` and `Fail` may never happen, which is why `EveryCallAnswered` rests on
`tokio::time::timeout`. In `RequestMemo` only the polls of tasks that are ready
are fair: an RPC need not return, and no task need be dropped. `QueueMovesOn`
therefore promises that the permit reaches someone who calls, not that the call
ends: the memo has no timeout of its own. In `Watch` the follower is polled and
restarted, and the service sends a commit it has not sent while the stream stays
open; heartbeats, writes and faults need not come, and `MaxBreaks` bounds the
faults: a follower whose every stream breaks at once never catches up.

## Proofs

`LruCacheProofs` proves for every set of keys and entries and every capacity
that the maps agree and the bound holds. `IndexAgrees` alone is not inductive
(that the victim is a cached key needs the types; that one eviction is enough
needs the bound), so the invariant `LruInv` joins types, agreement and bound.
`LruRefinesSpec` proves that the code implements `LruSpec`. The step that carries
it: a new generation is above all others, so that stamping a key with it makes it
the most recent one in the order the generations stand for (`PromotedView`), and
the least generation of the recency map is the least recent key there.

`SessionResolverProofs` proves `TypeCorrect` (besides types, which fields each
stage of a fill and of a call has set) and three results, for any number of
tokens, callers and fills and any configuration:

* `SingleFlight`: at most one fill per token. Inductive invariant `Registered`:
  a running fill is the one registered under its hash, and what is registered
  is a running fill of that hash. That is what makes the cleanup's id check
  succeed for every fill.
* `CacheMovesForward`: the cache never goes back to an earlier answer.
  Invariant `Ordered`: nothing holds an answer from the future, and an answer on
  its way to the cache is not older than the entry it will replace. `Ordered`
  survives `Store` only because of `Registered`: no other fill of the same hash
  holds an answer.
* `CapacityKept`: the cache keeps its capacity. The bound is inductive only with
  `Orders`: recency is a strict total order of the cached keys, so a full cache
  has exactly one least recent key to forget. Without that an insertion into a
  full cache could forget nothing.

`SessionAnswersProofs` proves what callers are told, again for any number of
everything:

* `AnswersAreYoung` and `SessionsEnd`. The invariant `Timely` bounds, against the
  time an answer was given, every place it passes: a fill runs no later than its
  deadline and the authority reads after it began (`FlightTimely`), an entry ends
  a TTL after a receipt that is at most one fetch later (`EntryTimely`), and what
  a suspended caller keeps was judged by the clocks it read at its start
  (`CallTimely`), which may since have gone by.
* `FreshSessionsLive`: a fresh entry's session lasts, while the wall clock is not
  stepped (`[](skew = 0)`, which is the case of the run). The hypothesis is
  needed: the life left is converted to a monotonic instant once, and a step of
  the wall clock afterwards is not seen by the entry. What callers are told then
  is still checked against the wall clock, and `SessionsEnd` has no hypothesis.
* `ReadsMoveForward`: calls on one token never go back in time. A version that
  was returned must not be newer than anything that may still be told:
  `NoneOlder` says so of the cached answer, of a fill's answer and of the
  authority. It holds of what a fill has stored (`Sourced`), and of what callers
  hold (`CallReads`) because a caller awaits the registered fill (`Awaited`),
  which has stored before it hands out its result.
* `RevocationsReach` and `QuietSignOuts`: how long a removed session is honoured,
  and when a sign-out is final. `SignOutInv`: after the removal every answer with
  a session was given before it (`From`), in the cache, in a fill or with a caller,
  and after a quiet sign-out only callers that began before it hold one
  (`Barred`). The times follow with `Timely` and `Waits`: a call waits no longer
  than its fill's deadline is away when it joins, which is one fetch at most, and
  not at all for a hit; and what a fill brings was read no longer than one fetch
  before it is told. So a fill's answer honours a removed session up to one fetch
  after the removal, a hit strictly less than a fetch and a TTL, and a stale answer
  strictly less than that, the stale window and another fetch.

`SessionAnswersProofs` also proves `ResolverKeepsContract`: the resolver
implements `ResolverSpec`. The mapping names the fill of a token by its
registration, so it makes sense only because of `Registered` (a running fill is
the registered one) and `Awaited` (a caller waits for the registered fill of its
own hash): with them a `Finish` tells the abstract waiters what it tells the
concrete ones. `CallsTimely` (a kept session was judged by the clocks its call
read) makes every hit and every stale candidate usable, and the bound on the
cache makes what `Store` forgets a choice of `Land`. Lookups that decide nothing
yet, `DropExpired` of another's entry and the clocks map to stutters, to `Forget`
or to steps of the environment.

`RequestMemoProofs` proves, for any tasks, questions and decisions:

* `MemoTypes`: the types, and that a queue holds tasks that wait for that
  question, each once.
* `OneRpc`: a question costs one RPC beyond those that failed or were abandoned.
  Inductive invariant `MemoInv`: the permit of an undecided question is with a
  task that waits or calls (`PermitOK`), the bill of a question is 1 exactly if
  it is decided or that task calls (`BillOK`), and a task calls only with the
  permit (`TaskOK`). The bound alone is not inductive: without `PermitOK` a
  second task could be handed the permit while the first still calls. Tasks of
  the queue being distinct is what keeps a dropped task from being handed it.
* `ReportedHits`: a reported hit is served from the cell. `HitsInv`: a task that
  was told of a hit has a decided cell before it and can only leave with its
  decision. Cells are never emptied, so what was true at the report is so when
  the task joins.
* `MemoKeepsPromise`: the memo implements `MemoSpec`. Each step moves one task,
  which asks, goes on, fails, is told a decision or leaves (`Moves`); going on is
  the stutter. `MemoInv` is what lets a decision be taken only once: the caller
  that decides holds the permit, so its cell is empty.

`WireProofs` proves of the conversions, for tuples of any names, subjects and
expiries: what is written can be read back and only the fraction of a second of
its expiry is lost (`RoundTrip`), a grant never ends later than asked for nor a
second early (`NeverLater`), a read that succeeds returns a tuple for each that
is stored (`ReadsLoseNothing`), and a watched write is decoded whole or not at
all (`BatchesStayWhole`).

`CheckClientProofs` proves the five properties of the run `check_client` for any
number of tasks, calls and commits, any tuples and any filters. `IInv` has four
parts. `LogInv`: each snapshot is the one before it with its changes applied, and
what no change touched since a snapshot is as it was there (`Untouched`); that
second clause is what turns the server's test of a precondition into
`NoLostUpdate` without an induction over the log. `ZookieInv`: zookies are of the
past and one of them is the newest. `ContentInv`: content carries a zookie no
older than any given out before its check. `CallInv`: a request says what its
caller asked (`Requests`), and a result is what the client makes of a reply the
service gave at a snapshot the caller's zookie allows (`Replied`). The log only
grows (`Grows`), so what was replied stays true. `ReadsAreWhole` rests on
`ReadsLoseNothing`, and `NoNewEnemy` on `ReadYourWrites` with `ContentInv`. That
the server honours zookies and preconditions is assumed here as in the runs.

`WatchProofs` proves `SnapshotAlways` for every log, every set of batches and any
number of faults. `CopyIsASnapshot` is not inductive. `IInv` adds that each
snapshot is the one before it with its commit applied (`LogInv`), that the
follower holds an event of the log which follows what it copied (`FollowerInv`),
and that the stream holds the rest of the log from there, in order and without a
gap (`StreamInv`). The crux is that applying a commit to a copy that already has
it, which a resumption after a crash does, changes nothing, and that decoding
tuples commutes with applying changes.

`WebAppProofs` proves the four properties of the run `webapp` for any number of
tokens, requests, articles and routes, over `ResolverSpec`. The inductive
invariant `IInv` has three parts. `SessionsInv`: a session at the backend, in the
cache or brought by a fill is the token's owner's and ends no later than the
backend said; after a sign-out that raced no fill neither the cache nor a fill
holds one; a "not found" there stays true. `CallInv`: what a call keeps or was
given may be told to its request (`Tellable`), and the call of a late request
began when the session was over, which is what makes no cached session usable for
it, whatever time it is when the cache is read. `RequestInv`: a request that
checks knows its owner. Every step of the resolver is covered by one lemma
(`ResolverSessions`): a fill brings what it brought before, or an honest outcome
of a session that is not over, and an entry is the one before or what the fill
brought. Facts about a token only grow (`Onward`), which is why what a request
knew when it was suspended still holds when it goes on (`Stays`).

The assumptions are those the modules name: naturals for the configuration, a
jitter of 80 to 100 percent, a natural `MaxAsks`, that `None` is none of the
values it stands beside (no session is `None`, in `ResolverContract`), that the log is kept from its beginning (`Watch`), that
tuples have the fields of tuples and the decoding error is no read's result
(`ClientAssumption`), and that the backend of the example keeps time in whole
seconds.

Every invariant, action property and refinement that a passing run checks is
stated by one of these theorems. Only model-checked are the four liveness
properties (`EveryCallAnswered`, `FlightsEnd`, `QueueMovesOn`, `CatchesUp`), since
TLAPS does not reason about `ENABLED` and so about fairness.

## Findings

* **A sign-out can be undone by a fill in flight** (`sign_out_race`). The
  example's README says that after a sign-out the next resolve is immediately
  unknown. `evict` removes the cache entry and leaves the in-flight fill, which
  may have read the session before it was removed and then stores it.
  `QuietSignOutIsFinal` shows that without a fill in flight the sentence holds,
  and `RevocationReaches` bounds the time otherwise, on this node and others.
* **The TTL is not a hard cap on staleness** (`ttl_cap`). The documentation of
  `l1_ttl` (`session.rs:98`) says it is. It counts from the receipt of the answer,
  so a cached session is served for up to the time of its fetch longer.
  `AnswerAge` is the bound that does hold.
* **A burst may cause two fills** (`burst`). The cache is not looked up again
  under the in-flight lock, so a caller that missed before the leader stored and
  joins after the leader finished fills again. `OneFillPerHash` still holds.

One choice of the memo is worth knowing and is not counted as a finding: the
observer is told of a hit before the task joins the cell (`memo.rs:91`), so a
task that then waits for another's RPC is reported as a miss. `HitsAreServed`
shows the direction that matters: no reported hit is a miss.

## Not modelled

A panic in a fetcher (it would poison the shared future and leave its
registration behind), mutex poisoning, overflow of `Instant` additions, the hash
of a token, gRPC transport and its keepalive, `list_namespaces` (metadata without
zookies), the observers of `check` and `list`, `with_timestamp` on a memo that is
already in use, the query string of the sign-in redirect, and the RPCs that the
example's backend leaves unimplemented. Pages, command-line examples other than
`watch.rs`, protocol files and generated code have no behaviour to check.

## Plan

1. Done: the resolver (`Lru`, `LruSpec`, `LruCache`, `SessionResolver`,
   `SessionHistory`, `SignOut`, `ResolverClaims`), the memo (`MemoSpec`,
   `RequestMemo`), the client (`Wire`, `CheckService`, `CheckClient`, `Watch`),
   the application (`WebBackend`, `Extractors`, `WebApp`), and a theorem for each
   of their safety properties.
2. Done: what the resolver promises its users (`ResolverSpec`), implemented by
   `SessionResolver` (`ResolverContract`), and the application over it.
3. Left: the application over `SessionResolver` and `CheckClient` at once, which
   would let one ask how old a decision of a handler can be.

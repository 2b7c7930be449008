--------------------------- MODULE ResolverContract ---------------------------
(***************************************************************************)
(* SessionResolver implements ResolverSpec: how the cache, the in-flight   *)
(* table, the fills and the calls of session.rs stand for the state of     *)
(* that specification.                                                     *)
(***************************************************************************)
EXTENDS SessionResolver

\* No session is None, as no Some(session) is Rust's None.
ASSUME OutcomeAssumption ==
  None \notin [principal : Nat, expires_at : Nat]

\* What a user sees of an answer; its version stands for whom it names.
Outcome(ans) ==
  IF ans.session = None THEN None
  ELSE [principal |-> ans.ver, expires_at |-> ans.session]

\* No caller can tell a hit, a stale entry and a fill apart.
ResultView(result) ==
  IF result.kind \in ErrorKinds THEN [kind |-> result.kind, outcome |-> None]
  ELSE [kind |-> "found", outcome |-> Outcome(result.ans)]

AuthorityView ==
  [h \in Hashes |->
     IF server[h].session # None /\ server[h].session > now
     THEN [principal |-> server[h].ver, expires_at |-> server[h].session] ELSE None]

CacheView ==
  [h \in Hashes |-> {Outcome(cache.entry[k].ans) : k \in Keys(cache) \cap {h}}]

\* The fill of a token is the one registered for it.
FillView(f) ==
  [stage  |-> f.stage,
   result |-> IF f.stage \in {"answered", "settled"} THEN ResultView(f.result) ELSE None]
FlightView ==
  [h \in Hashes |-> FillView(IF inflight[h] = None THEN IdleFlight ELSE flight[inflight[h]])]

DueView == {h \in Hashes : refreshers[h] > 0}

StageView(pc) ==
  CASE pc \in {"lookup", "expired", "stale"} -> "open"
    [] pc = "join"                           -> "joining"
    [] OTHER                                 -> pc

CallRecordView(r) ==
  [stage  |-> StageView(r.pc), hash |-> r.hash, at |-> r.wall,
   stale  |-> IF r.stale = None THEN None ELSE Outcome(r.stale.ans),
   result |-> IF r.pc \in {"woken", "done"} THEN ResultView(r.result) ELSE None]
CallView == [c \in Calls |-> CallRecordView(call[c])]

Contract ==
  INSTANCE ResolverSpec WITH
    now <- Wall, authority <- AuthorityView, l1 <- CacheView,
    flight <- FlightView, due <- DueView, call <- CallView

\* Whatever the interleaving of lookups, fills, refreshes, evictions and
\* cancelled callers, a caller of session.rs sees what ResolverSpec promises:
\* one fill per token whose result is told to all that wait for it, answers
\* from the cache that were usable when the call began, and cover for
\* transport errors only (resolve, SingleFlight::run and fill).
KeepsContract == Contract!Spec
===============================================================================

----------------------------- MODULE ResolverSpec -----------------------------
(***************************************************************************)
(* What the session resolver promises its users, whatever its TTLs, its    *)
(* capacity and its scheduling: resolve() answers with what the authority  *)
(* said, at once from the cache, or after the one fetch its token has in   *)
(* flight; a cached session is used only if it had not ended when the call *)
(* began, and covers for a fetch only if that failed in transport.         *)
(* SessionResolver implements this; Extractors is built on it.             *)
(***************************************************************************)
EXTENDS Integers

CONSTANTS
  Hashes,  \* session tokens
  Calls,   \* callers of resolve()
  None     \* "not found", and absence

VARIABLES
  now,        \* the wall clock of the callers
  authority,  \* token -> what the authority would answer: a session, or None
  l1,         \* token -> the cached outcomes: none or one
  flight,     \* token -> its fill
  due,        \* the tokens that a hit has left to be refreshed
  call        \* caller -> the state of its resolve()
resolver == <<l1, flight, due, call>>

\* resolve() returns an outcome (a session, or None) or an error.
Found(outcome) == [kind |-> "found", outcome |-> outcome]
Failed(kind)   == [kind |-> kind, outcome |-> None]
ErrorKinds     == {"transport", "backend"}

NoFill   == [stage |-> "idle", result |-> None]
Asked    == [stage |-> "asked", result |-> None]
Fetched(outcome) == [stage |-> "answered", result |-> Found(outcome)]
Settled(result)  == [stage |-> "settled", result |-> result]

IdleCall == [stage |-> "idle", hash |-> None, at |-> 0, stale |-> None, result |-> None]
OpenCall(h) == [stage |-> "open", hash |-> h, at |-> now, stale |-> None, result |-> None]

\* "Not found", or a session that ends after the call began.
Usable(outcome, at) == outcome # None => outcome.expires_at > at

Init ==
  /\ l1 = [h \in Hashes |-> {}]
  /\ flight = [h \in Hashes |-> NoFill]
  /\ due = {}
  /\ call = [c \in Calls |-> IdleCall]

------------------------------------------------------------------------------
Begin(c, h) ==
  /\ call[c].stage \in {"idle", "done"}
  /\ call' = [call EXCEPT ![c] = OpenCall(h)]
  /\ UNCHANGED <<l1, flight, due>>

Return(c, result) ==
  call' = [call EXCEPT ![c].stage = "done", ![c].stale = None, ![c].result = result]

\* Answered from the cache; a session may be due for a refresh then.
Hit(c, outcome) ==
  LET h == call[c].hash IN
  /\ call[c].stage = "open"
  /\ outcome \in l1[h]
  /\ Usable(outcome, call[c].at)
  /\ Return(c, Found(outcome))
  /\ due' = due \/ (outcome # None /\ due' = due \cup {h})
  /\ UNCHANGED <<l1, flight>>

\* Not answered from the cache: what is kept to cover for a failed fetch is a
\* usable session, or nothing.
Miss(c) ==
  /\ call[c].stage = "open"
  /\ \E stale \in l1[call[c].hash] \cup {None} :
       /\ Usable(stale, call[c].at)
       /\ call' = [call EXCEPT ![c].stage = "joining", ![c].stale = stale]
  /\ UNCHANGED <<l1, flight, due>>

\* A fill of h is in flight from here on.
StartFill(h) == flight' = [flight EXCEPT ![h] = IF @ = NoFill THEN Asked ELSE @]

Join(c) ==
  /\ call[c].stage = "joining"
  /\ StartFill(call[c].hash)
  /\ call' = [call EXCEPT ![c].stage = "waiting"]
  /\ UNCHANGED <<l1, due>>

Refresh(h) ==
  /\ h \in due
  /\ StartFill(h)
  /\ due' \in {due, due \ {h}}
  /\ UNCHANGED <<l1, call>>

\* The authority answers.
Fetch(h) ==
  /\ flight[h].stage = "asked"
  /\ flight' = [flight EXCEPT ![h] = Fetched(authority[h])]
  /\ UNCHANGED <<l1, due, call>>

\* The answer is cached, as room allows.
Land(h) ==
  /\ flight[h].stage = "answered"
  /\ \E kept \in SUBSET Hashes :
       l1' = [k \in Hashes |-> IF k \notin kept THEN {}
                               ELSE IF k = h THEN {flight[h].result.outcome} ELSE l1[k]]
  /\ flight' = [flight EXCEPT ![h] = Settled(@.result)]
  /\ UNCHANGED <<due, call>>

\* The fetch fails or times out.
Fail(h, kind) ==
  /\ flight[h].stage \in {"asked", "answered"}
  /\ flight' = [flight EXCEPT ![h] = Settled(Failed(kind))]
  /\ UNCHANGED <<l1, due, call>>

\* Everyone who waits for the fill has its result.
Finish(h) ==
  /\ flight[h].stage = "settled"
  /\ call' = [c \in Calls |->
                IF call[c].stage = "waiting" /\ call[c].hash = h
                THEN [call[c] EXCEPT !.stage = "woken", !.result = flight[h].result]
                ELSE call[c]]
  /\ flight' = [flight EXCEPT ![h] = NoFill]
  /\ UNCHANGED <<l1, due>>

\* What resolve() makes of the result of its fill.
Covered(r) ==
  IF r.result.kind = "transport" /\ r.stale # None THEN Found(r.stale) ELSE r.result

Resume(c) ==
  /\ call[c].stage = "woken"
  /\ Return(c, Covered(call[c]))
  /\ UNCHANGED <<l1, flight, due>>

\* The caller is dropped at its await.
Cancel(c) ==
  /\ call[c].stage \in {"waiting", "woken"}
  /\ call' = [call EXCEPT ![c] = IdleCall]
  /\ UNCHANGED <<l1, flight, due>>

\* evict(), or the removal of an entry that outlived its session.
Forget(h) ==
  /\ l1' = [l1 EXCEPT ![h] = {}]
  /\ UNCHANGED <<flight, due, call>>

Step ==
  \/ \E c \in Calls :
       \/ \E h \in Hashes : Begin(c, h)
       \/ \E h \in Hashes : \E outcome \in l1[h] : Hit(c, outcome)
       \/ Miss(c) \/ Join(c) \/ Resume(c) \/ Cancel(c)
  \/ \E h \in Hashes :
       \/ Refresh(h) \/ Fetch(h) \/ Land(h) \/ Finish(h) \/ Forget(h)
       \/ \E kind \in ErrorKinds : Fail(h, kind)

Next ==
  \/ Step /\ UNCHANGED <<now, authority>>
  \/ UNCHANGED resolver

Spec == Init /\ [][Next]_<<now, authority, resolver>>
===============================================================================

------------------------------- MODULE SignOut -------------------------------
(***************************************************************************)
(* SessionResolver with the relying party's sign-out handler               *)
(* (examples/webapp/app.rs): it removes the session at the authority and   *)
(* then evicts it from the local cache.  A token hash is random, so once   *)
(* removed it never names a session again.                                 *)
(***************************************************************************)
EXTENDS SessionResolver

VARIABLES
  signout,  \* hash -> [stage, at, quiet]: the progress of its sign-out, when
            \* the session was removed, and whether no fill was in flight
            \* when it was evicted
  after,    \* history: caller -> did its call begin after the sign-out had ended?
  waited    \* history: caller -> how long its call has awaited a fill
svars == <<vars, signout, after, waited>>

SInit ==
  /\ Init
  /\ signout = [h \in Hashes |-> [stage |-> "open", at |-> 0, quiet |-> FALSE]]
  /\ after = [c \in Calls |-> FALSE]
  /\ waited = [c \in Calls |-> 0]

\* backend.remove_session(hash), whether or not there is such a session.
RemoveSession(h) ==
  /\ signout[h].stage = "open"
  /\ server' = [server EXCEPT ![h] = [ver |-> @.ver + 1, session |-> None]]
  /\ signout' = [signout EXCEPT ![h].stage = "removed", ![h].at = now]
  /\ UNCHANGED <<now, skew, cache, inflight, flight, call, refreshers, after, waited>>

\* resolver.evict(hash)
EvictSession(h) ==
  /\ signout[h].stage = "removed"
  /\ Evict(h)
  /\ signout' = [signout EXCEPT ![h].stage = "done", ![h].quiet = inflight[h] = None]
  /\ UNCHANGED <<after, waited>>

\* backend.create_session(): a session of a new token.
CreateSession(h) ==
  /\ signout[h].stage = "open" /\ server[h].session = None
  /\ ServerChange(h)
  /\ UNCHANGED <<signout, after, waited>>

\* A call that begins notes whether it is late; one that awaits a fill, the time.
Resolve ==
  /\ ResolverStep
  /\ after' = [c \in Calls |->
                 IF call[c].pc # "lookup" /\ call'[c].pc = "lookup"
                 THEN signout[call'[c].hash].stage = "done"
                 ELSE after[c] /\ call'[c].pc # "idle"]
  /\ waited' = [c \in Calls |->
                  IF call'[c].pc \in {"idle", "lookup"} THEN 0
                  ELSE IF call[c].pc = "waiting" THEN waited[c] + (now' - now)
                  ELSE waited[c]]
  /\ UNCHANGED signout

SNext == Resolve \/ \E h \in Hashes : RemoveSession(h) \/ EvictSession(h) \/ CreateSession(h)

SSpec == SInit /\ [][SNext]_svars

------------------------------------------------------------------------------
\* The call was answered with a session.
SignedIn(c) ==
  /\ call[c].pc = "done"
  /\ call[c].result.ans # None
  /\ call[c].result.ans.session # None

\* A sign-out that evicts while no fill of the token is in flight is final on
\* this node: no later resolve() finds the session, by cache, by a refresh
\* spawned before, or by a stale entry.
QuietSignOutIsFinal ==
  \A c \in Calls :
    after[c] /\ signout[call[c].hash].quiet => ~SignedIn(c)

\* When the call is answered, if its task is polled whenever it is ready: it
\* reads the clock when it begins and may then await a fill.  What the task waits
\* for a processor comes on top; the code does not bound it.
AnsweredAt(c) == call[c].now + waited[c]

\* Everywhere else (another node, or a sign-out that raced a fill) an answer
\* honours a session removed at the authority for the time of one fetch at most;
\* from the cache for the time the cache may serve it on top; and where it covers
\* for an error, for the time of the fetch that failed as well (session.rs:322).
RevocationReaches ==
  \A c \in Calls :
    LET r    == call[c].result
        late == AnsweredAt(c) - signout[call[c].hash].at
    IN  SignedIn(c) /\ signout[call[c].hash].stage # "open" =>
          /\ r.kind = "fill"  => late <= FetchTimeout
          /\ r.kind = "hit"   => late < FetchTimeout + Lifetime(r)
          /\ r.kind = "stale" => late < FetchTimeout + Lifetime(r) + FetchTimeout

\* As documented: once the sign-out has ended, the next resolve is immediately
\* "not found" (examples/webapp/README.md:211, session.rs:88).
NextResolveNotFound ==
  \A c \in Calls : after[c] => ~SignedIn(c)
==============================================================================

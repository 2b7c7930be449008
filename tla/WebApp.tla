------------------------------- MODULE WebApp ---------------------------------
(***************************************************************************)
(* The web example (examples/webapp/app.rs): sign-in, sign-out and the     *)
(* guarded routes, over its backend and the extractors.                    *)
(***************************************************************************)
EXTENDS Extractors

CONSTANTS
  OtherRoutes,  \* <<extractor, method>> of other applications
  Traffic       \* request -> the <<extractor, method, object>> it may come with;
                \* an object of None is a path that names no article

VARIABLE signout  \* token -> the stage of its sign-out
vars == <<web, signout>>

\* The guarded routes of router().
Routes ==
  {"cookie", "optional"} \X {"GET", "HEAD"} \cup {"bearer"} \X {"GET", "HEAD", "POST"}

Init ==
  /\ ExtractorsInit
  /\ signout = [t \in Tokens |-> "open"]

\* signin_submit, for credentials that authenticate() knows.  Others get 401
\* and change nothing.
SignIn(p) ==
  /\ \E t \in Tokens : CreateSession(t, p)
  /\ UNCHANGED <<now, requests, resolver, signout>>

\* signout: the session is removed at the source ...
SignOutRemove(t) ==
  /\ owner[t] # None /\ signout[t] = "open"
  /\ RemoveSession(t)
  /\ signout' = [signout EXCEPT ![t] = "removed"]
  /\ UNCHANGED <<now, requests, resolver>>

\* The sign-out has ended, and whether a fetch was under way then.
Ended(t) == IF flight[t] = Resolver!NoFill THEN "done" ELSE "raced"

\* Faulty variant: the cache is left alone.
SignOutForget(t) ==
  /\ signout[t] = "removed"
  /\ signout' = [signout EXCEPT ![t] = Ended(t)]
  /\ UNCHANGED web

\* ... and then evicted from the resolver.
SignOutEvict(t) ==
  /\ signout[t] = "removed"
  /\ Resolver!Forget(t)
  /\ signout' = [signout EXCEPT ![t] = Ended(t)]
  /\ UNCHANGED <<backend, requests>>

\* The session of a token has ended, ...
Over(t) == owner[t] # None /\ (signout[t] = "done" \/ owner[t].expires <= now)

\* ... and no fetch from before is under way.
Gone(t) == Over(t) /\ flight[t] = Resolver!NoFill

\* A browser or an API client sends a token it was given, or none.
Request(r) ==
  /\ \E visit \in Traffic[r], t \in {u \in Tokens : owner[u] # None} \cup {None} :
       /\ <<visit[1], visit[2]>> \in Routes \cup OtherRoutes
       /\ Arrive(r, NewRequest(visit[1], visit[2], visit[3], t, t # None /\ Gone(t)))
  /\ UNCHANGED signout

Serve == Extract /\ UNCHANGED signout

Clock == Tick /\ UNCHANGED <<requests, resolver, signout>>

Next ==
  \/ \E p \in Names : SignIn(p)
  \/ \E t \in Tokens : SignOutRemove(t) \/ SignOutEvict(t)
  \/ \E r \in Requests : Request(r)
  \/ Serve
  \/ Clock

Spec == Init /\ [][Next]_vars

------------------------------------------------------------------------------
\* The table of the demo policy (app.rs:47-51).
Documented(p, obj) ==
  CASE obj = "1" -> IF p = Alice THEN {Get, Update} ELSE {}
    [] obj = "2" -> IF p = Bob THEN {Get, Update} ELSE IF p = Alice THEN {Get} ELSE {}
    [] obj = "3" -> {Get}
    [] OTHER     -> {}

\* The handler runs on behalf of a principal.
Admitted(q) == q.pc = "done" /\ q.response.status = 200 /\ q.response.principal # None

\* A handler behind a check acts for the owner of the request's own token, and
\* the table grants that owner what the request's method needs on its object,
\* whatever other requests, sign-ins and outages come between its stages
\* (axum.rs:134, app.rs:187).
AdmittedWasAllowed ==
  \A r \in Requests :
    LET q == requests[r] IN
    Admitted(q) =>
      /\ q.response.principal = owner[q.token].principal
      /\ HasResource(q) => RelOf(q.obj, q.method) \in Documented(q.response.principal, q.obj)

\* A check asks about the owner of the request's token: no RPC for a token that
\* names no session, none about a raw token, none for a relation that nobody
\* can hold (axum.rs:55-66).
ChecksAreOwned ==
  \A r \in Requests :
    LET q == requests[r] IN
    q.pc = "checking" =>
      /\ owner[q.token] # None /\ q.subject = owner[q.token].principal
      /\ ~q.late /\ RelOf(q.obj, q.method) \notin {None, Impossible}

\* A request answered as if nobody were signed in has no live session: an outage
\* of the session or the check service neither signs a user out nor makes one
\* anonymous (axum.rs:71-79).
UnauthenticatedIsTrue ==
  \A r \in Requests :
    LET q == requests[r] IN
    q.pc = "done" /\ (q.response.status = 303 \/ q.response = Handled(None)) =>
      q.token = None \/ BackendResolve(q.token) = None

\* A request that arrives once its session has ended, or once a sign-out is over
\* that no fetch raced, reaches no handler on behalf of its owner: no stage of
\* another request and no refresh brings the session back (app.rs:173-185).  A
\* sign-out that a fetch races ("raced") is left out: the fetch may bring the
\* session back after it, as NextResolveNotFound in SignOut shows.
LateIsRefused == \A r \in Requests : requests[r].late => ~Admitted(requests[r])
===============================================================================

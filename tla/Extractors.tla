------------------------------ MODULE Extractors ------------------------------
(***************************************************************************)
(* The axum extractors (axum.rs): WithPrincipal for cookies and for bearer *)
(* tokens, WithOptPrincipal and Authenticated.  A request runs to its call *)
(* of resolve(), to its check, and to its response or its handler; between *)
(* them other requests run, and sessions begin and end.  The resolver they *)
(* share is ResolverSpec, which SessionResolver implements.                *)
(***************************************************************************)
EXTENDS WebBackend

CONSTANTS
  Requests,    \* the requests of a behaviour
  NotOffered,  \* <<object, method>>: a WebResource whose rel() is None there
  Codes        \* gRPC codes a fetch may fail with

VARIABLES
  requests,             \* what became of each request
  l1, flight, due, call \* the resolver: its cache, its fills, the tokens to
                        \* refresh, and what each request has asked of it
resolver == <<l1, flight, due, call>>
web == <<backend, requests, resolver>>

\* The session service reads the wall clock that its clients read.
Resolver ==
  INSTANCE ResolverSpec WITH
    Hashes <- Tokens, Calls <- Requests,
    authority <- [t \in Tokens |-> SessionFromPb(BackendResolve(t), now)]

Impossible == "impossible"

\* ArticleResource::rel.
RelOf(obj, method) ==
  IF <<obj, method>> \in NotOffered THEN None
  ELSE CASE method \in {"GET", "HEAD"} -> Get
         [] method = "POST"            -> Update
         [] OTHER                      -> Impossible

\* IntoResponse for WebResourceError.
Status(error) ==
  CASE error = "MissingSession"      -> 303
    [] error = "Forbidden"           -> 403
    [] error = "MethodNotAllowed"    -> 405
    [] error = "InternalServerError" -> 500
    [] error = "Parse"               -> 400

NoResponse == [status |-> 0, principal |-> None]
Rejected(error) == [status |-> Status(error), principal |-> None]
Handled(principal) == [status |-> 200, principal |-> principal]

\* An object of None is a path that parse() rejects; late is history.
NewRequest(guard, method, obj, token, late) ==
  [pc |-> "idle", guard |-> guard, method |-> method, obj |-> obj, token |-> token,
   subject |-> None, response |-> NoResponse, late |-> late]

NoRequest == NewRequest(None, None, None, None, FALSE)

ExtractorsInit ==
  /\ BackendInit
  /\ requests = [r \in Requests |-> NoRequest]
  /\ Resolver!Init

Responding(q, response) == [q EXCEPT !.pc = "done", !.response = response]

\* No token, or one that names no session.
Unauthenticated(q) ==
  Responding(q, IF q.guard = "optional" THEN Handled(None) ELSE Rejected("MissingSession"))

\* Authenticated knows no resource.
HasResource(q) == q.guard # "authenticated"

\* Up to the first RPC.
Entered(q) ==
  IF HasResource(q) /\ q.obj = None THEN Responding(q, Rejected("Parse"))
  ELSE IF q.token = None THEN Unauthenticated(q)
  ELSE IF HasResource(q) /\ RelOf(q.obj, q.method) = None
       THEN Responding(q, Rejected("MethodNotAllowed"))
  ELSE [q EXCEPT !.pc = "resolving"]

\* Faulty variant: the raw token is what is checked.
SubjectRaw(q, principal) ==
  IF ~HasResource(q) THEN Responding(q, Handled(principal))
  ELSE IF RelOf(q.obj, q.method) = Impossible THEN Responding(q, Rejected("Forbidden"))
  ELSE [q EXCEPT !.pc = "checking", !.subject = q.token]

\* The token's principal is known: the handler of Authenticated runs, and
\* check() denies Rel::IMPOSSIBLE without an RPC.
Subject(q, principal) ==
  IF ~HasResource(q) THEN Responding(q, Handled(principal))
  ELSE IF RelOf(q.obj, q.method) = Impossible THEN Responding(q, Rejected("Forbidden"))
  ELSE [q EXCEPT !.pc = "checking", !.subject = principal]

\* Faulty variant: an outage of the resolver is taken for an unknown token.
ResolvedOpen(q, result) ==
  IF result.outcome = None THEN Unauthenticated(q) ELSE Subject(q, result.outcome.principal)

\* What resolve_subject makes of the result of resolve().
Resolved(q, result) ==
  IF result.kind # "found" THEN Responding(q, Rejected("InternalServerError"))
  ELSE IF result.outcome = None THEN Unauthenticated(q)
  ELSE Subject(q, result.outcome.principal)

Verdict(q, result) ==
  Responding(q, CASE result.kind = "ok" -> Handled(result.principal)
                  [] result.kind \in {"forbidden", "unknown"} -> Rejected("Forbidden")
                  [] result.kind = "malformed" -> Rejected("InternalServerError"))

------------------------------------------------------------------------------
Set(r, q) == requests' = [requests EXCEPT ![r] = q]

\* q is a request as it comes in; resolve() begins when there is a token to look
\* up.
Arrive(r, q) ==
  LET v == Entered(q) IN
  /\ requests[r].pc = "idle"
  /\ Set(r, v)
  /\ IF v.pc = "resolving" THEN Resolver!Begin(r, q.token) ELSE UNCHANGED resolver
  /\ UNCHANGED backend

\* resolve() returns: from the cache, or with what came of the fill.
ResolveReturns(r) ==
  LET q == requests[r] IN
  /\ q.pc = "resolving"
  /\ Resolver!Resume(r) \/ \E outcome \in l1[q.token] : Resolver!Hit(r, outcome)
  /\ Set(r, Resolved(q, call'[r].result))
  /\ UNCHANGED backend

\* How a fetch fails: by the status of the RPC, or by its timeout.
FaultKinds == {ClassifyStatus(code) : code \in Codes} \cup {"transport"}

\* What the resolver does while no request sees it.
ResolverWorks ==
  /\ \/ \E r \in Requests : Resolver!Miss(r) \/ Resolver!Join(r)
     \/ \E t \in Tokens :
          \/ Resolver!Refresh(t) \/ Resolver!Fetch(t) \/ Resolver!Land(t)
          \/ Resolver!Finish(t) \/ Resolver!Forget(t)
          \/ \E kind \in FaultKinds : Resolver!Fail(t, kind)
  /\ UNCHANGED <<backend, requests>>

CheckAnswer(r) ==
  LET q     == requests[r]
      reply == BackendCheck(q.obj, RelOf(q.obj, q.method), q.subject)
  IN  /\ q.pc = "checking"
      /\ Set(r, Verdict(q, CheckFromPb(reply)))
      /\ UNCHANGED <<backend, resolver>>

CheckFault(r) ==
  /\ requests[r].pc = "checking"
  /\ Set(r, Responding(requests[r], Rejected("InternalServerError")))
  /\ UNCHANGED <<backend, resolver>>

\* The client is gone: the request is dropped at its await.
Disconnect(r) ==
  /\ \/ requests[r].pc = "resolving" /\ Resolver!Cancel(r)
     \/ requests[r].pc = "checking" /\ UNCHANGED resolver
  /\ Set(r, NoRequest)
  /\ UNCHANGED backend

Extract ==
  \/ \E r \in Requests :
       ResolveReturns(r) \/ CheckAnswer(r) \/ CheckFault(r) \/ Disconnect(r)
  \/ ResolverWorks
===============================================================================

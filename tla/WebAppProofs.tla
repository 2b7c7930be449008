----------------------------- MODULE WebAppProofs -----------------------------
(***************************************************************************)
(* Proofs about WebApp, for every set of tokens and requests: the guarded  *)
(* handlers run for the owner of the request's token, allowed by the       *)
(* documented policy, and not after that token's session is over.          *)
(***************************************************************************)
EXTENDS WebApp, TLAPS

Times == 0..MaxNow + SessionTtl
Guards == {visit[1] : visit \in UNION {Traffic[r] : r \in Requests}}
Methods == {visit[2] : visit \in UNION {Traffic[r] : r \in Requests}}
Articles == {visit[3] : visit \in UNION {Traffic[r] : r \in Requests}}

\* What the cache may hold, a fill may end with, and is known of either.
Cached == {None} \cup [principal : Names, expires_at : Times]
Results ==
  [kind : {"found"}, outcome : Cached] \cup [kind : {"transport", "backend"}, outcome : {None}]
FillType ==
  [stage : {"idle", "asked", "answered", "settled"}, result : Results \cup {None}]
CallType ==
  [stage : {"idle", "open", "joining", "waiting", "woken", "done"}, hash : Tokens \cup {None},
   at : 0..MaxNow, stale : Cached, result : Results \cup {None}]

Owned == {t \in Tokens : owner[t] # None}

\* The outcomes that a fill has brought from the session service.
OnItsWay(t) ==
  {s \in Cached : flight[t].stage \in {"answered", "settled"} /\ flight[t].result = Resolver!Found(s)}

\* An outcome of token t: "not found" is so, and a session is the owner's.
Honest(t, s) ==
  /\ owner[t] # None
  /\ s = None => BackendResolve(t) = None
  /\ s # None => s.principal = owner[t].principal /\ s.expires_at <= owner[t].expires

\* A session is that of the token's owner, and one in the cache or on its way
\* there is too, ends no later, and is gone once a sign-out without a race has
\* ended.
SessionsInv ==
  /\ now \in 0..MaxNow
  /\ owner \in [Tokens -> {None} \cup [principal : Names, expires : Times]]
  /\ sessions \in [Tokens -> {None} \cup [principal : Names, expires : Times]]
  /\ l1 \in [Tokens -> SUBSET Cached]
  /\ flight \in [Tokens -> FillType]
  /\ due \subseteq Owned
  /\ signout \in [Tokens -> {"open", "removed", "raced", "done"}]
  /\ \A t \in Tokens :
       /\ sessions[t] # None => sessions[t] = owner[t]
       /\ \A s \in l1[t] \cup OnItsWay(t) : Honest(t, s)
       /\ signout[t] # "open" => owner[t] # None /\ sessions[t] = None
       /\ signout[t] = "done" => l1[t] \cup OnItsWay(t) \subseteq {None}
       /\ flight[t].stage # "idle" => owner[t] # None
       /\ flight[t].stage = "answered" => flight[t].result \in [kind : {"found"}, outcome : Cached]
       /\ flight[t].stage = "settled" => flight[t].result \in Results

\* The session has ended, and no fetch brings it back.
Closed(t) == Over(t) /\ OnItsWay(t) \subseteq {None}

RequestType ==
  [pc : {"idle", "resolving", "checking", "done"}, guard : Guards \cup {None},
   method : Methods \cup {None}, obj : Articles \cup {None}, token : Tokens \cup {None},
   subject : Names \cup {None}, response : [status : Nat, principal : Names \cup {None}],
   late : BOOLEAN]

\* What is known of a request at each of its stages.
RequestInv(q) ==
  /\ q.token # None => owner[q.token] # None
  /\ q.late => q.token # None /\ Closed(q.token)
  /\ q.pc \in {"resolving", "checking"} =>
       q.token # None /\ (HasResource(q) => RelOf(q.obj, q.method) # None)
  /\ q.pc = "checking" =>
       /\ HasResource(q) /\ ~q.late
       /\ q.subject = owner[q.token].principal /\ RelOf(q.obj, q.method) # Impossible
  /\ Admitted(q) =>
       /\ q.token # None /\ ~q.late /\ q.response.principal = owner[q.token].principal
       /\ HasResource(q) => RelOf(q.obj, q.method) \in Documented(q.response.principal, q.obj)
  /\ q.pc = "done" /\ (q.response.status = 303 \/ q.response = Handled(None)) =>
       q.token = None \/ BackendResolve(q.token) = None

\* What a request may be told of its token.
Tellable(q, s) ==
  /\ s = None => BackendResolve(q.token) = None
  /\ s # None => ~q.late /\ s.principal = owner[q.token].principal

\* What is known of a request's call of resolve(): a late request began it when
\* the session was over, and whatever it keeps or was given is tellable.
CallInv(q, c) ==
  /\ q.pc = "resolving" <=> c.stage \in {"open", "joining", "waiting", "woken"}
  /\ q.pc = "resolving" =>
       /\ c.hash = q.token
       /\ q.late => signout[q.token] = "done" \/ owner[q.token].expires <= c.at
       /\ c.stale # None => Tellable(q, c.stale)
       /\ c.stage = "woken" =>
            /\ c.result \in Results
            /\ c.result.kind = "found" => Tellable(q, c.result.outcome)

IInv ==
  /\ SessionsInv
  /\ requests \in [Requests -> RequestType]
  /\ call \in [Requests -> CallType]
  /\ \A r \in Requests : RequestInv(requests[r]) /\ CallInv(requests[r], call[r])

\* What a request looks like when it comes in.
Incoming ==
  [pc : {"idle"}, guard : Guards, method : Methods, obj : Articles \cup {None},
   token : Tokens \cup {None}, subject : {None}, response : {NoResponse}, late : BOOLEAN]

------------------------------------------------------------------------------
\* Only what the documented table grants is allowed.
LEMMA CheckFollowsTable ==
  ASSUME NEW obj, NEW rel, NEW p \in Names,
         BackendCheck(obj, rel, p).ok
  PROVE  rel \in Documented(p, obj)
<1>1. Grant(obj, rel, p) \in Tuples \/ Grant(obj, rel, AllUsers) \in Tuples
  BY DEF BackendCheck
<1>2. p # AllUsers BY BackendAssumption DEF Names
<1>3. CASE Grant(obj, rel, p) \in Tuples
  BY <1>2, <1>3, BackendAssumption DEF Grant, Tuples, Documented, Get, Update, Names
<1>4. CASE Grant(obj, rel, AllUsers) \in Tuples
  BY <1>4, BackendAssumption DEF Grant, Tuples, Documented, Get, Update, Names
<1> QED BY <1>1, <1>3, <1>4

\* The check of a known principal names it, and is followed.
LEMMA VerdictFollowsTable ==
  ASSUME NEW q \in RequestType, q.subject \in Names,
         NEW rel
  PROVE  LET v == Verdict(q, CheckFromPb(BackendCheck(q.obj, rel, q.subject)))
         IN  \/ /\ v = Responding(q, Handled(q.subject))
                /\ rel \in Documented(q.subject, q.obj)
             \/ v = Responding(q, Rejected("Forbidden"))
<1> DEFINE reply == BackendCheck(q.obj, rel, q.subject)
<1>1. reply.principal = q.subject /\ reply.ok \in BOOLEAN
  BY DEF BackendCheck
<1>2. q.subject # None
  BY BackendAssumption DEF Names
<1>3. CASE reply.ok
  <2>1. CheckFromPb(reply) = [kind |-> "ok", principal |-> q.subject]
    BY <1>1, <1>2, <1>3 DEF CheckFromPb
  <2> QED BY <2>1, <1>3, CheckFollowsTable DEF Verdict
<1>4. CASE ~reply.ok
  <2>1. CheckFromPb(reply) = [kind |-> "forbidden", principal |-> q.subject]
    BY <1>1, <1>2, <1>4 DEF CheckFromPb
  <2> QED BY <2>1 DEF Verdict
<1> QED BY <1>3, <1>4

------------------------------------------------------------------------------
\* Stages of one request.

LEMMA Answered ==
  ASSUME NEW q \in RequestType, NEW response \in [status : Nat, principal : Names \cup {None}]
  PROVE  LET v == Responding(q, response)
         IN  /\ v \in RequestType /\ v.pc = "done" /\ v.response = response /\ v.token = q.token
             /\ v.guard = q.guard /\ v.late = q.late /\ v.obj = q.obj /\ v.method = q.method
<1>1. Responding(q, response) =
        [pc |-> "done", guard |-> q.guard, method |-> q.method, obj |-> q.obj,
         token |-> q.token, subject |-> q.subject, response |-> response,
         late |-> q.late]
  <2>1. q = [pc |-> q.pc, guard |-> q.guard, method |-> q.method, obj |-> q.obj,
             token |-> q.token, subject |-> q.subject,
             response |-> q.response, late |-> q.late]
    BY DEF RequestType
  <2>2. Responding(q, response) = [q EXCEPT !.pc = "done", !.response = response]
    BY DEF Responding
  <2> QED BY <2>1, <2>2
<1>2. /\ q.guard \in Guards \cup {None} /\ q.method \in Methods \cup {None}
      /\ q.obj \in Articles \cup {None} /\ q.token \in Tokens \cup {None}
      /\ q.subject \in Names \cup {None} /\ q.late \in BOOLEAN
  BY DEF RequestType
<1>3. Responding(q, response) \in RequestType
  BY <1>1, <1>2 DEF RequestType, Cached
<1> QED BY <1>1, <1>3

\* Any answer but the two that a missing session gets, and but a handler's.
LEMMA RejectedInv ==
  ASSUME NEW q \in RequestType, RequestInv(q),
         NEW e \in {"Forbidden", "MethodNotAllowed", "InternalServerError", "Parse"}
  PROVE  /\ Responding(q, Rejected(e)) \in RequestType
         /\ RequestInv(Responding(q, Rejected(e)))
<1>1. Status(e) \in {403, 405, 500, 400}
  BY DEF Status
<1>2. Rejected(e) \in [status : Nat, principal : Names \cup {None}]
      /\ Rejected(e).status \in {403, 405, 500, 400} /\ Rejected(e) # Handled(None)
  BY <1>1 DEF Rejected, Handled
<1> QED BY <1>2, Answered DEF RequestInv, Admitted

LEMMA UnauthenticatedInv ==
  ASSUME NEW q \in RequestType, RequestInv(q),
         q.token = None \/ BackendResolve(q.token) = None
  PROVE  Unauthenticated(q) \in RequestType /\ RequestInv(Unauthenticated(q))
<1>1. PICK response \in [status : {200, 303}, principal : {None}] :
        Unauthenticated(q) = Responding(q, response)
  BY DEF Unauthenticated, Handled, Rejected, Status
<1>2. response \in [status : Nat, principal : Names \cup {None}] /\ response.principal = None
  OBVIOUS
<1> QED BY <1>1, <1>2, Answered DEF RequestInv, Admitted

LEMMA EnteredInv ==
  ASSUME NEW q \in Incoming,
         q.token # None => owner[q.token] # None,
         q.late => q.token # None /\ Closed(q.token)
  PROVE  Entered(q) \in RequestType /\ RequestInv(Entered(q))
<1>1. q \in RequestType /\ q.pc = "idle"
  BY DEF Incoming, RequestType, NoResponse, Cached
<1>2. RequestInv(q)
  BY <1>1 DEF RequestInv, Admitted
<1>3. CASE Entered(q) = [q EXCEPT !.pc = "resolving"]
            /\ q.token # None /\ (HasResource(q) => RelOf(q.obj, q.method) # None)
  <2> DEFINE v == [q EXCEPT !.pc = "resolving"]
  <2>1. v \in RequestType /\ v.pc = "resolving" /\ v.token = q.token /\ v.late = q.late
        /\ v.guard = q.guard /\ v.obj = q.obj /\ v.method = q.method
    BY <1>1 DEF RequestType
  <2>2. HasResource(v) = HasResource(q)
    BY <2>1 DEF HasResource
  <2>3. RequestInv(v)
    BY <1>2, <1>3, <2>1, <2>2 DEF RequestInv, Admitted
  <2> QED BY <1>3, <2>1, <2>3
<1>4. CASE Entered(q) = Responding(q, Rejected("Parse"))
  BY <1>1, <1>2, <1>4, RejectedInv
<1>5. CASE Entered(q) = Responding(q, Rejected("MethodNotAllowed"))
  BY <1>1, <1>2, <1>5, RejectedInv
<1>6. CASE q.token = None /\ Entered(q) = Unauthenticated(q)
  BY <1>1, <1>2, <1>6, UnauthenticatedInv
<1> QED BY <1>3, <1>4, <1>5, <1>6 DEF Entered

LEMMA SubjectInv ==
  ASSUME NEW q \in RequestType, RequestInv(q), q.pc = "resolving", ~q.late,
         owner[q.token].principal \in Names
  PROVE  LET v == Subject(q, owner[q.token].principal) IN v \in RequestType /\ RequestInv(v)
<1> DEFINE p == owner[q.token].principal
           v == Subject(q, p)
<1> HIDE DEF p
<1>0. p \in Names
  BY DEF p
<1>1. q.token # None /\ (HasResource(q) => RelOf(q.obj, q.method) # None)
  BY DEF RequestInv
<1>2. CASE ~HasResource(q)
  <2>1. v = Responding(q, Handled(p))
    BY <1>2 DEF Subject
  <2>2. v \in RequestType /\ v.response = Handled(p)
        /\ v.pc = "done" /\ v.token = q.token /\ v.late = q.late /\ v.guard = q.guard
    BY <1>0, <2>1, Answered DEF Handled
  <2>3. v.response.status = 200 /\ v.response.principal = p
    BY <2>2 DEF Handled
  <2>4. ~HasResource(v)
    BY <1>2, <2>2 DEF HasResource
  <2>5. p # None
    BY <1>0, BackendAssumption DEF Names
  <2>6. v.response # Handled(None)
    BY <2>3, <2>5 DEF Handled
  <2>7. v.response.principal = owner[v.token].principal
    BY <2>2, <2>3 DEF p
  <2> QED BY <1>1, <2>2, <2>3, <2>4, <2>6, <2>7 DEF RequestInv, Admitted
<1>3. CASE HasResource(q) /\ RelOf(q.obj, q.method) = Impossible
  BY <1>3, RejectedInv DEF Subject
<1>4. CASE HasResource(q) /\ RelOf(q.obj, q.method) # Impossible
  <2>1. v = [q EXCEPT !.pc = "checking", !.subject = p]
    BY <1>4 DEF Subject
  <2>2. v \in RequestType
    BY <1>0, <2>1 DEF RequestType, Cached
  <2>3. v.pc = "checking" /\ v.token = q.token /\ v.late = q.late /\ v.guard = q.guard
        /\ v.obj = q.obj /\ v.method = q.method /\ v.subject = p
    BY <2>1 DEF RequestType
  <2>4. HasResource(v) = HasResource(q)
    BY <2>3 DEF HasResource
  <2>5. v.subject = owner[v.token].principal
    BY <2>3 DEF p
  <2> QED BY <1>1, <1>4, <2>2, <2>3, <2>4, <2>5 DEF RequestInv, Admitted
<1> QED BY <1>2, <1>3, <1>4 DEF p

LEMMA VerdictInv ==
  ASSUME NEW q \in RequestType, RequestInv(q), q.pc = "checking",
         owner[q.token].principal \in Names
  PROVE  LET v == Verdict(q, CheckFromPb(BackendCheck(q.obj, RelOf(q.obj, q.method), q.subject)))
         IN  v \in RequestType /\ RequestInv(v)
<1> DEFINE rel == RelOf(q.obj, q.method)
           v   == Verdict(q, CheckFromPb(BackendCheck(q.obj, rel, q.subject)))
           p   == q.subject
<1> HIDE DEF rel, v
<1>1. q.token # None /\ ~q.late /\ p = owner[q.token].principal /\ p \in Names
  BY DEF RequestInv
<1>2. CASE v = Responding(q, Handled(p)) /\ rel \in Documented(p, q.obj)
  <2>1. Handled(p) \in [status : Nat, principal : Names \cup {None}]
    BY <1>1 DEF Handled
  <2>2. v \in RequestType /\ v.response = Handled(p)
        /\ v.pc = "done" /\ v.token = q.token /\ v.late = q.late /\ v.obj = q.obj
        /\ v.method = q.method
    BY <1>2, <2>1, Answered
  <2>3. v.response.status = 200 /\ v.response.principal = p
    BY <2>2 DEF Handled
  <2>4. p # None
    BY <1>1, BackendAssumption DEF Names
  <2>5. v.response # Handled(None)
    BY <2>3, <2>4 DEF Handled
  <2>6. RelOf(v.obj, v.method) \in Documented(v.response.principal, v.obj)
    BY <1>2, <2>2, <2>3 DEF rel
  <2>7. RequestInv(v)
    BY <1>1, <2>2, <2>3, <2>5, <2>6 DEF RequestInv, Admitted
  <2> QED BY <2>2, <2>7 DEF v, rel
<1>3. CASE v = Responding(q, Rejected("Forbidden"))
  BY <1>3, RejectedInv DEF v, rel
<1> QED BY <1>1, <1>2, <1>3, VerdictFollowsTable DEF v


\* A request that is answered or goes on to its check has left the resolver.
LEMMA Leaves ==
  ASSUME NEW q \in RequestType
  PROVE  /\ \A response : Responding(q, response).pc = "done"
         /\ Unauthenticated(q).pc = "done"
         /\ \A p : Subject(q, p).pc \in {"done", "checking"}
<1>1. \A response : Responding(q, response).pc = "done"
  BY DEF Responding, RequestType
<1>2. \A p : [q EXCEPT !.pc = "checking", !.subject = p].pc = "checking"
  BY DEF RequestType
<1> QED BY <1>1, <1>2 DEF Unauthenticated, Subject

\* What resolve() returns is taken for no more than it is (axum.rs:66-76).
LEMMA ResolvedInv ==
  ASSUME NEW q \in RequestType, RequestInv(q), q.pc = "resolving", NEW result \in Results,
         result.kind = "found" => Tellable(q, result.outcome),
         q.token # None => owner[q.token].principal \in Names
  PROVE  LET v == Resolved(q, result)
         IN  v \in RequestType /\ RequestInv(v) /\ v.pc # "resolving"
<1>1. CASE result.kind # "found"
  <2>1. Resolved(q, result) = Responding(q, Rejected("InternalServerError"))
    BY <1>1 DEF Resolved
  <2> QED BY <2>1, RejectedInv, Leaves
<1>2. CASE result.kind = "found" /\ result.outcome = None
  <2>1. Resolved(q, result) = Unauthenticated(q) /\ BackendResolve(q.token) = None
    BY <1>2 DEF Resolved, Tellable
  <2> QED BY <2>1, UnauthenticatedInv, Leaves
<1>3. CASE result.kind = "found" /\ result.outcome # None
  <2>1. ~q.late /\ result.outcome.principal = owner[q.token].principal /\ q.token # None
    BY <1>3 DEF Tellable, RequestInv
  <2>2. Resolved(q, result) = Subject(q, owner[q.token].principal)
    BY <1>3, <2>1 DEF Resolved
  <2> QED BY <2>1, <2>2, SubjectInv, Leaves
<1> QED BY <1>1, <1>2, <1>3

------------------------------------------------------------------------------
\* Steps.

\* What the backend and the resolver may do to a token that was issued: its
\* owner stays, and a session that is over stays so.
Onward(t) ==
  /\ owner[t] # None => owner'[t] = owner[t]
  /\ signout[t] = "done" => signout'[t] = "done"
  /\ owner[t] # None /\ BackendResolve(t) = None => BackendResolve(t)' = None
  /\ Closed(t) => OnItsWay(t)' \subseteq {None}

\* What is known of a request and of its call stays known.
LEMMA Stays ==
  ASSUME NEW q \in RequestType, NEW c \in CallType, RequestInv(q), CallInv(q, c), SessionsInv,
         now' \in Int, now <= now', \A t \in Tokens : Onward(t)
  PROVE  RequestInv(q)' /\ CallInv(q, c)'
<1>1. q.token = None \/ q.token \in Tokens
  BY DEF RequestType
<1>2. q.token # None => owner'[q.token] = owner[q.token] /\ owner[q.token] # None
  BY <1>1 DEF RequestInv, Onward
<1>3. ASSUME q.token # None, Closed(q.token) PROVE Closed(q.token)'
  <2>1. q.token \in Tokens BY <1>1, <1>3
  <2>2. OnItsWay(q.token)' \subseteq {None}
    BY <1>3, <2>1 DEF Onward
  <2>3. CASE signout[q.token] = "done"
    BY <1>2, <1>3, <2>1, <2>2, <2>3 DEF Closed, Over, Onward
  <2>4. CASE owner[q.token].expires <= now
    <3>1. owner[q.token].expires \in Int
      BY <1>2, <1>3, <2>1, BackendAssumption DEF SessionsInv, Times
    <3>2. owner[q.token].expires <= now'
      BY <2>4, <3>1 DEF SessionsInv
    <3> QED BY <1>2, <1>3, <2>2, <3>2 DEF Closed, Over
  <2> QED BY <1>3, <2>3, <2>4 DEF Closed, Over
<1>4. q.token # None /\ BackendResolve(q.token) = None => BackendResolve(q.token)' = None
  BY <1>1, <1>2 DEF Onward
<1>5. (q.late => q.token # None /\ Closed(q.token)')
  BY <1>3 DEF RequestInv
<1>6. HasResource(q)' = HasResource(q) /\ Admitted(q)' = Admitted(q)
  BY DEF HasResource, Admitted
<1>7. q.pc = "checking" => q.subject = owner'[q.token].principal
  BY <1>2 DEF RequestInv
<1>8. Admitted(q) => q.response.principal = owner'[q.token].principal
  BY <1>2 DEF RequestInv
<1>9. RequestInv(q)'
  BY <1>2, <1>4, <1>5, <1>6, <1>7, <1>8 DEF RequestInv
<1>10. CASE q.pc = "resolving"
  <2>1. q.token \in Tokens
    BY <1>1, <1>10 DEF RequestInv
  <2>2. signout[q.token] = "done" => signout'[q.token] = "done"
    BY <2>1 DEF Onward
  <2>3. owner'[q.token] = owner[q.token]
    BY <1>2, <2>1, <1>10 DEF RequestInv
  <2>4. ASSUME NEW s, Tellable(q, s) PROVE Tellable(q, s)'
    <3>1. s = None => BackendResolve(q.token)' = None
      BY <1>4, <1>10, <2>4 DEF Tellable, RequestInv
    <3>2. s # None => ~q.late /\ s.principal = owner'[q.token].principal
      BY <2>3, <2>4 DEF Tellable
    <3> QED BY <3>1, <3>2 DEF Tellable
  <2> QED BY <1>9, <1>10, <2>2, <2>3, <2>4 DEF CallInv
<1>11. CASE q.pc # "resolving"
  BY <1>9, <1>11 DEF CallInv
<1> QED BY <1>10, <1>11

\* Requests and calls stay as they are or move on to what is known of now.
LEMMA Advance ==
  ASSUME IInv, SessionsInv', now <= now', \A t \in Tokens : Onward(t),
         NEW f, requests' = [r \in Requests |-> f[r]], NEW g, call' = [r \in Requests |-> g[r]],
         \A r \in Requests : /\ f[r] \in RequestType /\ RequestInv(f[r])
                             /\ g[r] \in CallType /\ CallInv(f[r], g[r])
  PROVE  IInv'
<1>1. now' \in Int
  BY DEF SessionsInv
<1>2. requests' \in [Requests -> RequestType] /\ call' \in [Requests -> CallType]
  OBVIOUS
<1>3. ASSUME NEW x \in Requests PROVE (RequestInv(requests[x]) /\ CallInv(requests[x], call[x]))'
  <2>1. PICK q, c : q = f[x] /\ c = g[x]
    OBVIOUS
  <2>2. /\ q \in RequestType /\ RequestInv(q) /\ requests'[x] = q
        /\ c \in CallType /\ CallInv(q, c) /\ call'[x] = c
    BY <2>1
  <2>3. RequestInv(q)' /\ CallInv(q, c)'
    BY <1>1, <2>2, Stays DEF IInv
  <2> QED BY <2>2, <2>3 DEF RequestInv, CallInv, Tellable, HasResource, Admitted, BackendResolve,
                            Closed, Over, OnItsWay
<1> QED BY <1>2, <1>3 DEF IInv

\* A step that leaves the requests and their calls alone.
LEMMA Waits ==
  ASSUME IInv, SessionsInv', UNCHANGED <<requests, call>>, now <= now',
         \A t \in Tokens : Onward(t)
  PROVE  IInv'
<1>1. PICK f, g : f = requests /\ g = call
  OBVIOUS
<1>2. requests' = [r \in Requests |-> f[r]] /\ call' = [r \in Requests |-> g[r]]
  BY <1>1 DEF IInv
<1>3. \A r \in Requests : /\ f[r] \in RequestType /\ RequestInv(f[r])
                          /\ g[r] \in CallType /\ CallInv(f[r], g[r])
  BY <1>1 DEF IInv
<1> QED BY <1>2, <1>3, Advance

\* What a step of the resolver does to a token: its fill brings what it brought
\* before, or an honest outcome of a session that is not over, and its entry is
\* the one before or what the fill brought.
Brings(t) ==
  /\ \A s \in OnItsWay(t)' :
       s \in OnItsWay(t) \/ (Honest(t, s) /\ (s # None => ~Over(t)))
  /\ l1'[t] \subseteq l1[t] \cup OnItsWay(t)
  /\ flight'[t].stage # "idle" => owner[t] # None
  /\ flight'[t].stage = "answered" => flight'[t].result \in [kind : {"found"}, outcome : Cached]
  /\ flight'[t].stage = "settled" => flight'[t].result \in Results

LEMMA ResolverSessions ==
  ASSUME IInv, UNCHANGED <<backend, signout>>, due' \subseteq Owned,
         l1' \in [Tokens -> SUBSET Cached], flight' \in [Tokens -> FillType],
         \A t \in Tokens : Brings(t)
  PROVE  SessionsInv' /\ now <= now' /\ \A t \in Tokens : Onward(t)
<1>1. UNCHANGED <<now, owner, sessions, signout>>
  BY DEF backend
<1>2. now <= now' /\ Owned' = Owned
  BY <1>1 DEF IInv, SessionsInv, Owned
<1>3. \A t \in Tokens : BackendResolve(t)' = BackendResolve(t)
  BY <1>1 DEF BackendResolve
<1>4. \A t \in Tokens, s \in Cached : Honest(t, s) => Honest(t, s)'
  BY <1>1, <1>3 DEF Honest
<1>5. \A t \in Tokens : OnItsWay(t) \subseteq Cached /\ OnItsWay(t)' \subseteq Cached
  BY DEF OnItsWay
<1>6. ASSUME NEW t \in Tokens, signout[t] = "done"
      PROVE  l1'[t] \cup OnItsWay(t)' \subseteq {None}
  <2>1. Over(t) /\ l1[t] \cup OnItsWay(t) \subseteq {None}
    BY <1>6 DEF Over, IInv, SessionsInv
  <2> QED BY <2>1 DEF Brings
<1>7. \A t \in Tokens : \A s \in l1'[t] \cup OnItsWay(t)' : Honest(t, s)'
  BY <1>4, <1>5 DEF IInv, SessionsInv, Brings
<1>8. SessionsInv'
  BY <1>1, <1>2, <1>6, <1>7 DEF IInv, SessionsInv, Brings
<1>9. \A t \in Tokens : Onward(t)
  <2> SUFFICES ASSUME NEW t \in Tokens PROVE Onward(t)
    OBVIOUS
  <2>1. Closed(t) => OnItsWay(t)' \subseteq {None}
    BY DEF Closed, Brings
  <2> QED BY <1>1, <1>3, <2>1 DEF Onward
<1> QED BY <1>2, <1>8, <1>9

\* A session that the backend no longer names does not come back.
LEMMA StaysOver ==
  ASSUME IInv, NEW t \in Tokens, sessions'[t] \in {None, sessions[t]}, now' \in Int, now <= now',
         BackendResolve(t) = None
  PROVE  BackendResolve(t)' = None
<1>1. CASE sessions'[t] = None
  BY <1>1 DEF BackendResolve
<1>2. CASE sessions'[t] = sessions[t] /\ sessions[t] # None
  <2>1. sessions[t].expires \in Int /\ now \in Int
    BY <1>2, BackendAssumption DEF IInv, SessionsInv, Times
  <2>2. ~(sessions[t].expires > now)
    BY <1>2 DEF BackendResolve
  <2>3. ~(sessions[t].expires > now')
    BY <2>1, <2>2
  <2> QED BY <1>2, <2>3 DEF BackendResolve
<1> QED BY <1>1, <1>2

\* What the resolver holds stays honest while it is left alone.
LEMMA StaysHonest ==
  ASSUME IInv, UNCHANGED flight, \A t \in Tokens : l1'[t] \subseteq l1[t],
         \A t \in Tokens : owner[t] # None =>
           owner'[t] = owner[t] /\ (BackendResolve(t) = None => BackendResolve(t)' = None)
  PROVE  \A t \in Tokens : /\ OnItsWay(t)' = OnItsWay(t)
                           /\ \A s \in l1'[t] \cup OnItsWay(t)' : Honest(t, s)'
<1> SUFFICES ASSUME NEW t \in Tokens PROVE /\ OnItsWay(t)' = OnItsWay(t)
                                           /\ \A s \in l1'[t] \cup OnItsWay(t)' : Honest(t, s)'
  OBVIOUS
<1>1. OnItsWay(t)' = OnItsWay(t)
  BY DEF OnItsWay
<1>2. \A s \in l1[t] \cup OnItsWay(t) : Honest(t, s)
  BY DEF IInv, SessionsInv
<1>3. ASSUME NEW s, Honest(t, s) PROVE Honest(t, s)'
  BY <1>3 DEF Honest
<1> QED BY <1>1, <1>2, <1>3

LEMMA SignInStep ==
  ASSUME IInv, NEW p \in Names, SignIn(p)
  PROVE  IInv'
<1>1. PICK t \in Tokens : CreateSession(t, p)
  BY DEF SignIn
<1>2. PICK s : s = [principal |-> p, expires |-> now + SessionTtl]
  OBVIOUS
<1>3. now + SessionTtl \in Times /\ now \in Int
  BY BackendAssumption DEF IInv, SessionsInv, Times
<1>4. /\ s \in [principal : Names, expires : Times]
      /\ owner[t] = None /\ owner' = [owner EXCEPT ![t] = s]
      /\ sessions' = [sessions EXCEPT ![t] = s]
      /\ UNCHANGED <<now, l1, flight, due, call, signout, requests>>
  BY <1>1, <1>2, <1>3 DEF CreateSession, SignIn, resolver
<1>5. \A x \in Tokens : x # t => owner'[x] = owner[x] /\ sessions'[x] = sessions[x]
  BY <1>4 DEF IInv, SessionsInv
<1>6. \A x \in Tokens : BackendResolve(x) = None /\ x # t => BackendResolve(x)' = None
  BY <1>3, <1>4, <1>5, StaysOver
<1>7. \A x \in Tokens : /\ OnItsWay(x)' = OnItsWay(x)
                        /\ \A o \in l1'[x] \cup OnItsWay(x)' : Honest(x, o)'
  BY <1>4, <1>5, <1>6, StaysHonest
<1>8. Owned \subseteq Owned'
  BY <1>4, <1>5 DEF Owned
<1>9. SessionsInv'
  BY <1>4, <1>5, <1>7, <1>8 DEF IInv, SessionsInv
<1>10. \A x \in Tokens : Onward(x)
  BY <1>4, <1>5, <1>6, <1>7 DEF Onward, Closed
<1> QED BY <1>3, <1>4, <1>9, <1>10, Waits

LEMMA SignOutStep ==
  ASSUME IInv, NEW t \in Tokens, SignOutRemove(t) \/ SignOutEvict(t)
  PROVE  IInv'
<1>1. /\ UNCHANGED <<now, owner, requests, flight, due, call>> /\ now \in Int
      /\ l1' \in [Tokens -> SUBSET Cached]
      /\ \A x \in Tokens : sessions'[x] \in {None, sessions[x]} /\ l1'[x] \in {{}, l1[x]}
  BY BackendAssumption
  DEF SignOutRemove, SignOutEvict, RemoveSession, Resolver!Forget, backend, resolver, IInv, SessionsInv
<1>2. \A x \in Tokens : BackendResolve(x) = None => BackendResolve(x)' = None
  BY <1>1, StaysOver
<1>3. \A x \in Tokens : /\ OnItsWay(x)' = OnItsWay(x)
                        /\ \A s \in l1'[x] \cup OnItsWay(x)' : Honest(x, s)'
  BY <1>1, <1>2, StaysHonest
<1>4. Owned' = Owned
  BY <1>1 DEF Owned
<1>5. CASE SignOutRemove(t)
  <2>1. owner[t] # None /\ sessions' = [sessions EXCEPT ![t] = None]
        /\ signout[t] = "open" /\ signout' = [signout EXCEPT ![t] = "removed"]
    BY <1>5 DEF SignOutRemove, RemoveSession
  <2>2. SessionsInv'
    BY <1>1, <1>3, <1>4, <2>1 DEF IInv, SessionsInv
  <2>3. \A x \in Tokens : signout[x] = "done" => signout'[x] = "done"
    BY <2>1 DEF IInv, SessionsInv
  <2> QED BY <1>1, <1>2, <1>3, <2>2, <2>3, Waits DEF Onward, Closed
<1>6. CASE SignOutEvict(t)
  <2>1. l1' = [l1 EXCEPT ![t] = {}] /\ UNCHANGED sessions
        /\ signout[t] = "removed" /\ signout' = [signout EXCEPT ![t] = Ended(t)]
    BY <1>6 DEF SignOutEvict, Resolver!Forget, backend
  <2>2. Ended(t) \in {"done", "raced"} /\ (Ended(t) = "done" => OnItsWay(t) = {})
    BY DEF Ended, OnItsWay, Resolver!NoFill
  <2>3. l1'[t] = {}
    BY <2>1 DEF IInv, SessionsInv
  <2>4. SessionsInv'
    BY <1>1, <1>3, <1>4, <2>1, <2>2, <2>3 DEF IInv, SessionsInv
  <2>5. \A x \in Tokens : signout[x] = "done" => signout'[x] = "done"
    BY <2>1 DEF IInv, SessionsInv
  <2> QED BY <1>1, <1>2, <1>3, <2>4, <2>5, Waits DEF Onward, Closed
<1> QED BY <1>5, <1>6

LEMMA ClockStep ==
  ASSUME IInv, Clock
  PROVE  IInv'
<1>1. now' = now + 1 /\ now < MaxNow /\ now \in 0..MaxNow
      /\ UNCHANGED <<sessions, owner, l1, flight, due, call, signout, requests>>
  BY DEF Clock, Tick, resolver, IInv, SessionsInv
<1>2. now' \in 0..MaxNow /\ now <= now'
  BY <1>1, BackendAssumption
<1>3. \A x \in Tokens : BackendResolve(x) = None => BackendResolve(x)' = None
  BY <1>1, <1>2, StaysOver
<1>4. \A x \in Tokens : /\ OnItsWay(x)' = OnItsWay(x)
                        /\ \A s \in l1'[x] \cup OnItsWay(x)' : Honest(x, s)'
  BY <1>1, <1>3, StaysHonest
<1>5. Owned' = Owned
  BY <1>1 DEF Owned
<1>6. SessionsInv'
  BY <1>1, <1>2, <1>4, <1>5 DEF IInv, SessionsInv
<1> QED BY <1>1, <1>2, <1>3, <1>4, <1>6, Waits DEF Onward, Closed

\* A step of one request and its call.
LEMMA Moves ==
  ASSUME IInv, SessionsInv', now <= now', \A t \in Tokens : Onward(t), NEW r \in Requests,
         NEW q \in RequestType, RequestInv(q), NEW c \in CallType, CallInv(q, c),
         requests' = [requests EXCEPT ![r] = q], call' = [call EXCEPT ![r] = c]
  PROVE  IInv'
<1>1. PICK f, g : f = [requests EXCEPT ![r] = q] /\ g = [call EXCEPT ![r] = c]
  OBVIOUS
<1>2. requests' = [x \in Requests |-> f[x]] /\ call' = [x \in Requests |-> g[x]]
  BY <1>1 DEF IInv
<1>3. \A x \in Requests : /\ f[x] \in RequestType /\ RequestInv(f[x])
                          /\ g[x] \in CallType /\ CallInv(f[x], g[x])
  BY <1>1 DEF IInv
<1> QED BY <1>2, <1>3, Advance

\* The resolver's fills and cache are left alone.
LEMMA QuietSessions ==
  ASSUME IInv, UNCHANGED <<backend, signout, l1, flight>>, due' \subseteq Owned
  PROVE  SessionsInv' /\ now <= now' /\ \A t \in Tokens : Onward(t)
<1>1. \A t \in Tokens : OnItsWay(t)' = OnItsWay(t)
  BY DEF OnItsWay
<1>2. \A t \in Tokens : Brings(t)
  BY <1>1 DEF Brings, IInv, SessionsInv
<1>3. l1' \in [Tokens -> SUBSET Cached] /\ flight' \in [Tokens -> FillType]
  BY DEF IInv, SessionsInv
<1> QED BY <1>2, <1>3, ResolverSessions

\* A fill of an owned token is in flight.
LEMMA FillSessions ==
  ASSUME IInv, UNCHANGED <<backend, signout, l1>>, due' \subseteq Owned,
         NEW t \in Owned, Resolver!StartFill(t)
  PROVE  SessionsInv' /\ now <= now' /\ \A x \in Tokens : Onward(x)
<1>1. t \in Tokens /\ owner[t] # None /\ flight \in [Tokens -> FillType]
  BY DEF Owned, IInv, SessionsInv
<1>2. CASE flight[t] # Resolver!NoFill
  <2>1. flight' = flight
    BY <1>1, <1>2 DEF Resolver!StartFill
  <2> QED BY <2>1, QuietSessions
<1>3. CASE flight[t] = Resolver!NoFill
  <2>1. flight' = [flight EXCEPT ![t] = Resolver!Asked]
    BY <1>3 DEF Resolver!StartFill
  <2>2. Resolver!Asked \in FillType /\ Resolver!Asked.stage = "asked"
    BY DEF Resolver!Asked, FillType
  <2>3. flight' \in [Tokens -> FillType] /\ flight'[t].stage = "asked"
        /\ \A x \in Tokens : x # t => flight'[x] = flight[x]
    BY <1>1, <2>1, <2>2
  <2>4. \A x \in Tokens : OnItsWay(x)' \subseteq OnItsWay(x)
    BY <2>3 DEF OnItsWay
  <2>5. \A x \in Tokens : Brings(x)
    BY <1>1, <2>3, <2>4 DEF Brings, IInv, SessionsInv
  <2>6. l1' \in [Tokens -> SUBSET Cached]
    BY DEF IInv, SessionsInv
  <2> QED BY <2>3, <2>5, <2>6, ResolverSessions
<1> QED BY <1>2, <1>3

\* The resolver is asked for an owned token that is closed if the request is late.
LEMMA OpenCallInv ==
  ASSUME IInv, NEW q \in RequestType, q.pc = "resolving", q.token \in Tokens,
         q.late => Closed(q.token)
  PROVE  LET c == Resolver!OpenCall(q.token) IN c \in CallType /\ CallInv(q, c)
<1>1. PICK c : c = Resolver!OpenCall(q.token)
  OBVIOUS
<1>2. c = [stage |-> "open", hash |-> q.token, at |-> now, stale |-> None, result |-> None]
  BY <1>1 DEF Resolver!OpenCall
<1>3. now \in 0..MaxNow
  BY DEF IInv, SessionsInv
<1>4. c \in CallType
  BY <1>2, <1>3 DEF CallType, Cached
<1>5. c.stage = "open" /\ c.hash = q.token /\ c.at = now /\ c.stale = None
  BY <1>2
<1> QED BY <1>1, <1>4, <1>5 DEF CallInv, Closed, Over

LEMMA RequestStep ==
  ASSUME IInv, NEW r \in Requests, Request(r)
  PROVE  IInv'
<1>1. PICK visit \in Traffic[r], t \in {u \in Tokens : owner[u] # None} \cup {None} :
        Arrive(r, NewRequest(visit[1], visit[2], visit[3], t, t # None /\ Gone(t)))
  BY DEF Request
<1>2. PICK q : q = NewRequest(visit[1], visit[2], visit[3], t, t # None /\ Gone(t))
  OBVIOUS
<1>3. PICK v : v = Entered(q)
  OBVIOUS
<1>4. /\ requests[r].pc = "idle" /\ requests' = [requests EXCEPT ![r] = v]
      /\ IF v.pc = "resolving" THEN Resolver!Begin(r, q.token) ELSE UNCHANGED resolver
      /\ UNCHANGED <<backend, signout>>
  BY <1>1, <1>2, <1>3 DEF Arrive, Set, Request
<1>5. visit[1] \in Guards /\ visit[2] \in Methods /\ visit[3] \in Articles
  BY DEF Guards, Methods, Articles
<1>6. q \in Incoming /\ q.late = (t # None /\ Gone(t)) /\ q.token = t
  BY <1>2, <1>5 DEF Incoming, NewRequest
<1>7. Gone(t) => Closed(t)
  BY DEF Gone, Closed, OnItsWay, Resolver!NoFill
<1>8. v \in RequestType /\ RequestInv(v)
  BY <1>3, <1>6, <1>7, EnteredInv
<1>9. CASE v.pc = "resolving"
  <2>1. UNCHANGED <<l1, flight, due>> /\ call' = [call EXCEPT ![r] = Resolver!OpenCall(q.token)]
    BY <1>4, <1>9 DEF Resolver!Begin
  <2>2. v.token = q.token /\ v.late = q.late /\ q.token \in Tokens
    <3>1. v = [q EXCEPT !.pc = "resolving"] \/ v.pc = "done"
      <4>1. q \in RequestType
        BY <1>6 DEF Incoming, RequestType, NoResponse
      <4> QED BY <1>3, <4>1, Leaves DEF Entered
    <3>2. v.token = q.token /\ v.late = q.late
      BY <1>6, <1>9, <3>1 DEF Incoming
    <3> QED BY <1>6, <1>8, <1>9, <3>2 DEF RequestInv
  <2>3. LET c == Resolver!OpenCall(q.token) IN c \in CallType /\ CallInv(v, c)
    BY <1>6, <1>7, <1>8, <1>9, <2>2, OpenCallInv
  <2>4. SessionsInv' /\ now <= now' /\ \A x \in Tokens : Onward(x)
    BY <1>4, <2>1, QuietSessions DEF IInv, SessionsInv
  <2> QED BY <1>4, <1>8, <2>1, <2>3, <2>4, Moves
<1>10. CASE v.pc # "resolving"
  <2>1. UNCHANGED <<l1, flight, due, call>>
    BY <1>4, <1>10 DEF resolver
  <2>2. PICK c : c = call[r]
    OBVIOUS
  <2>3. c \in CallType /\ call' = [call EXCEPT ![r] = c]
    BY <2>1, <2>2 DEF IInv
  <2>4. CallInv(v, c)
    BY <1>4, <1>10, <2>2 DEF IInv, CallInv
  <2>5. SessionsInv' /\ now <= now' /\ \A x \in Tokens : Onward(x)
    BY <1>4, <2>1, QuietSessions DEF IInv, SessionsInv
  <2> QED BY <1>4, <1>8, <2>3, <2>4, <2>5, Moves
<1> QED BY <1>9, <1>10

\* A request that leaves the backend and the resolver alone.
LEMMA CheckStep ==
  ASSUME IInv, NEW r \in Requests, CheckAnswer(r) \/ CheckFault(r), UNCHANGED signout
  PROVE  IInv'
<1>1. PICK q, c : q = requests[r] /\ c = call[r]
  OBVIOUS
<1>2. /\ q \in RequestType /\ RequestInv(q) /\ q.pc = "checking" /\ c \in CallType /\ CallInv(q, c)
      /\ UNCHANGED <<backend, l1, flight, due, call, signout>>
  BY <1>1 DEF IInv, CheckAnswer, CheckFault, resolver
<1>3. call' = [call EXCEPT ![r] = c]
  BY <1>1, <1>2 DEF IInv
<1>4. SessionsInv' /\ now <= now' /\ \A x \in Tokens : Onward(x)
  BY <1>2, QuietSessions DEF IInv, SessionsInv
<1>5. \E v \in RequestType : /\ RequestInv(v) /\ v.pc = "done"
                             /\ requests' = [requests EXCEPT ![r] = v]
  <2>1. CASE CheckFault(r)
    <3>1. requests' = [requests EXCEPT ![r] = Responding(q, Rejected("InternalServerError"))]
      BY <1>1, <2>1 DEF CheckFault, Set
    <3> QED BY <1>2, <3>1, RejectedInv, Leaves
  <2>2. CASE CheckAnswer(r)
    <3>1. PICK v : v = Verdict(q, CheckFromPb(BackendCheck(q.obj, RelOf(q.obj, q.method), q.subject)))
      OBVIOUS
    <3>2. requests' = [requests EXCEPT ![r] = v]
      BY <1>1, <2>2, <3>1 DEF CheckAnswer, Set
    <3>3. q.token \in Tokens /\ owner[q.token] # None
      BY <1>2 DEF RequestInv, RequestType
    <3>4. owner[q.token].principal \in Names
      BY <3>3 DEF IInv, SessionsInv
    <3>5. v \in RequestType /\ RequestInv(v)
      BY <1>2, <3>1, <3>4, VerdictInv
    <3>6. q.subject \in Names
      BY <1>2, <3>4 DEF RequestInv
    <3>7. v.pc = "done"
      BY <1>2, <3>1, <3>6, VerdictFollowsTable, Leaves
    <3> QED BY <3>2, <3>5, <3>7
  <2> QED BY <2>1, <2>2
<1>6. PICK v \in RequestType : RequestInv(v) /\ v.pc = "done" /\ requests' = [requests EXCEPT ![r] = v]
  BY <1>5
<1>7. CallInv(v, c)
  BY <1>2, <1>6 DEF CallInv
<1> QED BY <1>2, <1>3, <1>4, <1>6, <1>7, Moves

\* A usable cached session is that of the owner of a token that is not signed
\* out, and had not ended at the time it is usable at.
LEMMA UsableOpen ==
  ASSUME IInv, NEW q \in RequestType, NEW c \in CallType, RequestInv(q), CallInv(q, c),
         q.pc = "resolving", NEW s \in l1[q.token], Resolver!Usable(s, c.at)
  PROVE  s \in Cached /\ Tellable(q, s) /\ owner[q.token].principal \in Names
<1>1. q.token \in Tokens /\ owner[q.token] # None /\ owner[q.token] \in [principal : Names, expires : Times]
  BY DEF RequestInv, RequestType, IInv, SessionsInv
<1>2. s \in Cached /\ Honest(q.token, s)
  BY <1>1 DEF IInv, SessionsInv
<1>3. ASSUME s # None PROVE ~q.late
  <2>1. s \in [principal : Names, expires_at : Times] /\ s.expires_at <= owner[q.token].expires
    BY <1>2, <1>3 DEF Cached, Honest
  <2>2. s.expires_at > c.at
    BY <1>3 DEF Resolver!Usable
  <2>3. s.expires_at \in Int /\ owner[q.token].expires \in Int /\ c.at \in Int
    BY <1>1, <2>1, BackendAssumption DEF CallType, Times
  <2>4. ~(owner[q.token].expires <= c.at)
    BY <2>1, <2>2, <2>3
  <2>5. signout[q.token] # "done"
    BY <1>1, <1>3 DEF IInv, SessionsInv
  <2> QED BY <2>4, <2>5 DEF CallInv
<1> QED BY <1>1, <1>2, <1>3 DEF Tellable, Honest

\* resolve() returns a result.
LEMMA ReturnedCall ==
  ASSUME IInv, NEW r \in Requests, NEW result \in Results, Resolver!Return(r, result)
  PROVE  \E c \in CallType : c.stage = "done" /\ c.result = result /\ call' = [call EXCEPT ![r] = c]
<1>1. PICK d : d = call[r]
  OBVIOUS
<1>2. d \in CallType
  BY <1>1 DEF IInv
<1>3. PICK c : c = [d EXCEPT !.stage = "done", !.stale = None, !.result = result]
  OBVIOUS
<1>4. c.stage = "done" /\ c.result = result
  BY <1>2, <1>3 DEF CallType
<1>5. c \in CallType
  BY <1>2, <1>3 DEF CallType, Cached
<1>6. call' = [call EXCEPT ![r] = c]
  BY <1>1, <1>3 DEF Resolver!Return
<1> QED BY <1>4, <1>5, <1>6

LEMMA ReturnStep ==
  ASSUME IInv, NEW r \in Requests, ResolveReturns(r), UNCHANGED signout
  PROVE  IInv'
<1>1. PICK q, c : q = requests[r] /\ c = call[r]
  OBVIOUS
<1>2. /\ q \in RequestType /\ RequestInv(q) /\ q.pc = "resolving" /\ c \in CallType /\ CallInv(q, c)
      /\ UNCHANGED <<backend, signout>>
      /\ Resolver!Resume(r) \/ \E s \in l1[q.token] : Resolver!Hit(r, s)
      /\ requests' = [requests EXCEPT ![r] = Resolved(q, call'[r].result)]
  BY <1>1 DEF IInv, ResolveReturns, Set
<1>3. q.token \in Owned /\ owner[q.token].principal \in Names /\ c.hash = q.token
  <2>1. q.token \in Tokens /\ owner[q.token] # None
    BY <1>2 DEF RequestInv, RequestType
  <2> QED BY <1>2, <2>1 DEF CallInv, Owned, IInv, SessionsInv
<1>4. \E result \in Results : /\ Resolver!Return(r, result)
                              /\ result.kind = "found" => Tellable(q, result.outcome)
                              /\ UNCHANGED <<l1, flight>> /\ due' \subseteq Owned
  <2>1. CASE Resolver!Resume(r)
    <3>1. c.stage = "woken" /\ Resolver!Return(r, Resolver!Covered(c)) /\ UNCHANGED <<l1, flight, due>>
      BY <1>1, <2>1 DEF Resolver!Resume
    <3>2. due' \subseteq Owned
      BY <3>1 DEF IInv, SessionsInv
    <3>3. CASE Resolver!Covered(c) = c.result
      BY <1>2, <3>1, <3>2, <3>3 DEF CallInv
    <3>4. CASE c.stale # None /\ Resolver!Covered(c) = Resolver!Found(c.stale)
      <4>1. Tellable(q, c.stale) /\ c.stale \in Cached
        BY <1>2, <3>4 DEF CallInv, CallType
      <4>2. Resolver!Found(c.stale) \in Results /\ Resolver!Found(c.stale).outcome = c.stale
        BY <4>1 DEF Resolver!Found, Results
      <4> QED BY <3>1, <3>2, <3>4, <4>1, <4>2
    <3> QED BY <3>3, <3>4 DEF Resolver!Covered
  <2>2. ASSUME NEW s \in l1[q.token], Resolver!Hit(r, s) PROVE <1>4
    <3>1. /\ Resolver!Usable(s, c.at) /\ Resolver!Return(r, Resolver!Found(s))
          /\ due' = due \/ due' = due \cup {c.hash}
          /\ UNCHANGED <<l1, flight>>
      BY <1>1, <2>2 DEF Resolver!Hit
    <3>2. due' \subseteq Owned
      BY <1>3, <3>1 DEF IInv, SessionsInv
    <3>3. Tellable(q, s) /\ s \in Cached
      BY <1>2, <3>1, UsableOpen
    <3>4. Resolver!Found(s) \in Results /\ Resolver!Found(s).outcome = s
      BY <3>3 DEF Resolver!Found, Results
    <3> QED BY <3>1, <3>2, <3>3, <3>4
  <2> QED BY <1>2, <2>1, <2>2
<1>5. PICK result \in Results : /\ Resolver!Return(r, result)
                                /\ result.kind = "found" => Tellable(q, result.outcome)
                                /\ UNCHANGED <<l1, flight>> /\ due' \subseteq Owned
  BY <1>4
<1>6. PICK d \in CallType : d.stage = "done" /\ d.result = result /\ call' = [call EXCEPT ![r] = d]
  BY <1>5, ReturnedCall
<1>7. PICK v : v = Resolved(q, result)
  OBVIOUS
<1>8. v \in RequestType /\ RequestInv(v) /\ v.pc # "resolving"
  BY <1>2, <1>3, <1>5, <1>7, ResolvedInv
<1>9. call'[r].result = result
  BY <1>6 DEF IInv
<1>10. requests' = [requests EXCEPT ![r] = v]
  BY <1>2, <1>7, <1>9
<1>11. CallInv(v, d)
  BY <1>6, <1>8 DEF CallInv
<1>12. SessionsInv' /\ now <= now' /\ \A x \in Tokens : Onward(x)
  BY <1>2, <1>5, QuietSessions
<1> QED BY <1>6, <1>8, <1>10, <1>11, <1>12, Moves

LEMMA DisconnectStep ==
  ASSUME IInv, NEW r \in Requests, Disconnect(r), UNCHANGED signout
  PROVE  IInv'
<1>1. /\ UNCHANGED <<backend, signout, l1, flight, due>>
      /\ requests' = [requests EXCEPT ![r] = NoRequest]
      /\ call' = [call EXCEPT ![r] = Resolver!IdleCall] \/ (UNCHANGED call /\ requests[r].pc = "checking")
  BY DEF Disconnect, Set, Resolver!Cancel, resolver
<1>2. SessionsInv' /\ now <= now' /\ \A x \in Tokens : Onward(x)
  BY <1>1, QuietSessions DEF IInv, SessionsInv
<1>3. NoRequest \in RequestType /\ NoRequest.pc = "idle" /\ NoRequest.token = None
      /\ NoRequest.late = FALSE
  BY DEF NoRequest, NewRequest, NoResponse, RequestType, Cached
<1>4. RequestInv(NoRequest)
  BY <1>3 DEF RequestInv, Admitted
<1>5. \E c \in CallType : /\ c.stage \notin {"open", "joining", "waiting", "woken"}
                          /\ call' = [call EXCEPT ![r] = c]
  <2>1. CASE call' = [call EXCEPT ![r] = Resolver!IdleCall]
    <3>1. Resolver!IdleCall \in CallType /\ Resolver!IdleCall.stage = "idle"
      BY BackendAssumption DEF Resolver!IdleCall, CallType, Cached
    <3> QED BY <2>1, <3>1
  <2>2. CASE UNCHANGED call /\ requests[r].pc = "checking"
    BY <2>2 DEF IInv, CallInv
  <2> QED BY <1>1, <2>1, <2>2
<1>6. PICK c \in CallType : /\ c.stage \notin {"open", "joining", "waiting", "woken"}
                            /\ call' = [call EXCEPT ![r] = c]
  BY <1>5
<1>7. CallInv(NoRequest, c)
  BY <1>3, <1>6 DEF CallInv
<1> QED BY <1>1, <1>2, <1>3, <1>4, <1>6, <1>7, Moves

\* The parts of the resolver's work that its callers do not see.
LEMMA MissStep ==
  ASSUME IInv, NEW r \in Requests, Resolver!Miss(r), UNCHANGED <<backend, signout, requests>>
  PROVE  IInv'
<1>1. PICK q, c : q = requests[r] /\ c = call[r]
  OBVIOUS
<1>2. /\ q \in RequestType /\ RequestInv(q) /\ c \in CallType /\ CallInv(q, c)
      /\ requests' = [requests EXCEPT ![r] = q]
  BY <1>1 DEF IInv
<1>3. PICK s \in l1[c.hash] \cup {None} :
        /\ Resolver!Usable(s, c.at)
        /\ call' = [call EXCEPT ![r].stage = "joining", ![r].stale = s]
  BY <1>1 DEF Resolver!Miss
<1>4. c.stage = "open" /\ UNCHANGED <<l1, flight, due>>
  BY <1>1 DEF Resolver!Miss
<1>5. q.pc = "resolving" /\ c.hash = q.token
  BY <1>2, <1>4 DEF CallInv
<1>6. s \in Cached /\ (s # None => Tellable(q, s))
  <2>1. CASE s = None
    BY <2>1 DEF Cached
  <2>2. CASE s \in l1[q.token]
    BY <1>2, <1>3, <1>5, <2>2, UsableOpen
  <2> QED BY <1>3, <1>5, <2>1, <2>2
<1>7. PICK d : d = [c EXCEPT !.stage = "joining", !.stale = s]
  OBVIOUS
<1>8. d.stage = "joining" /\ d.hash = c.hash /\ d.at = c.at /\ d.stale = s /\ d \in CallType
  BY <1>2, <1>6, <1>7 DEF CallType
<1>9. call' = [call EXCEPT ![r] = d]
  BY <1>1, <1>3, <1>7
<1>10. CallInv(q, d)
  BY <1>2, <1>4, <1>5, <1>6, <1>8 DEF CallInv
<1>11. SessionsInv' /\ now <= now' /\ \A x \in Tokens : Onward(x)
  BY <1>4, QuietSessions DEF IInv, SessionsInv
<1> QED BY <1>2, <1>8, <1>9, <1>10, <1>11, Moves

LEMMA JoinStep ==
  ASSUME IInv, NEW r \in Requests, Resolver!Join(r), UNCHANGED <<backend, signout, requests>>
  PROVE  IInv'
<1>1. PICK q, c : q = requests[r] /\ c = call[r]
  OBVIOUS
<1>2. /\ q \in RequestType /\ RequestInv(q) /\ c \in CallType /\ CallInv(q, c)
      /\ requests' = [requests EXCEPT ![r] = q]
  BY <1>1 DEF IInv
<1>3. /\ c.stage = "joining" /\ Resolver!StartFill(c.hash) /\ UNCHANGED <<l1, due>>
      /\ call' = [call EXCEPT ![r].stage = "waiting"]
  BY <1>1 DEF Resolver!Join
<1>4. q.pc = "resolving" /\ c.hash = q.token
  BY <1>2, <1>3 DEF CallInv
<1>5. c.hash \in Owned
  BY <1>2, <1>4 DEF RequestInv, RequestType, Owned
<1>6. PICK d : d = [c EXCEPT !.stage = "waiting"]
  OBVIOUS
<1>7. d.stage = "waiting" /\ d.hash = c.hash /\ d.at = c.at /\ d.stale = c.stale /\ d \in CallType
  BY <1>2, <1>6 DEF CallType
<1>8. call' = [call EXCEPT ![r] = d]
  BY <1>1, <1>3, <1>6
<1>9. CallInv(q, d)
  BY <1>2, <1>3, <1>4, <1>7 DEF CallInv
<1>10. due' \subseteq Owned
  BY <1>3 DEF IInv, SessionsInv
<1>11. SessionsInv' /\ now <= now' /\ \A x \in Tokens : Onward(x)
  BY <1>3, <1>5, <1>10, FillSessions
<1> QED BY <1>2, <1>7, <1>8, <1>9, <1>11, Moves

LEMMA RefreshStep ==
  ASSUME IInv, NEW t \in Tokens, Resolver!Refresh(t), UNCHANGED <<backend, signout, requests>>
  PROVE  IInv'
<1>1. /\ t \in due /\ Resolver!StartFill(t) /\ due' \in {due, due \ {t}}
      /\ UNCHANGED <<l1, call>>
  BY DEF Resolver!Refresh
<1>2. t \in Owned /\ due' \subseteq Owned
  BY <1>1 DEF IInv, SessionsInv
<1>3. SessionsInv' /\ now <= now' /\ \A x \in Tokens : Onward(x)
  BY <1>1, <1>2, FillSessions
<1> QED BY <1>1, <1>3, Waits

\* What the session service says of a token is honest, and nothing is said of a
\* session that is over.
LEMMA FetchedHonest ==
  ASSUME IInv, NEW t \in Tokens, owner[t] # None,
         NEW s, s = SessionFromPb(BackendResolve(t), now)
  PROVE  s \in Cached /\ Honest(t, s) /\ (s # None => ~Over(t))
<1>1. now \in 0..MaxNow
  BY DEF IInv, SessionsInv
<1>2. CASE BackendResolve(t) = None
  BY <1>2 DEF SessionFromPb, Cached, Honest
<1>3. CASE BackendResolve(t) # None
  <2>1. PICK o : o = owner[t]
    OBVIOUS
  <2>2. sessions[t] = o /\ o.expires > now /\ BackendResolve(t) = o
    BY <1>3, <2>1 DEF BackendResolve, IInv, SessionsInv
  <2>3. o \in [principal : Names, expires : Times]
    BY <2>1 DEF IInv, SessionsInv
  <2>4. PICK e : s = [principal |-> o.principal, expires_at |-> e]
                 /\ e \in {o.expires * PerSecond, now}
    BY <1>3, <2>2 DEF SessionFromPb
  <2>5. e \in Times /\ e <= o.expires
    BY <1>1, <2>2, <2>3, <2>4, BackendAssumption DEF Times
  <2>6. s \in [principal : Names, expires_at : Times] /\ s.principal = o.principal
        /\ s.expires_at <= o.expires
    BY <2>3, <2>4, <2>5
  <2>7. s # None
    BY <2>6, BackendAssumption DEF Names, Times
  <2>8. signout[t] = "open"
    BY <1>3, <2>2 DEF IInv, SessionsInv, BackendResolve
  <2>9. ~Over(t)
    <3>1. o.expires \in Int /\ now \in Int
      BY <1>1, <2>3, BackendAssumption DEF Times
    <3> QED BY <2>1, <2>2, <2>8, <3>1 DEF Over
  <2> QED BY <2>1, <2>6, <2>7, <2>9 DEF Cached, Honest
<1> QED BY <1>2, <1>3

LEMMA FetchStep ==
  ASSUME IInv, NEW t \in Tokens, Resolver!Fetch(t), UNCHANGED <<backend, signout, requests>>
  PROVE  IInv'
<1>1. PICK s : s = SessionFromPb(BackendResolve(t), now)
  OBVIOUS
<1>2. /\ flight[t].stage = "asked" /\ UNCHANGED <<l1, due, call>>
      /\ flight' = [flight EXCEPT ![t] = Resolver!Fetched(s)]
  BY <1>1 DEF Resolver!Fetch
<1>3. owner[t] # None
  BY <1>2 DEF IInv, SessionsInv
<1>4. s \in Cached /\ Honest(t, s) /\ (s # None => ~Over(t))
  BY <1>1, <1>3, FetchedHonest
<1>5. /\ Resolver!Fetched(s) \in FillType
      /\ Resolver!Fetched(s).stage = "answered"
      /\ Resolver!Fetched(s).result \in [kind : {"found"}, outcome : Cached]
      /\ \A o : Resolver!Fetched(s).result = Resolver!Found(o) => o = s
  BY <1>4 DEF Resolver!Fetched, Resolver!Found, FillType, Results
<1>6. /\ flight' \in [Tokens -> FillType] /\ flight'[t] = Resolver!Fetched(s)
      /\ \A x \in Tokens : x # t => flight'[x] = flight[x]
  BY <1>2, <1>5 DEF IInv, SessionsInv
<1>7. ASSUME NEW x \in Tokens PROVE Brings(x)
  <2>1. CASE x = t
    BY <1>2, <1>3, <1>4, <1>5, <1>6, <2>1 DEF Brings, OnItsWay
  <2>2. CASE x # t
    BY <1>2, <1>6, <2>2 DEF Brings, OnItsWay, IInv, SessionsInv
  <2> QED BY <2>1, <2>2
<1>8. due' \subseteq Owned /\ l1' \in [Tokens -> SUBSET Cached]
  BY <1>2 DEF IInv, SessionsInv
<1>9. SessionsInv' /\ now <= now' /\ \A x \in Tokens : Onward(x)
  BY <1>6, <1>7, <1>8, ResolverSessions
<1> QED BY <1>2, <1>9, Waits

LEMMA LandStep ==
  ASSUME IInv, NEW t \in Tokens, Resolver!Land(t), UNCHANGED <<backend, signout, requests>>
  PROVE  IInv'
<1>1. /\ flight[t].stage = "answered" /\ UNCHANGED <<due, call>>
      /\ flight' = [flight EXCEPT ![t] = Resolver!Settled(flight[t].result)]
  BY DEF Resolver!Land, IInv, SessionsInv
<1>2. PICK kept \in SUBSET Tokens :
        l1' = [k \in Tokens |-> IF k \notin kept THEN {}
                                ELSE IF k = t THEN {flight[t].result.outcome} ELSE l1[k]]
  BY DEF Resolver!Land
<1>3. flight[t].result \in [kind : {"found"}, outcome : Cached] /\ owner[t] # None
  BY <1>1 DEF IInv, SessionsInv
<1>4. flight[t].result.outcome \in OnItsWay(t)
  <2>1. flight[t].result = Resolver!Found(flight[t].result.outcome)
    BY <1>3 DEF Resolver!Found
  <2> QED BY <1>1, <1>3, <2>1 DEF OnItsWay
<1>5. /\ Resolver!Settled(flight[t].result) \in FillType
      /\ Resolver!Settled(flight[t].result).stage = "settled"
      /\ Resolver!Settled(flight[t].result).result = flight[t].result
  BY <1>3 DEF Resolver!Settled, FillType, Results
<1>6. /\ flight' \in [Tokens -> FillType] /\ flight'[t] = Resolver!Settled(flight[t].result)
      /\ \A x \in Tokens : x # t => flight'[x] = flight[x]
  BY <1>1, <1>5 DEF IInv, SessionsInv
<1>7. /\ l1' \in [Tokens -> SUBSET Cached]
      /\ \A x \in Tokens : l1'[x] \subseteq l1[x] \cup OnItsWay(x)
  BY <1>2, <1>3, <1>4 DEF IInv, SessionsInv
<1>8. ASSUME NEW x \in Tokens PROVE Brings(x)
  <2>1. CASE x = t
    <3>1. OnItsWay(x)' \subseteq OnItsWay(x)
      BY <1>1, <1>5, <1>6, <2>1 DEF OnItsWay
    <3> QED BY <1>3, <1>5, <1>6, <1>7, <2>1, <3>1 DEF Brings, Results
  <2>2. CASE x # t
    BY <1>6, <1>7, <2>2 DEF Brings, OnItsWay, IInv, SessionsInv
  <2> QED BY <2>1, <2>2
<1>9. due' \subseteq Owned
  BY <1>1 DEF IInv, SessionsInv
<1>10. SessionsInv' /\ now <= now' /\ \A x \in Tokens : Onward(x)
  BY <1>6, <1>7, <1>8, <1>9, ResolverSessions
<1> QED BY <1>1, <1>10, Waits

LEMMA FailStep ==
  ASSUME IInv, NEW t \in Tokens, NEW kind \in FaultKinds, Resolver!Fail(t, kind),
         UNCHANGED <<backend, signout, requests>>
  PROVE  IInv'
<1>1. /\ flight[t].stage \in {"asked", "answered"} /\ UNCHANGED <<l1, due, call>>
      /\ flight' = [flight EXCEPT ![t] = Resolver!Settled(Resolver!Failed(kind))]
  BY DEF Resolver!Fail
<1>2. owner[t] # None
  BY <1>1 DEF IInv, SessionsInv
<1>3. kind \in {"transport", "backend"}
  BY DEF FaultKinds, ClassifyStatus
<1>4. PICK f : f = Resolver!Settled(Resolver!Failed(kind))
  OBVIOUS
<1>5. f \in FillType /\ f.stage = "settled" /\ f.result \in Results
      /\ \A o : f.result # Resolver!Found(o)
  BY <1>3, <1>4 DEF Resolver!Settled, Resolver!Failed, Resolver!Found, FillType, Results
<1>6. /\ flight' \in [Tokens -> FillType] /\ flight'[t] = f
      /\ \A x \in Tokens : x # t => flight'[x] = flight[x]
  BY <1>1, <1>4, <1>5 DEF IInv, SessionsInv
<1>7. ASSUME NEW x \in Tokens PROVE Brings(x)
  <2>1. CASE x = t
    <3>1. OnItsWay(x)' = {}
      BY <1>5, <1>6, <2>1 DEF OnItsWay
    <3> QED BY <1>1, <1>2, <1>5, <1>6, <2>1, <3>1 DEF Brings
  <2>2. CASE x # t
    BY <1>1, <1>6, <2>2 DEF Brings, OnItsWay, IInv, SessionsInv
  <2> QED BY <2>1, <2>2
<1>8. due' \subseteq Owned /\ l1' \in [Tokens -> SUBSET Cached]
  BY <1>1 DEF IInv, SessionsInv
<1>9. SessionsInv' /\ now <= now' /\ \A x \in Tokens : Onward(x)
  BY <1>6, <1>7, <1>8, ResolverSessions
<1> QED BY <1>1, <1>9, Waits

\* The entry of a token is gone.
LEMMA ForgetStep ==
  ASSUME IInv, NEW t \in Tokens, Resolver!Forget(t), UNCHANGED <<backend, signout, requests>>
  PROVE  IInv'
<1>1. UNCHANGED <<flight, due, call>> /\ l1' = [l1 EXCEPT ![t] = {}]
  BY DEF Resolver!Forget
<1>2. /\ flight' \in [Tokens -> FillType] /\ due' \subseteq Owned
      /\ l1' \in [Tokens -> SUBSET Cached] /\ \A x \in Tokens : l1'[x] \subseteq l1[x]
  BY <1>1 DEF IInv, SessionsInv
<1>3. \A x \in Tokens : OnItsWay(x)' = OnItsWay(x)
  BY <1>1 DEF OnItsWay
<1>4. \A x \in Tokens : Brings(x)
  BY <1>1, <1>2, <1>3 DEF Brings, IInv, SessionsInv
<1>5. SessionsInv' /\ now <= now' /\ \A x \in Tokens : Onward(x)
  BY <1>2, <1>4, ResolverSessions
<1> QED BY <1>1, <1>5, Waits

\* A fill ends: what it brought may be told to every request that waits for it.
LEMMA FinishStep ==
  ASSUME IInv, NEW t \in Tokens, Resolver!Finish(t), UNCHANGED <<backend, signout, requests>>
  PROVE  IInv'
<1>1. PICK result : result = flight[t].result
  OBVIOUS
<1>2. PICK g : g = [r \in Requests |->
                      IF call[r].stage = "waiting" /\ call[r].hash = t
                      THEN [call[r] EXCEPT !.stage = "woken", !.result = result] ELSE call[r]]
  OBVIOUS
<1>3. /\ flight[t].stage = "settled" /\ UNCHANGED <<l1, due>> /\ call' = g
      /\ flight' = [flight EXCEPT ![t] = Resolver!NoFill]
  BY <1>1, <1>2 DEF Resolver!Finish
<1>4. result \in Results
  BY <1>1, <1>3 DEF IInv, SessionsInv
<1>5. ASSUME NEW r \in Requests
      PROVE  g[r] \in CallType /\ CallInv(requests[r], g[r])
  <2>1. PICK q, c : q = requests[r] /\ c = call[r]
    OBVIOUS
  <2>2. q \in RequestType /\ RequestInv(q) /\ c \in CallType /\ CallInv(q, c)
    BY <2>1 DEF IInv
  <2>3. CASE ~(c.stage = "waiting" /\ c.hash = t)
    BY <1>2, <2>1, <2>2, <2>3
  <2>4. CASE c.stage = "waiting" /\ c.hash = t
    <3>1. PICK d : d = [c EXCEPT !.stage = "woken", !.result = result]
      OBVIOUS
    <3>2. g[r] = d
      BY <1>2, <2>1, <2>4, <3>1
    <3>3. d.stage = "woken" /\ d.hash = c.hash /\ d.at = c.at /\ d.stale = c.stale
          /\ d.result = result /\ d \in CallType
      BY <1>4, <2>2, <3>1 DEF CallType
    <3>4. q.pc = "resolving" /\ q.token = t
      BY <2>2, <2>4 DEF CallInv
    <3>5. ASSUME result.kind = "found" PROVE Tellable(q, result.outcome)
      <4>1. PICK s : s = result.outcome
        OBVIOUS
      <4>2. s \in Cached /\ result = Resolver!Found(s)
        BY <1>4, <3>5, <4>1 DEF Results, Resolver!Found
      <4>3. s \in OnItsWay(t)
        BY <1>1, <1>3, <4>2 DEF OnItsWay
      <4>4. Honest(t, s)
        BY <4>3 DEF IInv, SessionsInv
      <4>5. s # None => ~q.late
        BY <2>2, <3>4, <4>3 DEF RequestInv, Closed
      <4> QED BY <3>4, <4>1, <4>4, <4>5 DEF Honest, Tellable
    <3> QED BY <1>4, <2>1, <2>2, <2>4, <3>2, <3>3, <3>4, <3>5 DEF CallInv
  <2> QED BY <2>3, <2>4
<1>6. /\ flight' \in [Tokens -> FillType] /\ flight'[t] = Resolver!NoFill
      /\ \A x \in Tokens : x # t => flight'[x] = flight[x]
  <2>1. Resolver!NoFill \in FillType
    BY DEF Resolver!NoFill, FillType
  <2> QED BY <1>3, <2>1 DEF IInv, SessionsInv
<1>7. ASSUME NEW x \in Tokens PROVE Brings(x)
  <2>1. CASE x = t
    BY <1>3, <1>6, <2>1 DEF Brings, OnItsWay, Resolver!NoFill
  <2>2. CASE x # t
    BY <1>3, <1>6, <2>2 DEF Brings, OnItsWay, IInv, SessionsInv
  <2> QED BY <2>1, <2>2
<1>8. due' \subseteq Owned /\ l1' \in [Tokens -> SUBSET Cached]
  BY <1>3 DEF IInv, SessionsInv
<1>9. SessionsInv' /\ now <= now' /\ \A x \in Tokens : Onward(x)
  BY <1>6, <1>7, <1>8, ResolverSessions
<1>10. PICK f : f = requests
  OBVIOUS
<1>11. requests' = [r \in Requests |-> f[r]] /\ call' = [r \in Requests |-> g[r]]
  BY <1>2, <1>3, <1>10 DEF IInv
<1>12. \A r \in Requests : /\ f[r] \in RequestType /\ RequestInv(f[r])
                           /\ g[r] \in CallType /\ CallInv(f[r], g[r])
  BY <1>5, <1>10 DEF IInv
<1> QED BY <1>9, <1>11, <1>12, Advance

------------------------------------------------------------------------------
LEMMA InitIInv == Init => IInv
<1> SUFFICES ASSUME Init PROVE IInv
  OBVIOUS
<1>1. /\ \A t \in Tokens : /\ sessions[t] = None /\ owner[t] = None /\ l1[t] = {}
                           /\ flight[t] = Resolver!NoFill /\ signout[t] = "open"
      /\ due = {} /\ now \in 0..MaxNow /\ l1 \in [Tokens -> SUBSET Cached]
      /\ requests = [r \in Requests |-> NoRequest]
      /\ call = [r \in Requests |-> Resolver!IdleCall]
  BY BackendAssumption DEF Init, ExtractorsInit, BackendInit, Resolver!Init
<1>2. SessionsInv
  <2>1. Resolver!NoFill \in FillType /\ Resolver!NoFill.stage = "idle"
    BY DEF Resolver!NoFill, FillType
  <2>2. flight \in [Tokens -> FillType]
    BY <2>1 DEF Init, ExtractorsInit, Resolver!Init
  <2>3. \A t \in Tokens : OnItsWay(t) = {}
    BY <1>1, <2>1 DEF OnItsWay
  <2>4. /\ owner \in [Tokens -> {None} \cup [principal : Names, expires : Times]]
        /\ sessions \in [Tokens -> {None} \cup [principal : Names, expires : Times]]
        /\ signout \in [Tokens -> {"open", "removed", "raced", "done"}]
    BY DEF Init, ExtractorsInit, BackendInit
  <2> QED BY <1>1, <2>1, <2>2, <2>3, <2>4 DEF SessionsInv
<1>3. NoRequest \in RequestType /\ NoRequest.pc = "idle" /\ NoRequest.token = None
      /\ NoRequest.late = FALSE
  BY DEF NoRequest, NewRequest, NoResponse, RequestType, Cached
<1>4. Resolver!IdleCall \in CallType /\ Resolver!IdleCall.stage = "idle"
  BY BackendAssumption DEF Resolver!IdleCall, CallType, Cached
<1>5. RequestInv(NoRequest) /\ CallInv(NoRequest, Resolver!IdleCall)
  BY <1>3, <1>4 DEF RequestInv, CallInv, Admitted
<1> QED BY <1>1, <1>2, <1>3, <1>4, <1>5 DEF IInv

LEMMA WorksStep ==
  ASSUME IInv, ResolverWorks, UNCHANGED signout
  PROVE  IInv'
<1>1. UNCHANGED <<backend, signout, requests>>
  BY DEF ResolverWorks
<1> QED BY <1>1, MissStep, JoinStep, RefreshStep, FetchStep, LandStep, FinishStep, ForgetStep,
           FailStep DEF ResolverWorks

LEMMA NextIInv == IInv /\ [Next]_vars => IInv'
<1> SUFFICES ASSUME IInv, [Next]_vars PROVE IInv'
  OBVIOUS
<1>1. ASSUME NEW p \in Names, SignIn(p) PROVE IInv'
  BY <1>1, SignInStep
<1>2. ASSUME NEW t \in Tokens, SignOutRemove(t) \/ SignOutEvict(t) PROVE IInv'
  BY <1>2, SignOutStep
<1>3. ASSUME NEW r \in Requests, Request(r) PROVE IInv'
  BY <1>3, RequestStep
<1>4. ASSUME Serve PROVE IInv'
  BY <1>4, ReturnStep, CheckStep, DisconnectStep, WorksStep DEF Serve, Extract
<1>5. ASSUME Clock PROVE IInv'
  BY <1>5, ClockStep
<1>6. CASE UNCHANGED vars
  <2>1. /\ UNCHANGED <<backend, signout, l1, flight, due, requests, call>>
    BY <1>6 DEF vars, web, resolver
  <2>2. SessionsInv' /\ now <= now' /\ \A x \in Tokens : Onward(x)
    BY <2>1, QuietSessions DEF IInv, SessionsInv
  <2> QED BY <2>1, <2>2, Waits
<1> QED BY <1>1, <1>2, <1>3, <1>4, <1>5, <1>6 DEF Next

THEOREM Invariance == Spec => []IInv
<1> QED BY InitIInv, NextIInv, PTL DEF Spec

\* A guarded handler acts for the owner of the request's own token, and only
\* where the documented table lets that owner (axum.rs:134, app.rs:187).
THEOREM AdmittedAllowed == Spec => []AdmittedWasAllowed
<1>1. IInv => AdmittedWasAllowed
  BY DEF IInv, RequestInv, AdmittedWasAllowed
<1> QED BY <1>1, Invariance, PTL

\* A check asks about the owner of the request's token (axum.rs:55-66).
THEOREM ChecksOwned == Spec => []ChecksAreOwned
<1>1. IInv => ChecksAreOwned
  BY DEF IInv, RequestInv, ChecksAreOwned
<1> QED BY <1>1, Invariance, PTL

\* Only requests without a live session are answered as such (axum.rs:71-79).
THEOREM UnauthenticatedTrue == Spec => []UnauthenticatedIsTrue
<1>1. IInv => UnauthenticatedIsTrue
  BY DEF IInv, RequestInv, UnauthenticatedIsTrue
<1> QED BY <1>1, Invariance, PTL

\* No handler runs for the owner of a token that was signed out, or whose
\* session had ended, when the request arrived (app.rs:173-185).
THEOREM LateRefused == Spec => []LateIsRefused
<1>1. IInv => LateIsRefused
  BY DEF IInv, RequestInv, LateIsRefused
<1> QED BY <1>1, Invariance, PTL
===============================================================================

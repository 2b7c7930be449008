--------------------------- MODULE CheckClientProofs ---------------------------
(***************************************************************************)
(* Proofs of what CheckClient promises, for any number of tasks, calls and *)
(* commits, and for all tuples.                                            *)
(***************************************************************************)
EXTENDS CheckClient, WireProofs

\* Everything stored is a tuple in its wire form.
Names == UNION {{p.ns, p.obj, p.rel} : p \in Storable}
Subjects == {p.user : p \in Storable}
Wires == PbTuples(Names, Subjects)

IsSubject(x) == x = None \/ x.kind = "id" \/ x = UserSet(x.ns, x.obj, x.rel)

IsWire(p) ==
  /\ p = [ns |-> p.ns, obj |-> p.obj, rel |-> p.rel, user |-> p.user, condition |-> p.condition]
  /\ p.condition \in Int \cup {None}
  /\ IsSubject(p.user)

LEMMA EncodedIsWire ==
  ASSUME NEW t, t.condition \in Int \cup {None}, IsSubject(t.sbj)
  PROVE  IsWire(TupleToPb(t))
<1>1. t.condition # None => Seconds(t.condition) \in Int
  BY Truncation
<1> QED BY <1>1 DEF TupleToPb, IsWire

LEMMA StorableIsWire == \A p \in Storable : IsWire(p)
<1> SUFFICES ASSUME NEW p \in Storable PROVE IsWire(p)
  OBVIOUS
<1>1. CASE p \in Initial \cup Foreign
  BY <1>1, ClientAssumption DEF IsWire, IsSubject
<1>2. ASSUME NEW t \in Written, p = TupleToPb(t) PROVE IsWire(p)
  BY <1>2, ClientAssumption, EncodedIsWire DEF IsSubject
<1>3. ASSUME NEW ns \in Namespaces, NEW obj \in Objects, p = TupleToPb(ParentPointer(ns, obj, ns, obj))
      PROVE  IsWire(p)
  <2>1. /\ ParentPointer(ns, obj, ns, obj).condition = None
        /\ ParentPointer(ns, obj, ns, obj).sbj = UserSet(ns, obj, "...")
    BY DEF ParentPointer, Tuple
  <2>2. IsSubject(UserSet(ns, obj, "..."))
    BY DEF IsSubject, UserSet
  <2> QED BY <1>3, <2>1, <2>2, EncodedIsWire
<1> QED BY <1>1, <1>2, <1>3 DEF Storable, Sendable

LEMMA StorableWires == Storable \subseteq Wires
<1> SUFFICES ASSUME NEW p \in Storable PROVE p \in Wires
  OBVIOUS
<1>1. p.ns \in Names /\ p.obj \in Names /\ p.rel \in Names /\ p.user \in Subjects
  <2>1. {p.ns, p.obj, p.rel} \in {{q.ns, q.obj, q.rel} : q \in Storable}
    OBVIOUS
  <2> QED BY <2>1 DEF Names, Subjects
<1> QED BY <1>1, StorableIsWire DEF IsWire, Wires, PbTuples

------------------------------------------------------------------------------
\* The inductive invariant.

\* What these changes would touch has not changed since s.
Untouched(us, s) ==
  (\A r \in 1..last : r > s => Touched(updates[r]) \cap Touched(us) = {})
    => Stored(us, s) = Stored(us, last)

\* The log: each snapshot is the one before it with its changes applied.
LogInv ==
  /\ last \in 0..MaxCommits
  /\ \A s \in 0..last : snapshot[s] \in SUBSET Storable
  /\ \A s \in 1..last : snapshot[s] = Applied(snapshot[s - 1], updates[s])
  /\ \A us : \A s \in 0..last : Untouched(us, s)

\* Zookies are of the past, and one of them is the newest.
ZookieInv ==
  /\ EmptyZookie \in zookies /\ zookies \subseteq 0..last
  /\ \E z \in zookies : \A y \in zookies : y <= z

\* Content is guarded by a zookie no older than any given before its check.
ContentInv == \A c \in content : c.floor \in 0..last /\ c.ts \in 0..last /\ c.floor <= c.ts

\* The request is the one for what the caller asked.
Requests(a, request) ==
  /\ a.zookie \in 0..last \cup {None}
  /\ \/ a.op \in {"check", "list", "expand"} /\ request = EvaluationRequest(a)
     \/ a.op = "content" /\ a.zookie = None /\ request = ContentRequest(a)
     \/ a.op = "read" /\ a.zookie # None /\ request = ReadRequest(a)
     \/ /\ a.op = "write" /\ request = WriteRequest(a)
        /\ a.subject.add \in SUBSET Sendable /\ a.subject.del \in SUBSET Sendable

Sent(c) == c.floor \in 0..last /\ Requests(c.asked, c.request)

\* A write is in the log, right after the precondition for all it touches.
Committed(a, reply) ==
  LET us == Changes(a.subject.add, a.subject.del)
  IN  /\ reply.ts \in 1..last
      /\ updates[reply.ts] \in Settled(us)
      /\ a.zookie # None => Stored(us, reply.ts - 1) = Stored(us, a.zookie)

\* A reply the service gave to the call.
Replied(c, reply) ==
  IF c.asked.op = "write" THEN Committed(c.asked, reply)
  ELSE \E s \in OrEmpty(c.asked.zookie)..last :
         /\ reply \in Replies(c.request, s)
         /\ c.asked.op = "content" => c.floor <= s

Shaped(c) ==
  c = [stage |-> c.stage, asked |-> c.asked, request |-> c.request, floor |-> c.floor,
       reply |-> c.reply, result |-> c.result]

CallInv(c) ==
  /\ c.stage = "sent" => Sent(c)
  /\ c.stage = "served" => Sent(c) /\ Replied(c, c.reply)
  /\ c.stage = "done" /\ c.request # None /\ c.result # Failed =>
       Sent(c) /\ \E reply : Replied(c, reply) /\ c.result = Result(c.asked.op, reply)

CallsInv ==
  /\ call = [t \in Tasks |-> call[t]]
  /\ \A t \in Tasks : Shaped(call[t]) /\ CallInv(call[t])

IInv == LogInv /\ ZookieInv /\ ContentInv /\ CallsInv

------------------------------------------------------------------------------
\* The log only grows, and its past stays.
Grows ==
  /\ last \in Nat /\ last' \in Nat /\ last <= last'
  /\ \A s \in 0..last : snapshot'[s] = snapshot[s] /\ updates'[s] = updates[s]

LEMMA RepliesStay ==
  ASSUME Grows, NEW s \in 0..last, NEW r
  PROVE  Replies(r, s)' = Replies(r, s)
<1>1. snapshot'[s] = snapshot[s]
  BY DEF Grows
<1>2. \A q : Holds(q, s)' <=> Holds(q, s)
  BY <1>1 DEF Holds
<1>3. \A q : Listed(q, s)' = Listed(q, s) /\ Expanded(q, s)' = Expanded(q, s)
  BY <1>2 DEF Listed, Expanded
<1>4. \A q : Opaque(q, s)' = Opaque(q, s) /\ Selected(q, s)' = Selected(q, s)
  BY <1>1 DEF Opaque, Selected
<1>5. Holds(r.subject, s)' = Holds(r.subject, s)
  BY <1>1 DEF Holds
<1> QED BY <1>3, <1>4, <1>5, Zenon DEF Replies

LEMMA StoredStays ==
  ASSUME Grows, NEW s \in 0..last, NEW us
  PROVE  Stored(us, s)' = Stored(us, s)
BY DEF Grows, Stored, Touched

LEMMA SentStays ==
  ASSUME Grows, NEW c, Sent(c)
  PROVE  Sent(c)'
BY DEF Grows, Sent, Requests

LEMMA RepliedStays ==
  ASSUME Grows, NEW c, Sent(c), NEW reply, Replied(c, reply)
  PROVE  Replied(c, reply)'
<1>1. CASE c.asked.op = "write"
  <2> PICK us : us = Changes(c.asked.subject.add, c.asked.subject.del)
    OBVIOUS
  <2>1. /\ reply.ts \in 1..last /\ updates[reply.ts] \in Settled(us)
        /\ c.asked.zookie # None => Stored(us, reply.ts - 1) = Stored(us, c.asked.zookie)
    BY <1>1 DEF Replied, Committed
  <2>2. reply.ts \in 1..last' /\ updates'[reply.ts] \in Settled(us)
    BY <2>1 DEF Grows
  <2>3. ASSUME c.asked.zookie # None
        PROVE  Stored(us, reply.ts - 1)' = Stored(us, c.asked.zookie)'
    <3>1. reply.ts - 1 \in 0..last /\ c.asked.zookie \in 0..last
      BY <2>1, <2>3 DEF Grows, Sent, Requests
    <3> QED BY <2>1, <2>3, <3>1, StoredStays
  <2> QED BY <1>1, <2>2, <2>3 DEF Replied, Committed
<1>2. CASE c.asked.op # "write"
  <2>1. PICK s \in OrEmpty(c.asked.zookie)..last :
          reply \in Replies(c.request, s) /\ (c.asked.op = "content" => c.floor <= s)
    BY <1>2 DEF Replied
  <2>2. OrEmpty(c.asked.zookie) \in 0..last
    BY DEF Sent, Requests, OrEmpty, EmptyZookie, Grows
  <2>3. s \in 0..last /\ s \in OrEmpty(c.asked.zookie)..last'
    BY <2>1, <2>2 DEF Grows
  <2>4. reply \in Replies(c.request, s)'
    BY <2>1, <2>3, RepliesStay
  <2> QED BY <1>2, <2>1, <2>3, <2>4 DEF Replied
<1> QED BY <1>1, <1>2

LEMMA CallStays ==
  ASSUME Grows, NEW c, CallInv(c)
  PROVE  CallInv(c)'
BY SentStays, RepliedStays DEF CallInv

------------------------------------------------------------------------------
LEMMA InitInv == Init => IInv
<1> SUFFICES ASSUME Init PROVE IInv
  OBVIOUS
<1>1. last = 0 /\ snapshot[0] = Initial /\ zookies = {0} /\ content = {}
  BY DEF Init, ServiceInit, EmptyZookie
<1>2. LogInv
  <2>1. last \in 0..MaxCommits /\ 0..last = {0} /\ 1..last = {}
    BY <1>1, CommitAssumption
  <2>2. \A us : \A s \in 0..last : Untouched(us, s)
    BY <1>1, <2>1 DEF Untouched
  <2> QED BY <1>1, <2>1, <2>2 DEF LogInv, Storable
<1>3. ZookieInv /\ ContentInv
  BY <1>1 DEF ZookieInv, ContentInv, EmptyZookie
<1>4. CallsInv
  <2>1. call = [t \in Tasks |-> NoCall]
    BY DEF Init
  <2>2. \A t \in Tasks : call[t] = NoCall
    BY <2>1
  <2>3. Shaped(NoCall) /\ CallInv(NoCall)
    BY DEF Shaped, CallInv, NoCall, NewCall
  <2> QED BY <2>1, <2>2, <2>3 DEF CallsInv
<1> QED BY <1>2, <1>3, <1>4 DEF IInv

\* A step of one task's call.
LEMMA OneCall ==
  ASSUME CallsInv, Grows, NEW t \in Tasks, NEW d, Shaped(d), CallInv(d)',
         call' = [call EXCEPT ![t] = d]
  PROVE  CallsInv'
<1>1. call' = [u \in Tasks |-> IF u = t THEN d ELSE call[u]]
  BY DEF CallsInv
<1>2. \A u \in Tasks : call'[u] = IF u = t THEN d ELSE call[u]
  BY <1>1
<1> SUFFICES ASSUME NEW u \in Tasks PROVE Shaped(call[u])' /\ CallInv(call[u])'
  BY <1>1, <1>2 DEF CallsInv
<1> PICK c : c = call'[u]
  OBVIOUS
<1>3. Shaped(c) /\ CallInv(c)'
  BY <1>2, CallStays DEF CallsInv
<1> QED BY <1>3 DEF Shaped, CallInv

LEMMA ServiceStays ==
  ASSUME LogInv, UNCHANGED service
  PROVE  LogInv' /\ Grows
<1>1. UNCHANGED <<last, snapshot, updates>>
  BY DEF service
<1>2. Grows
  BY <1>1, CommitAssumption DEF LogInv, Grows
<1> QED BY <1>1, <1>2 DEF LogInv, Untouched, Stored

LEMMA NewestIs ==
  ASSUME ZookieInv
  PROVE  Newest \in zookies /\ \A y \in zookies : y <= Newest
BY DEF ZookieInv, Newest

LEMMA SendInv ==
  ASSUME IInv, NEW t \in Tasks, NEW a, NEW request, Send(t, a, request), Requests(a, request)
  PROVE  IInv'
<1> USE DEF IInv
<1> PICK floor : floor = Newest
  OBVIOUS
<1> PICK d : d = NewCall("sent", a, request, floor, None)
  OBVIOUS
<1>1. UNCHANGED <<service, zookies, content>> /\ call' = [call EXCEPT ![t] = d]
  BY DEF Send
<1>2. LogInv' /\ Grows /\ UNCHANGED <<last, snapshot, updates>>
  BY <1>1, ServiceStays DEF service
<1>3. ZookieInv' /\ ContentInv'
  BY <1>1, <1>2 DEF ZookieInv, ContentInv
<1>4. floor \in 0..last
  BY NewestIs DEF ZookieInv
<1>5. CallInv(d)'
  BY <1>2, <1>4 DEF CallInv, Sent, Requests, NewCall
<1>6. CallsInv'
  BY <1>1, <1>2, <1>5, OneCall DEF Shaped, NewCall
<1> QED BY <1>2, <1>3, <1>6

LEMMA LocalInv ==
  ASSUME IInv, NEW t \in Tasks, NEW a, NEW result, AnswerLocally(t, a, result)
  PROVE  IInv'
<1> USE DEF IInv
<1> PICK d : d = NewCall("done", a, None, 0, result)
  OBVIOUS
<1>1. UNCHANGED <<service, zookies, content>> /\ call' = [call EXCEPT ![t] = d]
  BY DEF AnswerLocally
<1>2. LogInv' /\ Grows /\ UNCHANGED <<last, snapshot, updates>>
  BY <1>1, ServiceStays DEF service
<1>3. ZookieInv' /\ ContentInv'
  BY <1>1, <1>2 DEF ZookieInv, ContentInv
<1>4. CallInv(d)'
  BY DEF CallInv, NewCall
<1>5. CallsInv'
  BY <1>1, <1>2, <1>4, OneCall DEF Shaped, NewCall
<1> QED BY <1>2, <1>3, <1>5

\* The caller's step: it asks, reads or writes.
LEMMA EvaluationInv ==
  ASSUME IInv, NEW t \in Tasks, NEW op \in {"check", "list", "expand"}, NEW q,
         NEW z \in zookies \cup {None},
         Send(t, Asks(op, q, z), EvaluationRequest(Asks(op, q, z)))
  PROVE  IInv'
<1>1. z \in 0..last \cup {None}
  BY DEF IInv, ZookieInv
<1>2. Requests(Asks(op, q, z), EvaluationRequest(Asks(op, q, z)))
  BY <1>1 DEF Requests, Asks
<1> QED BY <1>2, SendInv

LEMMA AskInv == ASSUME IInv, NEW t \in Tasks, Ask(t) PROVE IInv'
<1> PICK ns \in Namespaces, obj \in Objects, z \in zookies \cup {None} :
      \/ \E rel \in Rels, user \in Users :
           Check(t, ns, obj, rel, user, z) \/ List(t, ns, rel, user, z)
      \/ \E user \in Users : CheckShortCircuit(t, ns, obj, user, z)
      \/ \E rel \in Rels \cup {"parent"} : Expand(t, ns, obj, rel, z)
      \/ \E rel \in Rels, user \in Users : ContentChangeCheck(t, ns, obj, rel, user)
  BY DEF Ask
<1>1. ASSUME NEW rel \in Rels, NEW user \in Users,
             Check(t, ns, obj, rel, user, z) \/ List(t, ns, rel, user, z)
      PROVE  IInv'
  BY <1>1, EvaluationInv DEF Check, List
<1>2. ASSUME NEW user \in Users, CheckShortCircuit(t, ns, obj, user, z) PROVE IInv'
  BY <1>2, LocalInv DEF CheckShortCircuit
<1>3. ASSUME NEW rel, Expand(t, ns, obj, rel, z) PROVE IInv'
  BY <1>3, EvaluationInv DEF Expand
<1>4. ASSUME NEW rel \in Rels, NEW user \in Users, ContentChangeCheck(t, ns, obj, rel, user)
      PROVE  IInv'
  <2> PICK a : a = Asks("content", Question(ns, obj, rel, user), None)
    OBVIOUS
  <2>1. Requests(a, ContentRequest(a))
    BY DEF Requests, Asks
  <2> QED BY <1>4, <2>1, SendInv DEF ContentChangeCheck
<1> QED BY <1>1, <1>2, <1>3, <1>4

LEMMA ReadWithInv ==
  ASSUME IInv, NEW t \in Tasks, NEW z \in zookies, NEW filters, ReadWithTimestamp(t, z, filters)
  PROVE  IInv'
<1> PICK a : a = Asks("read", filters, z)
  OBVIOUS
<1>1. z \in 0..last /\ z # None
  BY WireAssumption DEF IInv, ZookieInv
<1>2. Requests(a, ReadRequest(a))
  BY <1>1 DEF Requests, Asks
<1> QED BY <1>2, SendInv DEF ReadWithTimestamp

LEMMA ReadInv == ASSUME IInv, NEW t \in Tasks, Read(t) PROVE IInv'
<1>1. ASSUME NEW z \in zookies, ReadNothing(t, z) PROVE IInv'
  BY <1>1, LocalInv DEF ReadNothing
<1>2. ASSUME NEW filters, ReadFilters(t, filters) PROVE IInv'
  BY <1>2, ReadWithInv DEF ReadFilters, IInv, ZookieInv
<1>3. ASSUME NEW ns \in Namespaces, NEW obj \in Objects, NEW rel \in Rels, NEW user \in Users,
             \/ GetAll(t, ns, obj) \/ GetAllRel(t, ns, obj, rel)
             \/ ReadByUser(t, ns, user, None)
             \/ ReadByUserSet(t, ns, UserSet(ns, obj, "..."), None)
      PROVE  IInv'
  BY <1>2, <1>3 DEF GetAll, GetAllRel, ReadByUser, ReadByUserSet
<1> QED BY <1>1, <1>3, ReadWithInv DEF Read

LEMMA WriteInv ==
  ASSUME IInv, NEW t \in Tasks, NEW add \in SUBSET Sendable, NEW del \in SUBSET Sendable,
         NEW z \in zookies \cup {None}, Write(t, add, del, z)
  PROVE  IInv'
<1> PICK a : a = Asks("write", [add |-> add, del |-> del], z)
  OBVIOUS
<1>1. z \in 0..last \cup {None}
  BY DEF IInv, ZookieInv
<1>2. Requests(a, WriteRequest(a))
  BY <1>1 DEF Requests, Asks
<1> QED BY <1>2, SendInv DEF Write

LEMMA ChangeInv == ASSUME IInv, NEW t \in Tasks, Change(t) PROVE IInv'
<1>1. ASSUME NEW tuple \in Sendable, AddOne(t, tuple) \/ DeleteOne(t, tuple) PROVE IInv'
  BY <1>1, WriteInv DEF AddOne, DeleteOne
<1>2. ASSUME NEW w \in Writes,
             \/ \E z \in zookies : Write(t, w.add, w.del, z)
             \/ w.del = {} /\ AddMany(t, w.add)
             \/ \E tuple \in w.add : w = Writing({tuple}, {}) /\ AddOne(t, tuple)
             \/ \E tuple \in w.del : w = Writing({}, {tuple}) /\ DeleteOne(t, tuple)
      PROVE  IInv'
  <2>1. w.add \in SUBSET Sendable /\ w.del \in SUBSET Sendable
    BY DEF Sendable, Written
  <2>2. ASSUME NEW z \in zookies, Write(t, w.add, w.del, z) PROVE IInv'
    BY <2>1, <2>2, WriteInv
  <2>3. CASE AddMany(t, w.add)
    BY <2>1, <2>3, WriteInv DEF AddMany
  <2>4. ASSUME NEW tuple \in w.add \cup w.del, AddOne(t, tuple) \/ DeleteOne(t, tuple) PROVE IInv'
    BY <1>1, <2>1, <2>4
  <2> QED BY <1>2, <2>2, <2>3, <2>4
<1>3. ASSUME NEW ns \in Namespaces, NEW obj \in Objects, AddParent(t, ns, obj, ns, obj)
      PROVE  IInv'
  BY <1>1, <1>3 DEF AddParent, Sendable
<1> QED BY <1>2, <1>3 DEF Change

------------------------------------------------------------------------------
\* A commit, by a task or by another client.
LEMMA AppliedOutside ==
  ASSUME NEW X, NEW us, NEW vs, Touched(us) \cap Touched(vs) = {}
  PROVE  \A p : <<p.ns, p.obj>> \in Touched(vs) => (p \in Applied(X, us) <=> p \in X)
<1> SUFFICES ASSUME NEW p, <<p.ns, p.obj>> \in Touched(vs)
             PROVE  p \in Applied(X, us) <=> p \in X
  OBVIOUS
<1>1. \A u \in us : u.tuple # p
  BY DEF Touched
<1> QED BY <1>1 DEF Applied

LEMMA CommitInv ==
  ASSUME LogInv, NEW us, Commit(us), \A u \in us : u.tuple \in Storable
  PROVE  LogInv' /\ Grows /\ last' = last + 1 /\ updates'[last + 1] = us
<1>1. last \in Nat /\ last' = last + 1 /\ last' \in 0..MaxCommits
  BY CommitAssumption DEF LogInv, Commit
<1>2. /\ \A s \in 0..last : snapshot'[s] = snapshot[s] /\ updates'[s] = updates[s]
      /\ snapshot'[last + 1] = Applied(snapshot[last], us) /\ updates'[last + 1] = us
  BY <1>1 DEF Commit
<1>3. Grows
  BY <1>1, <1>2 DEF Grows
<1>4. \A s \in 0..last' : snapshot'[s] \in SUBSET Storable
  <2>1. Applied(snapshot[last], us) \in SUBSET Storable
    BY <1>1 DEF LogInv, Applied
  <2> QED BY <1>1, <1>2, <2>1 DEF LogInv
<1>5. \A s \in 1..last' : snapshot'[s] = Applied(snapshot'[s - 1], updates'[s])
  <2> SUFFICES ASSUME NEW s \in 1..last' PROVE snapshot'[s] = Applied(snapshot'[s - 1], updates'[s])
    OBVIOUS
  <2>1. CASE s = last + 1
    BY <1>1, <1>2, <2>1
  <2>2. CASE s # last + 1
    <3>1. s \in 1..last /\ s \in 0..last /\ s - 1 \in 0..last
      BY <1>1, <2>2
    <3> QED BY <1>2, <3>1 DEF LogInv
  <2> QED BY <2>1, <2>2
<1>6. ASSUME NEW vs, NEW s \in 0..last' PROVE Untouched(vs, s)'
  <2>1. CASE s = last'
    BY <2>1 DEF Untouched
  <2>2. ASSUME s # last', \A r \in 1..last' : r > s => Touched(updates'[r]) \cap Touched(vs) = {}
        PROVE  Stored(vs, s)' = Stored(vs, last)'
    <3>1. s \in 0..last /\ last \in 0..last
      BY <1>1, <2>2
    <3>2. \A r \in 1..last : r > s => Touched(updates[r]) \cap Touched(vs) = {}
      <4> SUFFICES ASSUME NEW r \in 1..last, r > s PROVE Touched(updates[r]) \cap Touched(vs) = {}
        OBVIOUS
      <4>1. r \in 1..last' /\ updates'[r] = updates[r]
        BY <1>1, <1>2
      <4> QED BY <2>2, <4>1
    <3>3. Stored(vs, s) = Stored(vs, last)
      BY <3>1, <3>2 DEF LogInv, Untouched
    <3>4. Touched(us) \cap Touched(vs) = {}
      BY <1>1, <1>2, <2>2, <3>1
    <3>5. snapshot'[s] = snapshot[s] /\ snapshot'[last'] = Applied(snapshot[last], us)
      BY <1>1, <1>2, <3>1
    <3> PICK X, Y : X = snapshot[last] /\ Y = Applied(X, us)
      OBVIOUS
    <3>6. {p \in Y : <<p.ns, p.obj>> \in Touched(vs)} = {p \in X : <<p.ns, p.obj>> \in Touched(vs)}
      BY <3>4, AppliedOutside
    <3> QED BY <3>3, <3>5, <3>6 DEF Stored, Touched
  <2> QED BY <2>1, <2>2 DEF Untouched
<1> QED BY <1>1, <1>2, <1>3, <1>4, <1>5, <1>6 DEF LogInv

\* Steps that leave the zookies and the contents alone, as the log grows.
LEMMA HistoryStays ==
  ASSUME ZookieInv, ContentInv, Grows, UNCHANGED <<zookies, content>>
  PROVE  ZookieInv' /\ ContentInv'
<1>1. 0..last \subseteq 0..last'
  BY DEF Grows
<1> QED BY <1>1 DEF ZookieInv, ContentInv

LEMMA ForeignWriteInv == ASSUME IInv, ForeignWrite PROVE IInv'
<1> USE DEF IInv
<1>1. UNCHANGED <<call, zookies, content>>
  BY DEF ForeignWrite
<1>2. LogInv' /\ Grows
  BY CommitInv DEF ForeignWrite, Storable
<1>3. ZookieInv' /\ ContentInv'
  BY <1>1, <1>2, HistoryStays
<1>4. ASSUME NEW t \in Tasks PROVE Shaped(call[t])' /\ CallInv(call[t])'
  <2> PICK c : c = call[t]
    OBVIOUS
  <2>1. Shaped(c) /\ CallInv(c)'
    BY <1>2, CallStays DEF CallsInv
  <2> QED BY <1>1, <2>1 DEF Shaped, CallInv
<1>5. CallsInv'
  BY <1>1, <1>4 DEF CallsInv
<1> QED BY <1>2, <1>3, <1>5

LEMMA FailInv == ASSUME IInv, NEW t \in Tasks, Fail(t) PROVE IInv'
<1> USE DEF IInv
<1> PICK d : d = Advanced(call[t], "done", None, Failed)
  OBVIOUS
<1>1. UNCHANGED <<service, zookies, content>> /\ call' = [call EXCEPT ![t] = d]
  BY DEF Fail
<1>2. LogInv' /\ Grows
  BY <1>1, ServiceStays
<1>3. ZookieInv' /\ ContentInv'
  BY <1>1, <1>2, HistoryStays
<1>4. Shaped(d) /\ CallInv(d)'
  BY DEF Shaped, CallInv, Advanced
<1>5. CallsInv'
  BY <1>1, <1>2, <1>4, OneCall
<1> QED BY <1>2, <1>3, <1>5

\* A call that was served is one of the log's past.
LEMMA ServedInv ==
  ASSUME LogInv', Grows, NEW c, NEW reply, Sent(c)', Replied(c, reply)'
  PROVE  /\ Shaped(Advanced(c, "served", reply, None))
         /\ CallInv(Advanced(c, "served", reply, None))'
<1> PICK d : d = Advanced(c, "served", reply, None)
  OBVIOUS
<1>1. /\ d.stage = "served" /\ d.reply = reply /\ d.asked = c.asked
      /\ d.request = c.request /\ d.floor = c.floor
  BY DEF Advanced
<1>2. Shaped(d)
  BY DEF Shaped, Advanced
<1>3. Sent(d)' /\ Replied(d, d.reply)'
  BY <1>1 DEF Sent, Replied
<1> QED BY <1>1, <1>2, <1>3 DEF CallInv

LEMMA ServeInv == ASSUME IInv, NEW t \in Tasks, Serve(t) PROVE IInv'
<1> USE DEF IInv
<1> PICK c : c = call[t]
  OBVIOUS
<1>1. Sent(c) /\ c.request.op # "write"
  BY DEF CallsInv, CallInv, Serve
<1>2. PICK s, reply :
        /\ s \in Snapshots(c.request) /\ reply \in Replies(c.request, s)
        /\ call' = [call EXCEPT ![t] = Advanced(c, "served", reply, None)]
  BY DEF Serve
<1>3. UNCHANGED <<service, zookies, content>>
  BY DEF Serve
<1>4. LogInv' /\ Grows
  BY <1>3, ServiceStays
<1>5. ZookieInv' /\ ContentInv'
  BY <1>3, <1>4, HistoryStays
<1>6. c.asked.op # "write" /\ s \in OrEmpty(c.asked.zookie)..last /\ (c.asked.op = "content" => c.floor <= s)
  <2> PICK z, floor : z = c.asked.zookie /\ floor = c.floor
    OBVIOUS
  <2>1. z \in 0..last \cup {None} /\ floor \in 0..last /\ last \in Nat /\ None \notin 0..last
    BY <1>1, <1>4, WireAssumption DEF Sent, Requests, Grows
  <2>2. CASE c.asked.op \in {"check", "list", "expand"}
    <3>1. c.request.op = c.asked.op /\ c.request.ts = OrEmpty(z)
      BY <1>1, <2>2 DEF Sent, Requests, EvaluationRequest
    <3> QED BY <1>2, <2>1, <2>2, <3>1 DEF Snapshots, OrEmpty, EmptyZookie
  <2>3. CASE c.asked.op = "content"
    <3>1. c.request.op = "content" /\ z = None
      BY <1>1, <2>3 DEF Sent, Requests, ContentRequest
    <3> QED BY <1>2, <2>1, <2>3, <3>1 DEF Snapshots, OrEmpty, EmptyZookie
  <2>4. CASE c.asked.op = "read"
    <3>1. c.request.op = "read" /\ c.request.ts \in {z, None} /\ z # None
          /\ (c.request.ts = None => z = EmptyZookie)
      BY <1>1, <2>4 DEF Sent, Requests, ReadRequest
    <3> QED BY <1>2, <2>1, <2>4, <3>1 DEF Snapshots, OrEmpty, EmptyZookie
  <2>5. c.asked.op # "write"
    BY <1>1 DEF Sent, Requests, WriteRequest
  <2> QED BY <1>1, <2>2, <2>3, <2>4, <2>5 DEF Sent, Requests
<1>7. Replied(c, reply)
  BY <1>2, <1>6 DEF Replied
<1>8. Sent(c)' /\ Replied(c, reply)'
  BY <1>1, <1>4, <1>7, SentStays, RepliedStays
<1>9. CallsInv'
  BY <1>2, <1>4, <1>8, ServedInv, OneCall
<1> QED BY <1>4, <1>5, <1>9

LEMMA ServeWriteInv == ASSUME IInv, NEW t \in Tasks, ServeWrite(t) PROVE IInv'
<1> USE DEF IInv
<1> PICK c, us : c = call[t] /\ us = c.request.subject
  OBVIOUS
<1> PICK vs \in Settled(us) : Commit(vs)
  BY DEF ServeWrite
<1>1. Sent(c) /\ c.request.op = "write" /\ Current(c.request)
  BY DEF CallsInv, CallInv, ServeWrite
<1>2. c.asked.op = "write" /\ c.request = WriteRequest(c.asked)
      /\ c.asked.subject.add \in SUBSET Sendable /\ c.asked.subject.del \in SUBSET Sendable
  BY <1>1 DEF Sent, Requests, EvaluationRequest, ContentRequest, ReadRequest
<1>3. us = Changes(c.asked.subject.add, c.asked.subject.del) /\ c.request.ts = c.asked.zookie
  BY <1>2 DEF WriteRequest
<1>4. \A u \in vs : u.tuple \in Storable
  <2>1. \A u \in us : u.tuple \in Storable
    BY <1>2, <1>3 DEF Changes, Storable
  <2> QED BY <2>1 DEF Settled
<1>5. LogInv' /\ Grows /\ last' = last + 1 /\ updates'[last + 1] = vs
  BY <1>4, CommitInv
<1>6. UNCHANGED <<zookies, content>>
  BY DEF ServeWrite
<1>7. ZookieInv' /\ ContentInv'
  BY <1>5, <1>6, HistoryStays
<1> PICK k, reply : k = last /\ reply = [ts |-> k + 1]
  OBVIOUS
<1>8. Replied(c, reply)'
  <2>1. reply.ts = k + 1 /\ reply.ts - 1 = k /\ k \in Nat /\ k \in 0..last
    BY <1>5 DEF Grows
  <2>2. ASSUME c.asked.zookie # None PROVE Stored(us, k)' = Stored(us, c.asked.zookie)'
    <3>1. c.asked.zookie \in 0..last
      BY <1>1, <2>1, <2>2 DEF Sent, Requests
    <3>2. \A s \in 1..last : s > c.asked.zookie => Touched(updates[s]) \cap Touched(us) = {}
      BY <1>1, <1>3, <2>2 DEF Current
    <3>3. Stored(us, c.asked.zookie) = Stored(us, k)
      BY <3>1, <3>2 DEF LogInv, Untouched
    <3> QED BY <1>5, <2>1, <3>1, <3>3, StoredStays
  <2>3. reply.ts \in 1..last' /\ updates'[reply.ts] = vs
    BY <1>5, <2>1
  <2> QED BY <1>2, <1>3, <2>1, <2>2, <2>3 DEF Replied, Committed
<1>9. Sent(c)'
  BY <1>1, <1>5, SentStays
<1>10. call' = [call EXCEPT ![t] = Advanced(c, "served", reply, None)]
  BY DEF ServeWrite
<1>11. CallsInv'
  BY <1>5, <1>8, <1>9, <1>10, ServedInv, OneCall
<1> QED BY <1>5, <1>7, <1>11

\* A read's result: all of the reply or nothing of it.
LEMMA ReadResultIs ==
  ASSUME NEW tuples \in SUBSET Storable, NEW s \in 0..MaxCommits, NEW reply,
         reply = [tuples |-> tuples, ts |-> s]
  PROVE  IF \A p \in tuples : Decodable(p)
         THEN /\ ReadResult(reply) = [ts |-> s, tuples |-> ReadFromPb(tuples)]
              /\ ReadResult(reply) # InvalidResponse
         ELSE ReadResult(reply) = InvalidResponse
<1>1. CASE \A p \in tuples : Decodable(p)
  <2> PICK decoded : decoded = ReadFromPb(tuples)
    OBVIOUS
  <2>1. decoded = {TupleFromPb(p) : p \in tuples}
    BY <1>1 DEF ReadFromPb
  <2>2. decoded \in SUBSET Readable
    BY <1>1, <2>1 DEF Readable
  <2>3. decoded # InvalidResponse /\ [ts |-> s, tuples |-> decoded] # InvalidResponse
    BY <2>2, ClientAssumption
  <2>4. ReadResult(reply) = [ts |-> s, tuples |-> decoded]
    BY <2>3 DEF ReadResult
  <2> QED BY <1>1, <2>3, <2>4
<1>2. CASE ~ \A p \in tuples : Decodable(p)
  <2>1. ReadFromPb(tuples) = InvalidResponse
    BY <1>2 DEF ReadFromPb
  <2>2. reply.tuples = tuples
    OBVIOUS
  <2> QED BY <1>2, <2>1, <2>2 DEF ReadResult
<1> QED BY <1>1, <1>2

\* The replies the service gives, one operation at a time.
LEMMA RepliesAre ==
  ASSUME NEW r, NEW s, NEW reply \in Replies(r, s)
  PROVE  /\ r.op = "check" => (reply.ok <=> Holds(r.subject, s))
         /\ r.op = "content" => reply.ts = s
         /\ r.op = "list" => reply = [objs |-> Listed(r.subject, s), ts |-> s]
         /\ r.op = "expand" =>
              reply = [user_ids |-> Expanded(r.subject, s), ts |-> s,
                       usersets |-> {[ns |-> u.ns, obj |-> u.obj, rel |-> u.rel] :
                                       u \in Opaque(r.subject, s)}]
         /\ r.op = "read" => reply = [tuples |-> Selected(r.subject, s), ts |-> s]
<1> PICK held, listed, expanded, opaque, selected :
      /\ held = Holds(r.subject, s) /\ listed = Listed(r.subject, s)
      /\ expanded = Expanded(r.subject, s) /\ selected = Selected(r.subject, s)
      /\ opaque = {[ns |-> u.ns, obj |-> u.obj, rel |-> u.rel] : u \in Opaque(r.subject, s)}
  OBVIOUS
<1>1. r.op = "check" => reply \in [ok : {held}, principal : {r.subject.user, None}]
  BY DEF Replies
<1>2. r.op = "content" => reply \in [ok : {held}, ts : {s}]
  BY DEF Replies
<1>3. r.op = "list" => reply \in [objs : {listed}, ts : {s}]
  BY DEF Replies
<1>4. r.op = "expand" => reply \in [user_ids : {expanded}, ts : {s}, usersets : {opaque}]
  BY DEF Replies
<1>5. r.op = "read" => reply \in [tuples : {selected}, ts : {s}]
  BY DEF Replies
<1> QED BY <1>1, <1>2, <1>3, <1>4, <1>5

LEMMA RequestKeeps ==
  ASSUME NEW a, NEW request, Requests(a, request)
  PROVE  /\ a.op \in {"check", "list", "expand", "content", "read", "write"}
         /\ request.op = a.op
         /\ a.op # "write" => request.subject = a.subject
         /\ a.op = "read" => a.zookie # None
BY DEF Requests, EvaluationRequest, ContentRequest, ReadRequest, WriteRequest

\* The zookie of a result is the reply's.
LEMMA ResultZookie ==
  ASSUME LogInv, NEW c, NEW reply, Sent(c), Replied(c, reply), c.asked.op # "check",
         NEW result, result = Result(c.asked.op, reply),
         c.asked.op = "read" => result # InvalidResponse
  PROVE  /\ result.ts \in 0..last
         /\ c.asked.op = "content" => c.floor <= result.ts
<1>1. /\ c.asked.op \in {"list", "expand", "content", "read", "write"}
      /\ c.request.op = c.asked.op /\ last \in Nat
  BY RequestKeeps, CommitAssumption DEF Sent, LogInv
<1>2. CASE c.asked.op = "write"
  <2>1. result.ts = reply.ts /\ reply.ts \in 1..last
    BY <1>2 DEF Result, WriteResult, Replied, Committed
  <2> QED BY <1>1, <1>2, <2>1
<1>3. CASE c.asked.op # "write"
  <2>1. PICK s \in OrEmpty(c.asked.zookie)..last :
          reply \in Replies(c.request, s) /\ (c.asked.op = "content" => c.floor <= s)
    BY <1>3 DEF Replied
  <2>2. s \in 0..last /\ s \in 0..MaxCommits
    BY <1>1, CommitAssumption DEF Sent, Requests, OrEmpty, EmptyZookie, LogInv
  <2>3. CASE c.asked.op = "list"
    BY <1>1, <2>1, <2>2, <2>3, RepliesAre DEF Result, ListResult
  <2>4. CASE c.asked.op = "expand"
    BY <1>1, <2>1, <2>2, <2>4, RepliesAre DEF Result, ExpandResult
  <2>5. CASE c.asked.op = "content"
    BY <1>1, <2>1, <2>2, <2>5, RepliesAre DEF Result, ContentChangeCheckResult
  <2>6. CASE c.asked.op = "read"
    <3> PICK tuples : tuples = Selected(c.request.subject, s)
      OBVIOUS
    <3>1. reply = [tuples |-> tuples, ts |-> s]
      BY <1>1, <2>1, <2>6, RepliesAre
    <3>2. tuples \in SUBSET Storable
      BY <2>2 DEF LogInv, Selected
    <3>3. result = ReadResult(reply) /\ result # InvalidResponse
      BY <2>6 DEF Result
    <3>4. result = [ts |-> s, tuples |-> ReadFromPb(tuples)]
      BY <2>2, <3>1, <3>2, <3>3, ReadResultIs
    <3> QED BY <2>2, <2>6, <3>4
  <2> QED BY <1>1, <1>3, <2>3, <2>4, <2>5, <2>6
<1> QED BY <1>2, <1>3

LEMMA ReturnInv == ASSUME IInv, NEW t \in Tasks, Return(t) PROVE IInv'
<1> USE DEF IInv
<1> PICK c, op, result : c = call[t] /\ op = c.asked.op /\ result = Result(op, c.reply)
  OBVIOUS
<1> PICK d : d = Advanced(c, "done", None, result)
  OBVIOUS
<1>1. /\ c.stage = "served" /\ call' = [call EXCEPT ![t] = d]
      /\ zookies' = zookies \cup GivenZookies(op, result)
      /\ content' = IF op = "content" THEN content \cup {[ts |-> result.ts, floor |-> c.floor]}
                    ELSE content
      /\ UNCHANGED service
  BY DEF Return
<1>2. LogInv' /\ Grows /\ last' = last
  BY <1>1, ServiceStays DEF service
<1>3. Sent(c) /\ Replied(c, c.reply)
  BY <1>1 DEF CallsInv, CallInv
<1>4. GivenZookies(op, result) \subseteq 0..last
  BY <1>3, ResultZookie DEF GivenZookies
<1>5. ZookieInv'
  <2>1. CASE GivenZookies(op, result) = {}
    BY <1>1, <1>2, <2>1 DEF ZookieInv
  <2>2. CASE GivenZookies(op, result) # {}
    <3> PICK z : z = result.ts
      OBVIOUS
    <3>1. GivenZookies(op, result) = {z}
      BY <2>2 DEF GivenZookies
    <3>2. zookies' = zookies \cup {z} /\ z \in 0..last
      BY <1>1, <1>4, <3>1
    <3>3. PICK m \in zookies : \A y \in zookies : y <= m
      BY DEF ZookieInv
    <3>4. \E n \in zookies' : \A y \in zookies' : y <= n
      <4>1. zookies \subseteq Int /\ z \in Int
        BY <3>2 DEF ZookieInv
      <4>2. CASE z <= m
        BY <3>2, <3>3, <4>2
      <4>3. CASE m < z
        <5>1. \A y \in zookies' : y <= z
          BY <3>2, <3>3, <4>1, <4>3
        <5> QED BY <3>2, <5>1
      <4> QED BY <3>3, <4>1, <4>2, <4>3
    <3> QED BY <1>2, <3>2, <3>4 DEF ZookieInv
  <2> QED BY <2>1, <2>2
<1>6. ContentInv'
  <2>1. CASE op = "content"
    <3>1. result.ts \in 0..last /\ c.floor <= result.ts /\ c.floor \in 0..last
      BY <1>3, <2>1, ResultZookie DEF Sent
    <3> PICK e : e = [ts |-> result.ts, floor |-> c.floor]
      OBVIOUS
    <3>2. content' = content \cup {e} /\ e.ts = result.ts /\ e.floor = c.floor
      BY <1>1, <2>1
    <3> QED BY <1>2, <3>1, <3>2 DEF ContentInv
  <2>2. CASE op # "content"
    BY <1>1, <1>2, <2>2 DEF ContentInv
  <2> QED BY <2>1, <2>2
<1>7. Shaped(d) /\ CallInv(d)'
  <2>1. /\ d.stage = "done" /\ d.asked = c.asked /\ d.request = c.request
        /\ d.floor = c.floor /\ d.result = Result(d.asked.op, c.reply)
    BY DEF Advanced
  <2>2. Sent(c)' /\ Replied(c, c.reply)'
    BY <1>2, <1>3, SentStays, RepliedStays
  <2>3. Sent(d)' /\ Replied(d, c.reply)'
    BY <2>1, <2>2 DEF Sent, Replied
  <2>4. CallInv(d)'
    BY <2>1, <2>3 DEF CallInv
  <2>5. Shaped(d)
    BY DEF Shaped, Advanced
  <2> QED BY <2>4, <2>5
<1>8. CallsInv'
  BY <1>1, <1>2, <1>7, OneCall
<1> QED BY <1>2, <1>5, <1>6, <1>8

LEMMA StepInv == IInv /\ [Next]_vars => IInv'
<1> SUFFICES ASSUME IInv, [Next]_vars PROVE IInv'
  OBVIOUS
<1>1. ASSUME NEW t \in Tasks, Ask(t) \/ Read(t) \/ Change(t) PROVE IInv'
  BY <1>1, AskInv, ReadInv, ChangeInv
<1>2. ASSUME NEW t \in Tasks, Serve(t) \/ ServeWrite(t) PROVE IInv'
  BY <1>2, ServeInv, ServeWriteInv
<1>3. ASSUME NEW t \in Tasks, Fail(t) \/ Return(t) PROVE IInv'
  BY <1>3, FailInv, ReturnInv
<1>4. CASE ForeignWrite
  BY <1>4, ForeignWriteInv
<1>5. CASE UNCHANGED vars
  <2>1. UNCHANGED <<service, call, zookies, content>>
    BY <1>5 DEF vars
  <2>2. LogInv' /\ Grows
    BY <2>1, ServiceStays DEF IInv
  <2>3. ZookieInv' /\ ContentInv'
    BY <2>1, <2>2, HistoryStays DEF IInv
  <2>4. ASSUME NEW t \in Tasks PROVE Shaped(call[t])' /\ CallInv(call[t])'
    <3> PICK c : c = call[t]
      OBVIOUS
    <3>1. Shaped(c) /\ CallInv(c)'
      BY <2>2, CallStays DEF CallsInv, IInv
    <3> QED BY <2>1, <3>1 DEF Shaped, CallInv
  <2> QED BY <2>1, <2>2, <2>3, <2>4 DEF IInv, CallsInv
<1> QED BY <1>1, <1>2, <1>3, <1>4, <1>5 DEF Next

------------------------------------------------------------------------------
\* What the invariant says of the properties.
LEMMA AnsweredCall ==
  ASSUME IInv, NEW t \in Tasks, Answered(t)
  PROVE  Sent(call[t]) /\ \E reply : /\ Replied(call[t], reply)
                                    /\ call[t].result = Result(call[t].asked.op, reply)
BY DEF IInv, CallsInv, CallInv, Answered

\* Usersets survive the way over the wire.
LEMMA OpaqueDecoded ==
  ASSUME LogInv, NEW q, NEW s \in 0..last
  PROVE  {UserSet(u.ns, u.obj, u.rel) :
            u \in {[ns |-> v.ns, obj |-> v.obj, rel |-> v.rel] : v \in Opaque(q, s)}} = Opaque(q, s)
<1>1. ASSUME NEW v \in Opaque(q, s) PROVE v = UserSet(v.ns, v.obj, v.rel)
  <2>1. PICK p \in snapshot[s] : p.user = v /\ v # None /\ v.kind = "set"
    BY DEF Opaque
  <2> QED BY <2>1, StorableIsWire DEF LogInv, IsWire, IsSubject
<1> PICK X : X = Opaque(q, s)
  OBVIOUS
<1>2. \A v \in X : v = UserSet(v.ns, v.obj, v.rel)
  BY <1>1
<1>3. {UserSet(u.ns, u.obj, u.rel) : u \in {[ns |-> v.ns, obj |-> v.obj, rel |-> v.rel] : v \in X}}
        = {UserSet(v.ns, v.obj, v.rel) : v \in X}
  <2> DEFINE sent(v) == [ns |-> v.ns, obj |-> v.obj, rel |-> v.rel]
             got(u) == UserSet(u.ns, u.obj, u.rel)
  <2>1. \A v : got(sent(v)) = UserSet(v.ns, v.obj, v.rel)
    OBVIOUS
  <2> HIDE DEF sent, got
  <2>2. {got(u) : u \in {sent(v) : v \in X}} = {UserSet(v.ns, v.obj, v.rel) : v \in X}
    BY <2>1
  <2> QED BY <2>2 DEF sent, got
<1>4. {UserSet(v.ns, v.obj, v.rel) : v \in X} = X
  BY <1>2
<1> QED BY <1>3, <1>4

LEMMA CheckTrue ==
  ASSUME NEW q, NEW s, NEW reply, reply.ok <=> Holds(q, s)
  PROVE  /\ CheckFromPb(reply).kind = "ok" => Holds(q, s)
         /\ CheckFromPb(reply).kind \in {"forbidden", "unknown"} => ~Holds(q, s)
<1>1. CASE reply.principal # None /\ reply.ok
  <2>1. CheckFromPb(reply) = [kind |-> "ok", principal |-> reply.principal]
    BY <1>1, Zenon DEF CheckFromPb
  <2> QED BY <1>1, <2>1
<1>2. CASE reply.principal # None /\ ~reply.ok
  <2>1. CheckFromPb(reply) = [kind |-> "forbidden", principal |-> reply.principal]
    BY <1>2, Zenon DEF CheckFromPb
  <2> QED BY <1>2, <2>1
<1>3. CASE reply.principal = None /\ ~reply.ok
  <2>1. CheckFromPb(reply) = [kind |-> "unknown", principal |-> None]
    BY <1>3, Zenon DEF CheckFromPb
  <2> QED BY <1>3, <2>1
<1>4. CASE reply.principal = None /\ reply.ok
  <2>1. CheckFromPb(reply) = [kind |-> "malformed", principal |-> None]
    BY <1>4, Zenon DEF CheckFromPb
  <2> QED BY <1>4, <2>1
<1> QED BY <1>1, <1>2, <1>3, <1>4, Zenon

LEMMA InvReadYourWrites == IInv => ReadYourWrites
<1> SUFFICES ASSUME IInv, NEW t \in Tasks, Answered(t)
             PROVE  \E s \in OrEmpty(call[t].asked.zookie)..last : TrueAt(call[t], s)
  BY DEF ReadYourWrites
<1> PICK c, a, q : c = call[t] /\ a = c.asked /\ q = a.subject
  OBVIOUS
<1>1. PICK reply : Sent(c) /\ Replied(c, reply) /\ c.result = Result(a.op, reply)
  BY AnsweredCall
<1>2. /\ a.op \in {"check", "list", "expand", "content", "read", "write"}
      /\ c.request.op = a.op /\ (a.op # "write" => c.request.subject = q)
      /\ last \in Nat /\ OrEmpty(a.zookie) \in 0..last
  BY <1>1, RequestKeeps, CommitAssumption DEF IInv, LogInv, Sent, Requests, OrEmpty, EmptyZookie
<1>3. CASE a.op = "write"
  <2>1. TrueAt(c, last)
    BY <1>3, Zenon DEF TrueAt
  <2>2. last \in OrEmpty(a.zookie)..last
    BY <1>2
  <2> QED BY <2>1, <2>2
<1>4. CASE a.op # "write"
  <2>1. PICK s \in OrEmpty(a.zookie)..last : reply \in Replies(c.request, s)
    BY <1>1, <1>4 DEF Replied
  <2>2. s \in 0..last /\ s \in 0..MaxCommits
    BY <1>2, CommitAssumption DEF IInv, LogInv
  <2>3. TrueAt(c, s)
    <3>1. CASE a.op = "check"
      <4>1. reply.ok <=> Holds(q, s)
        BY <1>2, <2>1, <3>1, RepliesAre
      <4>2. c.result = CheckFromPb(reply)
        BY <1>1, <3>1 DEF Result
      <4>3. /\ c.result.kind = "ok" => Holds(q, s)
            /\ c.result.kind \in {"forbidden", "unknown"} => ~Holds(q, s)
        BY <4>1, <4>2, CheckTrue
      <4> QED BY <3>1, <4>3, Zenon DEF TrueAt
    <3>2. CASE a.op = "list"
      <4>1. c.result = ListResult(reply)
        BY <1>1, <3>2 DEF Result
      <4>2. reply = [objs |-> Listed(q, s), ts |-> s]
        BY <1>2, <2>1, <3>2, RepliesAre
      <4>3. c.result = [objs |-> Listed(q, s), ts |-> s]
        BY <4>1, <4>2 DEF ListResult
      <4> QED BY <3>2, <4>3, Zenon DEF TrueAt
    <3>3. CASE a.op = "expand"
      <4> PICK usersets : usersets = {[ns |-> v.ns, obj |-> v.obj, rel |-> v.rel] : v \in Opaque(q, s)}
        OBVIOUS
      <4>1. c.result = ExpandResult(reply)
        BY <1>1, <3>3 DEF Result
      <4>2. reply = [user_ids |-> Expanded(q, s), ts |-> s, usersets |-> usersets]
        BY <1>2, <2>1, <3>3, RepliesAre
      <4>3. {UserSet(u.ns, u.obj, u.rel) : u \in usersets} = Opaque(q, s)
        BY <2>2, OpaqueDecoded DEF IInv
      <4>4. c.result = [user_ids |-> Expanded(q, s), usersets |-> Opaque(q, s), ts |-> s]
        BY <4>1, <4>2, <4>3 DEF ExpandResult
      <4> QED BY <3>3, <4>4, Zenon DEF TrueAt
    <3>4. CASE a.op = "content"
      BY <3>4, Zenon DEF TrueAt
    <3>5. CASE a.op = "read"
      <4> PICK tuples : tuples = Selected(q, s)
        OBVIOUS
      <4>1. c.result = ReadResult(reply)
        BY <1>1, <3>5 DEF Result
      <4>2. reply = [tuples |-> tuples, ts |-> s]
        BY <1>2, <2>1, <3>5, RepliesAre
      <4>3. tuples \in SUBSET Storable
        BY <2>2 DEF IInv, LogInv, Selected
      <4>4. c.result # InvalidResponse => c.result.ts = s
        BY <2>2, <4>1, <4>2, <4>3, ReadResultIs
      <4> QED BY <3>5, <4>4, Zenon DEF TrueAt
    <3> QED BY <1>2, <1>4, <3>1, <3>2, <3>3, <3>4, <3>5
  <2> QED BY <2>1, <2>3
<1> QED BY <1>3, <1>4

LEMMA InvNoNewEnemy == IInv => NoNewEnemy
<1> SUFFICES ASSUME IInv, NEW t \in Tasks, NEW c \in content, Answered(t),
                    call[t].asked.zookie = c.ts
             PROVE  \E s \in c.floor..last : TrueAt(call[t], s)
  BY DEF NoNewEnemy
<1>1. c.floor \in 0..last /\ c.ts \in 0..last /\ c.floor <= c.ts
  BY DEF IInv, ContentInv
<1>2. OrEmpty(call[t].asked.zookie) = c.ts
  BY <1>1, WireAssumption DEF OrEmpty
<1>3. PICK s \in c.ts..last : TrueAt(call[t], s)
  BY <1>2, InvReadYourWrites DEF ReadYourWrites
<1>4. s \in c.floor..last
  BY <1>1, <1>3
<1> QED BY <1>3, <1>4

LEMMA InvReadsAreWhole == IInv => ReadsAreWhole
<1> SUFFICES ASSUME IInv, NEW t \in Tasks, Answered(t), call[t].asked.op = "read"
             PROVE  LET filters == call[t].asked.subject
                        result  == call[t].result
                    IN  IF result = InvalidResponse
                        THEN \E s \in 0..last : \E p \in Selected(filters, s) : ~Decodable(p)
                        ELSE {TupleToPb(u) : u \in result.tuples} = Selected(filters, result.ts)
  BY DEF ReadsAreWhole
<1> PICK c, filters, result : c = call[t] /\ filters = c.asked.subject /\ result = c.result
  OBVIOUS
<1>1. PICK reply : Sent(c) /\ Replied(c, reply) /\ result = ReadResult(reply)
  BY AnsweredCall DEF Result
<1>2. c.request.op = "read" /\ c.request.subject = filters
  BY <1>1, RequestKeeps DEF Sent
<1>3. PICK s \in OrEmpty(c.asked.zookie)..last : reply \in Replies(c.request, s)
  BY <1>1 DEF Replied
<1>4. s \in 0..last /\ s \in 0..MaxCommits
  BY <1>1, CommitAssumption DEF IInv, LogInv, Sent, Requests, OrEmpty, EmptyZookie
<1> PICK tuples : tuples = Selected(filters, s)
  OBVIOUS
<1>5. reply = [tuples |-> tuples, ts |-> s]
  BY <1>2, <1>3, RepliesAre
<1>6. tuples \in SUBSET Storable /\ tuples \in SUBSET Wires
  BY <1>4, StorableWires DEF IInv, LogInv, Selected
<1>7. CASE \A p \in tuples : Decodable(p)
  <2>1. result = [ts |-> s, tuples |-> ReadFromPb(tuples)] /\ result # InvalidResponse
    BY <1>1, <1>4, <1>5, <1>6, <1>7, ReadResultIs
  <2>2. {TupleToPb(u) : u \in ReadFromPb(tuples)} = tuples
    BY <1>6, <1>7, ReadsLoseNothing DEF Wires
  <2> QED BY <2>1, <2>2
<1>8. CASE ~ \A p \in tuples : Decodable(p)
  <2>1. result = InvalidResponse
    BY <1>1, <1>4, <1>5, <1>6, <1>8, ReadResultIs
  <2> QED BY <1>4, <1>8, <2>1
<1> QED BY <1>7, <1>8

LEMMA AnsweredWrite ==
  ASSUME IInv, NEW t \in Tasks, Answered(t), call[t].asked.op = "write"
  PROVE  Sent(call[t]) /\ Committed(call[t].asked, call[t].result)
<1> PICK c : c = call[t]
  OBVIOUS
<1>1. PICK reply : Sent(c) /\ Replied(c, reply) /\ c.result = Result(c.asked.op, reply)
  BY AnsweredCall
<1>2. Committed(c.asked, reply) /\ c.result = [ts |-> reply.ts]
  BY <1>1 DEF Replied, Result, WriteResult
<1>3. c.result.ts = reply.ts
  BY <1>2
<1> QED BY <1>1, <1>2, <1>3 DEF Committed

LEMMA InvNoLostUpdate == IInv => NoLostUpdate
BY AnsweredWrite DEF NoLostUpdate, Committed

LEMMA InvWritesAreWhole == IInv => WritesAreWhole
<1> SUFFICES ASSUME IInv, NEW t \in Tasks, Answered(t), call[t].asked.op = "write"
             PROVE  LET stored  == snapshot[call[t].result.ts]
                        added   == {TupleToPb(u) : u \in call[t].asked.subject.add}
                        deleted == {TupleToPb(u) : u \in call[t].asked.subject.del}
                    IN  added \ deleted \subseteq stored /\ (deleted \ added) \cap stored = {}
  BY DEF WritesAreWhole
<1> PICK a, ts, us : a = call[t].asked.subject /\ ts = call[t].result.ts /\ us = Changes(a.add, a.del)
  OBVIOUS
<1>1. ts \in 1..last /\ updates[ts] \in Settled(us)
  BY AnsweredWrite DEF Committed
<1> PICK X, stored, vs : X = snapshot[ts - 1] /\ stored = snapshot[ts] /\ vs = updates[ts]
  OBVIOUS
<1>2. stored = Applied(X, vs)
  BY <1>1 DEF IInv, LogInv
<1> PICK added, deleted : /\ added = {TupleToPb(u) : u \in a.add}
                          /\ deleted = {TupleToPb(u) : u \in a.del}
  OBVIOUS
<1>3. \A u \in us : IF u.deleted THEN u.tuple \in deleted ELSE u.tuple \in added
  BY DEF Changes
<1>4. {u.tuple : u \in us} = added \cup deleted
  <2>1. \A u \in us : u.tuple \in added \cup deleted
    BY <1>3
  <2>2. ASSUME NEW p \in added PROVE p \in {u.tuple : u \in us}
    <3>1. [tuple |-> p, deleted |-> FALSE] \in us
      BY DEF Changes
    <3>2. QED
      BY <3>1
  <2>3. ASSUME NEW p \in deleted PROVE p \in {u.tuple : u \in us}
    <3>1. [tuple |-> p, deleted |-> TRUE] \in us
      BY DEF Changes
    <3>2. QED
      BY <3>1
  <2> QED BY <2>1, <2>2, <2>3
<1>5. vs \subseteq us /\ {v.tuple : v \in vs} = added \cup deleted
  BY <1>1, <1>4 DEF Settled
<1>6. ASSUME NEW p \in added \ deleted PROVE p \in stored
  <2>1. PICK v \in vs : v.tuple = p
    BY <1>5
  <2>2. ~v.deleted
    BY <1>3, <1>5, <1>6, <2>1
  <2> QED BY <1>2, <2>1, <2>2 DEF Applied
<1>7. ASSUME NEW p \in deleted \ added PROVE p \notin stored
  <2>1. PICK v \in vs : v.tuple = p
    BY <1>5
  <2>2. v.deleted /\ \A w \in vs : w.tuple = p => w.deleted
    BY <1>3, <1>5, <1>7, <2>1
  <2> QED BY <1>2, <2>1, <2>2 DEF Applied
<1> QED BY <1>6, <1>7

------------------------------------------------------------------------------
LEMMA InvAlways == Spec => []IInv
BY InitInv, StepInv, PTL DEF Spec

\* An answer reflects every write whose zookie the caller passed, whichever
\* task wrote it, for any number of tasks and calls.
THEOREM ReadYourWritesAlways == Spec => []ReadYourWrites
BY InvAlways, InvReadYourWrites, PTL

\* A read returns the whole of what its filters select from one snapshot, or
\* fails, whatever other clients store.
THEOREM ReadsWhole == Spec => []ReadsAreWhole
BY InvAlways, InvReadsAreWhole, PTL

\* A write under a zookie commits onto what the zookie stands for: no update
\* between the caller's read and its write is lost.
THEOREM NoUpdateLost == Spec => []NoLostUpdate
BY InvAlways, InvNoLostUpdate, PTL

\* An acknowledged write stands in its snapshot as a whole.
THEOREM WritesWhole == Spec => []WritesAreWhole
BY InvAlways, InvWritesAreWhole, PTL

\* A check under the zookie of a content change sees every revocation that was
\* acknowledged before the change was authorized.
THEOREM NewEnemyKeptOut == Spec => []NoNewEnemy
BY InvAlways, InvNoNewEnemy, PTL
================================================================================

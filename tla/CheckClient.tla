----------------------------- MODULE CheckClient ------------------------------
(***************************************************************************)
(* The RPCs of CheckClient (lib.rs:515-862), made by concurrent tasks that *)
(* pass each other zookies.  A call is sent, served by some replica of the *)
(* check service and answered; it may fail before or after it was served,  *)
(* and it has no timeout.  Tasks echo zookies they were given and invent   *)
(* none.                                                                   *)
(***************************************************************************)
EXTENDS CheckService, FiniteSets

CONSTANTS
  Tasks,       \* tasks that hold a clone of the client
  Namespaces, Objects, Rels, Users,  \* what their questions are about
  Writes,      \* what they write: tuples to add and tuples to delete
  Foreign,     \* tuples other clients store, in their wire form
  Failed,      \* the call's error: CallError, WriteError or ReadError::Grpc
  MaxCalls     \* bound: calls of a behaviour

Writing(add, del) == [add |-> add, del |-> del]
Written == UNION {w.add \cup w.del : w \in Writes}

\* Tuples the tasks send, and those that can be stored then.
Sendable == Written \cup {ParentPointer(ns, obj, ns, obj) : ns \in Namespaces, obj \in Objects}
Storable == Initial \cup Foreign \cup {TupleToPb(t) : t \in Sendable}
Readable == {TupleFromPb(p) : p \in {q \in Storable : Decodable(q)}}

\* The fields of a tuple, here and on the wire; the error is no read's result.
ASSUME ClientAssumption ==
  /\ MaxCalls \in Nat
  /\ \A t \in Written :
       /\ t = [ns |-> t.ns, obj |-> t.obj, rel |-> t.rel, sbj |-> t.sbj, condition |-> t.condition]
       /\ t.condition \in Int \cup {None}
       /\ t.sbj.kind = "id" \/ t.sbj = UserSet(t.sbj.ns, t.sbj.obj, t.sbj.rel)
  /\ \A p \in Initial \cup Foreign :
       /\ p = [ns |-> p.ns, obj |-> p.obj, rel |-> p.rel, user |-> p.user, condition |-> p.condition]
       /\ p.condition \in Int \cup {None}
       /\ p.user = None \/ p.user.kind = "id" \/ p.user = UserSet(p.user.ns, p.user.obj, p.user.rel)
  /\ \A tuples \in SUBSET Readable :
       /\ tuples # InvalidResponse
       /\ \A ts \in 0..MaxCommits : [ts |-> ts, tuples |-> tuples] # InvalidResponse

VARIABLES
  call,     \* task -> its latest call
  zookies,  \* zookies the tasks were given
  content,  \* history: the zookie of each content_change_check, and the
            \* newest zookie given to anyone before it was called
  calls     \* bound: calls made
vars == <<service, call, zookies, content, calls>>

Impossible == "impossible"

NewCall(stage, asked, request, floor, result) ==
  [stage |-> stage, asked |-> asked, request |-> request, floor |-> floor,
   reply |-> None, result |-> result]
Advanced(c, stage, reply, result) ==
  [stage |-> stage, asked |-> c.asked, request |-> c.request, floor |-> c.floor,
   reply |-> reply, result |-> result]
NoCall == NewCall("idle", None, None, 0, None)

Init ==
  /\ ServiceInit
  /\ call = [t \in Tasks |-> NoCall]
  /\ zookies = {EmptyZookie}
  /\ content = {}
  /\ calls = 0

Newest == CHOOSE z \in zookies : \A y \in zookies : y <= z

------------------------------------------------------------------------------
\* Requests.  "asked" is what the caller passed, the request what is sent.
OrEmpty(z) == IF z = None THEN EmptyZookie ELSE z

Asks(op, subject, z) == [op |-> op, subject |-> subject, zookie |-> z]

\* Faulty variant: the caller's zookie is left out.
EvaluationRequestStale(a) == [op |-> a.op, subject |-> a.subject, ts |-> EmptyZookie]

\* check, list and expand: no zookie is the empty one.
EvaluationRequest(a) == [op |-> a.op, subject |-> a.subject, ts |-> OrEmpty(a.zookie)]

\* content_change_check: no zookie at all.
ContentRequest(a) == [op |-> "content", subject |-> a.subject, ts |-> None]

\* read: the empty zookie is left out.
ReadRequest(a) ==
  [op |-> "read", subject |-> a.subject,
   ts |-> IF a.zookie # EmptyZookie THEN a.zookie ELSE None]

\* Faulty variant: tombstones are sent as tuples.
ChangesAdded(add, del) == {[tuple |-> TupleToPb(t), deleted |-> FALSE] : t \in add \cup del}

Changes(add, del) ==
  {[tuple |-> TupleToPb(t), deleted |-> FALSE] : t \in add}
    \cup {[tuple |-> TupleToPb(t), deleted |-> TRUE] : t \in del}

\* Faulty variant: the precondition is not sent.
WriteRequestBlind(a) ==
  [op |-> "write", subject |-> Changes(a.subject.add, a.subject.del), ts |-> None]

WriteRequest(a) ==
  [op |-> "write", subject |-> Changes(a.subject.add, a.subject.del), ts |-> a.zookie]

Ready(t) == call[t].stage \in {"idle", "done"} /\ calls < MaxCalls

Send(t, a, request) ==
  /\ Ready(t)
  /\ call' = [call EXCEPT ![t] = NewCall("sent", a, request, Newest, None)]
  /\ calls' = calls + 1
  /\ UNCHANGED <<service, zookies, content>>

\* Answered without an RPC.
AnswerLocally(t, a, result) ==
  /\ Ready(t)
  /\ call' = [call EXCEPT ![t] = NewCall("done", a, None, 0, result)]
  /\ calls' = calls + 1
  /\ UNCHANGED <<service, zookies, content>>

Question(ns, obj, rel, user) == [ns |-> ns, obj |-> obj, rel |-> rel, user |-> user]

CheckShortCircuit(t, ns, obj, user, z) ==
  AnswerLocally(t, Asks("check", Question(ns, obj, Impossible, user), z),
                [kind |-> "forbidden", principal |-> None])

Check(t, ns, obj, rel, user, z) ==
  LET a == Asks("check", Question(ns, obj, rel, user), z)
  IN  rel # Impossible /\ Send(t, a, EvaluationRequest(a))

List(t, ns, rel, user, z) ==
  LET a == Asks("list", [ns |-> ns, rel |-> rel, user |-> user], z)
  IN  Send(t, a, EvaluationRequest(a))

Expand(t, ns, obj, rel, z) ==
  LET a == Asks("expand", [ns |-> ns, obj |-> obj, rel |-> rel], z)
  IN  Send(t, a, EvaluationRequest(a))

ContentChangeCheck(t, ns, obj, rel, user) ==
  LET a == Asks("content", Question(ns, obj, rel, user), None)
  IN  Send(t, a, ContentRequest(a))

ReadWithTimestamp(t, z, filters) ==
  LET a == Asks("read", filters, z)
  IN  filters # {} /\ Send(t, a, ReadRequest(a))

ReadNothing(t, z) == AnswerLocally(t, Asks("read", {}, z), InvalidResponse)

\* read() and what is built on it ask for any snapshot.
ReadFilters(t, filters) == ReadWithTimestamp(t, EmptyZookie, filters)
GetAll(t, ns, obj) == ReadFilters(t, {ByObject(ns, obj, None)})
GetAllRel(t, ns, obj, rel) == ReadFilters(t, {ByObject(ns, obj, rel)})
ReadByUser(t, ns, user, rel) == ReadFilters(t, {ByUser(ns, user, rel)})
ReadByUserSet(t, ns, set, rel) == ReadFilters(t, {ByUserSet(ns, set, rel)})

Write(t, add, del, precondition) ==
  LET a == Asks("write", [add |-> add, del |-> del], precondition)
  IN  Send(t, a, WriteRequest(a))

AddOne(t, tuple) == Write(t, {tuple}, {}, None)
AddMany(t, tuples) == Write(t, tuples, {}, None)
DeleteOne(t, tuple) == Write(t, {}, {tuple}, None)
AddParent(t, ns, obj, parentNs, parentObj) ==
  AddOne(t, ParentPointer(ns, obj, parentNs, parentObj))

------------------------------------------------------------------------------
\* The service.
Holds(q, s) ==
  \E p \in snapshot[s] :
    p.ns = q.ns /\ p.obj = q.obj /\ p.rel = q.rel /\ p.user \in {UserId(q.user), UserId("allUsers")}

Listed(q, s) == {obj \in Objects : Holds(Question(q.ns, obj, q.rel, q.user), s)}
Expanded(q, s) == {u \in Users : Holds(Question(q.ns, q.obj, q.rel, u), s)}
Opaque(q, s) ==
  {p.user : p \in {x \in snapshot[s] : x.ns = q.ns /\ x.obj = q.obj /\ x.rel = q.rel
                                       /\ x.user # None /\ x.user.kind = "set"}}
Selected(filters, s) == {p \in snapshot[s] : \E f \in filters : Selects(f, p)}

\* The replies a service may give at snapshot s.  It need not know the user,
\* and may break its contract by allowing a user it does not name.
Replies(r, s) ==
  CASE r.op = "check"   -> [ok : {Holds(r.subject, s)}, principal : {r.subject.user, None}]
    [] r.op = "content" -> [ok : {Holds(r.subject, s)}, ts : {s}]
    [] r.op = "list"    -> [objs : {Listed(r.subject, s)}, ts : {s}]
    [] r.op = "expand"  -> [user_ids : {Expanded(r.subject, s)}, ts : {s},
                             usersets : {{[ns |-> u.ns, obj |-> u.obj, rel |-> u.rel] :
                                            u \in Opaque(r.subject, s)}}]
    [] r.op = "read"    -> [tuples : {Selected(r.subject, s)}, ts : {s}]

\* A snapshot at least as fresh as the request's zookie, or the freshest.
Snapshots(r) ==
  IF r.op = "content" THEN {last} ELSE (IF r.ts = None THEN EmptyZookie ELSE r.ts)..last

Serve(t) ==
  LET r == call[t].request
  IN  /\ call[t].stage = "sent" /\ r.op # "write"
      /\ \E s \in Snapshots(r) : \E reply \in Replies(r, s) :
           call' = [call EXCEPT ![t] = Advanced(@, "served", reply, None)]
      /\ UNCHANGED <<service, zookies, content, calls>>

\* The objects a set of changes touches.
Touched(us) == {<<u.tuple.ns, u.tuple.obj>> : u \in us}

\* Nothing was committed to these objects since the precondition.
Current(r) ==
  \A s \in 1..last :
    r.ts # None /\ s > r.ts => Touched(updates[s]) \cap Touched(r.subject) = {}

\* What the service may commit for a set of changes: all of them, but of a tuple
\* that is both added and deleted either one.
Settled(us) ==
  {vs \in SUBSET us : /\ {v.tuple : v \in vs} = {u.tuple : u \in us}
                     /\ \A v, w \in vs : v.tuple = w.tuple => v = w}

ServeWrite(t) ==
  /\ call[t].stage = "sent" /\ call[t].request.op = "write"
  /\ Current(call[t].request)
  /\ \E us \in Settled(call[t].request.subject) : Commit(us)
  /\ call' = [call EXCEPT ![t] = Advanced(@, "served", [ts |-> last + 1], None)]
  /\ UNCHANGED <<zookies, content, calls>>

\* Refused, or lost on the way there or back: the caller cannot tell.
Fail(t) ==
  /\ call[t].stage \in {"sent", "served"}
  /\ call' = [call EXCEPT ![t] = Advanced(@, "done", None, Failed)]
  /\ UNCHANGED <<service, zookies, content, calls>>

ForeignWrite ==
  /\ \E p \in Foreign : Commit({[tuple |-> p, deleted |-> FALSE]})
  /\ UNCHANGED <<call, zookies, content, calls>>

------------------------------------------------------------------------------
\* Results.
ListResult(reply) == [ts |-> reply.ts, objs |-> reply.objs]
ExpandResult(reply) ==
  [ts |-> reply.ts, user_ids |-> reply.user_ids,
   usersets |-> {UserSet(us.ns, us.obj, us.rel) : us \in reply.usersets}]

\* Faulty variant: the zookie to guard the content with is left out.
ContentChangeCheckResultBare(reply) == [ts |-> EmptyZookie, ok |-> reply.ok]

ContentChangeCheckResult(reply) == [ts |-> reply.ts, ok |-> reply.ok]

WriteResult(reply) == [ts |-> reply.ts]

\* Faulty variant: undecodable tuples are left out.
ReadResultPartial(reply) ==
  [ts |-> reply.ts, tuples |-> {TupleFromPb(p) : p \in {q \in reply.tuples : Decodable(q)}}]

ReadResult(reply) ==
  LET tuples == ReadFromPb(reply.tuples)
  IN  IF tuples = InvalidResponse THEN InvalidResponse ELSE [ts |-> reply.ts, tuples |-> tuples]

\* What the caller gets for a reply.
Result(op, reply) ==
  CASE op = "check"   -> CheckFromPb(reply)
    [] op = "list"    -> ListResult(reply)
    [] op = "expand"  -> ExpandResult(reply)
    [] op = "content" -> ContentChangeCheckResult(reply)
    [] op = "read"    -> ReadResult(reply)
    [] op = "write"   -> WriteResult(reply)

\* A check tells no zookie.
GivenZookies(op, result) ==
  IF op = "check" \/ result = InvalidResponse THEN {} ELSE {result.ts}

Return(t) ==
  LET c == call[t]
      result == Result(c.asked.op, c.reply)
  IN  /\ c.stage = "served"
      /\ call' = [call EXCEPT ![t] = Advanced(@, "done", None, result)]
      /\ zookies' = zookies \cup GivenZookies(c.asked.op, result)
      /\ content' = IF c.asked.op = "content"
                    THEN content \cup {[ts |-> result.ts, floor |-> c.floor]} ELSE content
      /\ UNCHANGED <<service, calls>>

------------------------------------------------------------------------------
Ask(t) ==
  \E ns \in Namespaces, obj \in Objects, z \in zookies \cup {None} :
    \/ \E rel \in Rels, user \in Users :
         Check(t, ns, obj, rel, user, z) \/ List(t, ns, rel, user, z)
    \/ \E user \in Users : CheckShortCircuit(t, ns, obj, user, z)
    \/ \E rel \in Rels \cup {"parent"} : Expand(t, ns, obj, rel, z)
    \/ \E rel \in Rels, user \in Users : ContentChangeCheck(t, ns, obj, rel, user)

Read(t) ==
  \/ \E z \in zookies : ReadNothing(t, z)
  \/ \E ns \in Namespaces, obj \in Objects, rel \in Rels, user \in Users :
       \/ GetAll(t, ns, obj) \/ GetAllRel(t, ns, obj, rel)
       \/ ReadByUser(t, ns, user, None)
       \/ ReadByUserSet(t, ns, UserSet(ns, obj, "..."), None)
       \/ \E z \in zookies : ReadWithTimestamp(t, z, {ByObject(ns, obj, rel), ByUser(ns, user, None)})

\* A call of write() with any of Writes, or of what is built on it.
Change(t) ==
  \/ \E w \in Writes :
       \/ \E z \in zookies : Write(t, w.add, w.del, z)
       \/ w.del = {} /\ AddMany(t, w.add)
       \/ \E tuple \in w.add : w = Writing({tuple}, {}) /\ AddOne(t, tuple)
       \/ \E tuple \in w.del : w = Writing({}, {tuple}) /\ DeleteOne(t, tuple)
  \/ \E ns \in Namespaces, obj \in Objects : AddParent(t, ns, obj, ns, obj)

Next ==
  \/ \E t \in Tasks : Ask(t) \/ Read(t) \/ Change(t) \/ Serve(t) \/ ServeWrite(t) \/ Fail(t) \/ Return(t)
  \/ ForeignWrite

Spec == Init /\ [][Next]_vars

------------------------------------------------------------------------------
\* The call returned a result of the service.
Answered(t) == call[t].stage = "done" /\ call[t].request # None /\ call[t].result # Failed

\* What a result says is so at snapshot s.
TrueAt(c, s) ==
  LET q == c.asked.subject IN
  CASE c.asked.op = "check" /\ c.result.kind = "ok" -> Holds(q, s)
    [] c.asked.op = "check" /\ c.result.kind \in {"forbidden", "unknown"} -> ~Holds(q, s)
    [] c.asked.op = "list" -> c.result = [objs |-> Listed(q, s), ts |-> s]
    [] c.asked.op = "expand" -> c.result = [user_ids |-> Expanded(q, s), usersets |-> Opaque(q, s), ts |-> s]
    [] c.asked.op = "read" /\ c.result # InvalidResponse -> c.result.ts = s
    [] OTHER -> TRUE

\* An answer reflects every write whose zookie, or a later one, the caller
\* passed, whichever task wrote it and however late the replica; and the zookie
\* that comes with it is that of the snapshot it was taken from (README:103).
ReadYourWrites ==
  \A t \in Tasks :
    Answered(t) => \E s \in OrEmpty(call[t].asked.zookie)..last : TrueAt(call[t], s)

\* A read returns all the tuples its filters select from one snapshot, or fails
\* because one of them cannot be decoded: never a part (lib.rs:800).
ReadsAreWhole ==
  \A t \in Tasks :
    Answered(t) /\ call[t].asked.op = "read" =>
      LET filters == call[t].asked.subject
          result  == call[t].result
      IN  IF result = InvalidResponse
          THEN \E s \in 0..last : \E p \in Selected(filters, s) : ~Decodable(p)
          ELSE {TupleToPb(u) : u \in result.tuples} = Selected(filters, result.ts)

\* Tuples stored for the objects that a set of changes touches.
Stored(us, s) == {p \in snapshot[s] : <<p.ns, p.obj>> \in Touched(us)}

\* A write that carries the zookie of what it was computed from commits onto
\* just that: no task's write is lost between another's read and its write
\* (lib.rs:805).
NoLostUpdate ==
  \A t \in Tasks :
    Answered(t) /\ call[t].asked.op = "write" /\ call[t].asked.zookie # None =>
      LET us == Changes(call[t].asked.subject.add, call[t].asked.subject.del)
      IN  Stored(us, call[t].result.ts - 1) = Stored(us, call[t].asked.zookie)

\* An acknowledged write stands in the snapshot of its zookie as a whole: its
\* additions are there and its deletions are not.  Only a tuple that it both
\* added and deleted, to the second, may be either (lib.rs:805, :880).
WritesAreWhole ==
  \A t \in Tasks :
    Answered(t) /\ call[t].asked.op = "write" =>
      LET stored  == snapshot[call[t].result.ts]
          added   == {TupleToPb(u) : u \in call[t].asked.subject.add}
          deleted == {TupleToPb(u) : u \in call[t].asked.subject.del}
      IN  added \ deleted \subseteq stored /\ (deleted \ added) \cap stored = {}

\* The "new enemy": content authorized by content_change_check is guarded by
\* the zookie stored with it.  A check that passes it answers from a snapshot
\* that has every write acknowledged before that authorization began, so a
\* subject removed before the content changed does not see the change
\* (lib.rs:646).
NoNewEnemy ==
  \A t \in Tasks, c \in content :
    Answered(t) /\ call[t].asked.op = "check" /\ call[t].asked.zookie = c.ts =>
      \E s \in c.floor..last : TrueAt(call[t], s)
===============================================================================

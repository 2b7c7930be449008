----------------------------- MODULE WatchProofs ------------------------------
(***************************************************************************)
(* Proof that the follower of Watch keeps a snapshot of the namespace, for *)
(* every sequence of commits and any number of crashes and broken streams. *)
(***************************************************************************)
EXTENDS Watch, WireProofs

\* Tuples as they come on the wire.
Names == UNION {UNION {{u.tuple.ns, u.tuple.obj, u.tuple.rel} : u \in us} : us \in Batches}
Subjects == UNION {{u.tuple.user : u \in us} : us \in Batches}
Wires == PbTuples(Names, Subjects)
WireUpdates == UNION Batches

LEMMA BatchTuples == \A u \in WireUpdates : u.tuple \in Wires
<1> SUFFICES ASSUME NEW us \in Batches, NEW u \in us PROVE u.tuple \in Wires
  BY DEF WireUpdates
<1>1. PICK p : p = u.tuple
  OBVIOUS
<1>2. p = [ns |-> p.ns, obj |-> p.obj, rel |-> p.rel, condition |-> p.condition, user |-> p.user]
      /\ p.condition \in Int \cup {None}
  BY <1>1, WatchAssumption
<1>3. p.ns \in Names /\ p.obj \in Names /\ p.rel \in Names /\ p.user \in Subjects
  <2>1. {p.ns, p.obj, p.rel} \in {{v.tuple.ns, v.tuple.obj, v.tuple.rel} : v \in us}
    BY <1>1
  <2>2. p.user \in {v.tuple.user : v \in us}
    BY <1>1
  <2> QED BY <2>1, <2>2 DEF Names, Subjects
<1> QED BY <1>1, <1>2, <1>3 DEF Wires, PbTuples

------------------------------------------------------------------------------
\* Sets of tuples, decoded.
Decoded(X) == {TupleFromPb(p) : p \in X}
DecodedUpdates(us) == {[tuple |-> TupleFromPb(u.tuple), deleted |-> u.deleted] : u \in us}

LEMMA Injective ==
  ASSUME NEW p \in Wires, NEW q \in Wires, Decodable(p), Decodable(q),
         TupleFromPb(p) = TupleFromPb(q)
  PROVE  p = q
BY DecodedEncodes DEF Wires

\* Tuples a set of changes stores and removes.
Adds(us) == {u.tuple : u \in {v \in us : ~v.deleted}}
Dels(us) == {u.tuple : u \in {v \in us : v.deleted}}

LEMMA AppliedIs == \A X, us : Applied(X, us) = (X \ Dels(us)) \cup Adds(us)
BY DEF Applied, Adds, Dels

LEMMA DecodedAdds ==
  ASSUME NEW us
  PROVE  /\ Adds(DecodedUpdates(us)) = Decoded(Adds(us))
         /\ Dels(DecodedUpdates(us)) = Decoded(Dels(us))
<1> DEFINE d(u) == [tuple |-> TupleFromPb(u.tuple), deleted |-> u.deleted]
<1>1. \A u : d(u).tuple = TupleFromPb(u.tuple) /\ d(u).deleted = u.deleted
  OBVIOUS
<1>2. DecodedUpdates(us) = {d(u) : u \in us}
  BY DEF DecodedUpdates
<1> HIDE DEF d
<1>3. \A x : x \in Adds(DecodedUpdates(us)) <=> \E u \in us : ~u.deleted /\ x = TupleFromPb(u.tuple)
  BY <1>1, <1>2 DEF Adds
<1>4. \A x : x \in Decoded(Adds(us)) <=> \E u \in us : ~u.deleted /\ x = TupleFromPb(u.tuple)
  BY DEF Adds, Decoded
<1>5. \A x : x \in Dels(DecodedUpdates(us)) <=> \E u \in us : u.deleted /\ x = TupleFromPb(u.tuple)
  BY <1>1, <1>2 DEF Dels
<1>6. \A x : x \in Decoded(Dels(us)) <=> \E u \in us : u.deleted /\ x = TupleFromPb(u.tuple)
  BY DEF Dels, Decoded
<1> QED BY <1>3, <1>4, <1>5, <1>6

\* Decoding commutes with applying a batch that can be decoded.
LEMMA DecodedApplied ==
  ASSUME NEW X \in SUBSET Wires, NEW us \in SUBSET WireUpdates,
         \A p \in X : Decodable(p), \A u \in us : UpdateDecodable(u)
  PROVE  /\ \A p \in Applied(X, us) : Decodable(p)
         /\ Applied(Decoded(X), DecodedUpdates(us)) = Decoded(Applied(X, us))
<1> DEFINE A == Adds(us)
           D == Dels(us)
<1>1. \A p \in A \cup D : p \in Wires /\ Decodable(p)
  BY BatchTuples DEF Adds, Dels, UpdateDecodable
<1>2. Applied(X, us) = (X \ D) \cup A
  BY AppliedIs
<1>3. Applied(Decoded(X), DecodedUpdates(us)) = (Decoded(X) \ Decoded(D)) \cup Decoded(A)
  BY AppliedIs, DecodedAdds
<1> HIDE DEF A, D
<1>4. \A p \in X, q \in D : TupleFromPb(p) = TupleFromPb(q) => p = q
  BY <1>1, Injective
<1>5. Decoded(X) \ Decoded(D) = Decoded(X \ D)
  BY <1>4 DEF Decoded
<1>6. Decoded(X \ D) \cup Decoded(A) = Decoded((X \ D) \cup A)
  BY DEF Decoded
<1> QED BY <1>1, <1>2, <1>3, <1>5, <1>6

LEMMA AppliedTwice == \A X, us : Applied(Applied(X, us), us) = Applied(X, us)
BY AppliedIs

------------------------------------------------------------------------------
\* The inductive invariant.

\* The log: each snapshot is the one before it with a batch applied.
LogInv ==
  /\ last \in Nat /\ saved \in 0..last
  /\ snapshot[0] = {}
  /\ \A s \in 0..last : snapshot[s] \in SUBSET Wires
  /\ \A s \in 0..last : s < last => /\ updates[s + 1] \in Batches
                                    /\ snapshot[s + 1] = Applied(snapshot[s], updates[s + 1])

\* The copy is the namespace at s.
CopyAt(s) == (\A p \in Stored(s) : Decodable(p)) /\ copy = Decoded(Stored(s))

\* A crash between handling an event and saving its zookie leaves the copy one
\* commit ahead.
CopyInv == CopyAt(saved) \/ (saved < last /\ CopyAt(saved + 1))

\* e is what the stream sends after the zookie ts: a heartbeat, or the next commit.
Follows(ts, e) ==
  \/ e.ts = ts /\ e.updates = {}
  \/ ts < last /\ e.ts = ts + 1 /\ e.updates = Watched(updates[ts + 1])

Responses == [ts : Nat, updates : SUBSET WireUpdates]

\* The event at hand follows the saved zookie; handled, it is in the copy.
FollowerInv ==
  /\ follower = [pc |-> follower.pc, event |-> follower.event]
  /\ follower.pc \in {"down", "receiving", "handling", "handled"}
  /\ follower.pc \in {"handling", "handled"} =>
       \E e \in Responses : /\ Follows(saved, e)
                            /\ \A u \in e.updates : UpdateDecodable(u)
                            /\ follower.event = [ts |-> e.ts, updates |-> DecodedUpdates(e.updates)]
  /\ follower.pc = "handled" /\ follower.event.ts # saved => CopyAt(follower.event.ts)

\* The zookie of the last event received.
Reached == IF follower.pc \in {"handling", "handled"} THEN follower.event.ts ELSE saved

Before(ts, queue, i) == IF i = 1 THEN ts ELSE queue[i - 1].ts

\* Responses arrive in order, none left out.
Chained(ts, queue) ==
  \A i \in 1..Len(queue) : /\ Before(ts, queue, i) \in 0..last
                            /\ Follows(Before(ts, queue, i), queue[i])

StreamInv ==
  /\ stream = [state |-> stream.state, sent |-> stream.sent, queue |-> stream.queue]
  /\ stream.queue \in Seq(Responses)
  /\ Chained(Reached, stream.queue)
  /\ stream.state = "open" => stream.sent = Before(Reached, stream.queue, Len(stream.queue) + 1)
  /\ follower.pc = "down" => stream = Closed

IInv == LogInv /\ CopyInv /\ FollowerInv /\ StreamInv

------------------------------------------------------------------------------
\* What the namespace holds after a commit.
LEMMA AppliedWatched ==
  ASSUME NEW X, NEW us
  PROVE  {p \in Applied(X, us) : p.ns = Namespace} = Applied({p \in X : p.ns = Namespace}, Watched(us))
<1>1. Adds(Watched(us)) = {p \in Adds(us) : p.ns = Namespace}
  BY DEF Adds, Watched
<1>2. Dels(Watched(us)) = {p \in Dels(us) : p.ns = Namespace}
  BY DEF Dels, Watched
<1>3. \A p : p \in Applied(X, us) <=> (p \in X /\ p \notin Dels(us)) \/ p \in Adds(us)
  BY AppliedIs
<1>4. Applied({p \in X : p.ns = Namespace}, Watched(us)) =
        ({p \in X : p.ns = Namespace} \ Dels(Watched(us))) \cup Adds(Watched(us))
  BY AppliedIs
<1> QED BY <1>1, <1>2, <1>3, <1>4

LEMMA StoredNext ==
  ASSUME LogInv, NEW s \in 0..last, s < last
  PROVE  Stored(s + 1) = Applied(Stored(s), Watched(updates[s + 1]))
<1>1. snapshot[s + 1] = Applied(snapshot[s], updates[s + 1])
  BY DEF LogInv
<1> QED BY <1>1, AppliedWatched DEF Stored

LEMMA StoredWires ==
  ASSUME LogInv, NEW s \in 0..last
  PROVE  Stored(s) \in SUBSET Wires
BY DEF LogInv, Stored

LEMMA WatchedWires ==
  ASSUME LogInv, NEW s \in 0..last, s < last
  PROVE  Watched(updates[s + 1]) \in SUBSET WireUpdates
BY DEF LogInv, Watched, WireUpdates

LEMMA FollowsZookie ==
  ASSUME LogInv, NEW ts \in 0..last, NEW e \in Responses, Follows(ts, e)
  PROVE  e.ts \in 0..last /\ ts <= e.ts
BY DEF LogInv, Follows

------------------------------------------------------------------------------
\* A step that leaves the log and the saved zookie alone.
LEMMA LogStays ==
  ASSUME LogInv, UNCHANGED <<service, saved>>
  PROVE  /\ LogInv'
         /\ \A s : Stored(s)' = Stored(s)
         /\ \A ts, e : Follows(ts, e)' <=> Follows(ts, e)
BY DEF LogInv, service, Stored, Follows

LEMMA InitInv == Init => IInv
<1> SUFFICES ASSUME Init PROVE IInv
  OBVIOUS
<1>1. last = 0 /\ saved = 0 /\ snapshot[0] = {} /\ copy = {}
  BY WatchAssumption DEF Init, ServiceInit, EmptyZookie
<1>2. LogInv
  BY <1>1 DEF LogInv
<1>3. CopyInv
  BY <1>1 DEF CopyInv, CopyAt, Stored, Decoded
<1>4. FollowerInv
  BY DEF Init, Down, FollowerInv
<1>5. StreamInv
  <2>1. stream.queue = <<>> /\ stream.state = "closed" /\ stream = Closed
    BY DEF Init, Closed
  <2>2. <<>> \in Seq(Responses) /\ Len(<<>>) = 0
    OBVIOUS
  <2> QED BY <2>1, <2>2 DEF StreamInv, Chained, Closed
<1> QED BY <1>2, <1>3, <1>4, <1>5 DEF IInv

\* A commit extends the log; what is known of its past stays so.
LEMMA WriteInv == IInv /\ Write => IInv'
<1> SUFFICES ASSUME IInv, Write PROVE IInv'
  OBVIOUS
<1> USE DEF IInv
<1>1. PICK us \in Batches : Commit(us)
  BY DEF Write
<1>2. UNCHANGED <<stream, follower, saved, copy>>
  BY DEF Write
<1>3. last \in Nat /\ last' = last + 1 /\ saved \in 0..last
  BY <1>1 DEF Commit, LogInv
<1>4. /\ \A s \in 0..last : snapshot'[s] = snapshot[s] /\ updates'[s] = updates[s]
      /\ snapshot'[last + 1] = Applied(snapshot[last], us) /\ updates'[last + 1] = us
  BY <1>1, <1>3 DEF Commit
<1>5. LogInv'
  <2>1. Applied(snapshot[last], us) \in SUBSET Wires
    BY <1>3, AppliedIs, BatchTuples DEF LogInv, Adds, WireUpdates
  <2>2. \A s \in 0..last + 1 : snapshot'[s] \in SUBSET Wires
    BY <1>3, <1>4, <2>1 DEF LogInv
  <2>3. ASSUME NEW s \in 0..last + 1, s < last + 1
        PROVE  updates'[s + 1] \in Batches /\ snapshot'[s + 1] = Applied(snapshot'[s], updates'[s + 1])
    <3>1. CASE s = last
      BY <1>3, <1>4, <3>1
    <3>2. CASE s < last
      BY <1>3, <1>4, <2>3, <3>2 DEF LogInv
    <3> QED BY <1>3, <2>3, <3>1, <3>2
  <2> QED BY <1>2, <1>3, <1>4, <2>2, <2>3 DEF LogInv
<1>6. \A s \in 0..last : Stored(s)' = Stored(s)
  BY <1>4 DEF Stored
<1>7. \A s \in 0..last : CopyAt(s) => CopyAt(s)'
  BY <1>2, <1>6 DEF CopyAt
<1>8. CopyInv'
  BY <1>2, <1>3, <1>7 DEF CopyInv
<1>9. \A ts \in 0..last : \A e : Follows(ts, e) => Follows(ts, e)'
  BY <1>3, <1>4 DEF Follows
<1>10. follower.pc \in {"handling", "handled"} => follower.event.ts \in 0..last
  BY <1>3, FollowsZookie DEF FollowerInv
<1>11. FollowerInv'
  BY <1>2, <1>3, <1>7, <1>9, <1>10 DEF FollowerInv
<1>12. StreamInv'
  <2>1. Reached' = Reached /\ Reached \in 0..last
    BY <1>2, <1>3, <1>10 DEF Reached
  <2>2. Chained(Reached, stream.queue)'
    BY <1>2, <1>3, <1>9, <2>1 DEF Chained, StreamInv, Before
  <2> QED BY <1>2, <2>1, <2>2 DEF StreamInv, Before
<1> QED BY <1>5, <1>8, <1>11, <1>12

\* A response joins the end of the queue.
LEMMA RespondInv ==
  ASSUME IInv, NEW e, stream.sent \in 0..last => e \in Responses /\ Follows(stream.sent, e),
         Respond(e.ts, e.updates)
  PROVE  IInv'
<1> USE DEF IInv
<1>1. UNCHANGED <<service, saved, follower, copy>> /\ stream.state = "open"
  BY DEF Respond
<1> DEFINE q == stream.queue
<1>2. q \in Seq(Responses) /\ Len(q) \in Nat /\ Chained(Reached, q)
      /\ stream.sent = Before(Reached, q, Len(q) + 1)
  BY <1>1 DEF StreamInv
<1>3. Reached \in 0..last
  BY FollowsZookie DEF Reached, FollowerInv, LogInv
<1>4. stream.sent \in 0..last
  <2>1. CASE Len(q) = 0
    BY <1>2, <1>3, <2>1 DEF Before
  <2>2. CASE Len(q) # 0
    <3>1. Len(q) \in 1..Len(q) /\ q[Len(q)] \in Responses
      BY <1>2, <2>2
    <3>2. Follows(Before(Reached, q, Len(q)), q[Len(q)]) /\ Before(Reached, q, Len(q)) \in 0..last
      BY <1>2, <3>1 DEF Chained
    <3>3. q[Len(q)].ts \in 0..last
      BY <3>1, <3>2, FollowsZookie
    <3> QED BY <1>2, <2>2, <3>3 DEF Before
  <2> QED BY <2>1, <2>2
<1>5. stream' = [state |-> "open", sent |-> e.ts, queue |-> Append(q, e)]
  <2>1. e = [ts |-> e.ts, updates |-> e.updates]
    BY <1>4 DEF Responses
  <2> QED BY <1>1, <2>1 DEF Respond, StreamInv
<1>6. LogInv' /\ CopyInv' /\ FollowerInv' /\ Reached' = Reached
  BY <1>1, LogStays DEF CopyInv, CopyAt, FollowerInv, Reached, service
<1>7. StreamInv'
  <2> PICK r : r = Append(q, e)
    OBVIOUS
  <2>1. r \in Seq(Responses) /\ Len(r) = Len(q) + 1 /\ r[Len(q) + 1] = e
        /\ \A i \in 1..Len(q) : r[i] = q[i]
    BY <1>2, <1>4
  <2>2. \A i \in 1..Len(q) + 1 : Before(Reached, r, i) = Before(Reached, q, i)
    BY <1>2, <2>1 DEF Before
  <2>3. Before(Reached, r, Len(r) + 1) = e.ts
    BY <1>2, <2>1 DEF Before
  <2>4. Chained(Reached, r)
    <3> SUFFICES ASSUME NEW i \in 1..Len(r)
                 PROVE  Before(Reached, r, i) \in 0..last /\ Follows(Before(Reached, r, i), r[i])
      BY DEF Chained
    <3>1. CASE i \in 1..Len(q)
      BY <1>2, <2>1, <2>2, <3>1 DEF Chained
    <3>2. CASE i = Len(q) + 1
      BY <1>2, <1>4, <2>1, <2>2, <3>2
    <3> QED BY <1>2, <2>1, <3>1, <3>2
  <2>5. Chained(Reached, r)'
    BY <1>1, <1>6, <2>4, LogStays DEF Chained, service, Before
  <2>6. follower.pc # "down"
    BY <1>1 DEF StreamInv, Closed
  <2> QED BY <1>1, <1>5, <1>6, <2>1, <2>3, <2>5, <2>6 DEF StreamInv
<1> QED BY <1>6, <1>7

LEMMA SendInv == IInv /\ (SendCommit \/ Heartbeat) => IInv'
<1>1. ASSUME IInv, SendCommit PROVE IInv'
  <2>1. PICK e : e = [ts |-> stream.sent + 1, updates |-> Watched(updates[stream.sent + 1])]
    OBVIOUS
  <2>2. stream.sent \in 0..last => e \in Responses /\ Follows(stream.sent, e)
    BY <1>1, <2>1, WatchedWires DEF IInv, LogInv, SendCommit, Follows, Responses
  <2>3. Respond(e.ts, e.updates)
    BY <1>1, <2>1 DEF SendCommit
  <2> QED BY <1>1, <2>1, <2>2, <2>3, RespondInv
<1>2. ASSUME IInv, Heartbeat PROVE IInv'
  <2>1. PICK e : e = [ts |-> stream.sent, updates |-> {}]
    OBVIOUS
  <2>2. e \in Responses /\ Follows(stream.sent, e)
    BY <1>2, <2>1 DEF IInv, LogInv, Heartbeat, Follows, Responses
  <2> QED BY <1>2, <2>1, <2>2, RespondInv DEF Heartbeat
<1> QED BY <1>1, <1>2

\* A prefix of the queue is kept.
LEMMA EndStreamInv ==
  ASSUME IInv, NEW state \in {"ended", "broken"}, EndStream(state)
  PROVE  IInv'
<1> USE DEF IInv
<1>1. PICK n \in 0..Len(stream.queue) :
        stream' = [stream EXCEPT !.state = state, !.queue = SubSeq(@, 1, n)]
  BY DEF EndStream
<1>2. UNCHANGED <<service, saved, follower, copy>> /\ stream.state = "open"
  BY DEF EndStream
<1> DEFINE q == stream.queue
<1>3. stream' = [state |-> state, sent |-> stream.sent, queue |-> SubSeq(q, 1, n)]
  BY <1>1 DEF StreamInv
<1>4. LogInv' /\ CopyInv' /\ FollowerInv' /\ Reached' = Reached
  BY <1>2, LogStays DEF CopyInv, CopyAt, FollowerInv, Reached, service
<1> PICK r : r = SubSeq(q, 1, n)
  OBVIOUS
<1>5. r \in Seq(Responses) /\ Len(r) = n /\ \A i \in 1..n : r[i] = q[i]
  BY DEF StreamInv
<1>6. Chained(Reached, r)
  BY <1>5 DEF StreamInv, Chained, Before
<1>7. Chained(Reached, r)'
  BY <1>2, <1>4, <1>6, LogStays DEF Chained, service, Before
<1>8. follower.pc # "down"
  BY <1>2 DEF StreamInv, Closed
<1> QED BY <1>2, <1>3, <1>4, <1>5, <1>7, <1>8 DEF StreamInv

\* The follower's loop begins again at the saved zookie, or ends.
LEMMA RestartInv ==
  ASSUME IInv, UNCHANGED <<service, saved, copy>>,
         \/ stream' = Closed /\ follower' = Down
         \/ stream' = [state |-> "open", sent |-> saved, queue |-> <<>>]
            /\ follower' = [pc |-> "receiving", event |-> None]
  PROVE  IInv'
<1> USE DEF IInv
<1>1. LogInv' /\ CopyInv'
  BY LogStays DEF CopyInv, CopyAt, service
<1>2. FollowerInv' /\ Reached' = saved'
  BY DEF FollowerInv, Reached, Down
<1>3. <<>> \in Seq(Responses) /\ Len(<<>>) = 0
  OBVIOUS
<1>4. Chained(Reached, stream.queue)' /\ stream'.queue = <<>>
  BY <1>3 DEF Chained, Closed
<1>5. stream'.state = "open" => stream'.sent = Before(Reached, stream.queue, Len(stream.queue) + 1)'
  BY <1>2, <1>3, <1>4 DEF Closed, Before
<1>6. StreamInv'
  BY <1>3, <1>4, <1>5 DEF StreamInv, Closed, Down
<1> QED BY <1>1, <1>2, <1>6

\* The head of the queue becomes the event at hand.
LEMMA ReceiveInv == IInv /\ Receive => IInv'
<1> SUFFICES ASSUME IInv, Receive PROVE IInv'
  OBVIOUS
<1> USE DEF IInv
<1>1. UNCHANGED <<service, saved, copy>> /\ follower.pc = "receiving" /\ stream.queue # <<>>
  BY DEF Receive
<1>2. PICK e : e = Head(stream.queue)
  OBVIOUS
<1>3. CASE Decode(e) = InvalidResponse
  <2>1. follower' = Down /\ stream' = Closed
    BY <1>2, <1>3 DEF Receive
  <2> QED BY <1>1, <2>1, RestartInv
<1>4. CASE Decode(e) # InvalidResponse
  <2> PICK q : q = stream.queue
    OBVIOUS
  <2>1. q \in Seq(Responses) /\ Len(q) > 0 /\ e = q[1] /\ e \in Responses
    BY <1>1, <1>2 DEF StreamInv
  <2>2. Reached = saved /\ Chained(saved, q)
    BY <1>1 DEF Reached, StreamInv
  <2>3. Follows(saved, e)
    BY <2>1, <2>2 DEF Chained, Before
  <2>4. Decode(e) = [ts |-> e.ts, updates |-> DecodedUpdates(e.updates)]
        /\ \A u \in e.updates : UpdateDecodable(u)
    BY <1>4 DEF Decode, WatchEventFromPb, DecodedUpdates
  <2>5. follower' = [pc |-> "handling", event |-> [ts |-> e.ts, updates |-> DecodedUpdates(e.updates)]]
    BY <1>2, <1>4, <2>4 DEF Receive
  <2>6. stream' = [state |-> stream.state, sent |-> stream.sent, queue |-> Tail(q)]
    BY <1>2, <1>4 DEF Receive, StreamInv
  <2>7. LogInv' /\ CopyInv'
    BY <1>1, LogStays DEF CopyInv, CopyAt, service
  <2>8. Follows(saved, e)'
    BY <1>1, <2>3, LogStays
  <2>9. FollowerInv'
    BY <1>1, <2>1, <2>4, <2>5, <2>8 DEF FollowerInv
  <2>10. Reached' = e.ts
    BY <2>5 DEF Reached
  <2> PICK r : r = Tail(q)
    OBVIOUS
  <2>11. r \in Seq(Responses) /\ Len(r) = Len(q) - 1 /\ \A i \in 1..Len(r) : r[i] = q[i + 1]
    BY <2>1
  <2>12. \A i \in 1..Len(r) + 1 : Before(e.ts, r, i) = Before(saved, q, i + 1)
    BY <2>1, <2>11 DEF Before
  <2>13. Chained(e.ts, r)
    <3> SUFFICES ASSUME NEW i \in 1..Len(r)
                 PROVE  Before(e.ts, r, i) \in 0..last /\ Follows(Before(e.ts, r, i), r[i])
      BY DEF Chained
    <3>1. i + 1 \in 1..Len(q) /\ i \in 1..Len(r) + 1
      BY <2>1, <2>11
    <3> QED BY <2>2, <2>11, <2>12, <3>1 DEF Chained
  <2>14. Chained(e.ts, r)'
    BY <1>1, <2>13, LogStays DEF Chained, service, Before
  <2>15. stream.state = "open" => stream.sent = Before(e.ts, r, Len(r) + 1)
    BY <2>1, <2>2, <2>11, <2>12 DEF StreamInv
  <2> QED BY <2>5, <2>6, <2>7, <2>9, <2>10, <2>11, <2>14, <2>15 DEF StreamInv, Before
<1> QED BY <1>3, <1>4

\* Handling an event brings the copy to its zookie, also when a crash had left
\* it there already.
LEMMA HandleInv == IInv /\ (HandleHeartbeat \/ HandleWrite) => IInv'
<1> SUFFICES ASSUME IInv, HandleHeartbeat \/ HandleWrite PROVE IInv'
  OBVIOUS
<1> USE DEF IInv
<1>1. UNCHANGED <<service, saved, stream>> /\ follower.pc = "handling"
      /\ follower' = [pc |-> "handled", event |-> follower.event]
  BY DEF HandleHeartbeat, HandleWrite, FollowerInv
<1>2. PICK e \in Responses :
        /\ Follows(saved, e) /\ \A u \in e.updates : UpdateDecodable(u)
        /\ follower.event = [ts |-> e.ts, updates |-> DecodedUpdates(e.updates)]
  BY <1>1 DEF FollowerInv
<1>3. LogInv' /\ Reached' = Reached /\ last' = last /\ Follows(saved, e)'
  BY <1>1, <1>2, LogStays DEF Reached, service
<1>4. StreamInv'
  BY <1>1, <1>3, LogStays DEF StreamInv, Chained, Before, Closed, service
<1>5. /\ e.ts = saved => e.updates = {} /\ copy' = copy
      /\ e.ts # saved => saved < last /\ e.ts = saved + 1 /\ CopyAt(saved + 1)'
  <2>1. saved \in 0..last /\ last \in Nat
    BY DEF LogInv
  <2>2. e.updates = {} => copy' = copy
    BY <1>2 DEF HandleHeartbeat, HandleWrite, DecodedUpdates
  <2>3. CASE e.ts = saved
    BY <1>2, <2>1, <2>2, <2>3 DEF Follows
  <2>4. CASE e.ts # saved
    <3>1. saved < last /\ e.ts = saved + 1 /\ e.updates = Watched(updates[saved + 1])
      BY <1>2, <2>4 DEF Follows
    <3> PICK X, Y, us : X = Stored(saved) /\ Y = Stored(saved + 1) /\ us = e.updates
      OBVIOUS
    <3>2. Y = Applied(X, us)
      BY <2>1, <3>1, StoredNext
    <3>3. X \in SUBSET Wires /\ us \in SUBSET WireUpdates
      BY <2>1, StoredWires DEF Responses
    <3>4. copy' = Applied(copy, DecodedUpdates(us))
      <4>1. follower.event.updates = DecodedUpdates(us)
        BY <1>2
      <4>2. CASE HandleHeartbeat
        <5>1. copy' = copy /\ DecodedUpdates(us) = {}
          BY <4>1, <4>2 DEF HandleHeartbeat
        <5> QED BY <5>1, AppliedIs DEF Adds, Dels
      <4>3. CASE HandleWrite
        BY <4>1, <4>3, Zenon DEF HandleWrite
      <4> QED BY <4>2, <4>3
    <3>5. (\A p \in Y : Decodable(p)) /\ copy' = Decoded(Y)
      <4>1. CASE CopyAt(saved)
        BY <1>2, <3>2, <3>3, <3>4, <4>1, DecodedApplied DEF CopyAt
      <4>2. CASE CopyAt(saved + 1)
        <5>1. Applied(Y, us) = Y
          BY <3>2, AppliedTwice
        <5>2. Y \in SUBSET Wires
          BY <2>1, <3>1, StoredWires
        <5> QED BY <1>2, <3>3, <3>4, <4>2, <5>1, <5>2, DecodedApplied DEF CopyAt
      <4> QED BY <4>1, <4>2 DEF CopyInv
    <3>6. Stored(saved + 1)' = Y
      BY <1>1 DEF service, Stored
    <3>7. CopyAt(saved + 1)'
      BY <3>5, <3>6 DEF CopyAt
    <3> QED BY <2>4, <3>1, <3>7
  <2> QED BY <2>3, <2>4
<1>6. CopyInv'
  <2>1. CASE e.ts = saved
    BY <1>1, <1>5, <2>1 DEF CopyInv, CopyAt, Stored, service
  <2>2. CASE e.ts # saved
    BY <1>1, <1>3, <1>5, <2>2 DEF CopyInv
  <2> QED BY <2>1, <2>2
<1>7. FollowerInv'
  <2>1. follower'.event = [ts |-> e.ts, updates |-> DecodedUpdates(e.updates)]
    BY <1>1, <1>2
  <2>2. follower'.event.ts # saved' => CopyAt(follower.event.ts)'
    BY <1>1, <1>5, <2>1
  <2> QED BY <1>1, <1>2, <1>3, <2>1, <2>2 DEF FollowerInv
<1> QED BY <1>3, <1>4, <1>6, <1>7

\* The saved zookie moves to one the copy holds.
LEMMA SaveInv == IInv /\ Save => IInv'
<1> SUFFICES ASSUME IInv, Save PROVE IInv'
  OBVIOUS
<1> USE DEF IInv
<1>1. /\ UNCHANGED <<service, stream, copy>> /\ follower.pc = "handled"
      /\ saved' = follower.event.ts /\ follower' = [pc |-> "receiving", event |-> None]
  BY DEF Save
<1>2. saved' \in 0..last
  BY <1>1, FollowsZookie DEF FollowerInv, LogInv
<1>3. LogInv' /\ \A ts, e : Follows(ts, e)' <=> Follows(ts, e)
  BY <1>1, <1>2 DEF LogInv, service, Follows
<1>4. CopyInv'
  <2>1. CASE saved' = saved
    BY <1>1, <2>1 DEF CopyInv, CopyAt, Stored, service
  <2>2. CASE saved' # saved
    BY <1>1, <2>2 DEF FollowerInv, CopyInv, CopyAt, Stored, service
  <2> QED BY <2>1, <2>2
<1>5. FollowerInv'
  BY <1>1 DEF FollowerInv
<1>6. Reached' = Reached
  BY <1>1 DEF Reached
<1>7. StreamInv'
  BY <1>1, <1>3, <1>6 DEF StreamInv, Chained, Before, service
<1> QED BY <1>3, <1>4, <1>5, <1>7

LEMMA StepInv == IInv /\ [Next]_vars => IInv'
<1> SUFFICES ASSUME IInv, [Next]_vars PROVE IInv'
  OBVIOUS
<1>1. CASE Write
  BY <1>1, WriteInv
<1>2. CASE SendCommit \/ Heartbeat
  BY <1>2, SendInv
<1>3. CASE EndStream("ended") \/ EndStream("broken")
  BY <1>3, EndStreamInv
<1>4. CASE Start \/ ReceiveEnd \/ Crash
  BY <1>4, RestartInv DEF Start, ReceiveEnd, Crash
<1>5. CASE Receive
  BY <1>5, ReceiveInv
<1>6. CASE HandleHeartbeat \/ HandleWrite
  BY <1>6, HandleInv
<1>7. CASE Save
  BY <1>7, SaveInv
<1>8. CASE UNCHANGED vars
  <2>1. UNCHANGED <<service, stream, follower, saved, copy>>
    BY <1>8 DEF vars
  <2>2. LogInv' /\ \A ts, e : Follows(ts, e)' <=> Follows(ts, e)
    BY <2>1, LogStays DEF IInv
  <2>3. CopyInv' /\ FollowerInv'
    BY <2>1, <2>2 DEF IInv, CopyInv, CopyAt, Stored, FollowerInv, service
  <2>4. StreamInv'
    BY <2>1, <2>2 DEF IInv, StreamInv, Chained, Before, Reached, Closed, service
  <2> QED BY <2>2, <2>3, <2>4 DEF IInv
<1> QED BY <1>1, <1>2, <1>3, <1>4, <1>5, <1>6, <1>7, <1>8, Zenon DEF Next, Follow

LEMMA InvSnapshot == IInv => CopyIsASnapshot
<1> SUFFICES ASSUME IInv PROVE CopyIsASnapshot
  OBVIOUS
<1>1. PICK s \in saved..last : CopyAt(s)
  BY DEF IInv, LogInv, CopyInv
<1> PICK X : X = Stored(s)
  OBVIOUS
<1>2. s \in 0..last /\ X \in SUBSET Wires /\ (\A p \in X : Decodable(p)) /\ copy = Decoded(X)
  BY <1>1, StoredWires DEF IInv, LogInv, CopyAt
<1>3. \A p \in X : TupleToPb(TupleFromPb(p)) = p
  BY <1>2, DecodedEncodes DEF Wires
<1>4. Encoded(copy) = X
  BY <1>2, <1>3 DEF Encoded, Decoded
<1> QED BY <1>1, <1>4 DEF CopyIsASnapshot

\* Whatever is committed, and however often the follower crashes or its stream
\* breaks, its copy is a snapshot of the namespace, at its saved zookie or later.
THEOREM SnapshotAlways == Spec => []CopyIsASnapshot
BY InitInv, StepInv, InvSnapshot, PTL DEF Spec
===============================================================================

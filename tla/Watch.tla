-------------------------------- MODULE Watch ---------------------------------
(***************************************************************************)
(* The changelog tail of one namespace (lib.rs:341-372, :676-700) and a    *)
(* follower of it (examples/watch.rs) that keeps a copy of the tuples.     *)
(* The service streams every commit after the start zookie, oldest first,  *)
(* with heartbeats between them; streams end or break; the follower        *)
(* crashes, and resumes from the zookie of the last event it finished.     *)
(***************************************************************************)
EXTENDS CheckService, Sequences

CONSTANTS
  Namespace,   \* the namespace followed
  Batches,     \* the atomic writes committed: sets of updates in their wire form
  MaxQueue,    \* bound: responses on their way
  MaxBreaks    \* bound: streams that end or break, and crashes

\* The log is retained from its beginning.
ASSUME WatchAssumption ==
  /\ MaxQueue \in Nat /\ MaxBreaks \in Nat /\ Initial = {}
  /\ \A us \in Batches : \A u \in us :
       LET p == u.tuple IN
       /\ p = [ns |-> p.ns, obj |-> p.obj, rel |-> p.rel, condition |-> p.condition, user |-> p.user]
       /\ p.condition \in Int \cup {None}

VARIABLES
  stream,    \* the WatchStream and the service's end of it
  follower,  \* where the follower's loop is, and the event it handles
  saved,     \* the zookie it resumes from (survives a crash)
  copy,      \* its copy of the tuples (survives a crash)
  breaks     \* bound: faults so far
vars == <<service, stream, follower, saved, copy, breaks>>

Closed == [state |-> "closed", sent |-> 0, queue |-> <<>>]
Down == [pc |-> "down", event |-> None]

Init ==
  /\ ServiceInit
  /\ stream = Closed
  /\ follower = Down
  /\ saved = EmptyZookie
  /\ copy = {}
  /\ breaks = 0

------------------------------------------------------------------------------
\* The service (external).
Write ==
  /\ \E us \in Batches : Commit(us)
  /\ UNCHANGED <<stream, follower, saved, copy, breaks>>

\* The changes of a commit in the followed namespace.
Watched(us) == {u \in us : u.tuple.ns = Namespace}

Respond(ts, us) ==
  /\ stream.state = "open" /\ Len(stream.queue) < MaxQueue
  /\ stream' = [stream EXCEPT !.sent = ts, !.queue = Append(@, [ts |-> ts, updates |-> us])]
  /\ UNCHANGED <<service, follower, saved, copy, breaks>>

\* The next commit.  One without changes in this namespace is a heartbeat.
SendCommit ==
  /\ stream.sent < last
  /\ Respond(stream.sent + 1, Watched(updates[stream.sent + 1]))

\* Between commits, with the zookie reached.
Heartbeat == stream.sent = last /\ Respond(stream.sent, {})

\* The stream ends cleanly, or breaks, and may lose what is on its way.
EndStream(state) ==
  /\ stream.state = "open" /\ breaks < MaxBreaks
  /\ \E n \in 0..Len(stream.queue) :
       stream' = [stream EXCEPT !.state = state, !.queue = SubSeq(@, 1, n)]
  /\ breaks' = breaks + 1
  /\ UNCHANGED <<service, follower, saved, copy>>

------------------------------------------------------------------------------
\* CheckClient::watch, from the saved zookie.  It may fail, which is no step.
Start ==
  /\ follower.pc = "down"
  /\ stream' = [state |-> "open", sent |-> saved, queue |-> <<>>]
  /\ follower' = [pc |-> "receiving", event |-> None]
  /\ UNCHANGED <<service, saved, copy, breaks>>

Decode(r) == WatchEventFromPb(r)

\* Faulty variant: the loop goes on after a response it could not decode.
ReceiveOrSkip ==
  LET event == Decode(Head(stream.queue)) IN
  /\ follower.pc = "receiving" /\ stream.queue # <<>>
  /\ stream' = [stream EXCEPT !.queue = Tail(@)]
  /\ follower' = IF event = InvalidResponse THEN follower ELSE [pc |-> "handling", event |-> event]
  /\ UNCHANGED <<service, saved, copy, breaks>>

\* WatchStream::recv yields an event, or fails and ends the follower's loop.
Receive ==
  LET event == Decode(Head(stream.queue)) IN
  /\ follower.pc = "receiving" /\ stream.queue # <<>>
  /\ IF event = InvalidResponse
     THEN follower' = Down /\ stream' = Closed
     ELSE /\ follower' = [pc |-> "handling", event |-> event]
          /\ stream' = [stream EXCEPT !.queue = Tail(@)]
  /\ UNCHANGED <<service, saved, copy, breaks>>

\* recv returns Ok(None) or the stream's error: the loop ends.
ReceiveEnd ==
  /\ follower.pc = "receiving" /\ stream.queue = <<>> /\ stream.state \in {"ended", "broken"}
  /\ follower' = Down
  /\ stream' = Closed
  /\ UNCHANGED <<service, saved, copy, breaks>>

\* A heartbeat changes nothing but the zookie.
HandleHeartbeat ==
  /\ follower.pc = "handling" /\ follower.event.updates = {}
  /\ follower' = [follower EXCEPT !.pc = "handled"]
  /\ UNCHANGED <<service, stream, saved, copy, breaks>>

HandleWrite ==
  /\ follower.pc = "handling" /\ follower.event.updates # {}
  /\ copy' = Applied(copy, follower.event.updates)
  /\ follower' = [follower EXCEPT !.pc = "handled"]
  /\ UNCHANGED <<service, stream, saved, breaks>>

\* Faulty variant: the zookie of a heartbeat is not stored.
SaveWritesOnly ==
  /\ follower.pc = "handled"
  /\ saved' = IF follower.event.updates = {} THEN saved ELSE follower.event.ts
  /\ follower' = [pc |-> "receiving", event |-> None]
  /\ UNCHANGED <<service, stream, copy, breaks>>

Save ==
  /\ follower.pc = "handled"
  /\ saved' = follower.event.ts
  /\ follower' = [pc |-> "receiving", event |-> None]
  /\ UNCHANGED <<service, stream, copy, breaks>>

Crash ==
  /\ follower.pc # "down" /\ breaks < MaxBreaks
  /\ follower' = Down
  /\ stream' = Closed
  /\ breaks' = breaks + 1
  /\ UNCHANGED <<service, saved, copy>>

Follow == Start \/ Receive \/ ReceiveEnd \/ HandleHeartbeat \/ HandleWrite \/ Save

Next ==
  \/ Write \/ SendCommit \/ Heartbeat \/ EndStream("ended") \/ EndStream("broken")
  \/ Follow \/ Crash

Spec == Init /\ [][Next]_vars

\* The follower is polled and restarted; the service sends what it has while
\* the stream is open.  Heartbeats, writes and faults need not come.
FairSpec == Spec /\ WF_vars(Follow) /\ WF_vars(SendCommit)

------------------------------------------------------------------------------
Encoded(tuples) == {TupleToPb(t) : t \in tuples}
Stored(s) == {p \in snapshot[s] : p.ns = Namespace}

\* The copy is what the namespace held at the saved zookie or later: no commit
\* is applied in part, left out, passed over because it cannot be decoded, or
\* undone by a resumption that repeats what the follower crashed on
\* (lib.rs:347-351 and :362, iam.proto:163-166).
CopyIsASnapshot == \E s \in saved..last : Encoded(copy) = Stored(s)

\* The commits up to s can be decoded.
Clear(s) == \A i \in 1..s : \A u \in Watched(updates[i]) : UpdateDecodable(u)

\* A follower that restarts gets past every commit it can decode, with
\* crashes and with streams that end, break and lose responses
\* (lib.rs:363-371).
CatchesUp == \A s \in 1..MaxCommits : last >= s /\ Clear(s) ~> saved >= s
===============================================================================

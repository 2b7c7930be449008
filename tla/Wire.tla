--------------------------------- MODULE Wire ---------------------------------
(***************************************************************************)
(* What lib.rs and session.rs make of the protobuf messages, and the       *)
(* reverse.  A DateTime is a number of clock readings, PerSecond of them   *)
(* to the second; on the wire an expiry is a number of seconds.            *)
(***************************************************************************)
EXTENDS Integers

CONSTANTS
  None,             \* absence of an optional field
  InvalidResponse,  \* ReadError::InvalidResponse
  PerSecond,        \* precision of DateTime<Utc>
  Representable     \* the seconds DateTime::from_timestamp accepts

ASSUME WireAssumption ==
  /\ PerSecond \in Nat \ {0} /\ Representable \subseteq Int
  /\ None \notin Int /\ InvalidResponse # None

\* Subjects of tuples.
UserId(u) == [kind |-> "id", id |-> u]
UserSet(ns, obj, rel) == [kind |-> "set", ns |-> ns, obj |-> obj, rel |-> rel]

\* Tuple::new, and with_expires.
Tuple(ns, obj, rel, sbj) ==
  [ns |-> ns, obj |-> obj, rel |-> rel, sbj |-> sbj, condition |-> None]
WithExpires(t, expires) == [t EXCEPT !.condition = expires]

\* The pointer add_parent() writes.
ParentPointer(ns, obj, parentNs, parentObj) ==
  Tuple(ns, obj, "parent", UserSet(parentNs, parentObj, "..."))

Seconds(t) == t \div PerSecond

TupleToPb(t) ==
  [ns |-> t.ns, obj |-> t.obj, rel |-> t.rel, user |-> t.sbj,
   condition |-> IF t.condition = None THEN None ELSE Seconds(t.condition)]

Decodable(p) == p.user # None /\ p.condition \in Representable \cup {None}

TupleFromPb(p) ==
  IF Decodable(p)
  THEN [ns |-> p.ns, obj |-> p.obj, rel |-> p.rel, sbj |-> p.user,
        condition |-> IF p.condition = None THEN None ELSE p.condition * PerSecond]
  ELSE InvalidResponse

\* A whole response fails with its first bad tuple.
ReadFromPb(tuples) ==
  IF \A p \in tuples : Decodable(p) THEN {TupleFromPb(p) : p \in tuples} ELSE InvalidResponse

UpdateDecodable(u) == u.tuple # None /\ Decodable(u.tuple)

\* A batch of changes, in whatever order: it is one atomic write.
WatchEventFromPb(r) ==
  IF \A u \in r.updates : UpdateDecodable(u)
  THEN [ts |-> r.ts,
        updates |-> {[tuple |-> TupleFromPb(u.tuple), deleted |-> u.deleted] : u \in r.updates}]
  ELSE InvalidResponse

\* Read filters; a rel of None means every relation.
ByObject(ns, obj, rel) == [ns |-> ns, by |-> "object", obj |-> obj, rel |-> rel]
ByUser(ns, user_id, rel) ==
  [ns |-> ns, by |-> "user", user |-> UserId(user_id), rel |-> rel]
ByUserSet(ns, set, rel) == [ns |-> ns, by |-> "user", user |-> set, rel |-> rel]

\* What a filter selects of the stored tuples.
Selects(f, p) ==
  /\ p.ns = f.ns
  /\ f.rel \in {None, p.rel}
  /\ IF f.by = "object" THEN p.obj = f.obj ELSE p.user = f.user

\* GrpcFetcher: an outcome it does not know is "not found", and an expiry it
\* cannot represent is the present, so that session has ended.
SessionFromPb(outcome, wall) ==
  IF outcome = None THEN None
  ELSE [principal |-> outcome.principal,
        expires_at |-> IF outcome.expires \in Representable
                       THEN outcome.expires * PerSecond ELSE wall]

\* classify_status: only these let a stale answer stand in for a failed one.
ClassifyStatus(code) ==
  IF code \in {"Unavailable", "DeadlineExceeded"} THEN "transport" ELSE "backend"

\* CheckClient::check: what the service's answer means.
CheckFromPb(resp) ==
  CASE resp.principal # None /\ resp.ok  -> [kind |-> "ok", principal |-> resp.principal]
    [] resp.principal # None /\ ~resp.ok -> [kind |-> "forbidden", principal |-> resp.principal]
    [] resp.principal = None /\ ~resp.ok -> [kind |-> "unknown", principal |-> None]
    [] resp.principal = None /\ resp.ok  -> [kind |-> "malformed", principal |-> None]
===============================================================================

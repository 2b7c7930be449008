------------------------------ MODULE WireProofs ------------------------------
(* What the conversions preserve, for every tuple and every response.        *)
EXTENDS Wire, TLAPS

\* Tuples a caller can hold: an expiry is a DateTime, so its second is one
\* that from_timestamp accepts; no field is "invalid".
Conditions == {c \in Int : Seconds(c) \in Representable} \cup {None}
Tuples(Names, Users) ==
  [ns : Names, obj : Names, rel : Names, sbj : Users, condition : Conditions]
PbTuples(Names, Users) ==
  [ns : Names, obj : Names, rel : Names, user : Users \cup {None}, condition : Int \cup {None}]

LEMMA Truncation ==
  \A c \in Int : /\ Seconds(c) \in Int
                 /\ Seconds(c) * PerSecond <= c
                 /\ c < Seconds(c) * PerSecond + PerSecond
BY WireAssumption, SMT DEF Seconds

LEMMA WholeSeconds == \A s \in Int : Seconds(s * PerSecond) = s
BY WireAssumption, SMT DEF Seconds

\* What a written tuple reads back as: the expiry in whole seconds.
Truncated(t) ==
  [ns |-> t.ns, obj |-> t.obj, rel |-> t.rel, sbj |-> t.sbj,
   condition |-> IF t.condition = None THEN None ELSE Seconds(t.condition) * PerSecond]

\* Every tuple this client writes it can read back, and all that is lost is
\* the fraction of a second of its expiry (tuple_to_pb, tuple_from_pb).
THEOREM RoundTrip ==
  ASSUME NEW Names, NEW Users, None \notin Users, NEW t \in Tuples(Names, Users)
  PROVE  /\ Decodable(TupleToPb(t))
         /\ TupleFromPb(TupleToPb(t)) = Truncated(t)
<1>1. t.sbj # None /\ t.condition \in Conditions
  BY DEF Tuples
<1>2. TupleToPb(t).condition \in Representable \cup {None}
  BY <1>1 DEF TupleToPb, Conditions
<1>3. Decodable(TupleToPb(t))
  BY <1>1, <1>2 DEF Decodable, TupleToPb
<1>4. TupleToPb(t).condition = None <=> t.condition = None
  <2>1. CASE t.condition = None
    BY <2>1 DEF TupleToPb
  <2>2. CASE t.condition # None
    BY <1>1, <2>2, Truncation, WireAssumption DEF TupleToPb, Conditions
  <2> QED BY <2>1, <2>2
<1>5. TupleFromPb(TupleToPb(t)) = Truncated(t)
  BY <1>3, <1>4 DEF TupleFromPb, TupleToPb, Truncated
<1> QED BY <1>3, <1>5

\* A grant never outlives the expiry it was written with, nor does it end a whole
\* second early: an expiry rounded up would let a subject in too long.
THEOREM NeverLater ==
  ASSUME NEW Names, NEW Users, NEW t \in Tuples(Names, Users), t.condition # None
  PROVE  /\ Truncated(t).condition <= t.condition
         /\ t.condition < Truncated(t).condition + PerSecond
<1>1. t.condition \in Int
  BY DEF Tuples, Conditions
<1>2. Truncated(t).condition = Seconds(t.condition) * PerSecond
  BY DEF Truncated
<1> QED BY <1>1, <1>2, Truncation

\* Re-writing what was read changes nothing more: copies of a tuple do not
\* drift.
LEMMA DecodedEncodes ==
  ASSUME NEW Names, NEW Users, NEW p \in PbTuples(Names, Users), Decodable(p)
  PROVE  TupleToPb(TupleFromPb(p)) = p
<1>1. p = [ns |-> p.ns, obj |-> p.obj, rel |-> p.rel, user |-> p.user,
           condition |-> p.condition]
  BY DEF PbTuples
<1>2. TupleFromPb(p) =
        [ns |-> p.ns, obj |-> p.obj, rel |-> p.rel, sbj |-> p.user,
         condition |-> IF p.condition = None THEN None ELSE p.condition * PerSecond]
  BY DEF TupleFromPb
<1>3. CASE p.condition = None
  BY <1>1, <1>2, <1>3 DEF TupleToPb
<1>4. CASE p.condition # None
  <2>1. p.condition \in Int
    BY <1>4 DEF PbTuples
  <2>2. p.condition * PerSecond \in Int /\ p.condition * PerSecond # None
    <3>1. p.condition * PerSecond \in Int
      BY <2>1, WireAssumption, SMT
    <3> QED BY <3>1, WireAssumption
  <2>3. Seconds(p.condition * PerSecond) = p.condition
    BY <2>1, WholeSeconds
  <2> QED BY <1>1, <1>2, <1>4, <2>2, <2>3 DEF TupleToPb
<1> QED BY <1>3, <1>4

\* A read that succeeds returns every tuple of the response, none changed and
\* no two merged (read_with_timestamp): undecodable tuples are never left out.
THEOREM ReadsLoseNothing ==
  ASSUME NEW Names, NEW Users, NEW T \in SUBSET PbTuples(Names, Users),
         \A p \in T : Decodable(p)
  PROVE  {TupleToPb(t) : t \in ReadFromPb(T)} = T
<1>1. ReadFromPb(T) = {TupleFromPb(p) : p \in T}
  BY DEF ReadFromPb
<1>2. \A p \in T : TupleToPb(TupleFromPb(p)) = p
  BY DecodedEncodes
<1> QED BY <1>1, <1>2

\* The same of a watched write: a batch is decoded whole or not at all.
THEOREM BatchesStayWhole ==
  ASSUME NEW Names, NEW Users, NEW r,
         \A u \in r.updates : u = [tuple |-> u.tuple, deleted |-> u.deleted],
         \A u \in r.updates : u.tuple \in PbTuples(Names, Users) \cup {None},
         \A u \in r.updates : UpdateDecodable(u)
  PROVE  LET e == WatchEventFromPb(r) IN
         /\ e.ts = r.ts
         /\ {[tuple |-> TupleToPb(u.tuple), deleted |-> u.deleted] : u \in e.updates} = r.updates
<1> DEFINE decoded(u) == [tuple |-> TupleFromPb(u.tuple), deleted |-> u.deleted]
<1> DEFINE encoded(u) == [tuple |-> TupleToPb(u.tuple), deleted |-> u.deleted]
<1>1. WatchEventFromPb(r) = [ts |-> r.ts, updates |-> {decoded(u) : u \in r.updates}]
  BY DEF WatchEventFromPb
<1>2. \A u \in r.updates : encoded(decoded(u)) = u
  BY DecodedEncodes DEF UpdateDecodable
<1> HIDE DEF decoded, encoded
<1>3. {encoded(v) : v \in {decoded(u) : u \in r.updates}} = r.updates
  <2>1. \A w \in {encoded(v) : v \in {decoded(u) : u \in r.updates}} : w \in r.updates
    BY <1>2
  <2>2. \A u \in r.updates : decoded(u) \in {decoded(v) : v \in r.updates}
    OBVIOUS
  <2>3. \A u \in r.updates : u \in {encoded(v) : v \in {decoded(w) : w \in r.updates}}
    BY <1>2, <2>2
  <2> QED BY <2>1, <2>3
<1> USE DEF decoded, encoded
<1> QED BY <1>1, <1>3
===============================================================================

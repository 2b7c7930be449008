----------------------------- MODULE CheckService -----------------------------
(***************************************************************************)
(* The check service as its clients see it (external): a sequence of       *)
(* atomic commits, each leaving a snapshot of the stored tuples.  The      *)
(* zookie of a snapshot is the number of commits it contains; the empty    *)
(* zookie is 0.  Rewrite rules are not evaluated: a relation holds for the *)
(* subjects its tuples name.                                               *)
(***************************************************************************)
EXTENDS Wire

CONSTANTS
  Initial,    \* the tuples stored at the empty zookie
  MaxCommits  \* bound: commits of a behaviour

ASSUME CommitAssumption == MaxCommits \in Nat

VARIABLES
  last,      \* zookie of the newest snapshot
  snapshot,  \* zookie -> the tuples stored then
  updates    \* zookie -> the changes committed with it
service == <<last, snapshot, updates>>

EmptyZookie == 0

ServiceInit == last = 0 /\ snapshot = [s \in {0} |-> Initial] /\ updates = [s \in {0} |-> {}]

\* A set of changes applied at once; no tuple is both added and deleted.
Applied(tuples, us) ==
  (tuples \ {u.tuple : u \in {v \in us : v.deleted}}) \cup {u.tuple : u \in {v \in us : ~v.deleted}}

Commit(us) ==
  /\ last < MaxCommits
  /\ last' = last + 1
  /\ snapshot' = [s \in 0..last + 1 |->
                    IF s <= last THEN snapshot[s] ELSE Applied(snapshot[last], us)]
  /\ updates' = [s \in 0..last + 1 |-> IF s <= last THEN updates[s] ELSE us]
===============================================================================

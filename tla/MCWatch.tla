------------------------------- MODULE MCWatch --------------------------------
(* Instances of Watch for TLC.                                                *)
EXTENDS Watch

Stores(t) == [tuple |-> TupleToPb(t), deleted |-> FALSE]
Removes(t) == [tuple |-> TupleToPb(t), deleted |-> TRUE]

Viewer(u) == Tuple("doc", "o", "viewer", UserId(u))
Elsewhere == Tuple("team", "o", "member", UserId("a"))
OutOfRange == WithExpires(Viewer("c"), 198)

\* A tuple stored, replaced by another in one write, a commit elsewhere, and a
\* write half of which cannot be decoded.
MCBatches ==
  {{Stores(Viewer("a"))}, {Removes(Viewer("a")), Stores(Viewer("b"))},
   {Stores(Elsewhere)}, {Stores(Viewer("a")), Stores(OutOfRange)}}
===============================================================================

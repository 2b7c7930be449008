---------------------------- MODULE MCCheckClient -----------------------------
(* Instances of CheckClient for TLC.                                          *)
EXTENDS CheckClient, TLC

\* A grant that ends between two seconds, the same one that ends a little sooner
\* and is written alike, and a grant to everyone.
Later    == WithExpires(Tuple("doc", "o", "viewer", UserId("a")), 3)
Sooner   == WithExpires(Tuple("doc", "o", "viewer", UserId("a")), 2)
Everyone == Tuple("doc", "o", "viewer", UserId("allUsers"))

Pointer  == ParentPointer("doc", "o", "doc", "o")

\* One tuple, or two for two: a grant to everyone and a sooner end of the other
\* one for the grant and the pointer, ...
MCWrites ==
  {Writing({Later}, {}), Writing({}, {Later}), Writing({Everyone, Sooner}, {Later, Pointer})}
\* ... and tuples of other clients that this one cannot decode.
MCForeign == {[TupleToPb(Tuple("doc", "o", "viewer", UserId("b"))) EXCEPT !.condition = 99]}

\* The grant to one user is stored at first.
MCInitial == {TupleToPb(Later)}

Symmetric == Permutations(Tasks)
===============================================================================

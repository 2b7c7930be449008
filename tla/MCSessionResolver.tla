-------------------------- MODULE MCSessionResolver ---------------------------
(* Instances of SessionResolver for TLC.  Callers are interchangeable and so  *)
(* are the identities of fills.                                               *)
EXTENDS ResolverContract, TLC

Symmetric ==
  Permutations(Hashes) \cup Permutations(Calls) \cup Permutations(Flights)
==============================================================================

------------------------------ MODULE MCSignOut -------------------------------
(* Instances of SignOut for TLC.                                              *)
EXTENDS SignOut, TLC

Symmetric == Permutations(Calls) \cup Permutations(Flights)
==============================================================================

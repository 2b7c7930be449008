--------------------------- MODULE MCSessionHistory --------------------------
(* Instances of SessionHistory for TLC.                                       *)
EXTENDS SessionHistory, TLC

Symmetric == Permutations(Calls) \cup Permutations(Flights)
==============================================================================

--------------------------- MODULE SessionHistory ----------------------------
(***************************************************************************)
(* SessionResolver with a record of what its callers were told: seen is    *)
(* the newest version of each session any finished resolve() returned, and *)
(* floor is what a caller's seen was when its call began.                  *)
(***************************************************************************)
EXTENDS SessionResolver, FiniteSetsExt

VARIABLES seen, floor
hvars == <<vars, seen, floor>>

HInit ==
  /\ Init
  /\ seen = [h \in Hashes |-> 0]
  /\ floor = [c \in Calls |-> 0]

\* The versions of h among the finished calls of the next state.
Returned(h) ==
  {call'[c].result.ans.ver : c \in {d \in Calls :
     call'[d].pc = "done" /\ call'[d].hash = h /\ call'[d].result.ans # None}}

HNext ==
  /\ Next
  /\ seen' = [h \in Hashes |-> Max({seen[h]} \cup Returned(h))]
  /\ floor' = [c \in Calls |->
                 IF call[c].pc # "lookup" /\ call'[c].pc = "lookup"
                 THEN seen[call'[c].hash]
                 ELSE IF call'[c].pc = "idle" THEN 0 ELSE floor[c]]

HSpec == HInit /\ [][HNext]_hvars

\* Resolves of one token never go back in time: a call that begins after some
\* resolve() returned a state of the session is not answered with an older
\* one, by a hit, a joined fill or a stale entry.
MonotonicReads ==
  \A c \in Calls :
    call[c].pc = "done" /\ call[c].result.ans # None =>
      floor[c] <= call[c].result.ans.ver
==============================================================================

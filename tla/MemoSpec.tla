------------------------------- MODULE MemoSpec -------------------------------
(***************************************************************************)
(* What a request memo promises: within a request a question has at most   *)
(* one decision, and whoever is told a decision on it is told that one.    *)
(***************************************************************************)
CONSTANTS Tasks, Questions, Decisions, None

VARIABLES decision,  \* question -> its decision in this request, or None
          view       \* task -> [question, state, answer]: what it asked and was told
vars == <<decision, view>>

Silent == [question |-> None, state |-> "silent", answer |-> None]

Init == decision = [q \in Questions |-> None] /\ view = [t \in Tasks |-> Silent]

Ask(t, q) ==
  /\ view[t].state # "asking"
  /\ view' = [view EXCEPT ![t] = [question |-> q, state |-> "asking", answer |-> None]]
  /\ UNCHANGED decision

\* The question's decision is the one it has, or is taken now.
Tell(t, d) ==
  LET q == view[t].question IN
  /\ view[t].state = "asking"
  /\ decision[q] \in {None, d}
  /\ decision' = [decision EXCEPT ![q] = d]
  /\ view' = [view EXCEPT ![t] = [question |-> q, state |-> "told", answer |-> d]]

\* A failure is told to one task and decides nothing.
Fail(t) ==
  /\ view[t].state = "asking"
  /\ view' = [view EXCEPT ![t].state = "failed"]
  /\ UNCHANGED decision

Leave(t) ==
  /\ view[t].state = "asking"
  /\ view' = [view EXCEPT ![t] = Silent]
  /\ UNCHANGED decision

Next ==
  \E t \in Tasks :
    \/ \E q \in Questions : Ask(t, q)
    \/ \E d \in Decisions : Tell(t, d)
    \/ Fail(t)
    \/ Leave(t)

Spec == Init /\ [][Next]_vars
==============================================================================

SPECIFICATION FairSpec
CONSTANTS
  Tasks = {t1, t2, t3}
  Questions = {q1, q2}
  Decisions = {allow, deny}
  None = None
  MaxAsks = 5
INVARIANTS TypeOK OneRpcPerQuestion HitsAreServed
PROPERTIES KeepsPromise QueueMovesOn
CHECK_DEADLOCK FALSE

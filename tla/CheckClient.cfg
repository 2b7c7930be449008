SPECIFICATION Spec
CONSTANTS
  None = None
  InvalidResponse = InvalidResponse
  PerSecond = 2
  Representable = {0, 1, 2}
  Initial <- MCInitial
  MaxCommits = 3
  Tasks = {t1, t2}
  Namespaces = {"doc"}
  Objects = {"o"}
  Rels = {"viewer"}
  Users = {"a"}
  Writes <- MCWrites
  Foreign <- MCForeign
  Failed = Failed
  MaxCalls = 3
SYMMETRY Symmetric
INVARIANTS ReadYourWrites ReadsAreWhole NoLostUpdate WritesAreWhole NoNewEnemy
CHECK_DEADLOCK FALSE

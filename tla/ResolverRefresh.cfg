SPECIFICATION Spec
CONSTANTS
  Hashes = {h1, h2}
  Calls = {c1}
  Flights = {f1, f2}
  None = None
  Capacity = 1
  L1Ttl = 11
  NegTtl = 1
  StaleIfError = 10
  FetchTimeout = 10
  Jitters = {100}
  Expiries = {15}
  Skews = {0, 10}
  Steps = {10}
  MaxNow = 20
  MaxVersion = 0
  MaxRefreshers = 1
SYMMETRY Symmetric
INVARIANTS TypeOK OneFillPerHash AnswerAge CacheWithinCapacity
PROPERTY KeepsContract

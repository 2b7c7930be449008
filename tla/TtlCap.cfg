SPECIFICATION Spec
CONSTANTS
  Hashes = {h1}
  Calls = {c1}
  Flights = {f1, f2}
  None = None
  Capacity = 1
  L1Ttl = 1
  NegTtl = 1
  StaleIfError = 0
  FetchTimeout = 2
  Jitters = {80, 100}
  Expiries = {3, 9}
  Skews = {0}
  Steps = {1}
  MaxNow = 4
  MaxVersion = 1
  MaxRefreshers = 1
INVARIANT TtlIsHardCap

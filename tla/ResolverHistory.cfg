SPECIFICATION HSpec
CONSTANTS
  Hashes = {h1}
  Calls = {c1, c2}
  Flights = {f1, f2}
  None = None
  Capacity = 1
  L1Ttl = 2
  NegTtl = 1
  StaleIfError = 1
  FetchTimeout = 1
  Jitters = {80, 100}
  Expiries = {2}
  Skews = {0}
  Steps = {1}
  MaxNow = 3
  MaxVersion = 1
  MaxRefreshers = 1
SYMMETRY Symmetric
INVARIANTS MonotonicReads NoSessionBeyondItsEnd OneFillPerHash AnswerAge FreshMeansLive
PROPERTY CacheNeverGoesBack

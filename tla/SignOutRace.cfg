SPECIFICATION SSpec
CONSTANTS
  Hashes = {h1}
  Calls = {c1}
  Flights = {f1, f2}
  None = None
  Capacity = 1
  L1Ttl = 1
  NegTtl = 1
  StaleIfError = 0
  FetchTimeout = 1
  Jitters = {100}
  Expiries = {9}
  Skews = {0}
  Steps = {1}
  MaxNow = 3
  MaxVersion = 1
  MaxRefreshers = 1
SYMMETRY Symmetric
INVARIANT NextResolveNotFound

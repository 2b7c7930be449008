SPECIFICATION SSpec
CONSTANTS
  Hashes = {h1}
  Calls = {c1}
  Flights = {f1, f2}
  None = None
  Capacity = 1
  L1Ttl = 11
  NegTtl = 1
  StaleIfError = 10
  FetchTimeout = 10
  Jitters = {100}
  Expiries = {60}
  Skews = {0}
  Steps = {10}
  MaxNow = 50
  MaxVersion = 1
  MaxRefreshers = 1
SYMMETRY Symmetric
INVARIANTS QuietSignOutIsFinal RevocationReaches

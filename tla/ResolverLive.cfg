SPECIFICATION FairSpec
CONSTANTS
  Hashes = {h1}
  Calls = {c1, c2}
  Flights = {f1, f2}
  None = None
  Capacity = 1
  L1Ttl = 11
  NegTtl = 1
  StaleIfError = 0
  FetchTimeout = 10
  Jitters = {100}
  Expiries = {15}
  Skews = {0}
  Steps = {10}
  MaxNow = 10
  MaxVersion = 1
  MaxRefreshers = 1
PROPERTIES EveryCallAnswered FlightsEnd KeepsContract

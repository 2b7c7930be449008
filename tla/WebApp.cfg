SPECIFICATION Spec
CONSTANTS
  None = None
  InvalidResponse = InvalidResponse
  PerSecond = 1
  Representable = {0, 1, 2, 3}
  Tokens = {k1}
  Alice = Alice
  Bob = Bob
  AllUsers = AllUsers
  SessionTtl = 1
  MaxNow = 1
  r1 = r1
  r2 = r2
  Requests = {r1, r2}
  NotOffered <- MCNotOffered
  Codes = {"Unavailable", "Internal"}
  OtherRoutes <- MCOtherRoutes
  Traffic <- MCTraffic
INVARIANTS AdmittedWasAllowed ChecksAreOwned UnauthenticatedIsTrue LateIsRefused

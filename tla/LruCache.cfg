SPECIFICATION Spec
CONSTANTS
  Hashes = {h1, h2, h3}
  Entries = {e1, e2}
  NoEntry = NoEntry
  Capacities = {0, 1, 2}
  MaxGen = 8
INVARIANTS IndexAgrees WithinCapacity
PROPERTY RefinesLru

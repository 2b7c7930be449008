SPECIFICATION FairSpec
CONSTANTS
  None = None
  InvalidResponse = InvalidResponse
  PerSecond = 2
  Representable = {0, 1, 2}
  Initial = {}
  MaxCommits = 3
  Namespace = "doc"
  Batches <- MCBatches
  MaxQueue = 2
  MaxBreaks = 2
INVARIANT CopyIsASnapshot
PROPERTY CatchesUp

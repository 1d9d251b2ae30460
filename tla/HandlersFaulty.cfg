SPECIFICATION FairSpec
CONSTANTS
  Workers = {w1, w2}
  Paths <- TwoPaths
  Chunks <- AllChunks
  Contents <- OneContents
  StartsWith <- Prefixed
  ClientEnds = {"stays", "resets", "stalls"}
  DiskFaults = TRUE
  ClockSteps <- Repeating
  MaxCrashes = 0
  short = short
  long = long
  x1 = x1
  x2 = x2
  y1 = y1
INVARIANT GetIsSnapshot
PROPERTY EveryRequestEnds

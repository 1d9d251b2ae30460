SPECIFICATION FairSpec
CONSTANTS
  Workers = {w1, w2}
  Paths <- OnePath
  Chunks <- AllChunks
  Contents <- TwoContents
  StartsWith <- Alone
  ClientEnds = {"stays", "closes"}
  DiskFaults = FALSE
  ClockSteps <- Advancing
  MaxCrashes = 0
  short = short
  long = long
  x1 = x1
  x2 = x2
  y1 = y1
PROPERTY ReceiveLoopEnds

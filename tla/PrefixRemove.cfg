SPECIFICATION Spec
CONSTANTS
  Workers = {w1, w2}
  Paths <- TwoPaths
  Chunks <- AllChunks
  Contents <- TwoContents
  StartsWith <- Prefixed
  ClientEnds = {"stays"}
  DiskFaults = FALSE
  ClockSteps <- Advancing
  MaxCrashes = 0
  short = short
  long = long
  x1 = x1
  x2 = x2
  y1 = y1
SYMMETRY Symmetry
PROPERTY RemovesOwnVersions

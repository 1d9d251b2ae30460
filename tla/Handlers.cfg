SPECIFICATION Spec
CONSTANTS
  Workers = {w1, w2, w3}
  Paths <- OnePath
  Chunks <- AllChunks
  Contents <- TwoContents
  StartsWith <- Alone
  ClientEnds = {"stays", "closes"}
  DiskFaults = FALSE
  ClockSteps <- Advancing
  MaxCrashes = 1
  short = short
  long = long
  x1 = x1
  x2 = x2
  y1 = y1
SYMMETRY Symmetry
INVARIANTS TypeOK AckedRecoverable WriteStatusTruthful GetIsSnapshot RemoveErasesHistory NoFileNoHistory
PROPERTIES ImplementsStore

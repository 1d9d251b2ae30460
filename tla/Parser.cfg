SPECIFICATION FairSpec
CONSTANTS
  Workers = {w1, w2}
  Nobody = Nobody
  Requests <- SomeRequests
  DiskFaults = FALSE
INVARIANTS TypeOK UndisturbedParse OwnCommand UndisturbedDirectories
PROPERTIES OnlyDisturbedTouchTheDead EveryLoopEnds

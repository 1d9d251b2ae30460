SPECIFICATION OrderedSpec
CONSTANTS
  Workers <- ThreeWorkers
  Paths <- ThreePaths
INVARIANTS TypeOK ListWellFormed OneLockPerPath PathExclusion PointerStillValid IInv
PROPERTIES ImplementsTable EveryConnectionCloses

SPECIFICATION FairSpec
CONSTANTS
  Clients <- ThreeClients
  Descriptors <- ThreeDescriptors
  Blocks <- FourBlocks
  Backlog = 2
INVARIANTS TypeOK OwnSocket EveryDescriptorOwned ArgsIntact
PROPERTIES StopsOnlyWhenBusy EveryClientAnswered

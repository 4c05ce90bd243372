CONSTANTS
  NumStripes = 4
  NumBlocks = 2
  Nodes = {n1, n2, n3}
  FailNode = n1
  BatchSize = 2
  Placements <- MCPlacements
SPECIFICATION FairSpec
CHECK_DEADLOCK FALSE
INVARIANT TypeOK
INVARIANT StripeOwnership
INVARIANT NoUseAfterFree
INVARIANT AllRebuiltAtReturn
PROPERTY ImplementsRepairJob
PROPERTY EveryLostStripeRebuilt

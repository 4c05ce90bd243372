CONSTANTS
  ecn = 3
  ecw = 1
  Joins <- MCJoins
  MaxJoins = 4
  FailSets = {{0}, {0, 1}}
SPECIFICATION MCSpec
INVARIANT RepairsTheData
INVARIANT ReadsSurvivors
INVARIANT FitForTasks
INVARIANT PruneKeepsTheRepair
INVARIANT ChildrenFirst
PROPERTY SortsEnd
CHECK_DEADLOCK FALSE

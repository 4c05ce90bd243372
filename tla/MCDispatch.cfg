CONSTANTS
  n1 = n1
  n2 = n2
  n3 = n3
  Nodes = {n1, n2, n3}
  BatchIds = {0, 1}
  StripeIds = {0, 1, 2}
  DagIdxs = {7, 8}
  CurIds = {1, 2}
  Jobs <- MCJobs
SPECIFICATION FairSpec
INVARIANT TypeOK
INVARIANT RunsThePlan
INVARIANT NothingLeftBetweenRounds
INVARIANT PacketsOfTheRound
PROPERTY ImplementsRounds
PROPERTY EveryRoundEnds

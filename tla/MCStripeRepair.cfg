CONSTANTS
  n0 = n0
  n1 = n1
  n2 = n2
  Nodes = {n0, n1, n2}
  Vertices <- MCVertices
  Src <- MCSrc
  ecn = 3
  ecw = 2
  HashOrder <- MCHashOrder
  Fail2Repair <- MCFail2Repair
  PktNum = 2
  SendWindow = 1
  FailBlock = 2
  Colorings <- MCColorings
  BadBlocks = {}
SPECIFICATION MCFairSpec
INVARIANT TypeOK
INVARIANT QueuesAreWired
INVARIANT NothingLeft
INVARIANT NoFalseFinish
PROPERTY ImplementsBlockRepair
PROPERTY EndsRepaired

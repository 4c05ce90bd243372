CONSTANTS
  V = 3
  ecn = 3
  failNodeId = 1
  Unit = 2
  Rules = {"load", "threshold"}
  Evaluations <- MCEvaluations
  Methods = {"centralize", "pararc", "affinaty", "dynamic", "dynamic2"}
  Uninitialised = {0, 32759, 32767}
SPECIFICATION MCSpec
INVARIANT CurveIsAFront
INVARIANT NoBetterNeighbor
INVARIANT UncoloredIsZero
INVARIANT SlowIsNotRepaired

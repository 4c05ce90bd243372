CONSTANTS
  V = 3
  ecn = 3
  failNodeId = 1
  Unit = 2
  Rules = {"load", "threshold"}
  Evaluations <- MCEvaluations
  Methods = {"dynamic2"}
  Uninitialised = {0, 32759, 32767}
SPECIFICATION MCSpec
INVARIANT ColorsTheBlankNodes

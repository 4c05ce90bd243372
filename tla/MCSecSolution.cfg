CONSTANTS
  agents_num = 6
  ecn = 3
  ecw = 1
  fail_node_id = 0
  Cluster <- MCAgents
  RepairDag <- MCDag
  StripeLists <- MCStripeLists
SPECIFICATION Spec
INVARIANT FlowIsMaximal
INVARIANT BatchesAreSound

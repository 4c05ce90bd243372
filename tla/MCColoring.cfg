CONSTANTS
  Cluster <- MCCluster
  agents_num = 5
  standby_size = 2
  ecn = 3
  ecw = 2
  fail_node_id = 0
  RepairDag <- MCRepairDag
  Offline <- MCOffline
  Placements <- MCPlacements
  MaxStripes = 2
  Solutions = {"cent", "offline", "balance", "parallel", "dynamic"}
  Scenarios = {"scatter", "standby"}
  MaxColorings = 4
SPECIFICATION Spec
INVARIANT LoadsAreExact
INVARIANT TableIsTheSum
INVARIANT UncoloredIsZero

CONSTANTS
  Cluster <- MCCluster
  agents_num = 8
  ecn = 3
  ecw = 1
  fail_node_id = 0
  Loads <- MCLoads
  MinOutput <- MCMinOutput
  Sources <- MCSources
  Modes = {"improve", "enqueue"}
  StripeLists <- MCStripeLists
  Improved <- MCImproved
SPECIFICATION Spec
CHECK_DEADLOCK FALSE
INVARIANT MatchingIsExact
INVARIANT EachStripeOnce
INVARIANT BestIsTheHeads
PROPERTY BenefitIsKept
PROPERTY WaitingIsServed

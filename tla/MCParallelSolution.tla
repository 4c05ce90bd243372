------------------------- MODULE MCParallelSolution -------------------------
(***************************************************************************)
(* Stripes of 3 blocks on 8 agents, two to a group; node 0 has failed.     *)
(* All lists of four stripes from seven placements are grouped; a few      *)
(* lists, some with a stripe that has lost nothing, behind the others or   *)
(* before one of them, are improved and delivered as well.  A stripe is    *)
(* repaired directly, or through the first of its two other nodes; the new *)
(* node is the first or the last one it may be.  A stripe that has lost    *)
(* nothing loads no node.                                                  *)
(***************************************************************************)
EXTENDS ParallelSolution, FiniteSets, FiniteSetsExt

MCCluster == 0 .. agents_num - 1

With(S) == {{fail_node_id} \cup p : p \in S}
Affected == [1 .. 4 -> With({{1, 2}, {2, 3}, {3, 4}, {1, 4}, {4, 5}, {1, 6}, {5, 6}})]

MCImproved ==
  {<<{0, 1, 2}, {0, 3, 4}, {0, 1, 3}>>, <<{0, 1, 2}, {0, 1, 3}, {0, 1, 4}>>,
   <<{0, 1, 2}, {0, 1, 2}, {0, 3, 4}, {1, 2, 3}>>,
   <<{1, 2, 3}, {0, 1, 2}, {0, 3, 4}>>, <<{0, 1, 2}, {1, 2, 3}, {0, 1, 4}, {0, 1, 3}>>}
MCStripeLists == Affected \cup MCImproved

Direct(p, n) == [a \in MCCluster |-> [in  |-> IF a = n THEN 2 ELSE 0,
                                      out |-> IF a \in p \ {0} THEN 1 ELSE 0]]
Via(p, n) == [a \in MCCluster |-> [in  |-> IF a \in {n, Min(p \ {0})} THEN 1 ELSE 0,
                                   out |-> IF a \in p \ {0} THEN 1 ELSE 0]]
NewNodes(p) == MCCluster \ ({0} \cup p)
MCLoads(p) ==
  IF 0 \in p
    THEN {Direct(p, Min(NewNodes(p))), Via(p, Min(NewNodes(p))), Via(p, Max(NewNodes(p)))}
    ELSE {NoLoad}
MCMinOutput(p) == 1

\* erase(end()), where it does no more than drop the last one
MCSources(p) == p \ {IF 0 \in p THEN 0 ELSE Max(p)}
=============================================================================

---------------------------- MODULE SecSolution -----------------------------
(***************************************************************************)
(* SecSolution (SelectiveEC): batches of stripes that are repaired at      *)
(* their new node from all other blocks.  A first network selects stripes  *)
(* such that no node sends more than n-1 blocks; a stripe with too few     *)
(* helpers left is exchanged for a waiting one as long as that looks       *)
(* better.  A second network gives each selected stripe a new node of its  *)
(* own; the code asserts that it can.                                      *)
(***************************************************************************)
EXTENDS FlowGraph, StripeLoad

CONSTANTS agents_num, ecn, ecw,
          fail_node_id,
          RepairDag(_),    \* lost block -> its repair DAG
          StripeLists      \* sequences of placements, stripe 1 first

Agents == 0 .. agents_num - 1
Blocks == 0 .. ecn - 1

ASSUME SecSolutionAssumption ==
  /\ Cluster = Agents /\ fail_node_id \in Agents /\ ecn > 1
  /\ \A list \in StripeLists : \A s \in DOMAIN list :
       /\ list[s] \in [Blocks -> Agents]
       /\ \A a, b \in Blocks : list[s][a] = list[s][b] => a = b

VARIABLES
  place,      \* _nodelist of each stripe
  phase,      \* "start", "helpers" (first network), "nodes" (second), "done", "aborted"
  current,    \* curstripemap
  pending,    \* pendingmap
  graph,      \* flowgraph, then placement_flowgraph
  path,       \* what bfs found in it: the next path of findMaxFlow
  chosen,     \* choose_stripeid_list
  newNode,    \* _new_node of each stripe
  load,       \* _in and _out of each stripe
  batches     \* _batch_list

vars == <<place, phase, current, pending, graph, path, chosen, newNode, load, batches>>

Nodes(s) == {place[s][b] : b \in Blocks}
Helpers(s) == Nodes(s) \ {fail_node_id}
Candidates(s) == Agents \ Nodes(s)

\* The first network: from whom each stripe of S reads, n-1 blocks from each node.
HelperGraph(S) == Graph([s \in S |-> Helpers(s)], ecn - 1)
\* The second: where its repaired block may go, one to each node.
NodeGraph(S) == Graph([s \in S |-> Candidates(s)], 1)

Lost(s) == CHOOSE b \in Blocks : place[s][b] = fail_node_id

\* filterFailedStripes
Affected == {s \in DOMAIN place : fail_node_id \in Nodes(s)}
\* schedule_map; remaining_stripes counts the others.
Scheduled == UNION ToSet(batches)
NoGraph == NodeGraph({})

Init ==
  /\ place \in StripeLists
  /\ phase = "start" /\ current = {} /\ pending = {} /\ chosen = {}
  /\ graph = NoGraph /\ path = {}
  /\ newNode = [s \in DOMAIN place |-> NoColor]
  /\ load = [s \in DOMAIN place |-> NoLoad]
  /\ batches = <<>>
-----------------------------------------------------------------------------
\* Mutant: stripes of earlier batches are taken again.
StartBatchAll ==
  /\ phase = "start" /\ Affected # Scheduled
  /\ LET rest  == Ascending(Affected)
         first == {rest[i] : i \in 1 .. Min({Len(rest), agents_num - 1})}
     IN  /\ current' = first
         /\ pending' = Affected \ first
         /\ graph' = HelperGraph(first) /\ path' = PathOf(graph')
  /\ phase' = "helpers"
  /\ UNCHANGED <<place, chosen, newNode, load, batches>>

\* The first stripes that are left, up to one less than there are agents.
StartBatch ==
  /\ phase = "start" /\ Affected # Scheduled
  /\ LET rest  == Ascending(Affected \ Scheduled)
         first == {rest[i] : i \in 1 .. Min({Len(rest), agents_num - 1})}
     IN  /\ current' = first
         /\ pending' = ToSet(rest) \ first
         /\ graph' = HelperGraph(first) /\ path' = PathOf(graph')
  /\ phase' = "helpers"
  /\ UNCHANGED <<place, chosen, newNode, load, batches>>

\* One round of findMaxFlow.
Augment ==
  /\ phase \in {"helpers", "nodes"}
  /\ path # {}
  /\ graph' = Push(graph, path) /\ path' = PathOf(graph')
  /\ UNCHANGED <<place, phase, current, pending, chosen, newNode, load, batches>>

\* The stripes for which the one of least flow may be exchanged.
LessFull ==
  {s \in pending : FullNodeNum(graph, Helpers(s))
                     < FullNodeNum(graph, Helpers(StripeWithMinFlow(graph)))}

\* It is not tried again for this batch.
PendingAfter(s) == pending \ {s}

(***************************************************************************)
(* The stripe of least flow makes way for the first of pendingmap, in hash *)
(* order, that has fewer full nodes; then everything is solved anew.       *)
(***************************************************************************)
Swap ==
  /\ phase = "helpers" /\ path = {} /\ ~IsSaturated(graph)
  /\ \E s \in LessFull :
       /\ pending' = PendingAfter(s)
       /\ current' = (current \ {StripeWithMinFlow(graph)}) \cup {s}
  /\ graph' = HelperGraph(current') /\ path' = PathOf(graph')
  /\ UNCHANGED <<place, phase, chosen, newNode, load, batches>>

Choose ==
  /\ phase = "helpers" /\ path = {}
  /\ IsSaturated(graph) \/ LessFull = {}
  /\ chosen' = ChooseStripes(graph)
  /\ graph' = NodeGraph(chosen') /\ path' = PathOf(graph')
  /\ phase' = "nodes"
  /\ UNCHANGED <<place, current, pending, newNode, load, batches>>

\* genCentralizedColoringForSingleFailure: what is not read is at the new node.
CentralColoring(s, n) ==
  LET d == RepairDag(Lost(s))
  IN  [v \in Ids(d) |->
         CASE v \notin ToSet(d.leaves) -> n
           [] v \div ecw < ecn         -> place[s][v \div ecw]
           [] OTHER                    -> NoColor]

\* The new nodes, the colouring and its load, the batch.
Assign ==
  /\ phase = "nodes" /\ path = {}
  /\ LET sid2nid == RepairNodes(graph)
         nodeOf  == [s \in {x[1] : x \in sid2nid} |-> (CHOOSE x \in sid2nid : x[1] = s)[2]]
     IN  IF DOMAIN nodeOf = chosen
         THEN /\ newNode' = nodeOf @@ newNode
              /\ load' = [s \in chosen |-> Evaluate(RepairDag(Lost(s)),
                                                    CentralColoring(s, nodeOf[s]))] @@ load
              /\ batches' = Append(batches, chosen)
              /\ phase' = "start"
         ELSE /\ phase' = "aborted"
              /\ UNCHANGED <<newNode, load, batches>>
  /\ graph' = NoGraph /\ path' = {} /\ chosen' = {} /\ current' = {} /\ pending' = {}
  /\ UNCHANGED place

\* _finish_gen_batches is set.
Finish ==
  /\ phase = "start" /\ Affected = Scheduled
  /\ phase' = "done"
  /\ UNCHANGED <<place, current, pending, graph, path, chosen, newNode, load, batches>>

Stopped == phase \in {"done", "aborted"} /\ UNCHANGED vars

Next == StartBatch \/ Augment \/ Swap \/ Choose \/ Assign \/ Finish \/ Stopped

Spec == Init /\ [][Next]_vars
-----------------------------------------------------------------------------
(***************************************************************************)
(* The flow that is found is a maximum: no smaller cut separates the       *)
(* stripes from the sink.  A flow that is less leaves stripes out of the   *)
(* batch that would fit, or fails the assertion where nodes exist.         *)
(***************************************************************************)
FlowIsMaximal ==
  phase \in {"helpers", "nodes"} /\ path = {} => graph.flow = MinCut(graph)

(***************************************************************************)
(* Every affected stripe is in one batch, and no batch is empty: the loop  *)
(* over what remains makes progress only because the first stripe always   *)
(* gets all its helpers.  And what SelectiveEC promises of a batch: no     *)
(* node sends or receives more than n-1 blocks, and the repaired blocks go *)
(* to different nodes, none of which has a block of the stripe.  (That the *)
(* second network finds these nodes is asserted, but not always so: then   *)
(* the process ends, and there is no such batch.)                          *)
(***************************************************************************)
BatchesAreSound ==
  /\ \A i, j \in DOMAIN batches : i # j => batches[i] \cap batches[j] = {}
  /\ \A i \in DOMAIN batches : batches[i] # {}
  /\ phase = "done" => Scheduled = Affected
  /\ \A b \in ToSet(batches) :
       /\ StateOf(SumOfLoads([i \in 1 .. Cardinality(b) |-> load[Ascending(b)[i]]]), Agents).load
            <= (ecn - 1) * ecw
       /\ \A s \in b : newNode[s] \in Candidates(s)
       /\ \A s, r \in b : r # s => newNode[r] # newNode[s]
=============================================================================

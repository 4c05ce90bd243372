------------------------------ MODULE Coloring ------------------------------
(***************************************************************************)
(* How the solutions choose the node of every vertex, for the stripes of a *)
(* batch one after the other: all at the repair node (CentSolution), as an *)
(* offline file says (OfflineSolution), or vertex by vertex where the      *)
(* batch is loaded least (BalanceSolution, ParallelSolution: GloballyMLP). *)
(* ParallelSolution colours from the file first, at a new node that the    *)
(* batch does not use if there is one, and vertex by vertex when it tries  *)
(* a stripe in another batch.  DynamicSolution, for one stripe, moves      *)
(* vertices of a finished colouring to idle nodes and back                 *)
(* (useIdleNodes1ForSingleFailure, whose call is commented out): the only  *)
(* code that changes a colour once given.  How it colours at first is not  *)
(* its own here, but that of a file.                                       *)
(***************************************************************************)
EXTENDS StripeLoad

CONSTANTS agents_num, standby_size,
          ecn, ecw,
          fail_node_id,
          RepairDag(_),      \* lost block -> its repair DAG
          Offline(_),        \* lost block -> colourings its offline file may have: vertex -> block
          Placements,        \* the placements of a stripe with a block on the failed node
          MaxStripes,        \* bound: stripes of the batch; "dynamic" has one
          Solutions,         \* of "cent", "offline", "balance", "parallel", "dynamic"
          Scenarios,         \* of "scatter", "standby"
          MaxColorings       \* bound: stripes coloured, repeats included

Agents == 0 .. agents_num - 1
Blocks == 0 .. ecn - 1

\* The repair DAG of one lost block (FitForTasks and PruneKeepsTheRepair): no
\* vertex lists a child twice, and one root collects computed vertices.
IsRepairDag(d) ==
  /\ IsFiniteSet(Ids(d)) /\ Ids(d) \subseteq Nat
  /\ d.child \in [Ids(d) -> Seq(Ids(d))] /\ d.parent \in [Ids(d) -> Seq(Ids(d))]
  /\ d.headers = <<REQUESTOR>> /\ d.child[REQUESTOR] # <<>> /\ WellFormed(d)
  /\ \A v \in Ids(d) : DistinctEntries(d.child[v]) /\ v \notin ToSet(d.child[v])
  /\ ToSet(d.child[REQUESTOR]) \cap ToSet(d.leaves) = {}

ASSUME ColoringAssumption ==
  /\ Cluster = 0 .. agents_num + standby_size - 1
  /\ agents_num \in Nat /\ fail_node_id \in Agents /\ standby_size \in Nat \ {0}
  /\ ecn \in Nat /\ ecn < agents_num /\ ecw \in Nat \ {0}
  /\ \A b \in Blocks : /\ IsRepairDag(RepairDag(b))
                       /\ \A f \in Offline(b) : f \in [ItmIdxs(RepairDag(b)) -> Blocks]
  /\ \A pl \in Placements :
       /\ pl \in [Blocks -> Agents]
       /\ \A a, b \in Blocks : pl[a] = pl[b] => a = b
       /\ \E b \in Blocks : pl[b] = fail_node_id
  /\ MaxStripes \in Nat \ {0} /\ MaxColorings \in Nat

VARIABLES
  solution, scenario,  \* the program's arguments
  place,               \* _nodelist of each stripe
  dag,                 \* _ecdag of each stripe
  cur,                 \* the stripe that is being coloured, or 0
  todo,                \* what is left of topoIdxs
  color,               \* _coloring of each stripe, <<>> before it has one
  load,                \* _in and _out of each stripe
  newNode,             \* _new_node of each stripe
  table,               \* loadTable of the batch
  colorings            \* history: stripes coloured

vars == <<solution, scenario, place, dag, cur, todo, color, load, newNode, table, colorings>>

\* The stripes of the batch are 1 .. Stripes; DynamicSolution repairs one.
Stripes == IF solution = "dynamic" THEN 1 ELSE MaxStripes

Lost(s) == CHOOSE b \in Blocks : place[s][b] = fail_node_id

Root(d) == d.headers[1]

\* A leaf is at the node of its block; that of a virtual block is nowhere.
LeafColor(pl, v) == IF v \div ecw < ecn THEN pl[v \div ecw] ELSE NoColor

\* avoid_node_ids: the failed node and those that are read from.
Avoid(pl, d) == {fail_node_id} \cup {LeafColor(pl, v) : v \in ToSet(d.leaves)}

\* The first agent of least input load that is not avoided; -1 when all are.
Lightest(pl, d, tbl) ==
  LET candidates == Agents \ Avoid(pl, d)
      Least(S) == {n \in S : \A m \in S : tbl[n].in <= tbl[m].in}
  IN  IF candidates = {} THEN NoColor ELSE Min(Least(candidates))

Colored == {s \in 1 .. Stripes : color[s] # <<>>}

\* placement: the nodes of the batch, with those that are chosen already.
BatchNodes == UNION {{place[s][b] : b \in Blocks} : s \in 1 .. Stripes}
                \cup {newNode[s] : s \in Colored}

\* A random node that the batch does not use, or one of least input load that the
\* stripe is not read from: that may be the failed node.
FirstReplacements(s, tbl) ==
  LET free   == Agents \ BatchNodes
      others == Agents \ {LeafColor(place[s], v) : v \in ToSet(dag[s].leaves)}
  IN  IF free # {} THEN free
      ELSE {Min({n \in others : \A m \in others : tbl[n].in <= tbl[m].in})}

\* getReplacementNode; ParallelSolution lets the failed node stand for itself.
Replacements(s, tbl) ==
  CASE scenario = "scatter" /\ solution = "parallel" /\ s \notin Colored -> FirstReplacements(s, tbl)
    [] scenario = "scatter" /\ ~(solution = "parallel" /\ s \notin Colored)
         -> {Lightest(place[s], dag[s], tbl)}
    [] scenario = "standby" /\ solution = "parallel" -> {fail_node_id}
    [] scenario = "standby" /\ solution = "dynamic"  -> {agents_num}
    [] OTHER -> {agents_num + (s % standby_size)}

Init ==
  /\ solution \in Solutions /\ scenario \in Scenarios
  /\ solution = "dynamic" => scenario = "standby"
  /\ place \in [1 .. Stripes -> Placements]
  /\ dag = [s \in 1 .. Stripes |-> RepairDag(Lost(s))]
  /\ cur = 0 /\ todo = {}
  /\ color = [s \in 1 .. Stripes |-> <<>>]
  /\ load = [s \in 1 .. Stripes |-> NoLoad]
  /\ newNode = [s \in 1 .. Stripes |-> NoColor]
  /\ table = NoLoad
  /\ colorings = 0
-----------------------------------------------------------------------------
\* Vertex by vertex.
Greedy(s) == solution = "balance" \/ (solution = "parallel" /\ s \in Colored)

\* The colour of the vertices that are neither root nor leaf, at the start.
ItmColors(s, n) ==
  IF Greedy(s) THEN {[v \in ItmIdxs(dag[s]) |-> NoColor]}
  ELSE IF solution = "cent" THEN {[v \in ItmIdxs(dag[s]) |-> n]}
  ELSE {[v \in ItmIdxs(dag[s]) |-> IF f[v] = Lost(s) THEN n ELSE place[s][f[v]]] :
          f \in Offline(Lost(s))}

\* Leaves, repair node, setColoring; BalanceSolution leaves _in and _out as they are.
Begin(s, tbl) ==
  LET d == dag[s]
  IN  \E n \in Replacements(s, tbl) : \E itm \in ItmColors(s, n) :
        LET c == [v \in Ids(d) |-> IF v \in ToSet(d.leaves) THEN LeafColor(place[s], v)
                                   ELSE IF v = Root(d) THEN n ELSE itm[v]]
        IN  /\ color' = [color EXCEPT ![s] = c]
            /\ load' = [load EXCEPT ![s] = IF solution = "balance" THEN @ ELSE Evaluate(d, c)]
            /\ newNode' = [newNode EXCEPT ![s] = n]
            /\ cur' = s
            /\ todo' = IF Greedy(s) THEN ItmIdxs(d) ELSE {}
            /\ colorings' = colorings + 1

\* The next stripe of the batch.
ColorStripe ==
  /\ cur = 0 /\ colorings < MaxColorings
  /\ Cardinality(Colored) < Stripes
  /\ Begin(Cardinality(Colored) + 1, table)
  /\ UNCHANGED <<solution, scenario, place, dag, table>>

\* Mutant: the load of the stripe itself stays in the table.
ColorAgainOnTop ==
  /\ solution = "parallel" /\ cur = 0 /\ colorings < MaxColorings
  /\ Cardinality(Colored) = Stripes
  /\ table' = table
  /\ \E s \in Colored : Begin(s, table)
  /\ UNCHANGED <<solution, scenario, place, dag>>

\* ParallelSolution tries a stripe again, on top of the load of the others.
ColorAgain ==
  /\ solution = "parallel" /\ cur = 0 /\ colorings < MaxColorings
  /\ Cardinality(Colored) = Stripes
  /\ \E s \in Colored :
       /\ table' = SumOfLoads([load EXCEPT ![s] = NoLoad])
       /\ Begin(s, table')
  /\ UNCHANGED <<solution, scenario, place, dag>>

\* Mutant: a vertex may come before its children.
ColorVertexUnordered ==
  \E v \in todo :
    LET d == dag[cur]
        c == ChooseColor(d, color[cur], load[cur], table, v)
    IN  /\ todo' = todo \ {v}
        /\ IF c = color[cur][v] THEN UNCHANGED <<color, load>>
           ELSE /\ color' = [color EXCEPT ![cur][v] = c]
                /\ load' = [load EXCEPT ![cur] = Change(d, color[cur], @, v, c)]
        /\ UNCHANGED <<solution, scenario, place, dag, cur, newNode, table, colorings>>

\* A vertex, in topological order, goes to the best colour of its children.
ColorVertex ==
  \E v \in {w \in todo : ToSet(dag[cur].child[w]) \cap todo = {}} :
    LET d == dag[cur]
        c == ChooseColor(d, color[cur], load[cur], table, v)
    IN  /\ todo' = todo \ {v}
        /\ IF c = color[cur][v] THEN UNCHANGED <<color, load>>
           ELSE /\ color' = [color EXCEPT ![cur][v] = c]
                /\ load' = [load EXCEPT ![cur] = Change(d, color[cur], @, v, c)]
        /\ UNCHANGED <<solution, scenario, place, dag, cur, newNode, table, colorings>>

\* The load of the stripe is added to the table; BalanceSolution counts it again.
StripeColored ==
  /\ cur # 0 /\ todo = {}
  /\ LET e == Evaluate(dag[cur], color[cur])
     IN  /\ table' = Plus(table, e)
         /\ load' = IF solution = "balance" THEN [load EXCEPT ![cur] = e] ELSE load
  /\ cur' = 0
  /\ UNCHANGED <<solution, scenario, place, dag, todo, color, newNode, colorings>>

\* A vertex goes from the busiest node to an idle one, or back.
MoveVertex ==
  /\ solution = "dynamic" /\ cur = 0
  /\ \E s \in Colored : \E v \in ItmIdxs(dag[s]), n \in Agents \cup {newNode[s]} :
       /\ n \notin {fail_node_id, color[s][v]}
       /\ color' = [color EXCEPT ![s][v] = n]
       /\ load' = [load EXCEPT ![s] = Change(dag[s], color[s], @, v, n)]
  /\ UNCHANGED <<solution, scenario, place, dag, cur, todo, newNode, table, colorings>>

Done ==
  /\ cur = 0 /\ Cardinality(Colored) = Stripes
  /\ colorings = MaxColorings \/ solution # "parallel"
  /\ UNCHANGED vars

Next == ColorStripe \/ ColorAgain \/ ColorVertex \/ StripeColored \/ MoveVertex \/ Done

Spec == Init /\ [][Next]_vars
-----------------------------------------------------------------------------
(***************************************************************************)
(* The counts that changeColor keeps are at every moment what              *)
(* evaluateColoring would count from nothing: in any topological order,    *)
(* with vertices that several others use, with virtual blocks, and when a  *)
(* stripe is coloured a second time.                                       *)
(***************************************************************************)
LoadsAreExact ==
  \A s \in Colored : load[s] = Evaluate(dag[s], color[s])

(***************************************************************************)
(* Between two stripes the table that the next repair node is chosen by is *)
(* the load of all the stripes coloured so far (RepairBatch::evaluateBatch *)
(* and getLoadTable give the same).                                        *)
(***************************************************************************)
TableIsTheSum ==
  cur = 0 /\ solution # "dynamic" => table = SumOfLoads(load)

(***************************************************************************)
(* The agents take a vertex without a colour for zero (TaskGen).  In a     *)
(* finished colouring it is: all that is below it is virtual.              *)
(***************************************************************************)
UncoloredIsZero ==
  \A s \in Colored \ {cur} :
    \A v \in Ids(dag[s]) :
      color[s][v] = NoColor =>
        \A u \in MadeOf(dag[s], v) : dag[s].child[u] = <<>> => u \div ecw >= ecn
=============================================================================

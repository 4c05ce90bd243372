----------------------------- MODULE FlowGraph ------------------------------
(***************************************************************************)
(* The flow network SecSolution solves twice for a batch: which stripes    *)
(* can be repaired together when a node sends for d of them at most, and   *)
(* which node takes the repaired block of each.  As in the code, vertex 0  *)
(* is the source, then come the stripes, then the nodes, both ascending,   *)
(* and the sink.                                                           *)
(***************************************************************************)
EXTENDS Integers, Sequences, FiniteSets, SequencesExt, TLC

Ascending(S) ==
  IF S = {} THEN <<>>
  ELSE SelectSeq([i \in 1 .. Max(S) + 1 |-> i - 1], LAMBDA i : i \in S)

(***************************************************************************)
(* Both constructors: adj gives the nodes next to each stripe, d is the    *)
(* capacity of the edges at the source and at the sink.  cap is            *)
(* _flow_graph, res is _res_matrix, flow is _max_flow.                     *)
(***************************************************************************)
Graph(adj, d) ==
  LET stripes == Ascending(DOMAIN adj)
      nodes   == Ascending(UNION Range(adj))
      p       == Len(stripes)
      sink    == p + Len(nodes) + 1
      Cap(u, v) == CASE u = 0 /\ v \in 1 .. p -> d
                     [] u \in 1 .. p /\ v \in p + 1 .. sink - 1 ->
                          IF nodes[v - p] \in adj[stripes[u]] THEN 1 ELSE 0
                     [] u \in p + 1 .. sink - 1 /\ v = sink -> d
                     [] OTHER -> 0
      cap     == [e \in (0 .. sink) \X (0 .. sink) |-> Cap(e[1], e[2])]
  IN  [stripes |-> stripes, nodes |-> nodes, d |-> d, sink |-> sink,
       cap |-> cap, res |-> cap, flow |-> 0]

StripeIdxs(g) == 1 .. Len(g.stripes)
NodeIdxs(g)   == Len(g.stripes) + 1 .. g.sink - 1
StripeAt(g, v) == g.stripes[v]
NodeAt(g, v)   == g.nodes[v - Len(g.stripes)]
-----------------------------------------------------------------------------
(***************************************************************************)
(* findMaxFlow: the shortest path with something left on each edge, the    *)
(* lowest vertices first, until there is none.                             *)
(***************************************************************************)
\* Mutant: no flow is ever taken back.
BfsForward(g) ==
  LET Search[i \in 0 .. g.sink] ==
        IF i = 0 THEN [queue |-> <<0>>, parent |-> (0 :> -1)]
        ELSE LET b == Search[i - 1]
             IN  IF b.queue = <<>> \/ g.sink \in DOMAIN b.parent THEN b
                 ELSE LET u == Head(b.queue)
                          fresh == {v \in u .. g.sink :
                                      g.res[u, v] > 0 /\ v \notin DOMAIN b.parent}
                      IN  [queue  |-> Tail(b.queue) \o Ascending(fresh),
                           parent |-> b.parent @@ [v \in fresh |-> u]]
  IN  Search[g.sink].parent

\* bfs: the vertex each vertex was reached from, as far as the search went.
Bfs(g) ==
  LET Search[i \in 0 .. g.sink] ==
        IF i = 0 THEN [queue |-> <<0>>, parent |-> (0 :> -1)]
        ELSE LET b == Search[i - 1]
             IN  IF b.queue = <<>> \/ g.sink \in DOMAIN b.parent THEN b
                 ELSE LET u == Head(b.queue)
                          fresh == {v \in 0 .. g.sink :
                                      g.res[u, v] > 0 /\ v \notin DOMAIN b.parent}
                      IN  [queue  |-> Tail(b.queue) \o Ascending(fresh),
                           parent |-> b.parent @@ [v \in fresh |-> u]]
  IN  Search[g.sink].parent

\* The edges of the path the search found; none when the sink is out of reach.
PathOf(g) ==
  LET parent == Bfs(g)
      Upto[v \in DOMAIN parent] ==
        IF v = 0 THEN {} ELSE {<<parent[v], v>>} \cup Upto[parent[v]]
  IN  IF g.sink \in DOMAIN parent THEN Upto[g.sink] ELSE {}

Push(g, path) ==
  LET f == Min({g.res[e] : e \in path})
  IN  [g EXCEPT
        !.flow = @ + f,
        !.res = [e \in DOMAIN @ |-> @[e] - (IF e \in path THEN f ELSE 0)
                                         + (IF <<e[2], e[1]>> \in path THEN f ELSE 0)]]
-----------------------------------------------------------------------------
(***************************************************************************)
(* What is read off the residual graph.                                    *)
(***************************************************************************)
IsSaturated(g) == g.flow = Len(g.stripes) * g.d

\* getStripeIdWithMinFlow: the first of those with the most left at the source.
StripeWithMinFlow(g) ==
  StripeAt(g, Min({v \in StripeIdxs(g) :
                     \A w \in StripeIdxs(g) : g.res[0, w] <= g.res[0, v]}))

\* getFullNodeNumForStripe: a node that is not in the graph is not full.
FullNodeNum(g, nodes) ==
  Cardinality({v \in NodeIdxs(g) : NodeAt(g, v) \in nodes /\ g.res[g.sink, v] = g.d})

ChooseStripes(g) == {StripeAt(g, v) : v \in {w \in StripeIdxs(g) : g.res[w, 0] = g.d}}

\* getRepairNodes, as a set of pairs: the edges that carry flow.
RepairNodes(g) ==
  {<<StripeAt(g, s), NodeAt(g, n)>> :
     <<s, n>> \in {e \in StripeIdxs(g) \X NodeIdxs(g) : g.cap[e] = 1 /\ g.res[e] = 0}}
-----------------------------------------------------------------------------
(***************************************************************************)
(* Max-flow min-cut, the other way round: what separates the stripes X     *)
(* from the sink when all other stripes are cut off at the source.         *)
(***************************************************************************)
CutOf(g, X) ==
  LET Uses(n) == SumFunction([s \in X |-> g.cap[s, n]])
  IN  g.d * Cardinality(StripeIdxs(g) \ X)
        + SumFunction([n \in NodeIdxs(g) |-> Min({Uses(n), g.d})])

MinCut(g) == Min({CutOf(g, X) : X \in SUBSET StripeIdxs(g)})
=============================================================================

------------------------------- MODULE Pareto -------------------------------
(***************************************************************************)
(* The search for offline colourings (Naive_homo, NaiveSingleSolution).    *)
(* From a random colouring of the intermediate vertices it looks at all    *)
(* colourings that differ in one vertex, keeps those that nothing found so *)
(* far dominates on a curve sorted by load, and goes on from the first of  *)
(* them whose neighbours it has not seen.  The curve is linked by id in    *)
(* two maps, one for each direction; solutions that leave it are deleted.  *)
(* NaiveSingleSolution sorts by the bottleneck in place of the load.       *)
(***************************************************************************)
EXTENDS Integers, Sequences, FiniteSets, SequencesExt

CONSTANTS V,               \* intermediate vertices
          ecn,             \* blocks 0 .. ecn-1 on the nodes of these numbers; ecn is the new node
          failNodeId,
          Rules,           \* of "load", "threshold"
          Evaluations,     \* nodes of the vertices -> [load, bottleneck, bdwt]
          Unit             \* the bottleneck is a double: it is counted in parts of 1/Unit

ASSUME ParetoAssumption ==
  /\ V \in Nat /\ ecn \in Nat \ {0} /\ failNodeId \in 0 .. ecn - 1
  /\ Rules \subseteq {"load", "threshold"} /\ Unit \in Nat \ {0}
  /\ Evaluations \subseteq [[1 .. V -> 0 .. ecn] -> [load : Int, bottleneck : Int, bdwt : Int]]

HEAD == -1
TAIL == -2

\* What the vertices may be computed at, and how many that are.
candidates == (0 .. ecn) \ {failNodeId}
M == Cardinality(candidates)

VARIABLES
  rule, evaluation,   \* the program, and what evaluateColoring says
  next, prev,         \* pareto_curve, prev_curve
  sol,                \* sol_map: id -> [colors, searched]
  unsearched,         \* ids of the pool
  ids,                \* SOL_ID
  neighbors,          \* id -> colors
  todo,               \* neighbours that are not compared yet
  dropped,            \* ids
  phase               \* "pick", "compare", "done"

vars == <<rule, evaluation, next, prev, sol, unsearched, ids, neighbors, todo, dropped, phase>>

\* evaluateColoring takes a colour, the number of a candidate, for a node.
NodeOf(color) == color

\* left is what the curve is sorted by: the load, or the bottleneck negated.
CostOf(colors) ==
  LET e == evaluation[[i \in 1 .. V |-> NodeOf(colors[i])]]
  IN  [left |-> IF rule = "load" THEN e.load ELSE -e.bottleneck, bdwt |-> e.bdwt]

\* dominate takes the bottleneck as an int, whatever the curve is sorted by.
Whole(left) == IF rule = "load" THEN left ELSE -((-left) \div Unit)

Beats(x, y) ==
  \/ Whole(x.left) = Whole(y.left) /\ x.bdwt < y.bdwt
  \/ Whole(x.left) < Whole(y.left) /\ (rule = "load" => x.bdwt <= y.bdwt)

\* b goes when a is there.
Dominates(a, b) == Beats(CostOf(a), CostOf(b))

Init ==
  /\ rule \in Rules /\ evaluation \in Evaluations
  /\ \E colors \in [1 .. V -> 0 .. M - 1] :
       sol = [id \in {0} |-> [colors |-> colors, searched |-> FALSE]]
  /\ next = [id \in {HEAD, 0} |-> IF id = HEAD THEN 0 ELSE TAIL]
  /\ prev = [id \in {TAIL, 0} |-> IF id = TAIL THEN 0 ELSE HEAD]
  /\ unsearched = {0} /\ ids = 1
  /\ neighbors = <<>> /\ todo = {} /\ dropped = {}
  /\ phase = "pick"
-----------------------------------------------------------------------------
\* The ids of the curve from its head.
Curve ==
  LET From[id \in DOMAIN next] ==
        IF next[id] = TAIL THEN <<>> ELSE <<next[id]>> \o From[next[id]]
  IN  From[HEAD]

\* The first of the curve that is not searched; of the rest of the pool any.
Picked ==
  LET open == {i \in DOMAIN Curve : ~sol[Curve[i]].searched}
  IN  IF open # {} THEN {Curve[Min(open)]} ELSE unsearched

\* Mutant: the last colour is not tried.
NeighborsButLast(colors) ==
  [k \in 1 .. V * (M - 1) |->
     LET i == ((k - 1) \div (M - 1)) + 1
         r == (k - 1) % (M - 1)
     IN  [colors EXCEPT ![i] = IF r < @ THEN r ELSE IF r + 2 < M THEN r + 1 ELSE 0]]

\* All colourings that differ in one vertex, in the order they are generated.
Neighbors(colors) ==
  [k \in 1 .. V * (M - 1) |->
     LET i == ((k - 1) \div (M - 1)) + 1
         r == (k - 1) % (M - 1)
     IN  [colors EXCEPT ![i] = IF r < @ THEN r ELSE r + 1]]

Search ==
  /\ phase = "pick" /\ unsearched # {}
  /\ \E id \in Picked :
       /\ neighbors' = [a \in ids .. ids + (V * (M - 1)) - 1 |->
                          Neighbors(sol[id].colors)[a - ids + 1]]
       /\ sol' = [sol EXCEPT ![id].searched = TRUE]
       /\ unsearched' = unsearched \ {id}
  /\ ids' = ids + (V * (M - 1))
  /\ todo' = DOMAIN neighbors' /\ dropped' = {}
  /\ phase' = "compare"
  /\ UNCHANGED <<rule, evaluation, next, prev>>

\* A map with an entry more or another value for it, and with an entry less.
With(f, x, e) == [y \in {x} \cup DOMAIN f |-> IF y = x THEN e ELSE f[y]]
Without(f, x) == [y \in DOMAIN f \ {x} |-> f[y]]

\* Mutant: what follows is not linked back.
ReplaceOneWay(c, a, b) ==
  LET on == a \in DOMAIN c.prev
  IN  [c EXCEPT
        !.next = Without(With(IF on THEN @ ELSE With(@, c.prev[b], a), a, @[b]), b),
        !.prev = Without(IF on THEN @ ELSE With(@, a, @[b]), b),
        !.dropped = @ \cup {b}]

\* Case 2: a takes the place of b; when it already took that of another, b only goes.
Replace(c, a, b) ==
  LET on == a \in DOMAIN c.prev
  IN  [c EXCEPT
        !.next = Without(With(IF on THEN @ ELSE With(@, c.prev[b], a), a, @[b]), b),
        !.prev = Without(With(IF on THEN @ ELSE With(@, a, @[b]), c.next[b], a), b),
        !.dropped = @ \cup {b}]

\* Case 3: a goes before b.
InsertBefore(c, a, b) ==
  [c EXCEPT !.next = With(With(@, a, b), c.prev[b], a),
            !.prev = With(With(@, a, c.prev[b]), b, a)]

\* Case 4: a goes behind b, the last.
InsertLast(c, a, b) ==
  [c EXCEPT !.next = With(With(@, a, TAIL), b, a),
            !.prev = With(With(@, a, b), TAIL, a)]

DropIt(c, a) == [c EXCEPT !.dropped = @ \cup {a}, !.stop = TRUE]

\* The neighbour a meets b of the curve.
Meet(c, a, b) ==
  LET x == neighbors[a]
      y == IF b \in DOMAIN sol THEN sol[b].colors ELSE neighbors[b]
  IN  CASE c.stop                                         -> c
        [] ~c.stop /\ Dominates(y, x)                     -> DropIt(c, a)
        [] ~c.stop /\ Dominates(x, y)                     -> Replace(c, a, b)
        [] ~c.stop /\ ~Dominates(y, x) /\ ~Dominates(x, y) ->
             CASE CostOf(x).left < CostOf(y).left ->
                    IF a \in DOMAIN c.prev THEN c ELSE InsertBefore(c, a, b)
               [] CostOf(x).left > CostOf(y).left ->
                    IF c.next[b] = TAIL THEN InsertLast(c, a, b) ELSE c
               [] OTHER -> DropIt(c, a)

\* The neighbours are taken in the order of a hash map.
Compare ==
  /\ phase = "compare"
  /\ \E a \in todo :
       LET c == FoldLeft(LAMBDA s, b : Meet(s, a, b),
                         [next |-> next, prev |-> prev, dropped |-> dropped, stop |-> FALSE], Curve)
       IN  /\ next' = c.next /\ prev' = c.prev /\ dropped' = c.dropped
           /\ sol' = IF a \in DOMAIN c.prev
                     THEN With(sol, a, [colors |-> neighbors[a], searched |-> FALSE]) ELSE sol
           /\ todo' = todo \ {a}
  /\ UNCHANGED <<rule, evaluation, unsearched, ids, neighbors, phase>>

Pool(kept) == (unsearched \ dropped) \cup kept

\* What is dropped is deleted, the neighbours that are left join the pool.
Sweep ==
  /\ phase = "compare" /\ todo = {}
  /\ LET kept == DOMAIN neighbors \ dropped
     IN  /\ unsearched' = Pool(kept)
         /\ sol' = [id \in (DOMAIN sol \ dropped) \cup kept |->
                      IF id \in DOMAIN sol THEN sol[id]
                      ELSE [colors |-> neighbors[id], searched |-> FALSE]]
  /\ phase' = "pick" /\ neighbors' = <<>> /\ dropped' = {}
  /\ UNCHANGED <<rule, evaluation, next, prev, ids, todo>>

Finish ==
  /\ phase = "pick" /\ unsearched = {}
  /\ phase' = "done"
  /\ UNCHANGED <<rule, evaluation, next, prev, sol, unsearched, ids, neighbors, todo, dropped>>

Stopped == phase = "done" /\ UNCHANGED vars

Next == Search \/ Compare \/ Sweep \/ Finish \/ Stopped

Spec == Init /\ [][Next]_vars
-----------------------------------------------------------------------------
Points == {CostOf(sol[id].colors) : id \in ToSet(Curve)}

(***************************************************************************)
(* After every neighbour the two maps link the same curve in the two       *)
(* directions, nothing else is in them, and the curve goes from the least  *)
(* load to the least traffic without a point that another one beats.  With *)
(* the bottleneck, points that only differ behind its decimal point stay.  *)
(* No solution of the curve is deleted, and none is left behind: between   *)
(* two searches there are no others, and the pool is what is unsearched.   *)
(***************************************************************************)
CurveIsAFront ==
  /\ DOMAIN next = {HEAD} \cup ToSet(Curve) /\ DOMAIN prev = {TAIL} \cup ToSet(Curve)
  /\ \A id \in DOMAIN next : prev[next[id]] = id
  /\ LET cost == [i \in DOMAIN Curve |-> CostOf(sol[Curve[i]].colors)]
     IN  \A i, j \in DOMAIN Curve :
           i < j => /\ cost[i].left < cost[j].left
                    /\ ~Beats(cost[i], cost[j]) /\ ~Beats(cost[j], cost[i])
                    /\ rule = "load" => cost[i].bdwt > cost[j].bdwt
  /\ phase # "compare" =>
       /\ DOMAIN sol = ToSet(Curve)
       /\ unsearched = {id \in ToSet(Curve) : ~sol[id].searched}

\* The end of the search: nothing that differs in one vertex beats the curve.
NoBetterNeighbor ==
  phase = "done" =>
    \A id \in ToSet(Curve) : \A i \in 1 .. V : \A color \in 0 .. M - 1 :
      LET x == [sol[id].colors EXCEPT ![i] = color]
      IN  \E p \in Points : p = CostOf(x) \/ Beats(p, CostOf(x))
=============================================================================

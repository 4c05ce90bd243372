---------------------------- MODULE SingleBlock -----------------------------
(***************************************************************************)
(* The repair of one block (Coordinator::repairSingleBlock), again for     *)
(* every line of the bandwidth file.  The vertices of the repair DAG get a *)
(* node each: all the repair node (CentSingleSolution), as an offline file *)
(* says (ParaSingleSolution), the node of a child that leaves the slowest  *)
(* link fastest (Affinaty), or, for all vertices with the same children at *)
(* once, the node whose own link stays fastest (Dynamic2Solution, and with *)
(* a sorted list of nodes DynamicSolution).  Then tasks are generated, if  *)
(* the slowest link is fast enough.                                        *)
(*                                                                         *)
(* Bandwidth is counted in a unit of which the loads that occur are        *)
(* divisors, so that a double of the code is an integer here.              *)
(***************************************************************************)
EXTENDS StripeLoad

CONSTANTS agents_num, ecn, ecw,
          RepairDag(_),      \* lost block -> its repair DAG
          TopoIdxs(_),       \* DAG -> orders of its vertices that the hash order may give
          Offline(_),        \* block -> the colouring of its offline file, a sequence of blocks
          Placements,        \* block -> agent
          Bandwidths,        \* lines of the bandwidth file: node -> [up, down]
          Limit,             \* 10, in the unit of the bandwidth
          Full,              \* 1000, the same
          DBL_MAX,
          Methods,           \* of "centralize", "pararc", "affinaty", "dynamic", "dynamic2"
          Uninitialised,     \* what _ecn of a RepairGroup may be when nobody sets it: any int
          MaxRepairs         \* bound: lines of the bandwidth file

repair_node_id == agents_num
Agents == 0 .. agents_num - 1
Blocks == 0 .. ecn - 1

\* The intermediate vertices of d, children first.
IsTopoOrder(d, s) ==
  /\ DistinctEntries(s) /\ ToSet(s) = ItmIdxs(d)
  /\ \A i \in DOMAIN s : ToSet(d.child[s[i]]) \cap {s[j] : j \in i + 1 .. Len(s)} = {}

SingleBlockAssumption ==
  /\ Cluster = 0 .. agents_num
  /\ \A pl \in Placements :
       pl \in [Blocks -> Agents] /\ \A a, b \in Blocks : pl[a] = pl[b] => a = b
  /\ \A b \in Blocks : \A s \in TopoIdxs(RepairDag(b)) : IsTopoOrder(RepairDag(b), s)
  /\ MaxRepairs \in Nat

VARIABLES
  method, lost, place,   \* the program's arguments: the block, its stripe's nodes
  dag, topoIdxs,          \* topoIdxs is what genTopoIdxs returns
  repairs,               \* lines of the bandwidth file that are read
  idx2bdwt,
  color, load,           \* _coloring of the stripe, _in and _out
  interLoadTable, sorted, idle, limitedbn,  \* sorted is candidatesSort, idle idleColors
  groups, groupNum, groupEcn,               \* RepairGroup
  todo,                  \* the vertices of topoIdxs that are not grouped, or not coloured
  group,                 \* the group that is coloured next
  phase,                 \* "idle", "group", "color", "evaluate", "crashed"
  toGen                  \* what genRepairSolution returned

arguments == <<method, lost, place, dag, topoIdxs>>
dynamic   == <<interLoadTable, sorted, idle, limitedbn, groups, groupNum, groupEcn, group>>
vars == <<arguments, repairs, idx2bdwt, color, load, dynamic, todo, phase, toGen>>

Root == dag.headers[1]

\* A leaf of a virtual block is nowhere.
LeafColor(v) == IF v \div ecw < ecn THEN place[v \div ecw] ELSE NoColor
-----------------------------------------------------------------------------
(***************************************************************************)
(* Bandwidth.  A load may be negative in a trial.                          *)
(***************************************************************************)
Per(b, n) == IF n > 0 THEN b \div n ELSE -(b \div (-n))

getBottleneck(bw, n, t) ==
  Min({IF t.out = 0 THEN DBL_MAX ELSE Per(bw[n].up, t.out),
       IF t.in = 0 THEN DBL_MAX ELSE Per(bw[n].down, t.in)})

\* A port without load counts as if it had one.
evaluateSort(bw, n, t) ==
  Min({IF t.out = 0 THEN bw[n].up ELSE Per(bw[n].up, t.out),
       IF t.in = 0 THEN bw[n].down ELSE Per(bw[n].down, t.in)})

getglobalBottleneck(bw, table) == Min({getBottleneck(bw, n, table[n]) : n \in Cluster})

setFull(bw) == [bw EXCEPT ![repair_node_id] = [up |-> 0, down |-> Full]]

\* Tasks are generated when a block takes less than a tenth of the unit.
Enough(bn) == bn * ecw >= Limit
-----------------------------------------------------------------------------
(***************************************************************************)
(* RepairGroup: vertices by the list of their children.  The group of the  *)
(* requestor is last and not counted.                                      *)
(***************************************************************************)
IsRequest(e, v) == v > REQUESTOR - e

\* Mutant: every vertex is counted.
PushCounting(g, e, key, v) ==
  LET at == SelectInSeq(g.groups, LAMBDA x : x.children = key)
  IN  [groups |-> IF at = 0 THEN Append(g.groups, [children |-> key, members |-> <<v>>])
                  ELSE [g.groups EXCEPT ![at].members = Append(@, v)],
       num |-> g.num - (IF IsRequest(e, v) THEN 1 ELSE 0)]

push(g, e, key, v) ==
  LET at == SelectInSeq(g.groups, LAMBDA x : x.children = key)
  IN  [groups |-> IF at = 0 THEN Append(g.groups, [children |-> key, members |-> <<v>>])
                  ELSE [g.groups EXCEPT ![at].members = Append(@, v)],
       num |-> g.num + (IF at = 0 THEN 1 ELSE 0) - (IF IsRequest(e, v) THEN 1 ELSE 0)]
-----------------------------------------------------------------------------
Init ==
  /\ method \in Methods /\ lost \in Blocks /\ place \in Placements
  /\ dag = RepairDag(lost) /\ topoIdxs \in TopoIdxs(dag)
  /\ repairs = 0
  /\ idx2bdwt = [n \in Cluster |-> [up |-> 0, down |-> 0]]
  /\ color = <<>> /\ load = NoLoad
  /\ interLoadTable = NoLoad /\ sorted = <<>> /\ idle = {} /\ limitedbn = DBL_MAX
  /\ groups = <<>> /\ groupNum = 0 /\ groupEcn = 0 /\ group = 0
  /\ todo = <<>> /\ phase = "idle" /\ toGen = FALSE

\* LoadNext.
NextLine ==
  /\ phase = "idle" /\ repairs < MaxRepairs
  /\ idx2bdwt' \in Bandwidths
  /\ repairs' = repairs + 1

\* The leaves, the root, and itm for the others.
Colored(itm) ==
  [v \in Ids(dag) |-> IF v \in ToSet(dag.leaves) THEN LeafColor(v)
                      ELSE IF v = Root THEN repair_node_id ELSE itm[v]]

\* The bottleneck is that of the stripe as it was before.
CentSingle ==
  /\ method = "centralize" /\ NextLine
  /\ toGen' = Enough(getglobalBottleneck(idx2bdwt', load))
  /\ color' = Colored([v \in ItmIdxs(dag) |-> repair_node_id])
  /\ load' = Evaluate(dag, color')
  /\ UNCHANGED <<arguments, dynamic, todo, phase>>

\* The offline file of block b gives the n-th intermediate vertex a block.
OfflineColor(b, v) ==
  LET blkidx == Offline(b)[Cardinality({u \in ItmIdxs(dag) : u <= v})]
  IN  IF blkidx = b THEN repair_node_id ELSE place[blkidx]

\* A node is looked for that has the number of the block; without one it crashes.
ParaSingle ==
  /\ method = "pararc" /\ NextLine
  /\ LET found == {b \in Blocks : place[b] = lost}
     IN  IF found = {}
         THEN phase' = "crashed" /\ UNCHANGED <<color, load, toGen>>
         ELSE /\ color' = Colored([v \in ItmIdxs(dag) |-> OfflineColor(Max(found), v)])
              /\ load' = Evaluate(dag, color')
              /\ toGen' = TRUE /\ UNCHANGED phase
  /\ UNCHANGED <<arguments, dynamic, todo>>

\* The nodes of the leaves, in their order.
LeafNodes ==
  OnceEach(SelectSeq([i \in DOMAIN dag.leaves |-> LeafColor(dag.leaves[i])],
                     LAMBDA n : n # NoColor))

\* What the leaves cost when each is sent once, and the repair node the block.
LeafLoad ==
  [n \in Cluster |->
     [in  |-> IF n = repair_node_id THEN ecw ELSE 0,
      out |-> Cardinality({v \in ToSet(dag.leaves) : LeafColor(v) = n})]]

\* sortInit: a stable sort.
sortInit(candidates, bw) ==
  LET key == [i \in DOMAIN candidates |-> evaluateSort(bw, candidates[i], LeafLoad[candidates[i]])]
      order == SortSeq([i \in DOMAIN candidates |-> i],
                       LAMBDA i, j : key[i] > key[j] \/ (key[i] = key[j] /\ i < j))
  IN  [i \in DOMAIN order |-> [color |-> candidates[order[i]], bandwidthperblock |-> key[order[i]]]]

\* setColoring and evaluateColoring with no vertex coloured.
Uncolored ==
  /\ color' = Colored([v \in ItmIdxs(dag) |-> NoColor])
  /\ load' = Evaluate(dag, color')
  /\ todo' = topoIdxs
  /\ UNCHANGED <<arguments, toGen>>

NoGroups == groups' = <<>> /\ groupNum' = 0 /\ group' = 1

BeginAffinaty ==
  /\ method = "affinaty" /\ NextLine /\ Uncolored
  /\ phase' = "color" /\ UNCHANGED dynamic

BeginDynamic2 ==
  /\ method = "dynamic2" /\ NextLine /\ Uncolored /\ NoGroups
  /\ interLoadTable' = LeafLoad
  /\ groupEcn' \in Uninitialised
  /\ phase' = "group" /\ UNCHANGED <<sorted, idle, limitedbn>>

\* The bandwidth of the repair node is no longer that of the file; the node
\* that idle leaves out is the number of the block.
BeginDynamic ==
  /\ method = "dynamic" /\ phase = "idle" /\ repairs < MaxRepairs
  /\ \E bw \in Bandwidths :
       /\ idx2bdwt' = setFull(bw)
       /\ sorted' = sortInit(Append(LeafNodes, repair_node_id), idx2bdwt')
  /\ repairs' = repairs + 1 /\ Uncolored /\ NoGroups
  /\ interLoadTable' = LeafLoad
  /\ idle' = (Agents \ ToSet(LeafNodes)) \ {lost}
  /\ limitedbn' = getglobalBottleneck(idx2bdwt', LeafLoad)
  /\ groupEcn' = ecn
  /\ phase' = "group"

GroupVertex ==
  /\ phase = "group" /\ todo # <<>>
  /\ LET v == Head(todo)
         g == push([groups |-> groups, num |-> groupNum], groupEcn, dag.child[v], v)
     IN  groups' = g.groups /\ groupNum' = g.num
  /\ todo' = Tail(todo)
  /\ UNCHANGED <<arguments, repairs, idx2bdwt, color, load, phase, toGen,
                 interLoadTable, sorted, idle, limitedbn, groupEcn, group>>

\* DynamicSolution pushes the root as well.
Grouped ==
  /\ phase = "group" /\ todo = <<>>
  /\ LET g == push([groups |-> groups, num |-> groupNum], groupEcn, dag.child[Root], Root)
     IN  IF method = "dynamic" THEN groups' = g.groups /\ groupNum' = g.num
         ELSE UNCHANGED <<groups, groupNum>>
  /\ phase' = "color"
  /\ UNCHANGED <<arguments, repairs, idx2bdwt, color, load, todo, toGen,
                 interLoadTable, sorted, idle, limitedbn, groupEcn, group>>
-----------------------------------------------------------------------------
\* Affinaty: the last of the best.
ChooseAffinaty(v) ==
  FoldLeft(LAMBDA best, c :
             LET bn == getglobalBottleneck(idx2bdwt, EvaluateChange(dag, color, load, v, c))
             IN  IF bn >= best.bn \/ best.color = NoColor THEN [color |-> c, bn |-> bn] ELSE best,
           [color |-> NoColor, bn |-> 0], ChildColors(dag, color, v)).color

ColorVertex ==
  /\ phase = "color" /\ method = "affinaty" /\ todo # <<>>
  /\ LET v == Head(todo)
         c == ChooseAffinaty(v)
     IN  /\ color' = [color EXCEPT ![v] = c]
         /\ load' = IF c = color[v] THEN load ELSE Change(dag, color, load, v, c)
  /\ todo' = Tail(todo)
  /\ UNCHANGED <<arguments, repairs, idx2bdwt, dynamic, phase, toGen>>

(***************************************************************************)
(* evaluateColorLoad: the load t of a node c with the vertices of a group. *)
(* A leaf at c is not sent; a parent that has no colour is elsewhere.      *)
(***************************************************************************)
ColorLoad(vs, t, c) ==
  LET kids == dag.child[vs[1]]
      Kids(S) == IF color[vs[1]] # NoColor THEN 0
                 ELSE Cardinality({i \in DOMAIN kids : color[kids[i]] \in S})
      Parents(P(_)) == SumFunction([i \in DOMAIN vs |->
                         Cardinality({n \in ParentColors(dag, color, vs[i]) : P(n)})])
  IN  [out |-> t.out - Kids({c}) + Parents(LAMBDA n : n # c),
       in  |-> t.in + Kids(Cluster \ {c}) - Parents(LAMBDA n : n = c)]

\* What is best so far, and node c.
Better2(vs, best, c) ==
  LET bn == getBottleneck(idx2bdwt, c, ColorLoad(vs, interLoadTable[c], c))
      near == ToSet(ChildColors(dag, color, vs[1]))
      taken == \/ bn > best.bn
               \/ bn = best.bn /\ c \in {repair_node_id} \cup near
               \/ bn < best.bn /\ c = repair_node_id /\ c \in near
  IN  IF taken THEN [best EXCEPT !.color = c, !.bn = bn] ELSE best

NoBest == [color |-> NoColor, bn |-> 0, idx |-> 1, stop |-> FALSE]

\* The group goes to node c.
ColorMembers(vs, c) ==
  color' = [v \in Ids(dag) |-> IF v \in ToSet(vs) THEN c ELSE color[v]]

\* changeColor for one after the other.
LoadAfter(vs, c) ==
  FoldLeft(LAMBDA s, v : [color |-> [s.color EXCEPT ![v] = c],
                          load |-> Change(dag, s.color, s.load, v, c)],
           [color |-> color, load |-> load], vs).load

ColorGroup2 ==
  /\ phase = "color" /\ method = "dynamic2" /\ group <= groupNum
  /\ LET vs == groups[group].members
         c == FoldLeft(LAMBDA best, n : Better2(vs, best, n),
                       NoBest, Append(LeafNodes, repair_node_id)).color
     IN  IF c = NoColor
         THEN phase' = "crashed" /\ UNCHANGED <<color, load, interLoadTable, group>>
         ELSE /\ ColorMembers(vs, c) /\ load' = LoadAfter(vs, c)
              /\ interLoadTable' = [interLoadTable EXCEPT ![c] = ColorLoad(vs, @, c)]
              /\ group' = group + 1 /\ UNCHANGED phase
  /\ UNCHANGED <<arguments, repairs, idx2bdwt, sorted, idle, limitedbn,
                 groups, groupNum, groupEcn, todo, toGen>>

\* The entries of the list in order, until one that has less than the best so far.
BestSorted(vs) ==
  FoldLeft(LAMBDA best, i :
             IF best.stop THEN best
             ELSE IF best.bn > sorted[i].bandwidthperblock THEN [best EXCEPT !.stop = TRUE]
             ELSE LET next == Better2(vs, best, sorted[i].color)
                  IN  IF next.color = sorted[i].color THEN [next EXCEPT !.idx = i] ELSE next,
           NoBest, [i \in DOMAIN sorted |-> i])

\* The entry of the best gets its new value and goes behind those that have more.
Resorted(best) ==
  LET more == Cardinality({j \in best.idx + 1 .. Len(sorted) :
                \A k \in best.idx + 1 .. j : sorted[k].bandwidthperblock > best.bn})
      entry == [sorted[best.idx] EXCEPT !.bandwidthperblock = best.bn]
  IN  IF ~best.stop THEN sorted
      ELSE SubSeq(sorted, 1, best.idx - 1) \o SubSeq(sorted, best.idx + 1, best.idx + more)
             \o <<entry>> \o SubSeq(sorted, best.idx + more + 1, Len(sorted))

Idle == SetToSortSeq(idle, <)

\* Idle nodes are tried when the best is below what the leaves allow.
ColorGroup ==
  /\ phase = "color" /\ method = "dynamic" /\ group <= groupNum
  /\ LET vs == groups[group].members
         best == BestSorted(vs)
         c == IF best.bn < limitedbn
              THEN FoldLeft(LAMBDA b, n : Better2(vs, b, n), best, Idle).color ELSE best.color
     IN  IF ChildColors(dag, color, vs[1]) = <<>>
         THEN group' = group + 1 /\ UNCHANGED <<color, sorted, interLoadTable, phase>>
         ELSE IF c = NoColor
         THEN phase' = "crashed" /\ UNCHANGED <<color, sorted, interLoadTable, group>>
         ELSE /\ ColorMembers(vs, c) /\ sorted' = Resorted(best)
              /\ interLoadTable' = [interLoadTable EXCEPT ![c] = ColorLoad(vs, @, c)]
              /\ group' = group + 1 /\ UNCHANGED phase
  /\ UNCHANGED <<arguments, repairs, idx2bdwt, load, idle, limitedbn,
                 groups, groupNum, groupEcn, todo, toGen>>

AllColored ==
  /\ phase = "color"
  /\ IF method = "affinaty" THEN todo = <<>> ELSE group > groupNum

\* Mutant: the load is that of the begin.
EvaluatedStale ==
  /\ AllColored
  /\ load' = Evaluate(dag, color)
  /\ toGen' \in IF method = "dynamic2" THEN BOOLEAN
                ELSE {Enough(getglobalBottleneck(idx2bdwt, load))}
  /\ phase' = "idle"
  /\ UNCHANGED <<arguments, repairs, idx2bdwt, color, dynamic, todo>>

\* evaluateColoring.  Dynamic2Solution::genRepairSolution ends without a return.
Evaluated ==
  /\ AllColored
  /\ load' = Evaluate(dag, color)
  /\ toGen' \in IF method = "dynamic2" THEN BOOLEAN
                ELSE {Enough(getglobalBottleneck(idx2bdwt, load'))}
  /\ phase' = "idle"
  /\ UNCHANGED <<arguments, repairs, idx2bdwt, color, dynamic, todo>>

Done == (phase = "crashed" \/ (phase = "idle" /\ repairs = MaxRepairs)) /\ UNCHANGED vars

Next ==
  \/ CentSingle \/ ParaSingle
  \/ BeginAffinaty \/ ColorVertex
  \/ BeginDynamic2 \/ BeginDynamic \/ GroupVertex \/ Grouped \/ ColorGroup2 \/ ColorGroup
  \/ Evaluated \/ Done

Spec == Init /\ [][Next]_vars
-----------------------------------------------------------------------------
Repaired == phase = "idle" /\ repairs > 0

\* What the agents compute for a vertex without a node is right: all that is
\* below it is virtual, and zero.
Colors(v) ==
  color[v] = NoColor =>
    \A u \in MadeOf(dag, v) : dag.child[u] = <<>> => LeafColor(u) = NoColor

(***************************************************************************)
(* A colouring is found, although the trial loads may be negative and a    *)
(* bandwidth zero: the table is indexed with the choice.  And the agents   *)
(* take a vertex without a colour for zero: when tasks are generated all   *)
(* that is below such a vertex is virtual; no group was left out, whatever *)
(* the order of the vertices.  ParaSingleSolution may crash before it      *)
(* colours, and Dynamic2Solution promises less: ColorsTheBlankNodes.       *)
(***************************************************************************)
UncoloredIsZero ==
  method # "dynamic2" =>
    /\ phase = "crashed" => method = "pararc"
    /\ Repaired => \A v \in Ids(dag) : Colors(v)

(***************************************************************************)
(* What Dynamic2Solution.cc says of itself: "coloring the blank node one   *)
(* by one", for which each time it has to "choose the color which has the  *)
(* minimum local load among the childColors node".  The choice does not    *)
(* always find a node: bestColor stays -1, the table is indexed with it,   *)
(* and the process crashes.  And if the value that _ecn of the RepairGroup *)
(* happens to have makes a vertex a request, as many groups as there are   *)
(* such vertices stay blank.                                               *)
(***************************************************************************)
ColorsTheBlankNodes ==
  method = "dynamic2" =>
    /\ phase # "crashed"
    /\ Repaired => \A v \in Ids(dag) : Colors(v)

(***************************************************************************)
(* Tasks are only generated when the slowest link of this colouring, with  *)
(* this line of the bandwidth file, is fast enough.  (ParaSingleSolution   *)
(* and Dynamic2Solution do not ask; the first time CentSingleSolution      *)
(* does, there is no load.)                                                *)
(***************************************************************************)
SlowIsNotRepaired ==
  Repaired /\ toGen =>
    \/ Enough(getglobalBottleneck(idx2bdwt, Evaluate(dag, color)))
    \/ method \in {"pararc", "dynamic2"}
    \/ method = "centralize" /\ repairs = 1
=============================================================================

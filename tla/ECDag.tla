------------------------------- MODULE ECDag --------------------------------
(***************************************************************************)
(* The life of a repair DAG: an erasure code builds it by Joins, the       *)
(* stripe collects the lost blocks (Concact), the roots of the blocks that *)
(* nobody repairs are pruned, and the result is sorted by level and in     *)
(* topological order (Stripe::genRepairECDAG for several blocks, ECDAG,    *)
(* ECNode).  The prune is a recursion, with an explicit stack here.        *)
(***************************************************************************)
EXTENDS Dag

CONSTANTS ecn, ecw,    \* blocks of a stripe, sub-packets of a block
          Joins,       \* the pairs <<parent, children>> a code may pass to Join
          MaxJoins,    \* bound: Joins of a code
          FailSets     \* sets of blocks that may fail together

ASSUME ECDagAssumption ==
  /\ ecn \in Nat \ {0} /\ ecw \in Nat \ {0} /\ MaxJoins \in Nat
  /\ \A j \in Joins : j[1] \in 0 .. REQUESTOR - ecn /\ j[2] \in Seq(0 .. REQUESTOR - ecn) \ {<<>>}
  /\ FailSets \subseteq SUBSET (0 .. ecn - 1)

VARIABLES
  dag,       \* the ECDAG
  step,      \* what is done to it next
  failed,    \* failidx, as the blocks that are lost
  failBlk,   \* _fail_blk_idx, the one that is repaired
  todo,      \* headers_ec: the roots the prune still has to look at
  stack,     \* calls of removeChildNode: a vertex and the child it is at
  toDelete,  \* the vertices with _toDelete
  inref,     \* vertex not yet placed -> children not yet placed
  levels,    \* result of the levelled sort
  ready,     \* genTopoIdxs: its queue of vertices whose children are done
  topo,      \* result of genTopoIdxs
  built      \* history: the DAG before the prune

sorting == <<inref, levels, ready, topo>>
vars == <<dag, step, failed, failBlk, todo, stack, toDelete, sorting, built>>

Init ==
  /\ dag = EmptyDag /\ built = EmptyDag
  /\ step = "build"
  /\ failed \in FailSets
  /\ failBlk \in failed
  /\ todo = <<>> /\ stack = <<>> /\ toDelete = {}
  /\ inref = <<>> /\ levels = <<>> /\ ready = <<>> /\ topo = <<>>
-----------------------------------------------------------------------------
(***************************************************************************)
(* Building.                                                               *)
(***************************************************************************)
Joined == {v \in Ids(dag) : dag.child[v] # <<>>}

JoinStep ==
  /\ step = "build"
  /\ Cardinality(Joined) < MaxJoins
  /\ \E j \in Joins :
       /\ JoinAllowed(dag, j[1], j[2])
       /\ dag' = Join(dag, j[1], j[2], [i \in DOMAIN j[2] |-> 1])
  /\ UNCHANGED <<step, failed, failBlk, todo, stack, toDelete, sorting, built>>

\* The sub-packets of the lost blocks, in order.
To ==
  LET pkts == [i \in 1 .. ecn * ecw |-> i - 1]
  IN  Entries(pkts, {i \in DOMAIN pkts : pkts[i] \div ecw \in failed})

\* Decode is done when it has made all that was asked for.
ConcactStep ==
  /\ step = "build"
  /\ ToSet(To) \subseteq Joined
  /\ dag' = ConcactBlocks(dag, To, ecn, ecw)
  /\ built' = dag'
  /\ todo' = dag'.headers
  /\ step' = "prune"
  /\ UNCHANGED <<failed, failBlk, stack, toDelete, sorting>>
-----------------------------------------------------------------------------
(***************************************************************************)
(* Pruning.                                                                *)
(***************************************************************************)
Keep == REQUESTOR - failBlk

\* The loop over the headers: every root but one is taken apart.
NextHeader ==
  /\ step = "prune" /\ stack = <<>> /\ todo # <<>>
  /\ todo' = Tail(todo)
  /\ stack' = IF Head(todo) = Keep THEN <<>> ELSE <<<<Head(todo), 1>>>>
  /\ UNCHANGED <<dag, step, failed, failBlk, toDelete, sorting, built>>

Top == stack[Len(stack)]

\* removeChildNode, a turn of its loop: a child without a parent goes as well.
RemoveChild ==
  /\ step = "prune" /\ stack # <<>> /\ Top[2] <= Len(dag.child[Top[1]])
  /\ LET v == Top[1]
         c == dag.child[v][Top[2]]
     IN  /\ dag' = RemoveParent(dag, c, v)
         /\ stack' = [stack EXCEPT ![Len(stack)][2] = @ + 1]
                       \o (IF dag'.parent[c] = <<>> THEN <<<<c, 1>>>> ELSE <<>>)
  /\ UNCHANGED <<step, failed, failBlk, todo, toDelete, sorting, built>>

\* removeChildNode returns; after the outermost call the root is no header.
RemoveReturns ==
  /\ step = "prune" /\ stack # <<>> /\ Top[2] > Len(dag.child[Top[1]])
  /\ toDelete' = toDelete \cup {Top[1]}
  /\ stack' = Front(stack)
  /\ dag' = IF Len(stack) = 1 THEN RemoveNode(dag, Top[1]) ELSE dag
  /\ UNCHANGED <<step, failed, failBlk, todo, sorting, built>>

\* Children that are not placed yet, counted once per use.
InRefs(d) == [v \in Ids(d) |-> Len(d.child[v])]
OutRef(d, v) ==
  Cardinality(UNION {{p} \X {i \in DOMAIN d.child[p] : d.child[p][i] = v} : p \in Ids(d)})

DeleteStep ==
  /\ step = "prune" /\ stack = <<>> /\ todo = <<>>
  /\ dag' = DeleteUseless(dag, toDelete)
  /\ toDelete' = {}
  /\ step' = "level"
  /\ inref' = InRefs(dag')
  /\ UNCHANGED <<failed, failBlk, todo, stack, levels, ready, topo, built>>
-----------------------------------------------------------------------------
\* The uses that p makes of the vertices S.
UsesBy(d, p, S) == FoldSet(LAMBDA v, n : n + Times(d.parent[v], p), 0, S)

\* Mutant: a child that its parent uses twice is taken off once.
LevelStepPerParent ==
  /\ step = "level" /\ inref # <<>>
  /\ LET level == {v \in DOMAIN inref : inref[v] = 0}
         Less(p) == Cardinality({v \in level : Contains(dag.parent[v], p)})
     IN  /\ levels' = IF level = {} THEN levels ELSE Append(levels, level)
         /\ inref' = [p \in DOMAIN inref \ level |-> inref[p] - Less(p)]
  /\ UNCHANGED <<dag, step, failed, failBlk, todo, stack, toDelete, ready, topo, built>>

(***************************************************************************)
(* genLeveledTopologicalSorting.  A level is the set of vertices all of    *)
(* whose children are placed.  On a DAG with a cycle the loop goes on for  *)
(* ever; the empty levels it then appends are left out.                    *)
(***************************************************************************)
LevelStep ==
  /\ step = "level" /\ inref # <<>>
  /\ LET level == {v \in DOMAIN inref : inref[v] = 0}
         Placed(p) == {v \in level : OutRef(dag, v) # 0 /\ Contains(dag.parent[v], p)}
     IN  /\ levels' = IF level = {} THEN levels ELSE Append(levels, level)
         /\ inref' = [p \in DOMAIN inref \ level |-> inref[p] - UsesBy(dag, p, Placed(p))]
  /\ UNCHANGED <<dag, step, failed, failBlk, todo, stack, toDelete, ready, topo, built>>

\* genTopoIdxs begins: the leaves, as the hash map lists them.
TopoStart ==
  /\ step = "level" /\ inref = <<>>
  /\ inref' = InRefs(dag)
  /\ ready' \in SetToSeqs({v \in Ids(dag) : dag.child[v] = <<>>})
  /\ step' = "topo"
  /\ UNCHANGED <<dag, failed, failBlk, todo, stack, toDelete, levels, topo, built>>

\* Mutant: a parent is ready as soon as one child is.
TopoStepEager ==
  /\ step = "topo" /\ ready # <<>>
  /\ LET v == Head(ready)
         ps == IF OutRef(dag, v) = 0 THEN <<>> ELSE dag.parent[v]
     IN  /\ topo' = IF v \in ItmIdxs(dag) THEN Append(topo, v) ELSE topo
         /\ inref' = [p \in DOMAIN inref |-> inref[p] - Times(ps, p)]
         /\ ready' = Tail(ready) \o
              Outside(OnceEach(ps), {p \in Ids(dag) : inref[p] # Len(dag.child[p])})
  /\ UNCHANGED <<dag, step, failed, failBlk, todo, stack, toDelete, levels, built>>

\* A turn of its loop: the parents whose last child this was are queued.
TopoStep ==
  /\ step = "topo" /\ ready # <<>>
  /\ LET v == Head(ready)
         ps == IF OutRef(dag, v) = 0 THEN <<>> ELSE dag.parent[v]
     IN  /\ topo' = IF v \in ItmIdxs(dag) THEN Append(topo, v) ELSE topo
         /\ inref' = [p \in DOMAIN inref |-> inref[p] - Times(ps, p)]
         /\ ready' = Tail(ready) \o Outside(OnceEach(ps), {p \in Ids(dag) : inref'[p] # 0})
  /\ UNCHANGED <<dag, step, failed, failBlk, todo, stack, toDelete, levels, built>>

SortsDone ==
  /\ step = "topo" /\ ready = <<>>
  /\ step' = "done"
  /\ UNCHANGED <<dag, failed, failBlk, todo, stack, toDelete, sorting, built>>

Stutter == step = "done" /\ UNCHANGED vars

Build == JoinStep \/ ConcactStep
Work == \/ NextHeader \/ RemoveChild \/ RemoveReturns \/ DeleteStep
        \/ LevelStep \/ TopoStart \/ TopoStep \/ SortsDone

Next == Build \/ Work \/ Stutter

Spec == Init /\ [][Next]_vars

\* Once the DAG is built, one thread does the rest and nothing stops it.
FairSpec == Spec /\ WF_vars(Work)
-----------------------------------------------------------------------------
(***************************************************************************)
(* Properties.                                                             *)
(***************************************************************************)
(***************************************************************************)
(* The prune keeps exactly what the repaired block is made of, with the    *)
(* same children in the same order, and one header: its root; the lists of *)
(* headers and leaves, the types and the parents of the vertices, which    *)
(* Join and the prune keep by hand, still say what the edges say.          *)
(***************************************************************************)
PruneKeepsTheRepair ==
  step \notin {"build", "prune"} =>
    /\ Ids(dag) = MadeOf(built, Keep)
    /\ \A v \in Ids(dag) : dag.child[v] = built.child[v] /\ dag.coefs[v] = built.coefs[v]
    /\ dag.headers = <<Keep>> /\ WellFormed(dag)

(***************************************************************************)
(* Both sorts list a vertex once, after what it is made of: the levelled   *)
(* sort, by which tasks are generated from what lower levels produced, and *)
(* genTopoIdxs, by which vertices are coloured, whatever order the hash    *)
(* map has.  The latter lists all vertices that are computed and used.     *)
(***************************************************************************)
ChildrenFirst ==
  /\ \A l \in DOMAIN levels : \A v \in levels[l] :
       /\ \A m \in DOMAIN levels : v \in levels[m] => m = l
       /\ \A c \in ToSet(dag.child[v]) : \E m \in 1 .. l - 1 : c \in levels[m]
  /\ DistinctEntries(topo)
  /\ \A i \in DOMAIN topo : \A c \in ToSet(dag.child[topo[i]]) \cap ItmIdxs(dag) :
       \E j \in 1 .. i - 1 : topo[j] = c
  /\ step = "done" => ToSet(topo) = ItmIdxs(dag)

(***************************************************************************)
(* The prune and the two sorts end, and every vertex has its level (the    *)
(* loop of genLeveledTopologicalSorting only ends when it has placed all). *)
(***************************************************************************)
SortsEnd ==
  (step = "prune") ~> (step = "done" /\ UNION ToSet(levels) = Ids(dag))
=============================================================================

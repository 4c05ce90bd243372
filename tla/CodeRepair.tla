----------------------------- MODULE CodeRepair -----------------------------
(***************************************************************************)
(* An erasure code at work, as the program CodeTest runs it: Encode makes  *)
(* a DAG Join by Join and the blocks are written; some are lost; Decode    *)
(* makes the repair DAG, the lost blocks are collected, the leaves         *)
(* are read, and the vertices are computed level by level.  What is known  *)
(* of a sub-packet is how it depends on the data of the stripe: which data *)
(* sub-packets it is a sum of, and with what coefficients.  Encode says    *)
(* what that is for every block; a repair has to arrive at the same.       *)
(*                                                                         *)
(* A leaf that is not in any block stands for a block of a shortened code  *)
(* and is zero (CodeTest; the agents: TaskGen!IsVirtual).                  *)
(***************************************************************************)
EXTENDS Galois, FiniteSets, TLC

CONSTANTS Codes,            \* names of codes
          Shape(_),         \* _n, _k and _w of a code, as a record [n, k, w]
          EncodeJoins(_),   \* Encode: the Joins, in the order they are made
          DecodeJoins(_, _),\* Decode: the same, for a set of lost blocks
          FailSets(_)       \* the sets of blocks that may be lost

D == INSTANCE Dag

VARIABLES code,     \* the code of the stripe
          blocks,   \* the sub-packets as Encode wrote them, <<>> before
          lost,     \* the lost blocks, {} before
          joins,    \* the Joins that Encode or Decode has still to make
          dag,      \* the DAG they make
          value,    \* vertex read or computed -> how it depends on the data
          level,    \* the same vertex -> its level
          step      \* "encode", "decode", "compute", "done", or "abort" at an assertion

vars == <<code, blocks, lost, joins, dag, value, level, step>>

n == Shape(code).n
k == Shape(code).k
w == Shape(code).w

Data == 0 .. k * w - 1

Zero == <<>>
Unit(v) == v :> 1

\* What is computed from the inputs: the sum of coefficient times input.
Combine(cidx, coefs, Val(_)) ==
  LET Coef(x) ==
        LET used == SelectSeq([i \in DOMAIN cidx |-> i], LAMBDA i : x \in DOMAIN Val(cidx[i]))
        IN  XorAll([i \in DOMAIN used |-> Mul(coefs[used[i]], Val(cidx[used[i]])[x])])
      sum == [x \in UNION {DOMAIN Val(c) : c \in ToSet(cidx)} |-> Coef(x)]
  IN  RestrictValues(sum, LAMBDA e : e # 0)

\* The value of every vertex that Encode makes, data blocks first.
Encoded ==
  FoldLeft(LAMBDA val, j :
             LET Val(c) == IF c \in DOMAIN val THEN val[c] ELSE Zero
             IN  val @@ (j.p :> Combine(j.c, j.e, Val)),
           [v \in Data |-> Unit(v)], EncodeJoins(code))

Blk(v) == v \div w
IsSubPacket(v) == Blk(v) < n

\* A leaf is read from its block, or zero.
LeafValue(v) == IF IsSubPacket(v) THEN blocks[v] ELSE Zero
-----------------------------------------------------------------------------
Init ==
  /\ code \in Codes
  /\ blocks = <<>> /\ lost = {}
  /\ joins = EncodeJoins(code)
  /\ dag = D!EmptyDag
  /\ value = <<>> /\ level = <<>>
  /\ step = "encode"

\* The next of the Joins a code makes, with the assertion of Join.
Make ==
  /\ joins # <<>>
  /\ LET j == Head(joins)
     IN  IF D!JoinAllowed(dag, j.p, j.c)
           THEN /\ dag' = D!Join(dag, j.p, j.c, j.e)
                /\ joins' = Tail(joins)
                /\ UNCHANGED step
           ELSE /\ step' = "abort"
                /\ UNCHANGED <<dag, joins>>
  /\ UNCHANGED <<code, blocks, lost, value, level>>

EncodeJoin == step = "encode" /\ Make
DecodeJoin == step = "decode" /\ Make

\* The blocks are written, some are lost, and Decode begins a DAG of its own.
LoseBlocks ==
  /\ step = "encode" /\ joins = <<>>
  /\ blocks' = Encoded
  /\ lost' \in FailSets(code)
  /\ joins' = DecodeJoins(code, lost')
  /\ dag' = D!EmptyDag
  /\ step' = "decode"
  /\ UNCHANGED <<code, value, level>>

\* The sub-packets of the lost blocks, in order.
To == SelectSeq([i \in 1 .. n * w |-> i - 1], LAMBDA v : Blk(v) \in lost)

\* genRepairECDAG: the lost blocks are collected; then the leaves are read.
ConcactTo ==
  /\ step = "decode" /\ joins = <<>>
  /\ dag' = IF Cardinality(lost) = 1 THEN D!Concact(dag, To)
            ELSE D!ConcactBlocks(dag, To, n, w)
  /\ value' = [v \in ToSet(dag'.leaves) |-> LeafValue(v)]
  /\ level' = [v \in ToSet(dag'.leaves) |-> 0]
  /\ step' = "compute"
  /\ UNCHANGED <<code, blocks, lost, joins>>

\* The vertices of the next level: those whose children are there.
Ready == {v \in D!Ids(dag) \ DOMAIN value : ToSet(dag.child[v]) \subseteq DOMAIN value}

\* The roots that Concact made collect sub-packets; nothing is computed there.
Collects(v) == v > D!REQUESTOR - n

Result(v) ==
  IF Collects(v) THEN Zero ELSE Combine(dag.child[v], dag.coefs[v], LAMBDA c : value[c])

ComputeLevel ==
  /\ step = "compute" /\ Ready # {}
  /\ value' = [v \in Ready |-> Result(v)] @@ value
  /\ level' = LET up == 1 + CHOOSE l \in {level[v] : v \in DOMAIN level} :
                                \A v \in DOMAIN level : level[v] <= l
              IN  [v \in Ready |-> up] @@ level
  /\ UNCHANGED <<code, blocks, lost, joins, dag, step>>

ComputeDone ==
  /\ step = "compute" /\ Ready = {}
  /\ step' = "done"
  /\ UNCHANGED <<code, blocks, lost, joins, dag, value, level>>

Done == step \in {"done", "abort"} /\ UNCHANGED vars

Next == EncodeJoin \/ LoseBlocks \/ DecodeJoin \/ ConcactTo \/ ComputeLevel \/ ComputeDone \/ Done

Spec == Init /\ [][Next]_vars
-----------------------------------------------------------------------------
(***************************************************************************)
(* Properties.                                                             *)
(***************************************************************************)

(***************************************************************************)
(* Nothing is read from a lost block: the leaves of the repair DAG are     *)
(* sub-packets of other blocks, or virtual.  A lost sub-packet that Decode *)
(* uses before it makes it, or does not make at all, would be a leaf.      *)
(***************************************************************************)
ReadsSurvivors ==
  \A v \in ToSet(dag.leaves) : Blk(v) \notin lost

(***************************************************************************)
(* No Join of Encode and Decode is refused (the assertion in ECDAG::Join   *)
(* ends the process), and the repaired sub-packets are those that Encode   *)
(* wrote, although Encode and Decode compute along different ways          *)
(* (CodeTest compares them).                                               *)
(***************************************************************************)
RepairsTheData ==
  /\ step # "abort"
  /\ step = "done" =>
       \A v \in ToSet(To) : v \in DOMAIN value /\ value[v] = blocks[v]

(***************************************************************************)
(* What task generation and the counting of a load take for granted        *)
(* (TaskGenAssumption, ColoringAssumption): one lost block has one root    *)
(* that everything leads to and that collects computed vertices, all the   *)
(* consumers of a vertex are on the same level, no vertex lists a child    *)
(* twice, and each child has one coefficient (what computes a vertex fills *)
(* a buffer of the length of one list from the other).                     *)
(***************************************************************************)
FitForTasks ==
  step = "done" =>
    /\ \A v \in D!Ids(dag) : /\ Collects(v) \/ Len(dag.coefs[v]) = Len(dag.child[v])
                            /\ D!DistinctEntries(dag.child[v])
    /\ Cardinality(lost) = 1 =>
         /\ dag.headers = <<D!REQUESTOR>>
         /\ dag.child[D!REQUESTOR] # <<>>
         /\ ToSet(dag.child[D!REQUESTOR]) \cap ToSet(dag.leaves) = {}
         /\ \A v \in D!Ids(dag) : Cardinality({level[q] : q \in ToSet(dag.parent[v])}) <= 1
=============================================================================

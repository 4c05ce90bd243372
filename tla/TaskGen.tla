------------------------------ MODULE TaskGen -------------------------------
(***************************************************************************)
(* Stripe::genRepairTasks: from the repair DAG of a stripe and its         *)
(* colouring (a node for every vertex) to the tasks of every node.         *)
(*                                                                         *)
(* A vertex is a sub-packet.  The leaves are read from a block or, for a   *)
(* virtual block of a shortened code, are zero; the vertices of an         *)
(* intermediate level are computed at the node of their colour; the root   *)
(* REQUESTOR collects the sub-packets of the lost block.  A vertex whose   *)
(* colour is NoColor is zero and is produced where it is used.             *)
(***************************************************************************)
EXTENDS Integers, Sequences, FiniteSets, SequencesExt

CONSTANTS Vertices,       \* the dagidx of _ecNodeMap
          Src,            \* vertex -> its child indices, as given to Join
          Nodes,          \* ids of agents and repair nodes
          ecn, ecw,       \* blocks of a stripe, sub-packets of a block
          HashOrder,      \* the order in which a hash map lists vertices
          Fail2Repair     \* failed node -> node that stands in for it

REQUESTOR == 32767
NoColor   == -1

IsLeaf(v)    == Src[v] = <<>>
IsVirtual(v) == IsLeaf(v) /\ v \div ecw >= ecn

\* The level of a vertex is one more than that of its highest child.
Level[v \in Vertices] ==
  IF IsLeaf(v) THEN 0
  ELSE 1 + CHOOSE l \in {Level[c] : c \in ToSet(Src[v])} :
             \A c \in ToSet(Src[v]) : Level[c] <= l

LastLevel == Level[REQUESTOR]

Parents(v) == {p \in Vertices : v \in ToSet(Src[p])}

\* The vertices of a set in an order, which is given as a set of pairs.
InOrder(S, order) ==
  [i \in 1 .. Cardinality(S) |->
     CHOOSE v \in S : Cardinality({w \in S : <<w, v>> \in order}) = i - 1]

StrictOrder(R, S) ==
  /\ \A v \in S : <<v, v>> \notin R
  /\ \A u, v, w \in S : <<u, v>> \in R /\ <<v, w>> \in R => <<u, w>> \in R
  /\ \A v, w \in S : v = w \/ <<v, w>> \in R \/ <<w, v>> \in R

(***************************************************************************)
(* What the code takes for granted.  The DAG has no cycle: the definition  *)
(* of Level is one.  It has one root, above all the other levels.  All     *)
(* the consumers of a vertex are on one level: a node keeps one queue per  *)
(* vertex, and two compute tasks, or a compute task and the persist task,  *)
(* would each take a part of its packets.                                  *)
(***************************************************************************)
ASSUME TaskGenAssumption ==
  /\ Vertices \subseteq 0 .. REQUESTOR /\ REQUESTOR \in Vertices
  /\ Src \in [Vertices -> Seq(Vertices)]
  /\ ecn \in Nat /\ ecw \in Nat \ {0}
  /\ NoColor \notin Nodes
  /\ StrictOrder(HashOrder, Vertices)
  /\ \A v \in Vertices : /\ Level[v] \in Nat
                         /\ IsLeaf(v) <=> Level[v] = 0
                         /\ \A c \in ToSet(Src[v]) : Level[c] < Level[v]
  /\ \A v \in Vertices \ {REQUESTOR} : Parents(v) # {} /\ Level[v] < LastLevel
  /\ \A v \in Vertices : \A p, q \in Parents(v) : Level[p] = Level[q]

\* The vertices of a set, in the order a hash map lists them.
List(S) == InOrder(S, HashOrder)

Ascending == {p \in Vertices \X Vertices : p[1] < p[2]}

\* The colouring after the failed node is replaced.
Remap(coloring) ==
  [v \in Vertices |-> IF coloring[v] \in DOMAIN Fail2Repair
                        THEN Fail2Repair[coloring[v]] ELSE coloring[v]]
-----------------------------------------------------------------------------
(***************************************************************************)
(* Where a vertex is used, for the colouring `color'.                      *)
(***************************************************************************)
ParentColors(color, v) == {color[p] : p \in Parents(v)}

\* usage.first: a consumer is at the node that produces v.
Same(color, v) == color[v] \in ParentColors(color, v)

\* Mutant: usage.second is looked at only when usage.first is not set.
DiffUnlessSame(color, v) ==
  color[v] \notin ParentColors(color, v) /\ \E c \in ParentColors(color, v) : c # color[v]

\* usage.second: a consumer is at another node.
Diff(color, v) == \E c \in ParentColors(color, v) : c # color[v]

\* The other nodes that use v, each once.
SendTo(color, v) == ParentColors(color, v) \ {color[v]}

AtLevel(l) == {v \in Vertices : Level[v] = l}

\* The vertices of a level that their own node reads or computes ...
Produced(color, l) ==
  IF l = 0 THEN {v \in AtLevel(0) : ~IsVirtual(v)}
  ELSE {v \in AtLevel(l) : color[v] # NoColor}

\* ... and those that are zero wherever they are used.
ZeroAt(color, l) == AtLevel(l) \ Produced(color, l)

Task(type, node, at, list) == [type |-> type, node |-> node, at |-> at, list |-> list]

\* One read task per block, at the node of its first sub-packet in hash order.
ReadTasks(color) ==
  {LET S == {v \in Produced(color, 0) : v \div ecw = b}
   IN  Task("read", color[List(S)[1]], b, InOrder(S, Ascending)) :
     b \in {v \div ecw : v \in Produced(color, 0)}}

\* One zero, send, receive and compute task per level and node.
ZeroTask(color, l, n) ==
  Task("zero", n, l, List({v \in ZeroAt(color, l) : n \in ParentColors(color, v)}))

SendTask(color, l, n) ==
  Task("send", n, l, List({v \in Produced(color, l) : color[v] = n /\ SendTo(color, v) # {}}))

RecvTask(color, l, n) ==
  Task("recv", n, l, List({v \in Produced(color, l) : n \in SendTo(color, v)}))

ComputeTask(color, l, n) ==
  Task("compute", n, l, List({v \in Produced(color, l) : color[v] = n}))

PersistTask(color) == Task("persist", color[REQUESTOR], LastLevel, Src[REQUESTOR])

LevelTasks(color, l, n) ==
  {ZeroTask(color, l, n), SendTask(color, l, n), RecvTask(color, l, n)}
    \cup (IF l = 0 THEN {} ELSE {ComputeTask(color, l, n)})

\* The tasks of all the nodes; no task is made for an empty list.
GenRepairTasks(color) ==
  {t \in ReadTasks(color) \cup {PersistTask(color)}
           \cup UNION {LevelTasks(color, l, n) : l \in 0 .. LastLevel - 1, n \in Nodes} :
     t.list # <<>>}
=============================================================================

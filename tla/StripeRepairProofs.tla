------------------------- MODULE StripeRepairProofs -------------------------
(***************************************************************************)
(* The repair of a stripe is right for every DAG, colouring, number of     *)
(* packets and order of the threads: what persist writes is the lost       *)
(* block, and nothing is left in a queue or a redis list.                  *)
(*                                                                         *)
(* The first part is about TaskGen: which tasks genRepairTasks makes of    *)
(* any DAG and any colouring, and which vertices each of them lists.       *)
(***************************************************************************)
EXTENDS StripeRepair, FiniteSetTheorems, WellFoundedInduction, TLAPS

-----------------------------------------------------------------------------
(***************************************************************************)
(* Lists of the elements of a set.                                         *)
(***************************************************************************)

\* The sequence has every element of the set, each once.
Lists(s, S) ==
  /\ s \in Seq(S)
  /\ \A v \in S : \E i \in 1 .. Len(s) : s[i] = v
  /\ \A i, j \in 1 .. Len(s) : s[i] = s[j] => i = j

Below(v, S, R) == {w \in S : <<w, v>> \in R}

\* A set of natural numbers that is not empty has a least element.
LEMMA LeastElement ==
  ASSUME NEW S \in SUBSET Nat, S # {}
  PROVE  \E x \in S : \A y \in S : x <= y
<1> DEFINE R == OpToRel(<, Nat)
<1>1. IsWellFoundedOn(R, Nat)
  BY NatLessThanWellFounded
<1>2. PICK x \in S : \A y \in S : ~(<<y, x>> \in R)
  BY <1>1, WFMin, Zenon
<1>3. \A y \in S : ~(y < x)
  BY <1>2 DEF OpToRel
<1> QED BY <1>3

\* An element that comes first in an order has fewer elements below it.
LEMMA BelowGrows ==
  ASSUME NEW S, IsFiniteSet(S), NEW R, StrictOrder(R, S),
         NEW v \in S, NEW w \in S, <<v, w>> \in R
  PROVE  Cardinality(Below(v, S, R)) < Cardinality(Below(w, S, R))
<1>1. /\ IsFiniteSet(Below(w, S, R)) /\ Cardinality(Below(w, S, R)) \in Nat
      /\ IsFiniteSet(Below(v, S, R)) /\ Cardinality(Below(v, S, R)) \in Nat
  BY FS_Subset, FS_CardinalityType DEF Below
<1>2. Below(v, S, R) \subseteq Below(w, S, R)
  BY DEF Below, StrictOrder
<1>3. v \in Below(w, S, R) /\ v \notin Below(v, S, R)
  BY DEF Below, StrictOrder
<1> QED BY <1>1, <1>2, <1>3, FS_Subset

\* InOrder lists a set, in any strict order of its elements.
LEMMA InOrderLists ==
  ASSUME NEW S, IsFiniteSet(S), NEW R, StrictOrder(R, S)
  PROVE  Lists(InOrder(S, R), S)
<1> DEFINE N == Cardinality(S)
           f == [v \in S |-> Cardinality(Below(v, S, R)) + 1]
           s == InOrder(S, R)
<1>1. N \in Nat
  BY FS_CardinalityType
<1>2. \A v \in S : f[v] \in 1 .. N
  <2> TAKE v \in S
  <2>1. Below(v, S, R) \subseteq S \ {v}
    BY DEF Below, StrictOrder
  <2>2. IsFiniteSet(S \ {v}) /\ Cardinality(S \ {v}) = N - 1
    BY FS_RemoveElement
  <2>3. /\ IsFiniteSet(Below(v, S, R)) /\ Cardinality(Below(v, S, R)) <= N - 1
        /\ Cardinality(Below(v, S, R)) \in Nat
    BY <2>1, <2>2, FS_Subset, FS_CardinalityType
  <2> QED BY <2>3, <1>1
<1>3. \A v, w \in S : f[v] = f[w] => v = w
  <2> TAKE v, w \in S
  <2>1. CASE <<v, w>> \in R
    <3>1. Cardinality(Below(v, S, R)) \in Nat /\ Cardinality(Below(w, S, R)) \in Nat
      BY FS_Subset, FS_CardinalityType DEF Below
    <3> QED BY <2>1, <3>1, BelowGrows
  <2>2. CASE <<w, v>> \in R
    <3>1. Cardinality(Below(v, S, R)) \in Nat /\ Cardinality(Below(w, S, R)) \in Nat
      BY FS_Subset, FS_CardinalityType DEF Below
    <3> QED BY <2>2, <3>1, BelowGrows
  <2> QED BY <2>1, <2>2 DEF StrictOrder
<1>4. f \in Injection(S, 1 .. N)
  BY <1>2, <1>3 DEF Injection, IsInjective
<1>5. IsFiniteSet(1 .. N) /\ Cardinality(1 .. N) = N
  BY <1>1, FS_Interval
<1>6. f \in Surjection(S, 1 .. N)
  BY <1>4, <1>5, FS_Injection
<1>7. \A i \in 1 .. N : \E v \in S : Cardinality(Below(v, S, R)) = i - 1
  <2> TAKE i \in 1 .. N
  <2>1. PICK v \in S : f[v] = i
    BY <1>6 DEF Surjection
  <2>2. Cardinality(Below(v, S, R)) \in Nat
    BY FS_Subset, FS_CardinalityType DEF Below
  <2> QED BY <2>1, <2>2
<1>8. \A i \in 1 .. N : s[i] \in S /\ Cardinality(Below(s[i], S, R)) = i - 1
  <2> TAKE i \in 1 .. N
  <2>1. s[i] = CHOOSE v \in S : Cardinality(Below(v, S, R)) = i - 1
    BY DEF InOrder, Below
  <2> QED BY <1>7, <2>1
<1>9. s \in Seq(S) /\ Len(s) = N
  <2>1. s \in [1 .. N -> S]
    <3> DEFINE pick(i) == CHOOSE v \in S : Cardinality({w \in S : <<w, v>> \in R}) = i - 1
    <3>1. s = [i \in 1 .. N |-> pick(i)]
      BY DEF InOrder
    <3>2. s = [i \in 1 .. N |-> s[i]]
      <4> HIDE DEF s, pick, N
      <4> QED BY <3>1
    <3> HIDE DEF s, N
    <3> QED BY <1>8, <3>2
  <2> HIDE DEF s, N
  <2> QED BY <1>1, <2>1
<1>10. \A v \in S : \E i \in 1 .. Len(s) : s[i] = v
  <2> TAKE v \in S
  <2> DEFINE i == f[v]
  <2>1. i \in 1 .. N /\ i - 1 = Cardinality(Below(v, S, R))
    <3>1. Cardinality(Below(v, S, R)) \in Nat
      BY FS_Subset, FS_CardinalityType DEF Below
    <3> QED BY <1>2, <3>1
  <2>2. s[i] \in S /\ Cardinality(Below(s[i], S, R)) = i - 1
    BY <1>8, <2>1
  <2>3. f[s[i]] = f[v]
    BY <2>1, <2>2
  <2> HIDE DEF i, f, s
  <2>4. s[i] = v
    BY <1>3, <2>2, <2>3
  <2> QED BY <1>9, <2>1, <2>4
<1>11. \A i, j \in 1 .. Len(s) : s[i] = s[j] => i = j
  <2> TAKE i, j \in 1 .. Len(s)
  <2>1. i \in 1 .. N /\ j \in 1 .. N
    BY <1>9
  <2>2. i - 1 = Cardinality(Below(s[i], S, R)) /\ j - 1 = Cardinality(Below(s[j], S, R))
    BY <1>8, <2>1
  <2> HIDE DEF s
  <2> QED BY <2>1, <2>2
<1>12. Lists(s, S)
  <2> HIDE DEF s
  <2> QED BY <1>9, <1>10, <1>11 DEF Lists
<1> QED BY <1>12
-----------------------------------------------------------------------------
(***************************************************************************)
(* The tasks.                                                              *)
(***************************************************************************)

\* What the lemmas need of a colouring (StripeRepair!Usable implies it).
Placed(col) ==
  /\ col \in [Vertices -> Nodes \cup {NoColor}]
  /\ col[REQUESTOR] \in Nodes
  /\ \A v \in Vertices : IsLeaf(v) /\ ~IsVirtual(v) =>
       /\ col[v] \in Nodes
       /\ \A w \in Vertices : IsLeaf(w) /\ w \div ecw = v \div ecw => col[w] = col[v]
  /\ \A v \in Vertices : col[v] = NoColor /\ ~IsLeaf(v) =>
       \A c \in ToSet(Src[v]) : IsVirtual(c) \/ col[c] = NoColor

\* The vertex is read or computed at the node of its colour.
Made(col, v) == v \in Vertices \ {REQUESTOR} /\ v \in Produced(col, Level[v])

\* The vertices that tasks of a type list at node n.
Listed(col, type, n) ==
  {v \in Vertices :
     CASE type = "read"    -> IsLeaf(v) /\ ~IsVirtual(v) /\ col[v] = n
       [] type = "zero"    -> v # REQUESTOR /\ ~Made(col, v) /\ n \in ParentColors(col, v)
       [] type = "send"    -> Made(col, v) /\ col[v] = n /\ SendTo(col, v) # {}
       [] type = "recv"    -> Made(col, v) /\ n \in SendTo(col, v)
       [] type = "compute" -> Made(col, v) /\ ~IsLeaf(v) /\ col[v] = n
       [] type = "persist" -> v \in ToSet(Src[REQUESTOR]) /\ n = col[REQUESTOR]
       [] OTHER -> FALSE}

\* Where in the DAG a task belongs: to a block, to a level.
PlaceOf(type, v) ==
  CASE type = "read" -> v \div ecw [] type = "persist" -> LastLevel [] OTHER -> Level[v]

Types == {"read", "zero", "send", "recv", "compute", "persist"}

\* Some of the assumptions, one by one.
LEMMA TheGraph ==
  /\ Vertices \subseteq 0 .. REQUESTOR /\ REQUESTOR \in Vertices
  /\ \A v \in Vertices \ {REQUESTOR} : Parents(v) # {}
  /\ \A v \in Vertices : \A p, q \in Parents(v) : Level[p] = Level[q]
<1>1. Vertices \subseteq 0 .. REQUESTOR /\ REQUESTOR \in Vertices
  BY TaskGenAssumption, Zenon
<1>2. \A v \in Vertices \ {REQUESTOR} : Parents(v) # {}
  BY TaskGenAssumption, Zenon
<1>3. \A v \in Vertices : \A p, q \in Parents(v) : Level[p] = Level[q]
  BY TaskGenAssumption, Zenon
<1> QED BY <1>1, <1>2, <1>3

LEMMA VerticesFinite == \A S \in SUBSET Vertices : IsFiniteSet(S) /\ Cardinality(S) \in Nat
<1>1. 0 \in Int /\ REQUESTOR \in Int
  BY DEF REQUESTOR
<1>2. IsFiniteSet(0 .. REQUESTOR)
  BY <1>1, FS_Interval
<1> QED BY <1>2, FS_Subset, FS_CardinalityType, TheGraph

LEMMA ListLists == \A S \in SUBSET Vertices : Lists(List(S), S)
<1> TAKE S \in SUBSET Vertices
<1>1. StrictOrder(HashOrder, S)
  BY TaskGenAssumption DEF StrictOrder
<1> QED BY <1>1, VerticesFinite, InOrderLists DEF List

LEMMA AscendingLists == \A S \in SUBSET Vertices : Lists(InOrder(S, Ascending), S)
<1> TAKE S \in SUBSET Vertices
<1>1. Vertices \subseteq Int
  <2>1. 0 .. REQUESTOR \subseteq Int
    BY DEF REQUESTOR
  <2> QED BY <2>1, TheGraph
<1>2. \A v, w \in Vertices : <<v, w>> \in Ascending <=> v < w
  BY DEF Ascending
<1>3. StrictOrder(Ascending, S)
  BY <1>1, <1>2 DEF StrictOrder
<1> QED BY <1>3, VerticesFinite, InOrderLists

LEMMA Levels ==
  /\ LastLevel \in Nat
  /\ \A v \in Vertices : Level[v] \in Nat /\ (IsLeaf(v) <=> Level[v] = 0)
  /\ \A v \in Vertices \ {REQUESTOR} : Level[v] \in 0 .. LastLevel - 1
  /\ \A v \in Vertices : \A p \in Parents(v) : p \in Vertices /\ Level[v] < Level[p] /\ ~IsLeaf(p)
  /\ \A v \in Vertices : v # REQUESTOR <=> Level[v] # LastLevel
  /\ \A v \in Parents(REQUESTOR) : FALSE
<1>1. /\ LastLevel \in Nat
      /\ \A v \in Vertices : Level[v] \in Nat /\ (IsLeaf(v) <=> Level[v] = 0)
      /\ \A v \in Vertices \ {REQUESTOR} : Level[v] \in 0 .. LastLevel - 1
  BY TaskGenAssumption DEF LastLevel
<1>2. \A v \in Vertices : v # REQUESTOR <=> Level[v] # LastLevel
  BY TaskGenAssumption, <1>1 DEF LastLevel
<1>3. \A v \in Vertices : \A p \in Parents(v) : p \in Vertices /\ Level[v] < Level[p]
  BY TaskGenAssumption DEF Parents
<1>4. \A v \in Vertices : \A p \in Parents(v) : ~IsLeaf(p)
  BY <1>1, <1>3
<1>5. ASSUME NEW p \in Parents(REQUESTOR)  PROVE FALSE
  <2>1. p \in Vertices /\ LastLevel < Level[p]
    BY <1>3, TaskGenAssumption DEF LastLevel
  <2>2. Level[p] \in Nat /\ (p = REQUESTOR \/ Level[p] < LastLevel)
    BY <2>1, TaskGenAssumption
  <2>3. p = REQUESTOR => Level[p] = LastLevel
    BY DEF LastLevel
  <2> QED BY <1>1, <2>1, <2>2, <2>3
<1> QED BY <1>1, <1>2, <1>3, <1>4, <1>5

\* A vertex that is made has a node, and so has every node it is sent to.
LEMMA MadeAt ==
  ASSUME NEW col, Placed(col), NEW v \in Vertices
  PROVE  /\ Made(col, v) => /\ col[v] \in Nodes
                            /\ SendTo(col, v) \subseteq Nodes
                            /\ ParentColors(col, v) \subseteq Nodes
         /\ Made(col, v) /\ IsLeaf(v) => ~IsVirtual(v)
         /\ v # REQUESTOR /\ IsLeaf(v) /\ ~IsVirtual(v) => Made(col, v)
         /\ v # REQUESTOR /\ ~IsLeaf(v) /\ col[v] # NoColor => Made(col, v)
         /\ ~Made(col, v) /\ v # REQUESTOR => v \in ZeroAt(col, Level[v])
         /\ Made(col, v) => v \in Produced(col, Level[v]) /\ v # REQUESTOR
<1>1. Made(col, v) => col[v] \in Nodes
  BY Levels DEF Made, Produced, AtLevel, Placed
<1>2. ASSUME Made(col, v), NEW p \in Parents(v)  PROVE col[p] \in Nodes
  <2>1. p \in Vertices /\ ~IsLeaf(p) /\ v \in ToSet(Src[p])
    BY Levels DEF Parents
  <2>2. ~IsVirtual(v)
    BY <1>2, Levels DEF Made, Produced, AtLevel, IsVirtual
  <2>3. col[v] # NoColor
    BY <1>1, <1>2, TaskGenAssumption
  <2> QED BY <2>1, <2>2, <2>3 DEF Placed
<1>3. Made(col, v) => ParentColors(col, v) \subseteq Nodes
  BY <1>2 DEF ParentColors
<1>4. Made(col, v) => SendTo(col, v) \subseteq Nodes
  BY <1>3 DEF SendTo
<1>5. /\ Made(col, v) /\ IsLeaf(v) => ~IsVirtual(v)
      /\ v # REQUESTOR /\ IsLeaf(v) /\ ~IsVirtual(v) => Made(col, v)
      /\ v # REQUESTOR /\ ~IsLeaf(v) /\ col[v] # NoColor => Made(col, v)
      /\ ~Made(col, v) /\ v # REQUESTOR => v \in ZeroAt(col, Level[v])
      /\ Made(col, v) => v \in Produced(col, Level[v]) /\ v # REQUESTOR
  BY Levels DEF Made, Produced, AtLevel, ZeroAt, IsVirtual
<1> QED BY <1>1, <1>3, <1>4, <1>5

LEMMA ProducedIs ==
  ASSUME NEW col, NEW l \in 0 .. LastLevel - 1
  PROVE  /\ Produced(col, l) \subseteq Vertices
         /\ ZeroAt(col, l) \subseteq Vertices
         /\ \A v \in Vertices : v \in Produced(col, l) <=> Made(col, v) /\ Level[v] = l
         /\ \A v \in Vertices : v \in ZeroAt(col, l) <=>
                                  v # REQUESTOR /\ ~Made(col, v) /\ Level[v] = l
BY Levels DEF Made, Produced, ZeroAt, AtLevel

\* What genRepairTasks makes, one kind of task after another.
LEMMA TaskForms ==
  ASSUME NEW col, NEW t
  PROVE  t \in GenRepairTasks(col) <=>
           /\ t.list # <<>>
           /\ \/ t \in ReadTasks(col)
              \/ t = PersistTask(col)
              \/ \E l \in 0 .. LastLevel - 1, n \in Nodes :
                   \/ t = ZeroTask(col, l, n) \/ t = SendTask(col, l, n)
                   \/ t = RecvTask(col, l, n) \/ (l # 0 /\ t = ComputeTask(col, l, n))
<1> DEFINE Leveled == UNION {LevelTasks(col, l, n) : l \in 0 .. LastLevel - 1, n \in Nodes}
<1>1. t \in Leveled <=> \E l \in 0 .. LastLevel - 1, n \in Nodes : t \in LevelTasks(col, l, n)
  OBVIOUS
<1>2. ASSUME NEW l, NEW n
      PROVE  t \in LevelTasks(col, l, n) <=>
               \/ t = ZeroTask(col, l, n) \/ t = SendTask(col, l, n)
               \/ t = RecvTask(col, l, n) \/ (l # 0 /\ t = ComputeTask(col, l, n))
  BY DEF LevelTasks
<1>3. t \in GenRepairTasks(col) <=>
        t \in ReadTasks(col) \cup {PersistTask(col)} \cup Leveled /\ t.list # <<>>
  BY DEF GenRepairTasks
<1> HIDE DEF Leveled
<1> QED BY <1>1, <1>2, <1>3

\* The read task of a block lists its sub-packets, which are all at one node.
LEMMA ReadTaskIs ==
  ASSUME NEW col, Placed(col), NEW t \in ReadTasks(col)
  PROVE  /\ t.type = "read" /\ t.node \in Nodes
         /\ t = Task("read", t.node, t.at, t.list)
         /\ t.list = InOrder({v \in Produced(col, 0) : v \div ecw = t.at}, Ascending)
         /\ \E v \in Produced(col, 0) : v \div ecw = t.at
         /\ \A v \in Produced(col, 0) : v \div ecw = t.at => col[v] = t.node
<1>1. PICK b \in {v \div ecw : v \in Produced(col, 0)} :
        LET S == {v \in Produced(col, 0) : v \div ecw = b}
        IN  t = Task("read", col[List(S)[1]], b, InOrder(S, Ascending))
  BY DEF ReadTasks
<1> DEFINE S == {v \in Produced(col, 0) : v \div ecw = b}
<1>2. S \in SUBSET Vertices /\ S # {}
  BY <1>1 DEF Produced, AtLevel
<1>3. Lists(List(S), S)
  BY <1>2, ListLists
<1>4. List(S)[1] \in S
  <2> HIDE DEF S
  <2> QED BY <1>2, <1>3 DEF Lists
<1>5. \A v \in S : IsLeaf(v) /\ ~IsVirtual(v) /\ v \in Vertices
  BY Levels DEF Produced, AtLevel
<1>6. \A v, w \in S : col[v] = col[w] /\ col[v] \in Nodes
  BY <1>5 DEF Placed
<1>7. t = Task("read", col[List(S)[1]], b, InOrder(S, Ascending))
  BY <1>1
<1> HIDE DEF S
<1>8. /\ t.type = "read" /\ t.node = col[List(S)[1]] /\ t.at = b
      /\ t.list = InOrder(S, Ascending)
  BY <1>7 DEF Task
<1>9. t.node \in Nodes /\ \A v \in S : col[v] = t.node
  BY <1>4, <1>6, <1>8
<1> QED BY <1>1, <1>2, <1>7, <1>8, <1>9 DEF S

\* What a task is, and what it lists.
TaskFacts(col, t) ==
  /\ t.type \in Types /\ t.node \in Nodes
  /\ t.list \in Seq(Vertices) /\ t.list # <<>>
  /\ \A v \in Vertices :
       v \in ToSet(t.list) <=> v \in Listed(col, t.type, t.node) /\ PlaceOf(t.type, v) = t.at
  /\ t.type # "persist" => \A i, j \in 1 .. Len(t.list) : t.list[i] = t.list[j] => i = j

LEMMA ListedSet ==
  ASSUME NEW S \in SUBSET Vertices, NEW s, Lists(s, S)
  PROVE  /\ s \in Seq(Vertices)
         /\ \A v \in Vertices : v \in ToSet(s) <=> v \in S
         /\ \A i, j \in 1 .. Len(s) : s[i] = s[j] => i = j
BY SMTT(20) DEF Lists, ToSet

LEMMA TaskIs ==
  ASSUME NEW col, Placed(col), NEW t \in GenRepairTasks(col)
  PROVE  TaskFacts(col, t)
<1> USE DEF Task
<1>0. t.list # <<>>
  BY TaskForms
<1>a. LastLevel \in Nat /\ REQUESTOR \in Vertices
  BY Levels, TaskGenAssumption
<1>1. CASE t \in ReadTasks(col)
  <2> DEFINE S == {v \in Produced(col, 0) : v \div ecw = t.at}
  <2>1. /\ t.type = "read" /\ t.node \in Nodes /\ t.list = InOrder(S, Ascending)
        /\ \A v \in S : col[v] = t.node
    BY <1>1, ReadTaskIs
  <2>2. S \in SUBSET Vertices
    BY DEF Produced, AtLevel
  <2>3. Lists(t.list, S)
    BY <2>1, <2>2, AscendingLists
  <2>4. \A v \in Vertices : v \in S <=> IsLeaf(v) /\ ~IsVirtual(v) /\ v \div ecw = t.at
    BY Levels DEF Produced, AtLevel
  <2>5. \A v \in Vertices : v \in S <=> v \in Listed(col, t.type, t.node) /\ PlaceOf(t.type, v) = t.at
    BY <2>1, <2>4 DEF Listed, PlaceOf
  <2> HIDE DEF S
  <2>6. /\ t.list \in Seq(Vertices)
        /\ \A v \in Vertices : v \in ToSet(t.list) <=> v \in S
        /\ \A i, j \in 1 .. Len(t.list) : t.list[i] = t.list[j] => i = j
    BY <2>2, <2>3, ListedSet
  <2>7. \A v \in Vertices : v \in ToSet(t.list) <=>
          v \in Listed(col, t.type, t.node) /\ PlaceOf(t.type, v) = t.at
    BY <2>5, <2>6
  <2> QED BY <1>0, <2>1, <2>6, <2>7 DEF TaskFacts, Types
<1>2. CASE t = PersistTask(col)
  <2>1. t.type = "persist" /\ t.node = col[REQUESTOR] /\ t.list = Src[REQUESTOR] /\ t.at = LastLevel
    BY <1>2 DEF PersistTask
  <2>2. t.node \in Nodes /\ t.list \in Seq(Vertices)
    BY <2>1, TaskGenAssumption DEF Placed
  <2>3. \A v \in Vertices : v \in ToSet(t.list) <=>
                              v \in Listed(col, t.type, t.node) /\ PlaceOf(t.type, v) = t.at
    BY <2>1 DEF Listed, PlaceOf
  <2> QED BY <1>0, <2>1, <2>2, <2>3 DEF TaskFacts, Types
<1>3. ASSUME NEW l \in 0 .. LastLevel - 1, NEW n \in Nodes,
             \/ t = ZeroTask(col, l, n) \/ t = SendTask(col, l, n)
             \/ t = RecvTask(col, l, n) \/ (l # 0 /\ t = ComputeTask(col, l, n))
      PROVE  TaskFacts(col, t)
  <2>1. PICK S \in SUBSET Vertices :
          /\ t.list = List(S) /\ t.node = n /\ t.at = l /\ t.type \in Types \ {"read", "persist"}
          /\ \A v \in Vertices : v \in S <=> v \in Listed(col, t.type, n) /\ PlaceOf(t.type, v) = l
    <3>1. CASE t = ZeroTask(col, l, n)
      <4> DEFINE S == {v \in ZeroAt(col, l) : n \in ParentColors(col, v)}
      <4>1. S \in SUBSET Vertices
        BY ProducedIs
      <4>2. t.type = "zero" /\ t.list = List(S) /\ t.node = n /\ t.at = l
        BY <3>1 DEF ZeroTask
      <4>3. \A v \in Vertices : v \in S <=> v \in Listed(col, t.type, n) /\ PlaceOf(t.type, v) = l
        BY <4>2, ProducedIs DEF Listed, PlaceOf
      <4> QED BY <4>1, <4>2, <4>3 DEF Types
    <3>2. CASE t = SendTask(col, l, n)
      <4> DEFINE S == {v \in Produced(col, l) : col[v] = n /\ SendTo(col, v) # {}}
      <4>1. S \in SUBSET Vertices
        BY ProducedIs
      <4>2. t.type = "send" /\ t.list = List(S) /\ t.node = n /\ t.at = l
        BY <3>2 DEF SendTask
      <4>3. \A v \in Vertices : v \in S <=> v \in Listed(col, t.type, n) /\ PlaceOf(t.type, v) = l
        BY <4>2, ProducedIs DEF Listed, PlaceOf
      <4> QED BY <4>1, <4>2, <4>3 DEF Types
    <3>3. CASE t = RecvTask(col, l, n)
      <4> DEFINE S == {v \in Produced(col, l) : n \in SendTo(col, v)}
      <4>1. S \in SUBSET Vertices
        BY ProducedIs
      <4>2. t.type = "recv" /\ t.list = List(S) /\ t.node = n /\ t.at = l
        BY <3>3 DEF RecvTask
      <4>3. \A v \in Vertices : v \in S <=> v \in Listed(col, t.type, n) /\ PlaceOf(t.type, v) = l
        BY <4>2, ProducedIs DEF Listed, PlaceOf
      <4> QED BY <4>1, <4>2, <4>3 DEF Types
    <3>4. CASE l # 0 /\ t = ComputeTask(col, l, n)
      <4> DEFINE S == {v \in Produced(col, l) : col[v] = n}
      <4>1. S \in SUBSET Vertices
        BY ProducedIs
      <4>2. t.type = "compute" /\ t.list = List(S) /\ t.node = n /\ t.at = l
        BY <3>4 DEF ComputeTask
      <4>3. \A v \in Vertices : Level[v] = l => ~IsLeaf(v)
        BY <3>4, Levels
      <4>4. \A v \in Vertices : v \in S <=> v \in Listed(col, t.type, n) /\ PlaceOf(t.type, v) = l
        BY <4>2, <4>3, ProducedIs DEF Listed, PlaceOf
      <4> QED BY <4>1, <4>2, <4>4 DEF Types
    <3> QED BY <1>3, <3>1, <3>2, <3>3, <3>4
  <2>2. Lists(t.list, S)
    BY <2>1, ListLists
  <2> QED BY <1>0, <2>1, <2>2, ListedSet DEF TaskFacts
<1> QED BY <1>1, <1>2, <1>3, TaskForms

\* A node has at most one task of a type for a block or level.
LEMMA TaskOnly ==
  ASSUME NEW col, Placed(col), NEW t \in GenRepairTasks(col), NEW u \in GenRepairTasks(col),
         t.type = u.type, t.node = u.node, t.at = u.at
  PROVE  t = u
<1>1. ASSUME NEW w \in GenRepairTasks(col)
      PROVE  /\ w.type = "read" => w \in ReadTasks(col)
             /\ w.type = "persist" => w = PersistTask(col)
             /\ w.type = "zero" => w = ZeroTask(col, w.at, w.node)
             /\ w.type = "send" => w = SendTask(col, w.at, w.node)
             /\ w.type = "recv" => w = RecvTask(col, w.at, w.node)
             /\ w.type = "compute" => w = ComputeTask(col, w.at, w.node)
             /\ w.type \in Types
  <2>1. CASE w \in ReadTasks(col)
    BY <2>1, ReadTaskIs DEF Types
  <2>2. CASE w = PersistTask(col)
    BY <2>2 DEF PersistTask, Task, Types
  <2>3. ASSUME NEW l \in 0 .. LastLevel - 1, NEW n \in Nodes,
               \/ w = ZeroTask(col, l, n) \/ w = SendTask(col, l, n)
               \/ w = RecvTask(col, l, n) \/ (l # 0 /\ w = ComputeTask(col, l, n))
        PROVE  /\ w.at = l /\ w.node = n
               /\ \/ w.type = "zero" /\ w = ZeroTask(col, l, n)
                  \/ w.type = "send" /\ w = SendTask(col, l, n)
                  \/ w.type = "recv" /\ w = RecvTask(col, l, n)
                  \/ w.type = "compute" /\ w = ComputeTask(col, l, n)
    BY <2>3 DEF ZeroTask, SendTask, RecvTask, ComputeTask, Task
  <2> QED BY <2>1, <2>2, <2>3, TaskForms DEF Types
<1>2. CASE t.type = "read"
  <2>1. /\ t = Task("read", t.node, t.at, t.list) /\ u = Task("read", u.node, u.at, u.list)
        /\ t.list = u.list
    <3>1. t \in ReadTasks(col) /\ u \in ReadTasks(col)
      BY <1>1, <1>2
    <3>2. /\ t = Task("read", t.node, t.at, t.list)
          /\ t.list = InOrder({v \in Produced(col, 0) : v \div ecw = t.at}, Ascending)
      BY <3>1, ReadTaskIs
    <3>3. /\ u = Task("read", u.node, u.at, u.list)
          /\ u.list = InOrder({v \in Produced(col, 0) : v \div ecw = u.at}, Ascending)
      BY <3>1, ReadTaskIs
    <3> QED BY <3>2, <3>3
  <2> QED BY <2>1
<1> QED BY <1>1, <1>2 DEF Types

\* A vertex that a type of task should list at a node is in such a task.
LEMMA TaskThere ==
  ASSUME NEW col, Placed(col), NEW type \in Types, NEW n \in Nodes, NEW v \in Listed(col, type, n)
  PROVE  \E t \in GenRepairTasks(col) :
           t.type = type /\ t.node = n /\ v \in ToSet(t.list) /\ t.at = PlaceOf(type, v)
<1>a. v \in Vertices /\ REQUESTOR \in Vertices
  BY TaskGenAssumption DEF Listed
<1>1. ASSUME NEW S \in SUBSET Vertices, v \in S
      PROVE  /\ List(S) # <<>> /\ v \in ToSet(List(S))
             /\ InOrder(S, Ascending) # <<>> /\ v \in ToSet(InOrder(S, Ascending))
  <2>1. Lists(List(S), S) /\ Lists(InOrder(S, Ascending), S)
    BY ListLists, AscendingLists
  <2>2. ASSUME NEW s, Lists(s, S)  PROVE s # <<>> /\ v \in ToSet(s)
    BY <1>1, <2>2 DEF Lists, ToSet
  <2> QED BY <2>1, <2>2
<1>2. CASE type = "read"
  <2> DEFINE b == v \div ecw
             S == {w \in Produced(col, 0) : w \div ecw = b}
             t == Task("read", col[List(S)[1]], b, InOrder(S, Ascending))
  <2>1. v \in Produced(col, 0) /\ col[v] = n
    BY <1>a, <1>2, Levels DEF Listed, Produced, AtLevel
  <2>2. t \in ReadTasks(col)
    BY <2>1 DEF ReadTasks
  <2>3. S \in SUBSET Vertices /\ v \in S
    BY <2>1 DEF Produced, AtLevel
  <2>4. t.list = InOrder(S, Ascending) /\ t.type = "read" /\ t.at = b
    BY DEF Task
  <2>5. t.list # <<>> /\ v \in ToSet(t.list)
    <3> HIDE DEF S
    <3> QED BY <1>1, <2>3, <2>4
  <2>6. t.node = n
    <3> HIDE DEF t
    <3> QED BY <2>1, <2>2, <2>4, ReadTaskIs
  <2>7. t \in GenRepairTasks(col)
    <3> HIDE DEF t
    <3> QED BY <2>2, <2>5, TaskForms
  <2> HIDE DEF t, S
  <2> QED BY <1>2, <2>4, <2>5, <2>6, <2>7 DEF PlaceOf
<1>3. CASE type = "persist"
  <2> DEFINE t == PersistTask(col)
  <2>1. t.type = "persist" /\ t.node = n /\ t.list = Src[REQUESTOR] /\ v \in ToSet(t.list) /\ t.at = LastLevel
    BY <1>3 DEF PersistTask, Task, Listed
  <2>2. t.list # <<>>
    BY <2>1 DEF ToSet
  <2>3. t \in GenRepairTasks(col)
    <3> HIDE DEF t
    <3> QED BY <2>2, TaskForms DEF t
  <2> QED BY <1>3, <2>1, <2>3 DEF PlaceOf
<1>4. ASSUME type \notin {"read", "persist"}
      PROVE  /\ Level[v] \in 0 .. LastLevel - 1 /\ v # REQUESTOR
             /\ PlaceOf(type, v) = Level[v]
  <2>1. v # REQUESTOR
    BY <1>4, <1>a DEF Listed, Types, Made
  <2> QED BY <2>1, <1>4, <1>a, Levels DEF PlaceOf
<1> DEFINE l == Level[v]
<1>5. CASE type = "zero"
  <2> DEFINE S == {w \in ZeroAt(col, l) : n \in ParentColors(col, w)}
             t == ZeroTask(col, l, n)
  <2>1. l \in 0 .. LastLevel - 1
    BY <1>4, <1>5
  <2>2. S \in SUBSET Vertices /\ v \in S
    BY <1>a, <1>5, <2>1, ProducedIs DEF Listed
  <2>3. t.type = "zero" /\ t.node = n /\ t.list = List(S) /\ t.at = l
    BY DEF ZeroTask, Task
  <2>4. t.list # <<>> /\ v \in ToSet(t.list)
    <3> HIDE DEF S
    <3> QED BY <1>1, <2>2, <2>3
  <2>5. t \in GenRepairTasks(col)
    <3> HIDE DEF t
    <3> QED BY <2>1, <2>4, TaskForms DEF t
  <2> HIDE DEF t, S
  <2> QED BY <1>4, <1>5, <2>3, <2>4, <2>5
<1>6. CASE type = "send"
  <2> DEFINE S == {w \in Produced(col, l) : col[w] = n /\ SendTo(col, w) # {}}
             t == SendTask(col, l, n)
  <2>1. l \in 0 .. LastLevel - 1
    BY <1>4, <1>6
  <2>2. S \in SUBSET Vertices /\ v \in S
    BY <1>a, <1>6, <2>1, ProducedIs DEF Listed
  <2>3. t.type = "send" /\ t.node = n /\ t.list = List(S) /\ t.at = l
    BY DEF SendTask, Task
  <2>4. t.list # <<>> /\ v \in ToSet(t.list)
    <3> HIDE DEF S
    <3> QED BY <1>1, <2>2, <2>3
  <2>5. t \in GenRepairTasks(col)
    <3> HIDE DEF t
    <3> QED BY <2>1, <2>4, TaskForms DEF t
  <2> HIDE DEF t, S
  <2> QED BY <1>4, <1>6, <2>3, <2>4, <2>5
<1>7. CASE type = "recv"
  <2> DEFINE S == {w \in Produced(col, l) : n \in SendTo(col, w)}
             t == RecvTask(col, l, n)
  <2>1. l \in 0 .. LastLevel - 1
    BY <1>4, <1>7
  <2>2. S \in SUBSET Vertices /\ v \in S
    BY <1>a, <1>7, <2>1, ProducedIs DEF Listed
  <2>3. t.type = "recv" /\ t.node = n /\ t.list = List(S) /\ t.at = l
    BY DEF RecvTask, Task
  <2>4. t.list # <<>> /\ v \in ToSet(t.list)
    <3> HIDE DEF S
    <3> QED BY <1>1, <2>2, <2>3
  <2>5. t \in GenRepairTasks(col)
    <3> HIDE DEF t
    <3> QED BY <2>1, <2>4, TaskForms DEF t
  <2> HIDE DEF t, S
  <2> QED BY <1>4, <1>7, <2>3, <2>4, <2>5
<1>8. CASE type = "compute"
  <2> DEFINE S == {w \in Produced(col, l) : col[w] = n}
             t == ComputeTask(col, l, n)
  <2>1. l \in 0 .. LastLevel - 1 /\ l # 0
    BY <1>a, <1>4, <1>8, Levels DEF Listed
  <2>2. S \in SUBSET Vertices /\ v \in S
    BY <1>a, <1>8, <2>1, ProducedIs DEF Listed
  <2>3. t.type = "compute" /\ t.node = n /\ t.list = List(S) /\ t.at = l
    BY DEF ComputeTask, Task
  <2>4. t.list # <<>> /\ v \in ToSet(t.list)
    <3> HIDE DEF S
    <3> QED BY <1>1, <2>2, <2>3
  <2>5. t \in GenRepairTasks(col)
    <3> HIDE DEF t
    <3> QED BY <2>1, <2>4, TaskForms DEF t
  <2> HIDE DEF t, S
  <2> QED BY <1>4, <1>8, <2>3, <2>4, <2>5
<1> QED BY <1>2, <1>3, <1>5, <1>6, <1>7, <1>8 DEF Types
-----------------------------------------------------------------------------
(***************************************************************************)
(* Counting turns.                                                         *)
(***************************************************************************)

\* In n turns of a loop of L steps, how often was the step at p made?
Rounds(n, L, p) == IF n % L > p THEN n \div L + 1 ELSE n \div L

LEMMA DivMod ==
  ASSUME NEW n \in Nat, NEW L \in Nat \ {0}
  PROVE  /\ n \div L \in Nat /\ (n % L) \in 0 .. L - 1
         /\ n = (n \div L) * L + (n % L)
OBVIOUS

LEMMA DivModOf ==
  ASSUME NEW L \in Nat \ {0}, NEW k \in Nat, NEW p \in 0 .. L - 1
  PROVE  (k * L + p) \div L = k /\ (k * L + p) % L = p
OBVIOUS

LEMMA DivModNext ==
  ASSUME NEW n \in Nat, NEW L \in Nat \ {0}
  PROVE  /\ (n % L) < L - 1 => (n + 1) \div L = n \div L /\ (n + 1) % L = (n % L) + 1
         /\ (n % L) = L - 1 => (n + 1) \div L = n \div L + 1 /\ (n + 1) % L = 0
OBVIOUS

\* A turn is one more for the step that is made in it.
LEMMA RoundsNext ==
  ASSUME NEW n \in Nat, NEW L \in Nat \ {0}, NEW p \in 0 .. L - 1
  PROVE  /\ Rounds(n, L, p) \in Nat
         /\ Rounds(0, L, p) = 0
         /\ p = n % L => /\ Rounds(n, L, p) = n \div L
                         /\ Rounds(n + 1, L, p) = Rounds(n, L, p) + 1
         /\ p # n % L => Rounds(n + 1, L, p) = Rounds(n, L, p)
<1>1. n \div L \in Nat /\ (n % L) \in 0 .. L - 1
  BY DivMod
<1>2. 0 \div L = 0 /\ 0 % L = 0
  <2>1. (0 * L + 0) \div L = 0 /\ (0 * L + 0) % L = 0
    BY DivModOf
  <2>2. 0 * L + 0 = 0
    OBVIOUS
  <2> QED BY <2>1, <2>2
<1>3. Rounds(n, L, p) \in Nat /\ Rounds(0, L, p) = 0
  BY <1>1, <1>2 DEF Rounds
<1>4. CASE (n % L) < L - 1
  <2>1. (n + 1) \div L = n \div L /\ (n + 1) % L = (n % L) + 1
    BY <1>4, DivModNext
  <2> QED BY <1>1, <1>3, <2>1 DEF Rounds
<1>5. CASE (n % L) = L - 1
  <2>1. (n + 1) \div L = n \div L + 1 /\ (n + 1) % L = 0
    BY <1>5, DivModNext
  <2> QED BY <1>1, <1>3, <1>5, <2>1 DEF Rounds
<1> QED BY <1>1, <1>4, <1>5

LEMMA RoundsEnd ==
  ASSUME NEW m \in Nat, NEW n \in Nat, NEW L \in Nat \ {0}, NEW p \in 0 .. L - 1
  PROVE  /\ n <= m * L => Rounds(n, L, p) <= m
         /\ n = m * L => Rounds(n, L, p) = m
         /\ n < m * L => n \div L < m /\ (p = n % L => Rounds(n, L, p) < m)
<1>1. n \div L \in Nat /\ (n % L) \in 0 .. L - 1 /\ n = (n \div L) * L + (n % L)
  BY DivMod
<1>2. (m * L) \div L = m /\ (m * L) % L = 0
  BY DivModOf
<1>3. ASSUME n < m * L  PROVE n \div L < m
  <2>1. ASSUME n \div L >= m  PROVE FALSE
    <3>1. (n \div L) * L >= m * L
      BY <1>1, <2>1
    <3> QED BY <1>1, <1>3, <3>1
  <2> QED BY <1>1, <2>1
<1>4. n < m * L => Rounds(n, L, p) <= m
  BY <1>1, <1>3 DEF Rounds
<1>5. n = m * L => Rounds(n, L, p) = m
  BY <1>1, <1>2 DEF Rounds
<1>6. m * L \in Nat
  OBVIOUS
<1> QED BY <1>1, <1>3, <1>4, <1>5, <1>6 DEF Rounds
-----------------------------------------------------------------------------
(***************************************************************************)
(* The inputs of a compute task.                                           *)
(***************************************************************************)
Used(list) == UNION {ToSet(Src[v]) : v \in ToSet(list)}

FirstUse(list) == {p \in Used(list) \X Used(list) : UsedBefore(list, p[1], p[2])}

LEMMA UsedIs ==
  ASSUME NEW list \in Seq(Vertices)
  PROVE  /\ Used(list) \subseteq Vertices
         /\ \A v : v \in Used(list) <=>
                     \E i \in DOMAIN list : \E j \in DOMAIN Src[list[i]] : Src[list[i]][j] = v
<1>1. \A i \in DOMAIN list : list[i] \in Vertices /\ Src[list[i]] \in Seq(Vertices)
  <2>1. \A i \in DOMAIN list : list[i] \in Vertices
    OBVIOUS
  <2>2. \A v \in Vertices : Src[v] \in Seq(Vertices)
    BY TaskGenAssumption
  <2> QED BY <2>1, <2>2
<1>2. \A v : v \in Used(list) <=> \E i \in DOMAIN list : v \in ToSet(Src[list[i]])
  BY DEF Used, ToSet
<1>3. \A i \in DOMAIN list : \A v :
        v \in ToSet(Src[list[i]]) <=> \E j \in DOMAIN Src[list[i]] : Src[list[i]][j] = v
  BY DEF ToSet
<1>4. \A v : v \in Used(list) =>
               \E i \in DOMAIN list : \E j \in DOMAIN Src[list[i]] : Src[list[i]][j] = v
  BY <1>2, <1>3
<1>5. \A v : (\E i \in DOMAIN list : \E j \in DOMAIN Src[list[i]] : Src[list[i]][j] = v)
               => v \in Used(list)
  BY <1>2, <1>3
<1>6. Used(list) \subseteq Vertices
  BY <1>1, <1>4
<1> QED BY <1>4, <1>5, <1>6

\* Of two inputs, one is used before the other, but not both.
LEMMA FirstUseIsStrict ==
  ASSUME NEW list \in Seq(Vertices)
  PROVE  StrictOrder(FirstUse(list), Used(list))
<1> DEFINE S == Used(list)
           At(i, j, v) == i \in DOMAIN list /\ j \in DOMAIN Src[list[i]] /\ Src[list[i]][j] = v
           Prior(k, l, i, j) == k < i \/ (k = i /\ l <= j)
           Before(v, w) == \E i, j : At(i, j, v) /\ \A k, l : At(k, l, w) => ~Prior(k, l, i, j)
<1>1. /\ DOMAIN list \subseteq Nat /\ DOMAIN list = 1 .. Len(list)
      /\ \A i \in DOMAIN list : DOMAIN Src[list[i]] \subseteq Nat
  <2>1. \A i \in DOMAIN list : list[i] \in Vertices
    OBVIOUS
  <2>2. \A v \in Vertices : Src[v] \in Seq(Vertices)
    BY TaskGenAssumption
  <2> QED BY <2>1, <2>2
<1>2. \A v, w \in S : <<v, w>> \in FirstUse(list) <=> Before(v, w)
  <2> TAKE v, w \in S
  <2>1. <<v, w>> \in FirstUse(list) <=> UsedBefore(list, v, w)
    BY DEF FirstUse
  <2>2. ASSUME NEW i \in DOMAIN list, NEW j \in DOMAIN Src[list[i]]
        PROVE  (\A k \in 1 .. i : \A l \in DOMAIN Src[list[k]] :
                  Src[list[k]][l] = w => k = i /\ j < l)
                 <=> \A k, l : At(k, l, w) => ~Prior(k, l, i, j)
    <3>1. i \in Nat /\ j \in Nat /\ 1 .. i \subseteq DOMAIN list
      BY <1>1
    <3>2. \A k, l : At(k, l, w) => k \in Nat /\ l \in Nat /\ k >= 1
      BY <1>1
    <3>3. ASSUME \A k \in 1 .. i : \A l \in DOMAIN Src[list[k]] :
                   Src[list[k]][l] = w => k = i /\ j < l,
                 NEW k, NEW l, At(k, l, w), Prior(k, l, i, j)
          PROVE  FALSE
      <4>1. k \in 1 .. i
        BY <3>1, <3>2, <3>3
      <4>2. k = i /\ j < l
        BY <3>3, <4>1
      <4> QED BY <3>1, <3>2, <3>3, <4>2
    <3>4. ASSUME \A k, l : At(k, l, w) => ~Prior(k, l, i, j),
                 NEW k \in 1 .. i, NEW l \in DOMAIN Src[list[k]], Src[list[k]][l] = w
          PROVE  k = i /\ j < l
      <4>1. At(k, l, w)
        BY <3>1, <3>4
      <4>2. ~Prior(k, l, i, j) /\ k \in Nat /\ l \in Nat
        BY <3>2, <3>4, <4>1
      <4> QED BY <3>1, <4>2
    <3> QED BY <3>3, <3>4
  <2>3. UsedBefore(list, v, w) <=>
          \E i \in DOMAIN list : \E j \in DOMAIN Src[list[i]] :
            At(i, j, v) /\ \A k, l : At(k, l, w) => ~Prior(k, l, i, j)
    <3>1. UsedBefore(list, v, w) <=>
            \E i \in DOMAIN list : \E j \in DOMAIN Src[list[i]] :
              /\ At(i, j, v)
              /\ \A k \in 1 .. i : \A l \in DOMAIN Src[list[k]] :
                   Src[list[k]][l] = w => k = i /\ j < l
      BY DEF UsedBefore
    <3> HIDE DEF At, Prior
    <3> QED BY <2>2, <3>1
  <2>4. UsedBefore(list, v, w) <=> Before(v, w)
    BY <2>3
  <2> QED BY <2>1, <2>4
<1>3. \A v \in S : ~Before(v, v)
  BY <1>1
<1>4. ASSUME NEW u \in S, NEW v \in S, NEW w \in S, Before(u, v), Before(v, w)
      PROVE  Before(u, w)
  <2>1. PICK i, j : At(i, j, u) /\ \A k, l : At(k, l, v) => ~Prior(k, l, i, j)
    BY <1>4
  <2>2. PICK a, b : At(a, b, v) /\ \A k, l : At(k, l, w) => ~Prior(k, l, a, b)
    BY <1>4
  <2>3. ~Prior(a, b, i, j)
    BY <2>1, <2>2
  <2>4. \A k, l : At(k, l, w) => ~Prior(k, l, i, j)
    BY <1>1, <2>1, <2>2, <2>3
  <2> QED BY <2>1, <2>4
<1>5. ASSUME NEW v \in S, NEW w \in S, v # w
      PROVE  Before(v, w) \/ Before(w, v)
  <2> DEFINE I == {i \in DOMAIN list : \E j : At(i, j, v) \/ At(i, j, w)}
  <2>1. I \in SUBSET Nat /\ I # {}
    <3>1. \E i, j : At(i, j, v)
      BY UsedIs
    <3> QED BY <1>1, <3>1
  <2>2. PICK i \in I : \A k \in I : i <= k
    <3> HIDE DEF I
    <3> QED BY <2>1, LeastElement
  <2> DEFINE J == {j \in DOMAIN Src[list[i]] : At(i, j, v) \/ At(i, j, w)}
  <2>3. J \in SUBSET Nat /\ J # {}
    BY <1>1, <2>2
  <2>4. PICK j \in J : \A l \in J : j <= l
    <3> HIDE DEF J
    <3> QED BY <2>3, LeastElement
  <2>5. i \in Nat /\ j \in Nat
    BY <1>1, <2>2, <2>4
  <2>8. \A k, l : At(k, l, v) \/ At(k, l, w) =>
                    k \in Nat /\ l \in Nat /\ i <= k /\ (k = i => j <= l)
    BY <1>1, <2>2, <2>4
  <2>6. CASE At(i, j, v)
    <3>1. ~At(i, j, w)
      BY <1>5, <2>6
    <3>2. ASSUME NEW k, NEW l, At(k, l, w), Prior(k, l, i, j)  PROVE FALSE
      <4>1. k = i /\ l = j
        <5>1. k \in Nat /\ l \in Nat /\ i <= k /\ (k = i => j <= l)
          BY <2>8, <3>2
        <5> HIDE DEF At, I, J
        <5> QED BY <2>5, <3>2, <5>1
      <4> QED BY <3>1, <3>2, <4>1
    <3> QED BY <2>6, <3>2
  <2>7. CASE At(i, j, w)
    <3>1. ~At(i, j, v)
      BY <1>5, <2>7
    <3>2. ASSUME NEW k, NEW l, At(k, l, v), Prior(k, l, i, j)  PROVE FALSE
      <4>1. k = i /\ l = j
        <5>1. k \in Nat /\ l \in Nat /\ i <= k /\ (k = i => j <= l)
          BY <2>8, <3>2
        <5> HIDE DEF At, I, J
        <5> QED BY <2>5, <3>2, <5>1
      <4> QED BY <3>1, <3>2, <4>1
    <3> QED BY <2>7, <3>2
  <2> QED BY <2>4, <2>6, <2>7
<1> HIDE DEF S, Before
<1>6. StrictOrder(FirstUse(list), S)
  BY <1>2, <1>3, <1>4, <1>5 DEF StrictOrder
<1> QED BY <1>6 DEF S

LEMMA InputsAre ==
  ASSUME NEW t, t.list \in Seq(Vertices)
  PROVE  Lists(InputList(t), Used(t.list))
<1>1. IsFiniteSet(Used(t.list))
  BY UsedIs, VerticesFinite
<1>2. InputList(t) = InOrder(Used(t.list), FirstUse(t.list))
  BY DEF InputList, Used, FirstUse
<1> QED BY <1>1, <1>2, FirstUseIsStrict, InOrderLists
-----------------------------------------------------------------------------
(***************************************************************************)
(* Who puts what where, in the turns of a thread's loop for one packet.    *)
(***************************************************************************)
Puts == {"read", "zero", "recv", "compute"}
Takes == {"send", "compute", "persist"}

Positions(t) == 0 .. PerPacket(t) - 1

\* The turns in which a thread pops inputs before it comes to its items.
Skip(t) == IF t.type = "compute" THEN Len(inputs[t]) ELSE 0

ItemAt(t, p) == t.list[p - Skip(t) + 1]

ItemKeys(t, v) ==
  IF t.type \in {"read", "compute"} THEN KeysOf(v, Same(color, v), Diff(color, v)) ELSE {v}

PutsAt(t, p, key) ==
  /\ t.type \in Puts
  /\ p \in Positions(t) /\ p >= Skip(t)
  /\ key \in ItemKeys(t, ItemAt(t, p))

TakesAt(t, p, key) ==
  /\ t.type \in Takes
  /\ p \in Positions(t)
  /\ CASE t.type = "send" -> key = CacheKey(t.list[p + 1])
       [] t.type = "compute" -> p < Len(inputs[t]) /\ key = inputs[t][p + 1]
       [] t.type = "persist" -> key = t.list[p + 1]

\* The vertex whose packets a queue holds.
VertexOf(key) == IF key >= 0 THEN key ELSE IF key = KEY0 THEN 0 ELSE -key

\* How many packets a thread has dealt with at a position of its loop.
Dealt(tn, t, p) == Rounds(tn[t], PerPacket(t), p)

\* The packets a .. b - 1 of a vertex, in order.
Holds(s, v, a, b) ==
  /\ s \in Seq(Packet)
  /\ Len(s) = b - a
  /\ \A i \in 1 .. Len(s) : s[i] = Value(v, a + i - 1)
-----------------------------------------------------------------------------
(***************************************************************************)
(* The inductive invariant.  The queues and lists are parameters of its    *)
(* parts, because some steps change them twice.                            *)
(***************************************************************************)
GivenInv ==
  /\ Usable(color)
  /\ threads = GenRepairTasks(color)
  /\ inputs = [t \in OfType("compute", threads) |-> InputList(t)]

TurnInv ==
  /\ running \subseteq Nodes
  /\ turn \in [threads -> Nat]
  /\ \A t \in threads : turn[t] <= PktNum * PerPacket(t)
  /\ \A t \in threads : t.node \notin running => turn[t] = 0
  /\ failed \subseteq OfType("read", threads)
  /\ \A t \in failed : turn[t] < PktNum * PerPacket(t)

\* A queue holds what one thread has put into it and another not yet taken.
QueueHolds(run, qu, tn) ==
  \A n \in run : \A t, u \in ThreadsOf(n) :
    \A p \in Positions(t), q \in Positions(u) : \A key \in Keys(n) :
      PutsAt(t, p, key) /\ TakesAt(u, q, key) =>
        Holds(qu[n][key], VertexOf(key), Dealt(tn, u, q), Dealt(tn, t, p))

QueueInv ==
  /\ DOMAIN queue = Nodes
  /\ \A n \in running : DOMAIN queue[n] = Keys(n)
  /\ \A n \in Nodes \ running : queue[n] = <<>>
  /\ QueueHolds(running, queue, turn)

Sends(s, p, v) == s.type = "send" /\ p \in Positions(s) /\ s.list[p + 1] = v
Receives(r, q, v) == r.type = "recv" /\ q \in Positions(r) /\ r.list[q + 1] = v

\* Of the packets got .. put - 1 the first are in the list, the others have
\* yet to be written to it.
Transit(list, unsent, v, got, put) ==
  /\ Holds(list, v, got, put - Len(unsent))
  /\ Holds(unsent, v, put - Len(unsent), put)

\* What is sent and not yet received is on its way, and nothing else is.
OnTheWay(rd, cm, tn) ==
  /\ rd \in [Nodes -> [Vertices -> Seq(Packet)]]
  /\ cm \in [OfType("send", threads) -> [Nodes -> [Vertices -> Seq(Packet)]]]
  /\ \A s \in OfType("send", threads), r \in OfType("recv", threads) :
       \A p \in Positions(s), q \in Positions(r), v \in Vertices :
         Sends(s, p, v) /\ Receives(r, q, v) =>
           Transit(rd[r.node][v], cm[s][r.node][v], v, Dealt(tn, r, q), Dealt(tn, s, p))
  /\ \A s \in OfType("send", threads), n \in Nodes, v \in Vertices :
       ~(v \in ToSet(s.list) /\ n \in SendTo(color, v)) => cm[s][n][v] = <<>>
  /\ \A n \in Nodes, v \in Vertices :
       (\A r \in OfType("recv", threads) : r.node = n => v \notin ToSet(r.list))
         => rd[n][v] = <<>>

RedisInv == OnTheWay(redis, cmds, turn)

\* The replies that are owed.
ReplyInv ==
  /\ replies \in [OfType("send", threads) -> Seq(Nodes)]
  /\ count \in [OfType("send", threads) -> Nat]

\* A compute thread has the inputs of one packet, as far as it has got.
BufInv ==
  /\ buf \in [OfType("compute", threads) -> Seq(Packet)]
  /\ \A t \in OfType("compute", threads) :
       /\ Len(buf[t]) = IF Pos(t) < Len(inputs[t]) THEN Pos(t) ELSE Len(inputs[t])
       /\ \A i \in 1 .. Len(buf[t]) : buf[t][i] = Value(inputs[t][i], Pkt(t))

FileInv ==
  /\ file \in Seq(Packet)
  /\ Len(file) <= PktNum * ecw
  /\ \A t \in OfType("persist", threads) : turn[t] = Len(file)
  /\ \A i \in 1 .. Len(file) : file[i] = LostData(i - 1)

IInv ==
  /\ GivenInv /\ TurnInv /\ QueueInv /\ RedisInv /\ ReplyInv /\ BufInv /\ FileInv
-----------------------------------------------------------------------------
(***************************************************************************)
(* The wiring of the queues.                                               *)
(***************************************************************************)
LEMMA Root ==
  /\ Src[REQUESTOR] # <<>>
  /\ \A i, j \in 1 .. Len(Src[REQUESTOR]) : Src[REQUESTOR][i] = Src[REQUESTOR][j] => i = j
  /\ Len(Src[REQUESTOR]) = ecw
  /\ ~IsLeaf(REQUESTOR) /\ REQUESTOR \in Vertices
  /\ FailBlock * ecw \in Nat
<1>1. ecw \in Nat \ {0} /\ ecn \in Nat /\ FailBlock \in Nat
  BY TaskGenAssumption, StripeRepairAssumption
<1>2. FailBlock * ecw \in Nat
  BY <1>1
<1>3. Src[REQUESTOR] = [i \in 1 .. ecw |-> FailBlock * ecw + i - 1]
  BY StripeRepairAssumption
<1>4. Len(Src[REQUESTOR]) = ecw /\ Src[REQUESTOR] # <<>>
  BY <1>1, <1>3
<1>5. \A i \in 1 .. ecw : Src[REQUESTOR][i] = FailBlock * ecw + i - 1
  BY <1>3
<1>6. \A i, j \in 1 .. ecw : Src[REQUESTOR][i] = Src[REQUESTOR][j] => i = j
  BY <1>1, <1>2, <1>5
<1> QED BY <1>2, <1>4, <1>6, TaskGenAssumption DEF IsLeaf

\* A thread runs a task of its node, and turns through its inputs and items.
LEMMA Threads ==
  ASSUME GivenInv
  PROVE  /\ Placed(color)
         /\ \A t \in threads :
              /\ TaskFacts(color, t)
              /\ \A i, j \in 1 .. Len(t.list) : t.list[i] = t.list[j] => i = j
              /\ Skip(t) \in Nat
              /\ PerPacket(t) \in Nat \ {0} /\ PerPacket(t) = Skip(t) + Len(t.list)
              /\ t.type = "compute" => /\ Lists(inputs[t], Used(t.list))
                                       /\ Skip(t) = Len(inputs[t])
              /\ t.type # "compute" => Skip(t) = 0
              /\ t.type = "persist" => t.list = Src[REQUESTOR] /\ t.at = LastLevel
<1>1. Placed(color)
  BY DEF GivenInv, Usable, Placed
<1>2. ASSUME NEW t \in threads  PROVE TaskFacts(color, t)
  BY <1>1, TaskIs DEF GivenInv
<1>3. ASSUME NEW t \in threads, t.type = "persist"
      PROVE  t.list = Src[REQUESTOR] /\ t.at = LastLevel
  <2>1. t \in GenRepairTasks(color)
    BY DEF GivenInv
  <2>2. t \notin ReadTasks(color)
    BY <1>1, <1>3, ReadTaskIs
  <2>3. \A l, n : t \notin {ZeroTask(color, l, n), SendTask(color, l, n),
                            RecvTask(color, l, n), ComputeTask(color, l, n)}
    BY <1>3 DEF ZeroTask, SendTask, RecvTask, ComputeTask, Task
  <2>4. t = PersistTask(color)
    BY <2>1, <2>2, <2>3, TaskForms
  <2> QED BY <2>4 DEF PersistTask, Task
<1>4. ASSUME NEW t \in threads
      PROVE  \A i, j \in 1 .. Len(t.list) : t.list[i] = t.list[j] => i = j
  BY <1>2, <1>3, Root DEF TaskFacts
<1>5. ASSUME NEW t \in threads, t.type = "compute"
      PROVE  Lists(inputs[t], Used(t.list)) /\ Skip(t) = Len(inputs[t])
  <2>1. inputs[t] = InputList(t)
    BY <1>5 DEF GivenInv, OfType
  <2> QED BY <1>2, <1>5, <2>1, InputsAre DEF TaskFacts, Skip
<1>6. ASSUME NEW t \in threads
      PROVE  /\ Skip(t) \in Nat
             /\ PerPacket(t) \in Nat \ {0} /\ PerPacket(t) = Skip(t) + Len(t.list)
  <2>1. Len(t.list) \in Nat \ {0}
    BY <1>2 DEF TaskFacts
  <2>2. Skip(t) \in Nat
    BY <1>5 DEF Skip, Lists
  <2>3. PerPacket(t) = Len(t.list) + Skip(t)
    BY DEF PerPacket, Skip
  <2> QED BY <2>1, <2>2, <2>3
<1>7. \A t \in threads : t.type # "compute" => Skip(t) = 0
  BY DEF Skip
<1> QED BY <1>1, <1>2, <1>3, <1>4, <1>5, <1>6, <1>7

LEMMA Keyed ==
  ASSUME NEW v \in Vertices
  PROVE  /\ v \in Nat /\ VertexOf(v) = v /\ CacheKey(v) \in Int
         /\ v # REQUESTOR => CacheKey(v) < 0 /\ VertexOf(CacheKey(v)) = v
<1>1. v \in 0 .. REQUESTOR
  BY TaskGenAssumption
<1>2. v \in Nat /\ v <= 32767
  BY <1>1 DEF REQUESTOR
<1> QED BY <1>2 DEF VertexOf, CacheKey, KEY0, REQUESTOR

\* The item at a position of the loop.
LEMMA ItemIs ==
  ASSUME GivenInv, NEW t \in threads, NEW p \in Positions(t), p >= Skip(t)
  PROVE  /\ p - Skip(t) + 1 \in 1 .. Len(t.list)
         /\ ItemAt(t, p) \in Vertices /\ ItemAt(t, p) \in ToSet(t.list)
         /\ ItemAt(t, p) \in Listed(color, t.type, t.node)
         /\ PlaceOf(t.type, ItemAt(t, p)) = t.at
<1>1. p - Skip(t) + 1 \in 1 .. Len(t.list)
  <2>1. Skip(t) \in Nat /\ PerPacket(t) = Skip(t) + Len(t.list) /\ Len(t.list) \in Nat
    BY Threads DEF TaskFacts
  <2> QED BY <2>1 DEF Positions
<1>2. t.list \in Seq(Vertices)
  BY Threads DEF TaskFacts
<1>3. ItemAt(t, p) \in Vertices /\ ItemAt(t, p) \in ToSet(t.list)
  BY <1>1, <1>2 DEF ItemAt, ToSet
<1> QED BY <1>1, <1>3, Threads DEF TaskFacts

\* The vertex v is produced for use at n by the thread t.
LocalPut(t, v) ==
  \/ t.type \in {"read", "compute"} /\ color[v] = t.node /\ Same(color, v)
  \/ t.type = "zero" /\ ~Made(color, v)
  \/ t.type = "recv" /\ color[v] # t.node

\* What a thread puts: a vertex for its own node, or for others.
LEMMA PutsWhat ==
  ASSUME GivenInv, NEW t \in threads, NEW p, NEW key, PutsAt(t, p, key)
  PROVE  LET v == ItemAt(t, p) IN
         /\ p \in Positions(t) /\ p >= Skip(t) /\ key \in Int
         /\ v \in Vertices /\ v # REQUESTOR /\ VertexOf(key) = v
         /\ v \in ToSet(t.list) /\ PlaceOf(t.type, v) = t.at
         /\ v \in Listed(color, t.type, t.node)
         /\ t.type # "zero" => Made(color, v)
         /\ t.type \in {"read", "compute"} => color[v] = t.node
         /\ t.type = "read" <=> IsLeaf(v) /\ t.type \in {"read", "compute"}
         /\ \/ key = v /\ key >= 0 /\ LocalPut(t, v) /\ t.node \in ParentColors(color, v)
            \/ /\ key = CacheKey(v) /\ key < 0
               /\ t.type \in {"read", "compute"} /\ Diff(color, v)
<1> DEFINE v == ItemAt(t, p)
<1>1. /\ t.type \in Puts /\ p \in Positions(t) /\ p >= Skip(t)
      /\ key \in ItemKeys(t, v)
  BY DEF PutsAt
<1>2. /\ v \in Vertices /\ v \in ToSet(t.list) /\ PlaceOf(t.type, v) = t.at
      /\ v \in Listed(color, t.type, t.node)
  BY <1>1, ItemIs
<1>3. v # REQUESTOR
  BY <1>1, <1>2, Root DEF Listed, Made, Puts
<1>4. /\ v \in Nat /\ VertexOf(v) = v
      /\ CacheKey(v) < 0 /\ VertexOf(CacheKey(v)) = v /\ CacheKey(v) \in Int
  BY <1>2, <1>3, Keyed
<1>5. Placed(color)
  BY Threads
<1> HIDE DEF v
<1>6. /\ t.type # "zero" => Made(color, v)
      /\ t.type \in {"read", "compute"} => color[v] = t.node
      /\ t.type = "read" <=> IsLeaf(v) /\ t.type \in {"read", "compute"}
      /\ t.type = "recv" => t.node \in SendTo(color, v)
      /\ t.type = "zero" => ~Made(color, v) /\ t.node \in ParentColors(color, v)
  BY <1>1, <1>2, <1>3, <1>5, MadeAt DEF Listed, Puts
<1>7. CASE t.type \in {"read", "compute"}
  <2>1. \/ key = v /\ Same(color, v)
        \/ key = CacheKey(v) /\ Diff(color, v)
    BY <1>1, <1>7 DEF ItemKeys, KeysOf
  <2> QED BY <1>1, <1>2, <1>3, <1>4, <1>6, <1>7, <2>1 DEF v, LocalPut, Same
<1>8. CASE t.type \in {"zero", "recv"}
  <2>1. key = v
    BY <1>1, <1>8 DEF ItemKeys
  <2>2. t.type = "recv" => color[v] # t.node /\ t.node \in ParentColors(color, v)
    BY <1>6 DEF SendTo
  <2> QED BY <1>1, <1>2, <1>3, <1>4, <1>6, <1>8, <2>1, <2>2 DEF v, LocalPut
<1> QED BY <1>1, <1>7, <1>8 DEF Puts

\* What a thread takes.
LEMMA TakesWhat ==
  ASSUME GivenInv, NEW t \in threads, NEW p, NEW key, TakesAt(t, p, key)
  PROVE  LET v == VertexOf(key) IN
         /\ p \in Positions(t) /\ v \in Vertices /\ v # REQUESTOR /\ key \in Int
         /\ \/ /\ t.type = "send" /\ key < 0 /\ key = CacheKey(v)
               /\ t.list[p + 1] = v /\ v \in ToSet(t.list)
               /\ v \in Listed(color, "send", t.node) /\ t.at = Level[v]
            \/ /\ t.type = "compute" /\ key >= 0 /\ key = v
               /\ p + 1 \in 1 .. Len(inputs[t]) /\ inputs[t][p + 1] = v
               /\ \E u \in Parents(v) : /\ u \in ToSet(t.list) /\ Level[u] = t.at
                                        /\ Made(color, u) /\ color[u] = t.node
            \/ /\ t.type = "persist" /\ key >= 0 /\ key = v
               /\ t.list[p + 1] = v /\ v \in ToSet(t.list)
               /\ REQUESTOR \in Parents(v) /\ t.node = color[REQUESTOR]
<1>1. t.type \in Takes /\ p \in Positions(t)
  BY DEF TakesAt
<1>2. /\ PerPacket(t) = Skip(t) + Len(t.list) /\ t.list \in Seq(Vertices)
      /\ Skip(t) \in Nat /\ Len(t.list) \in Nat
      /\ TaskFacts(color, t)
      /\ t.type # "compute" => Skip(t) = 0
  BY Threads DEF TaskFacts
<1>3. ASSUME t.type # "compute"
      PROVE  /\ p + 1 \in 1 .. Len(t.list) /\ t.list[p + 1] \in Vertices
             /\ t.list[p + 1] \in ToSet(t.list)
             /\ t.list[p + 1] \in Listed(color, t.type, t.node)
             /\ PlaceOf(t.type, t.list[p + 1]) = t.at
  <2>1. p + 1 \in 1 .. Len(t.list)
    BY <1>1, <1>2, <1>3 DEF Positions
  <2>2. t.list[p + 1] \in Vertices /\ t.list[p + 1] \in ToSet(t.list)
    BY <1>2, <2>1 DEF ToSet
  <2> QED BY <1>2, <2>1, <2>2 DEF TaskFacts
<1>4. CASE t.type = "send"
  <2> DEFINE v == t.list[p + 1]
  <2>1. key = CacheKey(v)
    BY <1>4 DEF TakesAt
  <2>2. v \in Vertices /\ v \in ToSet(t.list) /\ v \in Listed(color, "send", t.node) /\ t.at = Level[v]
    BY <1>3, <1>4 DEF PlaceOf
  <2>3. v # REQUESTOR
    BY <2>2 DEF Listed, Made
  <2>4. key < 0 /\ VertexOf(key) = v /\ key \in Int
    BY <2>1, <2>2, <2>3, Keyed
  <2> HIDE DEF v
  <2> QED BY <1>1, <1>4, <2>1, <2>2, <2>3, <2>4 DEF v
<1>5. CASE t.type = "compute"
  <2>1. p < Len(inputs[t]) /\ key = inputs[t][p + 1]
    BY <1>5 DEF TakesAt
  <2>2. Lists(inputs[t], Used(t.list))
    BY <1>5, Threads
  <2>3. p + 1 \in 1 .. Len(inputs[t]) /\ key \in Used(t.list)
    BY <1>1, <2>1, <2>2 DEF Positions, Lists
  <2>4. PICK i \in DOMAIN t.list : \E j \in DOMAIN Src[t.list[i]] : Src[t.list[i]][j] = key
    BY <1>2, <2>3, UsedIs
  <2> DEFINE u == t.list[i]
  <2>5. u \in Vertices /\ u \in ToSet(t.list)
    BY <1>2, <2>4 DEF ToSet
  <2>6. u \in Listed(color, "compute", t.node) /\ Level[u] = t.at
    BY <1>2, <1>5, <2>5 DEF TaskFacts, PlaceOf
  <2>7. key \in Vertices
    BY <1>2, <2>3, UsedIs
  <2>8. u \in Parents(key)
    BY <2>4, <2>5 DEF Parents, ToSet
  <2>9. key # REQUESTOR
    BY <2>8, Levels
  <2>10. key \in Nat /\ VertexOf(key) = key
    BY <2>7, Keyed
  <2> HIDE DEF u
  <2> QED BY <1>1, <1>5, <2>1, <2>3, <2>5, <2>6, <2>7, <2>8, <2>9, <2>10 DEF Listed
<1>6. CASE t.type = "persist"
  <2>1. key = t.list[p + 1]
    BY <1>6 DEF TakesAt
  <2>2. key \in Vertices /\ key \in ToSet(t.list) /\ key \in Listed(color, "persist", t.node)
    BY <1>3, <1>6, <2>1
  <2>3. key \in ToSet(Src[REQUESTOR]) /\ t.node = color[REQUESTOR]
    BY <2>2 DEF Listed
  <2>4. REQUESTOR \in Parents(key)
    BY <2>3, Root DEF Parents
  <2>5. key # REQUESTOR
    BY <2>4, Levels
  <2>6. key \in Nat /\ VertexOf(key) = key
    BY <2>2, Keyed
  <2> QED BY <1>1, <1>6, <2>1, <2>2, <2>3, <2>4, <2>5, <2>6
<1> QED BY <1>1, <1>4, <1>5, <1>6 DEF Takes

LEMMA SameTask ==
  ASSUME GivenInv, NEW t \in threads, NEW u \in threads,
         t.type = u.type, t.node = u.node, t.at = u.at
  PROVE  t = u
BY Threads, TaskOnly DEF GivenInv

\* A queue is put into by one thread, once per packet ...
LEMMA OnePuts ==
  ASSUME GivenInv, NEW t \in threads, NEW u \in threads, t.node = u.node,
         NEW p, NEW q, NEW key, PutsAt(t, p, key), PutsAt(u, q, key)
  PROVE  t = u /\ p = q
<1> DEFINE v == ItemAt(t, p)
<1>1. ItemAt(u, q) = v
  BY PutsWhat
<1>2. t.type \in Puts /\ u.type \in Puts
  BY DEF PutsAt
<1>3. /\ p \in Positions(t) /\ p >= Skip(t) /\ VertexOf(key) = v
      /\ v \in Vertices /\ v \in ToSet(t.list) /\ PlaceOf(t.type, v) = t.at
      /\ t.type # "zero" => Made(color, v)
      /\ t.type \in {"read", "compute"} => color[v] = t.node
      /\ t.type = "read" <=> IsLeaf(v) /\ t.type \in {"read", "compute"}
      /\ \/ key >= 0 /\ LocalPut(t, v)
         \/ key < 0 /\ t.type \in {"read", "compute"}
  BY PutsWhat
<1>4. /\ q \in Positions(u) /\ q >= Skip(u)
      /\ v \in ToSet(u.list) /\ PlaceOf(u.type, v) = u.at
      /\ u.type # "zero" => Made(color, v)
      /\ u.type \in {"read", "compute"} => color[v] = u.node
      /\ u.type = "read" <=> IsLeaf(v) /\ u.type \in {"read", "compute"}
      /\ \/ key >= 0 /\ LocalPut(u, v)
         \/ key < 0 /\ u.type \in {"read", "compute"}
  BY <1>1, PutsWhat
<1> HIDE DEF v
<1>0. key \in Int
  BY PutsWhat
<1>5. t.type = u.type
  BY <1>0, <1>2, <1>3, <1>4 DEF LocalPut, Puts
<1>6. t = u
  BY <1>3, <1>4, <1>5, SameTask
<1>7. /\ p - Skip(t) + 1 \in 1 .. Len(t.list) /\ q - Skip(t) + 1 \in 1 .. Len(t.list)
      /\ t.list[p - Skip(t) + 1] = t.list[q - Skip(t) + 1]
  BY <1>1, <1>3, <1>4, <1>6, ItemIs DEF v, ItemAt
<1>8. p - Skip(t) + 1 = q - Skip(t) + 1
  BY <1>7, Threads
<1>9. p \in Int /\ q \in Int /\ Skip(t) \in Int
  BY <1>3, <1>4, Threads DEF Positions
<1> QED BY <1>6, <1>8, <1>9

\* ... and taken from by one, once per packet.
LEMMA OneTakes ==
  ASSUME GivenInv, NEW t \in threads, NEW u \in threads, t.node = u.node,
         NEW p, NEW q, NEW key, TakesAt(t, p, key), TakesAt(u, q, key)
  PROVE  t = u /\ p = q
<1> DEFINE v == VertexOf(key)
<1>0. key \in Int
  BY TakesWhat
<1>1. t.type \in Takes /\ u.type \in Takes /\ p \in Positions(t) /\ q \in Positions(u)
  BY DEF TakesAt
<1>2. v \in Vertices /\ v # REQUESTOR
  BY TakesWhat
<1>3. CASE t.type = "send" \/ u.type = "send"
  <2>1. t.type = "send" /\ u.type = "send"
    BY <1>0, <1>3, TakesWhat
  <2>2. /\ t.at = Level[v] /\ u.at = Level[v]
        /\ t.list[p + 1] = v /\ u.list[q + 1] = v
    BY <2>1, TakesWhat
  <2>3. t = u
    BY <2>1, <2>2, SameTask
  <2>4. p + 1 \in 1 .. Len(t.list) /\ q + 1 \in 1 .. Len(t.list) /\ p \in Nat /\ q \in Nat
    BY <1>1, <2>1, <2>3, Threads DEF Positions
  <2>5. p + 1 = q + 1
    BY <2>2, <2>3, <2>4, Threads
  <2> QED BY <2>3, <2>4, <2>5
<1>4. CASE t.type = "compute" /\ u.type = "compute"
  <2>1. PICK a \in Parents(v) : Level[a] = t.at
    BY <1>4, TakesWhat
  <2>2. PICK b \in Parents(v) : Level[b] = u.at
    BY <1>4, TakesWhat
  <2>3. t = u
    <3>1. v \in Vertices /\ Level[a] = Level[b]
      BY <1>2, <2>1, <2>2, TheGraph
    <3>2. t.at = u.at /\ t.type = u.type
      BY <1>4, <2>1, <2>2, <3>1
    <3> QED BY <3>2, SameTask
  <2>4. /\ p + 1 \in 1 .. Len(inputs[t]) /\ inputs[t][p + 1] = v
        /\ q + 1 \in 1 .. Len(inputs[t]) /\ inputs[t][q + 1] = v
    BY <1>4, <2>3, TakesWhat
  <2>5. p + 1 = q + 1
    BY <1>4, <2>4, Threads DEF Lists
  <2> QED BY <1>1, <2>3, <2>5 DEF Positions
<1>5. ASSUME NEW a \in {t, u}, NEW b \in {t, u}, a.type = "compute", b.type = "persist"
      PROVE  FALSE
  <2>1. PICK w \in Parents(v) : Level[w] = a.at /\ Made(color, w)
    BY <1>5, TakesWhat
  <2>2. REQUESTOR \in Parents(v)
    BY <1>5, TakesWhat
  <2>3. Level[w] = LastLevel
    BY <1>2, <2>1, <2>2, TaskGenAssumption DEF LastLevel
  <2>4. w \in Vertices /\ w # REQUESTOR
    BY <2>1 DEF Made
  <2> QED BY <2>3, <2>4, Levels
<1>6. CASE t.type = "persist" /\ u.type = "persist"
  <2>1. t.at = LastLevel /\ u.at = LastLevel
    BY <1>6, Threads
  <2>2. t = u
    BY <1>6, <2>1, SameTask
  <2>3. t.list[p + 1] = v /\ t.list[q + 1] = v
    BY <1>6, <2>2, TakesWhat
  <2>4. p + 1 \in 1 .. Len(t.list) /\ q + 1 \in 1 .. Len(t.list) /\ p \in Nat /\ q \in Nat
    BY <1>1, <1>6, <2>2, Threads DEF Positions
  <2>5. p + 1 = q + 1
    BY <2>3, <2>4, Threads
  <2> QED BY <2>2, <2>4, <2>5
<1> QED BY <1>1, <1>3, <1>4, <1>5, <1>6 DEF Takes

LEMMA TaskFound ==
  ASSUME GivenInv, NEW type \in Types, NEW n \in Nodes, NEW v \in Listed(color, type, n)
  PROVE  \E t \in ThreadsOf(n) :
           t.type = type /\ v \in ToSet(t.list) /\ t.at = PlaceOf(type, v)
BY Threads, TaskThere DEF GivenInv, ThreadsOf

\* An item of a thread is at a position of its loop.
LEMMA ItemFound ==
  ASSUME GivenInv, NEW t \in threads, NEW v \in ToSet(t.list)
  PROVE  \E p \in Positions(t) : p >= Skip(t) /\ ItemAt(t, p) = v
<1>1. PICK i \in 1 .. Len(t.list) : t.list[i] = v
  BY Threads DEF ToSet, TaskFacts
<1>2. /\ Skip(t) \in Nat /\ Len(t.list) \in Nat
      /\ PerPacket(t) = Skip(t) + Len(t.list)
  BY Threads DEF TaskFacts
<1>3. Skip(t) + i - 1 \in Positions(t) /\ Skip(t) + i - 1 >= Skip(t)
  BY <1>2 DEF Positions
<1>4. (Skip(t) + i - 1) - Skip(t) + 1 = i
  BY <1>2
<1> QED BY <1>1, <1>3, <1>4 DEF ItemAt

\* What is put is taken, at the same node ...
LEMMA PutIsTaken ==
  ASSUME GivenInv, NEW t \in threads, NEW p, NEW key, PutsAt(t, p, key)
  PROVE  \E u \in ThreadsOf(t.node) : \E q \in Positions(u) : TakesAt(u, q, key)
<1> DEFINE v == ItemAt(t, p)
           n == t.node
<1>1. /\ v \in Vertices /\ v # REQUESTOR
      /\ t.type # "zero" => Made(color, v)
      /\ t.type \in {"read", "compute"} => color[v] = n
      /\ \/ key = v /\ n \in ParentColors(color, v)
         \/ key = CacheKey(v) /\ t.type \in {"read", "compute"} /\ Diff(color, v)
  BY PutsWhat
<1>2. n \in Nodes /\ Placed(color)
  BY Threads DEF TaskFacts
<1> HIDE DEF v, n
<1>3. CASE key = v /\ n \in ParentColors(color, v)
  <2>1. PICK u \in Parents(v) : color[u] = n
    BY <1>3 DEF ParentColors
  <2>2. u \in Vertices /\ v \in ToSet(Src[u]) /\ ~IsLeaf(u)
    BY <1>1, <2>1, Levels DEF Parents
  <2>3. CASE u = REQUESTOR
    <3>1. v \in Listed(color, "persist", n)
      BY <1>1, <2>1, <2>2, <2>3 DEF Listed
    <3>2. PICK w \in ThreadsOf(n) : w.type = "persist" /\ v \in ToSet(w.list)
      BY <1>2, <3>1, TaskFound DEF Types
    <3>3. w \in threads
      BY DEF ThreadsOf
    <3>4. PICK q \in Positions(w) : q >= Skip(w) /\ ItemAt(w, q) = v
      BY <3>2, <3>3, ItemFound
    <3>5. q - 0 + 1 = q + 1
      BY <3>4 DEF Positions
    <3>6. TakesAt(w, q, key)
      BY <1>3, <3>2, <3>4, <3>5 DEF TakesAt, Takes, ItemAt, Skip
    <3> QED BY <3>6 DEF n
  <2>4. CASE u # REQUESTOR
    <3>1. Made(color, u)
      BY <1>2, <2>1, <2>2, <2>4, MadeAt, TaskGenAssumption
    <3>2. u \in Listed(color, "compute", n)
      BY <2>1, <2>2, <3>1 DEF Listed
    <3>3. PICK w \in ThreadsOf(n) : w.type = "compute" /\ u \in ToSet(w.list)
      BY <1>2, <3>2, TaskFound DEF Types
    <3>4. w \in threads
      BY DEF ThreadsOf
    <3>5. Lists(inputs[w], Used(w.list)) /\ Skip(w) = Len(inputs[w])
      BY <3>3, <3>4, Threads
    <3>11. PerPacket(w) = Skip(w) + Len(w.list) /\ Len(w.list) \in Nat /\ Skip(w) \in Nat
      BY <3>4, Threads DEF TaskFacts
    <3>6. v \in Used(w.list)
      BY <2>2, <3>3 DEF Used
    <3>7. PICK i \in 1 .. Len(inputs[w]) : inputs[w][i] = v
      BY <3>5, <3>6 DEF Lists
    <3>8. i \in Nat /\ 1 <= i /\ i <= Skip(w)
      BY <3>5, <3>7, <3>11
    <3>12. i - 1 \in 0 .. PerPacket(w) - 1 /\ i - 1 < Skip(w) /\ (i - 1) + 1 = i
      <4> HIDE DEF Skip, PerPacket
      <4> QED BY <3>8, <3>11
    <3>9. i - 1 \in Positions(w) /\ i - 1 < Len(inputs[w]) /\ (i - 1) + 1 = i
      BY <3>5, <3>12 DEF Positions
    <3>10. TakesAt(w, i - 1, key)
      BY <1>3, <3>3, <3>7, <3>9 DEF TakesAt, Takes
    <3> QED BY <3>9, <3>10 DEF n
  <2> QED BY <2>3, <2>4
<1>4. CASE key = CacheKey(v) /\ t.type \in {"read", "compute"} /\ Diff(color, v)
  <2>1. v \in Listed(color, "send", n)
    BY <1>1, <1>4 DEF Listed, Diff, SendTo
  <2>2. PICK w \in ThreadsOf(n) : w.type = "send" /\ v \in ToSet(w.list)
    BY <1>2, <2>1, TaskFound DEF Types
  <2>3. w \in threads
    BY DEF ThreadsOf
  <2>4. PICK q \in Positions(w) : q >= Skip(w) /\ ItemAt(w, q) = v
    BY <2>2, <2>3, ItemFound
  <2>5. q - 0 + 1 = q + 1
    BY <2>4 DEF Positions
  <2>6. TakesAt(w, q, key)
    BY <1>4, <2>2, <2>4, <2>5 DEF TakesAt, Takes, ItemAt, Skip
  <2> QED BY <2>6 DEF n
<1> QED BY <1>1, <1>3, <1>4

\* ... and what is taken is put there.
LEMMA TakenIsPut ==
  ASSUME GivenInv, NEW t \in threads, NEW p, NEW key, TakesAt(t, p, key)
  PROVE  \E u \in ThreadsOf(t.node) : \E q \in Positions(u) : PutsAt(u, q, key)
<1> DEFINE v == VertexOf(key)
           n == t.node
<1>1. v \in Vertices /\ v # REQUESTOR
  BY TakesWhat
<1>2. n \in Nodes /\ Placed(color)
  BY Threads DEF TaskFacts
<1>3. \/ /\ t.type = "send" /\ key = CacheKey(v) /\ v \in Listed(color, "send", n)
      \/ /\ key = v /\ n \in ParentColors(color, v)
  <2>1. CASE t.type = "send"
    BY <2>1, TakesWhat
  <2>2. CASE t.type = "compute"
    <3>1. key = v /\ \E u \in Parents(v) : color[u] = n
      BY <2>2, TakesWhat
    <3> QED BY <3>1 DEF ParentColors
  <2>3. CASE t.type = "persist"
    <3>1. key = v /\ REQUESTOR \in Parents(v) /\ n = color[REQUESTOR]
      BY <2>3, TakesWhat
    <3> QED BY <3>1 DEF ParentColors
  <2> QED BY <2>1, <2>2, <2>3 DEF TakesAt, Takes
<1> HIDE DEF v, n
\* A thread of the right type that lists v puts the key.
<1>4. ASSUME NEW type \in Puts, v \in Listed(color, type, n),
             type \in {"read", "compute"} =>
               key \in KeysOf(v, Same(color, v), Diff(color, v)),
             type \in {"zero", "recv"} => key = v
      PROVE  \E u \in ThreadsOf(n) : \E q \in Positions(u) : PutsAt(u, q, key)
  <2>1. PICK w \in ThreadsOf(n) : w.type = type /\ v \in ToSet(w.list)
    BY <1>2, <1>4, TaskFound DEF Types, Puts
  <2>2. w \in threads
    BY DEF ThreadsOf
  <2>3. PICK q \in Positions(w) : q >= Skip(w) /\ ItemAt(w, q) = v
    BY <2>1, <2>2, ItemFound
  <2>4. PutsAt(w, q, key)
    BY <1>4, <2>1, <2>3 DEF PutsAt, ItemKeys, Puts
  <2> QED BY <2>4
<1>5. CASE t.type = "send" /\ key = CacheKey(v) /\ v \in Listed(color, "send", n)
  <2>1. Made(color, v) /\ color[v] = n /\ Diff(color, v)
    BY <1>5 DEF Listed, SendTo, Diff
  <2>2. key \in KeysOf(v, Same(color, v), Diff(color, v))
    BY <1>5, <2>1 DEF KeysOf
  <2>3. \/ v \in Listed(color, "read", n)
        \/ v \in Listed(color, "compute", n)
    BY <1>1, <1>2, <2>1, MadeAt DEF Listed
  <2> QED BY <1>4, <2>2, <2>3 DEF n, Puts
<1>6. CASE key = v /\ n \in ParentColors(color, v)
  <2>1. CASE ~Made(color, v)
    <3>1. v \in Listed(color, "zero", n)
      BY <1>1, <1>6, <2>1 DEF Listed
    <3> QED BY <1>4, <1>6, <3>1 DEF n, Puts
  <2>2. CASE Made(color, v) /\ color[v] = n
    <3>1. key \in KeysOf(v, Same(color, v), Diff(color, v))
      BY <1>6, <2>2 DEF KeysOf, Same
    <3>2. \/ v \in Listed(color, "read", n)
          \/ v \in Listed(color, "compute", n)
      BY <1>1, <1>2, <2>2, MadeAt DEF Listed
    <3> QED BY <1>4, <3>1, <3>2 DEF n, Puts
  <2>3. CASE Made(color, v) /\ color[v] # n
    <3>1. v \in Listed(color, "recv", n)
      BY <1>1, <1>6, <2>3 DEF Listed, SendTo
    <3> QED BY <1>4, <1>6, <3>1 DEF n, Puts
  <2> QED BY <2>1, <2>2, <2>3
<1> QED BY <1>3, <1>5, <1>6

\* The queues that prepareDataMap makes for a thread are those it puts into.
LEMMA KeysForPuts ==
  ASSUME GivenInv, NEW t \in threads
  PROVE  \A key : key \in KeysFor(t) <=> \E p \in Positions(t) : PutsAt(t, p, key)
<1>1. \A key : key \in KeysFor(t) <=>
                 t.type \in Puts /\ \E v \in ToSet(t.list) : key \in ItemKeys(t, v)
  <2>1. CASE t.type \in {"read", "compute"}
    BY <2>1 DEF KeysFor, ItemKeys, Puts
  <2>2. CASE t.type \in {"zero", "recv"}
    BY <2>2 DEF KeysFor, ItemKeys, Puts
  <2>3. CASE t.type \notin Puts
    BY <2>3 DEF KeysFor, Puts
  <2> QED BY <2>1, <2>2, <2>3 DEF Puts
<1>2. ASSUME NEW key, key \in KeysFor(t)  PROVE \E p \in Positions(t) : PutsAt(t, p, key)
  <2>1. PICK v \in ToSet(t.list) : key \in ItemKeys(t, v) /\ t.type \in Puts
    BY <1>1, <1>2
  <2>2. PICK p \in Positions(t) : p >= Skip(t) /\ ItemAt(t, p) = v
    BY ItemFound
  <2> QED BY <2>1, <2>2 DEF PutsAt
<1>3. ASSUME NEW key, NEW p \in Positions(t), PutsAt(t, p, key)  PROVE key \in KeysFor(t)
  BY <1>1, <1>3, ItemIs DEF PutsAt
<1> QED BY <1>2, <1>3

LEMMA TakesFromTakes ==
  ASSUME GivenInv, NEW t \in threads
  PROVE  \A key : key \in TakesFrom(t) <=> \E p \in Positions(t) : TakesAt(t, p, key)
<1>1. /\ t.list \in Seq(Vertices) /\ Len(t.list) \in Nat /\ Skip(t) \in Nat
      /\ PerPacket(t) = Skip(t) + Len(t.list)
      /\ t.type # "compute" => Skip(t) = 0
      /\ t.type = "compute" => Lists(inputs[t], Used(t.list)) /\ Skip(t) = Len(inputs[t])
  BY Threads DEF TaskFacts
<1>2. ASSUME NEW s, NEW S, s \in Seq(S), Len(s) <= PerPacket(t), NEW v
      PROVE  v \in ToSet(s) <=> \E p \in Positions(t) : p < Len(s) /\ v = s[p + 1]
  <2>1. Len(s) \in Nat
    BY <1>2
  <2>2. ASSUME NEW i \in 1 .. Len(s)
        PROVE  i - 1 \in Positions(t) /\ i - 1 < Len(s) /\ (i - 1) + 1 = i
    BY <1>1, <1>2, <2>1 DEF Positions
  <2>3. ASSUME NEW p \in Positions(t), p < Len(s)  PROVE p + 1 \in 1 .. Len(s)
    BY <2>1, <2>3 DEF Positions
  <2>4. v \in ToSet(s) <=> \E i \in 1 .. Len(s) : v = s[i]
    <3>1. DOMAIN s = 1 .. Len(s)
      BY <1>2
    <3> QED BY <3>1 DEF ToSet
  <2>5. ASSUME NEW i \in 1 .. Len(s), v = s[i]
        PROVE  \E p \in Positions(t) : p < Len(s) /\ v = s[p + 1]
    BY <2>2, <2>5
  <2> QED BY <2>3, <2>4, <2>5
<1>3. CASE t.type = "send"
  <2>1. \A v : v \in ToSet(t.list) <=> \E p \in Positions(t) : v = t.list[p + 1]
    <3>1. \A v : v \in ToSet(t.list) <=> \E p \in Positions(t) : p < Len(t.list) /\ v = t.list[p + 1]
      BY <1>1, <1>2, <1>3
    <3>2. \A p \in Positions(t) : p < Len(t.list)
      BY <1>1, <1>3 DEF Positions
    <3> QED BY <3>1, <3>2
  <2>2. \A key : key \in TakesFrom(t) <=> \E v \in ToSet(t.list) : key = CacheKey(v)
    BY <1>3 DEF TakesFrom
  <2>3. \A key, p : TakesAt(t, p, key) <=> p \in Positions(t) /\ key = CacheKey(t.list[p + 1])
    BY <1>3 DEF TakesAt, Takes
  <2> QED BY <2>1, <2>2, <2>3
<1>4. CASE t.type = "persist"
  <2>1. \A v : v \in ToSet(t.list) <=> \E p \in Positions(t) : v = t.list[p + 1]
    <3>1. \A v : v \in ToSet(t.list) <=> \E p \in Positions(t) : p < Len(t.list) /\ v = t.list[p + 1]
      BY <1>1, <1>2, <1>4
    <3>2. \A p \in Positions(t) : p < Len(t.list)
      BY <1>1, <1>4 DEF Positions
    <3> QED BY <3>1, <3>2
  <2>2. \A key : key \in TakesFrom(t) <=> key \in ToSet(t.list)
    BY <1>4 DEF TakesFrom
  <2>3. \A key, p : TakesAt(t, p, key) <=> p \in Positions(t) /\ key = t.list[p + 1]
    BY <1>4 DEF TakesAt, Takes
  <2> QED BY <2>1, <2>2, <2>3
<1>5. CASE t.type = "compute"
  <2>1. inputs[t] \in Seq(Used(t.list)) /\ Len(inputs[t]) <= PerPacket(t)
    BY <1>1, <1>5 DEF Lists
  <2>2. \A v : v \in ToSet(inputs[t]) <=>
                 \E p \in Positions(t) : p < Len(inputs[t]) /\ v = inputs[t][p + 1]
    BY <1>2, <2>1
  <2>3. \A key : key \in TakesFrom(t) <=> key \in ToSet(inputs[t])
    BY <1>5 DEF TakesFrom
  <2>4. \A key, p : TakesAt(t, p, key) <=>
                      p \in Positions(t) /\ p < Len(inputs[t]) /\ key = inputs[t][p + 1]
    BY <1>5 DEF TakesAt, Takes
  <2> QED BY <2>2, <2>3, <2>4
<1>6. CASE t.type \notin Takes
  BY <1>6 DEF TakesFrom, TakesAt, Takes
<1> QED BY <1>3, <1>4, <1>5, <1>6 DEF Takes
-----------------------------------------------------------------------------
(***************************************************************************)
(* The wiring of the redis lists.                                          *)
(***************************************************************************)
LEMMA SendIs ==
  ASSUME GivenInv, NEW s \in threads, NEW p, NEW v, Sends(s, p, v)
  PROVE  /\ p \in Positions(s) /\ v \in Vertices /\ v \in ToSet(s.list)
         /\ Made(color, v) /\ color[v] = s.node /\ s.at = Level[v]
         /\ SendTo(color, v) # {} /\ SendTo(color, v) \subseteq Nodes
         /\ v # REQUESTOR
         /\ TakesAt(s, p, CacheKey(v)) /\ VertexOf(CacheKey(v)) = v
         /\ \A key : ~PutsAt(s, p, key)
<1>1. /\ s.type = "send" /\ p \in Positions(s) /\ s.list[p + 1] = v
  BY DEF Sends
<1>2. /\ PerPacket(s) = Skip(s) + Len(s.list) /\ s.list \in Seq(Vertices)
      /\ Skip(s) = 0 /\ Len(s.list) \in Nat /\ TaskFacts(color, s)
  BY <1>1, Threads DEF TaskFacts
<1>3. p + 1 \in 1 .. Len(s.list)
  BY <1>1, <1>2 DEF Positions
<1>4. v \in Vertices /\ v \in ToSet(s.list)
  BY <1>1, <1>2, <1>3 DEF ToSet
<1>5. v \in Listed(color, "send", s.node) /\ s.at = Level[v]
  BY <1>1, <1>2, <1>4 DEF TaskFacts, PlaceOf
<1>6. Made(color, v) /\ color[v] = s.node /\ SendTo(color, v) # {}
  BY <1>5 DEF Listed
<1>7. SendTo(color, v) \subseteq Nodes /\ v # REQUESTOR
  BY <1>4, <1>6, Threads, MadeAt
<1>8. TakesAt(s, p, CacheKey(v))
  BY <1>1 DEF TakesAt, Takes
<1>9. VertexOf(CacheKey(v)) = v
  BY <1>4, <1>7, Keyed
<1>10. \A key : ~PutsAt(s, p, key)
  BY <1>1 DEF PutsAt, Puts
<1> QED BY <1>1, <1>4, <1>5, <1>6, <1>7, <1>8, <1>9, <1>10

LEMMA ReceiveIs ==
  ASSUME GivenInv, NEW r \in threads, NEW q, NEW v, Receives(r, q, v)
  PROVE  /\ q \in Positions(r) /\ v \in Vertices /\ v \in ToSet(r.list)
         /\ Made(color, v) /\ r.node \in SendTo(color, v) /\ r.at = Level[v]
         /\ v # REQUESTOR /\ v = ItemAt(r, q)
         /\ PutsAt(r, q, v) /\ \A key : PutsAt(r, q, key) <=> key = v
         /\ \A key : ~TakesAt(r, q, key)
<1>1. /\ r.type = "recv" /\ q \in Positions(r) /\ r.list[q + 1] = v
  BY DEF Receives
<1>2. /\ PerPacket(r) = Skip(r) + Len(r.list) /\ r.list \in Seq(Vertices)
      /\ Skip(r) = 0 /\ Len(r.list) \in Nat /\ TaskFacts(color, r)
  BY <1>1, Threads DEF TaskFacts
<1>3. q + 1 \in 1 .. Len(r.list) /\ q - 0 + 1 = q + 1 /\ q >= 0
  BY <1>1, <1>2 DEF Positions
<1>4. v \in Vertices /\ v \in ToSet(r.list) /\ v = ItemAt(r, q)
  BY <1>1, <1>2, <1>3 DEF ToSet, ItemAt
<1>5. v \in Listed(color, "recv", r.node) /\ r.at = Level[v]
  BY <1>1, <1>2, <1>4 DEF TaskFacts, PlaceOf
<1>6. Made(color, v) /\ r.node \in SendTo(color, v)
  BY <1>5 DEF Listed
<1>7. v # REQUESTOR
  BY <1>6 DEF Made
<1>8. \A key : PutsAt(r, q, key) <=> key = v
  BY <1>1, <1>2, <1>3, <1>4 DEF PutsAt, Puts, ItemKeys
<1>9. \A key : ~TakesAt(r, q, key)
  BY <1>1 DEF TakesAt, Takes
<1> QED BY <1>1, <1>4, <1>5, <1>6, <1>7, <1>8, <1>9

\* A vertex has one sender, which deals with it once per packet ...
LEMMA OneSends ==
  ASSUME GivenInv, NEW s \in threads, NEW u \in threads,
         NEW p, NEW q, NEW v, Sends(s, p, v), Sends(u, q, v)
  PROVE  s = u /\ p = q
<1>1. s = u
  BY SendIs, SameTask DEF Sends
<1>2. TakesAt(s, p, CacheKey(v)) /\ TakesAt(s, q, CacheKey(v))
  BY <1>1, SendIs
<1> QED BY <1>1, <1>2, OneTakes

\* ... and at every node at most one receiver.
LEMMA OneReceives ==
  ASSUME GivenInv, NEW r \in threads, NEW u \in threads, r.node = u.node,
         NEW p, NEW q, NEW v, Receives(r, p, v), Receives(u, q, v)
  PROVE  r = u /\ p = q
BY ReceiveIs, OnePuts

LEMMA Listing ==
  ASSUME GivenInv, NEW t \in threads, NEW v \in ToSet(t.list)
  PROVE  /\ t.type = "send" => \E p \in Positions(t) : Sends(t, p, v)
         /\ t.type = "recv" => \E p \in Positions(t) : Receives(t, p, v)
<1>1. PICK p \in Positions(t) : p >= Skip(t) /\ ItemAt(t, p) = v
  BY ItemFound
<1>2. t.type # "compute" => p - Skip(t) + 1 = p + 1
  BY <1>1 DEF Skip, Positions
<1> QED BY <1>1, <1>2 DEF Sends, Receives, ItemAt

\* What is sent to a node is received there, and what is received was sent.
LEMMA SentIsReceived ==
  ASSUME GivenInv, NEW s \in threads, NEW p, NEW v, Sends(s, p, v),
         NEW n \in SendTo(color, v)
  PROVE  \E r \in OfType("recv", threads) : \E q \in Positions(r) :
           r.node = n /\ Receives(r, q, v)
<1>1. Made(color, v) /\ n \in Nodes /\ v \in Vertices
  BY SendIs
<1>2. v \in Listed(color, "recv", n)
  BY <1>1 DEF Listed
<1>3. PICK r \in ThreadsOf(n) : r.type = "recv" /\ v \in ToSet(r.list)
  BY <1>1, <1>2, TaskFound DEF Types
<1>4. r \in threads /\ r.node = n
  BY DEF ThreadsOf
<1> QED BY <1>3, <1>4, Listing DEF OfType

LEMMA ReceivedIsSent ==
  ASSUME GivenInv, NEW r \in threads, NEW q, NEW v, Receives(r, q, v)
  PROVE  \E s \in OfType("send", threads) : \E p \in Positions(s) : Sends(s, p, v)
<1>1. Made(color, v) /\ SendTo(color, v) # {} /\ v \in Vertices
  BY ReceiveIs
<1>2. color[v] \in Nodes /\ v \in Listed(color, "send", color[v])
  BY <1>1, Threads, MadeAt DEF Listed
<1>3. PICK s \in ThreadsOf(color[v]) : s.type = "send" /\ v \in ToSet(s.list)
  BY <1>2, TaskFound DEF Types
<1>4. s \in threads
  BY DEF ThreadsOf
<1> QED BY <1>3, <1>4, Listing DEF OfType
-----------------------------------------------------------------------------
(***************************************************************************)
(* Packets.                                                                *)
(***************************************************************************)
LEMMA Values ==
  ASSUME NEW v \in Vertices, NEW k \in 0 .. PktNum - 1
  PROVE  Value(v, k) \in Packet
BY DEF Value, Packet

LEMMA HoldsNone ==
  ASSUME NEW v, NEW a \in Nat
  PROVE  Holds(<<>>, v, a, a)
BY DEF Holds

LEMMA HoldsAppend ==
  ASSUME NEW s, NEW v \in Vertices, NEW a \in Nat, NEW b \in 0 .. PktNum - 1, Holds(s, v, a, b)
  PROVE  Holds(Append(s, Value(v, b)), v, a, b + 1)
<1>1. s \in Seq(Packet) /\ Len(s) = b - a /\ Value(v, b) \in Packet
  BY Values DEF Holds
<1> DEFINE x == Value(v, b)
           z == Append(s, x)
<1>2. /\ z \in Seq(Packet) /\ Len(z) = (b + 1) - a /\ Len(s) \in Nat
      /\ \A i \in 1 .. Len(s) : z[i] = s[i]
      /\ z[Len(s) + 1] = x
  <2> HIDE DEF x
  <2>1. x \in Packet
    BY <1>1 DEF x
  <2> QED BY <1>1, <2>1
<1>3. ASSUME NEW i \in 1 .. Len(z)  PROVE z[i] = Value(v, a + i - 1)
  <2>1. CASE i \in 1 .. Len(s)
    BY <1>2, <2>1 DEF Holds
  <2>2. CASE i = Len(s) + 1
    <3>1. a + i - 1 = b
      BY <1>1, <1>2, <2>2
    <3> QED BY <1>2, <2>2, <3>1
  <2> QED BY <1>1, <1>2, <2>1, <2>2
<1> QED BY <1>2, <1>3 DEF Holds

LEMMA HoldsTail ==
  ASSUME NEW s, NEW v \in Vertices, NEW a \in Nat, NEW b \in Nat, Holds(s, v, a, b), s # <<>>
  PROVE  /\ Head(s) = Value(v, a) /\ Head(s) \in Packet /\ a < b
         /\ Holds(Tail(s), v, a + 1, b)
<1>1. s \in Seq(Packet) /\ Len(s) = b - a /\ \A i \in 1 .. Len(s) : s[i] = Value(v, a + i - 1)
  BY DEF Holds
<1>2. Len(s) > 0
  BY <1>1
<1>3. Head(s) = s[1] /\ a + 1 - 1 = a /\ Head(s) \in Packet
  BY <1>1, <1>2
<1>4. Tail(s) \in Seq(Packet) /\ Len(Tail(s)) = b - (a + 1)
  BY <1>1, <1>2
<1>5. ASSUME NEW i \in 1 .. Len(Tail(s))  PROVE Tail(s)[i] = Value(v, (a + 1) + i - 1)
  <2>1. i + 1 \in 1 .. Len(s) /\ Tail(s)[i] = s[i + 1] /\ a + (i + 1) - 1 = (a + 1) + i - 1
    BY <1>1, <1>2, <1>4
  <2>2. s[i + 1] = Value(v, a + (i + 1) - 1)
    BY <1>1, <2>1
  <2> QED BY <2>1, <2>2
<1>6. Head(s) = Value(v, a)
  <2>1. s[1] = Value(v, a + 1 - 1)
    BY <1>1, <1>2
  <2> QED BY <1>3, <2>1
<1> QED BY <1>1, <1>2, <1>3, <1>4, <1>5, <1>6 DEF Holds

LEMMA HoldsConcat ==
  ASSUME NEW s, NEW z, NEW v, NEW a \in Nat, NEW b \in Nat, NEW c \in Nat,
         Holds(s, v, a, b), Holds(z, v, b, c)
  PROVE  Holds(s \o z, v, a, c)
<1>1. /\ s \in Seq(Packet) /\ Len(s) = b - a /\ Len(s) \in Nat
      /\ z \in Seq(Packet) /\ Len(z) = c - b /\ Len(z) \in Nat
  BY DEF Holds
<1>2. s \o z \in Seq(Packet) /\ Len(s \o z) = c - a /\ Len(s \o z) = Len(s) + Len(z)
  BY <1>1
<1>3. ASSUME NEW i \in 1 .. Len(s \o z)  PROVE (s \o z)[i] = Value(v, a + i - 1)
  <2>1. CASE i <= Len(s)
    <3>1. i \in 1 .. Len(s) /\ (s \o z)[i] = s[i]
      BY <1>1, <2>1
    <3> QED BY <3>1 DEF Holds
  <2>2. CASE i > Len(s)
    <3>1. /\ i - Len(s) \in 1 .. Len(z) /\ (s \o z)[i] = z[i - Len(s)]
          /\ b + (i - Len(s)) - 1 = a + i - 1
      BY <1>1, <1>2, <2>2, SMTT(20)
    <3>2. z[i - Len(s)] = Value(v, b + (i - Len(s)) - 1)
      BY <3>1 DEF Holds
    <3> QED BY <3>1, <3>2
  <2>3. i \in Int /\ Len(s) \in Int
    BY <1>1, <1>2
  <2> QED BY <2>1, <2>2, <2>3
<1> QED BY <1>2, <1>3 DEF Holds

LEMMA TransitIssue ==
  ASSUME NEW list, NEW unsent, NEW v \in Vertices, NEW got \in Nat, NEW put \in 0 .. PktNum - 1,
         Transit(list, unsent, v, got, put)
  PROVE  Transit(list, Append(unsent, Value(v, put)), v, got, put + 1)
<1>1. /\ Len(list) \in Nat /\ Len(unsent) \in Nat /\ Len(list) = (put - Len(unsent)) - got
      /\ unsent \in Seq(Packet) /\ Value(v, put) \in Packet
  BY Values DEF Transit, Holds
<1>2. put - Len(unsent) \in Nat
  BY <1>1
<1> DEFINE x == Value(v, put)
<1>3. Len(Append(unsent, x)) = Len(unsent) + 1
  BY <1>1
<1>4. (put + 1) - Len(Append(unsent, x)) = put - Len(unsent)
  BY <1>1, <1>3
<1>5. Holds(Append(unsent, x), v, put - Len(unsent), put + 1)
  BY <1>2, HoldsAppend DEF Transit
<1> QED BY <1>4, <1>5 DEF Transit

LEMMA TransitFlush ==
  ASSUME NEW list, NEW unsent, NEW v, NEW got \in Nat, NEW put \in Nat,
         Transit(list, unsent, v, got, put)
  PROVE  Transit(list \o unsent, <<>>, v, got, put)
<1>1. /\ Len(list) \in Nat /\ Len(unsent) \in Nat /\ Len(list) = (put - Len(unsent)) - got
  BY DEF Transit, Holds
<1>2. put - Len(unsent) \in Nat
  BY <1>1
<1>3. Holds(list \o unsent, v, got, put)
  BY <1>2, HoldsConcat DEF Transit
<1>4. put - Len(<<>>) = put
  OBVIOUS
<1> QED BY <1>3, <1>4, HoldsNone DEF Transit

LEMMA TransitTail ==
  ASSUME NEW list, NEW unsent, NEW v \in Vertices, NEW got \in Nat, NEW put \in Nat,
         Transit(list, unsent, v, got, put), list # <<>>
  PROVE  /\ Head(list) = Value(v, got) /\ Head(list) \in Packet /\ got < put
         /\ Transit(Tail(list), unsent, v, got + 1, put)
<1>1. /\ Len(list) \in Nat /\ Len(unsent) \in Nat /\ Len(list) = (put - Len(unsent)) - got
  BY DEF Transit, Holds
<1>2. put - Len(unsent) \in Nat
  BY <1>1
<1>3. /\ Head(list) = Value(v, got) /\ Head(list) \in Packet /\ got < put - Len(unsent)
      /\ Holds(Tail(list), v, got + 1, put - Len(unsent))
  BY <1>2, HoldsTail DEF Transit
<1> QED BY <1>1, <1>2, <1>3 DEF Transit
-----------------------------------------------------------------------------
(***************************************************************************)
(* A turn of a thread.                                                     *)
(***************************************************************************)
PosIn(tn, t) == tn[t] % PerPacket(t)
PktIn(tn, t) == tn[t] \div PerPacket(t)

\* Thread t makes a turn.
Turns(tn, t, next) ==
  /\ tn \in [threads -> Nat] /\ t \in threads
  /\ tn[t] < PktNum * PerPacket(t)
  /\ next = [tn EXCEPT ![t] = @ + 1]

LEMMA DealtNext ==
  ASSUME GivenInv, NEW tn, NEW t, NEW next, Turns(tn, t, next)
  PROVE  /\ next \in [threads -> Nat]
         /\ PosIn(tn, t) \in Positions(t) /\ PktIn(tn, t) \in 0 .. PktNum - 1
         /\ \A u \in threads : \A q \in Positions(u) :
              /\ Dealt(tn, u, q) \in Nat /\ Dealt(next, u, q) \in Nat
              /\ u = t /\ q = PosIn(tn, t) => /\ Dealt(tn, u, q) = PktIn(tn, t)
                                              /\ Dealt(next, u, q) = Dealt(tn, u, q) + 1
              /\ ~(u = t /\ q = PosIn(tn, t)) => Dealt(next, u, q) = Dealt(tn, u, q)
<1>1. /\ tn \in [threads -> Nat] /\ t \in threads
      /\ next = [tn EXCEPT ![t] = @ + 1] /\ tn[t] \in Nat
      /\ PerPacket(t) \in Nat \ {0} /\ PktNum \in Nat
  BY Threads, StripeRepairAssumption DEF Turns
<1>2. next \in [threads -> Nat] /\ next[t] = tn[t] + 1 /\ \A u \in threads \ {t} : next[u] = tn[u]
  BY <1>1
<1>3. PosIn(tn, t) \in Positions(t)
  BY <1>1, DivMod DEF PosIn, Positions
<1>4. PktIn(tn, t) \in 0 .. PktNum - 1
  <2>1. PktIn(tn, t) \in Nat
    BY <1>1, DivMod DEF PktIn
  <2>2. 0 \in 0 .. PerPacket(t) - 1
    BY <1>1
  <2>3. tn[t] \div PerPacket(t) < PktNum
    BY <1>1, <2>2, RoundsEnd DEF Turns
  <2> QED BY <1>1, <2>1, <2>3 DEF PktIn
<1>5. ASSUME NEW u \in threads, NEW q \in Positions(u)
      PROVE  /\ Dealt(tn, u, q) \in Nat /\ Dealt(next, u, q) \in Nat
             /\ u = t /\ q = PosIn(tn, t) => /\ Dealt(tn, u, q) = PktIn(tn, t)
                                             /\ Dealt(next, u, q) = Dealt(tn, u, q) + 1
             /\ ~(u = t /\ q = PosIn(tn, t)) => Dealt(next, u, q) = Dealt(tn, u, q)
  <2>1. PerPacket(u) \in Nat \ {0} /\ q \in 0 .. PerPacket(u) - 1
    BY Threads DEF Positions
  <2>2. tn[u] \in Nat /\ next[u] \in Nat
    BY <1>1, <1>2
  <2>3. Dealt(tn, u, q) \in Nat /\ Dealt(next, u, q) \in Nat
    BY <2>1, <2>2, RoundsNext DEF Dealt
  <2>4. CASE u # t
    BY <1>2, <2>3, <2>4 DEF Dealt
  <2>5. CASE u = t
    <3>1. /\ q = tn[u] % PerPacket(u) =>
               /\ Rounds(tn[u], PerPacket(u), q) = tn[u] \div PerPacket(u)
               /\ Rounds(tn[u] + 1, PerPacket(u), q) = Rounds(tn[u], PerPacket(u), q) + 1
          /\ q # tn[u] % PerPacket(u) =>
               Rounds(tn[u] + 1, PerPacket(u), q) = Rounds(tn[u], PerPacket(u), q)
      BY <2>1, <2>2, RoundsNext
    <3>2. next[u] = tn[u] + 1
      BY <1>2, <2>5
    <3> QED BY <2>3, <2>5, <3>1, <3>2 DEF Dealt, PosIn, PktIn
  <2> QED BY <2>3, <2>4, <2>5
<1> QED BY <1>2, <1>3, <1>4, <1>5

\* A thread puts a packet into the queues of its node.
LEMMA PutTurn ==
  ASSUME GivenInv, NEW tn, NEW t, NEW next, Turns(tn, t, next),
         NEW run \in SUBSET Nodes, NEW qu, NEW qu2, QueueHolds(run, qu, tn),
         t.node \in run,
         \A key : ~TakesAt(t, PosIn(tn, t), key),
         \A n \in run : \A key \in Keys(n) :
           qu2[n][key] = IF n = t.node /\ PutsAt(t, PosIn(tn, t), key)
                           THEN Append(qu[n][key], Value(ItemAt(t, PosIn(tn, t)), PktIn(tn, t)))
                           ELSE qu[n][key]
  PROVE  QueueHolds(run, qu2, next)
<1> DEFINE p == PosIn(tn, t)
<1>1. /\ p \in Positions(t) /\ PktIn(tn, t) \in 0 .. PktNum - 1 /\ t \in threads
  BY DealtNext DEF Turns
<1>2. ASSUME NEW n \in run, NEW w \in ThreadsOf(n), NEW u \in ThreadsOf(n),
             NEW pw \in Positions(w), NEW pu \in Positions(u), NEW key \in Keys(n),
             PutsAt(w, pw, key), TakesAt(u, pu, key)
      PROVE  Holds(qu2[n][key], VertexOf(key), Dealt(next, u, pu), Dealt(next, w, pw))
  <2>1. w \in threads /\ u \in threads /\ w.node = n /\ u.node = n
    BY DEF ThreadsOf
  <2>2. Holds(qu[n][key], VertexOf(key), Dealt(tn, u, pu), Dealt(tn, w, pw))
    BY <1>2 DEF QueueHolds
  <2>3. ~(u = t /\ pu = p)
    BY <1>2
  <2>4. /\ Dealt(next, u, pu) = Dealt(tn, u, pu)
        /\ Dealt(tn, u, pu) \in Nat /\ Dealt(tn, w, pw) \in Nat
    BY <2>1, <2>3, DealtNext
  <2>5. CASE n = t.node /\ PutsAt(t, p, key)
    <3>1. w = t /\ pw = p
      BY <1>1, <1>2, <2>1, <2>5, OnePuts
    <3>2. Dealt(tn, w, pw) = PktIn(tn, t) /\ Dealt(next, w, pw) = PktIn(tn, t) + 1
      BY <1>1, <3>1, DealtNext
    <3>3. ItemAt(t, p) = VertexOf(key) /\ VertexOf(key) \in Vertices
      BY <1>1, <2>5, PutsWhat
    <3>4. qu2[n][key] = Append(qu[n][key], Value(VertexOf(key), PktIn(tn, t)))
      BY <2>5, <3>3
    <3>5. Holds(Append(qu[n][key], Value(VertexOf(key), PktIn(tn, t))), VertexOf(key),
                Dealt(tn, u, pu), PktIn(tn, t) + 1)
      BY <1>1, <2>2, <2>4, <3>2, <3>3, HoldsAppend
    <3> QED BY <2>4, <3>2, <3>4, <3>5
  <2>6. CASE ~(n = t.node /\ PutsAt(t, p, key))
    <3>1. ~(w = t /\ pw = p)
      BY <1>2, <2>1, <2>6
    <3>2. Dealt(next, w, pw) = Dealt(tn, w, pw)
      BY <2>1, <3>1, DealtNext
    <3>3. qu2[n][key] = qu[n][key]
      BY <2>6
    <3> QED BY <2>2, <2>4, <3>2, <3>3
  <2> QED BY <2>5, <2>6
<1> QED BY <1>2 DEF QueueHolds

\* A thread takes a packet from a queue of its node: the one whose turn it is.
LEMMA TakeTurn ==
  ASSUME GivenInv, NEW tn, NEW t, NEW next, Turns(tn, t, next),
         NEW run \in SUBSET Nodes, NEW qu, NEW qu2, QueueHolds(run, qu, tn),
         t.node \in run, NEW taken, TakesAt(t, PosIn(tn, t), taken),
         \A key : ~PutsAt(t, PosIn(tn, t), key),
         qu[t.node][taken] # <<>>,
         \A n \in run : \A key \in Keys(n) :
           qu2[n][key] = IF n = t.node /\ key = taken THEN Tail(qu[n][key]) ELSE qu[n][key]
  PROVE  /\ QueueHolds(run, qu2, next)
         /\ taken \in Keys(t.node)
         /\ Head(qu[t.node][taken]) = Value(VertexOf(taken), PktIn(tn, t))
<1> DEFINE p == PosIn(tn, t)
<1>1. /\ p \in Positions(t) /\ PktIn(tn, t) \in 0 .. PktNum - 1 /\ t \in threads
  BY DealtNext DEF Turns
<1>2. PICK a \in ThreadsOf(t.node) : \E pa \in Positions(a) : PutsAt(a, pa, taken)
  BY <1>1, TakenIsPut
<1>3. PICK pa \in Positions(a) : PutsAt(a, pa, taken)
  BY <1>2
<1>4. a \in threads /\ a.node = t.node /\ t \in ThreadsOf(t.node)
  BY <1>1 DEF ThreadsOf
<1>5. taken \in Keys(t.node)
  BY <1>3, <1>4, KeysForPuts DEF Keys
<1>6. /\ Holds(qu[t.node][taken], VertexOf(taken), PktIn(tn, t), Dealt(tn, a, pa))
      /\ VertexOf(taken) \in Vertices /\ Dealt(tn, a, pa) \in Nat /\ PktIn(tn, t) \in Nat
  <2>1. Holds(qu[t.node][taken], VertexOf(taken), Dealt(tn, t, p), Dealt(tn, a, pa))
    BY <1>1, <1>3, <1>4, <1>5 DEF QueueHolds
  <2>2. Dealt(tn, t, p) = PktIn(tn, t) /\ Dealt(tn, a, pa) \in Nat
    BY <1>1, <1>4, DealtNext
  <2>3. VertexOf(taken) \in Vertices
    BY <1>1, TakesWhat
  <2> QED BY <1>1, <2>1, <2>2, <2>3
<1>7. /\ Head(qu[t.node][taken]) = Value(VertexOf(taken), PktIn(tn, t))
      /\ Holds(Tail(qu[t.node][taken]), VertexOf(taken), PktIn(tn, t) + 1, Dealt(tn, a, pa))
  BY <1>6, HoldsTail
<1>8. ASSUME NEW n \in run, NEW w \in ThreadsOf(n), NEW u \in ThreadsOf(n),
             NEW pw \in Positions(w), NEW pu \in Positions(u), NEW key \in Keys(n),
             PutsAt(w, pw, key), TakesAt(u, pu, key)
      PROVE  Holds(qu2[n][key], VertexOf(key), Dealt(next, u, pu), Dealt(next, w, pw))
  <2>1. w \in threads /\ u \in threads /\ w.node = n /\ u.node = n
    BY DEF ThreadsOf
  <2>2. Holds(qu[n][key], VertexOf(key), Dealt(tn, u, pu), Dealt(tn, w, pw))
    BY <1>8 DEF QueueHolds
  <2>3. ~(w = t /\ pw = p)
    BY <1>8
  <2>4. Dealt(next, w, pw) = Dealt(tn, w, pw)
    BY <2>1, <2>3, DealtNext
  <2>5. CASE n = t.node /\ key = taken
    <3>1. u = t /\ pu = p
      BY <1>1, <1>8, <2>1, <2>5, OneTakes
    <3>2. w = a /\ pw = pa
      BY <1>3, <1>4, <1>8, <2>1, <2>5, OnePuts
    <3>3. Dealt(next, u, pu) = PktIn(tn, t) + 1
      BY <1>1, <3>1, DealtNext
    <3>4. qu2[n][key] = Tail(qu[t.node][taken])
      BY <2>5
    <3> QED BY <1>7, <2>4, <2>5, <3>2, <3>3, <3>4
  <2>6. CASE ~(n = t.node /\ key = taken)
    <3>1. ~(u = t /\ pu = p)
      <4>1. ASSUME u = t, pu = p  PROVE FALSE
        <5>1. n = t.node
          BY <2>1, <4>1
        <5>2. key = taken
          BY <1>8, <4>1 DEF TakesAt, Takes
        <5> QED BY <2>6, <5>1, <5>2
      <4> QED BY <4>1
    <3>2. Dealt(next, u, pu) = Dealt(tn, u, pu)
      BY <2>1, <3>1, DealtNext
    <3>3. qu2[n][key] = qu[n][key]
      BY <2>6
    <3> QED BY <2>2, <2>4, <3>2, <3>3
  <2> QED BY <2>5, <2>6
<1> QED BY <1>5, <1>7, <1>8 DEF QueueHolds
-----------------------------------------------------------------------------
(***************************************************************************)
(* What a turn, or a write to redis, does to the packets on their way.     *)
(***************************************************************************)
LEMMA OnTheWayIs ==
  ASSUME GivenInv, NEW rd, NEW cm, NEW tn, OnTheWay(rd, cm, tn)
  PROVE  /\ \A n \in Nodes, v \in Vertices : rd[n][v] \in Seq(Packet)
         /\ \A s \in OfType("send", threads), n \in Nodes, v \in Vertices :
              cm[s][n][v] \in Seq(Packet)
         /\ \A s \in OfType("send", threads) :
              cm[s] \in [Nodes -> [Vertices -> Seq(Packet)]] /\ s \in threads
         /\ \A r \in OfType("recv", threads) : r \in threads /\ r.node \in Nodes
BY Threads DEF OnTheWay, OfType, TaskFacts

\* A turn of a thread that neither sends nor receives.
LEMMA OtherTurn ==
  ASSUME GivenInv, NEW tn, NEW t, NEW next, Turns(tn, t, next),
         t.type \notin {"send", "recv"},
         NEW rd, NEW cm, OnTheWay(rd, cm, tn)
  PROVE  OnTheWay(rd, cm, next)
<1>1. ASSUME NEW s \in OfType("send", threads), NEW r \in OfType("recv", threads),
             NEW p \in Positions(s), NEW q \in Positions(r), NEW v \in Vertices,
             Sends(s, p, v), Receives(r, q, v)
      PROVE  Transit(rd[r.node][v], cm[s][r.node][v], v, Dealt(next, r, q), Dealt(next, s, p))
  <2>1. s # t /\ r # t /\ s \in threads /\ r \in threads
    BY DEF OfType
  <2>2. Dealt(next, r, q) = Dealt(tn, r, q) /\ Dealt(next, s, p) = Dealt(tn, s, p)
    BY <2>1, DealtNext
  <2> QED BY <1>1, <2>2 DEF OnTheWay
<1> QED BY <1>1 DEF OnTheWay

\* A thread issues the commands for one packet.
LEMMA Issued ==
  ASSUME GivenInv, NEW tn, NEW t, NEW next, Turns(tn, t, next), t.type = "send",
         NEW v, Sends(t, PosIn(tn, t), v),
         NEW rd, NEW cm, OnTheWay(rd, cm, tn),
         NEW cm2 \in [OfType("send", threads) -> [Nodes -> [Vertices -> Seq(Packet)]]],
         \A s \in OfType("send", threads), n \in Nodes, w \in Vertices :
           cm2[s][n][w] = IF s = t /\ w = v /\ n \in SendTo(color, v)
                            THEN Append(cm[s][n][w], Value(v, PktIn(tn, t)))
                            ELSE cm[s][n][w]
  PROVE  OnTheWay(rd, cm2, next)
<1> DEFINE p == PosIn(tn, t)
<1>1. p \in Positions(t) /\ PktIn(tn, t) \in 0 .. PktNum - 1 /\ t \in threads
  BY DealtNext DEF Turns
<1>2. v \in Vertices /\ v \in ToSet(t.list)
  BY <1>1, SendIs
<1>3. ASSUME NEW s \in OfType("send", threads), NEW r \in OfType("recv", threads),
             NEW ps \in Positions(s), NEW q \in Positions(r), NEW w \in Vertices,
             Sends(s, ps, w), Receives(r, q, w)
      PROVE  Transit(rd[r.node][w], cm2[s][r.node][w], w, Dealt(next, r, q), Dealt(next, s, ps))
  <2>1. s \in threads /\ r \in threads /\ r.node \in Nodes /\ r # t
    BY OnTheWayIs DEF OfType
  <2>2. Transit(rd[r.node][w], cm[s][r.node][w], w, Dealt(tn, r, q), Dealt(tn, s, ps))
    BY <1>3 DEF OnTheWay
  <2>3. /\ Dealt(next, r, q) = Dealt(tn, r, q)
        /\ Dealt(tn, r, q) \in Nat /\ Dealt(tn, s, ps) \in Nat
    BY <2>1, DealtNext
  <2>4. CASE s = t /\ ps = p
    <3>1. w = v
      BY <1>3, <2>4 DEF Sends
    <3>2. r.node \in SendTo(color, v)
      BY <1>3, <2>1, <3>1, ReceiveIs
    <3>3. cm2[s][r.node][w] = Append(cm[s][r.node][w], Value(w, PktIn(tn, t)))
      BY <2>1, <2>4, <3>1, <3>2
    <3>4. Dealt(tn, s, ps) = PktIn(tn, t) /\ Dealt(next, s, ps) = PktIn(tn, t) + 1
      BY <1>1, <2>4, DealtNext
    <3> QED BY <1>1, <2>2, <2>3, <3>3, <3>4, TransitIssue
  <2>5. CASE ~(s = t /\ ps = p)
    <3>1. Dealt(next, s, ps) = Dealt(tn, s, ps)
      BY <2>1, <2>5, DealtNext
    <3>2. ~(s = t /\ w = v)
      BY <1>1, <1>3, <2>5, OneSends
    <3>3. cm2[s][r.node][w] = cm[s][r.node][w]
      BY <2>1, <3>2
    <3> QED BY <2>2, <2>3, <3>1, <3>3
  <2> QED BY <2>4, <2>5
<1>4. ASSUME NEW s \in OfType("send", threads), NEW n \in Nodes, NEW w \in Vertices,
             ~(w \in ToSet(s.list) /\ n \in SendTo(color, w))
      PROVE  cm2[s][n][w] = <<>>
  <2>1. cm[s][n][w] = <<>>
    BY <1>4 DEF OnTheWay
  <2>2. ~(s = t /\ w = v /\ n \in SendTo(color, v))
    BY <1>2, <1>4
  <2> QED BY <2>1, <2>2
<1> QED BY <1>3, <1>4 DEF OnTheWay

\* The commands of a thread to a node are written out.
LEMMA Flushed ==
  ASSUME GivenInv, NEW tn \in [threads -> Nat], NEW t \in OfType("send", threads), NEW n \in Nodes,
         NEW rd, NEW cm, OnTheWay(rd, cm, tn)
  PROVE  OnTheWay([rd EXCEPT ![n] = [v \in Vertices |-> @[v] \o cm[t][n][v]]],
                  [cm EXCEPT ![t] = [cm[t] EXCEPT ![n] = [v \in Vertices |-> <<>>]]],
                  tn)
<1> DEFINE none == [v \in Vertices |-> <<>>]
           all == [v \in Vertices |-> rd[n][v] \o cm[t][n][v]]
           rd2 == [rd EXCEPT ![n] = all]
           cm2 == [cm EXCEPT ![t] = [cm[t] EXCEPT ![n] = none]]
<1>1. /\ rd \in [Nodes -> [Vertices -> Seq(Packet)]]
      /\ cm \in [OfType("send", threads) -> [Nodes -> [Vertices -> Seq(Packet)]]]
  BY DEF OnTheWay
<1>2. \A v \in Vertices : rd[n][v] \in Seq(Packet) /\ cm[t][n][v] \in Seq(Packet)
  BY OnTheWayIs
<1>3. none \in [Vertices -> Seq(Packet)] /\ all \in [Vertices -> Seq(Packet)]
  <2>1. \A v \in Vertices : rd[n][v] \o cm[t][n][v] \in Seq(Packet)
    BY <1>2
  <2> QED BY <2>1
<1>9. /\ \A v \in Vertices : none[v] = <<>> /\ all[v] = rd[n][v] \o cm[t][n][v]
      /\ rd2 = [rd EXCEPT ![n] = [v \in Vertices |-> @[v] \o cm[t][n][v]]]
  OBVIOUS
<1> HIDE DEF none, all
<1>4. /\ rd2 \in [Nodes -> [Vertices -> Seq(Packet)]]
      /\ \A m \in Nodes : rd2[m] = IF m = n THEN all ELSE rd[m]
  BY <1>1, <1>3
<1>5. /\ cm2 \in [OfType("send", threads) -> [Nodes -> [Vertices -> Seq(Packet)]]]
      /\ \A s \in OfType("send", threads), m \in Nodes :
           cm2[s][m] = IF s = t /\ m = n THEN none ELSE cm[s][m]
  BY <1>1, <1>3
<1> HIDE DEF rd2, cm2
<1>6. ASSUME NEW s \in OfType("send", threads), NEW r \in OfType("recv", threads),
             NEW p \in Positions(s), NEW q \in Positions(r), NEW v \in Vertices,
             Sends(s, p, v), Receives(r, q, v)
      PROVE  Transit(rd2[r.node][v], cm2[s][r.node][v], v, Dealt(tn, r, q), Dealt(tn, s, p))
  <2>1. s \in threads /\ r \in threads /\ t \in threads /\ r.node \in Nodes
    BY OnTheWayIs DEF OfType
  <2>2. Transit(rd[r.node][v], cm[s][r.node][v], v, Dealt(tn, r, q), Dealt(tn, s, p))
    BY <1>6 DEF OnTheWay
  <2>3. Dealt(tn, r, q) \in Nat /\ Dealt(tn, s, p) \in Nat
    <3>1. PerPacket(r) \in Nat \ {0} /\ PerPacket(s) \in Nat \ {0}
      BY <2>1, Threads
    <3> QED BY <2>1, <3>1, RoundsNext DEF Dealt, Positions
  <2>4. CASE s = t /\ r.node = n
    <3>1. rd2[r.node][v] = rd[r.node][v] \o cm[s][r.node][v] /\ cm2[s][r.node][v] = <<>>
      BY <1>4, <1>5, <1>9, <2>4
    <3> QED BY <2>2, <2>3, <3>1, TransitFlush
  <2>5. CASE s # t /\ r.node = n
    <3>1. v \notin ToSet(t.list)
      <4>1. ASSUME v \in ToSet(t.list)  PROVE FALSE
        <5>1. PICK pt \in Positions(t) : Sends(t, pt, v)
          BY <2>1, <4>1, Listing DEF OfType
        <5> QED BY <1>6, <2>1, <2>5, <5>1, OneSends
      <4> QED BY <4>1
    <3>2. cm[t][n][v] = <<>>
      BY <3>1 DEF OnTheWay
    <3>3. rd2[r.node][v] = rd[r.node][v]
      <4>1. rd2[n][v] = rd[n][v] \o cm[t][n][v]
        BY <1>4, <1>9
      <4>2. rd[n][v] \o <<>> = rd[n][v]
        BY <1>2
      <4> QED BY <2>5, <3>2, <4>1, <4>2
    <3>4. cm2[s][r.node][v] = cm[s][r.node][v]
      BY <1>5, <2>5
    <3> QED BY <2>2, <3>3, <3>4
  <2>6. CASE r.node # n
    <3>1. rd2[r.node][v] = rd[r.node][v] /\ cm2[s][r.node][v] = cm[s][r.node][v]
      BY <1>4, <1>5, <2>1, <2>6
    <3> QED BY <2>2, <3>1
  <2> QED BY <2>4, <2>5, <2>6
<1>7. ASSUME NEW s \in OfType("send", threads), NEW m \in Nodes, NEW v \in Vertices,
             ~(v \in ToSet(s.list) /\ m \in SendTo(color, v))
      PROVE  cm2[s][m][v] = <<>>
  <2>1. cm[s][m][v] = <<>>
    BY <1>7 DEF OnTheWay
  <2> QED BY <1>5, <1>9, <2>1
<1>8. ASSUME NEW m \in Nodes, NEW v \in Vertices,
             \A r \in OfType("recv", threads) : r.node = m => v \notin ToSet(r.list)
      PROVE  rd2[m][v] = <<>>
  <2>1. rd[m][v] = <<>>
    BY <1>8 DEF OnTheWay
  <2>2. ~(v \in ToSet(t.list) /\ m \in SendTo(color, v))
    <3>1. ASSUME v \in ToSet(t.list), m \in SendTo(color, v)  PROVE FALSE
      <4>1. t \in threads /\ t.type = "send"
        BY DEF OfType
      <4>2. PICK p \in Positions(t) : Sends(t, p, v)
        BY <3>1, <4>1, Listing
      <4>3. PICK r \in OfType("recv", threads) : \E q \in Positions(r) :
              r.node = m /\ Receives(r, q, v)
        BY <3>1, <4>1, <4>2, SentIsReceived
      <4>4. v \in ToSet(r.list)
        BY <4>3, ReceiveIs DEF OfType
      <4> QED BY <1>8, <4>3, <4>4
    <3> QED BY <3>1
  <2>3. cm[t][m][v] = <<>>
    BY <2>2 DEF OnTheWay
  <2> QED BY <1>4, <1>9, <2>1, <2>3
<1>10. OnTheWay(rd2, cm2, tn)
  BY <1>4, <1>5, <1>6, <1>7, <1>8 DEF OnTheWay
<1> QED BY <1>9, <1>10 DEF rd2, cm2, none

\* A thread takes a packet from the redis of its node.
LEMMA Received ==
  ASSUME GivenInv, NEW tn, NEW t, NEW next, Turns(tn, t, next), t.type = "recv",
         NEW v, Receives(t, PosIn(tn, t), v),
         NEW rd, NEW cm, OnTheWay(rd, cm, tn), rd[t.node][v] # <<>>
  PROVE  /\ OnTheWay([rd EXCEPT ![t.node][v] = Tail(@)], cm, next)
         /\ Head(rd[t.node][v]) = Value(v, PktIn(tn, t))
<1> DEFINE p == PosIn(tn, t)
           rd2 == [rd EXCEPT ![t.node][v] = Tail(@)]
<1>1. /\ p \in Positions(t) /\ PktIn(tn, t) \in 0 .. PktNum - 1
      /\ t \in threads /\ t \in OfType("recv", threads) /\ t.node \in Nodes
  BY DealtNext, Threads DEF Turns, OfType, TaskFacts
<1>2. v \in Vertices /\ v \in ToSet(t.list)
  BY <1>1, ReceiveIs
<1>3. rd \in [Nodes -> [Vertices -> Seq(Packet)]] /\ rd[t.node][v] \in Seq(Packet)
  BY <1>1, <1>2 DEF OnTheWay
<1>4. Tail(rd[t.node][v]) \in Seq(Packet)
  BY <1>3
<1>5. /\ rd2 \in [Nodes -> [Vertices -> Seq(Packet)]]
      /\ \A n \in Nodes, w \in Vertices :
           rd2[n][w] = IF n = t.node /\ w = v THEN Tail(rd[n][w]) ELSE rd[n][w]
  BY <1>1, <1>2, <1>3, <1>4
<1>6. PICK a \in OfType("send", threads) : \E pa \in Positions(a) : Sends(a, pa, v)
  BY <1>1, ReceivedIsSent
<1>7. PICK pa \in Positions(a) : Sends(a, pa, v)
  BY <1>6
<1>8. /\ Transit(rd[t.node][v], cm[a][t.node][v], v, Dealt(tn, t, p), Dealt(tn, a, pa))
      /\ Dealt(tn, t, p) = PktIn(tn, t) /\ Dealt(tn, t, p) \in Nat /\ Dealt(tn, a, pa) \in Nat
      /\ a \in threads
  <2>1. a \in threads
    BY DEF OfType
  <2> QED BY <1>1, <1>2, <1>7, <2>1, DealtNext DEF OnTheWay
<1>9. /\ Head(rd[t.node][v]) = Value(v, PktIn(tn, t))
      /\ Transit(Tail(rd[t.node][v]), cm[a][t.node][v], v, PktIn(tn, t) + 1, Dealt(tn, a, pa))
  BY <1>2, <1>8, TransitTail
<1>10. ASSUME NEW s \in OfType("send", threads), NEW r \in OfType("recv", threads),
              NEW ps \in Positions(s), NEW q \in Positions(r), NEW w \in Vertices,
              Sends(s, ps, w), Receives(r, q, w)
       PROVE  Transit(rd2[r.node][w], cm[s][r.node][w], w, Dealt(next, r, q), Dealt(next, s, ps))
  <2>1. s \in threads /\ r \in threads /\ r.node \in Nodes /\ s # t
    BY OnTheWayIs DEF OfType
  <2>2. Transit(rd[r.node][w], cm[s][r.node][w], w, Dealt(tn, r, q), Dealt(tn, s, ps))
    BY <1>10 DEF OnTheWay
  <2>3. Dealt(next, s, ps) = Dealt(tn, s, ps)
    BY <2>1, DealtNext
  <2>4. CASE r = t /\ q = p
    <3>1. w = v
      BY <1>10, <2>4 DEF Receives
    <3>2. s = a /\ ps = pa
      BY <1>7, <1>8, <1>10, <2>1, <3>1, OneSends
    <3>3. Dealt(next, r, q) = PktIn(tn, t) + 1
      BY <1>1, <2>4, DealtNext
    <3>4. rd2[r.node][w] = Tail(rd[t.node][v])
      BY <1>1, <1>2, <1>5, <2>4, <3>1
    <3> QED BY <1>9, <2>3, <2>4, <3>1, <3>2, <3>3, <3>4
  <2>5. CASE ~(r = t /\ q = p)
    <3>1. Dealt(next, r, q) = Dealt(tn, r, q)
      BY <2>1, <2>5, DealtNext
    <3>2. ~(r.node = t.node /\ w = v)
      BY <1>1, <1>10, <2>1, <2>5, OneReceives
    <3>3. rd2[r.node][w] = rd[r.node][w]
      BY <1>5, <2>1, <3>2
    <3> QED BY <2>2, <2>3, <3>1, <3>3
  <2> QED BY <2>4, <2>5
<1>11. ASSUME NEW n \in Nodes, NEW w \in Vertices,
              \A r \in OfType("recv", threads) : r.node = n => w \notin ToSet(r.list)
       PROVE  rd2[n][w] = <<>>
  <2>1. rd[n][w] = <<>>
    BY <1>11 DEF OnTheWay
  <2>2. ~(n = t.node /\ w = v)
    BY <1>1, <1>2, <1>11
  <2> QED BY <1>5, <2>1, <2>2
<1> HIDE DEF rd2
<1>12. OnTheWay(rd2, cm, next)
  BY <1>5, <1>10, <1>11 DEF OnTheWay
<1> QED BY <1>9, <1>12 DEF rd2
-----------------------------------------------------------------------------
(***************************************************************************)
(* The data that a thread puts.                                            *)
(***************************************************************************)
LEMMA ReadsTheBlock ==
  ASSUME GivenInv, NEW t \in threads, t.type = "read", NEW p \in Positions(t), NEW k \in Nat
  PROVE  BlockData(t.at, k * ecw + (ItemAt(t, p) % ecw)) = Value(ItemAt(t, p), k)
<1> DEFINE v == ItemAt(t, p)
<1>1. Skip(t) = 0 /\ p >= Skip(t)
  BY Threads DEF Positions
<1>2. v \in Vertices /\ v \div ecw = t.at
  BY <1>1, ItemIs DEF PlaceOf
<1>3. v \in Nat /\ ecw \in Nat \ {0}
  BY <1>2, Keyed, TaskGenAssumption
<1> HIDE DEF v
<1>4. (v % ecw) \in 0 .. ecw - 1 /\ v = (v \div ecw) * ecw + (v % ecw)
  BY <1>3, DivMod
<1>5. (k * ecw + (v % ecw)) \div ecw = k /\ (k * ecw + (v % ecw)) % ecw = v % ecw
  BY <1>3, <1>4, DivModOf
<1>6. BlockData(t.at, k * ecw + (v % ecw)) = Value(v, k)
  BY <1>2, <1>4, <1>5 DEF BlockData
<1> QED BY <1>6 DEF v

\* What is made nowhere is zero.
LEMMA NotMadeIsZero ==
  ASSUME GivenInv, NEW v \in Vertices, v # REQUESTOR, ~Made(color, v)
  PROVE  \A k : Value(v, k) = ZeroPacket
<1>1. Placed(color)
  BY Threads
<1>2. CASE IsLeaf(v)
  <2>1. IsVirtual(v)
    BY <1>1, <1>2, MadeAt
  <2>2. IsZero[v]
    BY <1>2, <2>1, StripeRepairAssumption
  <2> QED BY <2>2 DEF Value
<1>3. CASE ~IsLeaf(v)
  <2>1. color[v] = NoColor
    BY <1>1, <1>3, MadeAt
  <2>2. IsZero[v]
    BY <1>3, <2>1 DEF GivenInv, Usable
  <2> QED BY <2>2 DEF Value
<1> QED BY <1>2, <1>3

\* The right inputs give the right output.
LEMMA Computes ==
  ASSUME NEW v \in Vertices, ~IsLeaf(v), NEW k \in 0 .. PktNum - 1, NEW in,
         \A c \in ToSet(Src[v]) : in[c] = Value(c, k)
  PROVE  Multi(v, in) = Value(v, k)
<1> DEFINE right == {j \in 0 .. PktNum - 1 : \A c \in ToSet(Src[v]) : in[c] = Value(c, j)}
           j == CHOOSE i \in right : TRUE
<1>1. k \in right
  OBVIOUS
<1>2. j \in right
  BY <1>1
<1>3. Multi(v, in) = Value(v, j)
  BY <1>1 DEF Multi
<1>4. \A c \in ToSet(Src[v]) : Value(c, k) = Value(c, j)
  BY <1>2
<1> HIDE DEF j, right
<1>5. CASE IsZero[v]
  BY <1>3, <1>5 DEF Value
<1>6. CASE ~IsZero[v]
  <2>1. PICK c \in ToSet(Src[v]) : ~IsZero[c]
    BY <1>6, StripeRepairAssumption
  <2>2. <<c, k>> = <<c, j>>
    BY <1>4, <2>1 DEF Value
  <2>3. k = j
    BY <2>2
  <2> QED BY <1>3, <2>3
<1> QED BY <1>5, <1>6

\* The items of persist are the sub-packets of the lost block, in order.
LEMMA Persists ==
  ASSUME GivenInv, NEW t \in threads, t.type = "persist", NEW n \in Nat
  PROVE  /\ PerPacket(t) = ecw
         /\ Value(t.list[(n % ecw) + 1], n \div ecw) = LostData(n)
<1>1. t.list = Src[REQUESTOR] /\ PerPacket(t) = Skip(t) + Len(t.list) /\ Skip(t) = 0
  BY Threads
<1>2. ecw \in Nat \ {0} /\ FailBlock \in Nat /\ FailBlock * ecw \in Nat
  BY TaskGenAssumption, StripeRepairAssumption, Root
<1>3. PerPacket(t) = ecw
  BY <1>1, <1>2, Root
<1>4. (n % ecw) \in 0 .. ecw - 1
  BY <1>2, DivMod
<1>5. t.list[(n % ecw) + 1] = FailBlock * ecw + (n % ecw)
  <2>1. (n % ecw) + 1 \in 1 .. ecw
    BY <1>2, <1>4
  <2>2. t.list[(n % ecw) + 1] = FailBlock * ecw + ((n % ecw) + 1) - 1
    BY <1>1, <2>1, StripeRepairAssumption
  <2>3. FailBlock * ecw + ((n % ecw) + 1) - 1 = FailBlock * ecw + (n % ecw)
    BY <1>2, <1>4
  <2> QED BY <2>2, <2>3
<1> QED BY <1>3, <1>5 DEF LostData, BlockData

\* The nodes that a vertex is sent to, as a list.
LEMMA Receivers ==
  ASSUME GivenInv, NEW v \in Vertices, SendTo(color, v) # {}, SendTo(color, v) \subseteq Nodes
  PROVE  SetToSeq(SendTo(color, v)) \in Seq(Nodes) /\ Len(SetToSeq(SendTo(color, v))) \in Nat \ {0}
<1> DEFINE S == SendTo(color, v)
           f == SetToSeq(S)
<1>1. IsFiniteSet(S)
  <2>1. Parents(v) \in SUBSET Vertices
    BY DEF Parents
  <2>2. IsFiniteSet(Parents(v))
    BY <2>1, VerticesFinite
  <2>3. IsFiniteSet({color[p] : p \in Parents(v)})
    <3> DEFINE P == Parents(v)
               T == {color[p] : p \in P}
               g == [p \in P |-> color[p]]
    <3>1. g \in Surjection(P, T)
      BY DEF Surjection
    <3>2. IsFiniteSet(P)
      BY <2>2
    <3> HIDE DEF g, T, P
    <3>3. IsFiniteSet(T)
      BY <3>1, <3>2, FS_Surjection
    <3> QED BY <3>3 DEF T, P
  <2>4. S \subseteq {color[p] : p \in Parents(v)}
    BY DEF SendTo, ParentColors
  <2> QED BY <2>3, <2>4, FS_Subset
<1>2. S # {} /\ S \subseteq Nodes
  OBVIOUS
<1> HIDE DEF S
<1>3. Cardinality(S) \in Nat /\ ExistsBijection(1 .. Cardinality(S), S)
  BY <1>1, FS_CardinalityType
<1>4. \E g \in [1 .. Cardinality(S) -> S] : IsInjective(g)
  BY <1>3 DEF ExistsBijection, Bijection, Injection, IsInjective
<1>5. f \in [1 .. Cardinality(S) -> S]
  BY <1>4 DEF SetToSeq
<1>6. Cardinality(S) # 0
  BY <1>1, <1>2, FS_EmptySet
<1> HIDE DEF f
<1>7. f \in Seq(Nodes) /\ Len(f) = Cardinality(S)
  BY <1>2, <1>3, <1>5
<1> QED BY <1>3, <1>6, <1>7 DEF f, S
-----------------------------------------------------------------------------
(***************************************************************************)
(* No step changes what is given: the colouring, the threads, the inputs.  *)
(***************************************************************************)
LEMMA Frozen ==
  ASSUME UNCHANGED given
  PROVE  /\ color' = color /\ threads' = threads /\ inputs' = inputs
         /\ GivenInv' <=> GivenInv
         /\ \A n : ThreadsOf(n)' = ThreadsOf(n) /\ Keys(n)' = Keys(n)
         /\ \A t : PerPacket(t)' = PerPacket(t)
         /\ QueueHolds(running, queue, turn)' <=> QueueHolds(running', queue', turn')
         /\ OnTheWay(redis, cmds, turn)' <=> OnTheWay(redis', cmds', turn')
<1>1. color' = color /\ threads' = threads /\ inputs' = inputs
  BY DEF given
<1>2. \A n : ThreadsOf(n)' = ThreadsOf(n)
  BY <1>1 DEF ThreadsOf
<1>3. \A t : PerPacket(t)' = PerPacket(t) /\ Skip(t)' = Skip(t) /\ Positions(t)' = Positions(t)
  BY <1>1 DEF PerPacket, Skip, Positions
<1>4. /\ \A v : Same(color, v)' <=> Same(color, v)
      /\ \A v : Diff(color, v)' <=> Diff(color, v)
      /\ \A v : SendTo(color, v)' = SendTo(color, v)
  BY <1>1 DEF Same, Diff, SendTo, ParentColors
<1>5. \A t : KeysFor(t)' = KeysFor(t)
  BY <1>1, <1>4 DEF KeysFor
<1>6. \A n : Keys(n)' = Keys(n)
  BY <1>2, <1>5 DEF Keys
<1>7. \A t, v : ItemKeys(t, v)' = ItemKeys(t, v) /\ ItemAt(t, v)' = ItemAt(t, v)
  BY <1>1 DEF ItemKeys, ItemAt, Skip, Same, Diff, ParentColors
<1>8. \A t, p, key : (PutsAt(t, p, key)' <=> PutsAt(t, p, key))
                       /\ (TakesAt(t, p, key)' <=> TakesAt(t, p, key))
  BY <1>1 DEF PutsAt, TakesAt, Positions, PerPacket, ItemKeys, ItemAt, Skip, Same, Diff,
              ParentColors
<1>9. GivenInv' <=> GivenInv
  BY <1>1 DEF GivenInv, InputList
<1>10. QueueHolds(running, queue, turn)' <=> QueueHolds(running', queue', turn')
  <2>1. \A t, p : Dealt(turn, t, p)' = Dealt(turn', t, p)
    BY <1>3 DEF Dealt
  <2> QED BY <1>2, <1>3, <1>6, <1>8, <2>1 DEF QueueHolds
<1>11. OnTheWay(redis, cmds, turn)' <=> OnTheWay(redis', cmds', turn')
  <2>1. \A t, p : Dealt(turn, t, p)' = Dealt(turn', t, p)
    BY <1>3 DEF Dealt
  <2>2. \A t, p, v : (Sends(t, p, v)' <=> Sends(t, p, v))
                       /\ (Receives(t, p, v)' <=> Receives(t, p, v))
    BY <1>3 DEF Sends, Receives
  <2> QED BY <1>1, <1>3, <1>4, <2>1, <2>2 DEF OnTheWay
<1> QED BY <1>1, <1>2, <1>3, <1>6, <1>9, <1>10, <1>11
-----------------------------------------------------------------------------
(***************************************************************************)
(* The parts of the invariant that a turn leaves alone.                    *)
(***************************************************************************)

\* A thread of a running node makes a turn.
TurnOf(n, t) ==
  /\ n \in running /\ t \in ThreadsOf(n) /\ Turning(t)
  /\ NextTurn(t)
  /\ UNCHANGED <<given, running, failed>>

LEMMA TurnStep ==
  ASSUME GivenInv, TurnInv, NEW n, NEW t, TurnOf(n, t)
  PROVE  /\ TurnInv' /\ GivenInv' /\ Turns(turn, t, turn')
         /\ n \in Nodes /\ n = t.node /\ t \in threads
         /\ Pos(t) = PosIn(turn, t) /\ Pkt(t) = PktIn(turn, t)
         /\ Pos(t) \in Positions(t) /\ Pkt(t) \in 0 .. PktNum - 1
         /\ running' = running /\ UNCHANGED given
         /\ t.type # "compute" => ItemAt(t, Pos(t)) = Item(t) /\ Pos(t) >= Skip(t)
<1>1. /\ n \in running /\ t \in threads /\ t.node = n
      /\ turn[t] < PktNum * PerPacket(t) /\ t \notin failed
      /\ turn' = [turn EXCEPT ![t] = @ + 1]
      /\ UNCHANGED <<given, running, failed>>
  BY DEF TurnOf, ThreadsOf, Turning, NextTurn
<1>2. n \in Nodes /\ turn \in [threads -> Nat]
  BY <1>1 DEF TurnInv
<1>3. Turns(turn, t, turn')
  BY <1>1, <1>2 DEF Turns
<1>4. /\ threads' = threads /\ GivenInv' /\ \A u : PerPacket(u)' = PerPacket(u)
      /\ running' = running /\ failed' = failed
  BY <1>1, Frozen
<1>5. TurnInv'
  <2>1. turn' \in [threads -> Nat]
    BY <1>3, DealtNext
  <2>2. ASSUME NEW u \in threads  PROVE turn'[u] <= PktNum * PerPacket(u)
    <3>1. PktNum * PerPacket(u) \in Nat /\ turn[u] \in Nat /\ turn[u] <= PktNum * PerPacket(u)
      BY <1>2, Threads, StripeRepairAssumption DEF TurnInv
    <3> QED BY <1>1, <1>2, <3>1
  <2>3. ASSUME NEW u \in threads, u.node \notin running  PROVE turn'[u] = 0
    BY <1>1, <1>2, <2>3 DEF TurnInv
  <2>4. ASSUME NEW u \in failed  PROVE turn'[u] < PktNum * PerPacket(u)
    BY <1>1, <1>2 DEF TurnInv
  <2>5. OfType("read", threads)' = OfType("read", threads)
    BY <1>4 DEF OfType
  <2> QED BY <1>4, <2>1, <2>2, <2>3, <2>4, <2>5 DEF TurnInv
<1>6. Pos(t) = PosIn(turn, t) /\ Pkt(t) = PktIn(turn, t)
  BY DEF Pos, Pkt, PosIn, PktIn
<1>7. Pos(t) \in Positions(t) /\ Pkt(t) \in 0 .. PktNum - 1
  BY <1>3, <1>6, DealtNext
<1>8. ASSUME t.type # "compute"  PROVE ItemAt(t, Pos(t)) = Item(t) /\ Pos(t) >= Skip(t)
  <2>1. Skip(t) = 0 /\ Pos(t) - 0 + 1 = Pos(t) + 1 /\ Pos(t) >= 0
    BY <1>1, <1>7, <1>8, Threads DEF Positions
  <2> QED BY <2>1 DEF ItemAt, Item
<1> QED BY <1>1, <1>2, <1>3, <1>4, <1>5, <1>6, <1>7, <1>8

\* The queues of node n change, not which they are.
Requeued(n) ==
  /\ DOMAIN queue' = DOMAIN queue
  /\ \A m \in DOMAIN queue : m # n => queue'[m] = queue[m]
  /\ DOMAIN queue'[n] = DOMAIN queue[n]

LEMMA QueueStep ==
  ASSUME QueueInv, running \in SUBSET Nodes, NEW n \in running, UNCHANGED <<given, running>>,
         Requeued(n), QueueHolds(running, queue', turn')
  PROVE  QueueInv'
<1>1. DOMAIN queue' = Nodes
  BY DEF QueueInv, Requeued
<1>2. UNCHANGED given /\ running' = running
  OBVIOUS
<1>3. /\ \A m : Keys(m)' = Keys(m)
      /\ QueueHolds(running, queue, turn)'
  BY <1>2, Frozen
<1>4. \A m \in running : DOMAIN queue'[m] = Keys(m)
  BY DEF QueueInv, Requeued
<1>5. \A m \in Nodes \ running : queue'[m] = <<>>
  BY DEF QueueInv, Requeued
<1> QED BY <1>1, <1>2, <1>3, <1>4, <1>5 DEF QueueInv

LEMMA RedisStep ==
  ASSUME UNCHANGED given, OnTheWay(redis', cmds', turn')
  PROVE  RedisInv'
BY Frozen DEF RedisInv

LEMMA ReplyKeeps ==
  ASSUME ReplyInv, UNCHANGED <<given, replies, count>>
  PROVE  ReplyInv'
<1>1. OfType("send", threads)' = OfType("send", threads)
  BY DEF OfType, given
<1> QED BY <1>1 DEF ReplyInv

LEMMA BufKeeps ==
  ASSUME BufInv, turn \in [threads -> Nat],
         UNCHANGED <<given, buf>>,
         \A t \in OfType("compute", threads) : turn'[t] = turn[t]
  PROVE  BufInv'
<1>1. UNCHANGED given
  OBVIOUS
<1>2. /\ inputs' = inputs /\ threads' = threads /\ \A t : PerPacket(t)' = PerPacket(t)
  BY <1>1, Frozen
<1>3. OfType("compute", threads)' = OfType("compute", threads)
  BY <1>2 DEF OfType
<1>4. \A t \in OfType("compute", threads) : Pos(t)' = Pos(t) /\ Pkt(t)' = Pkt(t)
  BY <1>2 DEF Pos, Pkt
<1>5. buf' = buf
  OBVIOUS
<1> QED BY <1>2, <1>3, <1>4, <1>5 DEF BufInv

LEMMA FileKeeps ==
  ASSUME FileInv, UNCHANGED <<given, file>>,
         \A t \in OfType("persist", threads) : turn'[t] = turn[t]
  PROVE  FileInv'
<1>1. OfType("persist", threads)' = OfType("persist", threads)
  BY DEF OfType, given
<1> QED BY <1>1 DEF FileInv
-----------------------------------------------------------------------------
(***************************************************************************)
(* Every step keeps the invariant.                                         *)
(***************************************************************************)

\* What a thread that reads or computes puts.
LEMMA Pushes ==
  ASSUME GivenInv, NEW t \in threads, t.type \in {"read", "compute"},
         NEW p \in Positions(t), p >= Skip(t), NEW q, NEW pkt
  PROVE  /\ DOMAIN Push(q, ItemAt(t, p), pkt) = DOMAIN q
         /\ \A key \in DOMAIN q :
              Push(q, ItemAt(t, p), pkt)[key] =
                IF PutsAt(t, p, key) THEN Append(q[key], pkt) ELSE q[key]
<1>1. \A key : PutsAt(t, p, key) <=>
                 key \in KeysOf(ItemAt(t, p), Same(color, ItemAt(t, p)), Diff(color, ItemAt(t, p)))
  BY DEF PutsAt, Puts, ItemKeys
<1> QED BY <1>1 DEF Push

\* In the turns for its items a thread takes nothing.
LEMMA PuttingTakesNothing ==
  ASSUME GivenInv, NEW t \in threads, t.type \in Puts, NEW p \in Positions(t), p >= Skip(t)
  PROVE  \A key : ~TakesAt(t, p, key)
<1>1. CASE t.type # "compute"
  BY <1>1 DEF Puts, TakesAt, Takes
<1>2. CASE t.type = "compute"
  <2>1. Skip(t) = Len(inputs[t]) /\ Skip(t) \in Nat /\ p \in Int
    BY <1>2, Threads DEF Positions
  <2>2. ~(p < Len(inputs[t]))
    BY <2>1
  <2> QED BY <1>2, <2>2 DEF TakesAt
<1> QED BY <1>1, <1>2

\* The packet is put into the queues of the thread's node.
Enqueued(n, t) ==
  /\ Requeued(n)
  /\ \A key \in DOMAIN queue[n] :
       queue'[n][key] = IF PutsAt(t, Pos(t), key)
                          THEN Append(queue[n][key], Value(ItemAt(t, Pos(t)), Pkt(t)))
                          ELSE queue[n][key]

LEMMA PutStep ==
  ASSUME GivenInv, TurnInv, QueueInv, NEW n, NEW t, TurnOf(n, t),
         t.type \in Puts, Pos(t) >= Skip(t), Enqueued(n, t)
  PROVE  QueueInv'
<1>1. /\ Turns(turn, t, turn') /\ n \in Nodes /\ n = t.node /\ t \in threads
      /\ Pos(t) = PosIn(turn, t) /\ Pkt(t) = PktIn(turn, t) /\ Pos(t) \in Positions(t)
  BY TurnStep
<1>2. /\ n \in running /\ running \in SUBSET Nodes /\ UNCHANGED <<given, running>>
      /\ \A m \in running : DOMAIN queue[m] = Keys(m) /\ m \in DOMAIN queue
  BY DEF TurnOf, TurnInv, QueueInv
<1>3. \A key : ~TakesAt(t, PosIn(turn, t), key)
  BY <1>1, PuttingTakesNothing
<1>4. ASSUME NEW m \in running, NEW key \in Keys(m)
      PROVE  queue'[m][key] =
               IF m = t.node /\ PutsAt(t, PosIn(turn, t), key)
                 THEN Append(queue[m][key], Value(ItemAt(t, PosIn(turn, t)), PktIn(turn, t)))
                 ELSE queue[m][key]
  <2>1. CASE m = n
    BY <1>1, <1>2, <2>1 DEF Enqueued
  <2>2. CASE m # n
    BY <1>1, <1>2, <2>2 DEF Enqueued, Requeued
  <2> QED BY <2>1, <2>2
<1>5. GivenInv /\ QueueHolds(running, queue, turn)
  BY DEF QueueInv
<1>6. QueueHolds(running, queue', turn')
  BY ONLY <1>1, <1>2, <1>3, <1>4, <1>5, PutTurn
<1> QED BY <1>2, <1>6, QueueStep DEF Enqueued

\* A packet is taken from a queue of the thread's node.
Dequeued(n, taken) ==
  /\ Requeued(n)
  /\ queue[n][taken] # <<>>
  /\ \A key \in DOMAIN queue[n] :
       queue'[n][key] = IF key = taken THEN Tail(queue[n][key]) ELSE queue[n][key]

LEMMA TakeStep ==
  ASSUME GivenInv, TurnInv, QueueInv, NEW n, NEW t, TurnOf(n, t),
         NEW taken, TakesAt(t, Pos(t), taken), \A key : ~PutsAt(t, Pos(t), key),
         Dequeued(n, taken)
  PROVE  /\ QueueInv'
         /\ Head(queue[n][taken]) = Value(VertexOf(taken), Pkt(t))
         /\ Head(queue[n][taken]) \in Packet
<1>1. /\ Turns(turn, t, turn') /\ n \in Nodes /\ n = t.node /\ t \in threads
      /\ Pos(t) = PosIn(turn, t) /\ Pkt(t) = PktIn(turn, t) /\ Pos(t) \in Positions(t)
      /\ Pkt(t) \in 0 .. PktNum - 1
  BY TurnStep
<1>2. /\ n \in running /\ running \in SUBSET Nodes /\ UNCHANGED <<given, running>>
      /\ \A m \in running : DOMAIN queue[m] = Keys(m) /\ m \in DOMAIN queue
  BY DEF TurnOf, TurnInv, QueueInv
<1>3. ASSUME NEW m \in running, NEW key \in Keys(m)
      PROVE  queue'[m][key] = IF m = t.node /\ key = taken THEN Tail(queue[m][key])
                                                           ELSE queue[m][key]
  <2>1. CASE m = n
    <3>1. key \in DOMAIN queue[n]
      BY <1>2, <2>1
    <3>2. queue'[n][key] = IF key = taken THEN Tail(queue[n][key]) ELSE queue[n][key]
      BY <3>1 DEF Dequeued
    <3> QED BY ONLY <1>1, <2>1, <3>2
  <2>2. CASE m # n
    BY <1>1, <1>2, <2>2 DEF Dequeued, Requeued
  <2> QED BY <2>1, <2>2
<1>4. /\ GivenInv /\ QueueHolds(running, queue, turn) /\ t.node \in running
      /\ TakesAt(t, PosIn(turn, t), taken) /\ \A key : ~PutsAt(t, PosIn(turn, t), key)
      /\ queue[t.node][taken] # <<>>
  BY <1>1, <1>2 DEF QueueInv, Dequeued
<1>5. /\ QueueHolds(running, queue', turn')
      /\ Head(queue[n][taken]) = Value(VertexOf(taken), PktIn(turn, t))
  BY ONLY <1>1, <1>2, <1>3, <1>4, TakeTurn
<1>6. VertexOf(taken) \in Vertices
  BY <1>1, TakesWhat
<1>7. Value(VertexOf(taken), Pkt(t)) \in Packet
  BY <1>1, <1>6, Values
<1>8. QueueInv'
  BY <1>2, <1>5, QueueStep DEF Dequeued
<1> QED BY <1>1, <1>5, <1>7, <1>8

LEMMA QueueChanges ==
  ASSUME QueueInv, TurnInv, NEW n \in running, NEW new, queue' = [queue EXCEPT ![n] = new],
         DOMAIN new = DOMAIN queue[n]
  PROVE  /\ Requeued(n) /\ queue'[n] = new
BY DEF QueueInv, TurnInv, Requeued

LEMMA PushStep ==
  ASSUME GivenInv, TurnInv, QueueInv, NEW n, NEW t, TurnOf(n, t),
         t.type \in {"read", "compute"}, Pos(t) >= Skip(t),
         queue' = [queue EXCEPT ![n] = Push(@, ItemAt(t, Pos(t)), Value(ItemAt(t, Pos(t)), Pkt(t)))]
  PROVE  QueueInv'
<1> DEFINE pkt == Value(ItemAt(t, Pos(t)), Pkt(t))
           new == Push(queue[n], ItemAt(t, Pos(t)), pkt)
<1>1. n \in running /\ t \in threads /\ Pos(t) \in Positions(t)
  BY TurnStep DEF TurnOf
<1> HIDE DEF pkt
<1>2. /\ DOMAIN new = DOMAIN queue[n]
      /\ \A key \in DOMAIN queue[n] :
           new[key] = IF PutsAt(t, Pos(t), key) THEN Append(queue[n][key], pkt) ELSE queue[n][key]
  BY <1>1, Pushes
<1>3. queue' = [queue EXCEPT ![n] = new]
  BY DEF pkt
<1> HIDE DEF new
<1>4. Requeued(n) /\ queue'[n] = new
  BY <1>1, <1>2, <1>3, QueueChanges
<1>5. Enqueued(n, t)
  BY ONLY <1>2, <1>4 DEF Enqueued, pkt
<1> QED BY <1>5, PutStep DEF Puts

LEMMA ReadRealBlockStep ==
  ASSUME IInv, NEW n \in running, NEW t \in ThreadsOf(n), ReadRealBlock(t)
  PROVE  IInv'
<1>1. TurnOf(n, t) /\ t.type = "read"
  BY DEF ReadRealBlock, TurnOf
<1>2. GivenInv /\ TurnInv /\ QueueInv /\ RedisInv /\ ReplyInv /\ BufInv /\ FileInv
  BY DEF IInv
<1>3. /\ TurnInv' /\ GivenInv' /\ Turns(turn, t, turn') /\ n = t.node /\ t \in threads
      /\ Pos(t) \in Positions(t) /\ Pkt(t) \in 0 .. PktNum - 1
      /\ ItemAt(t, Pos(t)) = Item(t) /\ Pos(t) >= Skip(t)
  BY <1>1, <1>2, TurnStep
<1>4. QueueInv'
  <2>1. BlockData(t.at, Pkt(t) * ecw + (Item(t) % ecw)) = Value(Item(t), Pkt(t))
    BY <1>1, <1>2, <1>3, ReadsTheBlock
  <2>2. queue' = [queue EXCEPT ![n] = Push(queue[n], ItemAt(t, Pos(t)), Value(ItemAt(t, Pos(t)), Pkt(t)))]
    BY <1>3, <2>1 DEF ReadRealBlock
  <2> QED BY <1>1, <1>2, <1>3, <2>2, PushStep
<1>5. RedisInv'
  <2>1. OnTheWay(redis, cmds, turn')
    BY <1>1, <1>2, <1>3, OtherTurn DEF RedisInv
  <2>2. UNCHANGED <<given, redis, cmds>>
    BY DEF ReadRealBlock
  <2>3. OnTheWay(redis', cmds', turn')
    BY <2>1, <2>2
  <2> QED BY <2>2, <2>3, RedisStep
<1>6. ReplyInv'
  BY <1>2, ReplyKeeps DEF ReadRealBlock
<1>7. \A u \in threads : u # t => turn'[u] = turn[u]
  BY <1>3 DEF Turns
<1>8. BufInv'
  BY <1>1, <1>2, <1>7, BufKeeps DEF ReadRealBlock, OfType, TurnInv
<1>9. FileInv'
  BY <1>1, <1>2, <1>7, FileKeeps DEF ReadRealBlock, OfType
<1> QED BY <1>3, <1>4, <1>5, <1>6, <1>8, <1>9 DEF IInv

LEMMA RedisKeeps ==
  ASSUME GivenInv, TurnInv, RedisInv, NEW n, NEW t, TurnOf(n, t), t.type \notin {"send", "recv"},
         UNCHANGED <<redis, cmds>>
  PROVE  RedisInv'
<1>1. Turns(turn, t, turn') /\ UNCHANGED given
  BY TurnStep
<1>2. OnTheWay(redis, cmds, turn')
  BY <1>1, OtherTurn DEF RedisInv
<1>3. OnTheWay(redis', cmds', turn')
  BY <1>2
<1> QED BY <1>1, <1>3, RedisStep

\* A packet of the item is put into the one queue of the item.
LEMMA AppendStep ==
  ASSUME GivenInv, TurnInv, QueueInv, NEW n, NEW t, TurnOf(n, t), t.type \in {"zero", "recv"},
         queue' = [queue EXCEPT ![n][Item(t)] = Append(@, Value(Item(t), Pkt(t)))]
  PROVE  QueueInv'
<1> DEFINE v == Item(t)
           pkt == Value(v, Pkt(t))
           new == [queue[n] EXCEPT ![v] = Append(@, pkt)]
<1>1. /\ n \in running /\ t \in threads /\ Pos(t) \in Positions(t) /\ t.node = n
      /\ ItemAt(t, Pos(t)) = v /\ Pos(t) >= Skip(t)
  BY TurnStep DEF TurnOf, Puts
<1>2. \A key : PutsAt(t, Pos(t), key) <=> key = v
  BY <1>1 DEF PutsAt, Puts, ItemKeys
<1>3. v \in DOMAIN queue[n]
  <2>1. v \in KeysFor(t)
    BY <1>1, <1>2, KeysForPuts
  <2>2. v \in Keys(n)
    BY <2>1 DEF Keys, TurnOf
  <2> QED BY <1>1, <2>2 DEF QueueInv
<1> HIDE DEF pkt, v
<1>4. /\ DOMAIN new = DOMAIN queue[n]
      /\ \A key \in DOMAIN queue[n] :
           new[key] = IF key = v THEN Append(queue[n][key], pkt) ELSE queue[n][key]
  OBVIOUS
<1>5. queue' = [queue EXCEPT ![n] = new]
  BY DEF pkt, v
<1> HIDE DEF new
<1>6. Requeued(n) /\ queue'[n] = new
  BY <1>1, <1>4, <1>5, QueueChanges
<1>7. Enqueued(n, t)
  BY ONLY <1>1, <1>2, <1>4, <1>6 DEF Enqueued, pkt
<1> QED BY <1>1, <1>7, PutStep DEF Puts

LEMMA PopStep ==
  ASSUME GivenInv, TurnInv, QueueInv, NEW n, NEW t, TurnOf(n, t),
         NEW taken, TakesAt(t, Pos(t), taken), \A key : ~PutsAt(t, Pos(t), key),
         queue[n][taken] # <<>>,
         queue' = [queue EXCEPT ![n][taken] = Tail(@)]
  PROVE  /\ QueueInv'
         /\ Head(queue[n][taken]) = Value(VertexOf(taken), Pkt(t))
         /\ Head(queue[n][taken]) \in Packet
<1> DEFINE new == [queue[n] EXCEPT ![taken] = Tail(@)]
<1>1. /\ DOMAIN new = DOMAIN queue[n]
      /\ \A key \in DOMAIN queue[n] :
           new[key] = IF key = taken THEN Tail(queue[n][key]) ELSE queue[n][key]
  OBVIOUS
<1>2. queue' = [queue EXCEPT ![n] = new] /\ n \in running
  BY DEF TurnOf
<1> HIDE DEF new
<1>3. Requeued(n) /\ queue'[n] = new
  BY <1>1, <1>2, QueueChanges
<1>4. queue[n][taken] # <<>>
  OBVIOUS
<1>5. Dequeued(n, taken)
  BY ONLY <1>1, <1>3, <1>4 DEF Dequeued
<1> QED BY <1>5, TakeStep

LEMMA ReadVirtBlockStep ==
  ASSUME IInv, NEW n \in running, NEW t \in ThreadsOf(n), ReadVirtBlock(t)
  PROVE  IInv'
<1>1. TurnOf(n, t) /\ t.type = "zero"
  BY DEF ReadVirtBlock, TurnOf
<1>2. GivenInv /\ TurnInv /\ QueueInv /\ RedisInv /\ ReplyInv /\ BufInv /\ FileInv
  BY DEF IInv
<1>3. /\ TurnInv' /\ GivenInv' /\ Turns(turn, t, turn') /\ n = t.node /\ t \in threads
      /\ Pos(t) \in Positions(t) /\ ItemAt(t, Pos(t)) = Item(t) /\ Pos(t) >= Skip(t)
  BY <1>1, <1>2, TurnStep
<1>4. QueueInv'
  <2>1. /\ Item(t) \in Vertices
        /\ Item(t) \in Listed(color, "zero", n)
    BY <1>1, <1>2, <1>3, ItemIs
  <2>2. Value(Item(t), Pkt(t)) = ZeroPacket
    BY <1>2, <2>1, NotMadeIsZero DEF Listed
  <2>3. queue' = [queue EXCEPT ![n][Item(t)] = Append(@, Value(Item(t), Pkt(t)))]
    BY <1>3, <2>2 DEF ReadVirtBlock
  <2> QED BY <1>1, <1>2, <2>3, AppendStep
<1>5. RedisInv'
  BY <1>1, <1>2, RedisKeeps DEF ReadVirtBlock
<1>6. ReplyInv'
  BY <1>2, ReplyKeeps DEF ReadVirtBlock
<1>7. \A u \in threads : u # t => turn'[u] = turn[u]
  BY <1>3 DEF Turns
<1>8. BufInv'
  BY <1>1, <1>2, <1>7, BufKeeps DEF ReadVirtBlock, OfType, TurnInv
<1>9. FileInv'
  BY <1>1, <1>2, <1>7, FileKeeps DEF ReadVirtBlock, OfType
<1> QED BY <1>3, <1>4, <1>5, <1>6, <1>8, <1>9 DEF IInv

LEMMA RecvOneByOneStep ==
  ASSUME IInv, NEW n \in running, NEW t \in ThreadsOf(n), RecvOneByOne(t)
  PROVE  IInv'
<1> DEFINE v == Item(t)
<1>1. TurnOf(n, t) /\ t.type = "recv"
  BY DEF RecvOneByOne, TurnOf
<1>2. GivenInv /\ TurnInv /\ QueueInv /\ RedisInv /\ ReplyInv /\ BufInv /\ FileInv
  BY DEF IInv
<1>3. /\ TurnInv' /\ GivenInv' /\ Turns(turn, t, turn') /\ n = t.node /\ t \in threads
      /\ Pos(t) \in Positions(t) /\ Pos(t) = PosIn(turn, t) /\ Pkt(t) = PktIn(turn, t)
      /\ UNCHANGED given
  BY <1>1, <1>2, TurnStep
<1>4. Receives(t, Pos(t), v)
  BY <1>1, <1>3 DEF Receives, Item
<1>5. redis[t.node][v] # <<>> /\ redis' = [redis EXCEPT ![t.node][v] = Tail(@)] /\ cmds' = cmds
  BY DEF RecvOneByOne
<1>6. queue' = [queue EXCEPT ![n][v] = Append(@, Head(redis[t.node][v]))]
  BY <1>3 DEF RecvOneByOne
<1> HIDE DEF v
<1>7. /\ OnTheWay([redis EXCEPT ![t.node][v] = Tail(@)], cmds, turn')
      /\ Head(redis[t.node][v]) = Value(v, Pkt(t))
  BY ONLY <1>1, <1>2, <1>3, <1>4, <1>5, Received DEF RedisInv
<1>8. RedisInv'
  BY <1>3, <1>5, <1>7, RedisStep
<1>9. QueueInv'
  BY <1>1, <1>2, <1>6, <1>7, AppendStep DEF v
<1>10. ReplyInv'
  BY <1>2, ReplyKeeps DEF RecvOneByOne
<1>11. \A u \in threads : u # t => turn'[u] = turn[u]
  BY <1>3 DEF Turns
<1>12. BufInv'
  BY <1>1, <1>2, <1>11, BufKeeps DEF RecvOneByOne, OfType, TurnInv
<1>13. FileInv'
  BY <1>1, <1>2, <1>11, FileKeeps DEF RecvOneByOne, OfType
<1> QED BY <1>3, <1>8, <1>9, <1>10, <1>12, <1>13 DEF IInv

LEMMA GetReplyStep ==
  ASSUME GivenInv, NEW t \in OfType("send", threads), NEW pending, NEW owed \in Seq(Nodes),
         owed # <<>>, UNCHANGED given, turn' \in [threads -> Nat],
         ReplyInv, t \in DOMAIN cmds,
         OnTheWay(redis, [cmds EXCEPT ![t] = pending], turn'),
         GetReply(t, pending, owed)
  PROVE  RedisInv' /\ replies' \in [OfType("send", threads) -> Seq(Nodes)]
<1> DEFINE n == Head(owed)
           mid == [cmds EXCEPT ![t] = pending]
<1>1. n \in Nodes /\ Tail(owed) \in Seq(Nodes)
  OBVIOUS
<1>2. replies' \in [OfType("send", threads) -> Seq(Nodes)]
  BY <1>1 DEF GetReply, ReplyInv
<1>3. mid[t] = pending
  OBVIOUS
<1>4. OnTheWay(redis', cmds', turn')
  <2>1. CASE Flush(t, n, pending)
    <3>1. redis' = [redis EXCEPT ![n] = [v \in Vertices |-> @[v] \o mid[t][n][v]]]
      BY <1>3, <2>1 DEF Flush
    <3>2. cmds' = [mid EXCEPT ![t] = [mid[t] EXCEPT ![n] = [v \in Vertices |-> <<>>]]]
      BY <1>3, <2>1 DEF Flush
    <3>3. OnTheWay(redis, mid, turn')
      OBVIOUS
    <3> HIDE DEF mid, n
    <3>4. OnTheWay([redis EXCEPT ![n] = [v \in Vertices |-> @[v] \o mid[t][n][v]]],
                   [mid EXCEPT ![t] = [mid[t] EXCEPT ![n] = [v \in Vertices |-> <<>>]]],
                   turn')
      BY <1>1, <3>3, Flushed
    <3> QED BY <3>1, <3>2, <3>4
  <2>2. CASE cmds' = mid /\ UNCHANGED redis
    BY <2>2
  <2> QED BY <2>1, <2>2 DEF GetReply
<1> QED BY <1>2, <1>4, RedisStep

LEMMA SendOneByOneStep ==
  ASSUME IInv, NEW n \in running, NEW t \in ThreadsOf(n), SendOneByOne(t)
  PROVE  IInv'
<1> DEFINE v == Item(t)
           q == queue[n][CacheKey(v)]
           to == SetToSeq(SendTo(color, v))
           pending == [m \in Nodes |-> IF m \in SendTo(color, v)
                                         THEN [cmds[t][m] EXCEPT ![v] = Append(@, Head(q))]
                                         ELSE cmds[t][m]]
           owed == replies[t] \o to
           mid == [cmds EXCEPT ![t] = pending]
<1>1. TurnOf(n, t) /\ t.type = "send"
  BY DEF SendOneByOne, TurnOf
<1>2. GivenInv /\ TurnInv /\ QueueInv /\ RedisInv /\ ReplyInv /\ BufInv /\ FileInv
  BY DEF IInv
<1>3. /\ TurnInv' /\ GivenInv' /\ Turns(turn, t, turn') /\ n = t.node /\ t \in threads
      /\ Pos(t) \in Positions(t) /\ Pos(t) = PosIn(turn, t) /\ Pkt(t) = PktIn(turn, t)
      /\ UNCHANGED given
  BY <1>1, <1>2, TurnStep
<1>4. t \in OfType("send", threads) /\ Sends(t, Pos(t), v)
  BY <1>1, <1>3 DEF Sends, Item, OfType
<1>5. /\ v \in Vertices /\ v \in ToSet(t.list) /\ SendTo(color, v) # {} /\ SendTo(color, v) \subseteq Nodes
      /\ TakesAt(t, Pos(t), CacheKey(v)) /\ VertexOf(CacheKey(v)) = v
      /\ \A key : ~PutsAt(t, Pos(t), key)
  BY <1>2, <1>3, <1>4, SendIs
<1>6. /\ q # <<>>
      /\ queue' = [queue EXCEPT ![n][CacheKey(v)] = Tail(@)]
      /\ count' = [count EXCEPT ![t] = @ + Len(to)]
      /\ IF count'[t] > SendWindow
           THEN GetReply(t, pending, owed)
           ELSE /\ cmds' = mid
                /\ replies' = [replies EXCEPT ![t] = owed]
                /\ UNCHANGED redis
      /\ UNCHANGED <<given, running, buf, failed, file>>
  BY <1>3 DEF SendOneByOne
<1>7. /\ QueueInv' /\ Head(q) = Value(v, Pkt(t)) /\ Head(q) \in Packet
  <2>1. q # <<>> /\ queue' = [queue EXCEPT ![n][CacheKey(v)] = Tail(@)]
    BY <1>6
  <2> HIDE DEF v
  <2>2. /\ QueueInv' /\ Head(q) = Value(VertexOf(CacheKey(v)), Pkt(t)) /\ Head(q) \in Packet
    BY ONLY <1>1, <1>2, <1>5, <2>1, PopStep
  <2> QED BY ONLY <1>5, <2>2
<1>8. to \in Seq(Nodes) /\ Len(to) \in Nat \ {0}
  BY <1>2, <1>5, Receivers
<1>9. /\ count' \in [OfType("send", threads) -> Nat]
      /\ owed \in Seq(Nodes) /\ owed # <<>>
      /\ replies \in [OfType("send", threads) -> Seq(Nodes)]
  <2> HIDE DEF to, pending
  <2>1. replies[t] \in Seq(Nodes) /\ count[t] \in Nat
    BY <1>2, <1>4 DEF ReplyInv
  <2>2. owed \in Seq(Nodes) /\ Len(owed) = Len(replies[t]) + Len(to)
    BY <1>8, <2>1
  <2>3. owed # <<>>
    BY <1>8, <2>1, <2>2
  <2>4. count' \in [OfType("send", threads) -> Nat]
    <3>1. count[t] + Len(to) \in Nat
      BY <1>8, <2>1
    <3>2. count' = [count EXCEPT ![t] = count[t] + Len(to)]
      BY <1>6
    <3> QED BY <1>2, <3>1, <3>2 DEF ReplyInv
  <2> QED BY <1>2, <2>2, <2>3, <2>4 DEF ReplyInv
<1>10. OnTheWay(redis, mid, turn')
  <2> DEFINE pkt == Value(v, Pkt(t))
  <2>1. /\ cmds \in [OfType("send", threads) -> [Nodes -> [Vertices -> Seq(Packet)]]]
        /\ pkt \in Packet /\ Head(q) = pkt
    BY <1>2, <1>7 DEF RedisInv, OnTheWay
  <2> HIDE DEF pkt, q, v
  <2>2. \A m \in Nodes, w \in Vertices :
          cmds[t][m] \in [Vertices -> Seq(Packet)] /\ cmds[t][m][w] \in Seq(Packet)
    BY <1>4, <2>1
  <2>3. \A m \in Nodes : [cmds[t][m] EXCEPT ![v] = Append(@, Head(q))] \in [Vertices -> Seq(Packet)]
    <3> TAKE m \in Nodes
    <3>1. Append(cmds[t][m][v], Head(q)) \in Seq(Packet)
      BY <1>5, <2>1, <2>2
    <3> QED BY <1>5, <2>2, <3>1
  <2>4. pending \in [Nodes -> [Vertices -> Seq(Packet)]]
    BY <2>2, <2>3
  <2>5. \A m \in Nodes, w \in Vertices :
          pending[m][w] = IF w = v /\ m \in SendTo(color, v) THEN Append(cmds[t][m][w], pkt)
                                                             ELSE cmds[t][m][w]
    BY <1>5, <2>1, <2>2
  <2> HIDE DEF pending
  <2>6. /\ mid \in [OfType("send", threads) -> [Nodes -> [Vertices -> Seq(Packet)]]]
        /\ \A s \in OfType("send", threads) : mid[s] = IF s = t THEN pending ELSE cmds[s]
    BY <1>4, <2>1, <2>4
  <2> HIDE DEF mid
  <2>7. ASSUME NEW s \in OfType("send", threads), NEW m \in Nodes, NEW w \in Vertices
        PROVE  mid[s][m][w] = IF s = t /\ w = v /\ m \in SendTo(color, v)
                                THEN Append(cmds[s][m][w], Value(v, PktIn(turn, t)))
                                ELSE cmds[s][m][w]
    BY ONLY <1>3, <2>5, <2>6 DEF pkt
  <2>8. OnTheWay(redis, cmds, turn) /\ Sends(t, PosIn(turn, t), v)
    BY <1>2, <1>3, <1>4 DEF RedisInv
  <2> QED BY ONLY <1>1, <1>2, <1>3, <2>6, <2>7, <2>8, Issued
<1>11. RedisInv' /\ replies' \in [OfType("send", threads) -> Seq(Nodes)]
  <2> HIDE DEF owed, pending
  <2>1. turn' \in [threads -> Nat] /\ t \in DOMAIN cmds
    BY <1>2, <1>3, <1>4, DealtNext DEF RedisInv, OnTheWay
  <2>2. CASE count'[t] > SendWindow
    BY <1>2, <1>3, <1>4, <1>6, <1>9, <1>10, <2>1, <2>2, GetReplyStep
  <2>3. CASE ~(count'[t] > SendWindow)
    <3>1. cmds' = mid /\ replies' = [replies EXCEPT ![t] = owed] /\ redis' = redis
      BY <1>6, <2>3
    <3> HIDE DEF mid
    <3>2. RedisInv'
      BY <1>3, <1>10, <3>1, RedisStep
    <3> QED BY <1>9, <3>1, <3>2
  <2> QED BY <2>2, <2>3
<1>12. ReplyInv'
  <2>1. OfType("send", threads)' = OfType("send", threads)
    BY <1>6 DEF OfType, given
  <2> QED BY <1>9, <1>11, <2>1 DEF ReplyInv
<1>13. \A u \in threads : u # t => turn'[u] = turn[u]
  BY <1>3 DEF Turns
<1>14. BufInv'
  BY <1>1, <1>2, <1>6, <1>13, BufKeeps DEF OfType, TurnInv
<1>15. FileInv'
  BY <1>1, <1>2, <1>6, <1>13, FileKeeps DEF OfType
<1> QED BY <1>3, <1>7, <1>11, <1>12, <1>14, <1>15 DEF IInv

\* The invariant when no turn is made and no queue changes.
LEMMA NoTurn ==
  ASSUME IInv, UNCHANGED <<given, running, queue, turn, failed>>
  PROVE  /\ GivenInv' /\ TurnInv' /\ QueueInv'
<1>1. GivenInv /\ TurnInv /\ QueueInv
  BY DEF IInv
<1>2. UNCHANGED given /\ running' = running /\ queue' = queue /\ turn' = turn /\ failed' = failed
  OBVIOUS
<1>3. /\ threads' = threads /\ GivenInv'
      /\ \A m : Keys(m)' = Keys(m)
      /\ \A t : PerPacket(t)' = PerPacket(t)
      /\ QueueHolds(running, queue, turn)' <=> QueueHolds(running', queue', turn')
  BY <1>1, <1>2, Frozen
<1>4. OfType("read", threads)' = OfType("read", threads)
  BY <1>3 DEF OfType
<1>5. TurnInv'
  BY <1>1, <1>2, <1>3, <1>4 DEF TurnInv
<1>6. QueueInv'
  BY <1>1, <1>2, <1>3 DEF QueueInv
<1> QED BY <1>3, <1>5, <1>6

LEMMA ReadReplyStep ==
  ASSUME IInv, NEW n \in running, NEW t \in ThreadsOf(n), ReadReply(t)
  PROVE  IInv'
<1>1. GivenInv /\ TurnInv /\ QueueInv /\ RedisInv /\ ReplyInv /\ BufInv /\ FileInv
  BY DEF IInv
<1>2. /\ t.type = "send" /\ replies[t] # <<>> /\ GetReply(t, cmds[t], replies[t])
      /\ UNCHANGED <<given, running, queue, turn, buf, count, failed, file>>
  BY DEF ReadReply
<1>3. t \in OfType("send", threads) /\ replies[t] \in Seq(Nodes)
  BY <1>1, <1>2 DEF ThreadsOf, OfType, ReplyInv
<1>4. /\ t \in DOMAIN cmds /\ [cmds EXCEPT ![t] = cmds[t]] = cmds
      /\ OnTheWay(redis, cmds, turn') /\ turn' \in [threads -> Nat]
  BY <1>1, <1>2, <1>3 DEF RedisInv, OnTheWay, TurnInv
<1>5. OnTheWay(redis, [cmds EXCEPT ![t] = cmds[t]], turn')
  BY <1>4
<1>6. RedisInv' /\ replies' \in [OfType("send", threads) -> Seq(Nodes)]
  BY <1>1, <1>2, <1>3, <1>4, <1>5, GetReplyStep
<1>7. ReplyInv'
  <2>1. OfType("send", threads)' = OfType("send", threads)
    BY <1>2 DEF OfType, given
  <2> QED BY <1>1, <1>2, <1>6, <2>1 DEF ReplyInv
<1>8. GivenInv' /\ TurnInv' /\ QueueInv'
  BY <1>2, NoTurn
<1>9. BufInv' /\ FileInv'
  BY <1>1, <1>2, BufKeeps, FileKeeps DEF TurnInv
<1> QED BY <1>6, <1>7, <1>8, <1>9 DEF IInv

LEMMA ReadErrorStep ==
  ASSUME IInv, NEW n \in running, NEW t \in ThreadsOf(n), ReadError(t)
  PROVE  IInv'
<1>1. GivenInv /\ TurnInv /\ QueueInv /\ RedisInv /\ ReplyInv /\ BufInv /\ FileInv
  BY DEF IInv
<1>2. /\ t.type = "read" /\ turn[t] < PktNum * PerPacket(t) /\ t \in threads
      /\ failed' = failed \cup {t}
      /\ UNCHANGED <<given, running, queue, redis, turn, buf, cmds, replies, count, file>>
  BY DEF ReadError, Turning, ThreadsOf
<1>3. UNCHANGED given /\ running' = running /\ queue' = queue /\ turn' = turn
  BY <1>2
<1>4. /\ threads' = threads /\ GivenInv'
      /\ \A m : Keys(m)' = Keys(m)
      /\ \A u : PerPacket(u)' = PerPacket(u)
      /\ QueueHolds(running, queue, turn)' <=> QueueHolds(running', queue', turn')
  BY <1>1, <1>3, Frozen
<1>5. OfType("read", threads)' = OfType("read", threads)
  BY <1>4 DEF OfType
<1>6. TurnInv'
  <2>1. \A u \in failed' : u \in OfType("read", threads) /\ turn[u] < PktNum * PerPacket(u)
    BY <1>1, <1>2 DEF TurnInv, OfType
  <2>2. failed' \subseteq OfType("read", threads)
    BY <2>1
  <2> QED BY <1>1, <1>3, <1>4, <1>5, <2>1, <2>2 DEF TurnInv
<1>7. QueueInv'
  BY <1>1, <1>3, <1>4 DEF QueueInv
<1>8. RedisInv'
  <2>1. OnTheWay(redis', cmds', turn')
    BY <1>1, <1>2 DEF RedisInv
  <2> QED BY <1>3, <2>1, RedisStep
<1>9. ReplyInv' /\ BufInv' /\ FileInv'
  BY <1>1, <1>2, ReplyKeeps, BufKeeps, FileKeeps DEF TurnInv
<1> QED BY <1>4, <1>6, <1>7, <1>8, <1>9 DEF IInv

\* How a compute thread goes on from one of its turns to the next.
LEMMA ComputeTurn ==
  ASSUME GivenInv, TurnInv, NEW n, NEW t, TurnOf(n, t)
  PROVE  /\ Pos(t) < PerPacket(t) - 1 => Pos(t)' = Pos(t) + 1 /\ Pkt(t)' = Pkt(t)
         /\ Pos(t) = PerPacket(t) - 1 => Pos(t)' = 0
         /\ \A u \in threads : u # t => Pos(u)' = Pos(u) /\ Pkt(u)' = Pkt(u)
<1>1. /\ turn \in [threads -> Nat] /\ turn' = [turn EXCEPT ![t] = @ + 1] /\ t \in threads
      /\ UNCHANGED given
  BY DEF TurnInv, TurnOf, NextTurn, ThreadsOf
<1>2. /\ \A u : PerPacket(u)' = PerPacket(u)
      /\ PerPacket(t) \in Nat \ {0} /\ turn[t] \in Nat /\ turn'[t] = turn[t] + 1
  BY <1>1, Frozen, Threads
<1>3. /\ Pos(t) < PerPacket(t) - 1 => /\ (turn[t] + 1) \div PerPacket(t) = turn[t] \div PerPacket(t)
                                      /\ (turn[t] + 1) % PerPacket(t) = Pos(t) + 1
      /\ Pos(t) = PerPacket(t) - 1 => (turn[t] + 1) % PerPacket(t) = 0
  BY <1>2, DivModNext DEF Pos
<1>4. Pos(t)' = (turn[t] + 1) % PerPacket(t) /\ Pkt(t)' = (turn[t] + 1) \div PerPacket(t)
  BY <1>2 DEF Pos, Pkt
<1>5. \A u \in threads : u # t => turn'[u] = turn[u]
  BY <1>1
<1>6. \A u \in threads : u # t => Pos(u)' = Pos(u) /\ Pkt(u)' = Pkt(u)
  BY <1>2, <1>5 DEF Pos, Pkt
<1> QED BY <1>3, <1>4, <1>6 DEF Pkt

LEMMA ComputeAt ==
  ASSUME GivenInv, NEW t \in threads, t.type = "compute", Pos(t) \in Positions(t)
  PROVE  /\ Skip(t) = Len(inputs[t]) /\ Len(inputs[t]) \in Nat /\ Pos(t) \in Nat
         /\ PerPacket(t) = Skip(t) + Len(t.list) /\ Len(t.list) \in Nat \ {0}
         /\ Lists(inputs[t], Used(t.list)) /\ t.list \in Seq(Vertices)
         /\ Pos(t) <= PerPacket(t) - 1
         /\ Pos(t) < Len(inputs[t]) => Pos(t) < PerPacket(t) - 1
         /\ Pos(t) = PerPacket(t) - 1 <=> Pos(t) - Len(inputs[t]) + 1 = Len(t.list)
         /\ Pos(t) = PerPacket(t) - 1 \/ Pos(t) < PerPacket(t) - 1
         /\ t \in OfType("compute", threads)
<1>1. t.list \in Seq(Vertices) /\ t.list # <<>>
  BY Threads DEF TaskFacts
<1>2. Len(t.list) \in Nat \ {0}
  BY <1>1
<1>3. /\ Skip(t) = Len(inputs[t]) /\ Skip(t) \in Nat /\ PerPacket(t) \in Nat
      /\ PerPacket(t) = Skip(t) + Len(t.list) /\ Lists(inputs[t], Used(t.list))
  BY Threads
<1>4. Pos(t) \in Nat /\ Pos(t) <= PerPacket(t) - 1
  <2>1. Pos(t) \in 0 .. PerPacket(t) - 1
    BY DEF Positions
  <2>2. PerPacket(t) \in Nat
    BY <1>3
  <2> QED BY ONLY <2>1, <2>2
<1>5. /\ Pos(t) < Len(inputs[t]) => Pos(t) < PerPacket(t) - 1
      /\ Pos(t) = PerPacket(t) - 1 <=> Pos(t) - Len(inputs[t]) + 1 = Len(t.list)
      /\ Pos(t) = PerPacket(t) - 1 \/ Pos(t) < PerPacket(t) - 1
  <2> DEFINE a == Len(inputs[t])
             b == Len(t.list)
             c == PerPacket(t)
             p == Pos(t)
  <2>1. a \in Nat /\ b \in Nat \ {0} /\ c \in Nat /\ p \in Nat /\ c = a + b /\ p <= c - 1
    BY <1>2, <1>3, <1>4
  <2> HIDE DEF a, b, c, p
  <2>2. (p < a => p < c - 1) /\ (p = c - 1 <=> p - a + 1 = b) /\ (p = c - 1 \/ p < c - 1)
    BY ONLY <2>1
  <2> QED BY ONLY <2>2 DEF a, b, c, p
<1> QED BY <1>1, <1>2, <1>3, <1>4, <1>5 DEF OfType

LEMMA PopInputStep ==
  ASSUME IInv, NEW n \in running, NEW t \in ThreadsOf(n), PopInput(t)
  PROVE  IInv'
<1> DEFINE v == inputs[t][Pos(t) + 1]
           q == queue[n][v]
<1>1. TurnOf(n, t) /\ t.type = "compute" /\ Pos(t) < Len(inputs[t])
  BY DEF PopInput, TurnOf
<1>2. GivenInv /\ TurnInv /\ QueueInv /\ RedisInv /\ ReplyInv /\ BufInv /\ FileInv
  BY DEF IInv
<1>3. /\ TurnInv' /\ GivenInv' /\ Turns(turn, t, turn') /\ n = t.node /\ t \in threads
      /\ Pos(t) \in Positions(t) /\ UNCHANGED given
  BY <1>1, <1>2, TurnStep
<1>4. /\ q # <<>> /\ queue' = [queue EXCEPT ![n][v] = Tail(@)]
      /\ buf' = [buf EXCEPT ![t] = Append(@, Head(q))]
      /\ UNCHANGED <<given, running, redis, cmds, replies, count, failed, file>>
  BY <1>3 DEF PopInput
<1>5. /\ Skip(t) = Len(inputs[t]) /\ Len(inputs[t]) \in Nat /\ Pos(t) \in Nat
      /\ PerPacket(t) = Skip(t) + Len(t.list) /\ Len(t.list) \in Nat \ {0}
      /\ Lists(inputs[t], Used(t.list)) /\ t.list \in Seq(Vertices)
      /\ t \in OfType("compute", threads)
      /\ Pos(t) < PerPacket(t) - 1
  BY <1>1, <1>2, <1>3, ComputeAt
<1>6. /\ TakesAt(t, Pos(t), v) /\ \A key : ~PutsAt(t, Pos(t), key)
      /\ v \in Vertices /\ VertexOf(v) = v
  <2>1. TakesAt(t, Pos(t), v)
    BY <1>1, <1>3 DEF TakesAt, Takes
  <2>2. ~(Pos(t) >= Skip(t))
    BY <1>1, <1>5
  <2>3. \A key : ~PutsAt(t, Pos(t), key)
    BY <2>2 DEF PutsAt
  <2>4. v \in Vertices /\ VertexOf(v) = v
    <3>1. VertexOf(v) = v /\ VertexOf(v) \in Vertices
      BY <1>1, <1>2, <1>3, <2>1, TakesWhat
    <3> QED BY <3>1
  <2> QED BY <2>1, <2>3, <2>4
<1> HIDE DEF v
<1>7. QueueInv' /\ Head(q) = Value(v, Pkt(t)) /\ Head(q) \in Packet
  BY ONLY <1>1, <1>2, <1>4, <1>6, PopStep
<1>8. BufInv'
  <2> DEFINE new == Append(buf[t], Head(q))
  <2>1. /\ buf \in [OfType("compute", threads) -> Seq(Packet)]
        /\ t \in OfType("compute", threads)
        /\ OfType("compute", threads)' = OfType("compute", threads)
        /\ inputs' = inputs
    BY <1>1, <1>2, <1>3 DEF BufInv, OfType, given
  <2>2. buf[t] \in Seq(Packet) /\ Len(buf[t]) = Pos(t)
        /\ \A i \in 1 .. Len(buf[t]) : buf[t][i] = Value(inputs[t][i], Pkt(t))
    <3>1. Pos(t) < Len(inputs[t])
      BY <1>1
    <3> QED BY ONLY <1>2, <2>1, <3>1 DEF BufInv
  <2>3. Pos(t)' = Pos(t) + 1 /\ Pkt(t)' = Pkt(t)
    BY <1>1, <1>2, <1>5, ComputeTurn
  <2>4. /\ new \in Seq(Packet) /\ Len(new) = Pos(t) + 1
        /\ \A i \in 1 .. Len(new) : new[i] = Value(inputs[t][i], Pkt(t))
    <3> DEFINE x == Head(q)
    <3>1. x \in Packet /\ x = Value(inputs[t][Pos(t) + 1], Pkt(t))
      BY <1>7 DEF v
    <3> HIDE DEF x
    <3>2. /\ Append(buf[t], x) \in Seq(Packet) /\ Len(Append(buf[t], x)) = Pos(t) + 1
          /\ \A i \in 1 .. Len(buf[t]) : Append(buf[t], x)[i] = buf[t][i]
          /\ Append(buf[t], x)[Pos(t) + 1] = x
      BY <2>2, <3>1
    <3>3. \A i \in 1 .. Pos(t) + 1 : i \in 1 .. Pos(t) \/ i = Pos(t) + 1
      BY <1>5
    <3>4. \A i \in 1 .. Pos(t) + 1 : Append(buf[t], x)[i] = Value(inputs[t][i], Pkt(t))
      BY <2>2, <3>1, <3>2, <3>3
    <3> QED BY <3>2, <3>4 DEF x
  <2> HIDE DEF new
  <2>5. buf' \in [OfType("compute", threads) -> Seq(Packet)] /\ buf'[t] = new
        /\ \A u \in OfType("compute", threads) : u # t => buf'[u] = buf[u]
    BY <1>4, <2>1, <2>4 DEF new
  <2>6. /\ Len(buf'[t]) = IF Pos(t)' < Len(inputs[t]) THEN Pos(t)' ELSE Len(inputs[t])
        /\ \A i \in 1 .. Len(buf'[t]) : buf'[t][i] = Value(inputs[t][i], Pkt(t)')
    BY <1>1, <1>5, <2>3, <2>4, <2>5
  <2>7. ASSUME NEW u \in OfType("compute", threads), u # t
        PROVE  /\ Len(buf'[u]) = IF Pos(u)' < Len(inputs[u]) THEN Pos(u)' ELSE Len(inputs[u])
               /\ \A i \in 1 .. Len(buf'[u]) : buf'[u][i] = Value(inputs[u][i], Pkt(u)')
    <3>1. Pos(u)' = Pos(u) /\ Pkt(u)' = Pkt(u)
      BY <1>1, <1>2, <2>7, ComputeTurn DEF OfType
    <3> QED BY <1>2, <2>5, <2>7, <3>1 DEF BufInv
  <2> QED BY <2>1, <2>5, <2>6, <2>7 DEF BufInv
<1>9. RedisInv' /\ ReplyInv'
  BY <1>1, <1>2, <1>4, RedisKeeps, ReplyKeeps
<1>10. \A u \in threads : u # t => turn'[u] = turn[u]
  BY <1>3 DEF Turns
<1>11. FileInv'
  BY <1>1, <1>2, <1>4, <1>10, FileKeeps DEF OfType
<1> QED BY <1>3, <1>7, <1>8, <1>9, <1>11 DEF IInv

LEMMA PushOutputStep ==
  ASSUME IInv, NEW n \in running, NEW t \in ThreadsOf(n), PushOutput(t)
  PROVE  IInv'
<1> DEFINE v == ItemAt(t, Pos(t))
           in == [c \in ToSet(inputs[t]) |->
                    buf[t][CHOOSE k \in DOMAIN buf[t] : inputs[t][k] = c]]
<1>1. TurnOf(n, t) /\ t.type = "compute" /\ Pos(t) >= Len(inputs[t])
  BY DEF PushOutput, TurnOf
<1>2. GivenInv /\ TurnInv /\ QueueInv /\ RedisInv /\ ReplyInv /\ BufInv /\ FileInv
  BY DEF IInv
<1>3. /\ TurnInv' /\ GivenInv' /\ Turns(turn, t, turn') /\ n = t.node /\ t \in threads
      /\ Pos(t) \in Positions(t) /\ Pkt(t) \in 0 .. PktNum - 1 /\ UNCHANGED given
  BY <1>1, <1>2, TurnStep
<1>4. /\ Skip(t) = Len(inputs[t]) /\ Len(inputs[t]) \in Nat /\ Pos(t) \in Nat
      /\ PerPacket(t) = Skip(t) + Len(t.list) /\ Len(t.list) \in Nat
      /\ Lists(inputs[t], Used(t.list)) /\ t.list \in Seq(Vertices)
      /\ Pos(t) <= PerPacket(t) - 1 /\ PerPacket(t) \in Int
      /\ Pos(t) = PerPacket(t) - 1 <=> Pos(t) - Len(inputs[t]) + 1 = Len(t.list)
  <2>1. PerPacket(t) \in Nat
    BY <1>2, <1>3, Threads
  <2> QED BY <1>1, <1>2, <1>3, <2>1, ComputeAt
<1>5. Pos(t) >= Skip(t) /\ Pos(t) - Len(inputs[t]) + 1 = Pos(t) - Skip(t) + 1
  BY <1>1, <1>4
<1>6. /\ v = t.list[Pos(t) - Len(inputs[t]) + 1]
      /\ v \in Vertices /\ v \in ToSet(t.list) /\ ~IsLeaf(v)
  BY <1>1, <1>2, <1>3, <1>5, ItemIs DEF ItemAt, Listed
<1>7. /\ queue' = [queue EXCEPT ![n] = Push(@, v, Multi(v, in))]
      /\ buf' = IF Pos(t) - Len(inputs[t]) + 1 = Len(t.list) THEN [buf EXCEPT ![t] = <<>>] ELSE buf
      /\ UNCHANGED <<given, running, redis, cmds, replies, count, failed, file>>
  BY <1>3, <1>6 DEF PushOutput
<1>8. /\ t \in OfType("compute", threads)
      /\ buf[t] \in Seq(Packet) /\ Len(buf[t]) = Len(inputs[t])
      /\ \A i \in 1 .. Len(buf[t]) : buf[t][i] = Value(inputs[t][i], Pkt(t))
  <2>1. t \in OfType("compute", threads)
    BY <1>1, <1>3 DEF OfType
  <2>2. ~(Pos(t) < Len(inputs[t]))
    BY <1>1, <1>4
  <2> QED BY <1>2, <2>1, <2>2 DEF BufInv
<1>9. Multi(v, in) = Value(v, Pkt(t))
  <2>1. ASSUME NEW c \in ToSet(Src[v])  PROVE in[c] = Value(c, Pkt(t))
    <3>1. c \in Used(t.list)
      BY <1>6, <2>1 DEF Used
    <3>2. PICK k \in 1 .. Len(inputs[t]) : inputs[t][k] = c
      BY <1>4, <3>1 DEF Lists
    <3>3. DOMAIN buf[t] = 1 .. Len(inputs[t]) /\ c \in ToSet(inputs[t])
      <4>1. DOMAIN inputs[t] = 1 .. Len(inputs[t])
        BY <1>4 DEF Lists
      <4> QED BY <1>8, <3>2, <4>1 DEF ToSet
    <3> DEFINE i == CHOOSE j \in DOMAIN buf[t] : inputs[t][j] = c
    <3>4. i \in 1 .. Len(inputs[t]) /\ inputs[t][i] = c
      BY <3>2, <3>3
    <3>5. in[c] = buf[t][i]
      BY <3>3
    <3> HIDE DEF i
    <3> QED BY <1>8, <3>4, <3>5
  <2> HIDE DEF in, v
  <2> QED BY <1>3, <1>6, <2>1, Computes
<1>10. QueueInv'
  <2>1. queue' = [queue EXCEPT ![n] = Push(@, ItemAt(t, Pos(t)), Value(ItemAt(t, Pos(t)), Pkt(t)))]
    BY <1>7, <1>9
  <2> QED BY <1>1, <1>2, <1>5, <2>1, PushStep
<1>11. BufInv'
  <2>1. /\ buf \in [OfType("compute", threads) -> Seq(Packet)]
        /\ OfType("compute", threads)' = OfType("compute", threads)
        /\ inputs' = inputs
    BY <1>2, <1>3 DEF BufInv, OfType, given
  <2>2. /\ buf' \in [OfType("compute", threads) -> Seq(Packet)]
        /\ \A u \in OfType("compute", threads) : u # t => buf'[u] = buf[u]
    <3>1. buf' = [buf EXCEPT ![t] = <<>>] \/ buf' = buf
      BY <1>7
    <3>2. <<>> \in Seq(Packet)
      OBVIOUS
    <3> QED BY ONLY <1>8, <2>1, <3>1, <3>2
  <2>3. ASSUME Pos(t) = PerPacket(t) - 1
        PROVE  /\ Len(buf'[t]) = IF Pos(t)' < Len(inputs[t]) THEN Pos(t)' ELSE Len(inputs[t])
               /\ \A i \in 1 .. Len(buf'[t]) : buf'[t][i] = Value(inputs[t][i], Pkt(t)')
    <3>1. Pos(t) - Len(inputs[t]) + 1 = Len(t.list)
      BY <1>4, <2>3
    <3>2. buf'[t] = <<>> /\ Pos(t)' = 0
      BY <1>1, <1>2, <1>7, <1>8, <2>1, <2>3, <3>1, ComputeTurn
    <3> QED BY <1>4, <3>2
  <2>4. ASSUME Pos(t) < PerPacket(t) - 1
        PROVE  /\ Len(buf'[t]) = IF Pos(t)' < Len(inputs[t]) THEN Pos(t)' ELSE Len(inputs[t])
               /\ \A i \in 1 .. Len(buf'[t]) : buf'[t][i] = Value(inputs[t][i], Pkt(t)')
    <3>1. Pos(t) - Len(inputs[t]) + 1 # Len(t.list)
      <4> DEFINE p == Pos(t)
                 c == PerPacket(t)
      <4>1. p \in Nat /\ c \in Int /\ p < c - 1
        BY <1>4, <2>4
      <4> HIDE DEF p, c
      <4>2. p # c - 1
        BY ONLY <4>1
      <4>3. Pos(t) # PerPacket(t) - 1
        BY ONLY <4>2 DEF p, c
      <4> QED BY ONLY <1>4, <4>3
    <3>2. buf'[t] = buf[t] /\ Pos(t)' = Pos(t) + 1 /\ Pkt(t)' = Pkt(t)
      BY <1>1, <1>2, <1>7, <2>4, <3>1, ComputeTurn
    <3>3. ~(Pos(t)' < Len(inputs[t]))
      <4> DEFINE a == Len(inputs[t])
                 p == Pos(t)
                 r == Pos(t)'
      <4>1. a \in Nat /\ p \in Nat /\ p >= a /\ r = p + 1
        BY <1>1, <1>4, <3>2
      <4> HIDE DEF a, p, r
      <4>2. ~(r < a)
        BY ONLY <4>1
      <4> QED BY ONLY <4>2 DEF a, r
    <3> QED BY <1>8, <3>2, <3>3
  <2>5. Pos(t) = PerPacket(t) - 1 \/ Pos(t) < PerPacket(t) - 1
    BY <1>1, <1>2, <1>3, ComputeAt
  <2>6. ASSUME NEW u \in OfType("compute", threads), u # t
        PROVE  /\ Len(buf'[u]) = IF Pos(u)' < Len(inputs[u]) THEN Pos(u)' ELSE Len(inputs[u])
               /\ \A i \in 1 .. Len(buf'[u]) : buf'[u][i] = Value(inputs[u][i], Pkt(u)')
    <3>1. Pos(u)' = Pos(u) /\ Pkt(u)' = Pkt(u)
      BY <1>1, <1>2, <2>6, ComputeTurn DEF OfType
    <3> QED BY <1>2, <2>2, <2>6, <3>1 DEF BufInv
  <2> QED BY <2>1, <2>2, <2>3, <2>4, <2>5, <2>6 DEF BufInv
<1>12. RedisInv' /\ ReplyInv'
  BY <1>1, <1>2, <1>7, RedisKeeps, ReplyKeeps
<1>13. \A u \in threads : u # t => turn'[u] = turn[u]
  BY <1>3 DEF Turns
<1>14. FileInv'
  BY <1>1, <1>2, <1>7, <1>13, FileKeeps DEF OfType
<1> QED BY <1>3, <1>10, <1>11, <1>12, <1>14 DEF IInv

\* One thread persists, at the node of the root.
LEMMA OnePersists ==
  ASSUME GivenInv, NEW t \in OfType("persist", threads), NEW u \in OfType("persist", threads)
  PROVE  t = u
<1>1. ASSUME NEW w \in OfType("persist", threads)
      PROVE  w \in threads /\ w.type = "persist" /\ w.node = color[REQUESTOR] /\ w.at = LastLevel
  <2>1. w \in threads /\ w.type = "persist" /\ TaskFacts(color, w) /\ w.at = LastLevel
    BY Threads DEF OfType
  <2>2. PICK v \in Vertices : v \in ToSet(w.list)
    <3>1. w.list \in Seq(Vertices) /\ w.list # <<>>
      BY <2>1 DEF TaskFacts
    <3>2. 1 \in DOMAIN w.list /\ w.list[1] \in Vertices
      BY <3>1
    <3> QED BY <3>2 DEF ToSet
  <2>3. v \in Listed(color, "persist", w.node)
    BY <2>1, <2>2 DEF TaskFacts
  <2> QED BY <2>1, <2>3 DEF Listed
<1> QED BY <1>1, SameTask

LEMMA PersistStep ==
  ASSUME IInv, NEW n \in running, NEW t \in ThreadsOf(n), Persist(t)
  PROVE  IInv'
<1> DEFINE v == Item(t)
           q == queue[n][v]
<1>1. TurnOf(n, t) /\ t.type = "persist"
  BY DEF Persist, TurnOf
<1>2. GivenInv /\ TurnInv /\ QueueInv /\ RedisInv /\ ReplyInv /\ BufInv /\ FileInv
  BY DEF IInv
<1>3. /\ TurnInv' /\ GivenInv' /\ Turns(turn, t, turn') /\ n = t.node /\ t \in threads
      /\ Pos(t) \in Positions(t) /\ ItemAt(t, Pos(t)) = v /\ Pos(t) >= Skip(t)
      /\ UNCHANGED given
  BY <1>1, <1>2, TurnStep
<1>4. /\ q # <<>> /\ queue' = [queue EXCEPT ![n][v] = Tail(@)]
      /\ file' = Append(file, Head(q))
      /\ UNCHANGED <<given, running, redis, buf, cmds, replies, count, failed>>
  BY <1>3 DEF Persist
<1>5. v = t.list[Pos(t) + 1] /\ v \in Vertices /\ VertexOf(v) = v
  <2>1. v \in Vertices
    BY <1>2, <1>3, ItemIs
  <2> QED BY <2>1, Keyed DEF Item
<1>6. TakesAt(t, Pos(t), v) /\ \A key : ~PutsAt(t, Pos(t), key)
  BY <1>1, <1>3, <1>5 DEF TakesAt, PutsAt, Takes, Puts
<1> HIDE DEF v
<1>7. QueueInv' /\ Head(q) = Value(v, Pkt(t)) /\ Head(q) \in Packet
  <2>1. queue[n][v] # <<>> /\ queue' = [queue EXCEPT ![n][v] = Tail(@)]
    BY <1>4
  <2>2. /\ QueueInv'
        /\ Head(queue[n][v]) = Value(VertexOf(v), Pkt(t))
        /\ Head(queue[n][v]) \in Packet
    BY ONLY <1>1, <1>2, <1>6, <2>1, PopStep
  <2> QED BY <1>5, <2>2
<1>8. RedisInv' /\ ReplyInv'
  BY <1>1, <1>2, <1>4, RedisKeeps, ReplyKeeps
<1>9. \A u \in threads : u # t => turn'[u] = turn[u]
  BY <1>3 DEF Turns
<1>10. BufInv'
  <2>1. \A u \in OfType("compute", threads) : turn'[u] = turn[u]
    BY <1>1, <1>9 DEF OfType
  <2>2. turn \in [threads -> Nat] /\ UNCHANGED <<given, buf>>
    BY <1>2, <1>4 DEF TurnInv
  <2> QED BY <1>2, <2>1, <2>2, BufKeeps
<1>11. FileInv'
  <2> DEFINE k == turn[t]
  <2>1. t \in OfType("persist", threads)
    BY <1>1, <1>3 DEF OfType
  <2>2. k = Len(file) /\ k \in Nat /\ file \in Seq(Packet) /\ k < PktNum * PerPacket(t)
        /\ turn'[t] = k + 1
    BY <1>2, <1>3, <2>1 DEF FileInv, Turns
  <2>3. PerPacket(t) = ecw /\ Value(t.list[(k % ecw) + 1], k \div ecw) = LostData(k)
    BY <1>1, <1>2, <1>3, <2>2, Persists
  <2>4. Head(q) = LostData(k)
    BY <1>5, <1>7, <2>3 DEF Pos, Pkt
  <2>5. OfType("persist", threads)' = OfType("persist", threads)
    BY <1>3 DEF OfType, given
  <2>6. \A u \in OfType("persist", threads) : u = t
    BY <1>2, <2>1, OnePersists
  <2> HIDE DEF k, q
  <2>7. /\ file' \in Seq(Packet) /\ Len(file') = k + 1
        /\ \A i \in 1 .. Len(file) : file'[i] = file[i]
        /\ file'[k + 1] = LostData(k)
    BY <1>4, <1>7, <2>2, <2>4
  <2>8. k + 1 <= PktNum * ecw
    <3>1. PktNum * ecw \in Nat
      BY StripeRepairAssumption, TaskGenAssumption
    <3> QED BY <2>2, <2>3, <3>1
  <2>9. ASSUME NEW i \in 1 .. Len(file')  PROVE file'[i] = LostData(i - 1)
    <3>1. CASE i \in 1 .. Len(file)
      BY <1>2, <2>7, <3>1 DEF FileInv
    <3>2. CASE i = k + 1
      <4>1. i - 1 = k
        BY <2>2, <3>2
      <4> QED BY <2>7, <3>2, <4>1
    <3> QED BY <2>2, <2>7, <3>1, <3>2
  <2>10. \A off : LostData(off)' = LostData(off)
    BY DEF LostData, BlockData, Value
  <2> QED BY <2>2, <2>5, <2>6, <2>7, <2>8, <2>9, <2>10 DEF FileInv
<1> QED BY <1>3, <1>7, <1>8, <1>10, <1>11 DEF IInv

LEMMA StartStep ==
  ASSUME IInv, NEW n \in Nodes, Start(n)
  PROVE  IInv'
<1>1. GivenInv /\ TurnInv /\ QueueInv /\ RedisInv /\ ReplyInv /\ BufInv /\ FileInv
  BY DEF IInv
<1>2. /\ n \notin running /\ running' = running \cup {n}
      /\ queue' = [queue EXCEPT ![n] = [key \in Keys(n) |-> <<>>]]
      /\ UNCHANGED given /\ turn' = turn /\ failed' = failed
      /\ UNCHANGED <<given, redis, buf, cmds, replies, count, file>>
  BY DEF Start
<1>3. /\ threads' = threads /\ GivenInv'
      /\ \A m : Keys(m)' = Keys(m)
      /\ \A t : PerPacket(t)' = PerPacket(t)
      /\ QueueHolds(running, queue, turn)' <=> QueueHolds(running', queue', turn')
  BY <1>1, <1>2, Frozen
<1>4. OfType("read", threads)' = OfType("read", threads)
  BY <1>3 DEF OfType
<1>5. TurnInv'
  <2>1. running' \subseteq Nodes /\ running \subseteq running'
    BY <1>1, <1>2 DEF TurnInv
  <2> QED BY <1>1, <1>2, <1>3, <1>4, <2>1 DEF TurnInv
<1>6. /\ DOMAIN queue = Nodes /\ running \subseteq Nodes
      /\ queue'[n] = [key \in Keys(n) |-> <<>>]
      /\ \A m \in Nodes : m # n => queue'[m] = queue[m]
      /\ DOMAIN queue' = Nodes
  BY <1>1, <1>2 DEF QueueInv, TurnInv
<1>7. ASSUME NEW t \in ThreadsOf(n), NEW p \in Positions(t)  PROVE Dealt(turn, t, p) = 0
  <2>1. t \in threads /\ t.node = n
    BY DEF ThreadsOf
  <2>2. turn[t] = 0
    BY <1>1, <1>2, <2>1 DEF TurnInv
  <2>3. PerPacket(t) \in Nat \ {0} /\ p \in 0 .. PerPacket(t) - 1
    BY <1>1, <2>1, Threads DEF Positions
  <2> QED BY <2>2, <2>3, RoundsNext DEF Dealt
<1>8. QueueHolds(running', queue', turn')
  <2>1. ASSUME NEW t \in ThreadsOf(n), NEW u \in ThreadsOf(n), NEW p \in Positions(t),
               NEW q \in Positions(u), NEW key \in Keys(n)
        PROVE  Holds(queue'[n][key], VertexOf(key), Dealt(turn', u, q), Dealt(turn', t, p))
    <3>1. queue'[n][key] = <<>>
      BY <1>6
    <3>2. Dealt(turn', u, q) = 0 /\ Dealt(turn', t, p) = 0
      BY <1>2, <1>7
    <3>3. Holds(<<>>, VertexOf(key), 0, 0)
      BY HoldsNone
    <3> QED BY <3>1, <3>2, <3>3
  <2>2. \A m \in running : queue'[m] = queue[m]
    BY <1>2, <1>6
  <2>3. \A m \in running' : m = n \/ m \in running
    BY <1>2
  <2> QED BY <1>1, <1>2, <2>1, <2>2, <2>3 DEF QueueInv, QueueHolds
<1>9. QueueInv'
  <2>1. \A m \in running' : DOMAIN queue'[m] = Keys(m)
    BY <1>1, <1>2, <1>6 DEF QueueInv
  <2>2. \A m \in Nodes \ running' : queue'[m] = <<>>
    BY <1>1, <1>2, <1>6 DEF QueueInv
  <2> QED BY <1>3, <1>6, <1>8, <2>1, <2>2 DEF QueueInv
<1>10. RedisInv'
  <2>1. OnTheWay(redis', cmds', turn')
    BY <1>1, <1>2 DEF RedisInv
  <2> QED BY <1>2, <2>1, RedisStep
<1>11. ReplyInv' /\ BufInv' /\ FileInv'
  BY <1>1, <1>2, ReplyKeeps, BufKeeps, FileKeeps DEF TurnInv
<1> QED BY <1>3, <1>5, <1>9, <1>10, <1>11 DEF IInv

LEMMA StutterStep ==
  ASSUME IInv, UNCHANGED vars
  PROVE  IInv'
<1>1. /\ GivenInv /\ TurnInv /\ QueueInv /\ RedisInv /\ ReplyInv /\ BufInv /\ FileInv
      /\ UNCHANGED <<given, running, queue, redis, turn, buf, cmds, replies, count, failed, file>>
      /\ turn \in [threads -> Nat]
  BY DEF IInv, vars, TurnInv
<1>2. GivenInv' /\ TurnInv' /\ QueueInv'
  BY <1>1, NoTurn
<1>3. RedisInv'
  <2>1. OnTheWay(redis', cmds', turn')
    BY <1>1 DEF RedisInv
  <2> QED BY <1>1, <2>1, RedisStep
<1>4. ReplyInv' /\ BufInv' /\ FileInv'
  BY <1>1, ReplyKeeps, BufKeeps, FileKeeps
<1> QED BY <1>2, <1>3, <1>4 DEF IInv

LEMMA IInvStep ==
  ASSUME IInv, [Next]_vars
  PROVE  IInv'
<1>1. CASE UNCHANGED vars
  BY <1>1, StutterStep
<1>2. CASE Stop
  BY <1>2, StutterStep DEF Stop
<1>3. ASSUME NEW n \in Nodes, Start(n)  PROVE IInv'
  BY <1>3, StartStep
<1>4. ASSUME NEW n \in running, NEW t \in ThreadsOf(n), Thread(t)  PROVE IInv'
  BY <1>4, ReadRealBlockStep, ReadVirtBlockStep, SendOneByOneStep, ReadReplyStep,
     RecvOneByOneStep, PopInputStep, PushOutputStep, PersistStep DEF Thread
<1>5. ASSUME NEW n \in running, NEW t \in ThreadsOf(n), ReadError(t)  PROVE IInv'
  BY <1>5, ReadErrorStep
<1> QED BY <1>1, <1>2, <1>3, <1>4, <1>5 DEF Next, Agent, DiskError

LEMMA InitIInv == Init => IInv
<1> SUFFICES ASSUME Init PROVE IInv
  OBVIOUS
<1>1. /\ threads = GenRepairTasks(color)
      /\ inputs = [t \in OfType("compute", threads) |-> InputList(t)]
      /\ running = {} /\ failed = {} /\ file = <<>>
      /\ queue = [n \in Nodes |-> <<>>]
      /\ redis = [n \in Nodes |-> [v \in Vertices |-> <<>>]]
      /\ turn = [t \in threads |-> 0]
      /\ buf = [t \in OfType("compute", threads) |-> <<>>]
      /\ cmds = [t \in OfType("send", threads) |-> [n \in Nodes |-> [v \in Vertices |-> <<>>]]]
      /\ replies = [t \in OfType("send", threads) |-> <<>>]
      /\ count = [t \in OfType("send", threads) |-> 0]
  BY DEF Init
<1>2. GivenInv
  BY <1>1, StripeRepairAssumption DEF Init, GivenInv
<1>3. \A t \in threads : PerPacket(t) \in Nat \ {0} /\ PktNum * PerPacket(t) \in Nat
  BY <1>2, Threads, StripeRepairAssumption
<1>4. TurnInv
  BY <1>1, <1>3 DEF TurnInv
<1>5. QueueInv
  BY <1>1 DEF QueueInv, QueueHolds
<1>6. \A t \in threads : \A p \in Positions(t) : Dealt(turn, t, p) = 0
  <2> TAKE t \in threads
  <2> TAKE p \in Positions(t)
  <2>1. turn[t] = 0
    BY <1>1
  <2>2. PerPacket(t) \in Nat \ {0} /\ p \in 0 .. PerPacket(t) - 1
    BY <1>3 DEF Positions
  <2> QED BY <2>1, <2>2, RoundsNext DEF Dealt
<1>7. RedisInv
  <2>1. ASSUME NEW v  PROVE Transit(<<>>, <<>>, v, 0, 0)
    <3>1. Holds(<<>>, v, 0, 0)
      BY HoldsNone
    <3>2. Len(<<>>) = 0 /\ 0 - 0 = 0
      BY <3>1 DEF Holds
    <3> QED BY ONLY <3>1, <3>2 DEF Transit
  <2>2. ASSUME NEW s \in OfType("send", threads), NEW r \in OfType("recv", threads),
               NEW p \in Positions(s), NEW q \in Positions(r), NEW v \in Vertices,
               Sends(s, p, v), Receives(r, q, v)
        PROVE  Transit(redis[r.node][v], cmds[s][r.node][v], v, Dealt(turn, r, q), Dealt(turn, s, p))
    <3>1. s \in threads /\ r \in threads
      BY DEF OfType
    <3>2. r.node \in Nodes
      BY <1>2, <3>1, Threads DEF TaskFacts
    <3>3. redis[r.node][v] = <<>> /\ cmds[s][r.node][v] = <<>>
      BY <1>1, <3>2
    <3> QED BY <1>6, <2>1, <3>1, <3>3
  <2>3. /\ redis \in [Nodes -> [Vertices -> Seq(Packet)]]
        /\ cmds \in [OfType("send", threads) -> [Nodes -> [Vertices -> Seq(Packet)]]]
    BY <1>1
  <2> QED BY <1>1, <2>2, <2>3 DEF RedisInv, OnTheWay
<1>8. ReplyInv
  BY <1>1 DEF ReplyInv
<1>9. BufInv
  <2>1. buf \in [OfType("compute", threads) -> Seq(Packet)]
    BY <1>1
  <2>2. ASSUME NEW t \in OfType("compute", threads)
        PROVE  Len(buf[t]) = 0 /\ Len(inputs[t]) \in Nat /\ Pos(t) = 0
    <3>1. t \in threads /\ t.type = "compute"
      BY DEF OfType
    <3>2. Len(inputs[t]) \in Nat
      BY <1>2, <3>1, Threads
    <3>3. (0 * PerPacket(t) + 0) % PerPacket(t) = 0 /\ 0 * PerPacket(t) + 0 = 0
      BY <1>3, <3>1, DivModOf
    <3>4. turn[t] = 0
      BY <1>1, <3>1
    <3>5. Pos(t) = 0
      BY <3>3, <3>4 DEF Pos
    <3> QED BY <1>1, <3>2, <3>5
  <2>3. ASSUME NEW t \in OfType("compute", threads)
        PROVE  Len(buf[t]) = IF Pos(t) < Len(inputs[t]) THEN Pos(t) ELSE Len(inputs[t])
    BY <2>2
  <2> QED BY <2>1, <2>2, <2>3 DEF BufInv
<1>10. FileInv
  <2>1. PktNum * ecw \in Nat
    BY StripeRepairAssumption, TaskGenAssumption
  <2> QED BY <1>1, <2>1 DEF FileInv, OfType
<1> QED BY <1>2, <1>4, <1>5, <1>7, <1>8, <1>9, <1>10 DEF IInv
-----------------------------------------------------------------------------
(***************************************************************************)
(* The theorems.                                                           *)
(***************************************************************************)

(***************************************************************************)
(* Whatever the threads of the agents do first, a queue holds exactly what *)
(* one thread has put into it and another has not yet taken, in order, and *)
(* redis and the unsent commands what is sent and not yet received.        *)
(***************************************************************************)
THEOREM Invariance == Spec => []IInv
<1>1. IInv /\ [Next]_vars => IInv'
  BY IInvStep
<1> QED BY InitIInv, <1>1, PTL DEF Spec

\* A queue of a running node, with who puts into it and who takes from it.
LEMMA QueueOf ==
  ASSUME IInv, NEW n \in running, NEW key \in DOMAIN queue[n]
  PROVE  \E t, u \in ThreadsOf(n) : \E p \in Positions(t), q \in Positions(u) :
           /\ PutsAt(t, p, key) /\ TakesAt(u, q, key)
           /\ Holds(queue[n][key], VertexOf(key), Dealt(turn, u, q), Dealt(turn, t, p))
<1>1. GivenInv /\ QueueInv
  BY DEF IInv
<1>2. key \in Keys(n)
  BY <1>1 DEF QueueInv
<1>3. PICK t \in ThreadsOf(n) : key \in KeysFor(t)
  BY <1>2 DEF Keys
<1>4. t \in threads /\ t.node = n
  BY DEF ThreadsOf
<1>5. PICK p \in Positions(t) : PutsAt(t, p, key)
  BY <1>1, <1>3, <1>4, KeysForPuts
<1>6. PICK u \in ThreadsOf(n) : \E q \in Positions(u) : TakesAt(u, q, key)
  BY <1>1, <1>4, <1>5, PutIsTaken
<1>7. PICK q \in Positions(u) : TakesAt(u, q, key)
  BY <1>6
<1>8. Holds(queue[n][key], VertexOf(key), Dealt(turn, u, q), Dealt(turn, t, p))
  BY <1>1, <1>2, <1>5, <1>7 DEF QueueInv, QueueHolds
<1> QED BY <1>5, <1>7, <1>8

(***************************************************************************)
(* Every variable keeps its type.  No packet is wrong that is put into a   *)
(* queue: it is of the vertex that the queue is for.                       *)
(***************************************************************************)
THEOREM TypeCorrect == Spec => []TypeOK
<1>1. IInv => TypeOK
  <2> SUFFICES ASSUME IInv PROVE TypeOK
    OBVIOUS
  <2>1. GivenInv /\ TurnInv /\ QueueInv /\ RedisInv /\ ReplyInv /\ BufInv /\ FileInv
    BY DEF IInv
  <2>2. ASSUME NEW n \in Nodes, NEW key \in DOMAIN queue[n]  PROVE queue[n][key] \in Seq(Packet)
    <3>1. CASE n \in running
      BY <3>1, QueueOf DEF Holds
    <3>2. CASE n \notin running
      <4>1. queue[n] = <<>>
        BY <2>1, <3>2 DEF QueueInv
      <4>2. DOMAIN queue[n] = {}
        BY <4>1
      <4> QED BY <4>2
    <3> QED BY <3>1, <3>2
  <2>3. color \in [Vertices -> Nodes \cup {NoColor}]
    BY <2>1 DEF GivenInv, Usable
  <2>4. running \subseteq Nodes /\ turn \in [threads -> Nat] /\ failed \subseteq threads
    BY <2>1 DEF TurnInv, OfType
  <2>5. \A n \in Nodes : \A v \in Vertices : redis[n][v] \in Seq(Packet)
    BY <2>1 DEF RedisInv, OnTheWay
  <2>6. \A t \in DOMAIN buf : buf[t] \in Seq(Packet)
    BY <2>1 DEF BufInv
  <2>7. \A t \in DOMAIN cmds : /\ cmds[t] \in [Nodes -> [Vertices -> Seq(Packet)]]
                               /\ replies[t] \in Seq(Nodes)
                               /\ count[t] \in Nat
    BY <2>1 DEF RedisInv, OnTheWay, ReplyInv
  <2>8. file \in Seq(Packet)
    BY <2>1 DEF FileInv
  <2> QED BY <2>2, <2>3, <2>4, <2>5, <2>6, <2>7, <2>8 DEF TypeOK
<1> QED BY <1>1, Invariance, PTL

(***************************************************************************)
(* For every DAG, colouring and order of the threads: the queues that the  *)
(* tasks of a node use exist when its threads are started, and each has    *)
(* one thread that puts into it and one that takes from it.                *)
(***************************************************************************)
THEOREM Wired == Spec => []QueuesAreWired
<1>1. IInv => QueuesAreWired
  <2> SUFFICES ASSUME IInv, NEW n \in running, NEW t \in ThreadsOf(n),
                      NEW key \in KeysFor(t) \cup TakesFrom(t)
               PROVE  /\ key \in DOMAIN queue[n]
                      /\ Cardinality({u \in ThreadsOf(n) : key \in KeysFor(u)}) = 1
                      /\ Cardinality({u \in ThreadsOf(n) : key \in TakesFrom(u)}) = 1
    BY DEF QueuesAreWired
  <2>1. GivenInv /\ QueueInv /\ t \in threads /\ t.node = n
    BY DEF IInv, ThreadsOf
  <2>2. key \in DOMAIN queue[n]
    <3>1. CASE key \in KeysFor(t)
      BY <2>1, <3>1 DEF QueueInv, Keys
    <3>2. CASE key \in TakesFrom(t)
      <4>1. PICK p \in Positions(t) : TakesAt(t, p, key)
        BY <2>1, <3>2, TakesFromTakes
      <4>2. PICK u \in ThreadsOf(n) : \E q \in Positions(u) : PutsAt(u, q, key)
        BY <2>1, <4>1, TakenIsPut
      <4>3. key \in KeysFor(u)
        BY <2>1, <4>2, KeysForPuts DEF ThreadsOf
      <4> QED BY <2>1, <4>3 DEF QueueInv, Keys
    <3> QED BY <3>1, <3>2
  <2>3. PICK u, w \in ThreadsOf(n) : \E p \in Positions(u), q \in Positions(w) :
                                       PutsAt(u, p, key) /\ TakesAt(w, q, key)
    BY <2>2, QueueOf
  <2>4. u \in threads /\ u.node = n /\ w \in threads /\ w.node = n
    BY DEF ThreadsOf
  <2>5. {x \in ThreadsOf(n) : key \in KeysFor(x)} = {u}
    <3>1. key \in KeysFor(u)
      BY <2>1, <2>3, <2>4, KeysForPuts
    <3>2. ASSUME NEW x \in ThreadsOf(n), key \in KeysFor(x)  PROVE x = u
      <4>1. x \in threads /\ x.node = n
        BY DEF ThreadsOf
      <4>2. PICK p \in Positions(x) : PutsAt(x, p, key)
        BY <2>1, <3>2, <4>1, KeysForPuts
      <4>3. PICK q \in Positions(u) : PutsAt(u, q, key)
        BY <2>3
      <4> QED BY <2>1, <2>4, <4>1, <4>2, <4>3, OnePuts
    <3> QED BY <3>1, <3>2
  <2>6. {x \in ThreadsOf(n) : key \in TakesFrom(x)} = {w}
    <3>1. key \in TakesFrom(w)
      BY <2>1, <2>3, <2>4, TakesFromTakes
    <3>2. ASSUME NEW x \in ThreadsOf(n), key \in TakesFrom(x)  PROVE x = w
      <4>1. x \in threads /\ x.node = n
        BY DEF ThreadsOf
      <4>2. PICK p \in Positions(x) : TakesAt(x, p, key)
        BY <2>1, <3>2, <4>1, TakesFromTakes
      <4>3. PICK q \in Positions(w) : TakesAt(w, q, key)
        BY <2>3
      <4> QED BY <2>1, <2>4, <4>1, <4>2, <4>3, OneTakes
    <3> QED BY <3>1, <3>2
  <2> QED BY <2>2, <2>5, <2>6, FS_Singleton
<1> QED BY <1>1, Invariance, PTL

\* How far a thread has come that is at a turn of its loop, or at its end.
LEMMA DealtSoFar ==
  ASSUME IInv, NEW t \in threads, NEW p \in Positions(t)
  PROVE  /\ Dealt(turn, t, p) \in Nat /\ Dealt(turn, t, p) <= PktNum
         /\ Finished(t) /\ t \notin failed => Dealt(turn, t, p) = PktNum
<1>1. /\ turn[t] \in Nat /\ turn[t] <= PktNum * PerPacket(t) /\ PktNum \in Nat
      /\ PerPacket(t) \in Nat \ {0} /\ p \in 0 .. PerPacket(t) - 1
  BY Threads, StripeRepairAssumption DEF IInv, TurnInv, Positions
<1>2. PktNum * PerPacket(t) \in Nat
  BY <1>1
<1>3. Dealt(turn, t, p) \in Nat /\ Dealt(turn, t, p) <= PktNum
  BY <1>1, RoundsNext, RoundsEnd DEF Dealt
<1>4. ASSUME Finished(t), t \notin failed  PROVE Dealt(turn, t, p) = PktNum
  <2>1. turn[t] = PktNum * PerPacket(t)
    BY <1>1, <1>2, <1>4 DEF Finished, Turning
  <2> QED BY <1>1, <2>1, RoundsEnd DEF Dealt
<1> QED BY <1>3, <1>4

(***************************************************************************)
(* A node that has joined its threads deletes empty queues, and a repair   *)
(* that is over leaves nothing in redis.                                   *)
(***************************************************************************)
THEOREM NothingIsLeft == Spec => []NothingLeft
<1>1. ASSUME IInv, NEW n \in Nodes, Joined(n), NEW key \in DOMAIN queue[n]
      PROVE  queue[n][key] = <<>>
  <2>1. n \in running /\ \A t \in ThreadsOf(n) : Finished(t) /\ t \in threads
    BY <1>1 DEF Joined, ThreadsOf
  <2>2. PICK t, u \in ThreadsOf(n) : \E p \in Positions(t), q \in Positions(u) :
          /\ PutsAt(t, p, key) /\ TakesAt(u, q, key)
          /\ Holds(queue[n][key], VertexOf(key), Dealt(turn, u, q), Dealt(turn, t, p))
    BY <1>1, <2>1, QueueOf
  <2>3. PICK p \in Positions(t), q \in Positions(u) :
          /\ PutsAt(t, p, key) /\ TakesAt(u, q, key)
          /\ Holds(queue[n][key], VertexOf(key), Dealt(turn, u, q), Dealt(turn, t, p))
    BY <2>2
  <2>4. u \notin failed
    BY <1>1, <2>3 DEF IInv, TurnInv, OfType, TakesAt, Takes
  <2>5. Dealt(turn, u, q) = PktNum
    BY <1>1, <2>1, <2>4, DealtSoFar
  <2>6. Dealt(turn, t, p) \in Nat /\ Dealt(turn, t, p) <= PktNum /\ PktNum \in Nat
    BY <1>1, <2>1, DealtSoFar, StripeRepairAssumption
  <2>7. /\ queue[n][key] \in Seq(Packet)
        /\ Len(queue[n][key]) = Dealt(turn, t, p) - PktNum
    BY <2>3, <2>5 DEF Holds
  <2>8. Len(queue[n][key]) \in Nat
    BY <2>7
  <2>9. Len(queue[n][key]) = 0
    BY <2>6, <2>7, <2>8
  <2> QED BY <2>7, <2>9
<1>2. ASSUME IInv, Over, NEW n \in Nodes, NEW v \in Vertices
      PROVE  redis[n][v] = <<>>
  <2>1. GivenInv /\ RedisInv /\ TurnInv
    BY <1>2 DEF IInv
  <2>2. CASE \A r \in OfType("recv", threads) : r.node = n => v \notin ToSet(r.list)
    BY <2>1, <2>2 DEF RedisInv, OnTheWay
  <2>3. ASSUME NEW r \in OfType("recv", threads), r.node = n, v \in ToSet(r.list)
        PROVE  redis[n][v] = <<>>
    <3>1. r \in threads /\ r.type = "recv" /\ r \in ThreadsOf(n)
      BY <2>3 DEF OfType, ThreadsOf
    <3>2. PICK q \in Positions(r) : Receives(r, q, v)
      BY <2>1, <2>3, <3>1, Listing
    <3>3. PICK s \in OfType("send", threads) : \E p \in Positions(s) : Sends(s, p, v)
      BY <2>1, <3>1, <3>2, ReceivedIsSent
    <3>4. PICK p \in Positions(s) : Sends(s, p, v)
      BY <3>3
    <3>5. Transit(redis[n][v], cmds[s][n][v], v, Dealt(turn, r, q), Dealt(turn, s, p))
      BY <2>1, <2>3, <3>2, <3>4 DEF RedisInv, OnTheWay
    <3>6. Finished(r) /\ r \notin failed
      BY <1>2, <2>1, <3>1 DEF Over, Joined, TurnInv, OfType
    <3>7. Dealt(turn, r, q) = PktNum
      BY <1>2, <3>1, <3>6, DealtSoFar
    <3>8. Dealt(turn, s, p) \in Nat /\ Dealt(turn, s, p) <= PktNum /\ PktNum \in Nat
      BY <1>2, DealtSoFar, StripeRepairAssumption DEF OfType
    <3>9. /\ redis[n][v] \in Seq(Packet) /\ cmds[s][n][v] \in Seq(Packet)
          /\ Len(redis[n][v]) = (Dealt(turn, s, p) - Len(cmds[s][n][v])) - PktNum
      BY <3>5, <3>7 DEF Transit, Holds
    <3>10. Len(redis[n][v]) \in Nat /\ Len(cmds[s][n][v]) \in Nat
      BY <3>9
    <3>11. Len(redis[n][v]) = 0
      BY <3>8, <3>9, <3>10
    <3> QED BY <3>9, <3>11
  <2> QED BY <2>2, <2>3
<1>3. IInv => NothingLeft
  BY <1>1, <1>2 DEF NothingLeft
<1> QED BY <1>3, Invariance, PTL

(***************************************************************************)
(* After a read error some agent never joins its threads: one of its       *)
(* threads waits for a packet of a queue that nobody puts any more.        *)
(***************************************************************************)
THEOREM NeverFalse == Spec => []NoFalseFinish
<1>1. IInv => NoFalseFinish
  <2> SUFFICES ASSUME IInv, NEW t \in failed, Over PROVE FALSE
    BY DEF NoFalseFinish
  <2>1. /\ GivenInv /\ t \in threads /\ t.type = "read"
        /\ turn[t] < PktNum * PerPacket(t) /\ turn[t] \in Nat
    BY DEF IInv, TurnInv, OfType
  <2>2. PktNum \in Nat /\ PerPacket(t) \in Nat \ {0} /\ Skip(t) = 0
    BY <2>1, Threads, StripeRepairAssumption
  <2> DEFINE n == t.node
             p == Pos(t)
             v == ItemAt(t, p)
  <2>3. p \in 0 .. PerPacket(t) - 1 /\ p = turn[t] % PerPacket(t)
    BY <2>1, <2>2, DivMod DEF Pos
  <2>4. Dealt(turn, t, p) < PktNum
    BY <2>1, <2>2, <2>3, RoundsEnd DEF Dealt
  <2>5. p \in Positions(t) /\ p >= Skip(t)
    BY <2>2, <2>3 DEF Positions
  <2>6. v \in Vertices /\ v # REQUESTOR
    <3>1. v \in Vertices /\ v \in Listed(color, "read", n)
      BY <2>1, <2>5, ItemIs
    <3> QED BY <3>1, Root DEF Listed
  <2>7. PICK w \in Parents(v) : TRUE
    <3>1. v \in Vertices \ {REQUESTOR}
      BY <2>6
    <3>2. Parents(v) # {}
      BY <3>1, TheGraph
    <3> QED BY <3>2
  <2>8. Same(color, v) \/ Diff(color, v)
    BY <2>7 DEF Same, Diff, ParentColors
  <2>9. PICK key : key \in KeysOf(v, Same(color, v), Diff(color, v))
    BY <2>8 DEF KeysOf
  <2>10. PutsAt(t, p, key)
    BY <2>1, <2>5, <2>9 DEF PutsAt, Puts, ItemKeys
  <2>11. PICK u \in ThreadsOf(n) : \E q \in Positions(u) : TakesAt(u, q, key)
    BY <2>1, <2>10, PutIsTaken
  <2>12. PICK q \in Positions(u) : TakesAt(u, q, key)
    BY <2>11
  <2>13. n \in running /\ Finished(u) /\ u \notin failed /\ u \in threads /\ t \in ThreadsOf(n)
    <3>1. n \in Nodes
      BY <2>1, Threads DEF TaskFacts
    <3>2. t \in ThreadsOf(n)
      BY <2>1 DEF ThreadsOf
    <3>3. Joined(n)
      BY <3>1, <3>2 DEF Over
    <3>4. u \notin failed
      BY <2>12 DEF IInv, TurnInv, OfType, TakesAt, Takes
    <3> QED BY <3>2, <3>3, <3>4 DEF Joined, ThreadsOf
  <2>14. key \in Keys(n)
    <3>1. key \in KeysFor(t)
      BY <2>1, <2>5, <2>10, KeysForPuts
    <3> QED BY <2>13, <3>1 DEF Keys
  <2>15. Holds(queue[n][key], VertexOf(key), Dealt(turn, u, q), Dealt(turn, t, p))
    BY <2>5, <2>10, <2>12, <2>13, <2>14 DEF IInv, QueueInv, QueueHolds
  <2>16. Dealt(turn, u, q) = PktNum
    BY <2>13, DealtSoFar
  <2>17. queue[n][key] \in Seq(Packet) /\ Len(queue[n][key]) = Dealt(turn, t, p) - PktNum
    BY <2>15, <2>16 DEF Holds
  <2>18. Len(queue[n][key]) \in Nat /\ Dealt(turn, t, p) \in Nat
    BY <2>1, <2>5, <2>17, DealtSoFar
  <2> QED BY <2>2, <2>4, <2>17, <2>18
<1> QED BY <1>1, Invariance, PTL

(***************************************************************************)
(* The agents implement the abstract repair: the file of the repaired      *)
(* block is written in order, and only with the data of the lost block.    *)
(***************************************************************************)
THEOREM Refinement == Spec => ImplementsBlockRepair
<1>1. Init => Block!Init
  BY DEF Init, Block!Init
<1>2. IInv /\ IInv' /\ [Next]_vars => [Block!Write]_file
  <2> SUFFICES ASSUME IInv, IInv', [Next]_vars, file' # file PROVE Block!Write
    OBVIOUS
  <2>1. PICK t : Persist(t)
    <3>1. PICK n \in Nodes : Agent(n) \/ DiskError(n)
      BY DEF Next, Stop, vars
    <3>2. ~DiskError(n) /\ ~Start(n)
      BY DEF DiskError, ReadError, Start
    <3>3. PICK t : Thread(t)
      BY <3>1, <3>2 DEF Agent
    <3>4. ~ReadRealBlock(t) /\ ~ReadVirtBlock(t) /\ ~RecvOneByOne(t)
      BY DEF ReadRealBlock, ReadVirtBlock, RecvOneByOne
    <3>5. ~SendOneByOne(t) /\ ~ReadReply(t)
      BY DEF SendOneByOne, ReadReply
    <3>6. ~PopInput(t) /\ ~PushOutput(t)
      BY DEF PopInput, PushOutput
    <3> QED BY <3>3, <3>4, <3>5, <3>6 DEF Thread
  <2> DEFINE x == Head(queue[t.node][Item(t)])
             k == Len(file)
  <2>2. file' = Append(file, x)
    BY <2>1 DEF Persist
  <2>3. file \in Seq(Packet) /\ file' \in Seq(Packet)
    BY DEF IInv, FileInv, Packet, ZeroPacket, BadPacket
  <2>4. \A i \in 1 .. Len(file') : file'[i] = LostData(i - 1)
    BY DEF IInv, FileInv, LostData, BlockData, Value
  <2>5. Len(file') <= PktNum * ecw
    BY DEF IInv, FileInv
  <2>6. k \in Nat /\ PktNum * ecw \in Nat
    BY <2>3, StripeRepairAssumption, TaskGenAssumption
  <2> HIDE DEF x, k
  <2>7. Len(file') = k + 1 /\ file'[k + 1] = x
    BY <2>2, <2>3 DEF k
  <2>8. x = LostData(k) /\ k < PktNum * ecw
    <3>1. k + 1 \in 1 .. Len(file') /\ (k + 1) - 1 = k
      BY <2>6, <2>7
    <3>2. file'[k + 1] = LostData((k + 1) - 1)
      BY <2>4, <3>1
    <3>3. k < PktNum * ecw
      BY <2>5, <2>6, <2>7
    <3> QED BY <2>7, <3>1, <3>2, <3>3
  <2> QED BY <2>2, <2>8 DEF Block!Write, k
<1> QED BY <1>1, <1>2, Invariance, PTL DEF Spec, ImplementsBlockRepair, Block!Spec
=============================================================================

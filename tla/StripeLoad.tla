---------------------------- MODULE StripeLoad -----------------------------
(***************************************************************************)
(* What the colouring of a repair DAG costs each node (Stripe).  A vertex  *)
(* is sent once to every other node that uses it.  The solutions colour    *)
(* the vertices one at a time and keep the counts up to date by what       *)
(* changes around the vertex (changeColor), or count from nothing          *)
(* (evaluateColoring).                                                     *)
(*                                                                         *)
(* d is a DAG, color a node for each vertex or NoColor: the sub-packet is  *)
(* zero, or has no node yet.  The counts are _in and _out together.        *)
(***************************************************************************)
EXTENDS Dag

CONSTANT Cluster   \* the nodes a load table has a row for: agents and standby nodes

NoColor == -1

ASSUME StripeLoadAssumption == NoColor \notin Cluster

\* A count for a node that is not in the map is zero.
NoLoad == [n \in Cluster |-> [in |-> 0, out |-> 0]]

Plus(s, t) == [n \in Cluster |-> [in |-> s[n].in + t[n].in, out |-> s[n].out + t[n].out]]

ParentColors(d, color, v) == {color[p] : p \in ToSet(d.parent[v])}

\* getChildColors: the colours of the children, each once, in their order.
ChildColors(d, color, v) ==
  LET from == [i \in DOMAIN d.child[v] |-> color[d.child[v][i]]]
  IN  Entries(from, {i \in DOMAIN from : /\ from[i] # NoColor
                                         /\ \A j \in 1 .. i - 1 : from[j] # from[i]})

\* The vertices that cross the network, each with a node that it is sent to: <<v, n>>.
Transfers(d, color) ==
  {t \in Ids(d) \X Cluster :
     color[t[1]] \notin {NoColor, t[2]} /\ t[2] \in ParentColors(d, color, t[1])}

\* evaluateColoring, and what evalColoringGlobal adds to a table.
Evaluate(d, color) ==
  LET T == Transfers(d, color)
  IN  [n \in Cluster |-> [in  |-> Cardinality({t \in T : t[2] = n}),
                          out |-> Cardinality({t \in T : color[t[1]] = n})]]
-----------------------------------------------------------------------------
(***************************************************************************)
(* changeColor.  A change of load is a set of transfers <<what, from, to>> *)
(* that are added or dropped; `what' is the position of a child, or 0 for  *)
(* the vertex itself.                                                      *)
(***************************************************************************)

\* The vertex goes from node c to the nodes of its parents.
Upward(d, color, v, c) ==
  {<<0, c, n>> : n \in IF c = NoColor THEN {} ELSE ParentColors(d, color, v) \ {c, NoColor}}

\* How many uses of a child are at node c.
UsesAt(d, color, child, c) ==
  Cardinality({i \in DOMAIN d.parent[child] : color[d.parent[child][i]] = c})

\* The children that are at a node other than c and of which `uses' uses are at c.
Downward(d, color, v, c, uses) ==
  LET From(i) == color[d.child[v][i]]
  IN  {<<i, From(i), c>> :
         i \in {j \in DOMAIN d.child[v] :
                  /\ From(j) \notin {NoColor, c}
                  /\ UsesAt(d, color, d.child[v][j], c) = uses}}

Added(d, color, v, new) == Upward(d, color, v, new) \cup Downward(d, color, v, new, 0)

\* Mutant: a child that other vertices at the old node use is dropped as well.
DroppedAlways(d, color, v, old) ==
  Upward(d, color, v, old) \cup
    (IF old = NoColor THEN {}
     ELSE UNION {Downward(d, color, v, old, k) : k \in 1 .. Len(d.parent[v]) + 3})

Dropped(d, color, v, old) ==
  Upward(d, color, v, old)
    \cup (IF old = NoColor THEN {} ELSE Downward(d, color, v, old, 1))

From(S, n) == Cardinality({t \in S : t[2] = n})
To(S, n)   == Cardinality({t \in S : t[3] = n})

\* changeColor: the load when v goes to node new.
Change(d, color, load, v, new) ==
  LET add  == Added(d, color, v, new)
      drop == Dropped(d, color, v, color[v])
  IN  [n \in Cluster |-> [in  |-> load[n].in + To(add, n) - To(drop, n),
                          out |-> load[n].out + From(add, n) - From(drop, n)]]

(***************************************************************************)
(* evaluateChange: the same on a copy, but what the children no longer     *)
(* send to the old node is taken from the wrong counts.  Every caller      *)
(* passes a vertex that has no colour, for which the two are the same.     *)
(***************************************************************************)
EvaluateChange(d, color, load, v, new) ==
  LET add  == Added(d, color, v, new)
      up   == Upward(d, color, v, color[v])
      down == Dropped(d, color, v, color[v]) \ up
  IN  [n \in Cluster |->
         [in  |-> load[n].in + To(add, n) - To(up, n) - From(down, n),
          out |-> load[n].out + From(add, n) - From(up, n) - To(down, n)]]
-----------------------------------------------------------------------------
(***************************************************************************)
(* How good a load is.                                                     *)
(***************************************************************************)
\* evalTable, _load and _bdwt: the heaviest port of a node of S, all the traffic.
StateOf(table, S) ==
  [load |-> Max({0} \cup {table[n].in : n \in S} \cup {table[n].out : n \in S}),
   bdwt |-> SumFunction([n \in Cluster |-> table[n].in])]

\* RepairBatch::evaluateBatch, getLoadTable: the sum over the stripes.
SumOfLoads(loads) == FoldLeft(Plus, NoLoad, loads)

\* isBetter with a table: of two equal loads the one with the least traffic or,
\* if the table of c1 gives c1 less to send than c2, c1.
Better(st1, c1, st2, c2, table) ==
  \/ st1.load < st2.load
  \/ st1.load = st2.load /\ (st1.bdwt < st2.bdwt \/ table[c1].out < table[c2].out)

NoChoice == [color |-> NoColor]

\* chooseColor_fullnode: the colour of a child that loads the table least.
ChooseColor(d, color, load, table, v) ==
  FoldLeft(LAMBDA best, c :
             LET t  == Plus(table, EvaluateChange(d, color, load, v, c))
                 st == StateOf(t, Cluster)
             IN  IF best = NoChoice \/ Better(st, c, best.state, best.color, t)
                   THEN [color |-> c, state |-> st] ELSE best,
           NoChoice, ChildColors(d, color, v)).color
=============================================================================

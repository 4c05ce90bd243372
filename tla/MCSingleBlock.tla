--------------------------- MODULE MCSingleBlock ---------------------------
(***************************************************************************)
(* Offline colourings and the repair of one block.  Each behaviour is one  *)
(* of three; the variables of the others keep their initial values.        *)
(*                                                                         *)
(* "offline": the search for the colouring of a DAG with three vertices;   *)
(* nodes 0, 1 and 2 have a block each, of which 1 has failed, and 3 is the *)
(* new node.                                                               *)
(*                                                                         *)
(* "any": stripes of 3 blocks of two sub-packets on 4 agents; 4 is the     *)
(* repair node.  Vertices 6 and up are intermediate, 10 and up virtual     *)
(* leaves.  Two vertices have the same children, leaves have several uses, *)
(* and one vertex is made of virtual blocks only.  All topological orders. *)
(*                                                                         *)
(* "clay": Clay with four blocks of four sub-packets, of which two are     *)
(* data, on 5 agents; 5 is the repair node.  Two topological orders.       *)
(***************************************************************************)
EXTENDS Pareto

CONSTANTS
  Methods,           \* of SingleBlock
  Uninitialised      \* the same

Colorings == [1 .. V -> 0 .. ecn]
Sum(c) == FoldFunction(LAMBDA x, y : x + y, 0, c)

\* Fronts of up to three points, with ties.
Point(left, bdwt) == [load |-> left, bottleneck |-> 8 - left, bdwt |-> bdwt]
Spread == [c \in Colorings |-> Point(2 + c[1], 10 - Sum(c))]
Valley == [c \in Colorings |-> Point(1 + ((c[1] + 2 * c[2]) % 4), 4 - ((2 * Sum(c) - c[2]) % 3))]
Rough  == [c \in Colorings |-> Point(1 + ((c[1] * c[2] + 1) % 3), 2 + (Sum(c) % 4))]
MCEvaluations == {Spread, Valley, Rough}
-----------------------------------------------------------------------------
D == INSTANCE Dag
K == INSTANCE Clay WITH ecn <- 4, eck <- 2, ecw <- 4

ASSUME K!ErasureCodeAssumption /\ K!ClayAssumption

Joined(joins, to) ==
  D!Concact(FoldLeft(LAMBDA d, j : D!Join(d, j[1], j[2], D!NoCoefs(j[2])), D!EmptyDag, joins), to)

AnyDag(joins) == Joined(joins, <<joins[Len(joins) - 1][1], joins[Len(joins)][1]>>)

AnyDags ==
  <<AnyDag(<< <<6, <<2>>>>, <<7, <<6>>>>, <<8, <<2, 6, 7>>>>, <<9, <<7, 6, 3>>>>, <<10, <<9, 7>>>>,
              <<0, <<10, 8, 9>>>>, <<1, <<7, 8, 2>>>> >>),
    AnyDag(<< <<6, <<10, 11>>>>, <<7, <<0, 6>>>>, <<2, <<7, 4>>>>, <<3, <<7, 4>>>> >>),
    AnyDag(<< <<6, <<0, 2>>>>, <<7, <<0, 2>>>>, <<4, <<6, 3>>>>, <<5, <<7, 1, 4>>>> >>)>>
AnyRepairDag(b) == AnyDags[b + 1]

ClayDags ==
  [b \in 0 .. 3 |-> LET joins == K!ClayDecode({b})
                    IN  Joined([i \in DOMAIN joins |-> <<joins[i].p, joins[i].c>>], K!SubPackets(b))]
ClayRepairDag(b) == ClayDags[b]

\* The intermediate vertices that come after those of s: their children are there.
Following(d, s) ==
  LET rest == D!ItmIdxs(d) \ ToSet(s)
  IN  {v \in rest : ToSet(d.child[v]) \cap rest = {}}

Positions(d) == [i \in 1 .. Cardinality(D!ItmIdxs(d)) |-> i]

AllOrders(d) ==
  FoldLeft(LAMBDA S, i : UNION {{Append(s, v) : v \in Following(d, s)} : s \in S},
           {<<>>}, Positions(d))

\* Each time the first, or the last, of the vertices that may follow.
TwoOrders(d) ==
  {FoldLeft(LAMBDA s, i : Append(s, Min(Following(d, s))), <<>>, Positions(d)),
   FoldLeft(LAMBDA s, i : Append(s, Max(Following(d, s))), <<>>, Positions(d))}

AnyOffline(b) == [i \in 1 .. 9 |-> (b + i - 1) % 3]
ClayOffline(b) == [i \in 1 .. 9 |-> (b + i - 1) % 4]

AnyPlacements ==
  {[i \in 0 .. 2 |-> p[i + 1]] : p \in {<<0, 1, 2>>, <<3, 1, 2>>, <<2, 0, 3>>}}
ClayPlacements ==
  {[i \in 0 .. 3 |-> p[i + 1]] : p \in {<<0, 1, 2, 3>>, <<4, 2, 1, 0>>}}

\* In units of 1/12.
Lines(n, lines) == {[i \in 0 .. n |-> [up |-> 12 * l[1][i + 1], down |-> 12 * l[2][i + 1]]] : l \in lines}
AnyBandwidths ==
  Lines(4, {<< <<5, 5, 5, 5, 5>>, <<5, 5, 5, 5, 5>> >>, << <<2, 9, 4, 9, 6>>, <<9, 3, 6, 9, 4>> >>,
            << <<9, 2, 6, 3, 9>>, <<4, 9, 2, 9, 9>> >>, << <<0, 0, 0, 0, 0>>, <<2, 9, 4, 9, 9>> >>,
            << <<1, 9, 9, 2, 0>>, <<9, 1, 1, 9, 9>> >>})
ClayBandwidths ==
  Lines(5, {<< <<5, 5, 5, 5, 5, 5>>, <<5, 5, 5, 5, 5, 5>> >>,
            << <<9, 2, 6, 3, 9, 4>>, <<4, 9, 2, 9, 9, 7>> >>})
-----------------------------------------------------------------------------
VARIABLES part,
          method, lost, place, dag, topoIdxs, repairs, idx2bdwt, color, load,
          interLoadTable, sorted, idle, limitedbn, groups, groupNum, groupEcn,
          togroup, group, step, toGen

single == <<method, lost, place, dag, topoIdxs, repairs, idx2bdwt, color, load,
            interLoadTable, sorted, idle, limitedbn, groups, groupNum, groupEcn,
            togroup, group, step, toGen>>

S == INSTANCE SingleBlock WITH
       Cluster <- 0 .. 4, agents_num <- 4, ecn <- 3, ecw <- 2,
       RepairDag <- AnyRepairDag, TopoIdxs <- AllOrders, Offline <- AnyOffline,
       Placements <- AnyPlacements, Bandwidths <- AnyBandwidths,
       Limit <- 60, Full <- 12000, DBL_MAX <- 1000000, MaxRepairs <- 2,
       todo <- togroup, phase <- step

L == INSTANCE SingleBlock WITH
       Cluster <- 0 .. 5, agents_num <- 5, ecn <- 4, ecw <- 4,
       RepairDag <- ClayRepairDag, TopoIdxs <- TwoOrders, Offline <- ClayOffline,
       Placements <- ClayPlacements, Bandwidths <- ClayBandwidths,
       Limit <- 30, Full <- 12000, DBL_MAX <- 1000000, MaxRepairs <- 1,
       todo <- togroup, phase <- step

ASSUME /\ S!SingleBlockAssumption /\ L!SingleBlockAssumption
       /\ S!StripeLoadAssumption /\ L!StripeLoadAssumption

\* One behaviour, for the variables that are not looked at.
NoSearch == Init /\ rule = "load" /\ evaluation = Spread /\ sol[0].colors = [i \in 1 .. V |-> 0]
NoRepair ==
  /\ method = 0 /\ lost = 0 /\ place = 0 /\ dag = 0 /\ topoIdxs = 0
  /\ repairs = 0 /\ idx2bdwt = 0 /\ color = 0 /\ load = 0 /\ interLoadTable = 0
  /\ sorted = 0 /\ idle = 0 /\ limitedbn = 0 /\ groups = 0 /\ groupNum = 0
  /\ groupEcn = 0 /\ togroup = 0 /\ group = 0 /\ step = 0 /\ toGen = 0

MCInit ==
  \/ part = "offline" /\ Init /\ NoRepair
  \/ part = "any" /\ NoSearch /\ S!Init
  \/ part = "clay" /\ NoSearch /\ L!Init

MCNext ==
  /\ UNCHANGED part
  /\ \/ part = "offline" /\ Next /\ UNCHANGED single
     \/ part = "any" /\ S!Next /\ UNCHANGED vars
     \/ part = "clay" /\ L!Next /\ UNCHANGED vars

MCSpec == MCInit /\ [][MCNext]_<<part, vars, single>>

\* The properties of the repair of a block.
UncoloredIsZero     == (part = "any" => S!UncoloredIsZero) /\ (part = "clay" => L!UncoloredIsZero)
SlowIsNotRepaired   == (part = "any" => S!SlowIsNotRepaired) /\ (part = "clay" => L!SlowIsNotRepaired)
ColorsTheBlankNodes == (part = "any" => S!ColorsTheBlankNodes) /\ (part = "clay" => L!ColorsTheBlankNodes)
=============================================================================

----------------------------- MODULE MCColoring -----------------------------
(***************************************************************************)
(* Stripes of 3 blocks of two sub-packets on 5 agents; node 0 has failed.  *)
(* Vertices 6 and up are intermediate, 8 and up virtual leaves.  A vertex  *)
(* is used by three others, one is used only with a virtual one, and one   *)
(* is made of virtual blocks only.                                         *)
(***************************************************************************)
EXTENDS Coloring

Made(joins) ==
  Concact(FoldLeft(LAMBDA d, j : Join(d, j[1], j[2], NoCoefs(j[2])), EmptyDag, joins),
          <<joins[Len(joins) - 1][1], joins[Len(joins)][1]>>)

MCDags ==
  <<Made(<< <<6, <<2, 4>>>>, <<0, <<6, 3>>>>, <<1, <<6, 5, 0>>>> >>),
    Made(<< <<6, <<8, 9>>>>, <<7, <<0, 6>>>>, <<2, <<7, 4>>>>, <<3, <<7, 6, 5>>>> >>),
    Made(<< <<7, <<0, 2>>>>, <<4, <<7>>>>, <<5, <<7, 3>>>> >>)>>
MCRepairDag(b) == MCDags[b + 1]

Placed(a, b, c) == [i \in 0 .. 2 |-> IF i = 0 THEN a ELSE IF i = 1 THEN b ELSE c]
\* All at one block, or the first vertex at one block and the others at another.
MCOffline(b) ==
  LET itm == ItmIdxs(MCDags[b + 1])
  IN  {[v \in itm |-> IF v = Min(itm) THEN p[1] ELSE p[2]] : p \in {<<0, 0>>, <<1, 2>>, <<2, 0>>}}

MCPlacements == {Placed(0, 1, 2), Placed(0, 2, 3), Placed(1, 0, 2), Placed(3, 0, 1), Placed(2, 1, 0)}
MCCluster == 0 .. 6
=============================================================================

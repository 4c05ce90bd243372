--------------------------- MODULE MCSecSolution ----------------------------
(***************************************************************************)
(* Stripes of 3 blocks of one sub-packet, node 0 has failed.  A lost block *)
(* is made of the other two.                                               *)
(***************************************************************************)
EXTENDS SecSolution

MCAgents == 0 .. agents_num - 1
MCDag(b) ==
  LET others == SelectSeq(<<0, 1, 2>>, LAMBDA x : x # b)
  IN  Concact(Join(EmptyDag, b, others, <<1, 1>>), <<b>>)

Placed(a, b, c) == [i \in 0 .. 2 |-> IF i = 0 THEN a ELSE IF i = 1 THEN b ELSE c]

\* Six agents: up to seven stripes, of which one may have no block on the failed node.
Kinds == {Placed(0, 1, 2), Placed(1, 3, 0), Placed(2, 0, 3), Placed(4, 0, 5)}
MCStripeLists ==
  {<<Placed(0, 1, 2), Placed(1, 0, 2)>> \o l :
     l \in [1 .. 4 -> Kinds] \cup [1 .. 5 -> {Placed(1, 3, 0), Placed(4, 0, 5)}]}
    \cup {<<Placed(0, 1, 2), Placed(0, 2, 1), Placed(0, 3, 4), Placed(3, 0, 5), Placed(4, 5, 0)>>}
    \cup {<<Placed(3, 4, 5), Placed(0, 1, 2)>> \o l : l \in [1 .. 2 -> Kinds]}
=============================================================================

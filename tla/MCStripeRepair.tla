--------------------------- MODULE MCStripeRepair ---------------------------
(***************************************************************************)
(* A stripe of three blocks of two sub-packets and a virtual block:        *)
(*     level 0   0 (block 0)   2 3 (block 1)   6 (virtual)                 *)
(*     level 1   4 <- 0 2      7 <- 0 3        8 <- 6                      *)
(*     level 2   5 <- 7 8                                                  *)
(*     level 3   REQUESTOR <- 4 5 (block 2, lost)                          *)
(* Block 0 is on n0, block 1 on n1 and n2 repairs.  The colourings place   *)
(* 4, 5 and 7 on these nodes; 8, a combination of zeros, has no colour, as *)
(* BalanceSolution leaves it, or a node, as OfflineSolution gives it.      *)
(*                                                                         *)
(* Without disk errors the send window is one command; with errors it is   *)
(* never full, and a hash map lists the vertices in the other order.       *)
(***************************************************************************)
EXTENDS StripeRepair

CONSTANTS n0, n1, n2

MCVertices == {0, 2, 3, 4, 5, 6, 7, 8, REQUESTOR}

MCSrc ==
  [v \in MCVertices |->
     CASE v = 4 -> <<0, 2>> [] v = 7 -> <<0, 3>> [] v = 8 -> <<6>>
       [] v = 5 -> <<7, 8>> [] v = REQUESTOR -> <<4, 5>> [] OTHER -> <<>>]

\* The colours of 4, 5, 7 and 8.
Coloring(c4, c5, c7, c8) ==
  [v \in MCVertices |->
     CASE v = 0 -> n0 [] v \in {2, 3} -> n1 [] v = 4 -> c4 [] v = 5 -> c5
       [] v = 6 -> NoColor [] v = 7 -> c7 [] v = 8 -> c8 [] v = REQUESTOR -> n2]

\* The centralised repair, and one where every vertex of level 1 is elsewhere.
MCColorings == {Coloring(n2, n2, n2, n2), Coloring(n1, n0, n1, NoColor),
                Coloring(n0, n2, n1, n0)}

MCHashOrder == {<<v, w>> \in MCVertices \X MCVertices : v < w}
MCHashOrderReversed == {<<v, w>> \in MCVertices \X MCVertices : v > w}
MCFail2Repair == [n \in {} |-> n]

VARIABLE errors    \* may the disks of blocks 0 and 1 fail?

E == INSTANCE StripeRepair WITH
       HashOrder <- MCHashOrderReversed,
       SendWindow <- 10, BadBlocks <- {0, 1}

MCInit == \/ errors = FALSE /\ Init
          \/ errors = TRUE /\ E!Init

\* After an error the threads that need the data wait.
Hangs == failed # {} /\ UNCHANGED <<errors, vars>>

MCNext ==
  \/ UNCHANGED errors /\ IF errors THEN E!Next ELSE Next
  \/ Hangs

MCAgent(n) == ~errors /\ Agent(n) /\ UNCHANGED errors

MCFairSpec ==
  MCInit /\ [][MCNext]_<<errors, vars>> /\ \A n \in Nodes : WF_<<errors, vars>>(MCAgent(n))

\* Without disk errors every repair ends, with the whole block.
EndsRepaired == ~errors => BlockIsRepaired
=============================================================================

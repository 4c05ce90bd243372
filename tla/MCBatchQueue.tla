---------------------------- MODULE MCBatchQueue -----------------------------
(***************************************************************************)
(* Small instances of BatchQueue: every placement of 4 stripes of 2 blocks *)
(* on 3 nodes with distinct nodes in a stripe, so that 0, 1, ... 4 stripes *)
(* lose a block and, with batches of 2, the last batch may be short.       *)
(***************************************************************************)
EXTENDS BatchQueue

MCPlacements ==
  [Stripe -> {p \in [Block -> Nodes] : \A b, c \in Block : p[b] = p[c] => b = c}]
=============================================================================

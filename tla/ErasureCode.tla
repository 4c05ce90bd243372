---------------------------- MODULE ErasureCode -----------------------------
(***************************************************************************)
(* What the erasure codes share: a stripe of ecn blocks, the first eck of  *)
(* them data, each of ecw sub-packets; the id of a sub-packet is its block *)
(* times ecw plus its offset.  A code is given by the Joins it makes: a    *)
(* Join is a parent, its children and one coefficient per child.           *)
(***************************************************************************)
EXTENDS Galois, FiniteSets, TLC

CONSTANTS ecn, eck, ecw    \* _n, _k, _w

ErasureCodeAssumption ==
  /\ ecn \in Nat /\ eck \in 1 .. ecn - 1 /\ ecw \in Nat \ {0}

J(pidx, cidx, coefs) == [p |-> pidx, c |-> cidx, e |-> coefs]

Ones(cidx) == [i \in DOMAIN cidx |-> 1]

\* <<F(a), ..., F(b)>>
Row(a, b, F(_)) == [i \in 1 .. b - a + 1 |-> F(a + i - 1)]

\* The concatenation of F(a), ..., F(b).
Rows(a, b, F(_)) == FlattenSeq(Row(a, b, F))

\* The members of S, a set of numbers below max, in ascending order.
Ascending(S, max) == SelectSeq(Row(0, max - 1, LAMBDA i : i), LAMBDA i : i \in S)

SubPackets(blk) == Row(0, ecw - 1, LAMBDA j : blk * ecw + j)

\* Mutant: the coefficients of the children that are left out stay.
JoinNonZeroAllCoefs(pidx, cidx, coefs) ==
  LET used == SelectSeq([i \in DOMAIN cidx |-> i], LAMBDA i : coefs[i] # 0)
  IN  J(pidx, [i \in DOMAIN used |-> cidx[used[i]]], coefs)

\* The Join over the children with a coefficient other than 0.
JoinNonZero(pidx, cidx, coefs) ==
  LET used == SelectSeq([i \in DOMAIN cidx |-> i], LAMBDA i : coefs[i] # 0)
  IN  J(pidx, [i \in DOMAIN used |-> cidx[used[i]]], [i \in DOMAIN used |-> coefs[used[i]]])
=============================================================================

------------------------------- MODULE Lists --------------------------------
(***************************************************************************)
(* Lists that a loop makes of the entries it does not skip.                *)
(***************************************************************************)
EXTENDS Integers, Sequences, FiniteSets

\* The entries of s at the positions S, in their order.
Entries(s, S) ==
  [k \in 1 .. Cardinality(S) |-> s[CHOOSE i \in S : Cardinality({j \in S : j < i}) = k - 1]]
=============================================================================

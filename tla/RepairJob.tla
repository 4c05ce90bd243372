------------------------------ MODULE RepairJob ------------------------------
(***************************************************************************)
(* What a full-node repair promises, whatever threads and queues it uses:  *)
(* the stripes that lost a block are rebuilt in batches of at most         *)
(* BatchSize, no stripe is rebuilt twice, and the job is closed only when  *)
(* none is left.                                                           *)
(***************************************************************************)
EXTENDS Integers, FiniteSets

CONSTANTS Stripe,      \* ids of all the stripes
          BatchSize    \* the most stripes one step may rebuild

VARIABLES lost,        \* stripes with a block on the failed node
          rebuilt,     \* stripes rebuilt so far
          closed       \* the job has returned

vars == <<lost, rebuilt, closed>>

Init ==
  /\ lost \in SUBSET Stripe
  /\ rebuilt = {}
  /\ closed = FALSE

RebuildBatch ==
  /\ ~closed
  /\ \E batch \in SUBSET (lost \ rebuilt) :
       /\ batch # {}
       /\ Cardinality(batch) <= BatchSize
       /\ rebuilt' = rebuilt \cup batch
  /\ UNCHANGED <<lost, closed>>

Close ==
  /\ ~closed
  /\ rebuilt = lost
  /\ closed' = TRUE
  /\ UNCHANGED <<lost, rebuilt>>

Next == RebuildBatch \/ Close

Spec == Init /\ [][Next]_vars
=============================================================================

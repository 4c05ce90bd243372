-------------------------- MODULE ParallelSolution --------------------------
(***************************************************************************)
(* genRepairBatches of ParallelSolution as MulSim_parallel uses it: one    *)
(* thread divides the stripes into groups (Grouping), improves the groups  *)
(* as batches and delivers them (BatchImprove), the other one asks for     *)
(* batches from the start.  The sort of the batches by their sizes between *)
(* the two halves is left out: improve sorts them again, and ties may come *)
(* in any order there.                                                     *)
(***************************************************************************)
EXTENDS BatchImprove

CONSTANTS ecn,
          StripeLists,       \* the _stripe_list that are tried: sequences of sets of nodes
          Improved           \* bound: those of them whose groups are also improved

VARIABLES pc, to_repair, at, exchange, groups, matrix, belong, batches    \* Grouping

G == INSTANCE Grouping WITH best <- exchange, stripes <- place

\* A stripe alone always finds its helpers; a load is counted for every node.
ASSUME ParallelSolutionAssumption ==
  /\ G!GroupingAssumption
  /\ StripeLists \subseteq Seq(SUBSET Agents)
  /\ \A l \in StripeLists : \A s \in DOMAIN l :
       /\ Loads(l[s]) \subseteq [Cluster -> [in : Nat, out : Nat]]
       /\ fail_node_id \in l[s] =>
            G!IfInsert(l[s] \ {fail_node_id}, 1, G!NoRows, G!Free).ok

grouping == <<pc, to_repair, at, exchange, groups, matrix, belong, batches>>
vars == <<place, grouping, improving>>

Init == G!Init /\ ImproveInit /\ (place \notin Improved => mode = "improve")

\* findRepairBatchs, up to its return.
FindRepairBatches == gpc = "group" /\ G!Next /\ UNCHANGED improving

\* It has returned: improve or improve_enqueue begins.
Improve ==
  /\ pc = "done" /\ place \in Improved
  /\ StartImprove(batches) \/ DecodeNothing
  /\ UNCHANGED grouping

ImproveBatches == Improver /\ UNCHANGED grouping

Generator == FindRepairBatches \/ Improve \/ ImproveBatches
\* findRepairBatchs ends the process by exit.
Consumer == pc # "exit" /\ Consume /\ UNCHANGED grouping

Next == Generator \/ Consumer

\* The generator returns, or ends the process, or stops at the bound Improved.
Returned == gpc \in {"done", "crashed"} \/ pc = "exit" \/ (pc = "done" /\ place \notin Improved)

\* Two threads that are scheduled; without enqueue the consumer never runs.  The
\* first disjunction is WF_vars(Generator), which is enabled until it returns.
Spec == /\ Init /\ [][Next]_vars
        /\ []<>Returned \/ []<><<Generator>>_vars
        /\ WF_vars(Consumer)
-----------------------------------------------------------------------------
\* The properties of the first half, for the whole.
MatchingIsExact == G!MatchingIsExact
BenefitIsKept   == G!BenefitIsKept
=============================================================================

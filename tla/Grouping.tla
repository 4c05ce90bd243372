------------------------------ MODULE Grouping ------------------------------
(***************************************************************************)
(* The first half of ParallelSolution: findRepairBatchs divides the        *)
(* stripes with a block on the failed node into groups.  A stripe enters a *)
(* group when an assignment of nodes to stripes, kept by the Hungarian     *)
(* method, can give it _helpers_num nodes of its own.  A group that is not *)
(* full is then improved: greedy_replacement exchanges one of its stripes  *)
(* for another when further stripes fit after that.                        *)
(* Stripes have two numbers: one in _stripe_list (all of them) and one in  *)
(* _stripes_to_repair (the affected ones).  The code does not always use   *)
(* the right one; the places that take an index of _stripes_to_repair for  *)
(* one of _stripe_list are written TakenAs and StripeAt here.              *)
(***************************************************************************)
EXTENDS Lists, SequencesExt

CONSTANTS agents_num, ecn,
          fail_node_id,
          StripeLists        \* the _stripe_list that are tried: sequences of sets of nodes

Agents == 0 .. agents_num - 1
helpers_num == ecn - 1
stripes_per_group == (agents_num - 1) \div ecn

GroupingAssumption ==
  /\ agents_num \in Nat /\ ecn \in Nat \ {0} /\ fail_node_id \in Agents
  /\ agents_num > ecn
  /\ \A l \in StripeLists : \A s \in DOMAIN l : l[s] \subseteq Agents /\ Cardinality(l[s]) = ecn

VARIABLES
  pc,             \* "fill", "greedy", "format", "done", "exit": where findRepairBatchs is
  stripes,        \* _stripe_list: the nodes of each stripe
  to_repair,      \* _stripes_to_repair: the affected ones, as indices of stripes
  at,             \* fill: the loop's i; greedy: the pair <<src_id, row of des_id>> it tries next
  best,           \* greedy: best_src_id, best_des_id and _record_stripe_id, or <<>>
  groups,         \* _RepairGroup: indices of to_repair; the last group is the current one
  matrix,         \* its part of _bipartite_matrix: for each row the nodes that are set
  belong,         \* its part of _node_belong: the row a node is given to, 0 for none
  batches         \* what formatReconstructionSets returns

vars == <<pc, stripes, to_repair, at, best, groups, matrix, belong, batches>>

Affected(s) == fail_node_id \in stripes[s]
group == Last(groups)
\* _rg_num, with its _expand_ratio
rg_num == 3 * ((Len(to_repair) + stripes_per_group - 1) \div stripes_per_group)
ifselect == UNION {ToSet(groups[g]) : g \in DOMAIN groups}
Unselected == DOMAIN to_repair \ ifselect

Helpers(s) == stripes[s] \ {fail_node_id}
\* _stripe_list[_stripes_to_repair[i]]
StripeOf(i) == Helpers(to_repair[i])
\* The index of to_repair that is taken for one of stripes.
TakenAs(i) == i
StripeAt(i) == Helpers(TakenAs(i))

NoRows == [r \in 1 .. stripes_per_group |-> {}]
Free == [n \in Agents |-> 0]
-----------------------------------------------------------------------------
(***************************************************************************)
(* hungary: give row one more node; an owner that stands in the way is     *)
(* asked to take another one.  mark holds the nodes already looked at.     *)
(***************************************************************************)
Hungary(mat, bel, row) ==
  LET Marking == [found : BOOLEAN, mark : SUBSET Agents, belong : [Agents -> 0 .. stripes_per_group]]
      Match[r \in 1 .. stripes_per_group, m \in Marking] ==
        FoldLeft(LAMBDA s, n :
                   IF s.found \/ n \notin mat[r] \/ n \in s.mark THEN s
                   ELSE LET look == [s EXCEPT !.mark = @ \cup {n}]
                            next == IF look.belong[n] = 0 THEN [look EXCEPT !.found = TRUE]
                                    ELSE Match[look.belong[n], look]
                        IN  IF next.found THEN [next EXCEPT !.belong[n] = r] ELSE next,
                 m, [i \in 1 .. agents_num |-> i - 1])
  IN  Match[row, [found |-> FALSE, mark |-> {}, belong |-> bel]]

\* helpers_num rounds of it; after one that fails the others are not made.
Matched(mat, bel, row) ==
  FoldLeft(LAMBDA s, k : IF s.found THEN Hungary(mat, s.belong, row) ELSE s,
           [found |-> TRUE, belong |-> bel], [k \in 1 .. helpers_num |-> k])

\* Mutant: after a failure the nodes that were given away are not taken back.
IfInsertKeeping(nodes, row, mat, bel) ==
  LET set == [mat EXCEPT ![row] = @ \cup nodes]
      m == Matched(set, bel, row)
  IN  IF m.found THEN [ok |-> TRUE, matrix |-> set, belong |-> m.belong]
      ELSE [ok |-> FALSE, matrix |-> [mat EXCEPT ![row] = {}], belong |-> m.belong]

\* if_insert: the row is set before, and cleared when the stripe does not fit.
IfInsert(nodes, row, mat, bel) ==
  LET set == [mat EXCEPT ![row] = @ \cup nodes]
      m == Matched(set, bel, row)
  IN  IF m.found THEN [ok |-> TRUE, matrix |-> set, belong |-> m.belong]
      ELSE [ok |-> FALSE, matrix |-> [mat EXCEPT ![row] = {}], belong |-> bel]
-----------------------------------------------------------------------------
Init ==
  /\ pc = "fill"
  /\ stripes \in StripeLists
  /\ to_repair = Entries([s \in DOMAIN stripes |-> s], {s \in DOMAIN stripes : Affected(s)})
  /\ at = <<1, 0>> /\ best = <<>>
  /\ groups = << <<>> >>
  /\ matrix = NoRows /\ belong = Free
  /\ batches = <<>>

Full == Len(group) = stripes_per_group

\* The next stripe that is not selected is tried; a full group ends the loop.
Fill ==
  /\ pc = "fill"
  /\ at[1] \in DOMAIN to_repair /\ ~Full
  /\ at' = <<at[1] + 1, 0>>
  /\ IF at[1] \in ifselect THEN UNCHANGED <<groups, matrix, belong>>
     ELSE LET r == IfInsert(StripeOf(at[1]), Len(group) + 1, matrix, belong)
          IN  /\ matrix' = r.matrix /\ belong' = r.belong
              /\ groups' = IF r.ok THEN [groups EXCEPT ![Len(groups)] = Append(@, at[1])] ELSE groups
  /\ UNCHANGED <<pc, stripes, to_repair, best, batches>>

\* A group that nothing could be added to is the end; any other is improved.
Filled ==
  /\ pc = "fill"
  /\ at[1] \notin DOMAIN to_repair \/ Full
  /\ pc' = IF group = <<>> THEN "format" ELSE "greedy"
  /\ at' = <<1, 1>> /\ best' = <<>>
  /\ UNCHANGED <<stripes, to_repair, groups, matrix, belong, batches>>

\* Both kinds of replace begin with this: des leaves its row, src is tried there.
Exchange(src, row) ==
  IfInsert(StripeOf(src), row,
           [matrix EXCEPT ![row] = @ \ StripeAt(group[row])],
           [n \in Agents |-> IF belong[n] = row THEN 0 ELSE belong[n]])

\* One of the later stripes: it fits as well, or not, or the group is full with them.
AddOne(s, i) ==
  IF Len(group) + Len(s.addi) = stripes_per_group THEN s
  ELSE LET r == IfInsert(StripeOf(i), Len(group) + Len(s.addi) + 1, s.matrix, s.belong)
       IN  [addi |-> IF r.ok THEN Append(s.addi, i) ELSE s.addi,
            matrix |-> r.matrix, belong |-> r.belong]

\* The stripes that fit after the exchange x.
Additional(src, x) ==
  FoldLeft(AddOne, [addi |-> <<>>, matrix |-> x.matrix, belong |-> x.belong],
           Entries([i \in DOMAIN to_repair |-> i], {i \in Unselected : i > src})).addi

\* What replace("test_replace") leaves in the matrix; _node_belong is as before.
MatrixAfterTest(x, row) ==
  IF x.ok THEN [r \in DOMAIN NoRows |-> IF r <= Len(group) THEN StripeAt(group[r]) ELSE {}]
  ELSE [x.matrix EXCEPT ![row] = @ \cup StripeAt(group[row])]

MaxBenefit == best # <<>> /\ Len(best[3]) = stripes_per_group - Len(group)

\* ret > 0
Pays(x, addi) == addi # <<>>

\* One call of replace("test_replace"); one that pays ends the loop over des_id.
TestReplace ==
  /\ pc = "greedy" /\ ~Full /\ ~MaxBenefit
  /\ at[1] \in DOMAIN to_repair
  /\ IF at[1] \in ifselect THEN at' = <<at[1] + 1, 1>> /\ UNCHANGED <<best, matrix>>
     ELSE LET x == Exchange(at[1], at[2])
              addi == IF x.ok THEN Additional(at[1], x) ELSE <<>>
          IN  /\ matrix' = MatrixAfterTest(x, at[2])
              /\ best' = IF Pays(x, addi) THEN <<at[1], at[2], addi>> ELSE best
              /\ at' = IF Pays(x, addi) \/ at[2] = Len(group) THEN <<at[1] + 1, 1>>
                       ELSE <<at[1], at[2] + 1>>
  /\ UNCHANGED <<pc, stripes, to_repair, groups, belong, batches>>

\* Mutant: des_id is put back in its row, so that src_id is only tried.
PutInUndone(g, row, src) == g

\* _RepairGroup, and with it _ifselect, after the exchange.
PutIn(g, row, src) == [g EXCEPT ![row] = src]

SearchedAll == at[1] \notin DOMAIN to_repair \/ MaxBenefit

\* One stripe that is to come in; after one that does not fit none is tried.
Put(s, i) ==
  LET r == IfInsert(StripeAt(i), Len(s.group) + 1, s.matrix, s.belong)
  IN  IF ~s.ok THEN s
      ELSE [ok |-> r.ok, matrix |-> r.matrix, belong |-> r.belong,
            group |-> IF r.ok THEN Append(s.group, i) ELSE s.group]

\* replace("perform_replace"): the exchange again, then what it makes room for.
PerformReplace ==
  /\ pc = "greedy" /\ ~Full /\ SearchedAll /\ best # <<>>
  /\ LET x == Exchange(best[1], best[2])
         all == FoldLeft(Put, [ok |-> TRUE, matrix |-> x.matrix, belong |-> x.belong,
                               group |-> PutIn(group, best[2], best[1])], best[3])
     IN  /\ groups' = [groups EXCEPT ![Len(groups)] = all.group]
         /\ matrix' = all.matrix /\ belong' = all.belong
         /\ pc' = IF all.ok THEN "greedy" ELSE "exit"
  /\ at' = <<1, 1>> /\ best' = <<>>
  /\ UNCHANGED <<stripes, to_repair, batches>>

\* Nothing pays any more: the next group, unless rg_num is reached.
NextGroup ==
  /\ pc = "greedy"
  /\ Full \/ (SearchedAll /\ best = <<>>)
  /\ pc' = IF Len(groups) = rg_num THEN "exit" ELSE "fill"
  /\ groups' = Append(groups, <<>>)
  /\ matrix' = NoRows /\ belong' = Free
  /\ at' = <<1, 0>> /\ best' = <<>>
  /\ UNCHANGED <<stripes, to_repair, batches>>

\* formatReconstructionSets, for the groups that are not empty.
Format ==
  /\ pc = "format"
  /\ pc' = "done"
  /\ batches' = [g \in 1 .. Len(groups) - 1 |-> [r \in DOMAIN groups[g] |-> TakenAs(groups[g][r])]]
  /\ UNCHANGED <<stripes, to_repair, at, best, groups, matrix, belong>>

Next == Fill \/ Filled \/ TestReplace \/ PerformReplace \/ NextGroup \/ Format
-----------------------------------------------------------------------------
\* No unaffected stripe comes before an affected one, so that it does not matter
\* which of its two numbers is used for one.
InOrder == \A i \in DOMAIN to_repair : TakenAs(i) = to_repair[i]

(***************************************************************************)
(* Whatever was tried, undone and exchanged, the matching is that of the   *)
(* stripes which are in the group: each of its rows has been given all the *)
(* helpers of its stripe, and no node is held for a stripe that was only   *)
(* tried.  So the members of a group share no helper.                      *)
(***************************************************************************)
MatchingIsExact ==
  InOrder /\ pc \in {"fill", "greedy"} =>
    \A r \in 1 .. stripes_per_group :
      /\ matrix[r] = IF r <= Len(group) THEN StripeOf(group[r]) ELSE {}
      /\ {n \in Agents : belong[n] = r} = matrix[r]

(***************************************************************************)
(* An exchange that is performed brings in what its test promised: as many *)
(* stripes as were counted fit again, none is turned away (ERR-2), and the *)
(* one that leaves remains to be repaired.                                 *)
(***************************************************************************)
BenefitIsKept ==
  [][InOrder /\ best # <<>> /\ best' = <<>> =>
       /\ Len(group') = Len(group) + Len(best[3])
       /\ ToSet(best[3]) \subseteq ToSet(group')
       /\ group[best[2]] \in Unselected']_vars
=============================================================================

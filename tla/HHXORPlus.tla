------------------------------ MODULE HHXORPlus -----------------------------
(***************************************************************************)
(* Hitchhiker-XOR+ (ec/HHXORPlus.cc): two instances of a Reed-Solomon code *)
(* over the sub-packets 0 and 1 of the blocks (ecw = 2).  The parities of  *)
(* instance 1 carry in addition the sum of a group of data of instance 0,  *)
(* so that one data block is repaired from one instance and its group.     *)
(* What a parity is without the group ("uncoupled") and the sum of a group *)
(* ("group code") are vertices with ids after those of the stripe.         *)
(***************************************************************************)
EXTENDS ErasureCode

\* couple_parity_id: the parity that instance 0 couples as well.
couple == 1

groups == ecn - eck - 1
Pids == 1 .. groups

\* _pid_group_map: the data blocks of a group; the last data block is in none.
Group(pid) ==
  LET size == eck \div groups
  IN  Row((pid - 1) * size, IF pid < groups THEN pid * size - 1 ELSE eck - 2, LAMBDA b : b)

\* _layout
Sym(sp, node) == node * ecw + sp
Syms(sp, nodes) == [i \in DOMAIN nodes |-> Sym(sp, nodes[i])]

\* _pid_group_code_map, _uncoupled_code_layout, and the last virtual symbol.
GroupCode(pid) == ecn * ecw + pid

Uncoupled(sp, pid) ==
  CASE sp = 0 /\ pid = couple -> ecn * ecw
    [] sp = 1 /\ pid \in Pids -> ecn * ecw + groups + pid
    [] OTHER -> Sym(sp, eck + pid)
LastSymbol == ecn * ecw + 2 * groups + 1

\* generate_vandermonde_matrix: the row of a parity is the powers of a base.
PowersOf(base) ==
  LET power[j \in 0 .. eck - 1] == IF j = 0 THEN 1 ELSE Mul(power[j - 1], base)
  IN  Row(0, eck - 1, LAMBDA j : power[j])

\* _rs_encode_matrix: the first two parities are swapped, that of the ones is second.
EncRow(node) ==
  IF node < eck THEN Row(0, eck - 1, LAMBDA j : IF j = node THEN 1 ELSE 0)
  ELSE PowersOf(CASE node = eck -> 2 [] node = eck + 1 -> 1 [] OTHER -> node - eck + 1)

DataNodes == Row(0, eck - 1, LAMBDA b : b)

\* The sum of a group, of instance 0.
GroupJoin(pid) ==
  J(GroupCode(pid), Syms(0, Group(pid)),
    [i \in DOMAIN Group(pid) |-> EncRow(eck + couple)[Group(pid)[i] + 1]])

\* The coupled parities, from the uncoupled.
CoupleZero ==
  J(Sym(0, eck + couple), <<Uncoupled(0, couple), Uncoupled(1, couple), GroupCode(couple)>>,
    <<1, 1, 1>>)
CoupleOne(pid) == J(Sym(1, eck + pid), <<Uncoupled(1, pid), GroupCode(pid)>>, <<1, 1>>)

HHEncode ==
  Rows(0, 1, LAMBDA sp : Row(0, ecn - eck - 1, LAMBDA i :
               J(Uncoupled(sp, i), Syms(sp, DataNodes), EncRow(eck + i))))
    \o [pid \in Pids |-> GroupJoin(pid)] \o <<CoupleZero>> \o [pid \in Pids |-> CoupleOne(pid)]
-----------------------------------------------------------------------------
\* recover_matrix: the rows of the blocks that are read; and its inverse.
RecoverMatrix(nodes) == [i \in DOMAIN nodes |-> EncRow(nodes[i])]
Solve(nodes) == Invert(RecoverMatrix(nodes))

\* What node is of the blocks read; 0 stands for the rest of an inversion that failed.
OfRead(node, inv) ==
  IF inv = <<>> THEN [j \in 1 .. eck |-> 0] ELSE MatMul(<<EncRow(node)>>, inv)[1]

(***************************************************************************)
(* DecodeSingle, a data block: instance 1 is solved from the other data    *)
(* and the first parity.  This gives the uncoupled parity of the block's   *)
(* group, with the coupled one the sum of the group, and so the sub-packet *)
(* of instance 0.                                                          *)
(***************************************************************************)
DecodeInGroup(blk, uncouple, pid) ==
  LET others == SelectSeq(Group(pid), LAMBDA b : b # blk)
      pos    == SelectInSeq(Group(pid), LAMBDA b : b = blk)
      size   == Len(Group(pid))
      inv    == Invert([i \in 1 .. size |->
                  IF i = size THEN [j \in 1 .. size |-> EncRow(eck + couple)[Group(pid)[j] + 1]]
                  ELSE [j \in 1 .. size |-> IF Group(pid)[j] = others[i] THEN 1 ELSE 0]])
  IN  <<uncouple[pid],
        J(GroupCode(pid), <<Uncoupled(1, pid), Sym(1, eck + pid)>>, <<1, 1>>),
        J(Sym(0, blk), Append(Syms(0, others), GroupCode(pid)), inv[pos])>>

\* The last data block: the coupled parity of instance 0 less everything else.
DecodeLast(blk, uncouple) ==
  LET pairs == FlattenSeq([pid \in Pids |->
                 <<Uncoupled(1, pid), Sym(IF pid = couple THEN 0 ELSE 1, eck + pid)>>])
  IN  uncouple
        \o <<J(LastSymbol, pairs, Ones(pairs)),
             J(Sym(0, blk), <<LastSymbol>>, <<Div(1, EncRow(eck + couple)[blk + 1])>>)>>

DecodeSingle(blk) ==
  LET nodes == Append(SelectSeq(DataNodes, LAMBDA b : b # blk), eck)
      inv   == Solve(nodes)
      uncouple == [pid \in Pids |-> J(Uncoupled(1, pid), Syms(1, nodes), OfRead(eck + pid, inv))]
      own == {pid \in Pids : Contains(Group(pid), blk)}
  IN  <<J(Sym(1, blk), Syms(1, nodes), inv[blk + 1])>>
        \o (IF blk = eck - 1 THEN DecodeLast(blk, uncouple)
            ELSE DecodeInGroup(blk, uncouple, CHOOSE pid \in own : TRUE))

\* Mutant: only the parity of instance 0 is coupled again.
RecoupleZero(pids) == IF Contains(pids, couple) THEN <<CoupleZero>> ELSE <<>>

\* The lost parities are coupled again.
Recouple(pids) ==
  (IF Contains(pids, couple) THEN <<CoupleZero>> ELSE <<>>)
    \o [i \in DOMAIN pids |-> CoupleOne(pids[i])]

\* The eck blocks that are read.
FirstLeft(lost) == SubSeq(Ascending((0 .. ecn - 1) \ lost, ecn), 1, eck)

(***************************************************************************)
(* DecodeMultiple: both instances are solved from the first eck blocks     *)
(* that are left, instance 0 first, because the parities of instance 1 are *)
(* uncoupled with its groups; the lost parities are coupled again.         *)
(***************************************************************************)
DecodeMultiple(lost) ==
  LET nodes  == FirstLeft(lost)
      pids   == SelectSeq([i \in 1 .. eck |-> nodes[i] - eck], LAMBDA pid : pid \in Pids)
      failed == Ascending(lost, ecn)
      lostPids == SelectSeq([i \in DOMAIN failed |-> failed[i] - eck], LAMBDA pid : pid \in Pids)
      inv    == Solve(nodes)
      V(sp, node) == IF node < eck THEN Sym(sp, node) ELSE Uncoupled(sp, node - eck)
      From(sp) == [i \in 1 .. eck |-> V(sp, nodes[i])]
      Solved(sp, node) == J(V(sp, node), From(sp), OfRead(node, inv))
  IN  (IF Contains(pids, couple)
         THEN <<J(Uncoupled(0, couple), <<Sym(0, eck + couple), Sym(1, eck + couple)>>, <<1, 1>>)>>
         ELSE <<>>)
        \o FlattenSeq([i \in DOMAIN failed |->
             <<Solved(0, failed[i])>>
               \o (IF failed[i] - eck \in Pids THEN <<GroupJoin(failed[i] - eck)>> ELSE <<>>)])
        \o FlattenSeq([i \in DOMAIN pids |->
             <<GroupJoin(pids[i]),
               J(Uncoupled(1, pids[i]), <<Sym(1, eck + pids[i]), GroupCode(pids[i])>>, <<1, 1>>)>>])
        \o [i \in DOMAIN failed |-> Solved(1, failed[i])]
        \o Recouple(lostPids)

\* Decode: one data block in the cheap way, all else as several blocks.
HHDecode(lost) ==
  IF Cardinality(lost) = 1 /\ lost \subseteq 0 .. eck - 1
    THEN DecodeSingle(CHOOSE b \in lost : TRUE) ELSE DecodeMultiple(lost)

\* GetRequiredSymbolsSingle: what the repair of one block asks for.
RequiredSymbols(blk) ==
  LET own == {pid \in Pids : Contains(Group(pid), blk)}
      Of(pid) == {Sym(0, b) : b \in ToSet(Group(pid)) \ {blk}} \cup {Sym(1, eck + pid)}
  IN  IF blk >= eck THEN {Sym(sp, b) : sp \in {0, 1}, b \in 0 .. eck - 1}
      ELSE {Sym(1, b) : b \in (0 .. eck) \ {blk}}
             \cup (IF blk < eck - 1 THEN UNION {Of(pid) : pid \in own}
                   ELSE {Sym(1, eck + pid) : pid \in Pids \ {couple}} \cup {Sym(0, eck + couple)})
=============================================================================

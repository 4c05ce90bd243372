-------------------------------- MODULE Clay --------------------------------
(***************************************************************************)
(* The coupled-layer code (ec/Clay.cc), as the system constructs it: every *)
(* surviving block helps (d = ecn - 1).  The blocks, and nu virtual blocks *)
(* after the data, stand in a grid of t columns of q nodes, node y * q + x *)
(* at (x, y).  A sub-packet z is a plane: its digits base q select one     *)
(* node of each column, which is unpaired there; any other is paired with  *)
(* a sub-packet of the node selected in its column.  Paired sub-packets    *)
(* are stored coupled; uncoupled, a plane is a codeword of an MDS code.    *)
(***************************************************************************)
EXTENDS ErasureCode

q == ecn - eck
nu == (q - (ecn % q)) % q
t == (ecn + nu) \div q

ClayAssumption == ecw = q^t

\* get_plane_vector
Digit(z, y) == (z \div q^(t - 1 - y)) % q

\* _short2real: the virtual blocks come last.
RealNode(node) ==
  IF node < eck THEN node ELSE IF node < eck + nu THEN ecn + node - eck ELSE node - nu

\* The id of a sub-packet.
Coupled(node, z) == RealNode(node) * ecw + z

\* The node of a block.
ShortNode(blk) == IF blk < eck THEN blk ELSE blk + nu

Unpaired(node, z) == Digit(z, node \div q) = node % q

\* The id of a sub-packet uncoupled, which is itself when it is unpaired (_identical).
Uncoupled(node, z) == (IF Unpaired(node, z) THEN 0 ELSE (ecn + nu) * ecw) + Coupled(node, z)

(***************************************************************************)
(* A pair is four vertices: 0 and 1 coupled, 2 and 3 uncoupled, 0 and 2 of *)
(* the node with the greater x.  Any two make the others.                  *)
(***************************************************************************)
PairRow == <<<<1, 0>>, <<0, 1>>, <<1, 1>>, <<1, 2>>>>

\* z_sw
Swapped(x, y, z) == z + (x - Digit(z, y)) * q^(t - 1 - y)

Ids(hi, lo) ==
  <<Coupled(hi[1], hi[2]), Coupled(lo[1], lo[2]), Uncoupled(hi[1], hi[2]), Uncoupled(lo[1], lo[2])>>

PairIds(x, y, z) ==
  LET here  == <<y * q + x, z>>
      other == <<y * q + Digit(z, y), Swapped(x, y, z)>>
  IN  IF Digit(z, y) < x THEN Ids(here, other) ELSE Ids(other, here)

\* Vertex p[1] out of a pair, from its vertices p[2] and p[3].
PairJoin(p, id) ==
  J(id[p[1] + 1], <<id[p[2] + 1], id[p[3] + 1]>>,
    MatMul(<<PairRow[p[1] + 1]>>, Invert(<<PairRow[p[2] + 1], PairRow[p[3] + 1]>>))[1])

PairJoins(list, x, y, z) == [i \in DOMAIN list |-> PairJoin(list[i], PairIds(x, y, z))]

\* What the functions get_..._from_... join, by name.
UncoupledFromCoupled     == <<<<2, 0, 1>>, <<3, 0, 1>>>>
CoupledFromUncoupled     == <<<<0, 2, 3>>, <<1, 2, 3>>>>
Coupled10FromUncoupled   == <<<<0, 2, 3>>, <<1, 2, 3>>>>
Uncoupled2FromCoupled    == <<<<2, 0, 1>>>>
Uncoupled3FromCoupled    == <<<<3, 0, 1>>>>
Uncoupled3FromCoupled02  == <<<<3, 1, 2>>>>
Uncoupled2FromCoupled03  == <<<<2, 0, 3>>>>
Coupled1FromPair02       == <<<<1, 0, 2>>>>
Coupled0FromPair12       == <<<<0, 1, 2>>>>
Coupled1FromPair03       == <<<<1, 0, 3>>>>
Coupled0FromPair13       == <<<<0, 1, 3>>>>
-----------------------------------------------------------------------------
\* generate_matrix: the identity, and below it the powers of 1, 2, 3...
MdsRow(node) ==
  LET k == eck + nu
      power[j \in 0 .. k - 1] == IF j = 0 THEN 1 ELSE Mul(power[j - 1], node - k + 1)
  IN  IF node < k THEN [j \in 1 .. k |-> IF j = node + 1 THEN 1 ELSE 0]
      ELSE [j \in 1 .. k |-> power[j - 1]]

\* The nodes from which the erased ones are solved: the first that are not erased.
Selected(erased) ==
  SubSeq(Ascending((0 .. q * t - 1) \ ToSet(erased), q * t), 1, eck + nu)

\* What the erased nodes of a plane are of the selected ones.
SolvedRows(erased) ==
  MatMul([i \in DOMAIN erased |-> MdsRow(erased[i])],
         Invert([i \in 1 .. eck + nu |-> MdsRow(Selected(erased)[i])]))

\* decode_uncoupled: plane z of the erased nodes, uncoupled.
DecodeUncoupled(erased, rows, z) ==
  LET from == Selected(erased)
  IN  [i \in DOMAIN erased |->
         J(Uncoupled(erased[i], z), [j \in DOMAIN from |-> Uncoupled(from[j], z)], rows[i])]

\* A node that is not erased, uncoupled: with its pair, or on its own.
Uncouple(erased, x, y, z) ==
  LET erasedSw == Contains(erased, y * q + Digit(z, y))
  IN  PairJoins(
        CASE Contains(erased, y * q + x) \/ Digit(z, y) = x -> <<>>
          [] Digit(z, y) < x /\ ~erasedSw -> UncoupledFromCoupled
          [] Digit(z, y) < x /\ erasedSw -> Uncoupled2FromCoupled03
          [] Digit(z, y) > x /\ erasedSw -> Uncoupled3FromCoupled02
          [] OTHER -> <<>>,
        x, y, z)

\* decode_erasures
DecodeErasures(erased, rows, z) ==
  Rows(0, q - 1, LAMBDA x : Rows(0, t - 1, LAMBDA y : Uncouple(erased, x, y, z)))
    \o DecodeUncoupled(erased, rows, z)

(***************************************************************************)
(* An erased node, coupled again: when no node of its column is erased and *)
(* unpaired (is_erasure_type_1) from the stored half of the pair, and both *)
(* together otherwise.                                                     *)
(***************************************************************************)
Couple(erased, node, z, type1) ==
  LET x == node % q   y == node \div q
      alone == type1 /\ ~Contains(erased, y * q + Digit(z, y))
  IN  PairJoins(
        CASE Digit(z, y) = x -> <<>>
          [] Digit(z, y) < x /\ alone -> Coupled0FromPair12
          [] Digit(z, y) > x /\ alone -> Coupled1FromPair03
          [] Digit(z, y) < x /\ ~alone -> CoupledFromUncoupled
          [] OTHER -> <<>>,
        x, y, z)

\* set_planes_sequential_decoding_order
Order(erased, z) == Cardinality({i \in DOMAIN erased : Unpaired(erased[i], z)})

\* get_hamming_weight of the columns
Weight(erased) == Cardinality({erased[i] \div q : i \in DOMAIN erased})

(***************************************************************************)
(* decode_layered: the planes with fewer erased nodes unpaired first; all  *)
(* planes of an order are decoded, then coupled, for the next to use.      *)
(***************************************************************************)
Layered(erased, type1) ==
  LET rows == SolvedRows(erased)
      OfOrder(w, z) == Order(erased, z) = w
  IN  Rows(0, Weight(erased), LAMBDA w :
        Rows(0, ecw - 1, LAMBDA z : IF OfOrder(w, z) THEN DecodeErasures(erased, rows, z) ELSE <<>>)
          \o Rows(0, ecw - 1, LAMBDA z :
               IF OfOrder(w, z)
                 THEN FlattenSeq([i \in DOMAIN erased |-> Couple(erased, erased[i], z, type1)])
                 ELSE <<>>))

\* Encode: the same loop for the parities, without the type of an erasure.
ClayEncode == Layered(Row(eck + nu, ecn + nu - 1, LAMBDA i : i), FALSE)
-----------------------------------------------------------------------------
\* get_repair_subchunks: the planes in which a node is unpaired.
RepairSubchunks(node) == SelectSeq(Row(0, ecw - 1, LAMBDA z : z), LAMBDA z : Unpaired(node, z))

\* A node outside the lost column, uncoupled from what is read of its pair.
UncoupleHelper(node, z) ==
  LET x == node % q   y == node \div q
  IN  PairJoins(
        CASE Digit(z, y) < x -> Uncoupled2FromCoupled
          [] Digit(z, y) > x -> Uncoupled3FromCoupled
          [] OTHER -> <<>>,
        x, y, z)

\* Mutant: a helper takes the uncoupled sub-packet of the lost node, not its own.
CoupleOtherHalf(lostNodes, node, z) ==
  LET x == node % q   y == node \div q
  IN  PairJoins(
        CASE node \notin lostNodes /\ Digit(z, y) < x -> Coupled1FromPair03
          [] node \notin lostNodes /\ Digit(z, y) > x -> Coupled0FromPair12
          [] node \in lostNodes /\ x < Digit(z, y) -> Coupled10FromUncoupled
          [] OTHER -> <<>>,
        x, y, z)

\* A node of the lost column: a helper gives the lost half of its pair, a lost node its own pair.
CoupleLost(lostNodes, node, z) ==
  LET x == node % q   y == node \div q
  IN  PairJoins(
        CASE node \notin lostNodes /\ Digit(z, y) < x -> Coupled1FromPair02
          [] node \notin lostNodes /\ Digit(z, y) > x -> Coupled0FromPair13
          [] node \in lostNodes /\ x < Digit(z, y) -> Coupled10FromUncoupled
          [] OTHER -> <<>>,
        x, y, z)

(***************************************************************************)
(* repair_one_lost_chunk: only the planes in which a lost node is unpaired *)
(* are read.  All of them have one lost node of the column unpaired, hence *)
(* a single order.                                                         *)
(***************************************************************************)
RepairColumn(lostNodes) ==
  LET lostSeq == Ascending(lostNodes, q * t)
      y0      == lostSeq[1] \div q
      column  == Row(y0 * q, y0 * q + q - 1, LAMBDA i : i)
      rows    == SolvedRows(column)
      InColumn(node) == Contains(column, node)
      Plane(z) ==
        Rows(0, q * t - 1, LAMBDA node : IF InColumn(node) THEN <<>> ELSE UncoupleHelper(node, z))
          \o DecodeUncoupled(column, rows, z)
          \o FlattenSeq([i \in DOMAIN column |-> CoupleLost(lostNodes, column[i], z)])
  IN  FlattenSeq([i \in DOMAIN lostSeq |->
        LET planes == RepairSubchunks(lostSeq[i])
        IN  FlattenSeq([j \in DOMAIN planes |-> Plane(planes[j])])])

(***************************************************************************)
(* is_repair, with all other blocks at hand: one block, or several of one  *)
(* column (which are told by their ids without the virtual blocks: several *)
(* lost blocks are modelled for nu = 0 only).                              *)
(***************************************************************************)
IsRepair(lost) ==
  \/ Cardinality(lost) = 1
  \/ Cardinality(lost) <= q - 1 /\ \E y \in 0 .. t - 1 : \A b \in lost : b \div q = y

\* rs_minimum_to_decode, decode_chunks: the first eck blocks are read, all others are erased.
RsDecode(lost) ==
  LET read == SubSeq(Ascending((0 .. ecn - 1) \ lost, ecn), 1, eck)
      erased == Ascending((0 .. ecn - 1) \ ToSet(read), ecn)
  IN  Layered([i \in DOMAIN erased |-> ShortNode(erased[i])], TRUE)

\* Decode
ClayDecode(lost) ==
  IF IsRepair(lost) THEN RepairColumn({ShortNode(b) : b \in lost}) ELSE RsDecode(lost)
=============================================================================

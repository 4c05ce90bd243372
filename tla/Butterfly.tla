----------------------------- MODULE Butterfly ------------------------------
(***************************************************************************)
(* The butterfly code (ec/BUTTERFLY.cc): two parity blocks, H of rows and  *)
(* B of butterflies, over eck data blocks of ecw = 2^(eck-1) sub-packets.  *)
(* A matrix is a sequence of rows, and a row a list of the sub-packets     *)
(* whose sum it stands for.  One block is repaired from half of every      *)
(* other block.                                                            *)
(***************************************************************************)
EXTENDS ErasureCode

Half == ecw \div 2

PermMat(mat) == Reverse(mat)
AddMat(m1, m2) == [i \in DOMAIN m1 |-> m1[i] \o m2[i]]

Column(mat, j) == [i \in DOMAIN mat |-> <<mat[i][j]>>]
ColumnsFrom(mat, j, last) == [i \in DOMAIN mat |-> SubSeq(mat[i], j, last)]
Top(mat, rows) == SubSeq(mat, 1, rows \div 2)
Lower(mat, rows) == SubSeq(mat, rows \div 2 + 1, rows)

\* butterfly_func: the parities of the first cols columns of mat.
RECURSIVE ButterflyFunc(_, _, _)
ButterflyFunc(mat, rows, cols) ==
  IF rows = 1 /\ cols = 1 THEN <<<<mat[1][1]>>>>
  ELSE IF rows = 2 /\ cols = 2
         THEN <<<<mat[2][1], mat[1][2]>>, <<mat[1][1], mat[1][2], mat[2][2]>>>>
         ELSE LET a == Column(Top(mat, rows), 1)
                  b == Column(Lower(mat, rows), 1)
                  A == ColumnsFrom(Top(mat, rows), 2, cols)
                  B == ColumnsFrom(Lower(mat, rows), 2, cols)
                  Deeper(m) == ButterflyFunc(m, rows \div 2, cols - 1)
              IN  AddMat(PermMat(b), Deeper(A))
                    \o PermMat(AddMat(AddMat(a, A), Deeper(PermMat(B))))

\* init_mat: row i holds the sub-packets i of all the blocks.
InitMat == [i \in 1 .. ecw |-> Row(0, ecn - 1, LAMBDA j : j * ecw + i - 1)]
EncVec == ButterflyFunc(InitMat, ecw, eck)
-----------------------------------------------------------------------------
(***************************************************************************)
(* Encoding.                                                               *)
(***************************************************************************)
\* The coefficients of a row: 1 where a list names the sub-packet, 0 elsewhere.
Marks(list, cells) == [i \in DOMAIN cells |-> IF Contains(list, cells[i]) THEN 1 ELSE 0]

DataCells == Rows(0, eck - 1, SubPackets)

\* generate_encoding_matrix: row parities, then butterfly parities.
EncRow(i) ==
  IF i < ecw THEN Marks(Row(0, eck - 1, LAMBDA j : j * ecw + i), DataCells)
  ELSE Marks(EncVec[i - ecw + 1], DataCells)

ButterflyEncode == Row(0, 2 * ecw - 1, LAMBDA i : J(eck * ecw + i, DataCells, EncRow(i)))
-----------------------------------------------------------------------------
(***************************************************************************)
(* Decoding one block.                                                     *)
(***************************************************************************)
Toggle(row, x) ==
  IF Contains(row, x) THEN SelectSeq(row, LAMBDA y : y # x) ELSE Append(row, x)

\* insert: an offset that has a row keeps it.
Put(dec, i, row) == dec @@ (i :> row)

At(rows, i) == InitMat[rows[i] + 1]

\* Situation 1: the offsets that repair a data block before the last.
ReadOffsets(blk) ==
  Ascending({i \in 0 .. ecw - 1 : (i \div 2^(eck - blk - 2)) % 4 \in {0, 3}}, ecw)

(***************************************************************************)
(* The rows of a lost data block (situations 1 and 2).  The offsets offH   *)
(* follow from row parities; each butterfly parity at offB then gives one  *)
(* more, from those already known.  Which of the offsets in a butterfly    *)
(* is the new one, New says.                                               *)
(***************************************************************************)
DataRows(blk, offH, offB, New(_)) ==
  LET repair == [i \in DOMAIN offH |-> SelectSeq(SubSeq(At(offH, i), 1, eck),
                                                 LAMBDA v : v \div ecw # blk)]
      h == AddMat(repair, [i \in DOMAIN offH |-> <<At(offH, i)[eck + 1]>>])
      b == AddMat(ButterflyFunc(repair, Half, eck - 1),
                  [i \in DOMAIN offB |-> <<At(offB, i)[eck + 2]>>])
      known == FoldLeft(LAMBDA dec, i : Put(dec, offH[i], h[i]), <<>>,
                        [i \in DOMAIN offH |-> i])
      Own(i) == LET own == SelectSeq(EncVec[offB[i] + 1], LAMBDA v : v \div ecw = blk)
                IN  [x \in DOMAIN own |-> own[x] % ecw]
      Next(dec, i) ==
        LET fresh == SelectSeq(Own(i), New)
            used  == FlattenSeq(<<<<>>>> \o [x \in DOMAIN SelectSeq(Own(i), LAMBDA o : ~New(o)) |->
                                    dec[SelectSeq(Own(i), LAMBDA o : ~New(o))[x]]])
        IN  Put(dec, fresh[Len(fresh)], FoldLeft(Toggle, b[i], used))
  IN  FoldLeft(Next, known, [i \in DOMAIN offB |-> i])

(***************************************************************************)
(* The rows of a lost block H (situation 3): the lower half are sums of    *)
(* rows of data; the lower butterflies, less the lower data, leave the     *)
(* sums of the upper half.                                                 *)
(***************************************************************************)
ParityHRows ==
  LET off == Row(Half, ecw - 1, LAMBDA i : i)
      known == FoldLeft(LAMBDA dec, i : Put(dec, off[i], SubSeq(At(off, i), 1, eck)), <<>>,
                        [i \in DOMAIN off |-> i])
      Low(v) == v % ecw < Half
      Next(dec, i) ==
        LET e   == EncVec[off[i] + 1]
            low == SelectSeq(e, Low)
        IN  Put(dec, low[Len(low)] % ecw,
                Append(SelectSeq(e, LAMBDA v : ~Low(v)), At(off, i)[eck + 2]))
  IN  FoldLeft(Next, known, [i \in DOMAIN off |-> i])

\* The sub-packets that are read, and the Joins of the rows over them.
RowJoins(blk, data, rows) ==
  Row(0, ecw - 1, LAMBDA i : JoinNonZero(blk * ecw + i, data, Marks(rows[i], data)))

OtherBlocks(blk, Off(_)) ==
  FlattenSeq([b \in 1 .. ecn |->
    IF b - 1 = blk THEN <<>>
    ELSE [i \in DOMAIN Off(b - 1) |-> (b - 1) * ecw + Off(b - 1)[i]]])

DecodeDataBlock(blk) ==
  LET off == ReadOffsets(blk)
  IN  RowJoins(blk, OtherBlocks(blk, LAMBDA b : off),
               DataRows(blk, off, off, LAMBDA o : ~Contains(off, o)))

DecodeLastData(blk) ==
  LET odd  == Ascending({i \in 0 .. ecw - 1 : i % 2 = 1}, ecw)
      even == Ascending({i \in 0 .. ecw - 1 : i % 2 = 0}, ecw)
  IN  RowJoins(blk, OtherBlocks(blk, LAMBDA b : IF b = ecn - 1 THEN odd ELSE even),
               DataRows(blk, even, odd, LAMBDA o : Contains(odd, o)))

DecodeH(blk) ==
  RowJoins(blk, OtherBlocks(blk, LAMBDA b : Row(Half, ecw - 1, LAMBDA i : i)), ParityHRows)

\* generate_xor_data_matrix: of the lower butterflies, from the last up, the
\* part that data block sid has in them.
XorData(sid) ==
  [i \in 1 .. Half |-> SelectSeq(EncVec[ecw + 1 - i], LAMBDA v : v \div ecw = sid)]

(***************************************************************************)
(* A lost block B (situation 4).  Each data block but the first sends the  *)
(* sums it has in the lower butterflies, under new ids after those of the  *)
(* stripe; the first sends its upper half, and H its lower half.  The cells*)
(* of the matrix are numbered in the order of this data.                   *)
(***************************************************************************)
Tmp(sid, i) == ecn * ecw + (sid - 1) * Half + i - 1

XorJoins(sid) ==
  [i \in 1 .. Half |->
     JoinNonZero(Tmp(sid, i), SubPackets(sid), Marks(XorData(sid)[i], SubPackets(sid)))]

BRows ==
  LET init   == [i \in 1 .. Half |-> Row(0, ecn - 1, LAMBDA j : (j * ecw) \div 2 + i - 1)]
      repair == ColumnsFrom(init, 2, eck)
      top    == AddMat(ButterflyFunc(repair, Half, eck - 1), PermMat(Column(init, eck + 1)))
  IN  top \o AddMat(PermMat(Column(init, 1)), PermMat(repair))

DecodeB(blk) ==
  LET data == Row(0, Half - 1, LAMBDA i : i)
                \o Rows(1, eck - 1, LAMBDA sid : [i \in 1 .. Half |-> Tmp(sid, i)])
                \o Row(Half, ecw - 1, LAMBDA i : eck * ecw + i)
      cells == Row(0, Len(data) - 1, LAMBDA i : i)
  IN  Rows(1, eck - 1, XorJoins)
        \o Row(0, ecw - 1, LAMBDA i : JoinNonZero(blk * ecw + i, data, Marks(BRows[i + 1], cells)))

\* Decode: which of the four situations a lost block is.
ButterflyDecode(lost) ==
  LET blk == CHOOSE b \in lost : TRUE
  IN  CASE blk < eck - 1 -> DecodeDataBlock(blk)
        [] blk = eck - 1 -> DecodeLastData(blk)
        [] blk = eck     -> DecodeH(blk)
        [] blk = eck + 1 -> DecodeB(blk)
=============================================================================

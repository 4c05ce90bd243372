-------------------------------- MODULE Rdp ---------------------------------
(***************************************************************************)
(* RDP (ec/RDP.cc): a row parity block and a diagonal parity block over    *)
(* eck = p - 1 data blocks.                                                *)
(***************************************************************************)
EXTENDS ErasureCode

p == eck + 1

\* _idx2diag
Diag(row, col) == (row + col) % p

\* _diag2data: the data and row parity sub-packets of a diagonal.
Diag2Data(d) ==
  SelectSeq(FlattenSeq([r \in 1 .. ecw |->
                          Row(0, ecn - 1, LAMBDA col : col * ecw + r - 1)]),
            LAMBDA idx : idx < p * ecw /\ Diag(idx % ecw, idx \div ecw) = d)

\* _diag2code: the parity sub-packets of the diagonals, the first for each.
Diag2Code ==
  [d \in {Diag(r, c) : r \in 0 .. ecw - 1, c \in p .. ecn - 1} \cap (0 .. ecw - 1) |->
     CHOOSE idx \in p * ecw .. ecn * ecw - 1 : Diag(idx % ecw, idx \div ecw) = d]

RdpEncode ==
  Row(0, ecw - 1, LAMBDA i : LET data == Row(0, eck - 1, LAMBDA j : j * ecw + i)
                             IN  J(eck * ecw + i, data, Ones(data)))
    \o [i \in 1 .. Cardinality(DOMAIN Diag2Code) |->
          LET d == Ascending(DOMAIN Diag2Code, ecw)[i]
          IN  J(Diag2Code[d], Diag2Data(d), Ones(Diag2Data(d)))]

\* The other sub-packets of the row, of the data and of the row parity.
RowWithout(blk, i) ==
  SelectSeq(Row(0, p - 1, LAMBDA j : j * ecw + i), LAMBDA v : v \div ecw # blk)

\* Decode of one block: the diagonal parity by diagonals, the others by rows.
RdpDecode(lost) ==
  LET blk == CHOOSE b \in lost : TRUE
  IN  Row(0, ecw - 1, LAMBDA i :
            LET data == IF blk # ecn - 1 THEN RowWithout(blk, i)
                        ELSE Diag2Data((ecn - 1 + i) % p)
            IN  J(blk * ecw + i, data, Ones(data)))
=============================================================================

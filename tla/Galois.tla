------------------------------- MODULE Galois --------------------------------
(***************************************************************************)
(* The arithmetic the codes and the agents compute with, as Computation    *)
(* has it from the galois and jerasure libraries: GF(2^8) with the         *)
(* polynomial 0x11D, and matrices over it, as sequences of rows.           *)
(***************************************************************************)
EXTENDS Integers, Sequences, SequencesExt

Xor(a, b) ==
  LET low[i \in 0 .. 8] ==
        IF i = 0 THEN 0
        ELSE low[i - 1] + 2^(i - 1) * ((a \div 2^(i - 1) + b \div 2^(i - 1)) % 2)
  IN  low[8]

Twice(x) == IF x < 128 THEN 2 * x ELSE Xor(2 * x - 256, 29)

\* galois_single_multiply, here by shifting and adding.
Mul(x, y) ==
  LET high[i \in 0 .. 8] ==
        IF i = 0 THEN 0 ELSE Xor(Twice(high[i - 1]), IF (y \div 2^(8 - i)) % 2 = 1 THEN x ELSE 0)
  IN  IF x = 0 \/ y = 0 THEN 0 ELSE IF x = 1 THEN y ELSE IF y = 1 THEN x ELSE high[8]

\* galois_single_divide
Div(x, y) == IF x = 0 THEN 0 ELSE IF y = 0 THEN -1 ELSE CHOOSE q \in 1 .. 255 : Mul(y, q) = x

XorAll(s) ==
  LET upTo[i \in 0 .. Len(s)] == IF i = 0 THEN 0 ELSE Xor(upTo[i - 1], s[i])
  IN  upTo[Len(s)]

\* jerasure_matrix_multiply, matrices as sequences of rows.
MatMul(m1, m2) ==
  [i \in DOMAIN m1 |-> [j \in DOMAIN m2[1] |->
     XorAll([k \in DOMAIN m2 |-> Mul(m1[i][k], m2[k][j])])]]

RowPlus(a, f, b) == [x \in DOMAIN a |-> Xor(a[x], Mul(f, b[x]))]

(***************************************************************************)
(* jerasure_invert_matrix: m, with the identity on its right, is brought   *)
(* to upper triangular form and then to the identity; a zero on the        *)
(* diagonal is replaced from the first row below that has none.  The       *)
(* result is <<>> when the matrix cannot be inverted.                      *)
(***************************************************************************)
Invert(m) ==
  LET size == Len(m)
      Swap(rows, i, j) == [rows EXCEPT ![i] = rows[j], ![j] = rows[i]]
      Scaled(row, f) == [x \in DOMAIN row |-> Mul(row[x], f)]
      Below(rows, i, top) ==
        [j \in DOMAIN rows |-> IF j < i THEN rows[j] ELSE IF j = i THEN top
                               ELSE RowPlus(rows[j], rows[j][i], top)]
      Reduce(rows, i) == Below(rows, i, Scaled(rows[i], Div(1, rows[i][i])))
      First(S) == CHOOSE i \in S : \A j \in S : i <= j
      Pivot(rows, i, from) == IF from = {} THEN <<>> ELSE Reduce(Swap(rows, i, First(from)), i)
      Down(rows, i) ==
        IF rows = <<>> THEN <<>> ELSE Pivot(rows, i, {j \in i .. size : rows[j][i] # 0})
      Up(rows, i) ==
        [j \in DOMAIN rows |-> IF j < i THEN RowPlus(rows[j], rows[j][i], rows[i]) ELSE rows[j]]
      Right(rows) == [i \in DOMAIN rows |-> SubSeq(rows[i], size + 1, 2 * size)]
      order == [i \in 1 .. size |-> i]
      withIdentity == [i \in 1 .. size |-> m[i] \o [j \in 1 .. size |-> IF i = j THEN 1 ELSE 0]]
  IN  Right(FoldRight(LAMBDA i, rows : Up(rows, i), order, FoldLeft(Down, withIdentity, order)))
=============================================================================

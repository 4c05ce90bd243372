--------------------------- MODULE CommandProofs ----------------------------
(***************************************************************************)
(* Proofs about the bytes of commands: whatever is built is resolved to    *)
(* the same command, all of it, and is written inside the buffer.          *)
(***************************************************************************)
EXTENDS Command, WellFoundedInduction, TLAPS

IntField == {"int"} \X Int
StrField == {"str"} \X Name
Field == IntField \cup StrField
Cell == ({"int"} \X Int \X (1 .. 4)) \cup ({"char"} \X STRING)
Width(f) == Len(Cells(f))

\* The field f is at position p of the cells c.
HoldsIn(c, p, f) ==
  /\ p \in Nat /\ p + Width(f) <= Len(c)
  /\ \A k \in 1 .. Width(f) : c[p + k] = Cells(f)[k]

Holds(p, f) == HoldsIn(cells, p, f)

\* The fields fs follow each other in c from p to e; field i ends at off[i].
Lies(c, off, p, fs, e) ==
  /\ off \in [0 .. Len(fs) -> Nat] /\ off[0] = p /\ off[Len(fs)] = e
  /\ \A i \in 1 .. Len(fs) : off[i] = off[i - 1] + Width(fs[i]) /\ HoldsIn(c, off[i - 1], fs[i])

LieIn(c, p, fs, e) == \E off : Lies(c, off, p, fs, e)
Lie(p, fs, e) == LieIn(cells, p, fs, e)
-----------------------------------------------------------------------------
(***************************************************************************)
(* Numbers and sequences.                                                  *)
(***************************************************************************)
LEMMA LeastElement ==
  ASSUME NEW S \in SUBSET Nat, S # {}
  PROVE  \E x \in S : \A y \in S : x <= y
<1> DEFINE R == OpToRel(<, Nat)
<1>1. IsWellFoundedOn(R, Nat)
  BY NatLessThanWellFounded
<1>2. PICK x \in S : \A y \in S : ~(<<y, x>> \in R)
  BY <1>1, WFMin, Zenon
<1>3. \A y \in S : ~(y < x)
  BY <1>2 DEF OpToRel
<1> QED BY <1>3

\* A set of numbers that goes on from each of its elements up to n.
LEMMA UpToN ==
  ASSUME NEW n \in Nat, NEW S, 0 \in S, \A m \in 0 .. n - 1 : m \in S => m + 1 \in S
  PROVE  n \in S
<1> DEFINE Out == {m \in 0 .. n : m \notin S}
<1>1. ASSUME Out # {} PROVE FALSE
  <2>1. Out \in SUBSET Nat
    OBVIOUS
  <2>2. PICK x \in Out : \A y \in Out : x <= y
    <3> HIDE DEF Out
    <3> QED BY <1>1, <2>1, LeastElement
  <2>3. x \in 1 .. n
    BY <2>2
  <2>4. x - 1 \in 0 .. n - 1 /\ (x - 1) + 1 = x /\ x - 1 \notin Out
    BY <2>2, <2>3
  <2> QED BY <2>2, <2>4
<1>2. n \notin Out
  BY <1>1
<1> QED BY <1>2

LEMMA ConcatIs ==
  ASSUME NEW T, NEW s \in Seq(T), NEW t \in Seq(T)
  PROVE  /\ s \o t \in Seq(T) /\ Len(s \o t) = Len(s) + Len(t) /\ Len(s) \in Nat /\ Len(t) \in Nat
         /\ \A i \in 1 .. Len(s) : (s \o t)[i] = s[i]
         /\ \A i \in 1 .. Len(t) : (s \o t)[Len(s) + i] = t[i]
OBVIOUS

LEMMA MoreElements ==
  ASSUME NEW S, NEW T, S \subseteq T, NEW s \in Seq(S)
  PROVE  s \in Seq(T)
<1>1. s \in [1 .. Len(s) -> T] /\ Len(s) \in Nat
  OBVIOUS
<1> QED BY <1>1

\* Sequences are equal when their elements are.
LEMMA SameElements ==
  ASSUME NEW T, NEW s \in Seq(T), NEW n, n = Len(s), NEW t, t = [i \in 1 .. n |-> t[i]],
         \A i \in 1 .. n : t[i] = s[i]
  PROVE  t = s
<1>1. s = [i \in 1 .. n |-> s[i]]
  OBVIOUS
<1> QED BY <1>1

LEMMA FunctionSeq ==
  ASSUME NEW T, NEW n \in Nat, NEW f \in [1 .. n -> T]
  PROVE  f \in Seq(T) /\ Len(f) = n /\ DOMAIN f = 1 .. n
OBVIOUS
-----------------------------------------------------------------------------
(***************************************************************************)
(* What is written for a field.                                            *)
(***************************************************************************)
LEMMA IntCellsAre ==
  ASSUME NEW v \in Int
  PROVE  /\ IntCells(v) \in Seq(Cell) /\ Len(IntCells(v)) = 4
         /\ \A k \in 1 .. 4 : IntCells(v)[k] = <<"int", v, k>>
<1>1. \A k \in 1 .. 4 : <<"int", v, k>> \in Cell
  BY DEF Cell
<1>2. IntCells(v) \in [1 .. 4 -> Cell]
  BY <1>1 DEF IntCells
<1>3. IntCells(v) \in Seq(Cell) /\ Len(IntCells(v)) = 4
  BY <1>2, FunctionSeq
<1> QED BY <1>3 DEF IntCells

LEMMA IntIs ==
  ASSUME NEW v \in Int
  PROVE  /\ Int4(v) \in Field /\ Cells(Int4(v)) = IntCells(v) /\ Cells(Int4(v)) \in Seq(Cell)
         /\ Width(Int4(v)) = 4
<1>1. Int4(v) \in Field /\ Int4(v)[1] = "int" /\ Int4(v)[2] = v
  BY DEF Int4, Field, IntField
<1>2. Cells(Int4(v)) = IntCells(v)
  BY <1>1 DEF Cells
<1> QED BY <1>1, <1>2, IntCellsAre DEF Width

LEMMA StrIs ==
  ASSUME NEW s \in Name
  PROVE  /\ Str(s) \in Field /\ Cells(Str(s)) \in Seq(Cell) /\ Width(Str(s)) = 4 + Len(s) /\ Len(s) \in Nat
         /\ \A k \in 1 .. 4 : Cells(Str(s))[k] = <<"int", Len(s), k>>
         /\ \A k \in 1 .. Len(s) : Cells(Str(s))[4 + k] = <<"char", s[k]>>
<1> DEFINE n == Len(s)
           t == [k \in DOMAIN s |-> <<"char", s[k]>>]
<1>1. Str(s) \in Field /\ Str(s)[1] = "str" /\ Str(s)[2] = s
  BY DEF Str, Field, StrField
<1>2. n \in Nat /\ DOMAIN s = 1 .. n /\ \A k \in 1 .. n : s[k] \in STRING
  BY DEF Name
<1>3. Cells(Str(s)) = IntCells(n) \o t
  BY <1>1 DEF Cells
<1>4. t \in Seq(Cell) /\ Len(t) = n /\ \A k \in 1 .. n : t[k] = <<"char", s[k]>>
  <2>1. \A k \in 1 .. n : <<"char", s[k]>> \in Cell
    BY <1>2 DEF Cell
  <2>2. t \in [1 .. n -> Cell]
    BY <1>2, <2>1
  <2> QED BY <1>2, <2>2
<1> HIDE DEF n, t
<1>5. IntCells(n) \in Seq(Cell) /\ Len(IntCells(n)) = 4 /\ \A k \in 1 .. 4 : IntCells(n)[k] = <<"int", n, k>>
  BY <1>2, IntCellsAre
<1>6. /\ IntCells(n) \o t \in Seq(Cell) /\ Len(IntCells(n) \o t) = 4 + n
      /\ \A k \in 1 .. 4 : (IntCells(n) \o t)[k] = IntCells(n)[k]
      /\ \A k \in 1 .. n : (IntCells(n) \o t)[4 + k] = t[k]
  <2> DEFINE c == IntCells(n)
  <2>0. c \in Seq(Cell) /\ t \in Seq(Cell)
    BY <1>4, <1>5
  <2>1. Len(c) = 4 /\ Len(t) = n
    BY <1>4, <1>5
  <2> HIDE DEF c
  <2>2. /\ c \o t \in Seq(Cell) /\ Len(c \o t) = Len(c) + Len(t)
        /\ \A k \in 1 .. Len(c) : (c \o t)[k] = c[k]
        /\ \A k \in 1 .. Len(t) : (c \o t)[Len(c) + k] = t[k]
    BY <2>0, ConcatIs
  <2>3. /\ c \o t \in Seq(Cell) /\ Len(c \o t) = 4 + n
        /\ \A k \in 1 .. 4 : (c \o t)[k] = c[k]
        /\ \A k \in 1 .. n : (c \o t)[4 + k] = t[k]
    BY <2>1, <2>2, Zenon
  <2> QED BY <2>3 DEF c
<1>7. \A k \in 1 .. 4 : Cells(Str(s))[k] = <<"int", n, k>>
  BY <1>3, <1>5, <1>6
<1>8. \A k \in 1 .. n : Cells(Str(s))[4 + k] = <<"char", s[k]>>
  BY <1>3, <1>4, <1>6
<1> QED BY <1>1, <1>2, <1>3, <1>6, <1>7, <1>8 DEF Width, n
-----------------------------------------------------------------------------
(***************************************************************************)
(* What is read where a field is.                                          *)
(***************************************************************************)
LEMMA ReadIntIs ==
  ASSUME cells \in Seq(Cell), NEW p \in Nat, p + 4 <= Len(cells), NEW v \in Int,
         \A k \in 1 .. 4 : cells[p + k] = <<"int", v, k>>
  PROVE  readInt(p) = v
<1>1. cells[p + 1] = <<"int", v, 1>>
  OBVIOUS
<1>2. cells[p + 1][1] = "int" /\ cells[p + 1][2] = v
  BY <1>1
<1>3. SubSeq(cells, p + 1, p + 4) = [k \in 1 .. 4 |-> cells[p + k]]
  <2>1. SubSeq(cells, p + 1, p + 4) = [k \in 1 .. (p + 4) - (p + 1) + 1 |-> cells[(p + 1) + k - 1]]
    OBVIOUS
  <2>2. (p + 4) - (p + 1) + 1 = 4 /\ \A k \in 1 .. 4 : (p + 1) + k - 1 = p + k
    OBVIOUS
  <2> QED BY <2>1, <2>2
<1>4. SubSeq(cells, p + 1, p + 4) = IntCells(v)
  BY <1>3 DEF IntCells
<1> QED BY <1>2, <1>4 DEF readInt

LEMMA HeldInt ==
  ASSUME cells \in Seq(Cell), NEW p, NEW v \in Int, Holds(p, Int4(v))
  PROVE  readInt(p) = v /\ p \in Nat
<1>1. p \in Nat /\ p + 4 <= Len(cells) /\ \A k \in 1 .. 4 : cells[p + k] = IntCells(v)[k]
  BY IntIs DEF Holds, HoldsIn
<1> QED BY <1>1, IntCellsAre, ReadIntIs

LEMMA HeldStr ==
  ASSUME cells \in Seq(Cell), NEW p, NEW s \in Name, Holds(p, Str(s))
  PROVE  readString(p) = s /\ EndOfString(p) = p + 4 + Len(s) /\ p \in Nat
<1> DEFINE n == Len(s)
<1>1. n \in Nat /\ DOMAIN s = 1 .. n
  BY DEF Name
<1>2. /\ p \in Nat /\ p + (4 + n) <= Len(cells)
      /\ \A k \in 1 .. 4 + n : cells[p + k] = Cells(Str(s))[k]
  BY StrIs DEF Holds, HoldsIn
<1>3. /\ \A k \in 1 .. 4 : Cells(Str(s))[k] = <<"int", n, k>>
      /\ \A k \in 1 .. n : Cells(Str(s))[4 + k] = <<"char", s[k]>>
  BY StrIs
<1> HIDE DEF n
<1>4. Len(cells) \in Nat
  OBVIOUS
<1>5. readInt(p) = n
  <2>1. \A k \in 1 .. 4 : k \in 1 .. 4 + n
    BY <1>1
  <2>2. p + 4 <= Len(cells) /\ n \in Int
    BY <1>1, <1>2, <1>4
  <2> QED BY <1>2, <1>3, <2>1, <2>2, ReadIntIs
<1>6. ASSUME NEW k \in 1 .. n
      PROVE  (IF p + 4 + k <= Len(cells) THEN Last(cells[p + 4 + k]) ELSE Garbage) = s[k]
  <2>1. 4 + k \in 1 .. 4 + n /\ p + (4 + k) = p + 4 + k /\ p + 4 + k <= Len(cells)
    BY <1>1, <1>2, <1>4
  <2>2. cells[p + 4 + k] = <<"char", s[k]>>
    BY <1>2, <1>3, <2>1
  <2>3. Last(<<"char", s[k]>>) = s[k]
    BY DEF Last
  <2> QED BY <2>1, <2>2, <2>3
<1>7. readString(p) = [k \in 1 .. n |-> s[k]]
  BY <1>5, <1>6 DEF readString
<1>8. s = [k \in 1 .. n |-> s[k]]
  BY <1>1 DEF Name, n
<1> QED BY <1>2, <1>7, <1>8 DEF EndOfString, n

LEMMA WidthIs ==
  ASSUME NEW f \in Field
  PROVE  Width(f) \in Nat /\ Cells(f) \in Seq(Cell)
<1>1. CASE f \in IntField
  <2>1. f[2] \in Int /\ f = Int4(f[2])
    BY <1>1 DEF IntField, Int4
  <2> QED BY <2>1, IntIs
<1>2. CASE f \in StrField
  <2>1. f[2] \in Name /\ f = Str(f[2])
    BY <1>2 DEF StrField, Str
  <2>2. Cells(Str(f[2])) \in Seq(Cell) /\ Width(Str(f[2])) = 4 + Len(f[2]) /\ Len(f[2]) \in Nat
    BY <2>1, StrIs
  <2>3. Width(f) \in Nat
    BY <2>1, <2>2
  <2> QED BY <2>1, <2>2, <2>3
<1> QED BY <1>1, <1>2 DEF Field
-----------------------------------------------------------------------------
(***************************************************************************)
(* Fields that follow each other.                                          *)
(***************************************************************************)
LEMMA LieEnds ==
  ASSUME NEW c, NEW p, NEW e, NEW fs, Len(fs) \in Nat, LieIn(c, p, fs, e)
  PROVE  p \in Nat /\ e \in Nat /\ (Len(fs) = 0 => e = p)
<1>1. PICK off : Lies(c, off, p, fs, e)
  BY DEF LieIn
<1>2. /\ off \in [0 .. Len(fs) -> Nat] /\ off[0] = p /\ off[Len(fs)] = e
      /\ 0 \in 0 .. Len(fs) /\ Len(fs) \in 0 .. Len(fs)
  BY <1>1 DEF Lies
<1> QED BY <1>2

LEMMA LiesOne ==
  ASSUME NEW c, NEW p, NEW e, NEW f, LieIn(c, p, <<f>>, e)
  PROVE  HoldsIn(c, p, f) /\ e = p + Width(f)
<1>1. PICK off : Lies(c, off, p, <<f>>, e)
  BY DEF LieIn
<1>2. Len(<<f>>) = 1 /\ <<f>>[1] = f /\ 1 \in 1 .. 1 /\ 1 - 1 = 0
  OBVIOUS
<1>3. /\ off[0] = p /\ off[1] = e
      /\ off[1] = off[0] + Width(f) /\ HoldsIn(c, off[0], f)
  BY <1>1, <1>2 DEF Lies
<1> QED BY <1>3

LEMMA LiesBoth ==
  ASSUME NEW c, NEW p, NEW e, NEW T, NEW fs \in Seq(T), NEW gs \in Seq(T), LieIn(c, p, fs \o gs, e)
  PROVE  \E m \in Nat : LieIn(c, p, fs, m) /\ LieIn(c, m, gs, e)
<1> DEFINE n == Len(fs)
           l == Len(gs)
           hs == fs \o gs
<1>1. PICK off : Lies(c, off, p, hs, e)
  BY DEF LieIn
<1>2. /\ n \in Nat /\ l \in Nat /\ Len(hs) = n + l
      /\ \A i \in 1 .. n : hs[i] = fs[i]
      /\ \A i \in 1 .. l : hs[n + i] = gs[i]
  BY ConcatIs
<1> HIDE DEF n, l, hs
<1>3. /\ off \in [0 .. n + l -> Nat] /\ off[0] = p /\ off[n + l] = e
      /\ \A i \in 1 .. n + l : off[i] = off[i - 1] + Width(hs[i]) /\ HoldsIn(c, off[i - 1], hs[i])
  BY <1>1, <1>2 DEF Lies
<1> DEFINE o1 == [i \in 0 .. n |-> off[i]]
           o2 == [i \in 0 .. l |-> off[n + i]]
           m == off[n]
<1>4. m \in Nat /\ n \in 0 .. n /\ 0 \in 0 .. n /\ l \in 0 .. l /\ 0 \in 0 .. l /\ n + 0 = n
  BY <1>2, <1>3
<1>5. Lies(c, o1, p, fs, m)
  <2>1. o1 \in [0 .. n -> Nat] /\ o1[0] = p /\ o1[n] = m
    BY <1>2, <1>3, <1>4
  <2>2. ASSUME NEW i \in 1 .. n
        PROVE  o1[i] = o1[i - 1] + Width(fs[i]) /\ HoldsIn(c, o1[i - 1], fs[i])
    <3>1. i \in 1 .. n + l /\ i \in 0 .. n /\ i - 1 \in 0 .. n
      BY <1>2
    <3>2. o1[i] = off[i] /\ o1[i - 1] = off[i - 1]
      BY <3>1
    <3> HIDE DEF o1
    <3>3. off[i] = off[i - 1] + Width(fs[i]) /\ HoldsIn(c, off[i - 1], fs[i])
      BY <1>2, <1>3, <3>1
    <3> QED BY <3>2, <3>3
  <2> HIDE DEF o1, m
  <2> QED BY <2>1, <2>2 DEF Lies, n
<1>6. Lies(c, o2, m, gs, e)
  <2>1. o2 \in [0 .. l -> Nat] /\ o2[0] = m /\ o2[l] = e
    BY <1>2, <1>3, <1>4
  <2>2. ASSUME NEW i \in 1 .. l
        PROVE  o2[i] = o2[i - 1] + Width(gs[i]) /\ HoldsIn(c, o2[i - 1], gs[i])
    <3>1. n + i \in 1 .. n + l /\ i \in 0 .. l /\ i - 1 \in 0 .. l /\ n + (i - 1) = (n + i) - 1
      BY <1>2
    <3>2. o2[i] = off[n + i] /\ o2[i - 1] = off[(n + i) - 1]
      BY <3>1
    <3> HIDE DEF o2
    <3>3. off[n + i] = off[(n + i) - 1] + Width(gs[i]) /\ HoldsIn(c, off[(n + i) - 1], gs[i])
      BY <1>2, <1>3, <3>1
    <3> QED BY <3>2, <3>3
  <2> HIDE DEF o2, m
  <2> QED BY <2>1, <2>2 DEF Lies, l
<1> HIDE DEF o1, o2, m
<1> QED BY <1>4, <1>5, <1>6 DEF LieIn

\* One more field is written.
LEMMA LiesMore ==
  ASSUME NEW c \in Seq(Cell), NEW p, NEW fs \in Seq(Field), NEW f \in Field, Cells(f) \in Seq(Cell),
         LieIn(c, p, fs, Len(c))
  PROVE  LieIn(c \o Cells(f), p, Append(fs, f), Len(c \o Cells(f)))
<1> DEFINE n == Len(fs)
           l == Len(c)
           w == Width(f)
           d == c \o Cells(f)
           gs == Append(fs, f)
<1>1. PICK off : Lies(c, off, p, fs, l)
  BY DEF LieIn
<1>2. /\ l \in Nat /\ w \in Nat /\ Len(d) = l + w
      /\ \A i \in 1 .. l : d[i] = c[i]
      /\ \A i \in 1 .. w : d[l + i] = Cells(f)[i]
  BY ConcatIs DEF Width
<1>3. n \in Nat /\ Len(gs) = n + 1 /\ gs[n + 1] = f /\ \A i \in 1 .. n : gs[i] = fs[i]
  OBVIOUS
<1> HIDE DEF n, l, d, gs
<1>4. /\ off \in [0 .. n -> Nat] /\ off[0] = p /\ off[n] = l
      /\ \A i \in 1 .. n : off[i] = off[i - 1] + Width(fs[i]) /\ HoldsIn(c, off[i - 1], fs[i])
  BY <1>1 DEF Lies, n
<1> DEFINE o == [i \in 0 .. n + 1 |-> IF i = n + 1 THEN l + w ELSE off[i]]
<1> HIDE DEF w
<1>5. o \in [0 .. n + 1 -> Nat] /\ o[0] = p /\ o[n + 1] = l + w
  BY <1>2, <1>3, <1>4
<1>6. ASSUME NEW q, NEW g, HoldsIn(c, q, g), Width(g) \in Nat PROVE HoldsIn(d, q, g)
  <2>1. /\ q \in Nat /\ q + Width(g) <= l
        /\ \A k \in 1 .. Width(g) : c[q + k] = Cells(g)[k]
    BY <1>6 DEF HoldsIn, l
  <2>2. q + Width(g) <= Len(d) /\ \A k \in 1 .. Width(g) : q + k \in 1 .. l
    BY <1>2, <1>6, <2>1
  <2>3. \A k \in 1 .. Width(g) : d[q + k] = Cells(g)[k]
    BY <1>2, <2>1, <2>2
  <2> QED BY <2>1, <2>2, <2>3 DEF HoldsIn
<1>7. HoldsIn(d, l, f)
  BY <1>2 DEF HoldsIn, w
<1>8. ASSUME NEW i \in 1 .. n + 1
      PROVE  o[i] = o[i - 1] + Width(gs[i]) /\ HoldsIn(d, o[i - 1], gs[i])
  <2>1. CASE i = n + 1
    <3>1. o[i] = l + w /\ o[i - 1] = l /\ gs[i] = f
      BY <1>3, <1>4, <2>1
    <3> HIDE DEF o
    <3> QED BY <1>7, <3>1 DEF w
  <2>2. CASE i \in 1 .. n
    <3>1. o[i] = off[i] /\ o[i - 1] = off[i - 1] /\ gs[i] = fs[i]
      BY <1>3, <2>2
    <3>2. off[i] \in Nat /\ off[i - 1] \in Nat
      BY <1>3, <1>4, <2>2
    <3> HIDE DEF o
    <3>3. off[i] = off[i - 1] + Width(fs[i]) /\ HoldsIn(c, off[i - 1], fs[i])
      BY <1>4, <2>2
    <3>4. Width(fs[i]) \in Nat
      <4>1. fs[i] \in Field
        BY <2>2 DEF n
      <4> QED BY <4>1, WidthIs
    <3> QED BY <1>6, <3>1, <3>3, <3>4
  <2> QED BY <1>3, <2>1, <2>2
<1> HIDE DEF o
<1>9. Lies(d, o, p, gs, l + w)
  BY <1>3, <1>5, <1>8 DEF Lies
<1>10. LieIn(d, p, gs, Len(d))
  BY <1>2, <1>9 DEF LieIn
<1> QED BY <1>10 DEF d, gs
-----------------------------------------------------------------------------
(***************************************************************************)
(* What is read where lists are.                                           *)
(***************************************************************************)
LEMMA IntsAre ==
  ASSUME NEW s \in Seq(Int)
  PROVE  /\ Ints(s) \in Seq(Field) /\ Len(Ints(s)) = Len(s) /\ Len(s) \in Nat
         /\ \A i \in 1 .. Len(s) : Ints(s)[i] = Int4(s[i]) /\ s[i] \in Int
<1> DEFINE n == Len(s)
<1>1. n \in Nat /\ DOMAIN s = 1 .. n /\ \A i \in 1 .. n : s[i] \in Int
  OBVIOUS
<1> HIDE DEF n
<1>2. \A i \in 1 .. n : Int4(s[i]) \in Field
  BY <1>1, IntIs
<1>3. Ints(s) = [i \in 1 .. n |-> Int4(s[i])]
  BY <1>1 DEF Ints
<1>4. Ints(s) \in [1 .. n -> Field]
  BY <1>2, <1>3
<1>5. Ints(s) \in Seq(Field) /\ Len(Ints(s)) = n
  BY <1>1, <1>4, FunctionSeq
<1> QED BY <1>1, <1>3, <1>5 DEF n

LEMMA ReadIntsAre ==
  ASSUME NEW s \in Seq(Int), NEW n, n = Len(s), NEW p, \A i \in 1 .. n : readInt(p + 4 * (i - 1)) = s[i]
  PROVE  ReadInts(p, n) = s
<1>1. ReadInts(p, n) = [i \in 1 .. n |-> s[i]]
  BY DEF ReadInts
<1>2. s = [i \in 1 .. n |-> s[i]]
  OBVIOUS
<1> QED BY <1>1, <1>2

LEMMA IntsLie ==
  ASSUME cells \in Seq(Cell), NEW p, NEW e, NEW s \in Seq(Int), Lie(p, Ints(s), e)
  PROVE  /\ ReadInts(p, Len(s)) = s /\ e = p + 4 * Len(s) /\ p \in Nat /\ e \in Nat /\ Len(s) \in Nat
         /\ \A i \in 1 .. Len(s) : readInt(p + 4 * (i - 1)) = s[i]
<1> DEFINE n == Len(s)
           fs == Ints(s)
<1>1. /\ fs \in Seq(Field) /\ Len(fs) = n /\ n \in Nat
      /\ \A i \in 1 .. n : fs[i] = Int4(s[i]) /\ s[i] \in Int
  BY IntsAre
<1> HIDE DEF n, fs
<1>2. PICK off : Lies(cells, off, p, fs, e)
  BY DEF Lie, LieIn, fs
<1>3. /\ off \in [0 .. n -> Nat] /\ off[0] = p /\ off[n] = e /\ 0 \in 0 .. n /\ n \in 0 .. n
      /\ \A i \in 1 .. n : off[i] = off[i - 1] + Width(fs[i]) /\ HoldsIn(cells, off[i - 1], fs[i])
  BY <1>1, <1>2 DEF Lies
<1>4. p \in Nat /\ e \in Nat
  BY <1>3
<1>5. \A i \in 1 .. n : off[i] = off[i - 1] + 4 /\ readInt(off[i - 1]) = s[i]
  <2> SUFFICES ASSUME NEW i \in 1 .. n PROVE off[i] = off[i - 1] + 4 /\ readInt(off[i - 1]) = s[i]
    OBVIOUS
  <2>1. s[i] \in Int /\ fs[i] = Int4(s[i])
    BY <1>1
  <2>2. Width(Int4(s[i])) = 4 /\ HoldsIn(cells, off[i - 1], Int4(s[i]))
    BY <1>3, <2>1, IntIs
  <2>3. readInt(off[i - 1]) = s[i]
    BY <2>1, <2>2, HeldInt DEF Holds
  <2> QED BY <1>3, <2>1, <2>2, <2>3
<1>6. ASSUME NEW m \in 0 .. n PROVE off[m] = p + 4 * m
  <2> DEFINE S == {k \in 0 .. n : off[k] = p + 4 * k}
  <2>1. m \in Nat /\ 0 \in S
    BY <1>1, <1>3, <1>4
  <2>2. ASSUME NEW k \in 0 .. m - 1, k \in S PROVE k + 1 \in S
    <3>1. k + 1 \in 1 .. n /\ (k + 1) - 1 = k /\ k + 1 \in 0 .. n
      BY <1>1, <2>1
    <3>2. off[k + 1] = off[k] + 4
      BY <1>5, <3>1
    <3> QED BY <1>4, <2>2, <3>1, <3>2
  <2>3. m \in S
    <3> HIDE DEF S
    <3> QED BY <2>1, <2>2, UpToN
  <2> QED BY <2>3
<1>7. ASSUME NEW i \in 1 .. n PROVE readInt(p + 4 * (i - 1)) = s[i]
  <2>1. i - 1 \in 0 .. n
    BY <1>1
  <2> QED BY <1>5, <1>6, <2>1
<1>8. ReadInts(p, n) = s
  BY <1>7, ReadIntsAre DEF n
<1>9. e = p + 4 * n
  BY <1>1, <1>3, <1>6
<1> QED BY <1>1, <1>4, <1>7, <1>8, <1>9 DEF n

LEMMA ListIs ==
  ASSUME NEW s \in Seq(Int)
  PROVE  List(s) \in Seq(Field) /\ <<Int4(Len(s))>> \in Seq(Field) /\ Ints(s) \in Seq(Field)
<1>1. Len(s) \in Int
  OBVIOUS
<1>2. Int4(Len(s)) \in Field
  BY <1>1, IntIs
<1>3. <<Int4(Len(s))>> \in Seq(Field)
  BY <1>2
<1>4. Ints(s) \in Seq(Field)
  BY IntsAre
<1> QED BY <1>3, <1>4, ConcatIs DEF List

LEMMA ListLies ==
  ASSUME cells \in Seq(Cell), NEW p, NEW e, NEW s \in Seq(Int), Lie(p, List(s), e)
  PROVE  ReadList(p) = s /\ EndOfList(p) = e /\ readInt(p) = Len(s) /\ p \in Nat /\ e \in Nat
<1> DEFINE n == Len(s)
<1>1. n \in Int
  OBVIOUS
<1>2. PICK m \in Nat : LieIn(cells, p, <<Int4(n)>>, m) /\ LieIn(cells, m, Ints(s), e)
  <2>1. LieIn(cells, p, <<Int4(n)>> \o Ints(s), e)
    BY DEF Lie, List
  <2>2. <<Int4(n)>> \in Seq(Field) /\ Ints(s) \in Seq(Field)
    BY ListIs
  <2> HIDE DEF n
  <2> QED BY <2>1, <2>2, LiesBoth
<1> HIDE DEF n
<1>3. HoldsIn(cells, p, Int4(n)) /\ m = p + Width(Int4(n))
  BY <1>2, LiesOne
<1>4. m = p + 4
  BY <1>1, <1>3, IntIs
<1>5. readInt(p) = n /\ p \in Nat
  BY <1>1, <1>3, HeldInt DEF Holds
<1>6. /\ ReadInts(m, n) = s /\ e = m + 4 * n /\ e \in Nat
  BY <1>2, IntsLie DEF Lie, n
<1>7. ReadList(p) = s
  BY <1>4, <1>5, <1>6 DEF ReadList
<1>8. EndOfList(p) = (p + 4) + 4 * n
  BY <1>7 DEF EndOfList, n
<1> QED BY <1>4, <1>5, <1>6, <1>7, <1>8 DEF n

\* A pair is a sequence.
LEMMA PairIs ==
  ASSUME NEW a \in Int, NEW b \in Int
  PROVE  /\ <<a, b>> \in Seq(Int) /\ Len(<<a, b>>) = 2 /\ <<a, b>>[1] = a /\ <<a, b>>[2] = b
         /\ Ints(<<a, b>>) = <<Int4(a), Int4(b)>>
<1>1. <<a, b>> \in Seq(Int) /\ Len(<<a, b>>) = 2 /\ <<a, b>>[1] = a /\ <<a, b>>[2] = b
  OBVIOUS
<1>2. DOMAIN <<a, b>> = 1 .. 2 /\ 1 .. 2 = {1, 2}
  OBVIOUS
<1>3. Ints(<<a, b>>) = [i \in 1 .. 2 |-> Int4(<<a, b>>[i])]
  BY <1>2 DEF Ints
<1>4. <<Int4(a), Int4(b)>> = [i \in 1 .. 2 |-> <<Int4(a), Int4(b)>>[i]]
  <2> DEFINE x == Int4(a)
             y == Int4(b)
  <2> HIDE DEF x, y
  <2>1. <<x, y>> = [i \in 1 .. 2 |-> <<x, y>>[i]]
    OBVIOUS
  <2> QED BY <2>1 DEF x, y
<1>5. \A i \in 1 .. 2 : <<Int4(a), Int4(b)>>[i] = Int4(<<a, b>>[i])
  <2> DEFINE x == Int4(a)
             y == Int4(b)
  <2>1. \A i \in 1 .. 2 : i = 1 \/ i = 2
    OBVIOUS
  <2>2. x = Int4(<<a, b>>[1]) /\ y = Int4(<<a, b>>[2])
    OBVIOUS
  <2> HIDE DEF x, y
  <2>3. <<x, y>>[1] = Int4(<<a, b>>[1]) /\ <<x, y>>[2] = Int4(<<a, b>>[2])
    BY <2>2
  <2>4. \A i \in 1 .. 2 : <<x, y>>[i] = Int4(<<a, b>>[i])
    BY <2>1, <2>3
  <2> QED BY <2>4 DEF x, y
<1> QED BY <1>1, <1>3, <1>4, <1>5

Number(b) == IF b THEN 1 ELSE 0

LEMMA BitsAre ==
  ASSUME NEW u \in Usage
  PROVE  /\ Bits(u) = Ints(<<Number(u[1]), Number(u[2])>>) /\ Bits(u) \in Seq(Field) /\ Len(Bits(u)) = 2
         /\ <<Number(u[1]), Number(u[2])>> \in Seq(Int)
<1> DEFINE a == Number(u[1])
           b == Number(u[2])
<1>1. a \in Int /\ b \in Int
  BY DEF Number
<1>2. Bits(u) = <<Int4(a), Int4(b)>>
  BY DEF Bits, Bit, Number
<1> HIDE DEF a, b
<1>3. Bits(u) = Ints(<<a, b>>) /\ <<a, b>> \in Seq(Int) /\ Len(<<a, b>>) = 2
  BY <1>1, <1>2, PairIs
<1>4. Ints(<<a, b>>) \in Seq(Field) /\ Len(Ints(<<a, b>>)) = 2
  BY <1>3, IntsAre
<1> QED BY <1>3, <1>4 DEF a, b

LEMMA BitsLie ==
  ASSUME cells \in Seq(Cell), NEW p, NEW e, NEW u \in Usage, Lie(p, Bits(u), e)
  PROVE  ReadBits(p) = u /\ e = p + 8 /\ p \in Nat
<1> DEFINE a == Number(u[1])
           b == Number(u[2])
<1>1. a \in Int /\ b \in Int
  BY DEF Number
<1>2. Bits(u) = Ints(<<a, b>>) /\ <<a, b>> \in Seq(Int)
  BY BitsAre
<1>3. (a = 1) = u[1] /\ (b = 1) = u[2] /\ u = <<u[1], u[2]>>
  BY DEF Number, Usage
<1> HIDE DEF a, b
<1>4. Len(<<a, b>>) = 2 /\ <<a, b>>[1] = a /\ <<a, b>>[2] = b
  BY <1>1, PairIs
<1>5. Lie(p, Ints(<<a, b>>), e)
  BY <1>2
<1>6. e = p + 4 * Len(<<a, b>>) /\ p \in Nat
  BY <1>2, <1>5, IntsLie
<1>7. \A i \in 1 .. Len(<<a, b>>) : readInt(p + 4 * (i - 1)) = <<a, b>>[i]
  BY <1>2, <1>5, IntsLie
<1>8. readInt(p + 4 * (1 - 1)) = a /\ readInt(p + 4 * (2 - 1)) = b
  <2>1. 1 \in 1 .. 2 /\ 2 \in 1 .. 2
    OBVIOUS
  <2> QED BY <1>4, <1>7, <2>1
<1>9. p + 4 * (1 - 1) = p /\ p + 4 * (2 - 1) = p + 4
  BY <1>6
<1>10. readInt(p) = a /\ readInt(p + 4) = b
  BY <1>8, <1>9
<1>11. ReadBits(p) = <<a = 1, b = 1>>
  BY <1>10 DEF ReadBits
<1> QED BY <1>3, <1>4, <1>6, <1>11

LEMMA TwoIntsLie ==
  ASSUME cells \in Seq(Cell), NEW p, NEW e, NEW s \in Int \X Int, Lie(p, Ints(s), e)
  PROVE  ReadInts(p, 2) = s /\ e = p + 8 /\ p \in Nat
<1>1. s = <<s[1], s[2]>> /\ s[1] \in Int /\ s[2] \in Int
  OBVIOUS
<1>2. s \in Seq(Int)
  BY <1>1, PairIs
<1>3. Len(s) = 2
  BY <1>1, PairIs
<1>4. ReadInts(p, Len(s)) = s /\ e = p + 4 * Len(s) /\ p \in Nat
  BY <1>2, IntsLie
<1> QED BY <1>3, <1>4
-----------------------------------------------------------------------------
(***************************************************************************)
(* FlattenSeq is a function that recurs on the index; it exists because it *)
(* can be made for the indices up to m, for each m.                        *)
(***************************************************************************)
Flattens(g, n, s) == g = [i \in 1 .. n |-> IF i = 1 THEN s[i] ELSE g[i - 1] \o s[i]]

LEMMA FlattenExists ==
  ASSUME NEW n \in Nat, NEW s
  PROVE  \E g : Flattens(g, n, s)
<1> DEFINE S == {m \in 0 .. n : \E g : Flattens(g, m, s)}
<1>1. 0 \in S
  <2> DEFINE g == [i \in 1 .. 0 |-> s[i]]
  <2>1. \A i \in 1 .. 0 : FALSE
    OBVIOUS
  <2>2. Flattens(g, 0, s)
    BY <2>1 DEF Flattens
  <2> QED BY <2>2
<1>2. ASSUME NEW m \in 0 .. n - 1, m \in S PROVE m + 1 \in S
  <2>1. PICK g : Flattens(g, m, s)
    BY <1>2
  <2> DEFINE x == IF m + 1 = 1 THEN s[m + 1] ELSE g[m] \o s[m + 1]
             h == [i \in 1 .. m + 1 |-> IF i = m + 1 THEN x ELSE g[i]]
  <2>2. m \in Nat /\ m + 1 \in 0 .. n /\ (m + 1) - 1 = m
    OBVIOUS
  <2> HIDE DEF x
  <2>3. \A i \in 1 .. m : h[i] = g[i] /\ g[i] = IF i = 1 THEN s[i] ELSE g[i - 1] \o s[i]
    <3>1. \A i \in 1 .. m : i # m + 1 /\ i \in 1 .. m + 1
      BY <2>2
    <3>2. \A i \in 1 .. m : h[i] = g[i]
      BY <3>1
    <3> HIDE DEF h
    <3> QED BY <2>1, <3>2, Zenon DEF Flattens
  <2>4. h[m + 1] = x
    BY <2>2
  <2>5. h = [i \in 1 .. m + 1 |-> h[i]]
    OBVIOUS
  <2> HIDE DEF h
  <2>6. ASSUME NEW i \in 1 .. m + 1
        PROVE  h[i] = IF i = 1 THEN s[i] ELSE h[i - 1] \o s[i]
    <3>1. CASE i = m + 1
      <4>1. i # 1 => m \in 1 .. m /\ i - 1 = m
        BY <2>2, <3>1
      <4>2. i # 1 => h[i - 1] = g[m]
        BY <2>3, <4>1
      <4> QED BY <2>4, <3>1, <4>2 DEF x
    <3>2. CASE i \in 1 .. m
      <4>1. i # 1 => i - 1 \in 1 .. m
        BY <2>2, <3>2
      <4>2. i # 1 => h[i - 1] = g[i - 1]
        BY <2>3, <4>1
      <4> QED BY <2>3, <3>2, <4>2
    <3> QED BY <2>2, <3>1, <3>2
  <2>7. Flattens(h, m + 1, s)
    <3> DEFINE y(i) == IF i = 1 THEN s[i] ELSE h[i - 1] \o s[i]
    <3>1. \A i \in 1 .. m + 1 : h[i] = y(i)
      BY <2>6
    <3> HIDE DEF y
    <3>2. h = [i \in 1 .. m + 1 |-> y(i)]
      BY <2>5, <3>1
    <3> QED BY <3>2 DEF y, Flattens
  <2> QED BY <2>2, <2>7
<1>3. n \in S
  <2> HIDE DEF S
  <2> QED BY <1>1, <1>2, UpToN
<1> QED BY <1>3

\* The prefixes are typed, and the last one is all of it.
Flattened(T, s, n) ==
  \/ n = 0 /\ FlattenSeq(s) = <<>>
  \/ \E g : /\ n \in Nat \ {0} /\ FlattenSeq(s) = g[n] /\ g[1] = s[1]
            /\ \A i \in 1 .. n : g[i] \in Seq(T)
            /\ \A i \in 1 .. n - 1 : g[i + 1] = g[i] \o s[i + 1]

LEMMA FlattenIs ==
  ASSUME NEW T, NEW s \in Seq(Seq(T)), NEW n, n = Len(s)
  PROVE  Flattened(T, s, n)
<1> DEFINE g == CHOOSE f : Flattens(f, n, s)
<1>1. n \in Nat /\ \A i \in 1 .. n : s[i] \in Seq(T)
  OBVIOUS
<1>2. CASE n = 0
  <2>1. s = <<>>
    <3>1. Len(s) = 0
      BY <1>2
    <3> QED BY <3>1
  <2> QED BY <1>2, <2>1 DEF FlattenSeq, Flattened
<1>3. CASE n \in Nat \ {0}
  <2>1. FlattenSeq(s) = g[n]
    <3>1. Len(s) # 0
      BY <1>3
    <3> QED BY <3>1 DEF FlattenSeq, Flattens
  <2>2. Flattens(g, n, s)
    <3>1. \E f : Flattens(f, n, s)
      BY <1>1, FlattenExists
    <3> QED BY <3>1
  <2> HIDE DEF g
  <2>3. \A i \in 1 .. n : g[i] = IF i = 1 THEN s[i] ELSE g[i - 1] \o s[i]
    BY <2>2 DEF Flattens
  <2>4. g[1] = s[1]
    BY <1>3, <2>3
  <2>5. \A i \in 1 .. n - 1 : g[i + 1] = g[i] \o s[i + 1]
    <3>1. \A i \in 1 .. n - 1 : i + 1 \in 1 .. n /\ i + 1 # 1 /\ (i + 1) - 1 = i
      BY <1>3
    <3> QED BY <2>3, <3>1
  <2>6. ASSUME NEW m \in 1 .. n PROVE g[m] \in Seq(T)
    <3> DEFINE S == {k \in 0 .. n : k # 0 => g[k] \in Seq(T)}
    <3>1. m \in Nat /\ 0 \in S
      BY <1>3
    <3>2. ASSUME NEW k \in 0 .. m - 1, k \in S PROVE k + 1 \in S
      <4>1. k + 1 \in 0 .. n /\ k + 1 \in 1 .. n
        BY <1>3, <3>1
      <4>2. CASE k = 0
        BY <1>1, <1>3, <2>4, <4>1, <4>2
      <4>3. CASE k # 0
        <5>1. k \in 1 .. n - 1
          BY <1>3, <3>1, <4>3
        <5>2. g[k] \in Seq(T) /\ s[k + 1] \in Seq(T)
          BY <1>1, <3>2, <4>1, <4>3
        <5>3. g[k] \o s[k + 1] \in Seq(T)
          BY <5>2, ConcatIs
        <5> QED BY <2>5, <4>1, <5>1, <5>3
      <4> QED BY <4>2, <4>3
    <3>3. m \in S
      <4> HIDE DEF S
      <4> QED BY <3>1, <3>2, UpToN
    <3> QED BY <1>3, <3>3
  <2> QED BY <1>3, <2>1, <2>4, <2>5, <2>6 DEF Flattened
<1> QED BY <1>1, <1>2, <1>3

\* The lists cs up to m follow each other from p to e; list i ends at at[i].
Parts(at, p, cs, m, e) ==
  /\ at \in [0 .. m -> Nat] /\ at[0] = p /\ at[m] = e
  /\ \A i \in 1 .. m : Lie(at[i - 1], cs[i], at[i])

LEMMA PartsMore ==
  ASSUME NEW m \in Nat, NEW at, NEW p, NEW cs, NEW q, NEW e \in Nat, Parts(at, p, cs, m, q),
         Lie(q, cs[m + 1], e)
  PROVE  \E o : Parts(o, p, cs, m + 1, e)
<1> DEFINE o == [i \in 0 .. m + 1 |-> IF i = m + 1 THEN e ELSE at[i]]
<1>1. /\ at \in [0 .. m -> Nat] /\ at[0] = p /\ at[m] = q
      /\ \A i \in 1 .. m : Lie(at[i - 1], cs[i], at[i])
  BY DEF Parts
<1>2. o \in [0 .. m + 1 -> Nat] /\ o[m + 1] = e
  BY <1>1
<1>3. \A i \in 0 .. m : o[i] = at[i]
  <2>1. \A i \in 0 .. m : i \in 0 .. m + 1 /\ i # m + 1
    OBVIOUS
  <2> QED BY <2>1
<1> HIDE DEF o
<1>4. o[0] = p
  BY <1>1, <1>3
<1>5. ASSUME NEW i \in 1 .. m + 1 PROVE Lie(o[i - 1], cs[i], o[i])
  <2>1. CASE i = m + 1
    <3>1. o[i] = e /\ i - 1 = m /\ o[i - 1] = q
      BY <1>1, <1>2, <1>3, <2>1
    <3> QED BY <2>1, <3>1
  <2>2. CASE i \in 1 .. m
    <3>1. o[i] = at[i] /\ o[i - 1] = at[i - 1]
      BY <1>3, <2>2
    <3> QED BY <1>1, <2>2, <3>1
  <2> QED BY <2>1, <2>2
<1>6. Parts(o, p, cs, m + 1, e)
  BY <1>2, <1>4, <1>5 DEF Parts
<1> QED BY <1>6

LEMMA FlattenLies ==
  ASSUME NEW cs \in Seq(Seq(Field)), NEW p, NEW e, Lie(p, FlattenSeq(cs), e)
  PROVE  \E at : Parts(at, p, cs, Len(cs), e)
<1> DEFINE n == Len(cs)
<1> HIDE DEF n
<1>1. ASSUME n = 0, FlattenSeq(cs) = <<>>
      PROVE  \E at : Parts(at, p, cs, n, e)
  <2>1. Len(<<>>) = 0
    OBVIOUS
  <2>2. p \in Nat /\ e = p
    BY <1>1, <2>1, LieEnds DEF Lie
  <2> DEFINE at == [i \in 0 .. 0 |-> p]
  <2>3. Parts(at, p, cs, n, e)
    BY <1>1, <2>2 DEF Parts
  <2> QED BY <2>3
<1>2. ASSUME NEW g, n \in Nat \ {0}, FlattenSeq(cs) = g[n], g[1] = cs[1],
             \A i \in 1 .. n : g[i] \in Seq(Field),
             \A i \in 1 .. n - 1 : g[i + 1] = g[i] \o cs[i + 1]
      PROVE  \E at : Parts(at, p, cs, n, e)
  <2> DEFINE Good(m) == \A q : Lie(p, g[m], q) => \E at : Parts(at, p, cs, m, q)
             S == {m \in 0 .. n : m = 0 \/ Good(m)}
  <2>1. 0 \in S /\ n \in Nat
    BY <1>2
  <2>2. ASSUME NEW m \in 0 .. n - 1, m \in S PROVE m + 1 \in S
    <3>1. m \in Nat /\ m + 1 \in 0 .. n /\ m + 1 \in 1 .. n
      BY <2>1
    <3>2. CASE m = 0
      <4>1. ASSUME NEW q, Lie(p, g[m + 1], q) PROVE \E at : Parts(at, p, cs, m + 1, q)
        <5>1. g[m + 1] = cs[m + 1] /\ g[m + 1] \in Seq(Field)
          BY <1>2, <3>1, <3>2
        <5>2. Len(g[m + 1]) \in Nat
          BY <5>1
        <5>3. p \in Nat /\ q \in Nat
          BY <4>1, <5>2, LieEnds DEF Lie
        <5> DEFINE at == [i \in 0 .. 0 |-> p]
        <5>4. Parts(at, p, cs, 0, p)
          BY <5>3 DEF Parts
        <5> HIDE DEF at
        <5>5. Lie(p, cs[0 + 1], q)
          BY <3>2, <4>1, <5>1
        <5>6. \E o : Parts(o, p, cs, 0 + 1, q)
          BY <5>3, <5>4, <5>5, PartsMore
        <5> QED BY <3>2, <5>6
      <4> QED BY <3>1, <4>1
    <3>3. CASE m # 0
      <4>1. ASSUME NEW q, Lie(p, g[m + 1], q) PROVE \E at : Parts(at, p, cs, m + 1, q)
        <5>1. m \in 1 .. n - 1 /\ m \in 1 .. n
          BY <2>1, <3>3
        <5>2. g[m + 1] = g[m] \o cs[m + 1] /\ g[m] \in Seq(Field) /\ cs[m + 1] \in Seq(Field)
          <6>1. cs[m + 1] \in Seq(Field)
            BY <3>1 DEF n
          <6> QED BY <1>2, <5>1, <6>1
        <5>3. LieIn(cells, p, g[m] \o cs[m + 1], q)
          BY <4>1, <5>2 DEF Lie
        <5>4. PICK r \in Nat : LieIn(cells, p, g[m], r) /\ LieIn(cells, r, cs[m + 1], q)
          BY <5>2, <5>3, LiesBoth
        <5>5. Good(m)
          BY <2>2, <3>3
        <5>6. PICK at : Parts(at, p, cs, m, r)
          BY <5>4, <5>5 DEF Lie
        <5>7. q \in Nat
          <6>1. Len(cs[m + 1]) \in Nat
            BY <5>2
          <6> QED BY <5>4, <6>1, LieEnds
        <5>8. Lie(r, cs[m + 1], q)
          BY <5>4 DEF Lie
        <5> QED BY <3>1, <5>6, <5>7, <5>8, PartsMore
      <4> QED BY <3>1, <4>1
    <3> QED BY <3>2, <3>3
  <2>3. n \in S
    <3> HIDE DEF S
    <3> QED BY <2>1, <2>2, UpToN
  <2>4. Good(n)
    BY <1>2, <2>3
  <2> QED BY <1>2, <2>4
<1>3. Flattened(Field, cs, n)
  BY FlattenIs, Zenon DEF n
<1>4. \E at : Parts(at, p, cs, n, e)
  BY <1>1, <1>2, <1>3, Zenon DEF Flattened
<1> QED BY <1>4 DEF n

\* Lists of eight bytes.
LEMMA EightApart ==
  ASSUME NEW n \in Nat, NEW p \in Nat, NEW cs, NEW at, NEW e, Parts(at, p, cs, n, e),
         \A i \in 1 .. n : at[i] = at[i - 1] + 8
  PROVE  e = p + 8 * n /\ \A m \in 0 .. n : at[m] = p + 8 * m
<1>1. at[0] = p /\ at[n] = e
  BY DEF Parts
<1>2. ASSUME NEW m \in 0 .. n PROVE at[m] = p + 8 * m
  <2> DEFINE S == {k \in 0 .. n : at[k] = p + 8 * k}
  <2>1. m \in Nat /\ 0 \in S
    BY <1>1
  <2>2. ASSUME NEW k \in 0 .. m - 1, k \in S PROVE k + 1 \in S
    <3>1. k + 1 \in 1 .. n /\ (k + 1) - 1 = k /\ k + 1 \in 0 .. n
      BY <2>1
    <3>2. at[k + 1] = at[k] + 8
      BY <3>1
    <3> QED BY <2>2, <3>1, <3>2
  <2>3. m \in S
    <3> HIDE DEF S
    <3> QED BY <2>1, <2>2, UpToN
  <2> QED BY <2>3
<1> QED BY <1>1, <1>2
-----------------------------------------------------------------------------
(***************************************************************************)
(* The receivers: a list is read where the one before it ends.  FoldLeft   *)
(* is a recursion over sets of indices, which exists like that of          *)
(* FlattenSeq.                                                             *)
(***************************************************************************)
Collect(s) == [to |-> Append(s.to, ReadList(s.end)), end |-> EndOfList(s.end)]

Folds(g, S, base) == g = [t \in S |-> IF t = {} THEN base ELSE Collect(g[t \ {Max(t)}])]

LEMMA MaxOfInterval ==
  ASSUME NEW m \in Nat
  PROVE  Max(1 .. m + 1) = m + 1 /\ (1 .. m + 1) \ {m + 1} = 1 .. m /\ 1 .. m + 1 # {}
<1>1. m + 1 \in 1 .. m + 1 /\ \A y \in 1 .. m + 1 : m + 1 >= y
  OBVIOUS
<1>2. \A x \in 1 .. m + 1 : x >= m + 1 => x = m + 1
  OBVIOUS
<1>3. Max(1 .. m + 1) = m + 1
  BY <1>1, <1>2 DEF Max
<1> QED BY <1>1, <1>3

LEMMA FoldExists ==
  ASSUME NEW n \in Nat, NEW base
  PROVE  \E g : Folds(g, SUBSET (1 .. n), base)
<1> DEFINE S == {m \in 0 .. n : \E g : Folds(g, SUBSET (1 .. m), base)}
<1>1. 0 \in S
  <2> DEFINE g == [t \in SUBSET (1 .. 0) |-> base]
  <2>1. \A t \in SUBSET (1 .. 0) : t = {}
    OBVIOUS
  <2>2. Folds(g, SUBSET (1 .. 0), base)
    BY <2>1 DEF Folds
  <2> QED BY <2>2
<1>2. ASSUME NEW m \in 0 .. n - 1, m \in S PROVE m + 1 \in S
  <2>1. PICK g : Folds(g, SUBSET (1 .. m), base)
    BY <1>2
  <2> DEFINE k == m + 1
             h == [t \in SUBSET (1 .. k) |-> IF k \in t THEN Collect(g[t \ {k}]) ELSE g[t]]
  <2>2. k \in 0 .. n /\ m \in Nat /\ k \in Nat /\ k = m + 1
    OBVIOUS
  <2>3. ASSUME NEW t \in SUBSET (1 .. k)
        PROVE  /\ t \ {k} \in SUBSET (1 .. m) /\ t \ {k} \in SUBSET (1 .. k) /\ k \notin t \ {k}
               /\ k \notin t => t \in SUBSET (1 .. m)
               /\ k \in t => Max(t) = k
    <3>1. k \in t => (\A y \in t : k >= y)
      BY <2>2
    <3>2. \A x \in t : k \in t /\ x >= k => x = k
      BY <2>2
    <3>3. k \in t => Max(t) = k
      BY <3>1, <3>2 DEF Max
    <3> QED BY <2>2, <3>3
  <2>4. \A t \in SUBSET (1 .. m) : t \in SUBSET (1 .. k) /\ k \notin t
    BY <2>2
  <2> HIDE DEF k
  <2>5. \A t \in SUBSET (1 .. m) : h[t] = g[t]
    BY <2>4
  <2>6. ASSUME NEW t \in SUBSET (1 .. k)
        PROVE  h[t] = IF t = {} THEN base ELSE Collect(h[t \ {Max(t)}])
    <3>1. CASE k \in t
      <4>1. h[t] = Collect(g[t \ {k}]) /\ h[t \ {k}] = g[t \ {k}] /\ Max(t) = k
        BY <2>3, <3>1
      <4> HIDE DEF h
      <4> QED BY <3>1, <4>1
    <3>2. CASE k \notin t
      <4>1. h[t] = g[t] /\ t \in SUBSET (1 .. m)
        BY <2>3, <3>2
      <4>2. t \ {Max(t)} \in SUBSET (1 .. m)
        BY <4>1
      <4>3. g[t] = IF t = {} THEN base ELSE Collect(g[t \ {Max(t)}])
        BY <2>1, <4>1 DEF Folds
      <4>4. h[t \ {Max(t)}] = g[t \ {Max(t)}]
        BY <2>5, <4>2
      <4> HIDE DEF h
      <4> QED BY <4>1, <4>3, <4>4
    <3> QED BY <3>1, <3>2
  <2>7. Folds(h, SUBSET (1 .. k), base)
    <3>1. h = [t \in SUBSET (1 .. k) |-> h[t]]
      OBVIOUS
    <3> HIDE DEF h
    <3> QED BY <2>6, <3>1 DEF Folds
  <2> HIDE DEF h
  <2>8. k \in S
    BY <2>2, <2>7
  <2> QED BY <2>8 DEF k
<1>3. n \in S
  <2> HIDE DEF S
  <2>1. n \in 0 .. n
    OBVIOUS
  <2> QED BY <1>1, <1>2, <2>1, UpToN
<1> QED BY <1>3

\* ResolveSend, from the position p on, once for each of the elements of s.
ReadLists(p, s) ==
  FoldLeft(LAMBDA x, i : [to |-> Append(x.to, ReadList(x.end)), end |-> EndOfList(x.end)],
           [to |-> <<>>, end |-> p], s)

\* The n lists to are read one after the other; list i ends at at[i].
Receivers(s, n, to, p, at) ==
  /\ n \in Nat /\ DOMAIN s = 1 .. n /\ to \in Seq(Seq(Int)) /\ Len(to) = n /\ at[0] = p
  /\ \A i \in 1 .. n : ReadList(at[i - 1]) = to[i] /\ EndOfList(at[i - 1]) = at[i]

LEMMA ListsAre ==
  ASSUME NEW s, NEW n, NEW to, NEW p, NEW at, Receivers(s, n, to, p, at)
  PROVE  ReadLists(p, s) = [to |-> to, end |-> at[n]]
<1> DEFINE base == [to |-> <<>>, end |-> p]
           iter == CHOOSE g : Folds(g, SUBSET (1 .. n), base)
           upTo(m) == [i \in 1 .. m |-> to[i]]
           S == {m \in 0 .. n : iter[1 .. m] = [to |-> upTo(m), end |-> at[m]]}
<1>0. /\ n \in Nat /\ DOMAIN s = 1 .. n /\ to \in Seq(Seq(Int)) /\ Len(to) = n /\ at[0] = p
      /\ \A i \in 1 .. n : ReadList(at[i - 1]) = to[i] /\ EndOfList(at[i - 1]) = at[i]
  BY DEF Receivers
<1>1. ReadLists(p, s) = iter[1 .. n]
  BY <1>0 DEF ReadLists, Collect, FoldLeft, MapThenFoldSet, Folds
<1>2. Folds(iter, SUBSET (1 .. n), base)
  <2> HIDE DEF base
  <2>1. \E g : Folds(g, SUBSET (1 .. n), base)
    BY <1>0, FoldExists
  <2> QED BY <2>1
<1> HIDE DEF iter
<1>3. iter[{}] = base /\ \A t \in SUBSET (1 .. n) : t # {} => iter[t] = Collect(iter[t \ {Max(t)}])
  <2> HIDE DEF base
  <2> QED BY <1>2 DEF Folds
<1>4. 0 \in S
  <2>1. 1 .. 0 = {} /\ 0 \in 0 .. n
    BY <1>0
  <2>2. upTo(0) = <<>>
    BY <2>1
  <2> HIDE DEF upTo
  <2> QED BY <1>0, <1>3, <2>1, <2>2
<1>5. ASSUME NEW m \in 0 .. n - 1, m \in S PROVE m + 1 \in S
  <2>1. m \in Nat /\ m + 1 \in 0 .. n /\ m + 1 \in 1 .. n /\ (m + 1) - 1 = m
    BY <1>0
  <2>2. Max(1 .. m + 1) = m + 1 /\ (1 .. m + 1) \ {m + 1} = 1 .. m /\ 1 .. m + 1 # {}
    BY <2>1, MaxOfInterval
  <2>3. 1 .. m + 1 \in SUBSET (1 .. n)
    BY <1>0
  <2>4. iter[1 .. m + 1] = Collect(iter[1 .. m])
    BY <1>3, <2>2, <2>3
  <2>5. ReadList(at[m]) = to[m + 1] /\ EndOfList(at[m]) = at[m + 1]
    BY <1>0, <2>1
  <2>6. Append(upTo(m), to[m + 1]) = upTo(m + 1)
    <3>1. \A i \in 1 .. n : to[i] \in Seq(Int)
      BY <1>0
    <3>2. upTo(m) \in [1 .. m -> Seq(Int)]
      <4>1. \A i \in 1 .. m : i \in 1 .. n
        BY <1>0, <2>1
      <4> QED BY <3>1, <4>1
    <3>3. upTo(m) \in Seq(Seq(Int)) /\ Len(upTo(m)) = m
      BY <2>1, <3>2, FunctionSeq
    <3>4. \A i \in 1 .. m : upTo(m)[i] = to[i]
      OBVIOUS
    <3>5. to[m + 1] \in Seq(Int)
      BY <2>1, <3>1
    <3> DEFINE u == upTo(m)
               x == to[m + 1]
    <3> HIDE DEF u, x
    <3>6. Append(u, x) = [i \in 1 .. m + 1 |-> IF i = m + 1 THEN x ELSE u[i]]
      BY <2>1, <3>3, <3>5 DEF u, x
    <3>7. \A i \in 1 .. m + 1 : (IF i = m + 1 THEN x ELSE u[i]) = to[i]
      <4>1. \A i \in 1 .. m + 1 : i = m + 1 \/ i \in 1 .. m
        BY <2>1
      <4>2. \A i \in 1 .. m : u[i] = to[i]
        BY <3>4 DEF u
      <4> QED BY <4>1, <4>2 DEF x
    <3>8. Append(u, x) = upTo(m + 1)
      BY <3>6, <3>7
    <3> QED BY <3>8 DEF u, x
  <2>7. iter[1 .. m] = [to |-> upTo(m), end |-> at[m]]
    BY <1>5
  <2>8. iter[1 .. m + 1] = [to |-> upTo(m + 1), end |-> at[m + 1]]
    <3> HIDE DEF upTo
    <3>1. Collect([to |-> upTo(m), end |-> at[m]]) = [to |-> Append(upTo(m), ReadList(at[m])), end |-> EndOfList(at[m])]
      BY DEF Collect
    <3> QED BY <2>4, <2>5, <2>6, <2>7, <3>1
  <2> QED BY <2>1, <2>8
<1>6. n \in S
  <2> HIDE DEF S
  <2> QED BY <1>0, <1>4, <1>5, UpToN
<1>7. upTo(n) = to
  BY <1>0
<1>8. iter[1 .. n] = [to |-> upTo(n), end |-> at[n]]
  BY <1>6
<1> HIDE DEF upTo
<1> QED BY <1>1, <1>7, <1>8
-----------------------------------------------------------------------------
(***************************************************************************)
(* The fields of each command are numbers and strings that fit in the      *)
(* first buffer.                                                           *)
(***************************************************************************)
Fit(l) == {f \in Field : Width(f) <= l}

LEMMA FlattenTyped ==
  ASSUME NEW T, NEW cs \in Seq(Seq(T))
  PROVE  FlattenSeq(cs) \in Seq(T)
<1> DEFINE n == Len(cs)
<1>1. Flattened(T, cs, n)
  BY FlattenIs
<1> HIDE DEF n
<1>2. CASE n = 0 /\ FlattenSeq(cs) = <<>>
  <2>1. <<>> \in Seq(T)
    OBVIOUS
  <2> QED BY <1>2, <2>1
<1>3. ASSUME NEW g, n \in Nat \ {0}, FlattenSeq(cs) = g[n], \A i \in 1 .. n : g[i] \in Seq(T)
      PROVE  FlattenSeq(cs) \in Seq(T)
  <2>1. n \in 1 .. n
    BY <1>3
  <2> QED BY <1>3, <2>1
<1> QED BY <1>1, <1>2, <1>3, Zenon DEF Flattened

LEMMA ChunksTyped ==
  ASSUME NEW T, NEW n \in Nat, NEW f, DOMAIN f = 1 .. n, NEW cs, cs = [i \in DOMAIN f |-> cs[i]],
         \A i \in 1 .. n : cs[i] \in Seq(T)
  PROVE  cs \in Seq(Seq(T)) /\ Len(cs) = n /\ FlattenSeq(cs) \in Seq(T)
<1>1. cs = [i \in 1 .. n |-> cs[i]]
  OBVIOUS
<1>2. cs \in [1 .. n -> Seq(T)]
  BY <1>1
<1>3. cs \in Seq(Seq(T)) /\ Len(cs) = n
  BY <1>2, FunctionSeq
<1> QED BY <1>3, FlattenTyped

LEMMA IntFits ==
  ASSUME NEW l \in Nat, 4 <= l, NEW v \in Int
  PROVE  Int4(v) \in Fit(l) /\ <<Int4(v)>> \in Seq(Fit(l))
<1>1. Int4(v) \in Fit(l)
  BY IntIs DEF Fit
<1> QED BY <1>1

LEMMA IntsFit ==
  ASSUME NEW l \in Nat, 4 <= l, NEW s \in Seq(Int)
  PROVE  Ints(s) \in Seq(Fit(l)) /\ List(s) \in Seq(Fit(l))
<1> DEFINE n == Len(s)
<1>1. /\ n \in Nat /\ \A i \in 1 .. n : s[i] \in Int
      /\ DOMAIN s = 1 .. n
  OBVIOUS
<1> HIDE DEF n
<1>2. Ints(s) \in [1 .. n -> Fit(l)]
  <2>1. \A i \in 1 .. n : Int4(s[i]) \in Fit(l)
    BY <1>1, IntFits
  <2> QED BY <1>1, <2>1 DEF Ints
<1>3. Ints(s) \in Seq(Fit(l))
  BY <1>1, <1>2, FunctionSeq
<1>4. <<Int4(n)>> \in Seq(Fit(l))
  <2>1. n \in Int
    BY <1>1
  <2> QED BY <2>1, IntFits
<1>5. <<Int4(n)>> \o Ints(s) \in Seq(Fit(l))
  BY <1>3, <1>4, ConcatIs
<1> QED BY <1>3, <1>5 DEF List, n

LEMMA BitsFit ==
  ASSUME NEW l \in Nat, 4 <= l, NEW u \in Usage
  PROVE  Bits(u) \in Seq(Fit(l))
BY BitsAre, IntsFit

LEMMA ReadFit ==
  ASSUME NEW l \in Nat, 4 <= l, NEW c \in ReadTask, 4 + Len(c.blk) <= l
  PROVE  /\ ReadFields(c) \in Seq(Fit(l))
         /\ <<Int4(0), Str(c.blk)>> \in Seq(Fit(l)) /\ List(c.idxs) \in Seq(Fit(l))
         /\ FlattenSeq([i \in DOMAIN c.usage |-> Bits(c.usage[i])]) \in Seq(Fit(l))
<1> DEFINE cs == [i \in DOMAIN c.usage |-> Bits(c.usage[i])]
           n == Len(c.usage)
<1>1. c.blk \in Name /\ c.idxs \in Seq(Int) /\ c.usage \in Seq(Usage)
  BY DEF ReadTask
<1>2. n \in Nat /\ DOMAIN c.usage = 1 .. n /\ \A i \in 1 .. n : c.usage[i] \in Usage
  BY <1>1
<1>3. FlattenSeq(cs) \in Seq(Fit(l))
  <2>1. \A i \in 1 .. n : Bits(c.usage[i]) \in Seq(Fit(l))
    BY <1>2, BitsFit
  <2>2. \A i \in 1 .. n : cs[i] \in Seq(Fit(l))
    BY <1>2, <2>1
  <2>3. cs = [i \in DOMAIN c.usage |-> cs[i]]
    OBVIOUS
  <2> HIDE DEF cs, n
  <2> QED BY <1>2, <2>2, <2>3, ChunksTyped
<1> HIDE DEF cs
<1>4. <<Int4(0), Str(c.blk)>> \in Seq(Fit(l))
  <2>1. Int4(0) \in Fit(l)
    BY IntFits
  <2>2. Str(c.blk) \in Fit(l)
    BY <1>1, StrIs DEF Fit
  <2> QED BY <2>1, <2>2
<1>5. List(c.idxs) \in Seq(Fit(l))
  BY <1>1, IntsFit
<1>6. <<Int4(0), Str(c.blk)>> \o List(c.idxs) \in Seq(Fit(l))
  BY <1>4, <1>5, ConcatIs
<1>7. (IF c.blk = ZERO THEN <<>> ELSE FlattenSeq(cs)) \in Seq(Fit(l))
  <2>1. <<>> \in Seq(Fit(l))
    OBVIOUS
  <2> QED BY <1>3, <2>1
<1>8. <<Int4(0), Str(c.blk)>> \o List(c.idxs) \o (IF c.blk = ZERO THEN <<>> ELSE FlattenSeq(cs)) \in Seq(Fit(l))
  BY <1>6, <1>7, ConcatIs
<1> QED BY <1>3, <1>4, <1>5, <1>8 DEF ReadFields, cs

LEMMA SendFit ==
  ASSUME NEW l \in Nat, 4 <= l, NEW c \in SendTask, Len(c.to) = Len(c.idxs)
  PROVE  /\ SendFields(c) \in Seq(Fit(l))
         /\ <<Int4(1)>> \in Seq(Fit(l)) /\ List(c.idxs) \in Seq(Fit(l))
         /\ [i \in DOMAIN c.idxs |-> List(c.to[i])] \in Seq(Seq(Fit(l)))
         /\ FlattenSeq([i \in DOMAIN c.idxs |-> List(c.to[i])]) \in Seq(Fit(l))
         /\ Len([i \in DOMAIN c.idxs |-> List(c.to[i])]) = Len(c.idxs)
<1> DEFINE cs == [i \in DOMAIN c.idxs |-> List(c.to[i])]
           n == Len(c.idxs)
<1>1. c.idxs \in Seq(Int) /\ c.to \in Seq(Seq(Int))
  BY DEF SendTask
<1>2. n \in Nat /\ DOMAIN c.idxs = 1 .. n /\ \A i \in 1 .. n : c.to[i] \in Seq(Int)
  BY <1>1
<1>3. cs \in Seq(Seq(Fit(l))) /\ FlattenSeq(cs) \in Seq(Fit(l)) /\ Len(cs) = n
  <2>1. \A i \in 1 .. n : List(c.to[i]) \in Seq(Fit(l))
    BY <1>2, IntsFit
  <2>2. \A i \in 1 .. n : cs[i] \in Seq(Fit(l))
    BY <1>2, <2>1
  <2>3. cs = [i \in DOMAIN c.idxs |-> cs[i]]
    OBVIOUS
  <2> HIDE DEF cs, n
  <2> QED BY <1>2, <2>2, <2>3, ChunksTyped
<1> HIDE DEF cs
<1>4. <<Int4(1)>> \in Seq(Fit(l))
  BY IntFits
<1>5. List(c.idxs) \in Seq(Fit(l))
  BY <1>1, IntsFit
<1>6. <<Int4(1)>> \o List(c.idxs) \in Seq(Fit(l))
  BY <1>4, <1>5, ConcatIs
<1>7. <<Int4(1)>> \o List(c.idxs) \o FlattenSeq(cs) \in Seq(Fit(l))
  BY <1>3, <1>6, ConcatIs
<1> QED BY <1>3, <1>4, <1>5, <1>7 DEF SendFields, cs

LEMMA ListFit ==
  ASSUME NEW l \in Nat, 4 <= l, NEW v \in Int, NEW s \in Seq(Int)
  PROVE  <<Int4(v)>> \in Seq(Fit(l)) /\ List(s) \in Seq(Fit(l)) /\ <<Int4(v)>> \o List(s) \in Seq(Fit(l))
<1>1. <<Int4(v)>> \in Seq(Fit(l))
  BY IntFits
<1>2. List(s) \in Seq(Fit(l))
  BY IntsFit
<1> QED BY <1>1, <1>2, ConcatIs

LEMMA PersistFit ==
  ASSUME NEW l \in Nat, 4 <= l, NEW c \in PersistTask, 4 + Len(c.blk) <= l
  PROVE  /\ <<Int4(4)>> \o List(c.idxs) \o <<Str(c.blk)>> \in Seq(Fit(l))
         /\ <<Int4(4)>> \o List(c.idxs) \in Seq(Fit(l)) /\ <<Str(c.blk)>> \in Seq(Fit(l))
<1>1. c.idxs \in Seq(Int) /\ c.blk \in Name
  BY DEF PersistTask
<1>2. <<Int4(4)>> \o List(c.idxs) \in Seq(Fit(l))
  <2> DEFINE s == c.idxs
             v == 4
  <2>1. s \in Seq(Int) /\ v \in Int
    BY <1>1
  <2> HIDE DEF s, v
  <2>2. <<Int4(v)>> \o List(s) \in Seq(Fit(l))
    BY <2>1, ListFit
  <2> QED BY <2>2 DEF s, v
<1>3. Str(c.blk) \in Fit(l)
  BY <1>1, StrIs DEF Fit
<1>4. <<Str(c.blk)>> \in Seq(Fit(l))
  BY <1>3
<1>5. <<Int4(4)>> \o List(c.idxs) \o <<Str(c.blk)>> \in Seq(Fit(l))
  BY <1>2, <1>4, ConcatIs
<1> QED BY <1>2, <1>4, <1>5

LEMMA ItemFit ==
  ASSUME NEW l \in Nat, 4 <= l, NEW c \in ComputeItem
  PROVE  /\ ItemFields(c) \in Seq(Fit(l))
         /\ <<Int4(c.dst)>> \in Seq(Fit(l)) /\ List(c.srcs) \in Seq(Fit(l))
         /\ Ints(c.coefs) \in Seq(Fit(l)) /\ Bits(c.usage) \in Seq(Fit(l))
         /\ <<Int4(c.dst)>> \o List(c.srcs) \in Seq(Fit(l))
         /\ <<Int4(c.dst)>> \o List(c.srcs) \o Ints(c.coefs) \in Seq(Fit(l))
<1>1. c.dst \in Int /\ c.srcs \in Seq(Int) /\ c.coefs \in Seq(Int) /\ c.usage \in Usage
  BY DEF ComputeItem
<1>2. <<Int4(c.dst)>> \in Seq(Fit(l))
  BY <1>1, IntFits
<1>3. List(c.srcs) \in Seq(Fit(l)) /\ Ints(c.coefs) \in Seq(Fit(l))
  BY <1>1, IntsFit
<1>4. Bits(c.usage) \in Seq(Fit(l))
  BY <1>1, BitsFit
<1>5. <<Int4(c.dst)>> \o List(c.srcs) \in Seq(Fit(l))
  BY <1>2, <1>3, ConcatIs
<1>6. <<Int4(c.dst)>> \o List(c.srcs) \o Ints(c.coefs) \in Seq(Fit(l))
  BY <1>3, <1>5, ConcatIs
<1>7. <<Int4(c.dst)>> \o List(c.srcs) \o Ints(c.coefs) \o Bits(c.usage) \in Seq(Fit(l))
  BY <1>4, <1>6, ConcatIs
<1> QED BY <1>2, <1>3, <1>4, <1>5, <1>6, <1>7 DEF ItemFields

LEMMA RequestFit ==
  ASSUME NEW l \in Nat, 4 <= l, NEW c \in AGCommand
  PROVE  /\ RequestFields(c) \in Seq(Fit(l))
         /\ <<c.batch, c.cur, Len(c.stripes)>> \in Seq(Int)
         /\ Ints(<<c.batch, c.cur, Len(c.stripes)>>) \in Seq(Fit(l))
         /\ [i \in DOMAIN c.stripes |-> Ints(c.stripes[i])] \in Seq(Seq(Fit(l)))
         /\ FlattenSeq([i \in DOMAIN c.stripes |-> Ints(c.stripes[i])]) \in Seq(Fit(l))
         /\ Len([i \in DOMAIN c.stripes |-> Ints(c.stripes[i])]) = Len(c.stripes)
<1> DEFINE cs == [i \in DOMAIN c.stripes |-> Ints(c.stripes[i])]
           n == Len(c.stripes)
           h == <<c.batch, c.cur, n>>
<1>1. c.batch \in Int /\ c.cur \in Int /\ c.stripes \in Seq(Int \X Int)
  BY DEF AGCommand
<1>2. n \in Nat /\ DOMAIN c.stripes = 1 .. n /\ \A i \in 1 .. n : c.stripes[i] \in Int \X Int
  BY <1>1
<1>3. cs \in Seq(Seq(Fit(l))) /\ FlattenSeq(cs) \in Seq(Fit(l)) /\ Len(cs) = n
  <2>1. ASSUME NEW i \in 1 .. n PROVE Ints(c.stripes[i]) \in Seq(Fit(l))
    <3> DEFINE s == c.stripes[i]
    <3>1. s \in Int \X Int
      BY <1>2
    <3> HIDE DEF s
    <3>2. s = <<s[1], s[2]>> /\ s[1] \in Int /\ s[2] \in Int
      BY <3>1
    <3>3. s \in Seq(Int)
      BY <3>2, PairIs
    <3>4. Ints(s) \in Seq(Fit(l))
      BY <3>3, IntsFit
    <3> QED BY <3>4 DEF s
  <2>2. \A i \in 1 .. n : cs[i] \in Seq(Fit(l))
    BY <1>2, <2>1
  <2>3. cs = [i \in DOMAIN c.stripes |-> cs[i]]
    OBVIOUS
  <2> HIDE DEF cs, n
  <2> QED BY <1>2, <2>2, <2>3, ChunksTyped
<1> HIDE DEF cs
<1>4. h \in Seq(Int)
  BY <1>1, <1>2
<1> HIDE DEF h
<1>5. Ints(h) \in Seq(Fit(l))
  BY <1>4, IntsFit
<1>6. Ints(h) \o FlattenSeq(cs) \in Seq(Fit(l))
  BY <1>3, <1>5, ConcatIs
<1> QED BY <1>3, <1>4, <1>5, <1>6 DEF RequestFields, cs, h

(***************************************************************************)
(* The six kinds of commands.                                              *)
(***************************************************************************)
Read(c)    == c \in ReadTask /\ 4 + Len(c.blk) <= FirstLen(c)
                /\ Len(c.usage) = (IF c.blk = ZERO THEN 0 ELSE Len(c.idxs))
Send(c)    == c \in SendTask /\ Len(c.to) = Len(c.idxs)
Persist(c) == c \in PersistTask /\ 4 + Len(c.blk) <= FirstLen(c)
Item(c)    == c \in ComputeItem /\ Len(c.coefs) = Len(c.srcs)
Kinds(c)   == Read(c) \/ Send(c) \/ c \in ListTask \/ Persist(c) \/ Item(c) \/ c \in AGCommand

LEMMA KindIs ==
  ASSUME NEW c \in Commands
  PROVE  Kinds(c) /\ FirstLen(c) \in Nat /\ 4 <= FirstLen(c)
<1>1. /\ TASK_COMMAND_LEN \in Nat /\ 4 <= TASK_COMMAND_LEN
      /\ COMPUTE_COMMAND_LEN \in Nat /\ 4 <= COMPUTE_COMMAND_LEN
      /\ AGENT_COMMAND_LEN \in Nat /\ 4 <= AGENT_COMMAND_LEN
  BY CommandAssumption
<1>2. \/ c \in ReadTask \/ c \in SendTask \/ c \in ListTask \/ c \in PersistTask
      \/ c \in ComputeItem \/ c \in AGCommand
  BY CommandAssumption
<1>3. c \in ReadTask \cup SendTask \cup ListTask \cup PersistTask => FirstLen(c) = TASK_COMMAND_LEN
  BY DEF ReadTask, SendTask, ListTask, PersistTask, FirstLen
<1>4. c \in ComputeItem => FirstLen(c) = COMPUTE_COMMAND_LEN
  BY DEF ComputeItem, FirstLen
<1>5. c \in AGCommand => FirstLen(c) = AGENT_COMMAND_LEN
  BY DEF AGCommand, FirstLen
<1>6. FirstLen(c) \in Nat /\ 4 <= FirstLen(c)
  BY <1>1, <1>2, <1>3, <1>4, <1>5
<1>7. Kinds(c)
  BY <1>3, CommandAssumption DEF Kinds, Read, Send, Persist, Item
<1> QED BY <1>6, <1>7

LEMMA FieldsAre ==
  ASSUME NEW c
  PROVE  /\ c \in ReadTask => Fields(c) = ReadFields(c)
         /\ c \in SendTask => Fields(c) = SendFields(c)
         /\ c \in ListTask => Fields(c) = <<Int4(c.type)>> \o List(c.idxs)
         /\ c \in PersistTask => Fields(c) = <<Int4(4)>> \o List(c.idxs) \o <<Str(c.blk)>>
         /\ c \in ComputeItem => Fields(c) = ItemFields(c)
         /\ c \in AGCommand => Fields(c) = RequestFields(c)
<1>1. ASSUME c \in ReadTask PROVE Fields(c) = ReadFields(c)
  BY <1>1 DEF ReadTask, Fields
<1>2. ASSUME c \in SendTask PROVE Fields(c) = SendFields(c)
  BY <1>2 DEF SendTask, Fields
<1>3. ASSUME c \in ListTask PROVE Fields(c) = <<Int4(c.type)>> \o List(c.idxs)
  BY <1>3 DEF ListTask, Fields
<1>4. ASSUME c \in PersistTask PROVE Fields(c) = <<Int4(4)>> \o List(c.idxs) \o <<Str(c.blk)>>
  BY <1>4 DEF PersistTask, Fields
<1>5. ASSUME c \in ComputeItem PROVE Fields(c) = ItemFields(c)
  BY <1>5 DEF ComputeItem, Fields
<1>6. ASSUME c \in AGCommand PROVE Fields(c) = RequestFields(c)
  BY <1>6 DEF AGCommand, Fields
<1> QED BY <1>1, <1>2, <1>3, <1>4, <1>5, <1>6

LEMMA FieldsFit ==
  ASSUME NEW c \in Commands
  PROVE  Fields(c) \in Seq(Fit(FirstLen(c)))
<1> DEFINE l == FirstLen(c)
<1>1. l \in Nat /\ 4 <= l /\ Kinds(c)
  BY KindIs
<1>2. CASE Read(c)
  BY <1>1, <1>2, ReadFit, FieldsAre DEF Read
<1>3. CASE Send(c)
  BY <1>1, <1>3, SendFit, FieldsAre DEF Send
<1>4. CASE c \in ListTask
  <2>1. c.type \in Int /\ c.idxs \in Seq(Int)
    BY <1>4 DEF ListTask
  <2> HIDE DEF l
  <2>2. <<Int4(c.type)>> \o List(c.idxs) \in Seq(Fit(l))
    BY <1>1, <2>1, ListFit
  <2> QED BY <1>4, <2>2, FieldsAre DEF l
<1>5. CASE Persist(c)
  BY <1>1, <1>5, PersistFit, FieldsAre DEF Persist
<1>6. CASE Item(c)
  BY <1>1, <1>6, ItemFit, FieldsAre DEF Item
<1>7. CASE c \in AGCommand
  BY <1>1, <1>7, RequestFit, FieldsAre
<1> QED BY <1>1, <1>2, <1>3, <1>4, <1>5, <1>6, <1>7 DEF Kinds
-----------------------------------------------------------------------------
(***************************************************************************)
(* Each kind is resolved to what was built.                                *)
(***************************************************************************)
LEMMA LiesTwo ==
  ASSUME NEW c, NEW p, NEW e, NEW f, NEW g, LieIn(c, p, <<f, g>>, e)
  PROVE  \E m : HoldsIn(c, p, f) /\ m = p + Width(f) /\ HoldsIn(c, m, g) /\ e = m + Width(g)
<1>1. PICK off : Lies(c, off, p, <<f, g>>, e)
  BY DEF LieIn
<1>2. /\ Len(<<f, g>>) = 2 /\ <<f, g>>[1] = f /\ <<f, g>>[2] = g
      /\ 1 \in 1 .. 2 /\ 2 \in 1 .. 2 /\ 1 - 1 = 0 /\ 2 - 1 = 1
  OBVIOUS
<1>3. /\ off[0] = p /\ off[2] = e
      /\ off[1] = off[0] + Width(f) /\ HoldsIn(c, off[0], f)
      /\ off[2] = off[1] + Width(g) /\ HoldsIn(c, off[1], g)
  <2>1. off[0] = p /\ off[2] = e
    BY <1>1, <1>2 DEF Lies
  <2>2. \A i \in 1 .. 2 : off[i] = off[i - 1] + Width(<<f, g>>[i]) /\ HoldsIn(c, off[i - 1], <<f, g>>[i])
    BY <1>1, <1>2 DEF Lies
  <2>3. off[1] = off[1 - 1] + Width(<<f, g>>[1]) /\ HoldsIn(c, off[1 - 1], <<f, g>>[1])
    BY <1>2, <2>2
  <2>4. off[2] = off[2 - 1] + Width(<<f, g>>[2]) /\ HoldsIn(c, off[2 - 1], <<f, g>>[2])
    BY <1>2, <2>2
  <2> QED BY <1>2, <2>1, <2>3, <2>4
<1> QED BY <1>3

LEMMA IntLies ==
  ASSUME cells \in Seq(Cell), NEW p, NEW v \in Int, NEW e, LieIn(cells, p, <<Int4(v)>>, e)
  PROVE  readInt(p) = v /\ e = p + 4
<1>1. HoldsIn(cells, p, Int4(v)) /\ e = p + Width(Int4(v))
  BY LiesOne
<1> QED BY <1>1, IntIs, HeldInt DEF Holds

LEMMA StrLies ==
  ASSUME cells \in Seq(Cell), NEW p, NEW s \in Name, NEW e, LieIn(cells, p, <<Str(s)>>, e)
  PROVE  readString(p) = s /\ EndOfString(p) = e
<1>1. HoldsIn(cells, p, Str(s)) /\ e = p + Width(Str(s))
  BY LiesOne
<1>2. Width(Str(s)) = 4 + Len(s) /\ Len(s) \in Nat
  BY StrIs
<1>3. readString(p) = s /\ EndOfString(p) = p + 4 + Len(s) /\ p \in Nat
  BY <1>1, HeldStr DEF Holds
<1> QED BY <1>1, <1>2, <1>3

Kept == Resolved = [cmd |-> cmd, end |-> Len(cells)]

LEMMA ListResolved ==
  ASSUME cells \in Seq(Cell), cmd \in ListTask, Lie(0, Fields(cmd), Len(cells))
  PROVE  Kept
<1> DEFINE v == cmd.type
           s == cmd.idxs
           e == Len(cells)
<1>1. v \in {2, 3} /\ v \in Int /\ s \in Seq(Int) /\ cmd = [kind |-> "task", type |-> v, idxs |-> s]
  BY DEF ListTask
<1>2. Lie(0, <<Int4(v)>> \o List(s), e)
  BY FieldsAre
<1>3. cmd.kind = "task"
  BY <1>1
<1> HIDE DEF v, s, e
<1>4. <<Int4(v)>> \in Seq(Fit(4)) /\ List(s) \in Seq(Fit(4))
  <2>1. 4 \in Nat /\ 4 <= 4
    OBVIOUS
  <2> QED BY <1>1, <2>1, ListFit
<1>5. PICK m \in Nat : LieIn(cells, 0, <<Int4(v)>>, m) /\ LieIn(cells, m, List(s), e)
  BY <1>2, <1>4, LiesBoth DEF Lie
<1>6. readInt(0) = v /\ m = 0 + 4
  BY <1>1, <1>5, IntLies
<1>7. m = 4
  BY <1>6
<1>8. ReadList(4) = s /\ EndOfList(4) = e
  BY <1>1, <1>5, <1>7, ListLies DEF Lie
<1>9. Resolved = ResolveList(v)
  BY <1>1, <1>3, <1>6 DEF Resolved
<1>10. Resolved = [cmd |-> [kind |-> "task", type |-> v, idxs |-> s], end |-> e]
  BY <1>8, <1>9 DEF ResolveList
<1> QED BY <1>1, <1>10 DEF Kept, e

LEMMA PersistResolved ==
  ASSUME cells \in Seq(Cell), Persist(cmd), Lie(0, Fields(cmd), Len(cells))
  PROVE  Kept
<1> DEFINE s == cmd.idxs
           blk == cmd.blk
           l == FirstLen(cmd)
           e == Len(cells)
<1>1. s \in Seq(Int) /\ blk \in Name /\ cmd = [kind |-> "task", type |-> 4, idxs |-> s, blk |-> blk]
  BY DEF Persist, PersistTask
<1>2. Lie(0, <<Int4(4)>> \o List(s) \o <<Str(blk)>>, e)
  BY FieldsAre DEF Persist
<1>3. cmd.kind = "task"
  BY <1>1
<1> HIDE DEF s, blk, e
<1>4. /\ <<Int4(4)>> \o List(s) \in Seq(Field) /\ <<Str(blk)>> \in Seq(Field)
      /\ <<Int4(4)>> \in Seq(Field) /\ List(s) \in Seq(Field)
  <2>1. List(s) \in Seq(Field)
    BY <1>1, ListIs
  <2>2. <<Int4(4)>> \in Seq(Field)
    <3>1. Int4(4) \in Field
      BY IntIs
    <3> QED BY <3>1
  <2>3. <<Str(blk)>> \in Seq(Field)
    <3>1. Str(blk) \in Field
      BY <1>1, StrIs
    <3> QED BY <3>1
  <2>4. <<Int4(4)>> \o List(s) \in Seq(Field)
    BY <2>1, <2>2, ConcatIs
  <2> QED BY <2>1, <2>2, <2>3, <2>4
<1>5. PICK k \in Nat : LieIn(cells, 0, <<Int4(4)>> \o List(s), k) /\ LieIn(cells, k, <<Str(blk)>>, e)
  BY <1>2, <1>4, LiesBoth DEF Lie
<1>6. PICK m \in Nat : LieIn(cells, 0, <<Int4(4)>>, m) /\ LieIn(cells, m, List(s), k)
  BY <1>4, <1>5, LiesBoth
<1>7. readInt(0) = 4 /\ m = 0 + 4
  <2> DEFINE v == 4
  <2>1. v \in Int /\ LieIn(cells, 0, <<Int4(v)>>, m)
    BY <1>6
  <2> HIDE DEF v
  <2>2. readInt(0) = v /\ m = 0 + 4
    BY <2>1, IntLies
  <2> QED BY <2>2 DEF v
<1>8. m = 4
  BY <1>7
<1>9. ReadList(4) = s /\ EndOfList(4) = k
  BY <1>1, <1>6, <1>8, ListLies DEF Lie
<1>10. readString(k) = blk /\ EndOfString(k) = e
  BY <1>1, <1>5, StrLies
<1>11. Resolved = ResolvePersist
  BY <1>3, <1>7 DEF Resolved
<1>12. Resolved = [cmd |-> [kind |-> "task", type |-> 4, idxs |-> s, blk |-> blk], end |-> e]
  BY <1>9, <1>10, <1>11 DEF ResolvePersist
<1> QED BY <1>1, <1>12 DEF Kept, e

LEMMA ReadResolved ==
  ASSUME cells \in Seq(Cell), Read(cmd), FirstLen(cmd) \in Nat, 4 <= FirstLen(cmd),
         Lie(0, Fields(cmd), Len(cells))
  PROVE  Kept
<1> DEFINE s == cmd.idxs
           blk == cmd.blk
           usage == cmd.usage
           cs == [i \in DOMAIN usage |-> Bits(usage[i])]
           last == IF blk = ZERO THEN <<>> ELSE FlattenSeq(cs)
           two == <<Int4(0), Str(blk)>>
           list == List(s)
           n == Len(usage)
           l == FirstLen(cmd)
           e == Len(cells)
           T == Fit(l)
<1>1. s \in Seq(Int) /\ blk \in Name /\ usage \in Seq(Usage)
  BY DEF Read, ReadTask
<1>2. cmd = [kind |-> "task", type |-> 0, blk |-> blk, idxs |-> s, usage |-> usage]
  BY DEF Read, ReadTask
<1>3. cmd.kind = "task" /\ n = (IF blk = ZERO THEN 0 ELSE Len(s))
  BY <1>2 DEF Read
<1>4. /\ n \in Nat /\ DOMAIN usage = 1 .. n /\ usage = [i \in 1 .. n |-> usage[i]]
      /\ \A i \in 1 .. n : usage[i] \in Usage
  BY <1>1
<1>5. two \in Seq(T) /\ list \in Seq(T) /\ FlattenSeq(cs) \in Seq(T)
  BY ReadFit DEF Read
<1>6. last \in Seq(T)
  <2>1. <<>> \in Seq(T)
    OBVIOUS
  <2> QED BY <1>5, <2>1
<1>7. Lie(0, two \o list \o last, e)
  BY FieldsAre DEF Read, ReadFields
<1>8. cs \in Seq(Seq(Field)) /\ Len(cs) = n
  <2>1. \A i \in 1 .. n : Bits(usage[i]) \in Seq(Field)
    BY <1>4, BitsAre
  <2>2. \A i \in 1 .. n : cs[i] \in Seq(Field)
    BY <1>4, <2>1
  <2>3. cs = [i \in DOMAIN usage |-> cs[i]]
    OBVIOUS
  <2> HIDE DEF cs, n
  <2> QED BY <1>4, <2>2, <2>3, ChunksTyped
<1>9. \A i \in 1 .. n : cs[i] = Bits(usage[i])
  BY <1>4
<1> HIDE DEF s, blk, usage, cs, two, list, n, e, T
<1>10. two \o list \in Seq(T)
  BY <1>5, ConcatIs
<1>11. PICK k \in Nat : LieIn(cells, 0, two \o list, k) /\ LieIn(cells, k, last, e)
  <2> HIDE DEF last
  <2> QED BY <1>6, <1>7, <1>10, LiesBoth DEF Lie
<1>12. PICK m \in Nat : LieIn(cells, 0, two, m) /\ LieIn(cells, m, list, k)
  BY <1>5, <1>11, LiesBoth
<1>13. readInt(0) = 0 /\ readString(4) = blk /\ EndOfString(4) = m
  <2>1. PICK q : /\ HoldsIn(cells, 0, Int4(0)) /\ q = 0 + Width(Int4(0))
                 /\ HoldsIn(cells, q, Str(blk)) /\ m = q + Width(Str(blk))
    BY <1>12, LiesTwo DEF two
  <2> DEFINE z == 0
  <2>2. z \in Int /\ HoldsIn(cells, 0, Int4(z)) /\ q = 0 + Width(Int4(z))
    BY <2>1
  <2> HIDE DEF z
  <2>3. readInt(0) = z /\ Width(Int4(z)) = 4
    BY <2>2, HeldInt, IntIs DEF Holds
  <2>4. q = 4
    BY <2>2, <2>3
  <2>5. readString(4) = blk /\ EndOfString(4) = 4 + 4 + Len(blk)
    BY <1>1, <2>1, <2>4, HeldStr DEF Holds
  <2>6. Width(Str(blk)) = 4 + Len(blk) /\ Len(blk) \in Nat
    BY <1>1, StrIs
  <2>7. m = 4 + (4 + Len(blk))
    BY <2>1, <2>4, <2>6
  <2>8. 4 + (4 + Len(blk)) = 4 + 4 + Len(blk)
    BY <2>6
  <2> QED BY <2>3, <2>5, <2>7, <2>8 DEF z
<1>14. ReadList(m) = s /\ EndOfList(m) = k /\ readInt(m) = Len(s)
  BY <1>1, <1>12, ListLies DEF Lie, list
<1>15. (IF blk = ZERO THEN 0 ELSE readInt(m)) = n
  BY <1>3, <1>14
<1>16. Resolved = [cmd |-> [kind |-> "task", type |-> 0, blk |-> blk, idxs |-> s,
                            usage |-> [i \in 1 .. n |-> ReadBits(k + 8 * (i - 1))]],
                   end |-> k + 8 * n]
  <2>1. Resolved = ResolveRead
    BY <1>3, <1>13 DEF Resolved
  <2> QED BY <1>13, <1>14, <1>15, <2>1 DEF ResolveRead
<1>17. e = k + 8 * n /\ \A i \in 1 .. n : ReadBits(k + 8 * (i - 1)) = usage[i]
  <2>1. CASE blk = ZERO
    <3>1. LieIn(cells, k, <<>>, e) /\ Len(<<>>) = 0
      BY <1>11, <2>1
    <3> QED BY <1>3, <2>1, <3>1, LieEnds
  <2>2. CASE blk # ZERO
    <3>1. last = FlattenSeq(cs)
      BY <2>2
    <3> HIDE DEF last
    <3>2. Lie(k, FlattenSeq(cs), e)
      BY <1>11, <3>1 DEF Lie
    <3>3. PICK at : Parts(at, k, cs, n, e)
      BY <1>8, <3>2, FlattenLies
    <3>4. ASSUME NEW i \in 1 .. n PROVE ReadBits(at[i - 1]) = usage[i] /\ at[i] = at[i - 1] + 8
      <4>1. Lie(at[i - 1], Bits(usage[i]), at[i]) /\ usage[i] \in Usage
        BY <1>4, <1>9, <3>3 DEF Parts
      <4> QED BY <4>1, BitsLie
    <3>5. e = k + 8 * n /\ \A j \in 0 .. n : at[j] = k + 8 * j
      BY <1>4, <3>3, <3>4, EightApart
    <3>6. \A i \in 1 .. n : i - 1 \in 0 .. n
      BY <1>4
    <3> QED BY <3>4, <3>5, <3>6
  <2> QED BY <2>1, <2>2
<1>18. [i \in 1 .. n |-> ReadBits(k + 8 * (i - 1))] = usage
  BY <1>4, <1>17
<1> QED BY <1>2, <1>16, <1>17, <1>18 DEF Kept, e

LEMMA SendResolved ==
  ASSUME cells \in Seq(Cell), Send(cmd), FirstLen(cmd) \in Nat, 4 <= FirstLen(cmd),
         Lie(0, Fields(cmd), Len(cells))
  PROVE  Kept
<1> DEFINE s == cmd.idxs
           to == cmd.to
           cs == [i \in DOMAIN s |-> List(to[i])]
           one == <<Int4(1)>>
           list == List(s)
           last == FlattenSeq(cs)
           n == Len(s)
           l == FirstLen(cmd)
           e == Len(cells)
           T == Fit(l)
<1>1. s \in Seq(Int) /\ to \in Seq(Seq(Int)) /\ Len(to) = n
  BY DEF Send, SendTask
<1>2. cmd = [kind |-> "task", type |-> 1, idxs |-> s, to |-> to] /\ cmd.kind = "task"
  BY DEF Send, SendTask
<1>3. n \in Nat /\ DOMAIN s = 1 .. n
  BY <1>1
<1>4. \A i \in 1 .. n : to[i] \in Seq(Int)
  BY <1>1
<1>5. /\ one \in Seq(T) /\ list \in Seq(T) /\ last \in Seq(T)
      /\ cs \in Seq(Seq(T)) /\ Len(cs) = n
  BY SendFit DEF Send
<1>6. Lie(0, one \o list \o last, e)
  BY FieldsAre DEF Send, SendFields
<1>7. \A i \in 1 .. n : cs[i] = List(to[i])
  BY <1>3
<1>8. cs \in Seq(Seq(Field))
  <2>1. \A i \in 1 .. n : cs[i] \in Seq(Field)
    BY <1>4, <1>7, ListIs
  <2>2. cs = [i \in DOMAIN s |-> cs[i]]
    OBVIOUS
  <2> HIDE DEF cs, n
  <2> QED BY <1>3, <2>1, <2>2, ChunksTyped
<1> HIDE DEF s, to, cs, one, list, n, e, T
<1>9. one \o list \in Seq(T)
  BY <1>5, ConcatIs
<1>10. PICK k \in Nat : LieIn(cells, 0, one \o list, k) /\ LieIn(cells, k, last, e)
  <2> HIDE DEF last
  <2> QED BY <1>5, <1>6, <1>9, LiesBoth DEF Lie
<1>11. PICK m \in Nat : LieIn(cells, 0, one, m) /\ LieIn(cells, m, list, k)
  BY <1>5, <1>10, LiesBoth
<1>12. readInt(0) = 1 /\ m = 0 + 4
  <2> DEFINE v == 1
  <2>1. v \in Int /\ LieIn(cells, 0, <<Int4(v)>>, m)
    BY <1>11 DEF one
  <2> HIDE DEF v
  <2>2. readInt(0) = v /\ m = 0 + 4
    BY <2>1, IntLies
  <2> QED BY <2>2 DEF v
<1>13. m = 4
  BY <1>12
<1>14. ReadList(4) = s /\ EndOfList(4) = k
  BY <1>1, <1>11, <1>13, ListLies DEF Lie, list
<1>15. PICK at : Parts(at, k, cs, n, e)
  <2>1. Lie(k, FlattenSeq(cs), e)
    BY <1>10 DEF Lie
  <2> HIDE DEF last
  <2> QED BY <1>5, <1>8, <2>1, FlattenLies
<1>16. at[0] = k /\ at[n] = e
  BY <1>15 DEF Parts
<1>17. ASSUME NEW i \in 1 .. n PROVE ReadList(at[i - 1]) = to[i] /\ EndOfList(at[i - 1]) = at[i]
  <2>1. Lie(at[i - 1], List(to[i]), at[i]) /\ to[i] \in Seq(Int)
    BY <1>4, <1>7, <1>15 DEF Parts
  <2> QED BY <2>1, ListLies
<1>18. ReadLists(k, s) = [to |-> to, end |-> at[n]]
  <2>0. \A i \in 1 .. n : ReadList(at[i - 1]) = to[i] /\ EndOfList(at[i - 1]) = at[i]
    BY <1>17
  <2>1. Receivers(s, n, to, k, at)
    BY <1>1, <1>3, <1>16, <2>0, Zenon DEF Receivers
  <2> QED BY <2>1, ListsAre
<1>19. Resolved = [cmd |-> [kind |-> "task", type |-> 1, idxs |-> ReadList(4), to |-> ReadLists(EndOfList(4), ReadList(4)).to],
                   end |-> ReadLists(EndOfList(4), ReadList(4)).end]
  <2>1. Resolved = ResolveSend
    BY <1>2, <1>12 DEF Resolved
  <2> QED BY <2>1 DEF ResolveSend, ReadLists
<1>20. Resolved = [cmd |-> [kind |-> "task", type |-> 1, idxs |-> s, to |-> to], end |-> e]
  BY <1>14, <1>16, <1>18, <1>19
<1> QED BY <1>2, <1>20 DEF Kept, e

LEMMA ItemResolved ==
  ASSUME cells \in Seq(Cell), Item(cmd), FirstLen(cmd) \in Nat, 4 <= FirstLen(cmd),
         Lie(0, Fields(cmd), Len(cells))
  PROVE  Kept
<1> DEFINE dst == cmd.dst
           s == cmd.srcs
           coefs == cmd.coefs
           usage == cmd.usage
           one == <<Int4(dst)>>
           list == List(s)
           ints == Ints(coefs)
           bits == Bits(usage)
           n == Len(s)
           l == FirstLen(cmd)
           e == Len(cells)
           T == Fit(l)
<1>1. dst \in Int /\ s \in Seq(Int) /\ coefs \in Seq(Int) /\ Len(coefs) = n /\ usage \in Usage
  BY DEF Item, ComputeItem
<1>2. /\ cmd = [kind |-> "item", dst |-> dst, srcs |-> s, coefs |-> coefs, usage |-> usage]
      /\ cmd.kind = "item"
  BY DEF Item, ComputeItem
<1>3. n \in Nat
  BY <1>1
<1>4. /\ one \in Seq(T) /\ list \in Seq(T) /\ ints \in Seq(T) /\ bits \in Seq(T)
      /\ one \o list \in Seq(T) /\ one \o list \o ints \in Seq(T)
  BY ItemFit DEF Item
<1>5. Lie(0, one \o list \o ints \o bits, e)
  BY FieldsAre DEF Item, ItemFields
<1> HIDE DEF dst, s, coefs, usage, one, list, ints, bits, n, e, T
<1>6. PICK k \in Nat : LieIn(cells, 0, one \o list \o ints, k) /\ LieIn(cells, k, bits, e)
  BY <1>4, <1>5, LiesBoth DEF Lie
<1>7. PICK j \in Nat : LieIn(cells, 0, one \o list, j) /\ LieIn(cells, j, ints, k)
  BY <1>4, <1>6, LiesBoth
<1>8. PICK m \in Nat : LieIn(cells, 0, one, m) /\ LieIn(cells, m, list, j)
  BY <1>4, <1>7, LiesBoth
<1>9. readInt(0) = dst /\ m = 0 + 4
  BY <1>1, <1>8, IntLies DEF one
<1>10. m = 4
  BY <1>9
<1>11. ReadList(4) = s /\ EndOfList(4) = j /\ readInt(4) = n
  BY <1>1, <1>8, <1>10, ListLies DEF Lie, list, n
<1>12. ReadInts(j, n) = coefs /\ k = j + 4 * n
  BY <1>1, <1>7, IntsLie DEF Lie, ints
<1>13. ReadBits(k) = usage /\ e = k + 8
  BY <1>1, <1>6, BitsLie DEF Lie, bits
<1>14. Resolved = ResolveItem
  BY <1>2 DEF Resolved
<1>15. Resolved = [cmd |-> [kind |-> "item", dst |-> dst, srcs |-> s, coefs |-> coefs, usage |-> usage], end |-> e]
  BY <1>9, <1>11, <1>12, <1>13, <1>14 DEF ResolveItem
<1> QED BY <1>2, <1>15 DEF Kept, e

LEMMA RequestResolved ==
  ASSUME cells \in Seq(Cell), cmd \in AGCommand, FirstLen(cmd) \in Nat, 4 <= FirstLen(cmd),
         Lie(0, Fields(cmd), Len(cells))
  PROVE  Kept
<1> DEFINE batch == cmd.batch
           cur == cmd.cur
           stripes == cmd.stripes
           n == Len(stripes)
           h == <<batch, cur, n>>
           cs == [i \in DOMAIN stripes |-> Ints(stripes[i])]
           head == Ints(h)
           last == FlattenSeq(cs)
           l == FirstLen(cmd)
           e == Len(cells)
           T == Fit(l)
<1>1. batch \in Int /\ cur \in Int /\ stripes \in Seq(Int \X Int)
  BY DEF AGCommand
<1>2. cmd = [kind |-> "request", batch |-> batch, cur |-> cur, stripes |-> stripes] /\ cmd.kind = "request"
  BY DEF AGCommand
<1>3. /\ n \in Nat /\ DOMAIN stripes = 1 .. n /\ \A i \in 1 .. n : stripes[i] \in Int \X Int
      /\ stripes = [i \in 1 .. n |-> stripes[i]]
  BY <1>1
<1>4. /\ head \in Seq(T) /\ last \in Seq(T) /\ h \in Seq(Int)
      /\ cs \in Seq(Seq(T)) /\ Len(cs) = n
  BY RequestFit
<1>5. Lie(0, head \o last, e)
  BY FieldsAre DEF RequestFields
<1>6. \A i \in 1 .. n : cs[i] = Ints(stripes[i])
  BY <1>3
<1>7. cs \in Seq(Seq(Field))
  <2>1. ASSUME NEW i \in 1 .. n PROVE cs[i] \in Seq(Field)
    <3> DEFINE s == stripes[i]
    <3>1. s \in Int \X Int
      BY <1>3
    <3> HIDE DEF s
    <3>2. s = <<s[1], s[2]>> /\ s[1] \in Int /\ s[2] \in Int
      BY <3>1
    <3>3. s \in Seq(Int)
      BY <3>2, PairIs
    <3>4. Ints(s) \in Seq(Field)
      BY <3>3, IntsAre
    <3>5. cs[i] = Ints(s)
      BY <1>6 DEF s
    <3> QED BY <3>4, <3>5
  <2>2. cs = [i \in DOMAIN stripes |-> cs[i]]
    OBVIOUS
  <2> HIDE DEF cs, n
  <2> QED BY <1>3, <2>1, <2>2, ChunksTyped
<1>8. Len(h) = 3 /\ h[1] = batch /\ h[2] = cur /\ h[3] = n
  BY <1>1, <1>3
<1> HIDE DEF batch, cur, stripes, n, h, cs, head, e, T
<1>9. PICK k \in Nat : LieIn(cells, 0, head, k) /\ LieIn(cells, k, last, e)
  <2> HIDE DEF last
  <2> QED BY <1>4, <1>5, LiesBoth DEF Lie
<1>10. k = 0 + 4 * Len(h) /\ \A i \in 1 .. Len(h) : readInt(0 + 4 * (i - 1)) = h[i]
  BY <1>4, <1>9, IntsLie DEF Lie, head
<1>11. k = 12 /\ readInt(0) = batch /\ readInt(4) = cur /\ readInt(8) = n
  <2>1. 1 \in 1 .. 3 /\ 2 \in 1 .. 3 /\ 3 \in 1 .. 3
    OBVIOUS
  <2>2. 0 + 4 * (1 - 1) = 0 /\ 0 + 4 * (2 - 1) = 4 /\ 0 + 4 * (3 - 1) = 8
    OBVIOUS
  <2>3. readInt(0 + 4 * (1 - 1)) = batch /\ readInt(0 + 4 * (2 - 1)) = cur /\ readInt(0 + 4 * (3 - 1)) = n
    BY <1>8, <1>10, <2>1
  <2> QED BY <1>8, <1>10, <2>2, <2>3
<1>12. PICK at : Parts(at, k, cs, n, e)
  <2>1. Lie(k, FlattenSeq(cs), e)
    BY <1>9 DEF Lie
  <2> HIDE DEF last
  <2> QED BY <1>4, <1>7, <2>1, FlattenLies
<1>13. ASSUME NEW i \in 1 .. n PROVE ReadInts(at[i - 1], 2) = stripes[i] /\ at[i] = at[i - 1] + 8
  <2>1. Lie(at[i - 1], Ints(stripes[i]), at[i]) /\ stripes[i] \in Int \X Int
    BY <1>3, <1>6, <1>12 DEF Parts
  <2> QED BY <2>1, TwoIntsLie
<1>14. e = k + 8 * n /\ \A j \in 0 .. n : at[j] = k + 8 * j
  BY <1>3, <1>12, <1>13, EightApart
<1>15. \A i \in 1 .. n : ReadInts(12 + 8 * (i - 1), 2) = stripes[i]
  <2>1. \A i \in 1 .. n : i - 1 \in 0 .. n
    BY <1>3
  <2> QED BY <1>11, <1>13, <1>14, <2>1
<1>16. [i \in 1 .. n |-> ReadInts(12 + 8 * (i - 1), 2)] = stripes
  BY <1>3, <1>15
<1>17. Resolved = ResolveRequest
  BY <1>2 DEF Resolved
<1>18. Resolved = [cmd |-> [kind |-> "request", batch |-> batch, cur |-> cur, stripes |-> stripes], end |-> e]
  BY <1>11, <1>14, <1>16, <1>17 DEF ResolveRequest
<1> QED BY <1>2, <1>18 DEF Kept, e
-----------------------------------------------------------------------------
(***************************************************************************)
(* The fields that are written lie in the cells, one after the other; they *)
(* and the rest are those of the command.                                  *)
(***************************************************************************)
WrittenIn(c, r, l, fs) ==
  \E w \in Seq(Fit(l)) : fs = w \o r /\ LieIn(c, 0, w, Len(c))

TypeOK ==
  /\ cmd \in Commands /\ cells \in Seq(Cell) /\ rest \in Seq(Fit(FirstLen(cmd)))
  /\ maxLen \in Nat /\ size \in Nat
  /\ phase \in {"write", "sent", "resolved"}

IInv ==
  /\ TypeOK
  /\ WrittenIn(cells, rest, FirstLen(cmd), Fields(cmd))
  /\ maxLen = size /\ FirstLen(cmd) <= size /\ Len(cells) <= size
  /\ phase # "write" => rest = <<>>
  /\ phase = "resolved" => got = [cmd |-> cmd, end |-> Len(cells)]

LEMMA MoveOne ==
  ASSUME NEW T, NEW w \in Seq(T), NEW r \in Seq(T), r # <<>>
  PROVE  /\ Head(r) \in T /\ Tail(r) \in Seq(T) /\ Append(w, Head(r)) \in Seq(T)
         /\ Append(w, Head(r)) \o Tail(r) = w \o r
<1> DEFINE f == Head(r)
           t == Tail(r)
           u == Append(w, f)
           n == Len(w)
           m == Len(r)
<1>1. n \in Nat /\ m \in Nat \ {0}
  OBVIOUS
<1>2. f \in T /\ f = r[1]
  BY <1>1
<1>3. t \in Seq(T) /\ Len(t) = m - 1
  BY <1>1
<1>4. \A i \in 1 .. m - 1 : t[i] = r[i + 1]
  BY <1>1
<1>5. u \in Seq(T) /\ Len(u) = n + 1
  BY <1>2
<1>6. u[n + 1] = f /\ \A i \in 1 .. n : u[i] = w[i]
  BY <1>1
<1> HIDE DEF f, t, u
<1>7. u \o t \in Seq(T) /\ Len(u \o t) = n + m
  <2>1. Len(u \o t) = Len(u) + Len(t) /\ u \o t \in Seq(T)
    BY <1>3, <1>5
  <2> QED BY <1>1, <1>3, <1>5, <2>1
<1>8. w \o r \in Seq(T) /\ Len(w \o r) = n + m
  OBVIOUS
<1>9. ASSUME NEW i \in 1 .. n + m PROVE (u \o t)[i] = (w \o r)[i]
  <2>1. (u \o t)[i] = IF i <= n + 1 THEN u[i] ELSE t[i - (n + 1)]
    <3>1. i \in 1 .. Len(u) + Len(t)
      BY <1>1, <1>3, <1>5
    <3>2. (u \o t)[i] = IF i <= Len(u) THEN u[i] ELSE t[i - Len(u)]
      BY <1>3, <1>5, <3>1
    <3> QED BY <1>5, <3>2
  <2>2. (w \o r)[i] = IF i <= n THEN w[i] ELSE r[i - n]
    OBVIOUS
  <2>3. CASE i \in 1 .. n
    BY <1>1, <1>6, <2>1, <2>2, <2>3
  <2>4. CASE i = n + 1
    <3>1. (u \o t)[i] = f /\ (w \o r)[i] = r[1]
      BY <1>1, <1>6, <2>1, <2>2, <2>4
    <3> QED BY <1>2, <3>1
  <2>5. CASE i \in n + 2 .. n + m
    <3>1. i - (n + 1) \in 1 .. m - 1 /\ (i - (n + 1)) + 1 = i - n /\ ~(i <= n + 1) /\ ~(i <= n)
      BY <1>1, <2>5
    <3> QED BY <1>4, <2>1, <2>2, <3>1
  <2>6. i \in 1 .. n \/ i = n + 1 \/ i \in n + 2 .. n + m
    BY <1>1
  <2> QED BY <2>3, <2>4, <2>5, <2>6
<1>10. u \o t = w \o r
  <2> DEFINE a == u \o t
             b == w \o r
  <2>1. a \in Seq(T) /\ b \in Seq(T) /\ Len(a) = n + m /\ Len(b) = n + m
    BY <1>7, <1>8
  <2>2. \A i \in 1 .. n + m : a[i] = b[i]
    BY <1>9
  <2> HIDE DEF a, b, n, m
  <2>3. a = [i \in 1 .. n + m |-> a[i]] /\ b = [i \in 1 .. n + m |-> b[i]]
    BY <2>1
  <2>4. a = b
    BY <2>2, <2>3
  <2> QED BY <2>4 DEF a, b
<1> QED BY <1>2, <1>3, <1>5, <1>10 DEF f, t, u

LEMMA InitHolds ==
  ASSUME Init
  PROVE  IInv
<1> DEFINE l == FirstLen(cmd)
           fs == Fields(cmd)
<1>1. cmd \in Commands /\ l \in Nat /\ 4 <= l /\ fs \in Seq(Fit(l))
  BY KindIs, FieldsFit DEF Init
<1>2. /\ rest = fs /\ cells = <<>> /\ maxLen = l /\ size = l /\ phase = "write"
  BY DEF Init
<1> HIDE DEF l, fs
<1>3. <<>> \in Seq(Cell) /\ Len(<<>>) = 0 /\ <<>> \in Seq(Fit(l)) /\ fs = <<>> \o fs
  BY <1>1
<1>4. LieIn(<<>>, 0, <<>>, 0)
  <2> DEFINE off == [i \in 0 .. 0 |-> 0]
             none == <<>>
  <2>1. /\ off \in [0 .. 0 -> Nat] /\ off[0] = 0
        /\ \A i \in 1 .. 0 : FALSE
    OBVIOUS
  <2> HIDE DEF off
  <2>2. Len(none) = 0
    OBVIOUS
  <2> HIDE DEF none
  <2>3. Lies(none, off, 0, none, 0)
    BY <2>1, <2>2 DEF Lies
  <2> QED BY <2>3 DEF LieIn, none
<1>5. WrittenIn(cells, rest, l, fs)
  BY <1>2, <1>3, <1>4 DEF WrittenIn
<1>6. TypeOK
  BY <1>1, <1>2, <1>3 DEF TypeOK, l
<1> QED BY <1>1, <1>2, <1>3, <1>5, <1>6 DEF IInv, l, fs

LEMMA WriteKeeps ==
  ASSUME IInv, Write
  PROVE  IInv'
<1> DEFINE l == FirstLen(cmd)
           fs == Fields(cmd)
           f == Head(rest)
           t == Tail(rest)
<1>1. /\ cmd \in Commands /\ cells \in Seq(Cell) /\ rest \in Seq(Fit(l))
      /\ maxLen = size /\ size \in Nat /\ l <= size /\ Len(cells) <= size /\ phase = "write"
  BY DEF IInv, TypeOK, Write
<1>2. l \in Nat /\ 4 <= l
  BY <1>1, KindIs
<1>3. PICK w \in Seq(Fit(l)) : fs = w \o rest /\ LieIn(cells, 0, w, Len(cells))
  BY DEF IInv, WrittenIn
<1>4. rest # <<>> /\ cells' = cells \o Cells(f) /\ rest' = t /\ cmd' = cmd /\ phase' = phase
  BY DEF Write
<1>5. /\ maxLen' = IF Len(cells') > maxLen THEN 2 * maxLen ELSE maxLen
      /\ size' = IF Len(cells') > maxLen THEN 2 * maxLen ELSE size
  BY DEF Write
<1>6. FirstLen(cmd)' = l /\ Fields(cmd)' = fs
  BY <1>4 DEF FirstLen, Fields, RequestFields, ItemFields, ReadFields, SendFields
<1>7. f \in Fit(l) /\ t \in Seq(Fit(l)) /\ Append(w, f) \in Seq(Fit(l)) /\ Append(w, f) \o t = w \o rest
  <2> HIDE DEF l
  <2> QED BY <1>1, <1>3, <1>4, MoveOne
<1> HIDE DEF l, fs, f, t
<1>8. f \in Field /\ Width(f) <= l /\ Width(f) \in Nat /\ Cells(f) \in Seq(Cell)
  BY <1>7, WidthIs DEF Fit
<1>9. w \in Seq(Field)
  <2>1. Fit(l) \subseteq Field
    BY DEF Fit
  <2> QED BY <1>3, <2>1, MoreElements
<1>10. cells' \in Seq(Cell) /\ Len(cells') = Len(cells) + Width(f) /\ Len(cells) \in Nat
  BY <1>1, <1>4, <1>8, ConcatIs DEF Width
<1>11. LieIn(cells', 0, Append(w, f), Len(cells'))
  BY <1>1, <1>3, <1>4, <1>8, <1>9, LiesMore
<1>12. WrittenIn(cells', rest', l, fs)
  BY <1>3, <1>4, <1>7, <1>11 DEF WrittenIn
<1>13. /\ maxLen' = size' /\ l <= size' /\ Len(cells') <= size' /\ size' \in Nat
  BY <1>1, <1>2, <1>5, <1>8, <1>10
<1>14. TypeOK'
  BY <1>1, <1>4, <1>6, <1>7, <1>10, <1>13 DEF TypeOK
<1>15. phase' = "write"
  BY <1>1, <1>4
<1> QED BY <1>6, <1>12, <1>13, <1>14, <1>15 DEF IInv

\* What was sent is resolved to the command.
LEMMA SentIsKept ==
  ASSUME IInv, rest = <<>>
  PROVE  Kept
<1> DEFINE l == FirstLen(cmd)
<1>1. cmd \in Commands /\ cells \in Seq(Cell)
  BY DEF IInv, TypeOK
<1>2. Kinds(cmd) /\ l \in Nat /\ 4 <= l
  BY <1>1, KindIs
<1>3. PICK w \in Seq(Fit(l)) : Fields(cmd) = w \o <<>> /\ LieIn(cells, 0, w, Len(cells))
  BY DEF IInv, WrittenIn
<1>4. w \o <<>> = w
  <2> HIDE DEF l
  <2> QED OBVIOUS
<1>5. Lie(0, Fields(cmd), Len(cells))
  BY <1>3, <1>4 DEF Lie
<1>6. CASE Read(cmd)
  BY <1>1, <1>2, <1>5, <1>6, ReadResolved
<1>7. CASE Send(cmd)
  BY <1>1, <1>2, <1>5, <1>7, SendResolved
<1>8. CASE cmd \in ListTask
  BY <1>1, <1>5, <1>8, ListResolved
<1>9. CASE Persist(cmd)
  BY <1>1, <1>5, <1>9, PersistResolved
<1>10. CASE Item(cmd)
  BY <1>1, <1>2, <1>5, <1>10, ItemResolved
<1>11. CASE cmd \in AGCommand
  BY <1>1, <1>2, <1>5, <1>11, RequestResolved
<1> QED BY <1>2, <1>6, <1>7, <1>8, <1>9, <1>10, <1>11 DEF Kinds

(***************************************************************************)
(* The fields that are written lie one after the other from the first cell *)
(* on and, with the rest, are those of the command; the buffer is never    *)
(* shorter than what is written nor than it was at first, which is         *)
(* why doubling it once is enough.                                         *)
(***************************************************************************)
THEOREM Invariance == Spec => []IInv
<1>1. Init => IInv
  BY InitHolds
<1>2. IInv /\ [Next]_vars => IInv'
  <2> SUFFICES ASSUME IInv, [Next]_vars PROVE IInv'
    OBVIOUS
  <2>1. CASE Write
    BY <2>1, WriteKeeps
  <2>2. CASE SendTo
    <3>1. /\ rest = <<>> /\ phase' = "sent"
          /\ UNCHANGED <<cmd, rest, cells, maxLen, size, got>>
      BY <2>2 DEF SendTo
    <3>2. FirstLen(cmd)' = FirstLen(cmd) /\ Fields(cmd)' = Fields(cmd)
      BY <3>1 DEF FirstLen, Fields, RequestFields, ItemFields, ReadFields, SendFields
    <3> QED BY <3>1, <3>2 DEF IInv, TypeOK
  <2>3. CASE Resolve
    <3>1. /\ got' = Resolved /\ phase = "sent" /\ phase' = "resolved"
          /\ UNCHANGED <<cmd, rest, cells, maxLen, size>>
      BY <2>3 DEF Resolve
    <3>2. FirstLen(cmd)' = FirstLen(cmd) /\ Fields(cmd)' = Fields(cmd)
      BY <3>1 DEF FirstLen, Fields, RequestFields, ItemFields, ReadFields, SendFields
    <3>3. rest = <<>>
      BY <3>1 DEF IInv
    <3>4. got' = [cmd |-> cmd, end |-> Len(cells)]
      BY <3>1, <3>3, SentIsKept DEF Kept
    <3> QED BY <3>1, <3>2, <3>3, <3>4 DEF IInv, TypeOK
  <2>4. CASE UNCHANGED vars
    <3>1. UNCHANGED <<cmd, rest, cells, maxLen, size, phase, got>>
      BY <2>4 DEF vars
    <3>2. FirstLen(cmd)' = FirstLen(cmd) /\ Fields(cmd)' = Fields(cmd)
      BY <3>1 DEF FirstLen, Fields, RequestFields, ItemFields, ReadFields, SendFields
    <3> QED BY <3>1, <3>2 DEF IInv, TypeOK
  <2> QED BY <2>1, <2>2, <2>3, <2>4 DEF Next
<1> QED BY <1>1, <1>2, PTL DEF Spec

(***************************************************************************)
(* Whatever the command (build*Command, resolve*Task and the constructors  *)
(* that read), the agent has what the coordinator has built and has read   *)
(* all of it, and nothing is written outside the buffer.                   *)
(***************************************************************************)
THEOREM Resolves == Spec => []ResolvesTheSame
<1>1. IInv => ResolvesTheSame
  BY DEF IInv, ResolvesTheSame
<1> QED BY <1>1, Invariance, PTL
=============================================================================

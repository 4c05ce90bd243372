---------------------------- MODULE ParetoProofs ----------------------------
(***************************************************************************)
(* Proofs about the search for offline colourings (genPareto): the curve   *)
(* is a front after every neighbour, and when the search ends nothing that *)
(* differs in one vertex beats it.                                         *)
(***************************************************************************)
EXTENDS Pareto, FiniteSetTheorems, WellFoundedInduction, TLAPS

ColorMaps == [1 .. V -> 0 .. M - 1]
Costs == [left : Int, bdwt : Int]
Cost(id) == CostOf(sol[id].colors)

\* x is ahead of y on the curve.
Ahead(x, y) ==
  /\ x.left < y.left
  /\ ~Beats(x, y) /\ ~Beats(y, x)
  /\ rule = "load" => x.bdwt > y.bdwt

\* The curve with its two ends.
At(s, i) == IF i = 0 THEN HEAD ELSE IF i = Len(s) + 1 THEN TAIL ELSE s[i]

\* The two maps link s in the two directions.
Chain(nx, pv, s) ==
  /\ s \in Seq(Nat)
  /\ \A i, j \in 1 .. Len(s) : s[i] = s[j] => i = j
  /\ DOMAIN nx = {At(s, i) : i \in 0 .. Len(s)}
  /\ DOMAIN pv = {At(s, i) : i \in 1 .. Len(s) + 1}
  /\ \A i \in 0 .. Len(s) : nx[At(s, i)] = At(s, i + 1) /\ pv[At(s, i + 1)] = At(s, i)

Typed ==
  /\ rule \in Rules /\ evaluation \in Evaluations /\ ids \in Nat
  /\ phase \in {"pick", "compare", "done"}
  /\ DOMAIN sol \subseteq 0 .. ids - 1
  /\ sol \in [DOMAIN sol -> [colors : ColorMaps, searched : BOOLEAN]]
  /\ DOMAIN neighbors \subseteq 0 .. ids - 1
  /\ neighbors \in [DOMAIN neighbors -> ColorMaps]

Linked == Chain(next, prev, Curve) /\ Curve # <<>>

Sorted ==
  \A i, j \in DOMAIN Curve : i < j => Ahead(Cost(Curve[i]), Cost(Curve[j]))

\* A solution is on the curve or dropped, a neighbour may wait to be compared.
Kept ==
  /\ ToSet(Curve) \subseteq DOMAIN sol /\ ToSet(Curve) \cap dropped = {}
  /\ DOMAIN sol \subseteq ToSet(Curve) \cup dropped
  /\ DOMAIN neighbors \subseteq ToSet(Curve) \cup dropped \cup todo
  /\ todo \subseteq DOMAIN neighbors
  /\ todo \cap DOMAIN sol = {} /\ todo \cap dropped = {}

\* The pool is what is unsearched and older than the neighbours.
Pooled ==
  /\ unsearched \subseteq DOMAIN sol
  /\ \A id \in DOMAIN sol :
       /\ id \in unsearched <=> ~sol[id].searched /\ id \notin DOMAIN neighbors
       /\ id \in DOMAIN neighbors => ~sol[id].searched
  /\ phase # "compare" => DOMAIN neighbors = {} /\ dropped = {} /\ todo = {}
  /\ phase = "done" => unsearched = {}

\* A point of the curve is as good as x, or beats it.
Reached(x) ==
  \E i \in DOMAIN Curve : Cost(Curve[i]) = CostOf(x) \/ Beats(Cost(Curve[i]), CostOf(x))

\* What the searched solutions can become is reached, or waits to be compared.
Covered ==
  \A j \in DOMAIN Curve : sol[Curve[j]].searched =>
    \A v \in 1 .. V : \A color \in 0 .. M - 1 :
      \/ Reached([sol[Curve[j]].colors EXCEPT ![v] = color])
      \/ \E a \in todo : neighbors[a] = [sol[Curve[j]].colors EXCEPT ![v] = color]

Inv == Typed /\ Linked /\ Sorted /\ Kept /\ Pooled /\ Covered
-----------------------------------------------------------------------------
(***************************************************************************)
(* Numbers.                                                                *)
(***************************************************************************)
LEMMA LeastElement ==
  ASSUME NEW S \in SUBSET Nat, S # {}
  PROVE  \E x \in S : \A y \in S : x <= y
<1> DEFINE R == OpToRel(<, Nat)
<1>1. IsWellFoundedOn(R, Nat)
  BY NatLessThanWellFounded
<1>2. PICK x \in S : \A y \in S : ~(<<y, x>> \in R)
  BY <1>1, WFMin, Zenon
<1>3. \A y \in S : ~(y < x)
  BY <1>2 DEF OpToRel
<1> QED BY <1>3

\* A set of numbers that goes on from each of its elements up to n.
LEMMA UpToN ==
  ASSUME NEW n \in Nat, NEW S, 0 \in S, \A m \in 0 .. n - 1 : m \in S => m + 1 \in S
  PROVE  \A m \in 0 .. n : m \in S
<1> DEFINE Out == {m \in 0 .. n : m \notin S}
<1>1. ASSUME Out # {} PROVE FALSE
  <2>1. Out \in SUBSET Nat
    OBVIOUS
  <2>2. PICK x \in Out : \A y \in Out : x <= y
    <3> HIDE DEF Out
    <3> QED BY <1>1, <2>1, LeastElement
  <2>3. x \in 1 .. n
    BY <2>2
  <2>4. x - 1 \in 0 .. n - 1 /\ (x - 1) + 1 = x /\ x - 1 \notin Out
    BY <2>2, <2>3
  <2> QED BY <2>2, <2>4
<1>2. \A m \in 0 .. n : m \notin Out
  BY <1>1
<1> QED BY <1>2

LEMMA MaxOfInterval ==
  ASSUME NEW m \in Nat
  PROVE  Max(1 .. m + 1) = m + 1 /\ (1 .. m + 1) \ {m + 1} = 1 .. m /\ 1 .. m + 1 # {}
<1>1. m + 1 \in 1 .. m + 1 /\ \A y \in 1 .. m + 1 : m + 1 >= y
  OBVIOUS
<1>2. \A x \in 1 .. m + 1 : x >= m + 1 => x = m + 1
  OBVIOUS
<1>3. Max(1 .. m + 1) = m + 1
  BY <1>1, <1>2 DEF Max
<1> QED BY <1>1, <1>3

LEMMA DivMonotone ==
  ASSUME NEW a \in Int, NEW b \in Int, a <= b, NEW u \in Nat \ {0}
  PROVE  /\ a \div u \in Int /\ b \div u \in Int
         /\ a \div u <= b \div u
<1>1. /\ a \div u \in Int /\ a = u * (a \div u) + (a % u) /\ 0 <= a % u /\ a % u < u
      /\ b \div u \in Int /\ b = u * (b \div u) + (b % u) /\ 0 <= b % u /\ b % u < u
  OBVIOUS
<1>2. ASSUME NEW p \in Int, NEW q \in Int, p > q PROVE u * p >= u * q + u
  <2>1. p - q - 1 \in Nat /\ u \in Nat
    BY <1>2
  <2>2. u * (p - q - 1) >= 0
    <3>1. \A x, y \in Nat : x * y >= 0
      OBVIOUS
    <3> QED BY <2>1, <3>1
  <2>3. u * (p - q - 1) = u * p - u * q - u
    BY <2>1
  <2> QED BY <2>1, <2>2, <2>3
<1>3. ASSUME a \div u > b \div u PROVE FALSE
  <2>1. u * (a \div u) >= u * (b \div u) + u
    BY <1>1, <1>2, <1>3
  <2> DEFINE x == u * (a \div u)
             y == u * (b \div u)
             r == a % u
             t == b % u
  <2>2. x \in Int /\ y \in Int /\ r \in Int /\ t \in Int
    BY <1>1
  <2>3. a = x + r /\ b = y + t /\ x >= y + u /\ 0 <= r /\ t < u
    BY <1>1, <2>1
  <2> HIDE DEF x, y, r, t
  <2> QED BY <2>2, <2>3
<1> QED BY <1>1, <1>3
-----------------------------------------------------------------------------
(***************************************************************************)
(* What one point has to another.                                          *)
(***************************************************************************)
Known == rule \in Rules /\ evaluation \in Evaluations

LEMMA WholeIs ==
  ASSUME Known, NEW a \in Int, NEW b \in Int
  PROVE  /\ Whole(a) \in Int /\ Whole(b) \in Int
         /\ a <= b => Whole(a) <= Whole(b)
<1>1. CASE rule = "load"
  BY <1>1 DEF Whole
<1>2. CASE rule # "load"
  <2>1. -a \in Int /\ -b \in Int /\ Unit \in Nat \ {0}
    BY ParetoAssumption
  <2>2. (-a) \div Unit \in Int /\ (-b) \div Unit \in Int
    BY <2>1, DivMonotone
  <2>3. a <= b => (-b) \div Unit <= (-a) \div Unit
    BY <2>1, DivMonotone
  <2>4. Whole(a) = -((-a) \div Unit) /\ Whole(b) = -((-b) \div Unit)
    BY <1>2 DEF Whole
  <2> QED BY <2>2, <2>3, <2>4
<1> QED BY <1>1, <1>2

LEMMA BeatsIs ==
  ASSUME Known, NEW x \in Costs, NEW y \in Costs
  PROVE  /\ ~(Beats(x, y) /\ Beats(y, x))
         /\ x.left < y.left /\ ~Beats(x, y) /\ ~Beats(y, x) => Ahead(x, y)
         /\ x.left = y.left /\ ~Beats(x, y) /\ ~Beats(y, x) => x = y
         /\ Ahead(x, y) => ~Beats(x, y) /\ ~Beats(y, x) /\ x.left < y.left
<1>1. x.left \in Int /\ y.left \in Int /\ x.bdwt \in Int /\ y.bdwt \in Int
      /\ x = [left |-> x.left, bdwt |-> x.bdwt] /\ y = [left |-> y.left, bdwt |-> y.bdwt]
  BY DEF Costs
<1>2. Whole(x.left) \in Int /\ Whole(y.left) \in Int
      /\ (rule = "load" => Whole(x.left) = x.left /\ Whole(y.left) = y.left)
  BY <1>1, WholeIs DEF Whole
<1>3. ~(Beats(x, y) /\ Beats(y, x))
  BY <1>1, <1>2 DEF Beats
<1>4. ASSUME x.left < y.left, ~Beats(x, y), ~Beats(y, x) PROVE Ahead(x, y)
  BY <1>1, <1>2, <1>4 DEF Beats, Ahead
<1>5. ASSUME x.left = y.left, ~Beats(x, y), ~Beats(y, x) PROVE x = y
  <2>1. Whole(x.left) = Whole(y.left)
    BY <1>5
  <2>2. x.bdwt = y.bdwt
    BY <1>1, <1>5, <2>1 DEF Beats
  <2> QED BY <1>1, <1>5, <2>2
<1> QED BY <1>3, <1>4, <1>5 DEF Ahead

LEMMA AheadIs ==
  ASSUME Known, NEW x \in Costs, NEW y \in Costs, NEW z \in Costs
  PROVE  /\ Beats(x, y) /\ Beats(y, z) => Beats(x, z)
         /\ Ahead(x, y) /\ Ahead(y, z) => Ahead(x, z)
         /\ Beats(x, y) /\ Ahead(y, z) => Beats(x, z) \/ Ahead(x, z)
<1>1. /\ x.left \in Int /\ y.left \in Int /\ z.left \in Int
      /\ x.bdwt \in Int /\ y.bdwt \in Int /\ z.bdwt \in Int
  BY DEF Costs
<1>2. /\ Whole(x.left) \in Int /\ Whole(y.left) \in Int /\ Whole(z.left) \in Int
      /\ x.left <= y.left => Whole(x.left) <= Whole(y.left)
      /\ y.left <= z.left => Whole(y.left) <= Whole(z.left)
      /\ x.left <= z.left => Whole(x.left) <= Whole(z.left)
      /\ z.left <= x.left => Whole(z.left) <= Whole(x.left)
      /\ rule = "load" => /\ Whole(x.left) = x.left /\ Whole(y.left) = y.left
                          /\ Whole(z.left) = z.left
  BY <1>1, WholeIs DEF Whole
<1> DEFINE a == Whole(x.left)
           b == Whole(y.left)
           c == Whole(z.left)
<1> HIDE DEF a, b, c
<1>3. Beats(x, y) /\ Beats(y, z) => Beats(x, z)
  BY <1>1, <1>2 DEF Beats
<1>4. Ahead(x, y) /\ Ahead(y, z) => Ahead(x, z)
  BY <1>1, <1>2 DEF Beats, Ahead
<1>5. Beats(x, y) /\ Ahead(y, z) => Beats(x, z) \/ Ahead(x, z)
  BY <1>1, <1>2 DEF Beats, Ahead
<1> QED BY <1>3, <1>4, <1>5

LEMMA MIs == M = ecn /\ M \in Nat \ {0}
<1>1. ecn \in Nat \ {0} /\ failNodeId \in 0 .. ecn /\ ecn - 0 + 1 = ecn + 1 /\ ~(0 > ecn) /\ 0 \in Int /\ ecn \in Int
  BY ParetoAssumption
<1>2. IsFiniteSet(0 .. ecn) /\ Cardinality(0 .. ecn) = ecn + 1
  BY <1>1, FS_Interval
<1>3. Cardinality((0 .. ecn) \ {failNodeId}) = (ecn + 1) - 1
  BY <1>1, <1>2, FS_RemoveElement
<1> QED BY <1>1, <1>3 DEF M, candidates

LEMMA CostIs ==
  ASSUME Known, NEW colors \in ColorMaps
  PROVE  CostOf(colors) \in Costs
<1> DEFINE at == [i \in 1 .. V |-> NodeOf(colors[i])]
<1>1. at \in [1 .. V -> 0 .. ecn]
  <2>1. \A i \in 1 .. V : colors[i] \in 0 .. M - 1
    BY DEF ColorMaps
  <2>2. 0 .. M - 1 \subseteq 0 .. ecn
    BY MIs, ParetoAssumption
  <2> QED BY <2>1, <2>2 DEF NodeOf
<1>2. evaluation \in [[1 .. V -> 0 .. ecn] -> [load : Int, bottleneck : Int, bdwt : Int]]
  BY ParetoAssumption DEF Known
<1>3. evaluation[at] \in [load : Int, bottleneck : Int, bdwt : Int]
  BY <1>1, <1>2
<1>4. evaluation[at].load \in Int /\ -evaluation[at].bottleneck \in Int /\ evaluation[at].bdwt \in Int
  <2> HIDE DEF at
  <2> QED BY <1>3
<1> HIDE DEF at
<1>5. CostOf(colors) = [left |-> IF rule = "load" THEN evaluation[at].load ELSE -evaluation[at].bottleneck,
                        bdwt |-> evaluation[at].bdwt]
  BY DEF CostOf, at
<1> QED BY <1>4, <1>5 DEF Costs
-----------------------------------------------------------------------------
(***************************************************************************)
(* The linked maps.  `at' is the curve with its ends, at 0 and n + 1.  A   *)
(* neighbour `a' that was put on it stands behind the first r points, and  *)
(* the points behind those up to k are gone.                               *)
(***************************************************************************)
\* Two entries are set, that of y the last.
Twice(h, f, x, e, y, d) == h = With(With(f, x, e), y, d)

\* The same, and then the entry of b goes.
TwiceLess(h, f, x, e, y, d, b) == h = Without(With(With(f, x, e), y, d), b)
OnceLess(h, f, y, d, b) == h = Without(With(f, y, d), b)

Line(at, n) ==
  /\ at \in [0 .. n + 1 -> Int]
  /\ \A i, j \in 0 .. n + 1 : at[i] = at[j] => i = j

Plain(nx, pv, at, n) ==
  /\ DOMAIN nx = {at[i] : i \in 0 .. n} /\ DOMAIN pv = {at[i] : i \in 1 .. n + 1}
  /\ \A i \in 0 .. n : nx[at[i]] = at[i + 1] /\ pv[at[i + 1]] = at[i]

Placed(nx, pv, at, n, a, r, k) ==
  /\ DOMAIN nx = {a} \cup {at[i] : i \in 0 .. r} \cup {at[i] : i \in k + 1 .. n}
  /\ DOMAIN pv = {a} \cup {at[i] : i \in 1 .. r} \cup {at[i] : i \in k + 1 .. n + 1}
  /\ nx[at[r]] = a /\ nx[a] = at[k + 1] /\ pv[a] = at[r] /\ pv[at[k + 1]] = a
  /\ \A i \in 0 .. r - 1 : nx[at[i]] = at[i + 1] /\ pv[at[i + 1]] = at[i]
  /\ \A i \in k + 1 .. n : nx[at[i]] = at[i + 1] /\ pv[at[i + 1]] = at[i]

Off(at, n, a) == \A i \in 0 .. n + 1 : at[i] # a

\* a before the point m + 1.
LEMMA PlacedBefore ==
  ASSUME NEW n \in Nat, NEW at, Line(at, n), NEW nx, NEW pv, Plain(nx, pv, at, n),
         NEW a, Off(at, n, a), NEW m \in 0 .. n - 1,
         NEW f, Twice(f, nx, a, at[m + 1], pv[at[m + 1]], a),
         NEW g, Twice(g, pv, a, pv[at[m + 1]], at[m + 1], a)
  PROVE  Placed(f, g, at, n, a, m, m)
<1>1. m \in 0 .. n /\ m + 1 \in 1 .. n /\ m + 1 \in 0 .. n + 1 /\ m \in 0 .. n + 1 /\ m \in Int /\ n \in Int
      /\ m # m + 1
  OBVIOUS
<1>2. pv[at[m + 1]] = at[m] /\ nx[at[m + 1]] = at[m + 2]
  BY <1>1 DEF Plain
<1>F. /\ DOMAIN f = {at[m]} \cup ({a} \cup DOMAIN nx) /\ f[at[m]] = a
      /\ a # at[m] => f[a] = at[m + 1]
      /\ \A z \in DOMAIN nx : z # a /\ z # at[m] => f[z] = nx[z]
  <2>1. Twice(f, nx, a, at[m + 1], at[m], a)
    BY <1>2
  <2> QED BY <2>1 DEF Twice, With
<1>G. /\ DOMAIN g = {at[m + 1]} \cup ({a} \cup DOMAIN pv) /\ g[at[m + 1]] = a
      /\ a # at[m + 1] => g[a] = at[m]
      /\ \A z \in DOMAIN pv : z # a /\ z # at[m + 1] => g[z] = pv[z]
  <2>1. Twice(g, pv, a, at[m], at[m + 1], a)
    BY <1>2
  <2> QED BY <2>1 DEF Twice, With
<1>3. DOMAIN f = {a} \cup DOMAIN nx /\ DOMAIN g = {a} \cup DOMAIN pv
  <2>1. DOMAIN f = {at[m]} \cup ({a} \cup DOMAIN nx) /\ DOMAIN g = {at[m + 1]} \cup ({a} \cup DOMAIN pv)
    BY <1>F, <1>G
  <2>2. at[m] \in DOMAIN nx /\ at[m + 1] \in DOMAIN pv
    BY <1>1 DEF Plain
  <2> QED BY <2>1, <2>2
<1>4. f[at[m]] = a /\ g[at[m + 1]] = a
  BY <1>F, <1>G
<1>5. f[a] = at[m + 1] /\ g[a] = at[m]
  <2>1. a # at[m] /\ a # at[m + 1]
    BY <1>1 DEF Off
  <2> QED BY <1>F, <1>G, <2>1
<1>6. ASSUME NEW i \in 0 .. n, i # m
      PROVE  f[at[i]] = at[i + 1] /\ g[at[i + 1]] = at[i]
  <2>1. at[i] # at[m] /\ at[i] # a /\ at[i + 1] # at[m + 1] /\ at[i + 1] # a
    BY <1>1, <1>6 DEF Line, Off
  <2>2. at[i] \in DOMAIN nx /\ at[i + 1] \in DOMAIN pv /\ nx[at[i]] = at[i + 1] /\ pv[at[i + 1]] = at[i]
    BY DEF Plain
  <2> QED BY <1>F, <1>G, <2>1, <2>2
<1>7. {at[i] : i \in 0 .. m} \cup {at[i] : i \in m + 1 .. n} = DOMAIN nx
  <2>1. 0 .. n = (0 .. m) \cup (m + 1 .. n)
    OBVIOUS
  <2> QED BY <2>1 DEF Plain
<1>8. {at[i] : i \in 1 .. m} \cup {at[i] : i \in m + 1 .. n + 1} = DOMAIN pv
  <2>1. 1 .. n + 1 = (1 .. m) \cup (m + 1 .. n + 1)
    OBVIOUS
  <2> QED BY <2>1 DEF Plain
<1>9. /\ \A i \in 0 .. m - 1 : f[at[i]] = at[i + 1] /\ g[at[i + 1]] = at[i]
      /\ \A i \in m + 1 .. n : f[at[i]] = at[i + 1] /\ g[at[i + 1]] = at[i]
  BY <1>6
<1> QED BY <1>3, <1>4, <1>5, <1>7, <1>8, <1>9 DEF Placed

\* a behind the last point.
LEMMA PlacedLast ==
  ASSUME NEW n \in Nat \ {0}, NEW at, Line(at, n), NEW nx, NEW pv, Plain(nx, pv, at, n),
         NEW a, Off(at, n, a),
         NEW f, Twice(f, nx, a, at[n + 1], at[n], a),
         NEW g, Twice(g, pv, a, at[n], at[n + 1], a)
  PROVE  Placed(f, g, at, n, a, n, n)
<1>1. n \in 0 .. n /\ n + 1 \in 1 .. n + 1 /\ n + 1 \in 0 .. n + 1 /\ n \in 0 .. n + 1 /\ n \in Int
      /\ n + 1 .. n = {} /\ n + 1 .. n + 1 = {n + 1}
  OBVIOUS
<1>F. /\ DOMAIN f = {at[n]} \cup ({a} \cup DOMAIN nx) /\ f[at[n]] = a
      /\ a # at[n] => f[a] = at[n + 1]
      /\ \A z \in DOMAIN nx : z # a /\ z # at[n] => f[z] = nx[z]
  BY DEF Twice, With
<1>G. /\ DOMAIN g = {at[n + 1]} \cup ({a} \cup DOMAIN pv) /\ g[at[n + 1]] = a
      /\ a # at[n + 1] => g[a] = at[n]
      /\ \A z \in DOMAIN pv : z # a /\ z # at[n + 1] => g[z] = pv[z]
  BY DEF Twice, With
<1>3. DOMAIN f = {a} \cup DOMAIN nx /\ DOMAIN g = {a} \cup DOMAIN pv
  <2>1. DOMAIN f = {at[n]} \cup ({a} \cup DOMAIN nx) /\ DOMAIN g = {at[n + 1]} \cup ({a} \cup DOMAIN pv)
    BY <1>F, <1>G
  <2>2. at[n] \in DOMAIN nx /\ at[n + 1] \in DOMAIN pv
    BY <1>1 DEF Plain
  <2> QED BY <2>1, <2>2
<1>4. f[at[n]] = a /\ g[at[n + 1]] = a
  BY <1>F, <1>G
<1>5. f[a] = at[n + 1] /\ g[a] = at[n]
  <2>1. a # at[n] /\ a # at[n + 1]
    BY <1>1 DEF Off
  <2> QED BY <1>F, <1>G, <2>1
<1>6. ASSUME NEW i \in 0 .. n - 1
      PROVE  f[at[i]] = at[i + 1] /\ g[at[i + 1]] = at[i]
  <2>1. i \in 0 .. n /\ i + 1 \in 0 .. n + 1 /\ i # n /\ i + 1 # n + 1 /\ i \in 0 .. n + 1
    OBVIOUS
  <2>2. at[i] # at[n] /\ at[i] # a /\ at[i + 1] # at[n + 1] /\ at[i + 1] # a
    BY <1>1, <2>1 DEF Line, Off
  <2>3. at[i] \in DOMAIN nx /\ at[i + 1] \in DOMAIN pv /\ nx[at[i]] = at[i + 1] /\ pv[at[i + 1]] = at[i]
    BY <2>1 DEF Plain
  <2> QED BY <1>F, <1>G, <2>2, <2>3
<1>8. {at[i] : i \in 1 .. n} \cup {at[i] : i \in n + 1 .. n + 1} = DOMAIN pv
  <2>1. 1 .. n + 1 = (1 .. n) \cup (n + 1 .. n + 1)
    OBVIOUS
  <2> QED BY <2>1 DEF Plain
<1>9. {at[i] : i \in 0 .. n} \cup {at[i] : i \in n + 1 .. n} = DOMAIN nx
  BY <1>1 DEF Plain
<1> QED BY <1>1, <1>3, <1>4, <1>5, <1>6, <1>8, <1>9 DEF Placed

\* a in the place of the point m + 1.
LEMMA PlacedFor ==
  ASSUME NEW n \in Nat, NEW at, Line(at, n), NEW nx, NEW pv, Plain(nx, pv, at, n),
         NEW a, Off(at, n, a), NEW m \in 0 .. n - 1,
         NEW f, TwiceLess(f, nx, pv[at[m + 1]], a, a, nx[at[m + 1]], at[m + 1]),
         NEW g, TwiceLess(g, pv, a, pv[at[m + 1]], nx[at[m + 1]], a, at[m + 1])
  PROVE  Placed(f, g, at, n, a, m, m + 1)
<1>1. m \in 0 .. n /\ m + 1 \in 1 .. n /\ m + 1 \in 0 .. n + 1 /\ m \in 0 .. n + 1 /\ m \in Int /\ n \in Int
      /\ m # m + 1 /\ m + 1 # m + 2 /\ m + 2 \in 1 .. n + 1 /\ m + 2 \in 0 .. n + 1 /\ m # m + 2
      /\ (m + 1) + 1 = m + 2 /\ m + 1 \in 0 .. n
  OBVIOUS
<1>2. pv[at[m + 1]] = at[m] /\ nx[at[m + 1]] = at[m + 2] /\ at[m] # a /\ at[m + 1] # a /\ at[m + 2] # a
      /\ at[m + 1] # at[m] /\ at[m + 1] # at[m + 2] /\ at[m] # at[m + 2]
  BY <1>1 DEF Plain, Line, Off
<1>3. at[m] \in DOMAIN nx /\ at[m + 1] \in DOMAIN nx /\ at[m + 1] \in DOMAIN pv /\ at[m + 2] \in DOMAIN pv
  BY <1>1 DEF Plain
<1>F. /\ DOMAIN f = ({a} \cup DOMAIN nx) \ {at[m + 1]} /\ f[at[m]] = a /\ f[a] = at[m + 2]
      /\ \A z \in DOMAIN nx : z # a /\ z # at[m] /\ z # at[m + 1] => f[z] = nx[z]
  <2>1. TwiceLess(f, nx, at[m], a, a, at[m + 2], at[m + 1])
    BY <1>2
  <2>2. DOMAIN f = ({a} \cup ({at[m]} \cup DOMAIN nx)) \ {at[m + 1]}
    BY <2>1 DEF TwiceLess, With, Without
  <2>3. f[at[m]] = a /\ f[a] = at[m + 2]
    BY <1>2, <2>1 DEF TwiceLess, With, Without
  <2>4. \A z \in DOMAIN nx : z # a /\ z # at[m] /\ z # at[m + 1] => f[z] = nx[z]
    BY <2>1 DEF TwiceLess, With, Without
  <2> QED BY <1>3, <2>2, <2>3, <2>4
<1>G. /\ DOMAIN g = ({a} \cup DOMAIN pv) \ {at[m + 1]} /\ g[at[m + 2]] = a /\ g[a] = at[m]
      /\ \A z \in DOMAIN pv : z # a /\ z # at[m + 2] /\ z # at[m + 1] => g[z] = pv[z]
  <2>1. TwiceLess(g, pv, a, at[m], at[m + 2], a, at[m + 1])
    BY <1>2
  <2>2. DOMAIN g = ({at[m + 2]} \cup ({a} \cup DOMAIN pv)) \ {at[m + 1]}
    BY <2>1 DEF TwiceLess, With, Without
  <2>3. g[at[m + 2]] = a /\ g[a] = at[m]
    BY <1>2, <2>1 DEF TwiceLess, With, Without
  <2>4. \A z \in DOMAIN pv : z # a /\ z # at[m + 2] /\ z # at[m + 1] => g[z] = pv[z]
    BY <2>1 DEF TwiceLess, With, Without
  <2> QED BY <1>3, <2>2, <2>3, <2>4
<1>4. ASSUME NEW i \in 0 .. n, i # m, i # m + 1
      PROVE  f[at[i]] = at[i + 1] /\ g[at[i + 1]] = at[i]
  <2>1. at[i] # at[m] /\ at[i] # at[m + 1] /\ at[i] # a
        /\ at[i + 1] # at[m + 1] /\ at[i + 1] # at[m + 2] /\ at[i + 1] # a
    BY <1>1, <1>4 DEF Line, Off
  <2>2. at[i] \in DOMAIN nx /\ at[i + 1] \in DOMAIN pv /\ nx[at[i]] = at[i + 1] /\ pv[at[i + 1]] = at[i]
    BY DEF Plain
  <2> QED BY <1>F, <1>G, <2>1, <2>2
<1>5. {at[i] : i \in 0 .. n} \ {at[m + 1]} = {at[i] : i \in 0 .. m} \cup {at[i] : i \in (m + 1) + 1 .. n}
  <2>1. \A i \in 0 .. n : i = m + 1 \/ i \in 0 .. m \/ i \in (m + 1) + 1 .. n
    OBVIOUS
  <2>2. \A i \in 0 .. m : i \in 0 .. n /\ i # m + 1 /\ i \in 0 .. n + 1
    OBVIOUS
  <2>3. \A i \in (m + 1) + 1 .. n : i \in 0 .. n /\ i # m + 1 /\ i \in 0 .. n + 1
    OBVIOUS
  <2> QED BY <1>1, <2>1, <2>2, <2>3 DEF Line
<1>6. {at[i] : i \in 1 .. n + 1} \ {at[m + 1]} = {at[i] : i \in 1 .. m} \cup {at[i] : i \in (m + 1) + 1 .. n + 1}
  <2>1. \A i \in 1 .. n + 1 : i = m + 1 \/ i \in 1 .. m \/ i \in (m + 1) + 1 .. n + 1
    OBVIOUS
  <2>2. \A i \in 1 .. m : i \in 1 .. n + 1 /\ i # m + 1 /\ i \in 0 .. n + 1
    OBVIOUS
  <2>3. \A i \in (m + 1) + 1 .. n + 1 : i \in 1 .. n + 1 /\ i # m + 1 /\ i \in 0 .. n + 1
    OBVIOUS
  <2> QED BY <1>1, <2>1, <2>2, <2>3 DEF Line
<1>7. DOMAIN f = {a} \cup {at[i] : i \in 0 .. m} \cup {at[i] : i \in (m + 1) + 1 .. n}
  <2>1. DOMAIN nx = {at[i] : i \in 0 .. n} /\ a # at[m + 1]
    BY <1>2 DEF Plain
  <2>2. DOMAIN f = {a} \cup (DOMAIN nx \ {at[m + 1]})
    BY <1>F, <2>1
  <2> QED BY <1>5, <2>1, <2>2
<1>8. DOMAIN g = {a} \cup {at[i] : i \in 1 .. m} \cup {at[i] : i \in (m + 1) + 1 .. n + 1}
  <2>1. DOMAIN pv = {at[i] : i \in 1 .. n + 1} /\ a # at[m + 1]
    BY <1>2 DEF Plain
  <2>2. DOMAIN g = {a} \cup (DOMAIN pv \ {at[m + 1]})
    BY <1>G, <2>1
  <2> QED BY <1>6, <2>1, <2>2
<1>9. /\ \A i \in 0 .. m - 1 : f[at[i]] = at[i + 1] /\ g[at[i + 1]] = at[i]
      /\ \A i \in (m + 1) + 1 .. n : f[at[i]] = at[i + 1] /\ g[at[i + 1]] = at[i]
  BY <1>4
<1> QED BY <1>1, <1>F, <1>G, <1>7, <1>8, <1>9 DEF Placed

\* The point m + 1 goes as well, which follows a.
LEMMA PlacedStill ==
  ASSUME NEW n \in Nat, NEW at, Line(at, n), NEW nx, NEW pv, NEW a, Off(at, n, a),
         NEW r \in Nat, NEW m \in 0 .. n - 1, r <= m, Placed(nx, pv, at, n, a, r, m),
         NEW f, OnceLess(f, nx, a, nx[at[m + 1]], at[m + 1]),
         NEW g, OnceLess(g, pv, nx[at[m + 1]], a, at[m + 1])
  PROVE  Placed(f, g, at, n, a, r, m + 1)
<1>1. m \in 0 .. n /\ m + 1 \in m + 1 .. n /\ m + 1 \in m + 1 .. n + 1 /\ m + 1 \in 0 .. n + 1 /\ r \in 0 .. n + 1
      /\ m \in Int /\ n \in Int /\ (m + 1) + 1 = m + 2
      /\ m + 2 \in m + 1 .. n + 1 /\ m + 2 \in 0 .. n + 1 /\ m + 1 # m + 2 /\ r # m + 1 /\ r \in 0 .. r
  OBVIOUS
<1>2. nx[at[m + 1]] = at[m + 2] /\ pv[at[m + 2]] = at[m + 1] /\ nx[at[r]] = a /\ pv[a] = at[r]
  BY <1>1 DEF Placed
<1>3. at[r] # a /\ at[m + 1] # a /\ at[m + 2] # a
      /\ at[m + 1] # at[m + 2] /\ at[r] # at[m + 1]
  BY <1>1 DEF Line, Off
<1>4. at[r] \in DOMAIN nx /\ a \in DOMAIN nx /\ a \in DOMAIN pv /\ at[m + 2] \in DOMAIN pv
  BY <1>1 DEF Placed
<1>F. /\ DOMAIN f = DOMAIN nx \ {at[m + 1]} /\ f[a] = at[m + 2]
      /\ \A z \in DOMAIN nx : z # a /\ z # at[m + 1] => f[z] = nx[z]
  <2>1. OnceLess(f, nx, a, at[m + 2], at[m + 1])
    BY <1>2
  <2> QED BY <1>3, <1>4, <2>1, ZenonT(30) DEF OnceLess, With, Without
<1>G. /\ DOMAIN g = DOMAIN pv \ {at[m + 1]} /\ g[at[m + 2]] = a
      /\ \A z \in DOMAIN pv : z # at[m + 2] /\ z # at[m + 1] => g[z] = pv[z]
  <2>1. OnceLess(g, pv, at[m + 2], a, at[m + 1])
    BY <1>2
  <2> QED BY <1>3, <1>4, <2>1, ZenonT(30) DEF OnceLess, With, Without
<1>5. f[at[r]] = a /\ g[a] = at[r]
  BY <1>2, <1>3, <1>4, <1>F, <1>G
<1>6. ASSUME NEW i \in 0 .. r - 1
      PROVE  f[at[i]] = at[i + 1] /\ g[at[i + 1]] = at[i]
  <2>1. i \in 0 .. r /\ i + 1 \in 1 .. r /\ i \in 0 .. n + 1 /\ i + 1 \in 0 .. n + 1 /\ i # m + 1 /\ i + 1 # m + 1 /\ i + 1 # m + 2
    OBVIOUS
  <2>2. at[i] # at[m + 1] /\ at[i] # a /\ at[i + 1] # at[m + 1] /\ at[i + 1] # at[m + 2] /\ at[i + 1] # a
    BY <1>1, <2>1 DEF Line, Off
  <2>3. at[i] \in DOMAIN nx /\ at[i + 1] \in DOMAIN pv /\ nx[at[i]] = at[i + 1] /\ pv[at[i + 1]] = at[i]
    BY <2>1 DEF Placed
  <2> QED BY <1>F, <1>G, <2>2, <2>3
<1>7. ASSUME NEW i \in (m + 1) + 1 .. n
      PROVE  f[at[i]] = at[i + 1] /\ g[at[i + 1]] = at[i]
  <2>1. i \in m + 1 .. n /\ i + 1 \in m + 1 .. n + 1 /\ i \in 0 .. n + 1 /\ i + 1 \in 0 .. n + 1 /\ i # m + 1 /\ i + 1 # m + 1 /\ i + 1 # m + 2
    OBVIOUS
  <2>2. at[i] # at[m + 1] /\ at[i] # a /\ at[i + 1] # at[m + 1] /\ at[i + 1] # at[m + 2] /\ at[i + 1] # a
    BY <1>1, <2>1 DEF Line, Off
  <2>3. at[i] \in DOMAIN nx /\ at[i + 1] \in DOMAIN pv /\ nx[at[i]] = at[i + 1] /\ pv[at[i + 1]] = at[i]
    BY <2>1 DEF Placed
  <2> QED BY <1>F, <1>G, <2>2, <2>3
<1>8. DOMAIN f = {a} \cup {at[i] : i \in 0 .. r} \cup {at[i] : i \in (m + 1) + 1 .. n}
  <2>1. DOMAIN nx = {a} \cup {at[i] : i \in 0 .. r} \cup {at[i] : i \in m + 1 .. n}
    BY DEF Placed
  <2>2. \A i \in m + 1 .. n : i = m + 1 \/ i \in (m + 1) + 1 .. n
    OBVIOUS
  <2>3. \A i \in 0 .. r : i \in 0 .. n + 1 /\ i # m + 1
    OBVIOUS
  <2>4. \A i \in (m + 1) + 1 .. n : i \in m + 1 .. n /\ i # m + 1 /\ i \in 0 .. n + 1
    OBVIOUS
  <2>5. (\A i \in 0 .. r : at[i] # at[m + 1]) /\ (\A i \in (m + 1) + 1 .. n : at[i] # at[m + 1])
    BY <1>1, <2>3, <2>4 DEF Line
  <2> QED BY <1>3, <1>F, <2>1, <2>2, <2>4, <2>5
<1>9. DOMAIN g = {a} \cup {at[i] : i \in 1 .. r} \cup {at[i] : i \in (m + 1) + 1 .. n + 1}
  <2>1. DOMAIN pv = {a} \cup {at[i] : i \in 1 .. r} \cup {at[i] : i \in m + 1 .. n + 1}
    BY DEF Placed
  <2>2. \A i \in m + 1 .. n + 1 : i = m + 1 \/ i \in (m + 1) + 1 .. n + 1
    OBVIOUS
  <2>3. \A i \in 1 .. r : i \in 0 .. n + 1 /\ i # m + 1
    OBVIOUS
  <2>4. \A i \in (m + 1) + 1 .. n + 1 : i \in m + 1 .. n + 1 /\ i # m + 1 /\ i \in 0 .. n + 1
    OBVIOUS
  <2>5. (\A i \in 1 .. r : at[i] # at[m + 1]) /\ (\A i \in (m + 1) + 1 .. n + 1 : at[i] # at[m + 1])
    BY <1>1, <2>3, <2>4 DEF Line
  <2> QED BY <1>3, <1>G, <2>1, <2>2, <2>4, <2>5
<1> QED BY <1>1, <1>F, <1>G, <1>5, <1>6, <1>7, <1>8, <1>9 DEF Placed
-----------------------------------------------------------------------------
(***************************************************************************)
(* A neighbour a of cost x goes along the curve.  `at' has the ids of the  *)
(* points, q their costs.                                                  *)
(***************************************************************************)
Links(c, nx, pv, gone, halted) ==
  /\ DOMAIN c = {"next", "prev", "dropped", "stop"}
  /\ c.next = nx /\ c.prev = pv /\ c.dropped = gone /\ c.stop = halted

Walk(at, n, q, a, x) ==
  /\ Line(at, n) /\ Plain(next, prev, at, n) /\ Off(at, n, a) /\ at[n + 1] = TAIL
  /\ q \in [1 .. n -> Costs] /\ x \in Costs /\ CostOf(neighbors[a]) = x
  /\ \A j \in 1 .. n :
       CostOf(IF at[j] \in DOMAIN sol THEN sol[at[j]].colors ELSE neighbors[at[j]]) = q[j]
  /\ \A i, j \in 1 .. n : i < j => Ahead(q[i], q[j])

\* a is behind the first m points, and is not put on the curve yet.
Waits(c, n, m, q, x) ==
  /\ Links(c, next, prev, dropped, FALSE)
  /\ m < n /\ \A j \in 1 .. m : Ahead(q[j], x)

\* A point that is as good was met.
Refused(c, m, a, q, x) ==
  /\ Links(c, next, prev, dropped \cup {a}, TRUE)
  /\ \E j \in 1 .. m : q[j] = x \/ Beats(q[j], x)

\* How the first m points are to x, when a took the place of those from r + 1 to k.
Around(q, x, n, m, r, k) ==
  /\ r <= k /\ k <= m /\ (r < m \/ m = n)
  /\ \A j \in 1 .. r : Ahead(q[j], x)
  /\ \A j \in r + 1 .. k : Beats(x, q[j])
  /\ \A j \in k + 1 .. m : Ahead(x, q[j])

Stands(c, at, n, a, r, k) ==
  /\ Links(c, c.next, c.prev, dropped \cup {at[j] : j \in r + 1 .. k}, FALSE)
  /\ Placed(c.next, c.prev, at, n, a, r, k)

Walked(c, at, n, q, a, x, m) ==
  \/ Waits(c, n, m, q, x)
  \/ Refused(c, m, a, q, x)
  \/ \E r, k \in 0 .. m : Around(q, x, n, m, r, k) /\ Stands(c, at, n, a, r, k)

\* The cases by the costs x of the neighbour and y of the point: d is what c becomes.
Meets(d, c, a, b, x, y) ==
  /\ c.stop = TRUE => d = c
  /\ c.stop = FALSE =>
       /\ Beats(y, x) => d = DropIt(c, a)
       /\ Beats(x, y) => d = Replace(c, a, b)
       /\ ~Beats(y, x) /\ ~Beats(x, y) =>
            /\ x.left < y.left => d = IF a \in DOMAIN c.prev THEN c ELSE InsertBefore(c, a, b)
            /\ x.left > y.left => d = IF c.next[b] = TAIL THEN InsertLast(c, a, b) ELSE c
            /\ x.left = y.left => d = DropIt(c, a)

LEMMA MeetIs ==
  ASSUME Known, NEW n \in Nat, NEW at, NEW q, NEW a, NEW x, Walk(at, n, q, a, x),
         NEW m \in 1 .. n, NEW c
  PROVE  Meets(Meet(c, a, at[m]), c, a, at[m], x, q[m])
<1> DEFINE colors == IF at[m] \in DOMAIN sol THEN sol[at[m]].colors ELSE neighbors[at[m]]
           y == q[m]
<1>1. CostOf(neighbors[a]) = x /\ CostOf(colors) = y /\ x \in Costs /\ y \in Costs
  BY DEF Walk
<1>2. x.left \in Int /\ y.left \in Int /\ ~(Beats(x, y) /\ Beats(y, x))
  BY <1>1, BeatsIs DEF Costs
<1>3. Dominates(colors, neighbors[a]) = Beats(y, x) /\ Dominates(neighbors[a], colors) = Beats(x, y)
  BY <1>1 DEF Dominates
<1>4. Meet(c, a, at[m]) =
        CASE c.stop                                 -> c
          [] ~c.stop /\ Beats(y, x)                 -> DropIt(c, a)
          [] ~c.stop /\ Beats(x, y)                 -> Replace(c, a, at[m])
          [] ~c.stop /\ ~Beats(y, x) /\ ~Beats(x, y) ->
               CASE x.left < y.left -> IF a \in DOMAIN c.prev THEN c ELSE InsertBefore(c, a, at[m])
                 [] x.left > y.left -> IF c.next[at[m]] = TAIL THEN InsertLast(c, a, at[m]) ELSE c
                 [] OTHER -> DropIt(c, a)
  <2> HIDE DEF y
  <2> QED BY <1>1, <1>3, Zenon DEF Meet
<1> HIDE DEF y, colors
<1>5. c.stop = TRUE => Meet(c, a, at[m]) = c
  BY <1>4
<1>6. ASSUME c.stop = FALSE, Beats(y, x) PROVE Meet(c, a, at[m]) = DropIt(c, a)
  BY <1>2, <1>4, <1>6
<1>7. ASSUME c.stop = FALSE, Beats(x, y) PROVE Meet(c, a, at[m]) = Replace(c, a, at[m])
  BY <1>2, <1>4, <1>7
<1>8. ASSUME c.stop = FALSE, ~Beats(y, x), ~Beats(x, y)
      PROVE  /\ x.left < y.left =>
                  Meet(c, a, at[m]) = IF a \in DOMAIN c.prev THEN c ELSE InsertBefore(c, a, at[m])
             /\ x.left > y.left =>
                  Meet(c, a, at[m]) = IF c.next[at[m]] = TAIL THEN InsertLast(c, a, at[m]) ELSE c
             /\ x.left = y.left => Meet(c, a, at[m]) = DropIt(c, a)
  <2>1. Meet(c, a, at[m]) =
          CASE x.left < y.left -> IF a \in DOMAIN c.prev THEN c ELSE InsertBefore(c, a, at[m])
            [] x.left > y.left -> IF c.next[at[m]] = TAIL THEN InsertLast(c, a, at[m]) ELSE c
            [] OTHER -> DropIt(c, a)
    BY <1>4, <1>8
  <2> QED BY <1>2, <2>1
<1> QED BY <1>5, <1>6, <1>7, <1>8 DEF Meets, y

\* What the cases make of the maps.
Maps(c, nx, pv, gone, a, b) ==
  /\ Links(DropIt(c, a), nx, pv, gone \cup {a}, TRUE)
  /\ Links(InsertBefore(c, a, b), With(With(nx, a, b), pv[b], a),
           With(With(pv, a, pv[b]), b, a), gone, FALSE)
  /\ Links(InsertLast(c, a, b), With(With(nx, a, TAIL), b, a),
           With(With(pv, a, b), TAIL, a), gone, FALSE)
  /\ a \notin DOMAIN pv =>
       Links(Replace(c, a, b), Without(With(With(nx, pv[b], a), a, nx[b]), b),
             Without(With(With(pv, a, pv[b]), nx[b], a), b), gone \cup {b}, FALSE)
  /\ a \in DOMAIN pv =>
       Links(Replace(c, a, b), Without(With(nx, a, nx[b]), b),
             Without(With(pv, nx[b], a), b), gone \cup {b}, FALSE)

LEMMA MapsAre ==
  ASSUME NEW nx, NEW pv, NEW gone, NEW a, NEW b,
         NEW c, Links(c, nx, pv, gone, FALSE)
  PROVE  Maps(c, nx, pv, gone, a, b)
<1>1. Links(DropIt(c, a), nx, pv, gone \cup {a}, TRUE)
  BY DEF DropIt, Links
<1>2. Links(InsertBefore(c, a, b), With(With(nx, a, b), pv[b], a),
            With(With(pv, a, pv[b]), b, a), gone, FALSE)
  BY DEF InsertBefore, Links
<1>3. Links(InsertLast(c, a, b), With(With(nx, a, TAIL), b, a),
            With(With(pv, a, b), TAIL, a), gone, FALSE)
  BY DEF InsertLast, Links
<1>4. ASSUME a \notin DOMAIN pv
      PROVE  Links(Replace(c, a, b), Without(With(With(nx, pv[b], a), a, nx[b]), b),
                   Without(With(With(pv, a, pv[b]), nx[b], a), b), gone \cup {b}, FALSE)
  BY <1>4 DEF Replace, Links
<1>5. ASSUME a \in DOMAIN pv
      PROVE  Links(Replace(c, a, b), Without(With(nx, a, nx[b]), b),
                   Without(With(pv, nx[b], a), b), gone \cup {b}, FALSE)
  BY <1>5 DEF Replace, Links
<1> QED BY <1>1, <1>2, <1>3, <1>4, <1>5 DEF Maps

LEMMA WaitsOn ==
  ASSUME Known, NEW n \in Nat, NEW at, NEW q, NEW a, NEW x, Walk(at, n, q, a, x),
         NEW m \in 0 .. n - 1, NEW c, Waits(c, n, m, q, x)
  PROVE  Walked(Meet(c, a, at[m + 1]), at, n, q, a, x, m + 1)
<1> DEFINE k == m + 1
           b == at[k]
           y == q[k]
<1>1. m \in Nat /\ k \in Nat /\ k \in 1 .. n /\ k \in 1 .. k /\ k = m + 1 /\ n \in Int /\ m \in 0 .. k /\ k \in 0 .. k /\ k \in 0 .. n + 1
      /\ m <= k /\ m < k
  OBVIOUS
<1> DEFINE d == Meet(c, a, b)
<1> SUFFICES Walked(d, at, n, q, a, x, k)
  OBVIOUS
<1> HIDE DEF k
<1>2. x \in Costs /\ y \in Costs /\ x.left \in Int /\ y.left \in Int
  BY <1>1 DEF Walk, Costs
<1>3. Line(at, n) /\ Plain(next, prev, at, n) /\ Off(at, n, a) /\ at[n + 1] = TAIL
  BY DEF Walk
<1>4. Links(c, next, prev, dropped, FALSE) /\ \A j \in 1 .. m : Ahead(q[j], x)
  BY DEF Waits
<1>5. a \notin DOMAIN prev /\ c.prev = prev /\ c.next = next /\ c.stop = FALSE
  <2>1. \A i \in 1 .. n + 1 : at[i] # a
    BY <1>3 DEF Off
  <2> QED BY <1>3, <1>4, <2>1 DEF Plain, Links
<1>M. Meets(d, c, a, b, x, y)
  BY <1>1, MeetIs
<1>L. Maps(c, next, prev, dropped, a, b)
  BY <1>4, MapsAre
<1> HIDE DEF d
<1>6. CASE Beats(y, x)
  <2>1. d = DropIt(c, a)
    BY <1>M, <1>5, <1>6 DEF Meets
  <2>2. Links(d, next, prev, dropped \cup {a}, TRUE)
    BY <1>L, <1>5, <2>1 DEF Maps
  <2>3. Refused(d, k, a, q, x)
    <3>1. \E j \in 1 .. k : q[j] = x \/ Beats(q[j], x)
      BY <1>1, <1>6
    <3> QED BY <2>2, <3>1 DEF Refused
  <2> QED BY <2>3 DEF Walked
<1>7. CASE Beats(x, y)
  <2>1. d = Replace(c, a, b)
    BY <1>M, <1>5, <1>7 DEF Meets
  <2> DEFINE f == Without(With(With(next, prev[b], a), a, next[b]), b)
             g == Without(With(With(prev, a, prev[b]), next[b], a), b)
  <2>2. Links(d, f, g, dropped \cup {b}, FALSE)
    BY <1>L, <1>5, <2>1 DEF Maps
  <2>3. TwiceLess(f, next, prev[b], a, a, next[b], b) /\ TwiceLess(g, prev, a, prev[b], next[b], a, b)
    BY DEF TwiceLess
  <2> HIDE DEF f, g
  <2>4. Placed(f, g, at, n, a, m, k)
    BY <1>3, <2>3, PlacedFor DEF b, k
  <2>5. {at[j] : j \in m + 1 .. k} = {b}
    BY <1>1
  <2>6. Stands(d, at, n, a, m, k)
    BY <2>2, <2>4, <2>5 DEF Stands, Links
  <2>7. Around(q, x, n, k, m, k)
    <3>1. \A j \in m + 1 .. k : j = k
      BY <1>1
    <3>2. k + 1 .. k = {}
      BY <1>1
    <3> QED BY <1>1, <1>4, <1>7, <3>1, <3>2 DEF Around
  <2> QED BY <1>1, <2>6, <2>7 DEF Walked
<1>8. CASE ~Beats(x, y) /\ ~Beats(y, x) /\ x.left < y.left
  <2>1. d = InsertBefore(c, a, b)
    BY <1>M, <1>5, <1>8 DEF Meets
  <2> DEFINE f == With(With(next, a, b), prev[b], a)
             g == With(With(prev, a, prev[b]), b, a)
  <2>2. Links(d, f, g, dropped, FALSE)
    BY <1>L, <1>5, <2>1 DEF Maps
  <2>3. Twice(f, next, a, b, prev[b], a) /\ Twice(g, prev, a, prev[b], b, a)
    BY DEF Twice
  <2> HIDE DEF f, g
  <2>4. Placed(f, g, at, n, a, m, m)
    BY <1>3, <2>3, PlacedBefore DEF b, k
  <2>5. {at[j] : j \in m + 1 .. m} = {}
    BY <1>1
  <2>6. Stands(d, at, n, a, m, m)
    BY <2>2, <2>4, <2>5 DEF Stands, Links
  <2>7. Around(q, x, n, k, m, m)
    <3>1. \A j \in m + 1 .. k : j = k
      BY <1>1
    <3>2. m + 1 .. m = {}
      BY <1>1
    <3>3. Ahead(x, y)
      BY <1>2, <1>8, BeatsIs
    <3> QED BY <1>1, <1>4, <3>1, <3>2, <3>3 DEF Around
  <2> QED BY <1>1, <2>6, <2>7 DEF Walked
<1>9. CASE ~Beats(x, y) /\ ~Beats(y, x) /\ x.left > y.left
  <2>1. d = IF c.next[b] = TAIL THEN InsertLast(c, a, b) ELSE c
    BY <1>M, <1>5, <1>9 DEF Meets
  <2>2. Ahead(y, x)
    BY <1>2, <1>9, BeatsIs
  <2>3. \A j \in 1 .. k : Ahead(q[j], x)
    <3>1. \A j \in 1 .. k : j \in 1 .. m \/ j = k
      BY <1>1
    <3> QED BY <1>4, <2>2, <3>1
  <2>4. CASE k = n
    <3>1. next[b] = TAIL
      BY <1>1, <1>3, <2>4 DEF Plain, b
    <3>2. d = InsertLast(c, a, b)
      BY <1>5, <2>1, <3>1
    <3> DEFINE f == With(With(next, a, TAIL), b, a)
               g == With(With(prev, a, b), TAIL, a)
    <3>3. Links(d, f, g, dropped, FALSE)
      BY <1>L, <1>5, <3>2 DEF Maps
    <3>4. Twice(f, next, a, at[n + 1], at[n], a) /\ Twice(g, prev, a, at[n], at[n + 1], a)
      BY <1>3, <2>4 DEF Twice
    <3> HIDE DEF f, g
    <3>5. n \in Nat \ {0}
      BY <1>1
    <3>6. Placed(f, g, at, n, a, n, n)
      BY <1>3, <3>4, <3>5, PlacedLast
    <3>7. {at[j] : j \in n + 1 .. n} = {}
      BY <1>1
    <3>8. Stands(d, at, n, a, n, n)
      BY <3>3, <3>6, <3>7 DEF Stands, Links
    <3>9. Around(q, x, n, n, n, n)
      <4>1. n + 1 .. n = {} /\ n <= n
        BY <1>1
      <4> QED BY <2>3, <2>4, <4>1 DEF Around
    <3>10. n \in 0 .. n
      OBVIOUS
    <3> QED BY <2>4, <3>8, <3>9, <3>10 DEF Walked
  <2>5. CASE k # n
    <3>1. next[b] = at[k + 1] /\ k + 1 \in 0 .. n + 1 /\ n + 1 \in 0 .. n + 1 /\ k + 1 # n + 1
      BY <1>1, <1>3, <2>5 DEF Plain
    <3>2. next[b] # TAIL
      BY <1>3, <3>1 DEF Line
    <3>3. d = c /\ k < n
      BY <1>1, <1>5, <2>1, <2>5, <3>2
    <3>4. Waits(d, n, k, q, x)
      BY <1>4, <2>3, <3>3 DEF Waits
    <3> QED BY <3>4 DEF Walked
  <2> QED BY <2>4, <2>5
<1>10. CASE ~Beats(x, y) /\ ~Beats(y, x) /\ x.left = y.left
  <2>1. d = DropIt(c, a)
    BY <1>M, <1>5, <1>10 DEF Meets
  <2>2. Links(d, next, prev, dropped \cup {a}, TRUE)
    BY <1>L, <1>5, <2>1 DEF Maps
  <2>3. x = y
    BY <1>2, <1>10, BeatsIs
  <2>4. Refused(d, k, a, q, x)
    <3>1. \E j \in 1 .. k : q[j] = x \/ Beats(q[j], x)
      BY <1>1, <2>3
    <3> QED BY <2>2, <3>1 DEF Refused
  <2> QED BY <2>4 DEF Walked
<1> QED BY <1>2, <1>6, <1>7, <1>8, <1>9, <1>10

LEMMA StandsOn ==
  ASSUME Known, NEW n \in Nat, NEW at, NEW q, NEW a, NEW x, Walk(at, n, q, a, x),
         NEW m \in 0 .. n - 1, NEW c, NEW r \in 0 .. m, NEW k \in 0 .. m,
         Around(q, x, n, m, r, k), Stands(c, at, n, a, r, k)
  PROVE  Walked(Meet(c, a, at[m + 1]), at, n, q, a, x, m + 1)
<1> DEFINE l == m + 1
           b == at[l]
           y == q[l]
<1>1. m \in Nat /\ l \in Nat /\ l \in 1 .. n /\ l = m + 1 /\ n \in Int /\ r \in Int /\ k \in Int
      /\ r \in Nat /\ r \in 0 .. l /\ k \in 0 .. l /\ l \in 0 .. l
  OBVIOUS
<1> DEFINE d == Meet(c, a, b)
<1> SUFFICES Walked(d, at, n, q, a, x, l)
  OBVIOUS
<1> HIDE DEF l
<1>2. x \in Costs /\ y \in Costs /\ x.left \in Int /\ y.left \in Int /\ q \in [1 .. n -> Costs]
  BY <1>1 DEF Walk, Costs
<1>3. Line(at, n) /\ Off(at, n, a)
  BY DEF Walk
<1>4. r <= k /\ k <= m /\ r < m
  BY <1>1 DEF Around
<1>5. /\ Links(c, c.next, c.prev, dropped \cup {at[j] : j \in r + 1 .. k}, FALSE)
      /\ Placed(c.next, c.prev, at, n, a, r, k) /\ a \in DOMAIN c.prev /\ c.stop = FALSE
  BY DEF Stands, Placed, Links
<1>M. Meets(d, c, a, b, x, y)
  BY <1>1, MeetIs
<1>L. Maps(c, c.next, c.prev, dropped \cup {at[j] : j \in r + 1 .. k}, a, b)
  BY <1>5, MapsAre
<1> HIDE DEF d
<1>6. \A i \in 1 .. m : Ahead(q[i], y) /\ q[i] \in Costs
  <2>1. \A i \in 1 .. m : i \in 1 .. n /\ i < l
    BY <1>1
  <2> QED BY <1>1, <1>2, <2>1 DEF Walk
<1>7. CASE Ahead(x, y)
  <2>1. ~Beats(x, y) /\ ~Beats(y, x) /\ x.left < y.left
    BY <1>2, <1>7, BeatsIs
  <2>2. d = c
    BY <1>M, <1>5, <2>1 DEF Meets
  <2>3. \A j \in k + 1 .. l : j \in k + 1 .. m \/ j = l
    BY <1>1
  <2>4. r <= k /\ k <= l /\ r < l
    BY <1>1, <1>4
  <2>5. Around(q, x, n, l, r, k)
    BY <1>7, <2>3, <2>4 DEF Around
  <2> QED BY <1>1, <2>2, <2>5 DEF Walked
<1>8. CASE ~Ahead(x, y)
  <2>1. k = m
    <3>1. SUFFICES ASSUME k < m PROVE FALSE
      BY <1>1, <1>4
    <3>2. k + 1 \in k + 1 .. m /\ k + 1 \in 1 .. m
      BY <1>1, <3>1
    <3>3. Ahead(x, q[k + 1]) /\ Ahead(q[k + 1], y) /\ q[k + 1] \in Costs
      BY <1>6, <3>2 DEF Around
    <3> QED BY <1>2, <1>8, <3>3, AheadIs
  <2>2. Beats(x, y)
    <3>1. m \in r + 1 .. k /\ m \in 1 .. m
      BY <1>1, <1>4, <2>1
    <3>2. Beats(x, q[m]) /\ Ahead(q[m], y) /\ q[m] \in Costs
      BY <1>6, <3>1 DEF Around
    <3> QED BY <1>2, <1>8, <3>2, AheadIs
  <2>3. d = Replace(c, a, b)
    BY <1>M, <1>5, <2>2 DEF Meets
  <2> DEFINE f == Without(With(c.next, a, c.next[b]), b)
             g == Without(With(c.prev, c.next[b], a), b)
             gone == dropped \cup {at[j] : j \in r + 1 .. k}
  <2>4. Links(d, f, g, gone \cup {b}, FALSE)
    BY <1>L, <1>5, <2>3 DEF Maps
  <2>5. OnceLess(f, c.next, a, c.next[b], b) /\ OnceLess(g, c.prev, c.next[b], a, b)
    BY DEF OnceLess
  <2> HIDE DEF f, g
  <2>6. Placed(f, g, at, n, a, r, l)
    BY <1>1, <1>3, <1>4, <1>5, <2>1, <2>5, PlacedStill DEF l
  <2>7. gone \cup {b} = dropped \cup {at[j] : j \in r + 1 .. l}
    <3>1. \A j \in r + 1 .. l : j \in r + 1 .. k \/ j = l
      BY <1>1, <2>1
    <3>2. (\A j \in r + 1 .. k : j \in r + 1 .. l) /\ l \in r + 1 .. l
      BY <1>1, <1>4, <2>1
    <3> QED BY <3>1, <3>2
  <2> HIDE DEF gone
  <2>8. Stands(d, at, n, a, r, l)
    BY <2>4, <2>6, <2>7 DEF Stands, Links
  <2>9. Around(q, x, n, l, r, l)
    <3>1. \A j \in r + 1 .. l : j \in r + 1 .. k \/ j = l
      BY <1>1, <2>1
    <3>2. r <= l /\ r < l /\ l <= l
      BY <1>1, <1>4
    <3>3. l + 1 .. l = {}
      BY <1>1
    <3> QED BY <2>2, <3>1, <3>2, <3>3 DEF Around
  <2> QED BY <1>1, <2>8, <2>9 DEF Walked
<1> QED BY <1>7, <1>8

LEMMA WalkOn ==
  ASSUME Known, NEW n \in Nat, NEW at, NEW q, NEW a, NEW x, Walk(at, n, q, a, x),
         NEW m \in 0 .. n - 1, NEW c, Walked(c, at, n, q, a, x, m)
  PROVE  Walked(Meet(c, a, at[m + 1]), at, n, q, a, x, m + 1)
<1>1. CASE Waits(c, n, m, q, x)
  BY <1>1, WaitsOn
<1>2. CASE Refused(c, m, a, q, x)
  <2>1. c.stop = TRUE /\ m + 1 \in 1 .. n /\ \A j \in 1 .. m : j \in 1 .. m + 1
    BY <1>2 DEF Refused, Links
  <2>2. Meets(Meet(c, a, at[m + 1]), c, a, at[m + 1], x, q[m + 1])
    BY <2>1, MeetIs
  <2>3. Refused(c, m + 1, a, q, x)
    BY <1>2, <2>1 DEF Refused
  <2> QED BY <2>1, <2>2, <2>3 DEF Walked, Meets
<1>3. CASE \E r, k \in 0 .. m : Around(q, x, n, m, r, k) /\ Stands(c, at, n, a, r, k)
  BY <1>3, StandsOn
<1> QED BY <1>1, <1>2, <1>3 DEF Walked

(***************************************************************************)
(* FoldLeft is a recursion over sets of indices.  The function it is       *)
(* defined by exists: it can be made for the indices up to m, for each m.  *)
(***************************************************************************)
Folds(g, S, base, a, s) ==
  g = [t \in S |-> IF t = {} THEN base ELSE Meet(g[t \ {Max(t)}], a, s[Max(t)])]

LEMMA FoldExists ==
  ASSUME NEW n \in Nat, NEW base, NEW a, NEW s
  PROVE  \E g : Folds(g, SUBSET (1 .. n), base, a, s)
<1> DEFINE S == {m \in 0 .. n : \E g : Folds(g, SUBSET (1 .. m), base, a, s)}
<1>1. 0 \in S
  <2> DEFINE g == [t \in SUBSET (1 .. 0) |-> base]
  <2>1. \A t \in SUBSET (1 .. 0) : t = {}
    OBVIOUS
  <2>2. Folds(g, SUBSET (1 .. 0), base, a, s)
    BY <2>1 DEF Folds
  <2> QED BY <2>2
<1>2. ASSUME NEW m \in 0 .. n - 1, m \in S PROVE m + 1 \in S
  <2>1. PICK g : Folds(g, SUBSET (1 .. m), base, a, s)
    BY <1>2
  <2> DEFINE k == m + 1
             h == [t \in SUBSET (1 .. k) |-> IF k \in t THEN Meet(g[t \ {k}], a, s[k]) ELSE g[t]]
  <2>2. k \in 0 .. n /\ m \in Nat /\ k \in Nat /\ k = m + 1
    OBVIOUS
  <2>3. ASSUME NEW t \in SUBSET (1 .. k)
        PROVE  /\ t \ {k} \in SUBSET (1 .. m) /\ t \ {k} \in SUBSET (1 .. k) /\ k \notin t \ {k}
               /\ k \notin t => t \in SUBSET (1 .. m)
               /\ k \in t => Max(t) = k
    <3>1. k \in t => (\A y \in t : k >= y)
      BY <2>2
    <3>2. \A x \in t : k \in t /\ x >= k => x = k
      BY <2>2
    <3>3. k \in t => Max(t) = k
      BY <3>1, <3>2 DEF Max
    <3> QED BY <2>2, <3>3
  <2>4. \A t \in SUBSET (1 .. m) : t \in SUBSET (1 .. k) /\ k \notin t
    BY <2>2
  <2> HIDE DEF k
  <2>5. \A t \in SUBSET (1 .. m) : h[t] = g[t]
    BY <2>4
  <2>6. ASSUME NEW t \in SUBSET (1 .. k)
        PROVE  h[t] = IF t = {} THEN base ELSE Meet(h[t \ {Max(t)}], a, s[Max(t)])
    <3>1. CASE k \in t
      <4>1. h[t] = Meet(g[t \ {k}], a, s[k]) /\ h[t \ {k}] = g[t \ {k}] /\ Max(t) = k
        BY <2>3, <3>1
      <4> HIDE DEF h
      <4> QED BY <3>1, <4>1
    <3>2. CASE k \notin t
      <4>1. h[t] = g[t] /\ t \in SUBSET (1 .. m)
        BY <2>3, <3>2
      <4>2. t \ {Max(t)} \in SUBSET (1 .. m)
        BY <4>1
      <4>3. g[t] = IF t = {} THEN base ELSE Meet(g[t \ {Max(t)}], a, s[Max(t)])
        BY <2>1, <4>1 DEF Folds
      <4>4. h[t \ {Max(t)}] = g[t \ {Max(t)}]
        BY <2>5, <4>2
      <4> HIDE DEF h
      <4> QED BY <4>1, <4>3, <4>4
    <3> QED BY <3>1, <3>2
  <2>7. Folds(h, SUBSET (1 .. k), base, a, s)
    <3>1. h = [t \in SUBSET (1 .. k) |-> h[t]]
      OBVIOUS
    <3> HIDE DEF h
    <3> QED BY <2>6, <3>1 DEF Folds
  <2> HIDE DEF h
  <2>8. k \in S
    BY <2>2, <2>7
  <2> QED BY <2>8 DEF k
<1>3. n \in S
  <2> HIDE DEF S
  <2>1. n \in 0 .. n
    OBVIOUS
  <2> QED BY <1>1, <1>2, <2>1, UpToN
<1> QED BY <1>3

Walks(s, a) ==
  FoldLeft(LAMBDA c, b : Meet(c, a, b),
           [next |-> next, prev |-> prev, dropped |-> dropped, stop |-> FALSE], s)

\* Along the whole curve.
LEMMA WalkFold ==
  ASSUME Known, NEW n \in Nat \ {0}, NEW at, NEW q, NEW a, NEW x, Walk(at, n, q, a, x),
         NEW s, DOMAIN s = 1 .. n, \A i \in 1 .. n : s[i] = at[i]
  PROVE  Walked(Walks(s, a), at, n, q, a, x, n)
<1> DEFINE base == [next |-> next, prev |-> prev, dropped |-> dropped, stop |-> FALSE]
           iter == CHOOSE g : Folds(g, SUBSET (1 .. n), base, a, s)
           S == {m \in 0 .. n : Walked(iter[1 .. m], at, n, q, a, x, m)}
<1>1. Walks(s, a) = iter[1 .. n]
  BY DEF Walks, FoldLeft, MapThenFoldSet, Folds
<1>2. Folds(iter, SUBSET (1 .. n), base, a, s)
  <2> HIDE DEF base
  <2>1. \E g : Folds(g, SUBSET (1 .. n), base, a, s)
    BY FoldExists
  <2> QED BY <2>1
<1> HIDE DEF iter
<1>3. iter[{}] = base /\ \A t \in SUBSET (1 .. n) : t # {} => iter[t] = Meet(iter[t \ {Max(t)}], a, s[Max(t)])
  <2> HIDE DEF base
  <2> QED BY <1>2 DEF Folds
<1>4. 0 \in S
  <2>1. 1 .. 0 = {} /\ 0 \in 0 .. n /\ 0 < n
    OBVIOUS
  <2>2. Links(base, next, prev, dropped, FALSE)
    BY DEF Links
  <2>3. iter[1 .. 0] = base
    <3> HIDE DEF base
    <3> QED BY <1>3, <2>1
  <2> HIDE DEF base
  <2>4. Waits(iter[1 .. 0], n, 0, q, x)
    BY <2>1, <2>2, <2>3 DEF Waits
  <2> QED BY <2>1, <2>4 DEF Walked
<1> HIDE DEF base
<1>5. ASSUME NEW m \in 0 .. n - 1, m \in S PROVE m + 1 \in S
  <2>1. m \in Nat /\ m + 1 \in 0 .. n /\ m + 1 \in 1 .. n /\ m + 1 \in Nat /\ n \in Nat
    OBVIOUS
  <2>2. Max(1 .. m + 1) = m + 1 /\ (1 .. m + 1) \ {m + 1} = 1 .. m /\ 1 .. m + 1 # {}
    BY <2>1, MaxOfInterval
  <2>3. 1 .. m + 1 \in SUBSET (1 .. n)
    OBVIOUS
  <2>4. iter[1 .. m + 1] = Meet(iter[1 .. m], a, at[m + 1])
    BY <1>3, <2>1, <2>2, <2>3
  <2>5. Walked(iter[1 .. m], at, n, q, a, x, m)
    BY <1>5
  <2>6. Walked(Meet(iter[1 .. m], a, at[m + 1]), at, n, q, a, x, m + 1)
    BY <2>1, <2>5, WalkOn
  <2> QED BY <2>1, <2>4, <2>6
<1>6. n \in S
  <2> HIDE DEF S
  <2>1. n \in 0 .. n /\ n \in Nat
    OBVIOUS
  <2> QED BY <1>4, <1>5, <2>1, UpToN
<1> QED BY <1>1, <1>6
-----------------------------------------------------------------------------
(***************************************************************************)
(* What the maps link is the curve.                                        *)
(***************************************************************************)
AtAre(nx, pv, s, n, at) ==
  /\ n \in Nat /\ s \in Seq(Nat) /\ DOMAIN s = 1 .. n
  /\ Line(at, n) /\ Plain(nx, pv, at, n)
  /\ at[0] = HEAD /\ at[n + 1] = TAIL /\ \A i \in 1 .. n : at[i] = s[i] /\ s[i] \in Nat

LEMMA AtIs ==
  ASSUME NEW nx, NEW pv, NEW s, Chain(nx, pv, s), NEW n, n = Len(s),
         NEW at, at = [i \in 0 .. n + 1 |-> At(s, i)]
  PROVE  AtAre(nx, pv, s, n, at)
<1>1. s \in Seq(Nat) /\ n \in Nat
  BY DEF Chain
<1>2. DOMAIN s = 1 .. n /\ \A i \in 1 .. n : s[i] \in Nat
  BY <1>1
<1>3. at[0] = HEAD
  BY <1>1 DEF At
<1>4. at[n + 1] = TAIL
  BY <1>1 DEF At
<1>5. \A i \in 1 .. n : at[i] = s[i]
  BY <1>1 DEF At
<1>6. \A i \in 0 .. n + 1 : i = 0 \/ i = n + 1 \/ i \in 1 .. n
  BY <1>1
<1>7. HEAD \in Int /\ TAIL \in Int /\ HEAD \notin Nat /\ TAIL \notin Nat /\ HEAD # TAIL
  BY DEF HEAD, TAIL
<1>8. \A i, j \in 1 .. n : s[i] = s[j] => i = j
  BY DEF Chain
<1>9. Line(at, n)
  <2>1. \A i \in 0 .. n + 1 : at[i] \in Int
    BY <1>2, <1>3, <1>4, <1>5, <1>6, <1>7
  <2>2. ASSUME NEW i \in 0 .. n + 1, NEW j \in 0 .. n + 1, at[i] = at[j] PROVE i = j
    <3>1. CASE i \in 1 .. n /\ j \in 1 .. n
      BY <1>5, <1>8, <2>2, <3>1
    <3>2. CASE ~(i \in 1 .. n /\ j \in 1 .. n)
      BY <1>2, <1>3, <1>4, <1>5, <1>6, <1>7, <2>2, <3>2, SMTT(30)
    <3> QED BY <3>1, <3>2
  <2>3. at \in [0 .. n + 1 -> Int]
    BY <2>1
  <2> QED BY <2>2, <2>3 DEF Line
<1>10. Plain(nx, pv, at, n)
  <2>1. \A i \in 0 .. n + 1 : at[i] = At(s, i)
    OBVIOUS
  <2>2. (\A i \in 0 .. n : i \in 0 .. n + 1 /\ i + 1 \in 0 .. n + 1) /\ (\A i \in 1 .. n + 1 : i \in 0 .. n + 1)
    BY <1>1
  <2>3. /\ DOMAIN nx = {At(s, i) : i \in 0 .. n} /\ DOMAIN pv = {At(s, i) : i \in 1 .. n + 1}
        /\ \A i \in 0 .. n : nx[At(s, i)] = At(s, i + 1) /\ pv[At(s, i + 1)] = At(s, i)
    BY DEF Chain
  <2>4. DOMAIN nx = {at[i] : i \in 0 .. n}
    BY <2>1, <2>2, <2>3
  <2>5. DOMAIN pv = {at[i] : i \in 1 .. n + 1}
    BY <2>1, <2>2, <2>3
  <2> QED BY <2>1, <2>2, <2>3, <2>4, <2>5 DEF Plain
<1> QED BY <1>1, <1>2, <1>3, <1>4, <1>5, <1>9, <1>10 DEF AtAre

\* What of s is behind the entry i.
Behind(s, i) == [j \in 1 .. Len(s) - i |-> s[i + j]]

LEMMA BehindIs ==
  ASSUME NEW s \in Seq(Nat), NEW n, n = Len(s)
  PROVE  /\ Behind(s, 0) = s /\ Behind(s, n) = <<>>
         /\ \A i \in 0 .. n - 1 : Behind(s, i) = <<s[i + 1]>> \o Behind(s, i + 1)
<1>1. n \in Nat /\ DOMAIN s = 1 .. n /\ s = [j \in 1 .. n |-> s[j]]
  OBVIOUS
<1>2. Behind(s, 0) = s
  <2>1. Behind(s, 0) = [j \in 1 .. n |-> s[j]]
    BY <1>1 DEF Behind
  <2> QED BY <1>1, <2>1
<1>3. Behind(s, n) = <<>>
  <2>1. 1 .. Len(s) - n = {}
    BY <1>1
  <2>2. Behind(s, n) \in Seq(Nat) /\ Len(Behind(s, n)) = 0
    BY <1>1 DEF Behind
  <2> QED BY <2>2
<1>4. ASSUME NEW i \in 0 .. n - 1
      PROVE  Behind(s, i) = <<s[i + 1]>> \o Behind(s, i + 1)
  <2> DEFINE u == Behind(s, i)
             t == Behind(s, i + 1)
             v == <<s[i + 1]>> \o t
  <2>1. n - i \in Nat /\ n - (i + 1) \in Nat /\ n - i = (n - (i + 1)) + 1 /\ i + 1 \in 1 .. n /\ i \in Nat
    BY <1>1
  <2>2. \A j \in 1 .. n - (i + 1) : (i + 1) + j \in 1 .. n
    BY <1>1
  <2>3. \A j \in 1 .. n - i : i + j \in 1 .. n
    BY <1>1
  <2>4. t \in Seq(Nat) /\ Len(t) = n - (i + 1) /\ \A j \in 1 .. n - (i + 1) : t[j] = s[(i + 1) + j]
    BY <2>1, <2>2 DEF Behind
  <2>5. u \in Seq(Nat) /\ Len(u) = n - i /\ \A j \in 1 .. n - i : u[j] = s[i + j]
    BY <2>1, <2>3 DEF Behind
  <2>6. <<s[i + 1]>> \in Seq(Nat) /\ Len(<<s[i + 1]>>) = 1
    BY <2>1
  <2> HIDE DEF t, u
  <2>7. v \in Seq(Nat) /\ Len(v) = n - i
    BY <2>1, <2>4, <2>6
  <2>8. \A j \in 1 .. n - i : v[j] = s[i + j]
    <3> TAKE j \in 1 .. n - i
    <3>1. CASE j = 1
      BY <2>4, <2>6, <3>1
    <3>2. CASE j # 1
      <4>1. j - 1 \in 1 .. n - (i + 1) /\ (i + 1) + (j - 1) = i + j
        <5>1. n \in Nat /\ i \in Nat /\ j \in Nat /\ 1 <= j /\ j <= n - i
          BY <1>1, <2>1
        <5> QED BY <3>2, <5>1
      <4>2. v[j] = t[j - 1]
        BY <2>1, <2>4, <2>6, <3>2, <4>1
      <4> QED BY <2>4, <4>1, <4>2
    <3> QED BY <3>1, <3>2
  <2> HIDE DEF v
  <2>9. u = [j \in 1 .. n - i |-> u[j]]
    BY <2>1, <2>5
  <2>10. v = [j \in 1 .. n - i |-> v[j]]
    BY <2>1, <2>7
  <2>11. u = v
    BY <2>5, <2>8, <2>9, <2>10
  <2> QED BY <2>11 DEF u, v, t
<1> QED BY <1>2, <1>3, <1>4

ChainOf(nx) ==
  LET From[id \in DOMAIN nx] == IF nx[id] = TAIL THEN <<>> ELSE <<nx[id]>> \o From[nx[id]]
  IN  From[HEAD]

LEMMA ChainIs ==
  ASSUME NEW nx, NEW pv, NEW s, Chain(nx, pv, s)
  PROVE  ChainOf(nx) = s
<1> DEFINE n == Len(s)
           at == [i \in 0 .. n + 1 |-> At(s, i)]
           Follows(f) == f = [id \in DOMAIN nx |-> IF nx[id] = TAIL THEN <<>> ELSE <<nx[id]>> \o f[nx[id]]]
           from == CHOOSE f : Follows(f)
<1>1. ChainOf(nx) = from[HEAD]
  BY DEF ChainOf
<1>2. /\ n \in Nat /\ s \in Seq(Nat) /\ Line(at, n) /\ Plain(nx, pv, at, n)
      /\ at[0] = HEAD /\ at[n + 1] = TAIL /\ \A i \in 1 .. n : at[i] = s[i] /\ s[i] \in Nat
  <2>1. AtAre(nx, pv, s, n, at)
    BY AtIs
  <2> QED BY <2>1 DEF AtAre
<1> HIDE DEF at
<1>3. \A i \in 0 .. n : at[i] \in DOMAIN nx /\ nx[at[i]] = at[i + 1]
  BY <1>2 DEF Plain
<1>4. \A id \in DOMAIN nx : \E i \in 0 .. n : id = at[i]
  BY <1>2 DEF Plain
<1>5. \A i \in 0 .. n - 1 : at[i + 1] = s[i + 1] /\ at[i + 1] # TAIL /\ i + 1 \in 0 .. n
  <2> TAKE i \in 0 .. n - 1
  <2>1. i + 1 \in 1 .. n /\ i + 1 \in 0 .. n /\ i + 1 \in 0 .. n + 1 /\ n + 1 \in 0 .. n + 1 /\ i + 1 # n + 1
    BY <1>2
  <2> QED BY <1>2, <2>1 DEF Line
<1>6. /\ Behind(s, 0) = s /\ Behind(s, n) = <<>>
      /\ \A i \in 0 .. n - 1 : Behind(s, i) = <<s[i + 1]>> \o Behind(s, i + 1)
  BY <1>2, BehindIs
<1>7. \A i \in 0 .. n : i = n \/ i \in 0 .. n - 1
  BY <1>2
<1> HIDE DEF n
<1>8. \E f : Follows(f)
  <2> DEFINE place(id) == CHOOSE i \in 0 .. n : at[i] = id
             f == [id \in DOMAIN nx |-> Behind(s, place(id))]
  <2>1. \A i \in 0 .. n : f[at[i]] = Behind(s, i)
    <3> TAKE i \in 0 .. n
    <3>1. i \in 0 .. n + 1 /\ \A j \in 0 .. n : j \in 0 .. n + 1
      BY <1>2
    <3>2. place(at[i]) = i
      BY <1>2, <3>1 DEF Line
    <3> QED BY <1>3, <3>2
  <2>2. ASSUME NEW id \in DOMAIN nx
        PROVE  f[id] = IF nx[id] = TAIL THEN <<>> ELSE <<nx[id]>> \o f[nx[id]]
    <3>1. PICK i \in 0 .. n : id = at[i]
      BY <1>4
    <3>2. f[id] = Behind(s, i) /\ nx[id] = at[i + 1]
      BY <1>3, <2>1, <3>1
    <3> HIDE DEF f
    <3>3. CASE i = n
      BY <1>2, <1>6, <3>2, <3>3
    <3>4. CASE i \in 0 .. n - 1
      <4>1. nx[id] = s[i + 1] /\ nx[id] # TAIL /\ f[nx[id]] = Behind(s, i + 1)
        BY <1>5, <2>1, <3>2, <3>4
      <4>2. Behind(s, i) = <<s[i + 1]>> \o Behind(s, i + 1)
        BY <1>6, <3>4
      <4> QED BY <3>2, <4>1, <4>2
    <3> QED BY <1>7, <3>3, <3>4
  <2>3. Follows(f)
    <3>1. f = [id \in DOMAIN nx |-> f[id]]
      OBVIOUS
    <3> HIDE DEF f
    <3> QED BY <2>2, <3>1
  <2> HIDE DEF f, Follows
  <2> QED BY <2>3
<1>9. Follows(from)
  <2> HIDE DEF Follows
  <2> QED BY <1>8
<1> HIDE DEF from
<1>10. \A id \in DOMAIN nx : from[id] = IF nx[id] = TAIL THEN <<>> ELSE <<nx[id]>> \o from[nx[id]]
  BY <1>9
<1> HIDE DEF Follows
<1> DEFINE S == {m \in 0 .. n : from[at[n - m]] = Behind(s, n - m)}
<1>11. 0 \in S
  <2>1. n - 0 = n /\ n \in 0 .. n /\ 0 \in 0 .. n
    BY <1>2
  <2>2. from[at[n]] = <<>>
    BY <1>2, <1>3, <1>10, <2>1
  <2> QED BY <1>6, <2>1, <2>2
<1>12. ASSUME NEW m \in 0 .. n - 1, m \in S PROVE m + 1 \in S
  <2> DEFINE i == n - (m + 1)
  <2>1. i \in 0 .. n - 1 /\ i \in 0 .. n /\ i + 1 = n - m /\ m + 1 \in 0 .. n
    BY <1>2
  <2> HIDE DEF i
  <2>2. nx[at[i]] = s[i + 1] /\ nx[at[i]] # TAIL /\ at[i + 1] = s[i + 1] /\ at[i] \in DOMAIN nx
    BY <1>3, <1>5, <2>1
  <2>3. from[at[i]] = <<s[i + 1]>> \o from[at[i + 1]]
    BY <1>10, <2>2
  <2>4. from[at[i + 1]] = Behind(s, i + 1)
    BY <1>12, <2>1
  <2>5. Behind(s, i) = <<s[i + 1]>> \o Behind(s, i + 1)
    BY <1>6, <2>1
  <2>6. from[at[i]] = Behind(s, i)
    BY <2>3, <2>4, <2>5
  <2> QED BY <2>1, <2>6 DEF i
<1>13. n \in S
  <2> HIDE DEF S
  <2>1. n \in 0 .. n /\ n \in Nat
    BY <1>2
  <2> QED BY <1>11, <1>12, <2>1, UpToN
<1>14. n - n = 0
  BY <1>2
<1> QED BY <1>1, <1>2, <1>6, <1>13, <1>14

\* s with a behind its first r entries in the place of those up to k.
Put(s, a, r, k) ==
  [i \in 1 .. r + 1 + (Len(s) - k) |->
     IF i <= r THEN s[i] ELSE IF i = r + 1 THEN a ELSE s[i + (k - (r + 1))]]

LEMMA SequenceIs ==
  ASSUME NEW n \in Nat, NEW t \in [1 .. n -> Nat]
  PROVE  t \in Seq(Nat) /\ Len(t) = n /\ DOMAIN t = 1 .. n
OBVIOUS

\* The entries of t, which is s with a put into it.
PutAre(s, n, a, r, k, e, t, p) ==
  /\ n \in Nat /\ p \in Nat /\ e \in Int /\ n + 1 = p + 1 + e /\ r + 1 <= p /\ k + 1 = r + 2 + e
  /\ t \in Seq(Nat) /\ Len(t) = p /\ DOMAIN t = 1 .. p
  /\ \A i \in 1 .. r : t[i] = s[i] /\ i \in 1 .. n
  /\ t[r + 1] = a
  /\ \A i \in r + 2 .. p : t[i] = s[i + e] /\ i + e \in k + 1 .. n

LEMMA PutIs ==
  ASSUME NEW s \in Seq(Nat), NEW n, n = Len(s), NEW a \in Nat, NEW r \in 0 .. n, NEW k \in 0 .. n, r <= k,
         NEW e, e = k - (r + 1), NEW t, t = Put(s, a, r, k), NEW p, p = r + 1 + (n - k)
  PROVE  PutAre(s, n, a, r, k, e, t, p)
<1>1. n \in Nat /\ DOMAIN s = 1 .. n
  OBVIOUS
<1>2. p \in Nat /\ e \in Int /\ n + 1 = p + 1 + e /\ r + 1 <= p /\ k + 1 = r + 2 + e /\ r \in Int /\ k \in Int
  BY <1>1
<1>3. \A i \in r + 2 .. p : i + e \in k + 1 .. n /\ i + e \in 1 .. n
  BY <1>1, <1>2
<1>4. \A i \in 1 .. r : i \in 1 .. n
  BY <1>1
<1>5. \A i \in 1 .. n : s[i] \in Nat
  BY <1>1
<1>6. \A i \in 1 .. p : i \in 1 .. r \/ i = r + 1 \/ i \in r + 2 .. p
  BY <1>2
<1>7. t = [i \in 1 .. p |-> IF i <= r THEN s[i] ELSE IF i = r + 1 THEN a ELSE s[i + e]]
  BY DEF Put
<1>8. /\ \A i \in 1 .. r : i \in 1 .. p /\ i <= r
      /\ r + 1 \in 1 .. p /\ ~(r + 1 <= r)
      /\ \A i \in r + 2 .. p : i \in 1 .. p /\ ~(i <= r) /\ i # r + 1
  BY <1>2
<1>9. /\ \A i \in 1 .. r : t[i] = s[i]
      /\ t[r + 1] = a
      /\ \A i \in r + 2 .. p : t[i] = s[i + e]
  BY <1>7, <1>8
<1>10. \A i \in 1 .. p : t[i] \in Nat
  BY <1>3, <1>4, <1>5, <1>6, <1>9
<1>11. t \in [1 .. p -> Nat]
  BY <1>7, <1>10
<1>12. t \in Seq(Nat) /\ Len(t) = p /\ DOMAIN t = 1 .. p
  BY <1>2, <1>11, SequenceIs
<1> QED BY <1>1, <1>2, <1>3, <1>4, <1>9, <1>12 DEF PutAre

LEMMA PlacedChain ==
  ASSUME NEW nx0, NEW pv0, NEW s, Chain(nx0, pv0, s), NEW n, n = Len(s),
         NEW at, at = [i \in 0 .. n + 1 |-> At(s, i)], NEW a \in Nat, Off(at, n, a),
         NEW r \in 0 .. n, NEW k \in 0 .. n, r <= k, NEW nx, NEW pv, Placed(nx, pv, at, n, a, r, k)
  PROVE  Chain(nx, pv, Put(s, a, r, k))
<1> DEFINE t == Put(s, a, r, k)
           p == r + 1 + (n - k)
           e == k - (r + 1)
<1>1. /\ s \in Seq(Nat) /\ Line(at, n) /\ at[0] = HEAD /\ at[n + 1] = TAIL
      /\ \A i \in 1 .. n : at[i] = s[i]
  <2>1. AtAre(nx0, pv0, s, n, at)
    BY AtIs
  <2> QED BY <2>1 DEF AtAre
<1>2. /\ n \in Nat /\ p \in Nat /\ e \in Int /\ n + 1 = p + 1 + e /\ r + 1 <= p /\ k + 1 = r + 2 + e
      /\ t \in Seq(Nat) /\ Len(t) = p
      /\ \A i \in 1 .. r : t[i] = s[i] /\ i \in 1 .. n
      /\ t[r + 1] = a
      /\ \A i \in r + 2 .. p : t[i] = s[i + e] /\ i + e \in k + 1 .. n
  <2>1. PutAre(s, n, a, r, k, e, t, p)
    BY <1>1, PutIs
  <2> QED BY <2>1 DEF PutAre
<1> HIDE DEF t, p, e
<1>3. r \in Int /\ k \in Int /\ n \in Int /\ p \in Int /\ r >= 0
  BY <1>2
<1>4. \A i \in 0 .. r : At(t, i) = at[i] /\ i \in 0 .. n + 1
  <2> TAKE i \in 0 .. r
  <2>1. i # p + 1 /\ i \in 0 .. n + 1 /\ (i = 0 \/ i \in 1 .. r)
    BY <1>2, <1>3
  <2>2. CASE i = 0
    BY <1>1, <2>1, <2>2 DEF At
  <2>3. CASE i \in 1 .. r /\ i # 0
    BY <1>1, <1>2, <2>1, <2>3 DEF At
  <2> QED BY <2>1, <2>2, <2>3
<1>5. At(t, r + 1) = a
  <2>1. r + 1 # 0 /\ r + 1 # p + 1
    BY <1>2, <1>3
  <2> QED BY <1>2, <2>1 DEF At
<1>6. \A i \in r + 2 .. p + 1 : At(t, i) = at[i + e] /\ i + e \in k + 1 .. n + 1 /\ i + e \in 0 .. n + 1
  <2> TAKE i \in r + 2 .. p + 1
  <2>1. i # 0 /\ i + e \in k + 1 .. n + 1 /\ i + e \in 0 .. n + 1 /\ (i = p + 1 \/ i \in r + 2 .. p)
    BY <1>2, <1>3
  <2>2. CASE i = p + 1
    BY <1>1, <1>2, <2>1, <2>2 DEF At
  <2>3. CASE i \in r + 2 .. p /\ i # p + 1
    <3>1. i + e \in 1 .. n
      BY <1>2, <1>3, <2>3
    <3> QED BY <1>1, <1>2, <2>1, <2>3, <3>1 DEF At
  <2> QED BY <2>1, <2>2, <2>3
<1>7. \A i \in 0 .. p + 1 : i \in 0 .. r \/ i = r + 1 \/ i \in r + 2 .. p + 1
  BY <1>2, <1>3
<1>8. \A i, j \in 0 .. p + 1 : At(t, i) = At(t, j) => i = j
  <2> SUFFICES ASSUME NEW i \in 0 .. p + 1, NEW j \in 0 .. p + 1, At(t, i) = At(t, j), i < j PROVE FALSE
    BY <1>3
  <2>1. \A l \in 0 .. n + 1 : at[l] # a
    BY DEF Off
  <2>2. \A l, m \in 0 .. n + 1 : at[l] = at[m] => l = m
    BY <1>1 DEF Line
  <2>3. CASE i \in 0 .. r /\ j \in 0 .. r
    <3>1. at[i] = at[j] /\ i \in 0 .. n + 1 /\ j \in 0 .. n + 1
      BY <1>4, <2>3
    <3> QED BY <2>2, <3>1
  <2>4. CASE i \in r + 2 .. p + 1 /\ j \in r + 2 .. p + 1
    <3>1. at[i + e] = at[j + e] /\ i + e \in 0 .. n + 1 /\ j + e \in 0 .. n + 1
      BY <1>6, <2>4
    <3>2. i + e = j + e
      BY <2>2, <3>1
    <3> QED BY <1>2, <3>2
  <2>5. CASE i \in 0 .. r /\ j \in r + 2 .. p + 1
    <3>1. at[i] = at[j + e] /\ i \in 0 .. n + 1 /\ j + e \in 0 .. n + 1 /\ j + e \in k + 1 .. n + 1
      BY <1>4, <1>6, <2>5
    <3>2. i = j + e
      BY <2>2, <3>1
    <3> QED BY <1>3, <2>5, <3>1, <3>2
  <2>6. CASE i = r + 1 \/ j = r + 1
    BY <1>4, <1>5, <1>6, <1>7, <2>1, <2>6
  <2>7. ~(j \in 0 .. r /\ i \in r + 2 .. p + 1)
    BY <1>3
  <2> QED BY <1>7, <2>3, <2>4, <2>5, <2>6, <2>7
<1>9. \A i, j \in 1 .. Len(t) : t[i] = t[j] => i = j
  <2>1. \A i \in 1 .. p : i \in 0 .. p + 1 /\ At(t, i) = t[i]
    BY <1>2 DEF At
  <2> QED BY <1>2, <1>8, <2>1
<1>10. DOMAIN nx = {At(t, i) : i \in 0 .. p}
  <2>1. DOMAIN nx = {a} \cup {at[i] : i \in 0 .. r} \cup {at[i] : i \in k + 1 .. n}
    BY DEF Placed
  <2>2. \A i \in 0 .. p : i \in 0 .. r \/ i = r + 1 \/ (i \in r + 2 .. p + 1 /\ i \in r + 2 .. p)
    BY <1>2, <1>3
  <2>3. (\A i \in 0 .. r : i \in 0 .. p) /\ r + 1 \in 0 .. p
    BY <1>2, <1>3
  <2>4. \A i \in k + 1 .. n : i - e \in r + 2 .. p + 1 /\ i - e \in 0 .. p /\ (i - e) + e = i
    BY <1>2, <1>3
  <2>5. ASSUME NEW id \in DOMAIN nx PROVE id \in {At(t, i) : i \in 0 .. p}
    <3>1. CASE id = a
      BY <1>5, <2>3, <3>1
    <3>2. CASE \E i \in 0 .. r : id = at[i]
      BY <1>4, <2>3, <3>2
    <3>3. CASE \E i \in k + 1 .. n : id = at[i]
      <4>1. PICK i \in k + 1 .. n : id = at[i]
        BY <3>3
      <4>2. At(t, i - e) = at[i] /\ i - e \in 0 .. p
        BY <1>6, <2>4
      <4> QED BY <4>1, <4>2
    <3> QED BY <2>1, <3>1, <3>2, <3>3
  <2>6. ASSUME NEW i \in 0 .. p PROVE At(t, i) \in DOMAIN nx
    <3>1. CASE i \in r + 2 .. p
      BY <1>2, <1>6, <2>1, <2>2, <3>1
    <3>2. CASE i \in 0 .. r
      BY <1>4, <2>1, <3>2
    <3>3. CASE i = r + 1
      BY <1>5, <2>1, <3>3
    <3> QED BY <2>2, <3>1, <3>2, <3>3
  <2> QED BY <2>5, <2>6
<1>11. DOMAIN pv = {At(t, i) : i \in 1 .. p + 1}
  <2>1. DOMAIN pv = {a} \cup {at[i] : i \in 1 .. r} \cup {at[i] : i \in k + 1 .. n + 1}
    BY DEF Placed
  <2>2. \A i \in 1 .. p + 1 : (i \in 1 .. r /\ i \in 0 .. r) \/ i = r + 1 \/ i \in r + 2 .. p + 1
    BY <1>2, <1>3
  <2>3. (\A i \in 1 .. r : i \in 1 .. p + 1 /\ i \in 0 .. r) /\ r + 1 \in 1 .. p + 1
    BY <1>2, <1>3
  <2>4. \A i \in k + 1 .. n + 1 : i - e \in r + 2 .. p + 1 /\ i - e \in 1 .. p + 1 /\ (i - e) + e = i
    BY <1>2, <1>3
  <2>5. ASSUME NEW id \in DOMAIN pv PROVE id \in {At(t, i) : i \in 1 .. p + 1}
    <3>1. CASE id = a
      BY <1>5, <2>3, <3>1
    <3>2. CASE \E i \in 1 .. r : id = at[i]
      BY <1>4, <2>3, <3>2
    <3>3. CASE \E i \in k + 1 .. n + 1 : id = at[i]
      <4>1. PICK i \in k + 1 .. n + 1 : id = at[i]
        BY <3>3
      <4>2. At(t, i - e) = at[i] /\ i - e \in 1 .. p + 1
        BY <1>6, <2>4
      <4> QED BY <4>1, <4>2
    <3> QED BY <2>1, <3>1, <3>2, <3>3
  <2>6. ASSUME NEW i \in 1 .. p + 1 PROVE At(t, i) \in DOMAIN pv
    <3>1. CASE i \in r + 2 .. p + 1
      BY <1>6, <2>1, <3>1
    <3>2. CASE i \in 1 .. r
      BY <1>4, <2>1, <2>3, <3>2
    <3>3. CASE i = r + 1
      BY <1>5, <2>1, <3>3
    <3> QED BY <2>2, <3>1, <3>2, <3>3
  <2> QED BY <2>5, <2>6
<1>12. ASSUME NEW i \in 0 .. p
       PROVE  nx[At(t, i)] = At(t, i + 1) /\ pv[At(t, i + 1)] = At(t, i)
  <2>1. /\ nx[at[r]] = a /\ nx[a] = at[k + 1] /\ pv[a] = at[r] /\ pv[at[k + 1]] = a
        /\ \A j \in 0 .. r - 1 : nx[at[j]] = at[j + 1] /\ pv[at[j + 1]] = at[j]
        /\ \A j \in k + 1 .. n : nx[at[j]] = at[j + 1] /\ pv[at[j + 1]] = at[j]
    BY DEF Placed
  <2>2. i \in 0 .. r - 1 \/ i = r \/ i = r + 1 \/ i \in r + 2 .. p
    BY <1>2, <1>3
  <2>3. CASE i \in 0 .. r - 1
    <3>1. i \in 0 .. r /\ i + 1 \in 0 .. r
      BY <1>3, <2>3
    <3> QED BY <1>4, <2>1, <2>3, <3>1
  <2>4. CASE i = r
    <3>1. r \in 0 .. r
      BY <1>3
    <3> QED BY <1>4, <1>5, <2>1, <2>4, <3>1
  <2>5. CASE i = r + 1
    <3>1. i + 1 \in r + 2 .. p + 1 /\ (i + 1) + e = k + 1
      BY <1>2, <1>3, <2>5
    <3> QED BY <1>5, <1>6, <2>1, <2>5, <3>1, ZenonT(30)
  <2>6. CASE i \in r + 2 .. p
    <3>1. i \in r + 2 .. p + 1 /\ i + 1 \in r + 2 .. p + 1 /\ (i + 1) + e = (i + e) + 1 /\ i + e \in k + 1 .. n
      BY <1>2, <1>3, <2>6
    <3>2. At(t, i) = at[i + e] /\ At(t, i + 1) = at[(i + e) + 1]
      BY <1>6, <3>1
    <3> DEFINE l == i + e
    <3>3. nx[at[l]] = at[l + 1] /\ pv[at[l + 1]] = at[l]
      BY <2>1, <3>1
    <3> QED BY <3>2, <3>3
  <2> QED BY <2>2, <2>3, <2>4, <2>5, <2>6
<1>13. Chain(nx, pv, t)
  BY <1>2, <1>9, <1>10, <1>11, <1>12 DEF Chain
<1> QED BY <1>13 DEF t
-----------------------------------------------------------------------------
(***************************************************************************)
(* The neighbours of a colouring are all that differ in one vertex.        *)
(***************************************************************************)
LEMMA ProductIs ==
  ASSUME NEW u \in Nat \ {0}, NEW p \in Int, NEW q \in Int, p < q
  PROVE  p * u \in Int /\ q * u \in Int /\ p * u + u <= q * u
<1>1. q - p - 1 \in Nat /\ u \in Nat
  OBVIOUS
<1>2. (q - p - 1) * u >= 0
  <2>1. \A x, y \in Nat : x * y >= 0
    OBVIOUS
  <2> QED BY <1>1, <2>1
<1>3. (q - p - 1) * u = q * u - p * u - u
  OBVIOUS
<1>4. p * u \in Int /\ q * u \in Int
  OBVIOUS
<1> DEFINE a == p * u
           b == q * u
<1> HIDE DEF a, b
<1>5. a \in Int /\ b \in Int /\ b - a - u >= 0
  BY <1>2, <1>3, <1>4 DEF a, b
<1>6. a + u <= b
  BY <1>5
<1> QED BY <1>4, <1>6 DEF a, b

LEMMA QuotientIs ==
  ASSUME NEW u \in Nat \ {0}, NEW k \in Int
  PROVE  k \div u \in Int /\ k % u \in 0 .. u - 1 /\ (k \div u) * u + (k % u) = k
OBVIOUS

\* The quotient and the remainder are the only ones.
Splits(k, u, p, r) == k = p * u + r

LEMMA QuotientOf ==
  ASSUME NEW u \in Nat \ {0}, NEW p \in Int, NEW r \in 0 .. u - 1, NEW k \in Int, Splits(k, u, p, r)
  PROVE  k \div u = p /\ k % u = r
<1> DEFINE q == k \div u
           t == k % u
<1>1. q \in Int /\ t \in 0 .. u - 1 /\ q * u + t = k
  BY QuotientIs
<1> HIDE DEF q, t
<1>2. p * u \in Int /\ q * u \in Int /\ k = p * u + r
  BY <1>1 DEF Splits
<1>3. ASSUME p < q PROVE FALSE
  <2>1. p * u + u <= q * u
    BY <1>1, <1>3, ProductIs
  <2> DEFINE a == p * u
             b == q * u
  <2> HIDE DEF a, b
  <2>2. a \in Int /\ b \in Int /\ a + u <= b /\ a + r = b + t
    BY <1>1, <1>2, <2>1 DEF a, b
  <2> QED BY <1>1, <2>2
<1>4. ASSUME q < p PROVE FALSE
  <2>1. q * u + u <= p * u
    BY <1>1, <1>4, ProductIs
  <2> DEFINE a == p * u
             b == q * u
  <2> HIDE DEF a, b
  <2>2. a \in Int /\ b \in Int /\ b + u <= a /\ a + r = b + t
    BY <1>1, <1>2, <2>1 DEF a, b
  <2> QED BY <1>1, <2>2
<1>5. q = p
  BY <1>1, <1>3, <1>4
<1>6. t = r
  <2> DEFINE a == p * u
  <2> HIDE DEF a
  <2>1. a \in Int /\ a + t = a + r
    BY <1>1, <1>2, <1>5 DEF a
  <2> QED BY <1>1, <2>1
<1> QED BY <1>5, <1>6 DEF q, t

LEMMA NeighborsAre ==
  ASSUME NEW colors \in ColorMaps
  PROVE  /\ V * (M - 1) \in Nat /\ DOMAIN Neighbors(colors) = 1 .. V * (M - 1)
         /\ \A k \in 1 .. V * (M - 1) : Neighbors(colors)[k] \in ColorMaps
         /\ \A i \in 1 .. V : \A color \in 0 .. M - 1 : color # colors[i] =>
              \E k \in 1 .. V * (M - 1) : Neighbors(colors)[k] = [colors EXCEPT ![i] = color]
<1> DEFINE u == M - 1
           n == V * u
           i(k) == ((k - 1) \div u) + 1
           r(k) == (k - 1) % u
           new(k) == [colors EXCEPT ![i(k)] = IF r(k) < colors[i(k)] THEN r(k) ELSE r(k) + 1]
<1>1. M \in Nat \ {0} /\ u \in Nat /\ V \in Nat /\ n \in Nat
  BY MIs, ParetoAssumption
<1>2. colors \in [1 .. V -> 0 .. M - 1]
  BY DEF ColorMaps
<1>3. Neighbors(colors) = [k \in 1 .. n |-> new(k)]
  BY DEF Neighbors
<1>4. ASSUME NEW k \in 1 .. n PROVE u \in Nat \ {0} /\ i(k) \in 1 .. V /\ r(k) \in 0 .. u - 1
  <2>1. u # 0
    <3>1. V * 0 = 0
      BY <1>1
    <3> QED BY <1>1, <3>1
  <2>2. u \in Nat \ {0} /\ k - 1 \in Int
    BY <1>1, <2>1
  <2> DEFINE q == (k - 1) \div u
             t == (k - 1) % u
  <2> HIDE DEF u
  <2>3. q \in Int /\ t \in 0 .. u - 1 /\ q * u + t = k - 1
    BY <2>2, QuotientIs
  <2> HIDE DEF q, t
  <2>4. n \in Int /\ 0 <= k - 1 /\ k - 1 < n
    BY <1>1
  <2> DEFINE a == q * u
  <2>5. a \in Int
    BY <2>2, <2>3
  <2>6. ASSUME q < 0 PROVE FALSE
    <3>1. a + u <= 0 * u /\ 0 * u = 0
      BY <2>2, <2>3, <2>6, ProductIs
    <3> HIDE DEF a
    <3> QED BY <2>2, <2>3, <2>4, <2>5, <3>1 DEF a
  <2>7. ASSUME V <= q PROVE FALSE
    <3>1. n <= a
      <4>1. CASE V = q
        BY <1>1, <2>5, <4>1
      <4>2. CASE V < q
        <5>1. n + u <= a
          BY <1>1, <2>2, <2>3, <4>2, ProductIs
        <5> HIDE DEF a, n
        <5> QED BY <2>2, <2>4, <2>5, <5>1
      <4> QED BY <1>1, <2>3, <2>7, <4>1, <4>2
    <3> HIDE DEF a, n
    <3> QED BY <2>2, <2>3, <2>4, <2>5, <3>1 DEF a
  <2>8. q + 1 \in 1 .. V
    BY <1>1, <2>3, <2>6, <2>7
  <2> QED BY <2>2, <2>3, <2>8 DEF q, t
<1>5. ASSUME NEW k \in 1 .. n PROVE Neighbors(colors)[k] \in ColorMaps
  <2>1. Neighbors(colors)[k] = new(k)
    BY <1>3
  <2>2. i(k) \in 1 .. V /\ r(k) \in 0 .. u - 1 /\ r(k) \in Int
    BY <1>4
  <2> DEFINE j == i(k)
             s == r(k)
  <2> HIDE DEF j, s
  <2>3. j \in 1 .. V /\ s \in 0 .. u - 1 /\ new(k) = [colors EXCEPT ![j] = IF s < colors[j] THEN s ELSE s + 1]
    BY <2>2 DEF j, s
  <2>4. s \in 0 .. M - 1 /\ s + 1 \in 0 .. M - 1
    BY <1>1, <2>3
  <2> QED BY <1>2, <2>1, <2>3, <2>4 DEF ColorMaps
<1>6. ASSUME NEW v \in 1 .. V, NEW color \in 0 .. M - 1, color # colors[v]
      PROVE  \E k \in 1 .. n : Neighbors(colors)[k] = [colors EXCEPT ![v] = color]
  <2> DEFINE s == IF color < colors[v] THEN color ELSE color - 1
             k == (v - 1) * u + s + 1
  <2>1. colors[v] \in 0 .. M - 1
    BY <1>2
  <2>2. s \in 0 .. u - 1 /\ u \in Nat \ {0} /\ (IF s < colors[v] THEN s ELSE s + 1) = color
    BY <1>1, <1>6, <2>1
  <2> HIDE DEF s
  <2>3. v - 1 \in Int /\ (v - 1) * u \in Int /\ V * u \in Int /\ V \in Int
    BY <1>1, <2>2
  <2>4. (v - 1) * u + u <= V * u /\ 0 <= (v - 1) * u
    <3>1. v - 1 < V /\ v - 1 \in Nat
      BY <1>1
    <3>2. \A x, y \in Nat : x * y >= 0
      OBVIOUS
    <3> QED BY <2>2, <2>3, <3>1, <3>2, ProductIs
  <2> DEFINE a == (v - 1) * u
  <2>5. k \in 1 .. n /\ k - 1 = a + s /\ k - 1 \in Int
    <3> HIDE DEF a, u
    <3>1. k = a + s + 1
      BY DEF a
    <3>2. a \in Int /\ n \in Int /\ a + u <= n /\ 0 <= a
      BY <2>3, <2>4 DEF a
    <3> HIDE DEF k, n
    <3> QED BY <2>2, <3>1, <3>2
  <2>6. (k - 1) \div u = v - 1 /\ (k - 1) % u = s
    <3> DEFINE l == k - 1
    <3>1. Splits(l, u, v - 1, s) /\ l \in Int
      BY <2>5 DEF Splits
    <3> HIDE DEF k, u, l
    <3>2. l \div u = v - 1 /\ l % u = s
      BY <2>2, <2>3, <3>1, QuotientOf
    <3> QED BY <3>2 DEF l
  <2> HIDE DEF k
  <2>7. i(k) = v /\ r(k) = s
    BY <2>6, <2>3
  <2>8. Neighbors(colors)[k] = [colors EXCEPT ![v] = IF s < colors[v] THEN s ELSE s + 1]
    BY <1>3, <2>5, <2>7
  <2> QED BY <2>2, <2>5, <2>8
<1>7. DOMAIN Neighbors(colors) = 1 .. n
  BY <1>3
<1> HIDE DEF i, r, new
<1> QED BY <1>1, <1>5, <1>6, <1>7
-----------------------------------------------------------------------------
(***************************************************************************)
(* The same with the state as parameters: of a curve s, with solutions so, *)
(* under the rule ru and the evaluation ev.                                *)
(***************************************************************************)
WholeIn(ru, left) == IF ru = "load" THEN left ELSE -((-left) \div Unit)

BeatsIn(ru, x, y) ==
  \/ WholeIn(ru, x.left) = WholeIn(ru, y.left) /\ x.bdwt < y.bdwt
  \/ WholeIn(ru, x.left) < WholeIn(ru, y.left) /\ (ru = "load" => x.bdwt <= y.bdwt)

AheadIn(ru, x, y) ==
  /\ x.left < y.left
  /\ ~BeatsIn(ru, x, y) /\ ~BeatsIn(ru, y, x)
  /\ ru = "load" => x.bdwt > y.bdwt

CostIn(ru, ev, colors) ==
  LET e == ev[[i \in 1 .. V |-> NodeOf(colors[i])]]
  IN  [left |-> IF ru = "load" THEN e.load ELSE -e.bottleneck, bdwt |-> e.bdwt]

PointIn(ru, ev, so, id) == CostIn(ru, ev, so[id].colors)

IsFront(ru, ev, so, s) ==
  \A i, j \in DOMAIN s : i < j => AheadIn(ru, PointIn(ru, ev, so, s[i]), PointIn(ru, ev, so, s[j]))

ReachedIn(ru, ev, so, s, colors) ==
  \E i \in DOMAIN s : \/ PointIn(ru, ev, so, s[i]) = CostIn(ru, ev, colors)
                      \/ BeatsIn(ru, PointIn(ru, ev, so, s[i]), CostIn(ru, ev, colors))

Recolored(so, id, v, color) == [so[id].colors EXCEPT ![v] = color]

\* What is made of id by giving v a colour is as good as a point of the curve, or it waits in td.
SeenIn(ru, ev, so, s, nb, td, id, v, color) ==
  \/ ReachedIn(ru, ev, so, s, Recolored(so, id, v, color))
  \/ \E a \in td : nb[a] = Recolored(so, id, v, color)

CoveredIn(ru, ev, so, s, nb, td) ==
  \A j \in DOMAIN s : so[s[j]].searched =>
    \A v \in 1 .. V : \A color \in 0 .. M - 1 : SeenIn(ru, ev, so, s, nb, td, s[j], v, color)

LEMMA Rigid ==
  /\ \A x, y : Beats(x, y) = BeatsIn(rule, x, y)
  /\ \A x, y : Ahead(x, y) = AheadIn(rule, x, y)
  /\ \A colors : CostOf(colors) = CostIn(rule, evaluation, colors)
  /\ \A id : Cost(id) = PointIn(rule, evaluation, sol, id)
<1>1. \A x, y : Beats(x, y) = BeatsIn(rule, x, y)
  BY Zenon DEF Beats, BeatsIn, Whole, WholeIn
<1>2. \A x, y : Ahead(x, y) = AheadIn(rule, x, y)
  BY <1>1, Zenon DEF Ahead, AheadIn
<1>3. \A colors : CostOf(colors) = CostIn(rule, evaluation, colors)
  BY Zenon DEF CostOf, CostIn
<1>4. \A id : Cost(id) = PointIn(rule, evaluation, sol, id)
  BY <1>3, Zenon DEF Cost, PointIn
<1> QED BY <1>1, <1>2, <1>3, <1>4

LEMMA SortedIs ==
  /\ Sorted <=> IsFront(rule, evaluation, sol, Curve)
  /\ Sorted' <=> IsFront(rule', evaluation', sol', Curve')
<1>1. Sorted <=> IsFront(rule, evaluation, sol, Curve)
  BY Rigid, Zenon DEF Sorted, IsFront
<1>2. Sorted' <=> IsFront(rule', evaluation', sol', Curve')
  BY Zenon DEF Sorted, IsFront, PointIn, Cost, CostOf, CostIn, Ahead, AheadIn, Beats, BeatsIn, Whole, WholeIn
<1> QED BY <1>1, <1>2

LEMMA CoveredIs ==
  /\ Covered <=> CoveredIn(rule, evaluation, sol, Curve, neighbors, todo)
  /\ Covered' <=> CoveredIn(rule', evaluation', sol', Curve', neighbors', todo')
<1>1. Covered <=> CoveredIn(rule, evaluation, sol, Curve, neighbors, todo)
  BY Zenon DEF Covered, CoveredIn, SeenIn, Recolored, Reached, ReachedIn, PointIn, Cost, CostOf, CostIn, Beats, BeatsIn, Whole, WholeIn
<1>2. Covered' <=> CoveredIn(rule', evaluation', sol', Curve', neighbors', todo')
  BY Zenon DEF Covered, CoveredIn, SeenIn, Recolored, Reached, ReachedIn, PointIn, Cost, CostOf, CostIn, Beats, BeatsIn, Whole, WholeIn
<1> QED BY <1>1, <1>2
-----------------------------------------------------------------------------
(***************************************************************************)
(* What a neighbour that is put on the curve does to it.  q and p are the  *)
(* costs of the points before and after.                                   *)
(***************************************************************************)
CostsOf(q, so, s) == q = [i \in DOMAIN s |-> PointIn(rule, evaluation, so, s[i])]
Colored(so, s, n) == \A i \in 1 .. n : so[s[i]].colors \in ColorMaps
PointsAre(q, so, s, n) ==
  q \in [1 .. n -> Costs] /\ \A i \in 1 .. n : q[i] = PointIn(rule, evaluation, so, s[i])
Reaches(q, n, y) == \E i \in 1 .. n : q[i] = y \/ Beats(q[i], y)

LEMMA CostsAre ==
  ASSUME Known, NEW s \in Seq(Nat), NEW n, n = Len(s), NEW so, Colored(so, s, n),
         NEW q, CostsOf(q, so, s)
  PROVE  PointsAre(q, so, s, n)
<1>1. DOMAIN s = 1 .. n
  OBVIOUS
<1>2. q = [i \in 1 .. n |-> PointIn(rule, evaluation, so, s[i])]
  BY <1>1, Zenon DEF CostsOf
<1>3. \A i \in 1 .. n : PointIn(rule, evaluation, so, s[i]) \in Costs
  BY CostIs, Rigid DEF PointIn, Colored
<1> QED BY <1>2, <1>3 DEF PointsAre

\* The points of t, in which a with the cost x was put for those from r + 1 to k.
Replaced(q, x, u, r, e, p) ==
  /\ \A i \in 1 .. r : u[i] = q[i]
  /\ u[r + 1] = x
  /\ \A i \in r + 2 .. p : u[i] = q[i + e]

Apart(a, s, n) == \A i \in 1 .. n : s[i] # a /\ s[i] \in DOMAIN sol

LEMMA ReplacedIs ==
  ASSUME NEW s, NEW n, NEW a \in Nat, NEW r, NEW k, NEW e, NEW t, NEW p,
         PutAre(s, n, a, r, k, e, t, p), r \in 0 .. n, k \in 0 .. n,
         Apart(a, s, n), NEW q, PointsAre(q, sol, s, n),
         NEW colors, NEW so, so = With(sol, a, [colors |-> colors, searched |-> FALSE]),
         NEW u, CostsOf(u, so, t), NEW x, x = CostIn(rule, evaluation, colors)
  PROVE  Replaced(q, x, u, r, e, p)
<1>1. so[a] = [colors |-> colors, searched |-> FALSE] /\ \A i \in 1 .. n : so[s[i]] = sol[s[i]]
  BY DEF With, Apart
<1>2. so[a].colors = colors
  BY <1>1
<1>3. \A i \in 1 .. n : PointIn(rule, evaluation, so, s[i]) = q[i]
  BY <1>1, Zenon DEF PointIn, PointsAre
<1>4. PointIn(rule, evaluation, so, a) = x
  BY <1>2, Zenon DEF PointIn
<1>5. /\ n \in Nat /\ p \in Nat /\ r + 1 <= p /\ DOMAIN t = 1 .. p
      /\ \A i \in 1 .. r : t[i] = s[i] /\ i \in 1 .. n
      /\ t[r + 1] = a
      /\ \A i \in r + 2 .. p : t[i] = s[i + e] /\ i + e \in k + 1 .. n
  BY DEF PutAre
<1>6. /\ \A i \in 1 .. r : i \in 1 .. p
      /\ r + 1 \in 1 .. p
      /\ \A i \in r + 2 .. p : i \in 1 .. p /\ i + e \in 1 .. n
  BY <1>5
<1>7. \A i \in 1 .. p : u[i] = PointIn(rule, evaluation, so, t[i])
  BY <1>5 DEF CostsOf
<1>8. \A i \in 1 .. r : u[i] = q[i]
  BY <1>3, <1>5, <1>6, <1>7
<1>9. u[r + 1] = x
  BY <1>4, <1>5, <1>6, <1>7
<1>10. \A i \in r + 2 .. p : u[i] = q[i + e]
  BY <1>3, <1>5, <1>6, <1>7
<1> QED BY <1>8, <1>9, <1>10 DEF Replaced

Spans(n, r, k, e, p) ==
  /\ n \in Nat /\ p \in Nat /\ e \in Int /\ r \in 0 .. n /\ k \in 0 .. n /\ r <= k
  /\ n + 1 = p + 1 + e /\ r + 1 <= p /\ k + 1 = r + 2 + e

LEMMA StaysSorted ==
  ASSUME Known, NEW n, NEW r, NEW k, NEW e, NEW p, Spans(n, r, k, e, p),
         NEW q \in [1 .. n -> Costs], NEW x \in Costs, Around(q, x, n, n, r, k),
         \A i, j \in 1 .. n : i < j => Ahead(q[i], q[j]),
         NEW u, Replaced(q, x, u, r, e, p)
  PROVE  \A i, j \in 1 .. p : i < j => Ahead(u[i], u[j])
<1>1. n \in Nat /\ p \in Nat /\ e \in Int /\ r \in Nat /\ k \in Nat /\ r <= k
      /\ n + 1 = p + 1 + e /\ r + 1 <= p /\ k + 1 = r + 2 + e
  BY DEF Spans
<1>2. /\ \A j \in 1 .. r : Ahead(q[j], x) /\ u[j] = q[j]
      /\ \A j \in k + 1 .. n : Ahead(x, q[j])
      /\ u[r + 1] = x /\ \A i \in r + 2 .. p : u[i] = q[i + e]
  BY DEF Around, Replaced
<1> SUFFICES ASSUME NEW i \in 1 .. p, NEW j \in 1 .. p, i < j PROVE Ahead(u[i], u[j])
  OBVIOUS
<1>3. CASE i \in 1 .. r /\ j \in 1 .. r
  <2>1. i \in 1 .. n /\ j \in 1 .. n
    BY <1>1, <1>3 DEF Spans
  <2> QED BY <1>2, <1>3, <2>1
<1>4. CASE i \in 1 .. r /\ j = r + 1
  BY <1>2, <1>4
<1>5. CASE i \in 1 .. r /\ j \in r + 2 .. p
  <2>1. i \in 1 .. n /\ j + e \in 1 .. n /\ i < j + e
    BY <1>1, <1>5 DEF Spans
  <2>2. Ahead(q[i], q[j + e])
    BY <2>1
  <2> QED BY <1>2, <1>5, <2>2
<1>6. CASE i = r + 1 /\ j \in r + 2 .. p
  <2>1. j + e \in k + 1 .. n
    BY <1>1, <1>6
  <2>2. Ahead(x, q[j + e])
    BY <1>2, <2>1
  <2> QED BY <1>2, <1>6, <2>2
<1>7. CASE i \in r + 2 .. p /\ j \in r + 2 .. p
  <2>1. i + e \in 1 .. n /\ j + e \in 1 .. n /\ i + e < j + e
    BY <1>1, <1>7
  <2>2. Ahead(q[i + e], q[j + e])
    BY <2>1
  <2> QED BY <1>2, <1>7, <2>2
<1>8. (i \in 1 .. r \/ i = r + 1 \/ i \in r + 2 .. p) /\ (j \in 1 .. r \/ j = r + 1 \/ j \in r + 2 .. p)
  BY <1>1
<1>9. ~(i = r + 1 /\ j \in 1 .. r) /\ ~(i = r + 1 /\ j = r + 1) /\ ~(i \in r + 2 .. p /\ j \in 1 .. r) /\ ~(i \in r + 2 .. p /\ j = r + 1)
  BY <1>1
<1> QED BY <1>3, <1>4, <1>5, <1>6, <1>7, <1>8, <1>9

\* What the points reached they still reach, and x.
LEMMA StaysReached ==
  ASSUME Known, NEW n, NEW r, NEW k, NEW e, NEW p, Spans(n, r, k, e, p),
         NEW q \in [1 .. n -> Costs], NEW x \in Costs, Around(q, x, n, n, r, k),
         NEW u, Replaced(q, x, u, r, e, p), NEW y \in Costs, y = x \/ Reaches(q, n, y)
  PROVE  Reaches(u, p, y)
<1>1. n \in Nat /\ p \in Nat /\ e \in Int /\ r \in Nat /\ k \in Nat /\ r <= k
      /\ n + 1 = p + 1 + e /\ r + 1 <= p /\ k + 1 = r + 2 + e
  BY DEF Spans
<1>2. /\ \A j \in 1 .. r : u[j] = q[j]
      /\ \A j \in r + 1 .. k : Beats(x, q[j])
      /\ u[r + 1] = x /\ \A i \in r + 2 .. p : u[i] = q[i + e]
  BY DEF Around, Replaced
<1>3. r + 1 \in 1 .. p
  BY <1>1
<1>4. CASE y = x
  BY <1>2, <1>3, <1>4 DEF Reaches
<1>5. CASE Reaches(q, n, y)
  <2>1. PICK i \in 1 .. n : q[i] = y \/ Beats(q[i], y)
    BY <1>5 DEF Reaches
  <2>2. i \in 1 .. r \/ i \in r + 1 .. k \/ i \in k + 1 .. n
    BY <1>1
  <2>3. CASE i \in 1 .. r
    <3>1. i \in 1 .. p
      BY <1>1, <2>3
    <3> QED BY <1>2, <2>1, <2>3, <3>1 DEF Reaches
  <2>4. CASE i \in r + 1 .. k
    <3>1. Beats(x, q[i]) /\ q[i] \in Costs
      BY <1>2, <2>4
    <3>2. Beats(x, y)
      BY <2>1, <3>1, AheadIs
    <3> QED BY <1>2, <1>3, <3>2 DEF Reaches
  <2>5. CASE i \in k + 1 .. n
    <3>1. i - e \in r + 2 .. p /\ i - e \in 1 .. p /\ (i - e) + e = i
      BY <1>1, <2>5
    <3>2. u[i - e] = q[i]
      BY <1>2, <3>1
    <3> QED BY <2>1, <3>1, <3>2 DEF Reaches
  <2> QED BY <2>2, <2>3, <2>4, <2>5
<1> QED BY <1>4, <1>5
-----------------------------------------------------------------------------
(***************************************************************************)
(* The steps.                                                              *)
(***************************************************************************)
LEMMA CurveIs == Curve = ChainOf(next) /\ Curve' = ChainOf(next')
<1>1. Curve = ChainOf(next)
  BY DEF Curve, ChainOf
<1>2. Curve' = ChainOf(next')
  BY DEF Curve, ChainOf
<1> QED BY <1>1, <1>2

LEMMA CurveStays ==
  ASSUME next' = next
  PROVE  Curve' = Curve
BY CurveIs

LEMMA OnCurve ==
  ASSUME Typed, Linked, Kept, NEW n, n = Len(Curve)
  PROVE  /\ Known /\ Curve \in Seq(Nat) /\ n \in Nat \ {0} /\ DOMAIN Curve = 1 .. n
         /\ ToSet(Curve) = {Curve[i] : i \in 1 .. n}
         /\ \A i \in 1 .. n : Curve[i] \in DOMAIN sol /\ sol[Curve[i]].colors \in ColorMaps
<1>1. Curve \in Seq(Nat) /\ Curve # <<>>
  BY DEF Linked, Chain
<1>2. n \in Nat \ {0} /\ DOMAIN Curve = 1 .. n
  BY <1>1
<1>3. ToSet(Curve) = {Curve[i] : i \in 1 .. n}
  BY <1>2, Zenon DEF ToSet
<1>4. \A i \in 1 .. n : Curve[i] \in DOMAIN sol
  BY <1>3 DEF Kept
<1>5. \A id \in DOMAIN sol : sol[id].colors \in ColorMaps
  <2>1. sol \in [DOMAIN sol -> [colors : ColorMaps, searched : BOOLEAN]]
    BY DEF Typed
  <2> QED BY <2>1
<1> QED BY <1>1, <1>2, <1>3, <1>4, <1>5 DEF Typed, Known

LEMMA WalkOfCurve ==
  ASSUME Typed, Linked, Sorted, Kept, NEW a \in todo, NEW n, n = Len(Curve),
         NEW at, at = [i \in 0 .. n + 1 |-> At(Curve, i)],
         NEW q, CostsOf(q, sol, Curve), NEW x, x = CostOf(neighbors[a])
  PROVE  /\ Walk(at, n, q, a, x) /\ a \in Nat /\ neighbors[a] \in ColorMaps
         /\ \A i \in 1 .. n : Curve[i] # a /\ at[i] = Curve[i]
<1>1. /\ Known /\ Curve \in Seq(Nat) /\ n \in Nat \ {0}
      /\ \A i \in 1 .. n : Curve[i] \in DOMAIN sol /\ sol[Curve[i]].colors \in ColorMaps
  BY OnCurve
<1>2. a \in Nat /\ a \notin DOMAIN sol /\ neighbors[a] \in ColorMaps
  <2>1. a \in DOMAIN neighbors /\ a \notin DOMAIN sol
    BY DEF Kept
  <2>2. DOMAIN neighbors \subseteq 0 .. ids - 1 /\ neighbors \in [DOMAIN neighbors -> ColorMaps]
    BY DEF Typed
  <2> QED BY <2>1, <2>2
<1>3. q \in [1 .. n -> Costs] /\ \A i \in 1 .. n : q[i] = PointIn(rule, evaluation, sol, Curve[i])
  <2>1. Colored(sol, Curve, n)
    BY <1>1 DEF Colored
  <2>2. PointsAre(q, sol, Curve, n)
    BY <1>1, <2>1, CostsAre
  <2> QED BY <2>2 DEF PointsAre
<1>4. Chain(next, prev, Curve)
  BY DEF Linked
<1>5. /\ Line(at, n) /\ Plain(next, prev, at, n) /\ at[0] = HEAD /\ at[n + 1] = TAIL
      /\ \A i \in 1 .. n : at[i] = Curve[i]
  <2>1. AtAre(next, prev, Curve, n, at)
    BY <1>4, AtIs
  <2> QED BY <2>1 DEF AtAre
<1>6. \A i \in 1 .. n : Curve[i] # a
  BY <1>1, <1>2
<1>7. Off(at, n, a)
  <2>1. \A i \in 0 .. n + 1 : i = 0 \/ i = n + 1 \/ i \in 1 .. n
    BY <1>1
  <2>2. HEAD # a /\ TAIL # a
    BY <1>2 DEF HEAD, TAIL
  <2> QED BY <1>5, <1>6, <2>1, <2>2 DEF Off
<1>8. x \in Costs
  BY <1>1, <1>2, CostIs
<1>9. ASSUME NEW j \in 1 .. n
      PROVE  CostOf(IF at[j] \in DOMAIN sol THEN sol[at[j]].colors ELSE neighbors[at[j]]) = q[j]
  <2>1. at[j] = Curve[j] /\ Curve[j] \in DOMAIN sol
    BY <1>1, <1>5
  <2>2. CostOf(sol[Curve[j]].colors) = q[j]
    BY <1>3, Rigid DEF PointIn
  <2> QED BY <2>1, <2>2
<1>10. \A i, j \in 1 .. n : i < j => Ahead(q[i], q[j])
  <2>1. DOMAIN Curve = 1 .. n
    BY <1>1
  <2>2. IsFront(rule, evaluation, sol, Curve)
    BY SortedIs
  <2>3. \A i, j \in 1 .. n : i < j => AheadIn(rule, q[i], q[j])
    BY <1>3, <2>1, <2>2 DEF IsFront
  <2> QED BY <2>3, Rigid
<1> QED BY <1>2, <1>3, <1>5, <1>6, <1>7, <1>8, <1>9, <1>10 DEF Walk

CompareWith(a, c) ==
  /\ phase = "compare" /\ a \in todo
  /\ next' = c.next /\ prev' = c.prev /\ dropped' = c.dropped
  /\ sol' = IF a \in DOMAIN c.prev
            THEN With(sol, a, [colors |-> neighbors[a], searched |-> FALSE]) ELSE sol
  /\ todo' = todo \ {a}
  /\ UNCHANGED <<rule, evaluation, unsearched, ids, neighbors, phase>>

LEMMA CompareIs ==
  ASSUME Compare
  PROVE  \E a \in todo : CompareWith(a, Walks(Curve, a))
<1>1. PICK a \in todo : CompareWith(a, Walks(Curve, a))
  BY Zenon DEF Compare, CompareWith, Walks
<1> QED BY <1>1

\* A neighbour that is refused leaves the curve as it is, which has a point as good.
LEMMA CompareRefuses ==
  ASSUME Inv, NEW a \in todo, NEW c, CompareWith(a, c), NEW n, n = Len(Curve),
         NEW q, CostsOf(q, sol, Curve), NEW x, x = CostOf(neighbors[a]), Refused(c, n, a, q, x)
  PROVE  Inv'
<1>1. /\ Typed /\ Linked /\ Sorted /\ Kept /\ Pooled /\ Covered
  BY DEF Inv
<1>2. /\ Known /\ Curve \in Seq(Nat) /\ n \in Nat \ {0} /\ DOMAIN Curve = 1 .. n
      /\ ToSet(Curve) = {Curve[i] : i \in 1 .. n}
      /\ \A i \in 1 .. n : Curve[i] \in DOMAIN sol /\ sol[Curve[i]].colors \in ColorMaps
  BY <1>1, OnCurve
<1>3. c.next = next /\ c.prev = prev /\ c.dropped = dropped \cup {a}
  BY DEF Refused, Links
<1> DEFINE at == [i \in 0 .. n + 1 |-> At(Curve, i)]
<1>4. /\ Walk(at, n, q, a, x) /\ a \in Nat /\ neighbors[a] \in ColorMaps
      /\ \A i \in 1 .. n : Curve[i] # a /\ at[i] = Curve[i]
  BY <1>1, WalkOfCurve
<1> HIDE DEF at
<1>5. a \notin DOMAIN prev
  <2>1. Plain(next, prev, at, n) /\ Off(at, n, a)
    BY <1>4 DEF Walk
  <2>2. \A i \in 1 .. n + 1 : i \in 0 .. n + 1
    BY <1>2
  <2> QED BY <2>1, <2>2 DEF Plain, Off
<1>6. /\ next' = next /\ prev' = prev /\ dropped' = dropped \cup {a} /\ sol' = sol /\ todo' = todo \ {a}
      /\ rule' = rule /\ evaluation' = evaluation /\ unsearched' = unsearched /\ ids' = ids
      /\ neighbors' = neighbors /\ phase' = phase /\ phase = "compare"
  BY <1>3, <1>5 DEF CompareWith
<1>7. Curve' = Curve
  BY <1>6, CurveStays
<1>8. Typed'
  BY <1>1, <1>6 DEF Typed, ColorMaps
<1>9. Linked'
  BY <1>1, <1>6, <1>7 DEF Linked, Chain
<1>10. Sorted'
  BY <1>1, <1>6, <1>7, SortedIs
<1>11. Kept'
  <2>1. a \notin ToSet(Curve)
    BY <1>2, <1>4
  <2>2. ToSet(Curve)' = ToSet(Curve)
    BY <1>7
  <2> QED BY <1>1, <1>6, <2>1, <2>2 DEF Kept
<1>12. Pooled'
  BY <1>1, <1>6 DEF Pooled
<1>13. Covered'
  <2>1. CoveredIn(rule, evaluation, sol, Curve, neighbors, todo)
    BY <1>1, CoveredIs
  <2>2. ReachedIn(rule, evaluation, sol, Curve, neighbors[a])
    <3>1. PICK j \in 1 .. n : q[j] = x \/ Beats(q[j], x)
      BY DEF Refused
    <3>2. q[j] = PointIn(rule, evaluation, sol, Curve[j])
      <4>1. Colored(sol, Curve, n)
        BY <1>2 DEF Colored
      <4>2. PointsAre(q, sol, Curve, n)
        BY <1>2, <4>1, CostsAre
      <4> QED BY <4>2 DEF PointsAre
    <3>3. x = CostIn(rule, evaluation, neighbors[a]) /\ (Beats(q[j], x) <=> BeatsIn(rule, q[j], x))
      BY Rigid
    <3> QED BY <1>2, <3>1, <3>2, <3>3 DEF ReachedIn
  <2>3. ASSUME NEW j \in DOMAIN Curve, NEW v \in 1 .. V, NEW color \in 0 .. M - 1,
               SeenIn(rule, evaluation, sol, Curve, neighbors, todo, Curve[j], v, color)
        PROVE  SeenIn(rule, evaluation, sol, Curve, neighbors, todo \ {a}, Curve[j], v, color)
    <3> DEFINE y == Recolored(sol, Curve[j], v, color)
    <3> HIDE DEF y
    <3>1. ReachedIn(rule, evaluation, sol, Curve, y) \/ \E b \in todo : neighbors[b] = y
      BY <2>3 DEF SeenIn, y
    <3>2. ReachedIn(rule, evaluation, sol, Curve, y) \/ \E b \in todo \ {a} : neighbors[b] = y
      BY <2>2, <3>1
    <3> QED BY <3>2 DEF SeenIn, y
  <2>4. CoveredIn(rule, evaluation, sol, Curve, neighbors, todo \ {a})
    BY <2>1, <2>3 DEF CoveredIn
  <2>5. CoveredIn(rule', evaluation', sol', Curve', neighbors', todo')
    BY <1>6, <1>7, <2>4
  <2> QED BY <2>5, CoveredIs
<1> QED BY <1>8, <1>9, <1>10, <1>11, <1>12, <1>13 DEF Inv

\* One that is put on the curve takes the place of what it beats.
LEMMA ComparePlaces ==
  ASSUME Inv, NEW a \in todo, NEW c, CompareWith(a, c), NEW n, n = Len(Curve),
         NEW at, at = [i \in 0 .. n + 1 |-> At(Curve, i)],
         NEW q, CostsOf(q, sol, Curve), NEW x, x = CostOf(neighbors[a]),
         NEW r \in 0 .. n, NEW k \in 0 .. n, Around(q, x, n, n, r, k), Stands(c, at, n, a, r, k)
  PROVE  Inv'
<1>1. /\ Typed /\ Linked /\ Sorted /\ Kept /\ Pooled /\ Covered
  BY DEF Inv
<1>2. /\ Known /\ Curve \in Seq(Nat) /\ n \in Nat \ {0} /\ DOMAIN Curve = 1 .. n
      /\ ToSet(Curve) = {Curve[i] : i \in 1 .. n}
      /\ \A i \in 1 .. n : Curve[i] \in DOMAIN sol /\ sol[Curve[i]].colors \in ColorMaps
  BY <1>1, OnCurve
<1>3. /\ Walk(at, n, q, a, x) /\ a \in Nat /\ neighbors[a] \in ColorMaps
      /\ \A i \in 1 .. n : Curve[i] # a /\ at[i] = Curve[i]
  BY <1>1, WalkOfCurve
<1> DEFINE gone == {at[j] : j \in r + 1 .. k}
           t == Put(Curve, a, r, k)
           e == k - (r + 1)
           p == r + 1 + (n - k)
           so == With(sol, a, [colors |-> neighbors[a], searched |-> FALSE])
           u == [i \in DOMAIN t |-> PointIn(rule, evaluation, so, t[i])]
<1>4. Placed(c.next, c.prev, at, n, a, r, k) /\ c.dropped = dropped \cup gone /\ a \in DOMAIN c.prev
  BY DEF Stands, Placed, Links
<1>5. /\ next' = c.next /\ prev' = c.prev /\ dropped' = dropped \cup gone /\ sol' = so /\ todo' = todo \ {a}
      /\ rule' = rule /\ evaluation' = evaluation /\ unsearched' = unsearched /\ ids' = ids
      /\ neighbors' = neighbors /\ phase' = phase /\ phase = "compare"
  BY <1>4, Zenon DEF CompareWith
<1>6. r <= k /\ k <= n
  BY DEF Around
<1>7. Chain(c.next, c.prev, t)
  <2>1. Off(at, n, a)
    BY <1>3 DEF Walk
  <2>2. Chain(next, prev, Curve)
    BY <1>1 DEF Linked
  <2> QED BY <1>3, <1>4, <1>6, <2>1, <2>2, PlacedChain
<1>8. Curve' = t
  <2> HIDE DEF t
  <2>1. ChainOf(c.next) = t
    BY <1>7, ChainIs
  <2> QED BY <1>5, <2>1, CurveIs
<1>9. PutAre(Curve, n, a, r, k, e, t, p)
  BY <1>2, <1>3, <1>6, PutIs
<1> HIDE DEF t, e, p
<1>10. /\ p \in Nat /\ e \in Int /\ n + 1 = p + 1 + e /\ r + 1 <= p /\ k + 1 = r + 2 + e
       /\ t \in Seq(Nat) /\ Len(t) = p /\ DOMAIN t = 1 .. p
       /\ \A i \in 1 .. r : t[i] = Curve[i] /\ i \in 1 .. n
       /\ t[r + 1] = a
       /\ \A i \in r + 2 .. p : t[i] = Curve[i + e] /\ i + e \in k + 1 .. n
  BY <1>9 DEF PutAre
<1>11. Spans(n, r, k, e, p)
  BY <1>2, <1>6, <1>10 DEF Spans
<1>12. /\ PointsAre(q, sol, Curve, n)
       /\ q \in [1 .. n -> Costs] /\ \A i \in 1 .. n : q[i] = PointIn(rule, evaluation, sol, Curve[i])
  <2>1. Colored(sol, Curve, n)
    BY <1>2 DEF Colored
  <2>2. PointsAre(q, sol, Curve, n)
    BY <1>2, <2>1, CostsAre
  <2> QED BY <2>2 DEF PointsAre
<1>13. x \in Costs /\ x = CostIn(rule, evaluation, neighbors[a])
  BY <1>2, <1>3, CostIs, Rigid
<1>14. CostsOf(u, so, t)
  BY DEF CostsOf
<1> HIDE DEF u
<1>15. Replaced(q, x, u, r, e, p)
  <2>1. Apart(a, Curve, n)
    BY <1>2, <1>3 DEF Apart
  <2>2. PointsAre(q, sol, Curve, n) /\ a \in Nat /\ x = CostIn(rule, evaluation, neighbors[a])
    BY <1>3, <1>12, <1>13
  <2> QED BY <1>9, <1>14, <2>1, <2>2, ReplacedIs
<1>16. DOMAIN so = DOMAIN sol \cup {a} /\ so[a] = [colors |-> neighbors[a], searched |-> FALSE]
       /\ \A id \in DOMAIN sol : id # a => so[id] = sol[id]
  BY DEF With
<1> HIDE DEF so
<1>17. a \notin DOMAIN sol /\ a \in DOMAIN neighbors /\ a \notin dropped
  BY <1>1 DEF Kept
<1>18. Typed'
  <2>1. a \in 0 .. ids - 1
    BY <1>1, <1>17 DEF Typed
  <2>2. sol \in [DOMAIN sol -> [colors : ColorMaps, searched : BOOLEAN]]
    BY <1>1 DEF Typed
  <2>3. so[a] \in [colors : ColorMaps, searched : BOOLEAN]
    BY <1>3, <1>16
  <2>4. \A id \in DOMAIN so : so[id] \in [colors : ColorMaps, searched : BOOLEAN]
    BY <1>16, <2>2, <2>3
  <2>5. so = [id \in DOMAIN so |-> so[id]]
    BY DEF so, With
  <2>6. so \in [DOMAIN so -> [colors : ColorMaps, searched : BOOLEAN]]
    BY <2>4, <2>5
  <2> QED BY <1>1, <1>5, <1>16, <2>1, <2>6 DEF Typed, ColorMaps
<1>19. Linked'
  <2>1. t # <<>>
    BY <1>2, <1>10
  <2> QED BY <1>5, <1>7, <1>8, <2>1 DEF Linked, Chain
<1>20. Sorted'
  <2>1. \A i, j \in 1 .. n : i < j => Ahead(q[i], q[j])
    BY <1>3 DEF Walk
  <2>2. \A i, j \in 1 .. p : i < j => Ahead(u[i], u[j])
    BY <1>2, <1>11, <1>12, <1>13, <1>15, <2>1, StaysSorted
  <2>3. \A i \in 1 .. p : u[i] = PointIn(rule, evaluation, so, t[i])
    BY <1>10 DEF u
  <2>4. \A i, j \in 1 .. p : i < j => AheadIn(rule, u[i], u[j])
    BY <2>2, Rigid
  <2>5. DOMAIN t = 1 .. p
    BY <1>10
  <2>6. IsFront(rule, evaluation, so, t)
    BY <2>3, <2>4, <2>5, Zenon DEF IsFront
  <2>7. IsFront(rule', evaluation', sol', Curve')
    BY <1>5, <1>8, <2>6
  <2> QED BY <2>7, SortedIs
<1>21. gone \subseteq ToSet(Curve) /\ ToSet(t) = (ToSet(Curve) \ gone) \cup {a}
  <2>1. \A j \in r + 1 .. k : j \in 1 .. n /\ at[j] = Curve[j]
    <3>1. n \in Nat /\ r \in 0 .. n /\ k \in 0 .. n
      BY <1>2
    <3>2. \A j \in r + 1 .. k : j \in 1 .. n
      BY <3>1
    <3> QED BY <1>3, <3>2
  <2>2. gone = {Curve[j] : j \in r + 1 .. k}
    BY <2>1
  <2> HIDE DEF gone
  <2>3. \A i, j \in 1 .. n : Curve[i] = Curve[j] => i = j
    BY <1>1 DEF Linked, Chain
  <2>4. ToSet(t) = {t[i] : i \in 1 .. p}
    BY <1>10, Zenon DEF ToSet
  <2>5. \A i \in 1 .. p : i \in 1 .. r \/ i = r + 1 \/ i \in r + 2 .. p
    BY <1>2, <1>10
  <2>6. \A i \in 1 .. n : i \in 1 .. r \/ i \in r + 1 .. k \/ i \in k + 1 .. n
    BY <1>2
  <2>7. (\A i \in 1 .. r : i \in 1 .. p /\ i \notin r + 1 .. k /\ i \in 1 .. n) /\ r + 1 \in 1 .. p
    BY <1>2, <1>10
  <2>8. \A i \in k + 1 .. n : i - e \in 1 .. p /\ i - e \in r + 2 .. p /\ (i - e) + e = i
    BY <1>2, <1>10
  <2>9. \A i \in r + 2 .. p : i + e \in 1 .. n /\ i + e \notin r + 1 .. k
    BY <1>2, <1>10
  <2>10. ASSUME NEW id \in ToSet(t) PROVE id \in (ToSet(Curve) \ gone) \cup {a}
    <3>1. PICK i \in 1 .. p : id = t[i]
      BY <2>4
    <3>2. CASE i \in 1 .. r
      BY <1>2, <1>10, <2>1, <2>2, <2>3, <2>7, <3>1, <3>2, SMTT(30)
    <3>3. CASE i \in r + 2 .. p
      <4>1. id = Curve[i + e] /\ i + e \in 1 .. n /\ i + e \notin r + 1 .. k
        BY <1>10, <2>9, <3>1, <3>3
      <4> DEFINE l == i + e
      <4> HIDE DEF l
      <4>2. id = Curve[l] /\ l \in 1 .. n /\ l \notin r + 1 .. k
        BY <4>1 DEF l
      <4> QED BY <1>2, <2>1, <2>2, <2>3, <4>2
    <3> QED BY <1>10, <2>5, <3>1, <3>2, <3>3
  <2>11. ASSUME NEW id \in ToSet(Curve), id \notin gone PROVE id \in ToSet(t)
    <3>1. PICK i \in 1 .. n : id = Curve[i]
      BY <1>2
    <3>2. i \notin r + 1 .. k
      BY <2>2, <2>11, <3>1
    <3>3. CASE i \in 1 .. r
      BY <1>10, <2>4, <2>7, <3>1, <3>3
    <3>4. CASE i \in k + 1 .. n
      <4> DEFINE l == i - e
      <4>1. l \in 1 .. p /\ l \in r + 2 .. p /\ l + e = i
        BY <2>8, <3>4
      <4> HIDE DEF l
      <4>2. t[l] = Curve[l + e]
        BY <1>10, <4>1
      <4> QED BY <2>4, <3>1, <4>1, <4>2
    <3> QED BY <2>6, <3>2, <3>3, <3>4
  <2>12. a \in ToSet(t)
    BY <1>10, <2>4, <2>7
  <2>13. gone \subseteq ToSet(Curve)
    BY <1>2, <2>1, <2>2
  <2> QED BY <2>10, <2>11, <2>12, <2>13
<1>22. Kept'
  <2>1. ToSet(Curve)' = (ToSet(Curve) \ gone) \cup {a}
    BY <1>8, <1>21
  <2> HIDE DEF gone
  <2> QED BY <1>1, <1>5, <1>16, <1>17, <1>21, <2>1 DEF Kept
<1>23. Pooled'
  <2>1. so[a].searched = FALSE
    BY <1>16
  <2> QED BY <1>1, <1>5, <1>16, <1>17, <2>1 DEF Pooled
<1>24. Covered'
  <2>1. CoveredIn(rule, evaluation, sol, Curve, neighbors, todo)
    BY <1>1, CoveredIs
  <2>2. ASSUME NEW colors \in ColorMaps,
               colors = neighbors[a] \/ ReachedIn(rule, evaluation, sol, Curve, colors)
        PROVE  ReachedIn(rule, evaluation, so, t, colors)
    <3> DEFINE y == CostIn(rule, evaluation, colors)
    <3>1. y \in Costs
      BY <1>2, CostIs, Rigid
    <3> HIDE DEF y
    <3>2. y = x \/ Reaches(q, n, y)
      BY <1>2, <1>12, <1>13, <2>2, Rigid DEF ReachedIn, y, Reaches
    <3>3. Reaches(u, p, y)
      <4>1. Known /\ q \in [1 .. n -> Costs] /\ x \in Costs
        BY <1>2, <1>12, <1>13
      <4> QED BY <1>11, <1>15, <3>1, <3>2, <4>1, StaysReached
    <3>4. PICK i \in 1 .. p : u[i] = y \/ Beats(u[i], y)
      BY <3>3 DEF Reaches
    <3>5. u[i] = PointIn(rule, evaluation, so, t[i])
      BY <1>10 DEF u
    <3> QED BY <1>10, <3>4, <3>5, Rigid DEF ReachedIn, y
  <2>3. ASSUME NEW i \in 1 .. p, NEW l \in 1 .. n, t[i] = Curve[l], so[t[i]].searched,
               NEW v \in 1 .. V, NEW color \in 0 .. M - 1
        PROVE  SeenIn(rule, evaluation, so, t, neighbors, todo \ {a}, t[i], v, color)
    <3>1. so[t[i]] = sol[Curve[l]]
      BY <1>2, <1>3, <1>16, <2>3
    <3>2. SeenIn(rule, evaluation, sol, Curve, neighbors, todo, Curve[l], v, color)
      BY <1>2, <2>1, <2>3, <3>1 DEF CoveredIn
    <3> DEFINE y == Recolored(sol, Curve[l], v, color)
    <3>3. y = Recolored(so, t[i], v, color)
      BY <3>1, Zenon DEF Recolored
    <3>4. y \in ColorMaps
      <4>1. sol[Curve[l]].colors \in ColorMaps
        BY <1>2
      <4> QED BY <4>1 DEF Recolored, ColorMaps
    <3> HIDE DEF y
    <3>5. ReachedIn(rule, evaluation, sol, Curve, y) \/ \E b \in todo : neighbors[b] = y
      BY <3>2 DEF SeenIn, y
    <3>6. ReachedIn(rule, evaluation, so, t, y) \/ \E b \in todo \ {a} : neighbors[b] = y
      <4>1. CASE y = neighbors[a] \/ ReachedIn(rule, evaluation, sol, Curve, y)
        BY <2>2, <3>4, <4>1
      <4> QED BY <3>5, <4>1
    <3> QED BY <3>3, <3>6 DEF SeenIn
  <2>4. ASSUME NEW i \in 1 .. p, so[t[i]].searched
        PROVE  \E l \in 1 .. n : t[i] = Curve[l]
    <3>1. i \in 1 .. r \/ i = r + 1 \/ i \in r + 2 .. p
      BY <1>2, <1>10, SMTT(30)
    <3>2. i # r + 1
      BY <1>10, <1>16, <2>4, SMTT(30)
    <3>3. CASE i \in r + 2 .. p
      <4>1. i + e \in k + 1 .. n /\ t[i] = Curve[i + e]
        BY <1>10, <3>3
      <4>2. i + e \in 1 .. n
        BY <1>2, <4>1
      <4> QED BY <4>1, <4>2
    <3> QED BY <1>10, <3>1, <3>2, <3>3
  <2>5. CoveredIn(rule, evaluation, so, t, neighbors, todo \ {a})
    <3> SUFFICES ASSUME NEW i \in 1 .. p, so[t[i]].searched, NEW v \in 1 .. V, NEW color \in 0 .. M - 1
                 PROVE  SeenIn(rule, evaluation, so, t, neighbors, todo \ {a}, t[i], v, color)
      BY <1>10 DEF CoveredIn
    <3> QED BY <2>3, <2>4
  <2>6. CoveredIn(rule', evaluation', sol', Curve', neighbors', todo')
    BY <1>5, <1>8, <2>5
  <2> QED BY <2>6, CoveredIs
<1> QED BY <1>18, <1>19, <1>20, <1>22, <1>23, <1>24 DEF Inv

LEMMA CompareKeeps ==
  ASSUME Inv, Compare
  PROVE  Inv'
<1>1. PICK a \in todo : CompareWith(a, Walks(Curve, a))
  BY CompareIs
<1> DEFINE c == Walks(Curve, a)
           n == Len(Curve)
           at == [i \in 0 .. n + 1 |-> At(Curve, i)]
           q == [i \in DOMAIN Curve |-> PointIn(rule, evaluation, sol, Curve[i])]
           x == CostOf(neighbors[a])
<1>2. Typed /\ Linked /\ Sorted /\ Kept
  BY DEF Inv
<1>3. Known /\ n \in Nat \ {0} /\ DOMAIN Curve = 1 .. n
  BY <1>2, OnCurve
<1>4. CostsOf(q, sol, Curve)
  BY DEF CostsOf
<1>5. Walk(at, n, q, a, x) /\ \A i \in 1 .. n : at[i] = Curve[i]
  <2> HIDE DEF q, x
  <2> QED BY <1>2, <1>4, WalkOfCurve DEF x
<1>6. Walked(c, at, n, q, a, x, n)
  <2> HIDE DEF at, q, x, n
  <2> QED BY <1>3, <1>5, WalkFold
<1>7. ~Waits(c, n, n, q, x)
  <2> HIDE DEF c, n, q, x
  <2>1. ~(n < n)
    BY <1>3
  <2> QED BY <2>1 DEF Waits
<1>8. CASE Refused(c, n, a, q, x)
  <2> HIDE DEF c, q
  <2> QED BY <1>1, <1>4, <1>8, CompareRefuses DEF c
<1>9. ASSUME NEW r \in 0 .. n, NEW k \in 0 .. n, Around(q, x, n, n, r, k), Stands(c, at, n, a, r, k)
      PROVE  Inv'
  <2> HIDE DEF c, q
  <2> QED BY <1>1, <1>4, <1>9, ComparePlaces DEF c
<1> HIDE DEF c, n, at, q, x
<1> QED BY <1>6, <1>7, <1>8, <1>9 DEF Walked
-----------------------------------------------------------------------------
\* Nothing is in the empty map.
LEMMA EmptyMap ==
  ASSUME NEW S
  PROVE  DOMAIN <<>> = {} /\ <<>> \in [DOMAIN <<>> -> S]
<1>1. <<>> \in Seq(S) /\ Len(<<>>) = 0
  OBVIOUS
<1>2. DOMAIN <<>> = {}
  BY <1>1
<1>3. <<>> \in [1 .. Len(<<>>) -> S]
  BY <1>1
<1> QED BY <1>1, <1>2, <1>3

LEMMA InitKeeps ==
  ASSUME Init
  PROVE  Inv
<1> DEFINE s == <<0>>
<1>1. s \in Seq(Nat) /\ Len(s) = 1 /\ s[1] = 0 /\ DOMAIN s = {1}
  OBVIOUS
<1> HIDE DEF s
<1>2. At(s, 0) = HEAD /\ At(s, 1) = 0 /\ At(s, 2) = TAIL
  BY <1>1 DEF At
<1>3. /\ DOMAIN next = {HEAD, 0} /\ next[HEAD] = 0 /\ next[0] = TAIL
      /\ DOMAIN prev = {TAIL, 0} /\ prev[TAIL] = 0 /\ prev[0] = HEAD
  BY DEF Init, HEAD, TAIL
<1>4. Chain(next, prev, s)
  <2>1. 0 .. Len(s) = {0, 1} /\ 1 .. Len(s) + 1 = {1, 2} /\ 1 .. Len(s) = {1}
    BY <1>1
  <2>2. DOMAIN next = {At(s, i) : i \in 0 .. Len(s)}
    BY <1>2, <1>3, <2>1
  <2>3. DOMAIN prev = {At(s, i) : i \in 1 .. Len(s) + 1}
    BY <1>2, <1>3, <2>1
  <2>4. \A i \in 0 .. Len(s) : next[At(s, i)] = At(s, i + 1) /\ prev[At(s, i + 1)] = At(s, i)
    BY <1>2, <1>3, <2>1
  <2> QED BY <1>1, <2>1, <2>2, <2>3, <2>4 DEF Chain
<1>5. Curve = s
  BY <1>4, ChainIs, CurveIs
<1>6. PICK colors \in [1 .. V -> 0 .. M - 1] : sol = [id \in {0} |-> [colors |-> colors, searched |-> FALSE]]
  BY DEF Init
<1>7. DOMAIN sol = {0} /\ sol[0] = [colors |-> colors, searched |-> FALSE] /\ sol[0].searched = FALSE
  BY <1>6
<1>8. DOMAIN neighbors = {} /\ \A S : neighbors \in [DOMAIN neighbors -> S]
  BY EmptyMap DEF Init
<1>9. /\ rule \in Rules /\ evaluation \in Evaluations /\ unsearched = {0} /\ ids = 1
      /\ todo = {} /\ dropped = {} /\ phase = "pick"
  BY DEF Init
<1>10. ToSet(Curve) = {0} /\ DOMAIN Curve = {1} /\ Curve[1] = 0
  BY <1>1, <1>5 DEF ToSet
<1>11. Typed
  BY <1>6, <1>7, <1>8, <1>9 DEF Typed, ColorMaps
<1>12. Linked
  BY <1>1, <1>4, <1>5 DEF Linked
<1>13. Sorted
  BY <1>10 DEF Sorted
<1>14. Kept
  BY <1>7, <1>8, <1>9, <1>10 DEF Kept
<1>15. Pooled
  BY <1>7, <1>8, <1>9 DEF Pooled
<1>16. Covered
  BY <1>7, <1>10 DEF Covered
<1> QED BY <1>11, <1>12, <1>13, <1>14, <1>15, <1>16 DEF Inv

\* The curve is the same when the colours of its solutions are.
SameColors(so, su, s) == \A i \in DOMAIN s : su[s[i]].colors = so[s[i]].colors

LEMMA PointsStay ==
  ASSUME NEW ru, NEW ev, NEW so, NEW su, NEW s, SameColors(so, su, s)
  PROVE  /\ IsFront(ru, ev, so, s) => IsFront(ru, ev, su, s)
         /\ \A colors : ReachedIn(ru, ev, so, s, colors) => ReachedIn(ru, ev, su, s, colors)
<1>1. \A i \in DOMAIN s : PointIn(ru, ev, su, s[i]) = PointIn(ru, ev, so, s[i])
  BY Zenon DEF SameColors, PointIn
<1>2. IsFront(ru, ev, so, s) => IsFront(ru, ev, su, s)
  BY <1>1, Zenon DEF IsFront
<1>3. \A colors : ReachedIn(ru, ev, so, s, colors) => ReachedIn(ru, ev, su, s, colors)
  BY <1>1, Zenon DEF ReachedIn
<1> QED BY <1>2, <1>3

\* What is searched next is in the pool.
LEMMA PickedIs ==
  ASSUME Inv, phase = "pick", NEW id \in Picked
  PROVE  id \in unsearched
<1>1. Typed /\ Linked /\ Kept /\ Pooled
  BY DEF Inv
<1> DEFINE n == Len(Curve)
           open == {i \in DOMAIN Curve : ~sol[Curve[i]].searched}
<1>2. n \in Nat \ {0} /\ DOMAIN Curve = 1 .. n /\ \A i \in 1 .. n : Curve[i] \in DOMAIN sol
  BY <1>1, OnCurve
<1>3. DOMAIN neighbors = {}
  BY <1>1 DEF Pooled
<1>4. CASE open # {}
  <2>1. open \in SUBSET Nat
    BY <1>2
  <2>2. \E i \in open : \A j \in open : i <= j
    <3> HIDE DEF open
    <3> QED BY <1>4, <2>1, LeastElement
  <2> DEFINE i == Min(open)
  <2>3. i \in open
    <3> HIDE DEF open
    <3> QED BY <2>2 DEF Min
  <2>4. id = Curve[i]
    BY <1>4, Zenon DEF Picked
  <2> HIDE DEF i
  <2>5. i \in DOMAIN Curve /\ ~sol[Curve[i]].searched
    BY <2>3
  <2> QED BY <1>1, <1>2, <1>3, <2>4, <2>5 DEF Pooled
<1>5. CASE open = {}
  BY <1>5, Zenon DEF Picked
<1> QED BY <1>4, <1>5

\* The neighbours of id get the next ids.
Generated(id, w) ==
  /\ w = V * (M - 1) /\ w \in Nat
  /\ DOMAIN neighbors' = ids .. ids + w - 1
  /\ \A a \in ids .. ids + w - 1 : neighbors'[a] \in ColorMaps
  /\ \A v \in 1 .. V : \A color \in 0 .. M - 1 : color # sol[id].colors[v] =>
       \E a \in ids .. ids + w - 1 : neighbors'[a] = [sol[id].colors EXCEPT ![v] = color]

LEMMA NeighborsOf ==
  ASSUME NEW id, sol[id].colors \in ColorMaps, ids \in Nat,
         neighbors' = [a \in ids .. ids + (V * (M - 1)) - 1 |-> Neighbors(sol[id].colors)[a - ids + 1]]
  PROVE  Generated(id, V * (M - 1)) /\ neighbors' \in [DOMAIN neighbors' -> ColorMaps]
<1> DEFINE w == V * (M - 1)
           y == sol[id].colors
           list == Neighbors(y)
<1>1. /\ w \in Nat
      /\ \A k \in 1 .. w : list[k] \in ColorMaps
      /\ \A v \in 1 .. V : \A color \in 0 .. M - 1 : color # y[v] =>
           \E k \in 1 .. w : list[k] = [y EXCEPT ![v] = color]
  BY NeighborsAre
<1>2. neighbors' = [a \in ids .. ids + w - 1 |-> list[a - ids + 1]]
  OBVIOUS
<1> HIDE DEF w, y, list
<1>3. \A a \in ids .. ids + w - 1 : a - ids + 1 \in 1 .. w
  BY <1>1
<1>4. DOMAIN neighbors' = ids .. ids + w - 1
  BY <1>2
<1>5. \A a \in ids .. ids + w - 1 : neighbors'[a] \in ColorMaps
  BY <1>1, <1>2, <1>3
<1>6. ASSUME NEW v \in 1 .. V, NEW color \in 0 .. M - 1, color # y[v]
      PROVE  \E a \in ids .. ids + w - 1 : neighbors'[a] = [y EXCEPT ![v] = color]
  <2>1. PICK k \in 1 .. w : list[k] = [y EXCEPT ![v] = color]
    BY <1>1, <1>6
  <2> DEFINE a == ids + k - 1
  <2>2. a \in ids .. ids + w - 1 /\ a - ids + 1 = k
    BY <1>1
  <2> HIDE DEF a
  <2>3. neighbors'[a] = list[k]
    BY <1>2, <2>2
  <2> QED BY <2>1, <2>2, <2>3
<1>7. neighbors' \in [DOMAIN neighbors' -> ColorMaps]
  BY <1>2, <1>4, <1>5
<1>8. Generated(id, w)
  BY <1>1, <1>4, <1>5, <1>6, Zenon DEF Generated, w, y
<1> QED BY <1>7, <1>8 DEF w

\* id is marked, nothing else of a solution changes.
Marked(so, su, id) ==
  /\ su \in [DOMAIN so -> [colors : ColorMaps, searched : BOOLEAN]] /\ DOMAIN su = DOMAIN so
  /\ \A j \in DOMAIN so : su[j].colors = so[j].colors
  /\ \A j \in DOMAIN so : j # id => su[j].searched = so[j].searched
  /\ su[id].searched = TRUE

LEMMA MarkedIs ==
  ASSUME NEW so, so \in [DOMAIN so -> [colors : ColorMaps, searched : BOOLEAN]], NEW id \in DOMAIN so
  PROVE  Marked(so, [so EXCEPT ![id].searched = TRUE], id)
<1> DEFINE su == [so EXCEPT ![id].searched = TRUE]
           one == [so[id] EXCEPT !.searched = TRUE]
<1>1. so[id] \in [colors : ColorMaps, searched : BOOLEAN]
  OBVIOUS
<1>2. one \in [colors : ColorMaps, searched : BOOLEAN] /\ one.colors = so[id].colors /\ one.searched = TRUE
  BY <1>1
<1>3. su = [so EXCEPT ![id] = one]
  OBVIOUS
<1> HIDE DEF su, one
<1>4. DOMAIN su = DOMAIN so /\ su[id] = one /\ \A j \in DOMAIN so : j # id => su[j] = so[j]
  BY <1>3
<1>5. su \in [DOMAIN so -> [colors : ColorMaps, searched : BOOLEAN]]
  BY <1>2, <1>3
<1>6. Marked(so, su, id)
  BY <1>2, <1>4, <1>5 DEF Marked
<1> QED BY <1>6 DEF su

LEMMA SearchKeeps ==
  ASSUME Inv, Search
  PROVE  Inv'
<1>1. /\ Typed /\ Linked /\ Sorted /\ Kept /\ Pooled /\ Covered
  BY DEF Inv
<1>2. /\ phase = "pick" /\ ids' = ids + (V * (M - 1)) /\ todo' = DOMAIN neighbors' /\ dropped' = {}
      /\ phase' = "compare" /\ rule' = rule /\ evaluation' = evaluation /\ next' = next /\ prev' = prev
  BY DEF Search
<1>3. PICK id \in Picked :
        /\ neighbors' = [a \in ids .. ids + (V * (M - 1)) - 1 |-> Neighbors(sol[id].colors)[a - ids + 1]]
        /\ sol' = [sol EXCEPT ![id].searched = TRUE]
        /\ unsearched' = unsearched \ {id}
  BY Zenon DEF Search
<1>4. id \in unsearched
  BY <1>2, PickedIs
<1> DEFINE n == Len(Curve)
           w == V * (M - 1)
<1>5. /\ Known /\ n \in Nat \ {0} /\ DOMAIN Curve = 1 .. n /\ ToSet(Curve) = {Curve[i] : i \in 1 .. n}
      /\ \A i \in 1 .. n : Curve[i] \in DOMAIN sol /\ sol[Curve[i]].colors \in ColorMaps
  BY <1>1, OnCurve
<1>6. id \in DOMAIN sol /\ id \notin DOMAIN neighbors /\ sol[id].searched = FALSE
  <2>1. id \in DOMAIN sol
    BY <1>1, <1>4 DEF Pooled
  <2>2. sol[id].searched \in BOOLEAN
    BY <1>1, <2>1 DEF Typed
  <2> QED BY <1>1, <1>4, <2>1, <2>2 DEF Pooled
<1>7. sol \in [DOMAIN sol -> [colors : ColorMaps, searched : BOOLEAN]] /\ ids \in Nat
  BY <1>1 DEF Typed
<1>8. sol[id].colors \in ColorMaps
  BY <1>6, <1>7
<1>9. Generated(id, w) /\ neighbors' \in [DOMAIN neighbors' -> ColorMaps]
  BY <1>3, <1>7, <1>8, NeighborsOf
<1>10. Marked(sol, sol', id)
  BY <1>3, <1>6, <1>7, MarkedIs
<1> HIDE DEF n, w
<1>11. w \in Nat /\ DOMAIN neighbors' = ids .. ids + w - 1 /\ ids' = ids + w
  BY <1>2, <1>9 DEF Generated, w
<1>12. Curve' = Curve
  BY <1>2, CurveStays
<1>13. /\ DOMAIN sol' = DOMAIN sol
       /\ \A j \in DOMAIN sol : sol'[j].colors = sol[j].colors
       /\ \A j \in DOMAIN sol : j # id => sol'[j].searched = sol[j].searched
       /\ sol'[id].searched = TRUE
       /\ sol' \in [DOMAIN sol' -> [colors : ColorMaps, searched : BOOLEAN]]
  BY <1>10 DEF Marked
<1>14. DOMAIN sol \subseteq 0 .. ids - 1
  BY <1>1 DEF Typed
<1>15. \A j \in DOMAIN sol : j \notin DOMAIN neighbors'
  BY <1>7, <1>11, <1>14
<1>16. SameColors(sol, sol', Curve)
  BY <1>5, <1>13 DEF SameColors
<1>17. Typed'
  <2>1. ids' \in Nat /\ DOMAIN sol' \subseteq 0 .. ids' - 1 /\ DOMAIN neighbors' \subseteq 0 .. ids' - 1
    <3>1. 0 .. ids - 1 \subseteq 0 .. ids' - 1 /\ ids .. ids + w - 1 \subseteq 0 .. ids' - 1 /\ ids' \in Nat
      BY <1>7, <1>11
    <3> QED BY <1>11, <1>13, <1>14, <3>1
  <2>2. rule' \in Rules /\ evaluation' \in Evaluations
    BY <1>1, <1>2 DEF Typed
  <2>3. ColorMaps' = ColorMaps
    BY DEF ColorMaps
  <2> QED BY <1>2, <1>9, <1>13, <2>1, <2>2, <2>3 DEF Typed
<1>18. Linked'
  BY <1>1, <1>2, <1>12 DEF Linked, Chain
<1>19. Sorted'
  <2>1. IsFront(rule, evaluation, sol, Curve)
    BY <1>1, SortedIs
  <2>2. IsFront(rule, evaluation, sol', Curve)
    BY <1>16, <2>1, PointsStay
  <2>3. IsFront(rule', evaluation', sol', Curve')
    BY <1>2, <1>12, <2>2
  <2> QED BY <2>3, SortedIs
<1>20. Kept'
  <2>1. ToSet(Curve)' = ToSet(Curve)
    BY <1>12
  <2>2. dropped = {}
    BY <1>1, <1>2 DEF Pooled
  <2>3. ToSet(Curve) \subseteq DOMAIN sol /\ DOMAIN sol \subseteq ToSet(Curve)
    BY <1>1, <2>2 DEF Kept
  <2> QED BY <1>2, <1>13, <1>15, <2>1, <2>3 DEF Kept
<1>21. Pooled'
  <2>1. DOMAIN neighbors = {}
    BY <1>1, <1>2 DEF Pooled
  <2>2. unsearched \subseteq DOMAIN sol /\ \A j \in DOMAIN sol : j \in unsearched <=> ~sol[j].searched
    BY <1>1, <2>1 DEF Pooled
  <2>3. \A j \in DOMAIN sol : j \in unsearched' <=> ~sol'[j].searched
    <3> SUFFICES ASSUME NEW j \in DOMAIN sol PROVE j \in unsearched' <=> ~sol'[j].searched
      OBVIOUS
    <3>1. CASE j = id
      BY <1>3, <1>13, <3>1
    <3>2. CASE j # id
      BY <1>3, <1>13, <2>2, <3>2
    <3> QED BY <3>1, <3>2
  <2>4. unsearched' \subseteq DOMAIN sol
    BY <1>3, <2>2
  <2> QED BY <1>2, <1>13, <1>15, <2>3, <2>4 DEF Pooled
<1>22. Covered'
  <2>1. CoveredIn(rule, evaluation, sol, Curve, neighbors, todo) /\ todo = {}
    BY <1>1, <1>2, CoveredIs DEF Pooled
  <2>2. ASSUME NEW j \in 1 .. n, sol'[Curve[j]].searched, NEW v \in 1 .. V, NEW color \in 0 .. M - 1
        PROVE  SeenIn(rule, evaluation, sol', Curve, neighbors', todo', Curve[j], v, color)
    <3> DEFINE y == Recolored(sol, Curve[j], v, color)
    <3>1. y = Recolored(sol', Curve[j], v, color)
      <4>1. sol'[Curve[j]].colors = sol[Curve[j]].colors
        BY <1>5, <1>13
      <4> QED BY <4>1, Zenon DEF Recolored
    <3>2. CASE Curve[j] # id
      <4>1. sol[Curve[j]].searched
        BY <1>5, <1>13, <2>2, <3>2
      <4>2. SeenIn(rule, evaluation, sol, Curve, neighbors, todo, Curve[j], v, color)
        BY <1>5, <2>1, <4>1 DEF CoveredIn
      <4>3. ReachedIn(rule, evaluation, sol, Curve, y)
        BY <2>1, <4>2 DEF SeenIn
      <4> HIDE DEF y
      <4>4. ReachedIn(rule, evaluation, sol', Curve, y)
        BY <1>16, <4>3, PointsStay
      <4> QED BY <3>1, <4>4 DEF SeenIn
    <3>3. CASE Curve[j] = id /\ color = sol[id].colors[v]
      <4>1. y = sol[id].colors
        BY <1>8, <3>3 DEF Recolored, ColorMaps
      <4>2. PointIn(rule, evaluation, sol', Curve[j]) = CostIn(rule, evaluation, y)
        <5>1. sol'[Curve[j]].colors = y
          BY <1>6, <1>13, <3>3, <4>1
        <5> HIDE DEF y
        <5> QED BY <5>1, Zenon DEF PointIn
      <4> HIDE DEF y
      <4>3. ReachedIn(rule, evaluation, sol', Curve, y)
        BY <1>5, <4>2 DEF ReachedIn
      <4> QED BY <3>1, <4>3 DEF SeenIn
    <3>4. CASE Curve[j] = id /\ color # sol[id].colors[v]
      <4>1. \E a \in DOMAIN neighbors' : neighbors'[a] = y
        BY <1>9, <3>4, Zenon DEF Generated, Recolored
      <4> HIDE DEF y
      <4> QED BY <1>2, <3>1, <4>1 DEF SeenIn
    <3> QED BY <3>2, <3>3, <3>4
  <2>3. CoveredIn(rule, evaluation, sol', Curve, neighbors', todo')
    BY <1>5, <2>2 DEF CoveredIn
  <2>4. CoveredIn(rule', evaluation', sol', Curve', neighbors', todo')
    BY <1>2, <1>12, <2>3
  <2> QED BY <2>4, CoveredIs
<1> QED BY <1>17, <1>18, <1>19, <1>20, <1>21, <1>22 DEF Inv

\* Every neighbour that was not dropped is on the curve already.
LEMMA SweepKeeps ==
  ASSUME Inv, Sweep
  PROVE  Inv'
<1>1. /\ Typed /\ Linked /\ Sorted /\ Kept /\ Pooled /\ Covered
  BY DEF Inv
<1> DEFINE n == Len(Curve)
           kept == DOMAIN neighbors \ dropped
           on == ToSet(Curve)
<1>2. /\ phase = "compare" /\ todo = {} /\ phase' = "pick" /\ neighbors' = <<>> /\ dropped' = {}
      /\ rule' = rule /\ evaluation' = evaluation /\ next' = next /\ prev' = prev /\ ids' = ids /\ todo' = todo
      /\ unsearched' = (unsearched \ dropped) \cup kept
      /\ sol' = [id \in (DOMAIN sol \ dropped) \cup kept |->
                   IF id \in DOMAIN sol THEN sol[id] ELSE [colors |-> neighbors[id], searched |-> FALSE]]
  BY DEF Sweep, Pool
<1>3. /\ Known /\ n \in Nat \ {0} /\ DOMAIN Curve = 1 .. n /\ on = {Curve[i] : i \in 1 .. n}
      /\ \A i \in 1 .. n : Curve[i] \in DOMAIN sol /\ sol[Curve[i]].colors \in ColorMaps
  BY <1>1, OnCurve
<1>4. /\ on \subseteq DOMAIN sol /\ on \cap dropped = {} /\ DOMAIN sol \subseteq on \cup dropped
      /\ DOMAIN neighbors \subseteq on \cup dropped
  BY <1>1, <1>2 DEF Kept
<1>5. kept \subseteq on /\ (DOMAIN sol \ dropped) \cup kept = on
  BY <1>4
<1>6. DOMAIN sol' = on /\ \A id \in on : sol'[id] = sol[id]
  BY <1>2, <1>4, <1>5
<1>7. Curve' = Curve
  BY <1>2, CurveStays
<1>8. DOMAIN neighbors' = {} /\ \A S : neighbors' \in [DOMAIN neighbors' -> S]
  BY <1>2, EmptyMap
<1>9. sol \in [DOMAIN sol -> [colors : ColorMaps, searched : BOOLEAN]] /\ DOMAIN sol \subseteq 0 .. ids - 1
  BY <1>1 DEF Typed
<1>10. SameColors(sol, sol', Curve)
  BY <1>3, <1>6 DEF SameColors
<1>11. Typed'
  <2>1. \A id \in on : sol'[id] \in [colors : ColorMaps, searched : BOOLEAN]
    BY <1>4, <1>6, <1>9
  <2>2. sol' = [id \in DOMAIN sol' |-> sol'[id]]
    BY <1>2
  <2>3. sol' \in [DOMAIN sol' -> [colors : ColorMaps, searched : BOOLEAN]]
    BY <1>6, <2>1, <2>2
  <2>4. ColorMaps' = ColorMaps
    BY DEF ColorMaps
  <2>5. DOMAIN sol' \subseteq 0 .. ids' - 1
    BY <1>2, <1>4, <1>6, <1>9
  <2>6. rule' \in Rules /\ evaluation' \in Evaluations /\ ids' \in Nat
    BY <1>1, <1>2 DEF Typed
  <2> QED BY <1>2, <1>8, <2>3, <2>4, <2>5, <2>6 DEF Typed
<1>12. Linked'
  <2>1. Chain(next', prev', Curve') /\ Curve' # <<>>
    BY <1>1, <1>2, <1>7 DEF Linked
  <2> QED BY <2>1, Zenon DEF Linked, Chain, At
<1>13. Sorted'
  <2>1. IsFront(rule, evaluation, sol, Curve)
    BY <1>1, SortedIs
  <2>2. IsFront(rule, evaluation, sol', Curve)
    BY <1>10, <2>1, PointsStay
  <2>3. IsFront(rule', evaluation', sol', Curve')
    BY <1>2, <1>7, <2>2
  <2> QED BY <2>3, SortedIs
<1>14. Kept'
  <2>1. ToSet(Curve)' = on
    BY <1>7
  <2> QED BY <1>2, <1>6, <1>8, <2>1 DEF Kept
<1>15. Pooled'
  <2>1. \A id \in on : id \in unsearched' <=> ~sol'[id].searched
    <3> SUFFICES ASSUME NEW id \in on PROVE id \in unsearched' <=> ~sol'[id].searched
      OBVIOUS
    <3>1. id \in DOMAIN sol /\ id \notin dropped /\ sol'[id] = sol[id]
      BY <1>4, <1>6
    <3>2. /\ id \in unsearched <=> ~sol[id].searched /\ id \notin DOMAIN neighbors
          /\ id \in DOMAIN neighbors => ~sol[id].searched
      BY <1>1, <3>1 DEF Pooled
    <3> QED BY <1>2, <3>1, <3>2
  <2>2. unsearched' \subseteq on
    <3>1. unsearched \subseteq DOMAIN sol
      BY <1>1 DEF Pooled
    <3> QED BY <1>2, <1>5, <3>1
  <2> QED BY <1>2, <1>6, <1>8, <2>1, <2>2 DEF Pooled
<1>16. Covered'
  <2>1. CoveredIn(rule, evaluation, sol, Curve, neighbors, todo)
    BY <1>1, CoveredIs
  <2>2. ASSUME NEW j \in 1 .. n, sol'[Curve[j]].searched, NEW v \in 1 .. V, NEW color \in 0 .. M - 1
        PROVE  SeenIn(rule, evaluation, sol', Curve, neighbors', todo', Curve[j], v, color)
    <3>1. sol'[Curve[j]] = sol[Curve[j]]
      BY <1>3, <1>6
    <3> DEFINE y == Recolored(sol, Curve[j], v, color)
    <3>2. y = Recolored(sol', Curve[j], v, color)
      BY <3>1, Zenon DEF Recolored
    <3>3. SeenIn(rule, evaluation, sol, Curve, neighbors, todo, Curve[j], v, color)
      BY <1>3, <2>1, <2>2, <3>1 DEF CoveredIn
    <3>4. ReachedIn(rule, evaluation, sol, Curve, y)
      BY <1>2, <3>3 DEF SeenIn
    <3> HIDE DEF y
    <3>5. ReachedIn(rule, evaluation, sol', Curve, y)
      BY <1>10, <3>4, PointsStay
    <3> QED BY <3>2, <3>5 DEF SeenIn
  <2>3. CoveredIn(rule, evaluation, sol', Curve, neighbors', todo')
    BY <1>3, <2>2 DEF CoveredIn
  <2>4. CoveredIn(rule', evaluation', sol', Curve', neighbors', todo')
    BY <1>2, <1>7, <2>3
  <2> QED BY <2>4, CoveredIs
<1> QED BY <1>11, <1>12, <1>13, <1>14, <1>15, <1>16 DEF Inv

\* Only the phase may change.
LEMMA RestKeeps ==
  ASSUME Inv, Finish \/ UNCHANGED vars
  PROVE  Inv'
<1>1. /\ Typed /\ Linked /\ Sorted /\ Kept /\ Pooled /\ Covered
  BY DEF Inv
<1>2. /\ rule' = rule /\ evaluation' = evaluation /\ next' = next /\ prev' = prev /\ sol' = sol
      /\ unsearched' = unsearched /\ ids' = ids /\ neighbors' = neighbors /\ todo' = todo /\ dropped' = dropped
      /\ \/ phase' = phase
         \/ phase = "pick" /\ phase' = "done" /\ unsearched = {}
  BY DEF Finish, vars
<1>3. Curve' = Curve
  BY <1>2, CurveStays
<1>4. Typed'
  BY <1>1, <1>2 DEF Typed, ColorMaps
<1>5. Linked'
  BY <1>1, <1>2, <1>3 DEF Linked, Chain
<1>6. Sorted'
  BY <1>1, <1>2, <1>3, SortedIs
<1>7. Kept'
  <2>1. ToSet(Curve)' = ToSet(Curve)
    BY <1>3
  <2> QED BY <1>1, <1>2, <2>1 DEF Kept
<1>8. Pooled'
  BY <1>1, <1>2 DEF Pooled
<1>9. Covered'
  BY <1>1, <1>2, <1>3, CoveredIs
<1> QED BY <1>4, <1>5, <1>6, <1>7, <1>8, <1>9 DEF Inv
-----------------------------------------------------------------------------
\* genPareto (Naive_homo.cc, NaiveSingleSolution.cc): after every neighbour that is compared the two
\* maps hold one linked list, sorted, of what is neither dropped nor left behind; the pool is what
\* is unsearched; and what a searched solution of the curve becomes by giving one vertex another
\* colour is as good as a point of the curve, beaten by one, or still to be compared.
THEOREM Invariance == Spec => []Inv
<1>1. Init => Inv
  BY InitKeeps
<1>2. Inv /\ [Next]_vars => Inv'
  <2> SUFFICES ASSUME Inv, [Next]_vars PROVE Inv'
    OBVIOUS
  <2>1. CASE Search
    BY <2>1, SearchKeeps
  <2>2. CASE Compare
    BY <2>2, CompareKeeps
  <2>3. CASE Sweep
    BY <2>3, SweepKeeps
  <2>4. CASE Finish
    BY <2>4, RestKeeps
  <2>5. CASE Stopped
    BY <2>5, RestKeeps DEF Stopped
  <2>6. CASE UNCHANGED vars
    BY <2>6, RestKeeps
  <2> QED BY <2>1, <2>2, <2>3, <2>4, <2>5, <2>6 DEF Next
<1> QED BY <1>1, <1>2, PTL DEF Spec

\* The list of next and prev (pareto_curve, prev_curve) is a front: sorted by the load or the
\* bottleneck, no point beats another, no deleted solution is on it and between two searches there
\* is no other solution, whatever the evaluation and the order of the neighbours.
THEOREM FrontAlways == Spec => []CurveIsAFront
<1>1. Inv => CurveIsAFront
  <2> SUFFICES ASSUME Inv PROVE CurveIsAFront
    OBVIOUS
  <2>1. /\ Typed /\ Linked /\ Sorted /\ Kept /\ Pooled
    BY DEF Inv
  <2> DEFINE n == Len(Curve)
  <2>2. n \in Nat \ {0} /\ DOMAIN Curve = 1 .. n /\ ToSet(Curve) = {Curve[i] : i \in 1 .. n}
    BY <2>1, OnCurve
  <2>3. /\ DOMAIN next = {At(Curve, i) : i \in 0 .. n} /\ DOMAIN prev = {At(Curve, i) : i \in 1 .. n + 1}
        /\ \A i \in 0 .. n : next[At(Curve, i)] = At(Curve, i + 1) /\ prev[At(Curve, i + 1)] = At(Curve, i)
    BY <2>1 DEF Linked, Chain
  <2> HIDE DEF n
  <2>4. At(Curve, 0) = HEAD /\ At(Curve, n + 1) = TAIL /\ \A i \in 1 .. n : At(Curve, i) = Curve[i]
    BY <2>2 DEF At, n
  <2>5. DOMAIN next = {HEAD} \cup ToSet(Curve)
    <3>1. \A i \in 0 .. n : i = 0 \/ i \in 1 .. n
      BY <2>2
    <3>2. 0 \in 0 .. n /\ \A i \in 1 .. n : i \in 0 .. n
      BY <2>2
    <3> QED BY <2>2, <2>3, <2>4, <3>1, <3>2
  <2>6. DOMAIN prev = {TAIL} \cup ToSet(Curve)
    <3>1. \A i \in 1 .. n + 1 : i = n + 1 \/ i \in 1 .. n
      BY <2>2
    <3>2. n + 1 \in 1 .. n + 1 /\ \A i \in 1 .. n : i \in 1 .. n + 1
      BY <2>2
    <3> QED BY <2>2, <2>3, <2>4, <3>1, <3>2
  <2>7. \A id \in DOMAIN next : prev[next[id]] = id
    BY <2>3
  <2>8. \A i, j \in DOMAIN Curve : i < j => Ahead(CostOf(sol[Curve[i]].colors), CostOf(sol[Curve[j]].colors))
    BY <2>1, Zenon DEF Sorted, Cost
  <2>9. phase # "compare" =>
          DOMAIN sol = ToSet(Curve) /\ unsearched = {id \in ToSet(Curve) : ~sol[id].searched}
    <3> SUFFICES ASSUME phase # "compare"
                 PROVE  DOMAIN sol = ToSet(Curve) /\ unsearched = {id \in ToSet(Curve) : ~sol[id].searched}
      OBVIOUS
    <3>1. DOMAIN neighbors = {} /\ dropped = {}
      BY <2>1 DEF Pooled
    <3>2. DOMAIN sol = ToSet(Curve)
      BY <2>1, <3>1 DEF Kept
    <3>3. unsearched \subseteq DOMAIN sol /\ \A id \in DOMAIN sol : id \in unsearched <=> ~sol[id].searched
      BY <2>1, <3>1 DEF Pooled
    <3> QED BY <3>2, <3>3
  <2> DEFINE cost == [i \in DOMAIN Curve |-> CostOf(sol[Curve[i]].colors)]
  <2>10. \A i, j \in DOMAIN Curve : i < j => Ahead(cost[i], cost[j])
    BY <2>8, Zenon
  <2>11. \A i, j \in DOMAIN Curve :
           i < j => /\ cost[i].left < cost[j].left
                    /\ ~Beats(cost[i], cost[j]) /\ ~Beats(cost[j], cost[i])
                    /\ rule = "load" => cost[i].bdwt > cost[j].bdwt
    BY <2>10, Zenon DEF Ahead
  <2> QED BY <2>5, <2>6, <2>7, <2>9, <2>11, Zenon DEF CurveIsAFront
<1> QED BY <1>1, Invariance, PTL

\* When genPareto ends, what a solution of the curve becomes by giving any vertex any colour is as
\* good as a point of the curve or beaten by one: the search stops at a local optimum, not before.
THEOREM NoneBetter == Spec => []NoBetterNeighbor
<1>1. Inv => NoBetterNeighbor
  <2> SUFFICES ASSUME Inv, phase = "done", NEW id \in ToSet(Curve), NEW v \in 1 .. V, NEW color \in 0 .. M - 1
               PROVE  \E p \in Points : \/ p = CostOf([sol[id].colors EXCEPT ![v] = color])
                                        \/ Beats(p, CostOf([sol[id].colors EXCEPT ![v] = color]))
    BY Zenon DEF NoBetterNeighbor
  <2>1. /\ Typed /\ Linked /\ Kept /\ Pooled /\ Covered
    BY DEF Inv
  <2> DEFINE n == Len(Curve)
             x == [sol[id].colors EXCEPT ![v] = color]
  <2>2. DOMAIN Curve = 1 .. n /\ ToSet(Curve) = {Curve[i] : i \in 1 .. n} /\ \A i \in 1 .. n : Curve[i] \in DOMAIN sol
    BY <2>1, OnCurve
  <2>3. DOMAIN neighbors = {} /\ todo = {} /\ unsearched = {}
    BY <2>1 DEF Pooled
  <2>4. PICK j \in 1 .. n : id = Curve[j]
    BY <2>2
  <2>5. sol[Curve[j]].searched
    BY <2>1, <2>2, <2>3 DEF Pooled
  <2>6. Reached(x)
    <3>1. \/ Reached([sol[Curve[j]].colors EXCEPT ![v] = color])
          \/ \E a \in todo : neighbors[a] = [sol[Curve[j]].colors EXCEPT ![v] = color]
      BY <2>1, <2>2, <2>5 DEF Covered
    <3> QED BY <2>3, <2>4, <3>1
  <2> HIDE DEF x
  <2>7. PICK i \in 1 .. n : Cost(Curve[i]) = CostOf(x) \/ Beats(Cost(Curve[i]), CostOf(x))
    BY <2>2, <2>6 DEF Reached
  <2>8. Cost(Curve[i]) \in Points
    BY <2>2, Zenon DEF Points, Cost
  <2> QED BY <2>7, <2>8, Zenon DEF x
<1> QED BY <1>1, Invariance, PTL
=============================================================================

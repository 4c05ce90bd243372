--------------------------- MODULE ColoringProofs ---------------------------
(***************************************************************************)
(* Proofs about Coloring: the load that changeColor keeps is the load of   *)
(* the colouring, the table of the batch is the sum of its stripes, and    *)
(* what has no colour at the end is zero, for any repair DAG, placement,   *)
(* offline file, number of stripes and number of agents.                   *)
(***************************************************************************)
EXTENDS Coloring, FiniteSetTheorems, WellFoundedInduction, TLAPS
-----------------------------------------------------------------------------
(***************************************************************************)
(* Numbers and sets of numbers.                                            *)
(***************************************************************************)
LEMMA LeastElement ==
  ASSUME NEW S \in SUBSET Nat, S # {}
  PROVE  \E x \in S : \A y \in S : x <= y
<1> DEFINE R == OpToRel(<, Nat)
<1>1. IsWellFoundedOn(R, Nat)
  BY NatLessThanWellFounded
<1>2. PICK x \in S : \A y \in S : ~(<<y, x>> \in R)
  BY <1>1, WFMin, Zenon
<1>3. \A y \in S : ~(y < x)
  BY <1>2 DEF OpToRel
<1> QED BY <1>3

\* A set of numbers that goes on from each of its elements up to n.
LEMMA UpToN ==
  ASSUME NEW n \in Nat, NEW S, 0 \in S, \A m \in 0 .. n - 1 : m \in S => m + 1 \in S
  PROVE  \A m \in 0 .. n : m \in S
<1> DEFINE Out == {m \in 0 .. n : m \notin S}
<1>1. ASSUME Out # {} PROVE FALSE
  <2> Out \in SUBSET Nat
    OBVIOUS
  <2>1. PICK x \in Out : \A y \in Out : x <= y
    <3> HIDE DEF Out
    <3> QED BY <1>1, LeastElement
  <2>2. x \in 1 .. n /\ x - 1 \notin Out
    BY <2>1
  <2>3. x - 1 \in 0 .. n - 1 /\ x - 1 \in S
    BY <2>2
  <2>4. (x - 1) + 1 \in S
    BY <2>3
  <2>5. (x - 1) + 1 = x
    BY <2>2
  <2> QED BY <2>1, <2>4, <2>5
<1>2. \A m \in 0 .. n : m \notin Out
  BY <1>1
<1> HIDE DEF Out
<1> QED BY <1>2 DEF Out

LEMMA MaxOfInterval ==
  ASSUME NEW m \in Nat
  PROVE  Max(1 .. m + 1) = m + 1 /\ (1 .. m + 1) \ {m + 1} = 1 .. m /\ 1 .. m + 1 # {}
<1>1. m + 1 \in 1 .. m + 1 /\ \A y \in 1 .. m + 1 : m + 1 >= y
  OBVIOUS
<1>2. \A x \in 1 .. m + 1 : x >= m + 1 => x = m + 1
  OBVIOUS
<1>3. Max(1 .. m + 1) = m + 1
  BY <1>1, <1>2 DEF Max
<1> QED BY <1>1, <1>3

(***************************************************************************)
(* FoldLeft is a recursion over the sets of indices.  G[i] is what it does *)
(* with the entry i.  The function it is defined by exists, since it can   *)
(* be made for the indices up to m, for each m.                            *)
(***************************************************************************)
Folds(g, S, base, G) ==
  g = [s \in S |-> IF s = {} THEN base ELSE G[Max(s)][g[s \ {Max(s)}]]]

LEMMA FoldExists ==
  ASSUME NEW n \in Nat, NEW A, NEW base \in A, NEW G \in [1 .. n -> [A -> A]]
  PROVE  \E g \in [SUBSET (1 .. n) -> A] : Folds(g, SUBSET (1 .. n), base, G)
<1> DEFINE S == {m \in 0 .. n : \E g \in [SUBSET (1 .. m) -> A] : Folds(g, SUBSET (1 .. m), base, G)}
<1>1. 0 \in S
  <2> DEFINE g == [s \in SUBSET (1 .. 0) |-> base]
  <2>1. \A s \in SUBSET (1 .. 0) : s = {}
    OBVIOUS
  <2>2. g \in [SUBSET (1 .. 0) -> A] /\ Folds(g, SUBSET (1 .. 0), base, G)
    BY <2>1 DEF Folds
  <2> QED BY <2>2
<1>2. ASSUME NEW m \in 0 .. n - 1, m \in S PROVE m + 1 \in S
  <2>1. PICK g \in [SUBSET (1 .. m) -> A] : Folds(g, SUBSET (1 .. m), base, G)
    BY <1>2
  <2> DEFINE k == m + 1
             h == [s \in SUBSET (1 .. k) |-> IF k \in s THEN G[k][g[s \ {k}]] ELSE g[s]]
  <2>2. k \in 1 .. n /\ m \in Nat /\ k \in Nat /\ k = m + 1
    OBVIOUS
  <2>3. ASSUME NEW s \in SUBSET (1 .. k)
        PROVE  /\ s \ {k} \in SUBSET (1 .. m)
               /\ k \notin s => s \in SUBSET (1 .. m)
               /\ k \in s => Max(s) = k
    <3>1. k \in s => (\A y \in s : k >= y)
      BY <2>2
    <3>2. \A x \in s : k \in s /\ x >= k => x = k
      BY <2>2
    <3>3. k \in s => Max(s) = k
      BY <3>1, <3>2 DEF Max
    <3> QED BY <2>2, <3>3
  <2>4. \A s \in SUBSET (1 .. m) : s \in SUBSET (1 .. k) /\ k \notin s
    BY <2>2
  <2> HIDE DEF k
  <2>5. h \in [SUBSET (1 .. k) -> A]
    BY <2>2, <2>3
  <2>6. \A s \in SUBSET (1 .. m) : h[s] = g[s]
    BY <2>4
  <2>7. ASSUME NEW s \in SUBSET (1 .. k)
        PROVE  h[s] = IF s = {} THEN base ELSE G[Max(s)][h[s \ {Max(s)}]]
    <3>1. CASE k \in s
      BY <2>3, <2>6, <3>1
    <3>2. CASE k \notin s
      <4>1. h[s] = g[s] /\ s \in SUBSET (1 .. m)
        BY <2>3, <3>2
      <4>2. s # {} => s \ {Max(s)} \in SUBSET (1 .. m)
        BY <4>1
      <4>3. g[s] = IF s = {} THEN base ELSE G[Max(s)][g[s \ {Max(s)}]]
        BY <2>1, <4>1 DEF Folds
      <4> QED BY <2>6, <4>1, <4>2, <4>3
    <3> QED BY <3>1, <3>2
  <2>8. Folds(h, SUBSET (1 .. k), base, G)
    <3>1. h = [s \in SUBSET (1 .. k) |-> h[s]]
      OBVIOUS
    <3> HIDE DEF h
    <3> QED BY <2>7, <3>1 DEF Folds
  <2> HIDE DEF h
  <2>9. k \in S
    BY <2>2, <2>5, <2>8
  <2> QED BY <2>9 DEF k
<1>3. n \in S
  <2> HIDE DEF S
  <2>1. n \in 0 .. n
    OBVIOUS
  <2> QED BY <1>1, <1>2, <2>1, UpToN
<1> QED BY <1>3

\* The same of a function that is not known to map into A.
Recurs(g, n, A, base, G) ==
  /\ g[{}] = base
  /\ \A s \in SUBSET (1 .. n) :
       s # {} /\ g[s \ {Max(s)}] \in A => g[s] = G[Max(s)][g[s \ {Max(s)}]]

Climbs(p, n, base, G, top) ==
  /\ p[0] = base /\ p[n] = top
  /\ \A m \in 0 .. n - 1 : p[m + 1] = G[m + 1][p[m]]

\* The recursion, along the indices.
LEMMA FoldsUpwards ==
  ASSUME NEW n \in Nat, NEW A, NEW base \in A, NEW G \in [1 .. n -> [A -> A]],
         NEW g, Recurs(g, n, A, base, G)
  PROVE  \E p \in [0 .. n -> A] : Climbs(p, n, base, G, g[1 .. n])
<1> DEFINE p == [m \in 0 .. n |-> g[1 .. m]]
           S == {m \in 0 .. n : p[m] \in A}
<1>1. \A m \in 0 .. n : 1 .. m \in SUBSET (1 .. n)
  OBVIOUS
<1>2. p[0] = base
  <2>1. 1 .. 0 = {} /\ 0 \in 0 .. n
    OBVIOUS
  <2> QED BY <2>1 DEF Recurs
<1>3. \A m \in 0 .. n - 1 : p[m] \in A => p[m + 1] = G[m + 1][p[m]] /\ p[m + 1] \in A
  <2> SUFFICES ASSUME NEW m \in 0 .. n - 1, p[m] \in A
               PROVE  p[m + 1] = G[m + 1][p[m]] /\ p[m + 1] \in A
    OBVIOUS
  <2>1. m \in Nat /\ m \in 0 .. n /\ m + 1 \in 0 .. n /\ m + 1 \in 1 .. n
    OBVIOUS
  <2>2. Max(1 .. m + 1) = m + 1 /\ (1 .. m + 1) \ {m + 1} = 1 .. m /\ 1 .. m + 1 # {}
    BY <2>1, MaxOfInterval
  <2>3. 1 .. m + 1 \in SUBSET (1 .. n)
    BY <1>1, <2>1
  <2>4. g[1 .. m] \in A
    BY <2>1
  <2>5. g[1 .. m + 1] = G[m + 1][g[1 .. m]]
    BY <2>2, <2>3, <2>4 DEF Recurs
  <2> QED BY <2>1, <2>4, <2>5
<1>4. \A m \in 0 .. n : p[m] \in A
  <2> HIDE DEF p
  <2>1. 0 \in S
    BY <1>2
  <2>2. \A m \in 0 .. n - 1 : m \in S => m + 1 \in S
    BY <1>3
  <2> HIDE DEF S
  <2>3. \A m \in 0 .. n : m \in S
    BY <2>1, <2>2, UpToN
  <2> QED BY <2>3 DEF S
<1>5. n \in 0 .. n /\ \A m \in 0 .. n - 1 : m \in 0 .. n
  OBVIOUS
<1>6. p \in [0 .. n -> A] /\ p[n] = g[1 .. n]
  BY <1>4, <1>5
<1> HIDE DEF p
<1>7. \A m \in 0 .. n - 1 : p[m + 1] = G[m + 1][p[m]]
  BY <1>3, <1>4, <1>5
<1> QED BY <1>2, <1>6, <1>7 DEF Climbs

\* A set of indices that is not empty has a greatest.
LEMMA MaxIsIn ==
  ASSUME NEW n \in Nat, NEW s \in SUBSET (1 .. n), s # {}
  PROVE  Max(s) \in s /\ s \ {Max(s)} \in SUBSET (1 .. n) /\ \A e \in s : Max(s) >= e
<1> DEFINE T == {n - x : x \in s}
<1>1. T \in SUBSET Nat /\ T # {}
  <2>1. \A x \in s : n - x \in Nat
    OBVIOUS
  <2>2. PICK x \in s : TRUE
    OBVIOUS
  <2>3. n - x \in T
    OBVIOUS
  <2> QED BY <2>1, <2>3
<1>2. PICK y \in T : \A z \in T : y <= z
  <2> HIDE DEF T
  <2> QED BY <1>1, LeastElement
<1>3. PICK x \in s : y = n - x
  BY <1>2
<1>4. \A z \in s : x >= z
  <2> TAKE z \in s
  <2>1. n - z \in T /\ x \in Int /\ z \in Int
    OBVIOUS
  <2>2. n - x <= n - z
    BY <1>2, <1>3, <2>1
  <2> HIDE DEF T
  <2> QED BY <2>1, <2>2
<1>5. Max(s) \in s /\ \A e \in s : Max(s) >= e
  BY <1>4 DEF Max
<1> QED BY <1>5
-----------------------------------------------------------------------------
(***************************************************************************)
(* Sums of loads.                                                          *)
(***************************************************************************)
Load == [Cluster -> [in : Nat, out : Nat]]

LEMMA PlusIs ==
  /\ NoLoad \in Load
  /\ \A s, t \in Load : Plus(s, t) \in Load
  /\ \A s \in Load : Plus(s, NoLoad) = s
  /\ \A s, t, u \in Load : Plus(Plus(s, t), u) = Plus(Plus(s, u), t)
<1>1. NoLoad \in Load
  BY DEF NoLoad, Load
<1>2. \A s, t \in Load : Plus(s, t) \in Load
  BY DEF Plus, Load
<1>3. ASSUME NEW s \in Load PROVE Plus(s, NoLoad) = s
  <2>1. \A k \in Cluster : [in |-> s[k].in + 0, out |-> s[k].out + 0] = s[k]
    BY DEF Load
  <2>2. s = [k \in Cluster |-> s[k]]
    BY DEF Load
  <2>3. Plus(s, NoLoad) = [k \in Cluster |-> [in |-> s[k].in + 0, out |-> s[k].out + 0]]
    BY DEF Plus, NoLoad
  <2> QED BY <2>1, <2>2, <2>3, Zenon
<1>4. ASSUME NEW s \in Load, NEW t \in Load, NEW u \in Load
      PROVE  Plus(Plus(s, t), u) = Plus(Plus(s, u), t)
  <2>1. \A k \in Cluster : /\ (s[k].in + t[k].in) + u[k].in = (s[k].in + u[k].in) + t[k].in
                           /\ (s[k].out + t[k].out) + u[k].out = (s[k].out + u[k].out) + t[k].out
    BY DEF Load
  <2> QED BY <2>1 DEF Plus
<1> QED BY <1>1, <1>2, <1>3, <1>4

LEMMA PlusExchange ==
  ASSUME NEW s \in Load, NEW t \in Load, NEW u \in Load
  PROVE  Plus(Plus(s, t), u) = Plus(Plus(s, u), t)
BY PlusIs

\* The sum, along the stripes.
LEMMA SumAlong ==
  ASSUME NEW n \in Nat, NEW L \in [1 .. n -> Load]
  PROVE  \E p \in [0 .. n -> Load] : /\ p[0] = NoLoad /\ p[n] = SumOfLoads(L)
                                     /\ \A m \in 0 .. n - 1 : p[m + 1] = Plus(p[m], L[m + 1])
<1> DEFINE G == [i \in 1 .. n |-> [a \in Load |-> Plus(a, L[i])]]
           S == SUBSET (1 .. n)
           Sums(g) == g = [s \in S |-> IF s = {} THEN NoLoad ELSE Plus(g[s \ {Max(s)}], L[Max(s)])]
           iter == CHOOSE g : Sums(g)
<1>1. SumOfLoads(L) = iter[1 .. n]
  <2>1. DOMAIN L = 1 .. n
    OBVIOUS
  <2> QED BY <2>1 DEF SumOfLoads, FoldLeft, MapThenFoldSet
<1>2. G \in [1 .. n -> [Load -> Load]]
  BY PlusIs
<1>3. PICK g \in [S -> Load] : Folds(g, S, NoLoad, G)
  <2> HIDE DEF G
  <2> QED BY <1>2, PlusIs, FoldExists
<1>4. \A s \in S : s # {} => Max(s) \in 1 .. n /\ s \ {Max(s)} \in S
  BY MaxIsIn
<1>5. Sums(g)
  <2>1. ASSUME NEW s \in S, s # {}
        PROVE  G[Max(s)][g[s \ {Max(s)}]] = Plus(g[s \ {Max(s)}], L[Max(s)])
    <3>1. Max(s) \in 1 .. n /\ g[s \ {Max(s)}] \in Load
      BY <1>3, <1>4, <2>1
    <3> QED BY <3>1
  <2> HIDE DEF S, G
  <2>2. g = [s \in S |-> IF s = {} THEN NoLoad ELSE G[Max(s)][g[s \ {Max(s)}]]]
    BY <1>3 DEF Folds
  <2> QED BY <2>1, <2>2
<1>6. Sums(iter)
  <2> HIDE DEF Sums
  <2> QED BY <1>5
<1>7. /\ iter[{}] = NoLoad
      /\ \A s \in S : s # {} => iter[s] = Plus(iter[s \ {Max(s)}], L[Max(s)])
  <2>1. {} \in S
    OBVIOUS
  <2> HIDE DEF iter, S
  <2> QED BY <1>6, <2>1
<1> HIDE DEF iter
<1>8. \A s \in S : s # {} /\ iter[s \ {Max(s)}] \in Load =>
        iter[s] = G[Max(s)][iter[s \ {Max(s)}]]
  BY <1>4, <1>7
<1>9. PICK p \in [0 .. n -> Load] : Climbs(p, n, NoLoad, G, iter[1 .. n])
  <2> HIDE DEF G
  <2>1. Recurs(iter, n, Load, NoLoad, G)
    BY <1>7, <1>8 DEF Recurs
  <2> QED BY <1>2, <2>1, PlusIs, FoldsUpwards
<1>10. \A m \in 0 .. n - 1 : p[m + 1] = Plus(p[m], L[m + 1])
  <2> TAKE m \in 0 .. n - 1
  <2>1. m + 1 \in 1 .. n /\ m \in 0 .. n
    OBVIOUS
  <2>2. p[m] \in Load /\ p[m + 1] = G[m + 1][p[m]]
    BY <1>9, <2>1 DEF Climbs
  <2> QED BY <2>1, <2>2
<1> QED BY <1>1, <1>9, <1>10 DEF Climbs

\* A stripe counts once: its load can be added to the sum of the others.
LEMMA SumOfOthers ==
  ASSUME NEW n \in Nat, NEW L \in [1 .. n -> Load], NEW s \in 1 .. n, NEW e \in Load
  PROVE  SumOfLoads([L EXCEPT ![s] = e]) = Plus(SumOfLoads([L EXCEPT ![s] = NoLoad]), e)
<1> DEFINE A == [L EXCEPT ![s] = e]
           B == [L EXCEPT ![s] = NoLoad]
<1>1. /\ A \in [1 .. n -> Load] /\ B \in [1 .. n -> Load]
      /\ A[s] = e /\ B[s] = NoLoad /\ \A i \in 1 .. n : i # s => A[i] = B[i]
  BY PlusIs
<1> HIDE DEF A, B
<1>2. PICK p \in [0 .. n -> Load] : /\ p[0] = NoLoad /\ p[n] = SumOfLoads(A)
                                    /\ \A m \in 0 .. n - 1 : p[m + 1] = Plus(p[m], A[m + 1])
  BY <1>1, SumAlong
<1>3. PICK q \in [0 .. n -> Load] : /\ q[0] = NoLoad /\ q[n] = SumOfLoads(B)
                                    /\ \A m \in 0 .. n - 1 : q[m + 1] = Plus(q[m], B[m + 1])
  BY <1>1, SumAlong
<1> DEFINE S == {m \in 0 .. n : p[m] = IF m < s THEN q[m] ELSE Plus(q[m], e)}
<1>4. 0 \in S
  BY <1>2, <1>3
<1>5. ASSUME NEW m \in 0 .. n - 1, m \in S  PROVE m + 1 \in S
  <2>1. m \in 0 .. n /\ m + 1 \in 0 .. n /\ m + 1 \in 1 .. n
    OBVIOUS
  <2>2. /\ p[m + 1] = Plus(p[m], A[m + 1]) /\ q[m + 1] = Plus(q[m], B[m + 1])
        /\ p[m] \in Load /\ q[m] \in Load /\ A[m + 1] \in Load /\ B[m + 1] \in Load
    BY <1>1, <1>2, <1>3, <2>1
  <2>3. CASE m + 1 < s
    <3>1. p[m] = q[m] /\ A[m + 1] = B[m + 1]
      BY <1>1, <1>5, <2>1, <2>3
    <3> QED BY <2>1, <2>2, <2>3, <3>1
  <2>4. CASE m + 1 = s
    <3>1. p[m] = q[m] /\ A[m + 1] = e /\ B[m + 1] = NoLoad
      BY <1>1, <1>5, <2>1, <2>4
    <3>2. p[m + 1] = Plus(q[m], e) /\ q[m + 1] = q[m]
      BY <2>2, <3>1, PlusIs
    <3> QED BY <2>1, <2>4, <3>2
  <2>5. CASE m + 1 > s
    <3>1. p[m] = Plus(q[m], e) /\ A[m + 1] = B[m + 1]
      BY <1>1, <1>5, <2>1, <2>5
    <3>2. Plus(Plus(q[m], e), A[m + 1]) = Plus(Plus(q[m], A[m + 1]), e)
      BY ONLY <2>2, e \in Load, PlusExchange, Zenon
    <3>3. p[m + 1] = Plus(q[m + 1], e)
      BY <2>2, <3>1, <3>2
    <3> QED BY <2>1, <2>5, <3>3
  <2> QED BY <2>1, <2>3, <2>4, <2>5
<1>6. n \in S
  <2> HIDE DEF S
  <2>1. n \in 0 .. n
    OBVIOUS
  <2> QED BY <1>4, <1>5, <2>1, UpToN
<1> QED BY <1>2, <1>3, <1>6 DEF A, B
-----------------------------------------------------------------------------
(***************************************************************************)
(* The entries of a list at some positions.                                *)
(***************************************************************************)
Below(i, S) == {j \in S : j < i}
Rank(i, S) == Cardinality(Below(i, S))

\* There is an element of each rank.
LEMMA RankExists ==
  ASSUME NEW n \in Nat, NEW S \in SUBSET (1 .. n)
  PROVE  /\ IsFiniteSet(S) /\ Cardinality(S) \in Nat
         /\ \A k \in 1 .. Cardinality(S) : \E i \in S : Rank(i, S) = k - 1
<1> DEFINE N == Cardinality(S)
<1>1. IsFiniteSet(S) /\ N \in Nat
  <2>1. IsFiniteSet(1 .. n)
    BY FS_Interval
  <2> QED BY <2>1, FS_Subset, FS_CardinalityType
<1>2. ASSUME NEW i \in S
      PROVE  IsFiniteSet(Below(i, S)) /\ Rank(i, S) \in Nat /\ Rank(i, S) < N
  <2>1. Below(i, S) \in SUBSET S /\ Below(i, S) # S
    BY DEF Below
  <2>2. /\ IsFiniteSet(Below(i, S)) /\ Cardinality(Below(i, S)) <= N
        /\ Cardinality(Below(i, S)) # N
    BY <1>1, <2>1, FS_Subset
  <2>3. Cardinality(Below(i, S)) \in Nat
    BY <2>2, FS_CardinalityType
  <2> HIDE DEF N
  <2> QED BY <1>1, <2>2, <2>3 DEF Rank
<1>3. ASSUME NEW i \in S, NEW j \in S, i < j  PROVE Rank(i, S) # Rank(j, S)
  <2>1. Below(i, S) \in SUBSET Below(j, S)
    <3>1. \A k \in S : k \in Int
      OBVIOUS
    <3>2. \A k \in S : k < i => k < j
      BY <1>3, <3>1
    <3> QED BY <3>2 DEF Below
  <2>2. Below(i, S) # Below(j, S)
    BY <1>3 DEF Below
  <2> QED BY <1>2, <2>1, <2>2, FS_Subset DEF Rank
<1> DEFINE f == [i \in S |-> Rank(i, S) + 1]
<1>4. f \in [S -> 1 .. N]
  <2> HIDE DEF N
  <2> QED BY <1>1, <1>2
<1>5. ASSUME NEW i \in S, NEW j \in S, f[i] = f[j] PROVE i = j
  <2>1. Rank(i, S) = Rank(j, S)
    BY <1>2, <1>5
  <2>2. ~(i < j) /\ ~(j < i)
    BY <1>3, <2>1
  <2> QED BY <2>2
<1>6. f \in Injection(S, 1 .. N)
  <2> HIDE DEF f, N
  <2> QED BY <1>4, <1>5 DEF Injection, IsInjective
<1>7. f \in Surjection(S, 1 .. N)
  <2>1. IsFiniteSet(1 .. N) /\ Cardinality(1 .. N) = N
    <3> HIDE DEF N
    <3> QED BY <1>1, FS_Interval
  <2> DEFINE T == 1 .. N
  <2>2. IsFiniteSet(T) /\ Cardinality(T) = Cardinality(S) /\ f \in Injection(S, T)
    BY <1>6, <2>1
  <2> HIDE DEF f, T
  <2>3. f \in Surjection(S, T)
    BY <2>2, FS_Injection
  <2> QED BY <2>3 DEF T
<1>8. ASSUME NEW k \in 1 .. N PROVE \E i \in S : Rank(i, S) = k - 1
  <2>1. PICK i \in S : f[i] = k
    <3> HIDE DEF f, N
    <3> QED BY <1>7 DEF Surjection
  <2> HIDE DEF N
  <2>2. Rank(i, S) + 1 = k
    BY <2>1
  <2> QED BY <1>2, <2>2
<1> QED BY <1>1, <1>8

\* A list of entries of s that are at positions of S, none only if S has none.
TakenAt(e, s, S) ==
  \E m \in Nat : /\ DOMAIN e = 1 .. m
                 /\ \A k \in 1 .. m : \E i \in S : e[k] = s[i]
                 /\ m = 0 => S = {}

LEMMA EntriesAre ==
  ASSUME NEW n \in Nat, NEW S \in SUBSET (1 .. n), NEW s
  PROVE  TakenAt(Entries(s, S), s, S)
<1> DEFINE m == Cardinality(S)
           At(k) == CHOOSE i \in S : Rank(i, S) = k - 1
<1>1. m \in Nat /\ \A k \in 1 .. m : \E i \in S : Rank(i, S) = k - 1
  BY RankExists
<1>2. Entries(s, S) = [k \in 1 .. m |-> s[At(k)]]
  BY DEF Entries, Rank, Below
<1>3. m = 0 => S = {}
  BY RankExists, FS_EmptySet
<1>4. \A k \in 1 .. m : At(k) \in S
  BY <1>1
<1> HIDE DEF At, m
<1> QED BY <1>1, <1>2, <1>3, <1>4 DEF TakenAt
-----------------------------------------------------------------------------
(***************************************************************************)
(* Two sets of the same size.                                              *)
(***************************************************************************)
\* f lists the elements of R once, by those of S.
OneToOne(f, S, R) ==
  /\ f \in [S -> R]
  /\ \A s, t \in S : f[s] = f[t] => s = t
  /\ \A r \in R : \E s \in S : f[s] = r

LEMMA SameCount ==
  ASSUME NEW S, NEW R, IsFiniteSet(R), NEW f, OneToOne(f, S, R)
  PROVE  IsFiniteSet(S) /\ Cardinality(S) = Cardinality(R) /\ Cardinality(S) \in Nat
<1>1. f \in Injection(S, R)
  BY DEF Injection, IsInjective, OneToOne
<1>2. f \in Surjection(S, R)
  BY DEF Surjection, OneToOne
<1> QED BY <1>1, <1>2, FS_Injection, FS_CardinalityType
-----------------------------------------------------------------------------
(***************************************************************************)
(* The choice of a colour.                                                 *)
(***************************************************************************)
\* A list of colours of children of v, none only if no child has a colour.
ColorsListed(cc, d, col, v) ==
  \E m \in Nat :
    /\ DOMAIN cc = 1 .. m
    /\ \A k \in 1 .. m : \E u \in ToSet(d.child[v]) : col[u] = cc[k] /\ col[u] # NoColor
    /\ m = 0 => \A u \in ToSet(d.child[v]) : col[u] = NoColor

\* getChildColors leaves out no child that has a node.
LEMMA ChildColorsAre ==
  ASSUME NEW d, NEW col, NEW v, NEW ids, d.child[v] \in Seq(ids)
  PROVE  ColorsListed(ChildColors(d, col, v), d, col, v)
<1> DEFINE cs == d.child[v]
           from == [i \in DOMAIN cs |-> col[cs[i]]]
           S == {i \in DOMAIN from : /\ from[i] # NoColor
                                     /\ \A j \in 1 .. i - 1 : from[j] # from[i]}
           n == Len(cs)
<1>1. n \in Nat /\ DOMAIN cs = 1 .. n /\ DOMAIN from = 1 .. n
  OBVIOUS
<1>2. ChildColors(d, col, v) = Entries(from, S)
  BY DEF ChildColors
<1>3. S \in SUBSET (1 .. n)
  BY <1>1
<1>4. PICK m \in Nat : /\ DOMAIN Entries(from, S) = 1 .. m
                       /\ \A k \in 1 .. m : \E i \in S : Entries(from, S)[k] = from[i]
                       /\ m = 0 => S = {}
  <2> HIDE DEF from, S, n, cs
  <2>1. TakenAt(Entries(from, S), from, S)
    BY <1>1, <1>3, EntriesAre
  <2> QED BY <2>1 DEF TakenAt
<1>5. ASSUME NEW k \in 1 .. m
      PROVE  \E u \in ToSet(cs) : col[u] = Entries(from, S)[k] /\ col[u] # NoColor
  <2>1. PICK i \in S : Entries(from, S)[k] = from[i]
    BY <1>4
  <2>2. i \in DOMAIN cs /\ from[i] # NoColor /\ from[i] = col[cs[i]]
    BY <1>1
  <2>3. cs[i] \in ToSet(cs)
    BY <2>2 DEF ToSet
  <2> HIDE DEF from, S, cs
  <2> QED BY <2>1, <2>2, <2>3
<1>6. ASSUME m = 0, NEW u \in ToSet(cs), col[u] # NoColor  PROVE FALSE
  <2>1. PICK i \in DOMAIN cs : cs[i] = u
    BY DEF ToSet
  <2> DEFINE F == {j \in 1 .. n : from[j] = col[u]}
  <2>2. F \in SUBSET Nat /\ i \in F
    BY <1>1, <2>1
  <2>3. PICK x \in F : \A y \in F : x <= y
    <3> HIDE DEF F
    <3> QED BY <2>2, LeastElement
  <2>4. x \in 1 .. n /\ from[x] = col[u]
    OBVIOUS
  <2>5. \A j \in 1 .. x - 1 : from[j] # from[x]
    <3> SUFFICES ASSUME NEW j \in 1 .. x - 1, from[j] = from[x] PROVE FALSE
      OBVIOUS
    <3>1. j \in 1 .. n /\ ~(x <= j)
      BY <1>1, <2>4
    <3>2. j \in F
      BY <2>4, <3>1
    <3> HIDE DEF F
    <3> QED BY <2>3, <3>1, <3>2
  <2>6. x \in S
    BY <1>1, <1>6, <2>4, <2>5
  <2> QED BY <1>4, <1>6, <2>6
<1> HIDE DEF from, S
<1> QED BY <1>2, <1>4, <1>5, <1>6 DEF ColorsListed, cs

\* c is the colour of a child of v, or none if no child has a colour.
OfTheChildren(d, col, v, c) ==
  \/ \E u \in ToSet(d.child[v]) : c = col[u] /\ c # NoColor
  \/ c = NoColor /\ \A u \in ToSet(d.child[v]) : col[u] = NoColor

\* chooseColor_fullnode chooses such a colour.
LEMMA ChosenColor ==
  ASSUME NEW d, NEW col, NEW ld, NEW tbl, NEW v, NEW ids, d.child[v] \in Seq(ids)
  PROVE  OfTheChildren(d, col, v, ChooseColor(d, col, ld, tbl, v))
<1> DEFINE cc == ChildColors(d, col, v)
           t(i) == Plus(tbl, EvaluateChange(d, col, ld, v, cc[i]))
           r(i) == [color |-> cc[i], state |-> StateOf(t(i), Cluster)]
           Best(b, i) == b = NoChoice \/ Better(StateOf(t(i), Cluster), cc[i], b.state, b.color, t(i))
<1>1. PICK n \in Nat : /\ DOMAIN cc = 1 .. n
                       /\ \A k \in 1 .. n : \E u \in ToSet(d.child[v]) :
                            col[u] = cc[k] /\ col[u] # NoColor
                       /\ n = 0 => \A u \in ToSet(d.child[v]) : col[u] = NoColor
  <2>1. ColorsListed(cc, d, col, v)
    BY ChildColorsAre
  <2> HIDE DEF cc
  <2> QED BY <2>1 DEF ColorsListed
<1> DEFINE A == {NoChoice} \cup {r(i) : i \in 1 .. n}
           G == [i \in 1 .. n |-> [b \in A |-> IF Best(b, i) THEN r(i) ELSE b]]
           S == SUBSET (1 .. n)
           Makes(g) == g = [s \in S |-> IF s = {} THEN NoChoice
                                        ELSE IF Best(g[s \ {Max(s)}], Max(s))
                                          THEN r(Max(s)) ELSE g[s \ {Max(s)}]]
           iter == CHOOSE g : Makes(g)
<1>2. ChooseColor(d, col, ld, tbl, v) = iter[1 .. n].color
  BY <1>1 DEF ChooseColor, FoldLeft, MapThenFoldSet
<1> HIDE DEF cc, t, Best
<1>3. G \in [1 .. n -> [A -> A]] /\ NoChoice \in A
  OBVIOUS
<1> HIDE DEF r
<1>4. PICK g \in [S -> A] : Folds(g, S, NoChoice, G)
  <2> HIDE DEF G, A
  <2> QED BY <1>3, FoldExists
<1>5. \A s \in S : s # {} => Max(s) \in 1 .. n /\ s \ {Max(s)} \in S
  BY MaxIsIn
<1>6. Makes(g)
  <2>1. ASSUME NEW s \in S, s # {}
        PROVE  G[Max(s)][g[s \ {Max(s)}]] =
                 IF Best(g[s \ {Max(s)}], Max(s)) THEN r(Max(s)) ELSE g[s \ {Max(s)}]
    <3>1. Max(s) \in 1 .. n /\ g[s \ {Max(s)}] \in A
      BY <1>4, <1>5, <2>1
    <3> HIDE DEF A
    <3> QED BY <3>1
  <2> HIDE DEF S, G
  <2>2. g = [s \in S |-> IF s = {} THEN NoChoice ELSE G[Max(s)][g[s \ {Max(s)}]]]
    BY <1>4 DEF Folds
  <2> QED BY <2>1, <2>2
<1>7. Makes(iter)
  <2> HIDE DEF Makes
  <2> QED BY <1>6
<1>8. /\ iter[{}] = NoChoice
      /\ \A s \in S : s # {} => iter[s] = IF Best(iter[s \ {Max(s)}], Max(s))
                                            THEN r(Max(s)) ELSE iter[s \ {Max(s)}]
  <2>1. {} \in S
    OBVIOUS
  <2> HIDE DEF iter, S
  <2> QED BY <1>7, <2>1
<1> HIDE DEF iter, A
<1>9. \A s \in S : s # {} /\ iter[s \ {Max(s)}] \in A =>
        iter[s] = G[Max(s)][iter[s \ {Max(s)}]]
  BY <1>5, <1>8
<1>10. PICK p \in [0 .. n -> A] : Climbs(p, n, NoChoice, G, iter[1 .. n])
  <2> HIDE DEF G
  <2>1. Recurs(iter, n, A, NoChoice, G)
    BY <1>8, <1>9 DEF Recurs
  <2> QED BY <1>3, <2>1, FoldsUpwards
<1>11. CASE n = 0
  <2>1. iter[1 .. n] = NoChoice
    BY <1>10, <1>11 DEF Climbs
  <2>2. NoChoice.color = NoColor
    BY DEF NoChoice
  <2> HIDE DEF G
  <2> QED BY <1>1, <1>2, <1>11, <2>1, <2>2 DEF OfTheChildren
<1>12. CASE n # 0
  <2>1. n - 1 \in 0 .. n - 1 /\ n \in 1 .. n /\ (n - 1) + 1 = n /\ n - 1 \in 0 .. n
    BY <1>12
  <2>2. p[n] = G[n][p[n - 1]] /\ p[n - 1] \in A /\ p[n] = iter[1 .. n]
    <3> HIDE DEF G
    <3> QED BY <1>10, <2>1 DEF Climbs
  <2>3. p[n] = IF Best(p[n - 1], n) THEN r(n) ELSE p[n - 1]
    BY <2>1, <2>2
  <2>4. PICK i \in 1 .. n : p[n] = r(i)
    <3>1. CASE Best(p[n - 1], n)
      BY <2>1, <2>3, <3>1
    <3>2. CASE ~Best(p[n - 1], n)
      <4>1. p[n - 1] # NoChoice
        BY <3>2 DEF Best
      <4> QED BY <2>2, <2>3, <3>2, <4>1 DEF A
    <3> QED BY <3>1, <3>2
  <2>5. r(i).color = cc[i]
    BY DEF r
  <2> HIDE DEF G
  <2>6. ChooseColor(d, col, ld, tbl, v) = cc[i]
    BY <1>2, <2>2, <2>4, <2>5
  <2> QED BY <1>1, <2>6 DEF OfTheChildren
<1> QED BY <1>11, <1>12
-----------------------------------------------------------------------------
(***************************************************************************)
(* Counting.                                                               *)
(***************************************************************************)

\* Two ways to write the same things down have as many with the key n.
SameKeys(f, S, R, p, q) == OneToOne(f, S, R) /\ \A t \in S : p[t] = q[f[t]]
WithKey(S, p, n) == {t \in S : p[t] = n}

LEMMA SameCountOfKey ==
  ASSUME NEW S, NEW R, IsFiniteSet(R), NEW f, NEW p, NEW q, SameKeys(f, S, R, p, q), NEW n
  PROVE  Cardinality(WithKey(S, p, n)) = Cardinality(WithKey(R, q, n))
<1> DEFINE U == {t \in S : p[t] = n}
           V == {t \in R : q[t] = n}
           g == [t \in U |-> f[t]]
<1>1. OneToOne(g, U, V)
  <2>1. \A t \in U : g[t] \in V
    BY DEF OneToOne, SameKeys
  <2>2. g \in [U -> V]
    BY <2>1
  <2>3. ASSUME NEW s \in U, NEW t \in U, g[s] = g[t] PROVE s = t
    BY <2>3 DEF OneToOne, SameKeys
  <2>4. ASSUME NEW r \in V PROVE \E s \in U : g[s] = r
    <3>1. PICK s \in S : f[s] = r
      BY DEF OneToOne, SameKeys
    <3>2. s \in U
      BY <3>1 DEF SameKeys
    <3> QED BY <3>1, <3>2
  <2> HIDE DEF g, U, V
  <2> QED BY <2>2, <2>3, <2>4 DEF OneToOne
<1>2. IsFiniteSet(V)
  BY FS_Subset
<1>3. U = WithKey(S, p, n) /\ V = WithKey(R, q, n)
  BY DEF WithKey
<1> HIDE DEF g, U, V
<1>4. Cardinality(U) = Cardinality(V)
  BY <1>1, <1>2, SameCount
<1> QED BY <1>3, <1>4

\* What is dropped was there, what is added was not.
Exchanged(Y, X, D, A) ==
  /\ IsFiniteSet(X) /\ D \in SUBSET X /\ IsFiniteSet(A) /\ A \cap X = {}
  /\ Y = (X \ D) \cup A

LEMMA CountAfter ==
  ASSUME NEW Z, NEW X, NEW D, NEW A, Exchanged(Z, X, D, A)
  PROVE  /\ Cardinality(Z) = Cardinality(X) + Cardinality(A) - Cardinality(D)
         /\ Cardinality(X) \in Nat /\ Cardinality(A) \in Nat /\ Cardinality(D) \in Nat
<1> DEFINE Y == X \ D
<1>1. IsFiniteSet(D) /\ X \cap D = D /\ Y \cap A = {}
  BY FS_Subset DEF Exchanged
<1>2. IsFiniteSet(Y) /\ Cardinality(Y) = Cardinality(X) - Cardinality(D)
  BY <1>1, FS_Difference DEF Exchanged
<1> HIDE DEF Y
<1>3. Cardinality(Y \cup A) = Cardinality(Y) + Cardinality(A) - Cardinality(Y \cap A)
  BY <1>2, FS_Union DEF Exchanged
<1>4. Cardinality(Y \cap A) = 0
  BY <1>1, FS_EmptySet
<1>5. Cardinality(X) \in Nat /\ Cardinality(A) \in Nat /\ Cardinality(D) \in Nat
  BY <1>1, FS_CardinalityType DEF Exchanged
<1>6. Cardinality(Y \cup A) = Cardinality(X) + Cardinality(A) - Cardinality(D)
  BY <1>2, <1>3, <1>4, <1>5
<1> QED BY <1>5, <1>6 DEF Y, Exchanged

\* The same for the transfers that end, or begin, at node n.
LEMMA TransfersAfter ==
  ASSUME NEW Z, NEW X, NEW D, NEW A, Exchanged(Z, X, D, A), NEW n
  PROVE  /\ To(Z, n) = To(X, n) + To(A, n) - To(D, n)
         /\ From(Z, n) = From(X, n) + From(A, n) - From(D, n)
         /\ To(X, n) \in Nat /\ To(A, n) \in Nat /\ To(D, n) \in Nat
         /\ From(X, n) \in Nat /\ From(A, n) \in Nat /\ From(D, n) \in Nat
<1> DEFINE Ends(S) == {t \in S : t[3] = n}
           Begins(S) == {t \in S : t[2] = n}
<1>1. Exchanged(Ends(Z), Ends(X), Ends(D), Ends(A))
  BY FS_Subset DEF Exchanged
<1>2. Exchanged(Begins(Z), Begins(X), Begins(D), Begins(A))
  BY FS_Subset DEF Exchanged
<1>3. \A S : To(S, n) = Cardinality(Ends(S)) /\ From(S, n) = Cardinality(Begins(S))
  BY DEF To, From
<1> HIDE DEF Ends, Begins
<1>4. /\ Cardinality(Ends(Z)) = Cardinality(Ends(X)) + Cardinality(Ends(A)) - Cardinality(Ends(D))
      /\ Cardinality(Ends(X)) \in Nat /\ Cardinality(Ends(A)) \in Nat /\ Cardinality(Ends(D)) \in Nat
  BY <1>1, CountAfter
<1>5. /\ Cardinality(Begins(Z))
           = Cardinality(Begins(X)) + Cardinality(Begins(A)) - Cardinality(Begins(D))
      /\ Cardinality(Begins(X)) \in Nat /\ Cardinality(Begins(A)) \in Nat
      /\ Cardinality(Begins(D)) \in Nat
  BY <1>2, CountAfter
<1> QED BY <1>3, <1>4, <1>5
-----------------------------------------------------------------------------
(***************************************************************************)
(* What evaluateColoring counts, with the node each transfer comes from.   *)
(***************************************************************************)
Coloured(d) == [Ids(d) -> Cluster \cup {NoColor}]

Crossing(d, col) ==
  {t \in Ids(d) \X Cluster \X Cluster :
     /\ t[2] = col[t[1]] /\ t[2] # t[3]
     /\ t[3] \in ParentColors(d, col, t[1])}

LEMMA EvaluateCounts ==
  ASSUME NEW d, IsRepairDag(d), NEW col \in Coloured(d)
  PROVE  /\ IsFiniteSet(Crossing(d, col))
         /\ Evaluate(d, col) = [n \in Cluster |-> [in  |-> To(Crossing(d, col), n),
                                                   out |-> From(Crossing(d, col), n)]]
<1> DEFINE C == Crossing(d, col)
           T == Transfers(d, col)
           f == [t \in C |-> <<t[1], t[3]>>]
<1>1. NoColor \notin Cluster
  BY StripeLoadAssumption
<1>2. IsFiniteSet(T)
  <2>1. IsFiniteSet(Cluster)
    BY ColoringAssumption, FS_Interval DEF Agents
  <2>2. IsFiniteSet(Ids(d) \X Cluster)
    BY <2>1, FS_Product DEF IsRepairDag
  <2>3. T \in SUBSET (Ids(d) \X Cluster)
    BY DEF Transfers
  <2> QED BY <2>2, <2>3, FS_Subset
<1>3. OneToOne(f, C, T)
  <2>1. f \in [C -> T]
    <3>1. \A t \in C : <<t[1], t[3]>> \in T
      BY <1>1 DEF Crossing, Transfers
    <3> QED BY <3>1
  <2>2. ASSUME NEW s \in C, NEW t \in C, f[s] = f[t]  PROVE s = t
    <3>1. s[1] = t[1] /\ s[3] = t[3]
      BY <2>2
    <3>2. s[2] = t[2]
      BY <3>1 DEF Crossing
    <3>3. s \in Ids(d) \X Cluster \X Cluster /\ t \in Ids(d) \X Cluster \X Cluster
      BY DEF Crossing
    <3> QED BY <3>1, <3>2, <3>3
  <2>3. ASSUME NEW r \in T  PROVE \E s \in C : f[s] = r
    <3> DEFINE s == <<r[1], col[r[1]], r[2]>>
    <3>1. r \in Ids(d) \X Cluster /\ col[r[1]] \in Cluster
      BY DEF Transfers, Coloured
    <3>2. s \in C
      BY <3>1 DEF Transfers, Crossing
    <3>3. f[s] = r
      BY <3>1, <3>2
    <3> QED BY <3>2, <3>3
  <2> HIDE DEF f, C, T
  <2> QED BY <2>1, <2>2, <2>3 DEF OneToOne
<1>4. IsFiniteSet(C)
  <2> HIDE DEF f, C, T
  <2> QED BY <1>2, <1>3, SameCount
<1>5. ASSUME NEW n \in Cluster  PROVE Cardinality({t \in T : t[2] = n}) = To(C, n)
  <2> DEFINE p == [t \in C |-> t[3]]
             q == [t \in T |-> t[2]]
  <2>1. \A t \in C : p[t] = q[f[t]]
    <3>1. \A t \in C : f[t] \in T
      BY <1>3, Zenon DEF OneToOne
    <3>2. \A t \in C : f[t] = <<t[1], t[3]>>
      OBVIOUS
    <3> HIDE DEF f, C, T
    <3> QED BY <3>1, <3>2
  <2>2. Cardinality(WithKey(C, p, n)) = Cardinality(WithKey(T, q, n))
    <3> HIDE DEF f, C, T, p, q
    <3>1. SameKeys(f, C, T, p, q)
      BY <1>3, <2>1 DEF SameKeys
    <3> QED BY <1>2, <3>1, SameCountOfKey
  <2>3. WithKey(C, p, n) = {t \in C : t[3] = n} /\ WithKey(T, q, n) = {t \in T : t[2] = n}
    BY DEF WithKey
  <2> HIDE DEF C, T, p, q
  <2> QED BY <2>2, <2>3 DEF To
<1>6. ASSUME NEW n \in Cluster  PROVE Cardinality({t \in T : col[t[1]] = n}) = From(C, n)
  <2> DEFINE p == [t \in C |-> t[2]]
             q == [t \in T |-> col[t[1]]]
  <2>1. \A t \in C : p[t] = q[f[t]]
    <3>1. \A t \in C : f[t] \in T
      BY <1>3, Zenon DEF OneToOne
    <3>2. \A t \in C : f[t] = <<t[1], t[3]>> /\ t[2] = col[t[1]]
      BY DEF Crossing
    <3> HIDE DEF f, C, T
    <3> QED BY <3>1, <3>2
  <2>2. Cardinality(WithKey(C, p, n)) = Cardinality(WithKey(T, q, n))
    <3> HIDE DEF f, C, T, p, q
    <3>1. SameKeys(f, C, T, p, q)
      BY <1>3, <2>1 DEF SameKeys
    <3> QED BY <1>2, <3>1, SameCountOfKey
  <2>3. /\ WithKey(C, p, n) = {t \in C : t[2] = n}
        /\ WithKey(T, q, n) = {t \in T : col[t[1]] = n}
    BY DEF WithKey
  <2> HIDE DEF C, T, p, q
  <2> QED BY <2>2, <2>3 DEF From
<1> HIDE DEF C, T
<1>7. Evaluate(d, col) = [n \in Cluster |-> [in  |-> Cardinality({t \in T : t[2] = n}),
                                             out |-> Cardinality({t \in T : col[t[1]] = n})]]
  BY DEF Evaluate, T
<1>8. Evaluate(d, col) = [n \in Cluster |-> [in |-> To(C, n), out |-> From(C, n)]]
  BY <1>5, <1>6, <1>7
<1> QED BY <1>4, <1>8 DEF C

\* A vertex is used once by each of its parents, and not by itself.
LEMMA OneUse ==
  ASSUME NEW d, IsRepairDag(d), NEW v \in Ids(d), NEW u \in Ids(d)
  PROVE  /\ u \in ToSet(d.child[v]) => \E k \in DOMAIN d.parent[u] :
                                         \A i \in DOMAIN d.parent[u] : d.parent[u][i] = v <=> i = k
         /\ u \notin ToSet(d.child[v]) => v \notin ToSet(d.parent[u])
         /\ v \notin ToSet(d.child[v])
         /\ d.child[v] \in Seq(Ids(d)) /\ d.parent[u] \in Seq(Ids(d))
<1> DEFINE P == {i \in DOMAIN d.parent[u] : d.parent[u][i] = v}
           Q == {i \in DOMAIN d.child[v] : d.child[v][i] = u}
<1>1. d.child[v] \in Seq(Ids(d)) /\ d.parent[u] \in Seq(Ids(d)) /\ v \notin ToSet(d.child[v])
  BY DEF IsRepairDag
<1>2. IsFiniteSet(P) /\ IsFiniteSet(Q)
  <2>1. IsFiniteSet(1 .. Len(d.parent[u])) /\ IsFiniteSet(1 .. Len(d.child[v]))
    BY <1>1, FS_Interval
  <2>2. P \in SUBSET (1 .. Len(d.parent[u])) /\ Q \in SUBSET (1 .. Len(d.child[v]))
    BY <1>1
  <2> HIDE DEF P, Q
  <2> QED BY <2>1, <2>2, FS_Subset
<1>3. Cardinality(P) = Cardinality(Q)
  BY DEF IsRepairDag, WellFormed, UsesRecorded, Times
<1>4. ASSUME u \in ToSet(d.child[v])
      PROVE  \E k \in DOMAIN d.parent[u] : \A i \in DOMAIN d.parent[u] : d.parent[u][i] = v <=> i = k
  <2>1. PICK j \in DOMAIN d.child[v] : d.child[v][j] = u
    BY <1>4 DEF ToSet
  <2>2. Q = {j}
    BY <2>1 DEF IsRepairDag, DistinctEntries
  <2> HIDE DEF P, Q
  <2>3. PICK k : P = {k}
    BY <1>2, <1>3, <2>2, FS_Singleton
  <2> QED BY <2>3 DEF P
<1>5. ASSUME u \notin ToSet(d.child[v])  PROVE v \notin ToSet(d.parent[u])
  <2>1. Q = {}
    BY <1>5 DEF ToSet
  <2> HIDE DEF P, Q
  <2>2. P = {}
    BY <1>2, <1>3, <2>1, FS_EmptySet
  <2> QED BY <2>2 DEF P, ToSet
<1> QED BY <1>1, <1>4, <1>5
-----------------------------------------------------------------------------
(***************************************************************************)
(* changeColor counts what evaluateColoring would.                         *)
(***************************************************************************)

\* The transfers of v and of its children that depend on v being at node c.
Around(d, col, v, c, uses) ==
  {t \in Ids(d) \X Cluster \X Cluster :
     \/ t[1] = v /\ t[2] = c /\ t[3] # c /\ t[3] \in ParentColors(d, col, v)
     \/ /\ t[1] \in ToSet(d.child[v]) /\ t[2] = col[t[1]] /\ t[2] # c /\ t[3] = c
        /\ UsesAt(d, col, t[1], c) = uses}

\* A vertex is in use at c, or at c by v only, as changeColor counts its uses.
LEMMA UsesCounted ==
  ASSUME NEW d, IsRepairDag(d), NEW col \in Coloured(d), NEW v \in Ids(d),
         NEW u \in ToSet(d.child[v]), NEW c
  PROVE  /\ UsesAt(d, col, u, c) = 0 <=> c \notin ParentColors(d, col, u)
         /\ col[v] = c => (UsesAt(d, col, u, c) = 1
                             <=> \A p \in ToSet(d.parent[u]) : col[p] = c => p = v)
         /\ v \in ToSet(d.parent[u]) /\ u \in Ids(d) /\ u # v
<1> DEFINE S == {i \in DOMAIN d.parent[u] : col[d.parent[u][i]] = c}
<1>1. u \in Ids(d) /\ u # v /\ d.parent[u] \in Seq(Ids(d))
  BY OneUse DEF IsRepairDag, WellFormed, Closed
<1>2. PICK k \in DOMAIN d.parent[u] : \A i \in DOMAIN d.parent[u] : d.parent[u][i] = v <=> i = k
  BY <1>1, OneUse
<1>3. v \in ToSet(d.parent[u])
  BY <1>2 DEF ToSet
<1>4. IsFiniteSet(S)
  <2>1. IsFiniteSet(1 .. Len(d.parent[u]))
    BY <1>1, FS_Interval
  <2>2. S \in SUBSET (1 .. Len(d.parent[u]))
    BY <1>1
  <2> HIDE DEF S
  <2> QED BY <2>1, <2>2, FS_Subset
<1>5. UsesAt(d, col, u, c) = Cardinality(S)
  BY DEF UsesAt
<1>6. S = {} <=> c \notin ParentColors(d, col, u)
  BY DEF ParentColors, ToSet
<1>7. UsesAt(d, col, u, c) = 0 <=> c \notin ParentColors(d, col, u)
  <2> HIDE DEF S
  <2> QED BY <1>4, <1>5, <1>6, FS_EmptySet
<1>8. ASSUME col[v] = c
      PROVE  UsesAt(d, col, u, c) = 1 <=> \A p \in ToSet(d.parent[u]) : col[p] = c => p = v
  <2>1. k \in S
    BY <1>2, <1>8
  <2>2. Cardinality(S) = 1 <=> S = {k}
    <3> HIDE DEF S
    <3> QED BY <1>4, <2>1, FS_Singleton
  <2>3. S = {k} <=> \A i \in DOMAIN d.parent[u] : col[d.parent[u][i]] = c => i = k
    BY <2>1
  <2>4. (\A i \in DOMAIN d.parent[u] : col[d.parent[u][i]] = c => i = k)
          <=> \A i \in DOMAIN d.parent[u] : col[d.parent[u][i]] = c => d.parent[u][i] = v
    BY <1>2
  <2>5. (\A i \in DOMAIN d.parent[u] : col[d.parent[u][i]] = c => d.parent[u][i] = v)
          <=> \A p \in ToSet(d.parent[u]) : col[p] = c => p = v
    BY DEF ToSet
  <2> HIDE DEF S
  <2> QED BY <1>5, <2>2, <2>3, <2>4, <2>5
<1> QED BY <1>1, <1>3, <1>7, <1>8

\* The transfers after v has gone to another node.
LEMMA CrossingAfter ==
  ASSUME NEW d, IsRepairDag(d), NEW col \in Coloured(d), NEW v \in Ids(d),
         NEW new \in Cluster, new # col[v], NEW aft, aft = [col EXCEPT ![v] = new]
  PROVE  Exchanged(Crossing(d, aft), Crossing(d, col),
                   Around(d, col, v, col[v], 1), Around(d, col, v, new, 0))
<1> DEFINE old == col[v]
           Triples == Ids(d) \X Cluster \X Cluster
           D == Around(d, col, v, old, 1)
           A == Around(d, col, v, new, 0)
           X == Crossing(d, col)
           Z == Crossing(d, aft)
<1>1. aft \in Coloured(d) /\ aft[v] = new /\ \A u \in Ids(d) : u # v => aft[u] = col[u]
  BY DEF Coloured
<1>2. \A u \in Ids(d) : ToSet(d.parent[u]) \in SUBSET Ids(d)
  BY DEF IsRepairDag, WellFormed, Closed
<1>3. \A t \in Triples : t[1] \in Ids(d) /\ t[2] \in Cluster /\ t[3] \in Cluster
  OBVIOUS
<1>4. D \in SUBSET Triples /\ A \in SUBSET Triples /\ X \in SUBSET Triples /\ Z \in SUBSET Triples
  BY DEF Around, Crossing
<1>5. ASSUME NEW u \in Ids(d), v \notin ToSet(d.parent[u])
      PROVE  ParentColors(d, aft, u) = ParentColors(d, col, u)
  <2>1. \A p \in ToSet(d.parent[u]) : aft[p] = col[p]
    BY <1>1, <1>2, <1>5
  <2> QED BY <2>1 DEF ParentColors
<1>6. ASSUME NEW t \in Triples, t[1] = v
      PROVE  t \in Z <=> (t \in X /\ t \notin D) \/ t \in A
  <2>1. v \notin ToSet(d.child[v]) /\ v \notin ToSet(d.parent[v])
    BY OneUse
  <2>2. ParentColors(d, aft, v) = ParentColors(d, col, v)
    BY <1>5, <2>1
  <2>3. t \in Z <=> t[2] = new /\ t[3] # new /\ t[3] \in ParentColors(d, col, v)
    BY <1>1, <1>6, <2>2 DEF Crossing
  <2>4. t \in A <=> t[2] = new /\ t[3] # new /\ t[3] \in ParentColors(d, col, v)
    BY <1>6, <2>1 DEF Around
  <2>5. t \in X => t \in D
    BY <1>6 DEF Around, Crossing
  <2> QED BY <2>3, <2>4, <2>5
<1>7. ASSUME NEW t \in Triples, t[1] \in ToSet(d.child[v])
      PROVE  /\ t \in Z <=> (t \in X /\ t \notin D) \/ t \in A
             /\ t \in D => t \in X
             /\ t \in A => t \notin X
  <2> DEFINE u == t[1]
  <2>1. /\ u \in Ids(d) /\ u # v /\ v \in ToSet(d.parent[u])
        /\ UsesAt(d, col, u, new) = 0 <=> new \notin ParentColors(d, col, u)
        /\ UsesAt(d, col, u, old) = 1 <=> \A p \in ToSet(d.parent[u]) : col[p] = old => p = v
    BY <1>7, UsesCounted
  <2>2. aft[u] = col[u]
    BY <1>1, <2>1
  <2>3. new \in ParentColors(d, aft, u) /\ old \in ParentColors(d, col, u)
    BY <1>1, <2>1 DEF ParentColors
  <2>4. old \in ParentColors(d, aft, u) <=> UsesAt(d, col, u, old) # 1
    <3>1. old \in ParentColors(d, aft, u) <=> \E p \in ToSet(d.parent[u]) : aft[p] = old
      BY DEF ParentColors
    <3>2. \A p \in ToSet(d.parent[u]) : aft[p] = old <=> (col[p] = old /\ p # v)
      BY <1>1, <1>2, <2>1
    <3> QED BY <2>1, <3>1, <3>2
  <2>5. ASSUME NEW n, n # old, n # new
        PROVE  n \in ParentColors(d, aft, u) <=> n \in ParentColors(d, col, u)
    <3>1. \A p \in ToSet(d.parent[u]) : aft[p] = n <=> col[p] = n
      BY <1>1, <1>2, <2>1, <2>5
    <3> QED BY <3>1 DEF ParentColors
  <2>6. t \in Z <=> t[2] = col[u] /\ t[2] # t[3] /\ t[3] \in ParentColors(d, aft, u)
    BY <2>2 DEF Crossing
  <2>7. t \in X <=> t[2] = col[u] /\ t[2] # t[3] /\ t[3] \in ParentColors(d, col, u)
    BY DEF Crossing
  <2>8. t \in A <=> t[2] = col[u] /\ t[2] # new /\ t[3] = new /\ UsesAt(d, col, u, new) = 0
    BY <1>7, <2>1 DEF Around
  <2>9. t \in D <=> t[2] = col[u] /\ t[2] # old /\ t[3] = old /\ UsesAt(d, col, u, old) = 1
    BY <1>7, <2>1 DEF Around
  <2> HIDE DEF u, A, D, X, Z
  <2>10. CASE t[3] = new
    BY <2>1, <2>3, <2>6, <2>7, <2>8, <2>9, <2>10
  <2>11. CASE t[3] = old
    BY <2>1, <2>3, <2>4, <2>6, <2>7, <2>8, <2>9, <2>11
  <2>12. CASE t[3] # new /\ t[3] # old
    BY <2>5, <2>6, <2>7, <2>8, <2>9, <2>12
  <2> QED BY <2>10, <2>11, <2>12
<1>8. ASSUME NEW t \in Triples, t[1] # v, t[1] \notin ToSet(d.child[v])
      PROVE  (t \in Z <=> t \in X) /\ t \notin A /\ t \notin D
  <2>1. v \notin ToSet(d.parent[t[1]])
    BY <1>3, <1>8, OneUse
  <2>2. aft[t[1]] = col[t[1]] /\ ParentColors(d, aft, t[1]) = ParentColors(d, col, t[1])
    BY <1>1, <1>3, <1>5, <1>8, <2>1
  <2> QED BY <1>8, <2>2 DEF Around, Crossing
<1>9. ASSUME NEW t \in Triples, t[1] = v
      PROVE  (t \in D => t \in X) /\ (t \in A => t \notin X)
  <2>1. v \notin ToSet(d.child[v])
    BY OneUse
  <2> QED BY <1>9, <2>1 DEF Around, Crossing
<1> HIDE DEF A, D, X, Z, Triples
<1>10. Z = (X \ D) \cup A
  BY <1>4, <1>6, <1>7, <1>8
<1>11. D \in SUBSET X /\ A \cap X = {}
  BY <1>4, <1>7, <1>8, <1>9
<1>12. IsFiniteSet(X) /\ IsFiniteSet(Z)
  BY <1>1, EvaluateCounts DEF X, Z
<1>13. IsFiniteSet(A)
  BY <1>10, <1>12, FS_Subset
<1> QED BY <1>10, <1>11, <1>12, <1>13 DEF Exchanged, A, D, X, Z

\* What changeColor adds or drops, by position of the child.
ByPosition(d, col, v, c, uses) ==
  Upward(d, col, v, c) \cup (IF c = NoColor THEN {} ELSE Downward(d, col, v, c, uses))

LEMMA PositionsAreNames ==
  ASSUME NEW d, IsRepairDag(d), NEW col \in Coloured(d), NEW v \in Ids(d),
         NEW c \in Cluster \cup {NoColor}, NEW uses,
         IsFiniteSet(Around(d, col, v, c, uses)), NEW n
  PROVE  /\ To(ByPosition(d, col, v, c, uses), n) = To(Around(d, col, v, c, uses), n)
         /\ From(ByPosition(d, col, v, c, uses), n) = From(Around(d, col, v, c, uses), n)
<1> DEFINE S == ByPosition(d, col, v, c, uses)
           R == Around(d, col, v, c, uses)
           Name(i) == IF i = 0 THEN v ELSE d.child[v][i]
           f == [t \in S |-> <<Name(t[1]), t[2], t[3]>>]
<1>1. NoColor \notin Cluster
  BY StripeLoadAssumption
<1>2. /\ d.child[v] \in Seq(Ids(d)) /\ DOMAIN d.child[v] = 1 .. Len(d.child[v])
      /\ \A i \in DOMAIN d.child[v] : /\ d.child[v][i] \in Ids(d) /\ i # 0
                                      /\ d.child[v][i] # v /\ d.child[v][i] \in ToSet(d.child[v])
      /\ \A i, j \in DOMAIN d.child[v] : d.child[v][i] = d.child[v][j] => i = j
  <2>1. d.child[v] \in Seq(Ids(d)) /\ v \notin ToSet(d.child[v])
    BY OneUse
  <2>2. DistinctEntries(d.child[v])
    BY DEF IsRepairDag
  <2> QED BY <2>1, <2>2 DEF DistinctEntries, ToSet
<1>3. \A u \in Ids(d) : ParentColors(d, col, u) \in SUBSET (Cluster \cup {NoColor})
  BY DEF ParentColors, IsRepairDag, WellFormed, Closed, Coloured
<1> DEFINE Kind0(t) == /\ t[1] = 0 /\ t[2] = c /\ c \in Cluster
                       /\ t[3] \in Cluster /\ t[3] # c /\ t[3] \in ParentColors(d, col, v)
           Kind1(t) == /\ t[1] \in DOMAIN d.child[v] /\ t[2] = col[d.child[v][t[1]]]
                       /\ t[2] \in Cluster /\ t[2] # c /\ t[3] = c /\ c \in Cluster
                       /\ UsesAt(d, col, d.child[v][t[1]], c) = uses
<1>4. ASSUME NEW t \in S
      PROVE  t = <<t[1], t[2], t[3]>> /\ (Kind0(t) \/ Kind1(t))
  <2>1. CASE t \in Upward(d, col, v, c)
    <3>1. c # NoColor
      BY <2>1 DEF Upward
    <3>2. PICK m \in ParentColors(d, col, v) \ {c, NoColor} : t = <<0, c, m>>
      BY <2>1, <3>1 DEF Upward
    <3>3. t[1] = 0 /\ t[2] = c /\ t[3] = m
      BY <3>2
    <3> QED BY <1>3, <3>1, <3>2, <3>3
  <2>2. CASE t \notin Upward(d, col, v, c)
    <3>1. c # NoColor /\ t \in Downward(d, col, v, c, uses)
      BY <2>2 DEF ByPosition
    <3>2. PICK i \in DOMAIN d.child[v] :
             /\ t = <<i, col[d.child[v][i]], c>>
             /\ col[d.child[v][i]] \notin {NoColor, c}
             /\ UsesAt(d, col, d.child[v][i], c) = uses
      BY <3>1 DEF Downward
    <3>3. t[1] = i /\ t[2] = col[d.child[v][i]] /\ t[3] = c
      BY <3>2
    <3>4. col[d.child[v][i]] \in Cluster
      BY <1>2, <3>2 DEF Coloured
    <3> QED BY <3>1, <3>2, <3>3, <3>4
  <2> QED BY <2>1, <2>2
<1>5. ASSUME NEW t, t = <<t[1], t[2], t[3]>>, Kind0(t) \/ Kind1(t)
      PROVE  t \in S
  <2>1. CASE Kind0(t)
    <3>1. t = <<0, c, t[3]>> /\ t[3] \in ParentColors(d, col, v) \ {c, NoColor} /\ c # NoColor
      BY <1>1, <1>5, <2>1
    <3> QED BY <3>1 DEF ByPosition, Upward
  <2>2. CASE Kind1(t)
    <3> DEFINE i == t[1]
    <3>1. /\ t = <<i, col[d.child[v][i]], c>> /\ i \in DOMAIN d.child[v]
          /\ col[d.child[v][i]] \notin {NoColor, c} /\ c # NoColor
          /\ UsesAt(d, col, d.child[v][i], c) = uses
      BY <1>1, <1>5, <2>2
    <3> HIDE DEF i
    <3>2. t \in Downward(d, col, v, c, uses)
      BY <3>1 DEF Downward
    <3> QED BY <3>1, <3>2 DEF ByPosition
  <2> QED BY <1>5, <2>1, <2>2
<1>6. \A t \in S : <<Name(t[1]), t[2], t[3]>> \in R
  <2> TAKE t \in S
  <2> DEFINE r == <<Name(t[1]), t[2], t[3]>>
  <2>1. r[1] = Name(t[1]) /\ r[2] = t[2] /\ r[3] = t[3]
    OBVIOUS
  <2>2. CASE Kind0(t)
    <3>1. r \in Ids(d) \X Cluster \X Cluster
      BY <2>2
    <3> HIDE DEF r
    <3> QED BY <2>1, <2>2, <3>1 DEF Around
  <2>3. CASE Kind1(t)
    <3>1. Name(t[1]) = d.child[v][t[1]] /\ Name(t[1]) \in Ids(d) /\ Name(t[1]) \in ToSet(d.child[v])
      BY <1>2, <2>3
    <3>2. r \in Ids(d) \X Cluster \X Cluster
      BY <2>3, <3>1
    <3> HIDE DEF r
    <3> QED BY <2>1, <2>3, <3>1, <3>2 DEF Around
  <2> QED BY <1>4, <2>2, <2>3
<1>7. OneToOne(f, S, R)
  <2>1. f \in [S -> R]
    BY <1>6
  <2>2. ASSUME NEW s \in S, NEW t \in S, f[s] = f[t]  PROVE s = t
    <3>1. Name(s[1]) = Name(t[1]) /\ s[2] = t[2] /\ s[3] = t[3]
      BY <2>2
    <3>2. s[1] = 0 \/ s[1] \in DOMAIN d.child[v]
      BY <1>4
    <3>3. t[1] = 0 \/ t[1] \in DOMAIN d.child[v]
      BY <1>4
    <3>4. s[1] = t[1]
      BY <1>2, <3>1, <3>2, <3>3
    <3> HIDE DEF S
    <3> QED BY <1>4, <3>1, <3>4
  <2>3. ASSUME NEW r \in R  PROVE \E s \in S : f[s] = r
    <3>1. r \in Ids(d) \X Cluster \X Cluster /\ r = <<r[1], r[2], r[3]>>
      BY DEF Around
    <3>2. CASE r[1] = v /\ r[2] = c /\ r[3] # c /\ r[3] \in ParentColors(d, col, v)
      <4> DEFINE s == <<0, r[2], r[3]>>
      <4>1. s[1] = 0 /\ s[2] = r[2] /\ s[3] = r[3]
        OBVIOUS
      <4>2. Kind0(s)
        BY <3>1, <3>2, <4>1
      <4>3. s \in S
        BY <1>5, <4>1, <4>2
      <4>4. f[s] = <<Name(0), r[2], r[3]>>
        BY <4>1, <4>3
      <4> QED BY <3>1, <3>2, <4>3, <4>4
    <3>3. CASE /\ r[1] \in ToSet(d.child[v]) /\ r[2] = col[r[1]] /\ r[2] # c /\ r[3] = c
               /\ UsesAt(d, col, r[1], c) = uses
      <4>1. PICK i \in DOMAIN d.child[v] : d.child[v][i] = r[1]
        BY <3>3 DEF ToSet
      <4> DEFINE s == <<i, r[2], r[3]>>
      <4>2. s[1] = i /\ s[2] = r[2] /\ s[3] = r[3]
        OBVIOUS
      <4>3. Kind1(s)
        BY <3>1, <3>3, <4>1, <4>2
      <4>4. s \in S
        BY <1>5, <4>2, <4>3
      <4>5. f[s] = <<Name(i), r[2], r[3]>> /\ Name(i) = r[1]
        BY <1>2, <4>1, <4>2, <4>4
      <4> QED BY <3>1, <4>4, <4>5
    <3> QED BY <3>2, <3>3 DEF Around
  <2> HIDE DEF f, S, R
  <2> QED BY <2>1, <2>2, <2>3 DEF OneToOne
<1> DEFINE p(k) == [t \in S |-> t[k]]
           q(k) == [t \in R |-> t[k]]
<1>8. ASSUME NEW k \in {2, 3}
      PROVE  Cardinality(WithKey(S, p(k), n)) = Cardinality(WithKey(R, q(k), n))
  <2>1. \A t \in S : p(k)[t] = q(k)[f[t]]
    <3>1. \A t \in S : f[t] \in R
      BY <1>7, Zenon DEF OneToOne
    <3>2. \A t \in S : f[t][k] = t[k]
      OBVIOUS
    <3> HIDE DEF f, S, R
    <3> QED BY <3>1, <3>2
  <2> DEFINE P == p(k)
             Q == q(k)
  <2> HIDE DEF f, S, P, Q
  <2>2. SameKeys(f, S, R, P, Q)
    BY <1>7, <2>1 DEF SameKeys, P, Q
  <2>3. IsFiniteSet(R)
    OBVIOUS
  <2> HIDE DEF R
  <2>4. Cardinality(WithKey(S, P, n)) = Cardinality(WithKey(R, Q, n))
    BY <2>2, <2>3, SameCountOfKey
  <2> QED BY <2>4 DEF P, Q
<1>9. /\ WithKey(S, p(3), n) = {t \in S : t[3] = n} /\ WithKey(R, q(3), n) = {t \in R : t[3] = n}
      /\ WithKey(S, p(2), n) = {t \in S : t[2] = n} /\ WithKey(R, q(2), n) = {t \in R : t[2] = n}
  BY DEF WithKey
<1> HIDE DEF S, R, p, q
<1> QED BY <1>8, <1>9 DEF To, From, S, R

(***************************************************************************)
(* The load after changeColor is that of the colouring after it, for any   *)
(* vertex of any repair DAG, whatever colour it had.                       *)
(***************************************************************************)
THEOREM ChangeIsExact ==
  ASSUME NEW d, IsRepairDag(d), NEW col \in Coloured(d), NEW v \in Ids(d),
         NEW new \in Cluster, new # col[v]
  PROVE  Change(d, col, Evaluate(d, col), v, new) = Evaluate(d, [col EXCEPT ![v] = new])
<1> DEFINE aft == [col EXCEPT ![v] = new]
           old == col[v]
           X == Crossing(d, col)
           Z == Crossing(d, aft)
           D == Around(d, col, v, old, 1)
           A == Around(d, col, v, new, 0)
           add == Added(d, col, v, new)
           drop == Dropped(d, col, v, old)
<1>1. aft \in Coloured(d) /\ old \in Cluster \cup {NoColor} /\ new # NoColor
  BY StripeLoadAssumption DEF Coloured
<1>2. Exchanged(Z, X, D, A)
  <2> HIDE DEF X, D, A
  <2> QED BY CrossingAfter DEF X, D, A
<1>3. add = ByPosition(d, col, v, new, 0) /\ drop = ByPosition(d, col, v, old, 1)
  BY <1>1 DEF Added, Dropped, ByPosition
<1>4. IsFiniteSet(A) /\ IsFiniteSet(D)
  <2> HIDE DEF X, Z, D, A
  <2> QED BY <1>2, FS_Subset DEF Exchanged
<1>5. \A n \in Cluster : To(add, n) = To(A, n) /\ From(add, n) = From(A, n)
  BY <1>1, <1>3, <1>4, PositionsAreNames
<1>6. \A n \in Cluster : To(drop, n) = To(D, n) /\ From(drop, n) = From(D, n)
  BY <1>1, <1>3, <1>4, PositionsAreNames
<1>7. Evaluate(d, col) = [n \in Cluster |-> [in |-> To(X, n), out |-> From(X, n)]]
  BY EvaluateCounts
<1>8. Evaluate(d, aft) = [n \in Cluster |-> [in |-> To(Z, n), out |-> From(Z, n)]]
  <2> HIDE DEF aft
  <2> QED BY <1>1, EvaluateCounts
<1>9. Change(d, col, Evaluate(d, col), v, new)
        = [n \in Cluster |-> [in  |-> Evaluate(d, col)[n].in + To(add, n) - To(drop, n),
                              out |-> Evaluate(d, col)[n].out + From(add, n) - From(drop, n)]]
  BY DEF Change
<1> HIDE DEF aft, X, Z, D, A, add, drop
<1>10. ASSUME NEW n \in Cluster
       PROVE  /\ Evaluate(d, col)[n].in + To(add, n) - To(drop, n) = To(Z, n)
              /\ Evaluate(d, col)[n].out + From(add, n) - From(drop, n) = From(Z, n)
  <2>1. /\ To(Z, n) = To(X, n) + To(A, n) - To(D, n)
        /\ From(Z, n) = From(X, n) + From(A, n) - From(D, n)
        /\ To(X, n) \in Nat /\ To(A, n) \in Nat /\ To(D, n) \in Nat
        /\ From(X, n) \in Nat /\ From(A, n) \in Nat /\ From(D, n) \in Nat
    BY <1>2, TransfersAfter
  <2>2. Evaluate(d, col)[n].in = To(X, n) /\ Evaluate(d, col)[n].out = From(X, n)
    BY <1>7
  <2> QED BY <1>5, <1>6, <2>1, <2>2
<1>11. Change(d, col, Evaluate(d, col), v, new) = Evaluate(d, aft)
  BY <1>8, <1>9, <1>10
<1> QED BY <1>11 DEF aft

\* A load is two numbers for each node.
LEMMA EvaluateIsLoad ==
  ASSUME NEW d, IsRepairDag(d), NEW col \in Coloured(d)
  PROVE  Evaluate(d, col) \in Load
<1>1. ASSUME NEW n PROVE To(Crossing(d, col), n) \in Nat /\ From(Crossing(d, col), n) \in Nat
  <2> DEFINE X == Crossing(d, col)
             Ends == {t \in X : t[3] = n}
             Begins == {t \in X : t[2] = n}
  <2>1. IsFiniteSet(X)
    BY EvaluateCounts
  <2>2. IsFiniteSet(Ends) /\ IsFiniteSet(Begins)
    <3> HIDE DEF X
    <3> QED BY <2>1, FS_Subset
  <2>3. Cardinality(Ends) \in Nat /\ Cardinality(Begins) \in Nat
    <3> HIDE DEF Ends, Begins
    <3> QED BY <2>2, FS_CardinalityType
  <2> QED BY <2>3 DEF To, From
<1> QED BY <1>1, EvaluateCounts DEF Load
-----------------------------------------------------------------------------
(***************************************************************************)
(* The inductive invariant.                                                *)
(***************************************************************************)

\* Every stripe has its blocks and the repair DAG of the block that is lost.
StripesAre ==
  /\ place \in [1 .. Stripes -> Placements]
  /\ dag = [s \in 1 .. Stripes |-> RepairDag(Lost(s))]
  /\ solution = "dynamic" => scenario = "standby"

\* The stripes are begun in their order; one at a time is being coloured.
OneByOne ==
  /\ DOMAIN color = 1 .. Stripes
  /\ Colored = 1 .. Cardinality(Colored) /\ Cardinality(Colored) \in Nat
  /\ cur \in Colored \cup {0}
  /\ cur = 0 \/ solution = "dynamic" => todo = {}
  /\ cur # 0 => todo \subseteq {v \in ItmIdxs(dag[cur]) : color[cur][v] = NoColor}

\* What a stripe has once it is begun: leaves at their blocks, the root at the new node.
ColorsAre ==
  \A s \in Colored : /\ color[s] \in Coloured(dag[s])
                     /\ \A v \in ToSet(dag[s].leaves) : color[s][v] = LeafColor(place[s], v)
                     /\ color[s][REQUESTOR] \in Cluster
                     /\ newNode[s] \in Cluster

\* The counts of a stripe that is not begun are zero.
LoadsAre ==
  /\ load \in [1 .. Stripes -> Load] /\ table \in Load
  /\ DOMAIN newNode = 1 .. Stripes
  /\ \A s \in (1 .. Stripes) \ Colored : load[s] = NoLoad

\* While a stripe is being coloured the table is the load of the others.
TableOfTheOthers ==
  solution # "dynamic" =>
    table = IF cur = 0 THEN SumOfLoads(load) ELSE SumOfLoads([load EXCEPT ![cur] = NoLoad])

\* Vertex v of stripe s has no node, and will get none.
StaysUncolored(s, v) == color[s][v] = NoColor /\ ~(s = cur /\ v \in todo)

\* A vertex that stays without a node is made of such vertices.
ZerosBelow ==
  \A s \in Colored : \A v \in ItmIdxs(dag[s]) :
    StaysUncolored(s, v) =>
      /\ solution # "dynamic"
      /\ \A u \in ToSet(dag[s].child[v]) : StaysUncolored(s, u)

IInv ==
  /\ StripesAre /\ OneByOne /\ ColorsAre /\ LoadsAre
  /\ LoadsAreExact /\ TableOfTheOthers /\ ZerosBelow

(***************************************************************************)
(* The repair DAG of a stripe, and the nodes.                              *)
(***************************************************************************)
LEMMA Numbers ==
  /\ agents_num \in Nat /\ standby_size \in Nat \ {0} /\ ecn \in Nat /\ ecw \in Nat \ {0}
  /\ Agents \in SUBSET Cluster /\ fail_node_id \in Agents /\ agents_num \in Cluster
  /\ \A s \in Nat : agents_num + (s % standby_size) \in Cluster
  /\ NoColor \notin Cluster /\ Cluster \in SUBSET Nat
<1>1. agents_num \in Nat /\ standby_size \in Nat \ {0} /\ ecn \in Nat /\ ecw \in Nat \ {0}
  BY ColoringAssumption
<1>2. Cluster = 0 .. agents_num + standby_size - 1 /\ fail_node_id \in Agents
  BY ColoringAssumption
<1>3. \A s \in Nat : (s % standby_size) \in 0 .. standby_size - 1
  BY <1>1
<1>4. Agents \in SUBSET Cluster /\ agents_num \in Cluster /\ Cluster \in SUBSET Nat
  BY <1>1, <1>2 DEF Agents
<1>5. \A s \in Nat : agents_num + (s % standby_size) \in Cluster
  <2> SUFFICES ASSUME NEW r \in 0 .. standby_size - 1  PROVE agents_num + r \in Cluster
    BY <1>3
  <2> QED BY <1>1, <1>2
<1> QED BY <1>1, <1>2, <1>4, <1>5, StripeLoadAssumption

LEMMA VerticesAre ==
  ASSUME NEW d, IsRepairDag(d)
  PROVE  /\ REQUESTOR \in Ids(d) /\ Root(d) = REQUESTOR /\ REQUESTOR \notin ToSet(d.leaves)
         /\ d.parent[REQUESTOR] = <<>>
         /\ ItmIdxs(d) \in SUBSET Ids(d) /\ ToSet(d.leaves) \in SUBSET Ids(d)
         /\ \A v \in Ids(d) : v \in ItmIdxs(d) \/ v \in ToSet(d.leaves) \/ v = REQUESTOR
         /\ \A v \in ItmIdxs(d) : v \notin ToSet(d.leaves) /\ v # REQUESTOR
         /\ \A v \in Ids(d) : v \in ToSet(d.leaves) <=> d.child[v] = <<>>
         /\ \A v \in Ids(d) : ToSet(d.child[v]) \in SUBSET Ids(d) /\ ToSet(d.parent[v]) \in SUBSET Ids(d)
         /\ \A v \in Ids(d) : Ids(d) \in SUBSET Nat
<1>1. /\ ToSet(d.headers) = {v \in Ids(d) : d.parent[v] = <<>>}
      /\ ToSet(d.leaves) = {v \in Ids(d) : d.child[v] = <<>>}
      /\ \A v \in Ids(d) : ToSet(d.child[v]) \cup ToSet(d.parent[v]) \subseteq Ids(d)
      /\ d.headers = <<REQUESTOR>> /\ d.child[REQUESTOR] # <<>> /\ Ids(d) \subseteq Nat
  BY DEF IsRepairDag, WellFormed, ListsAgree, Closed
<1>2. ToSet(d.headers) = {REQUESTOR}
  BY <1>1 DEF ToSet
<1>3. Root(d) = REQUESTOR
  BY <1>1 DEF Root
<1>4. ItmIdxs(d) = Ids(d) \ ({REQUESTOR} \cup ToSet(d.leaves))
  BY <1>2 DEF ItmIdxs
<1> HIDE DEF REQUESTOR, Ids
<1> QED BY <1>1, <1>2, <1>3, <1>4

LEMMA StripeIs ==
  ASSUME StripesAre, NEW s \in 1 .. Stripes
  PROVE  /\ IsRepairDag(dag[s]) /\ place[s] \in [Blocks -> Agents] /\ place[s] \in Placements
         /\ \A f \in Offline(Lost(s)) : f \in [ItmIdxs(dag[s]) -> Blocks]
<1>1. place[s] \in Placements /\ dag[s] = RepairDag(Lost(s))
  BY DEF StripesAre
<1>2. place[s] \in [Blocks -> Agents] /\ \E b \in Blocks : place[s][b] = fail_node_id
  BY <1>1, ColoringAssumption
<1>3. Lost(s) \in Blocks
  BY <1>2 DEF Lost
<1>4. /\ IsRepairDag(RepairDag(Lost(s)))
      /\ \A f \in Offline(Lost(s)) : f \in [ItmIdxs(RepairDag(Lost(s))) -> Blocks]
  BY <1>3, ColoringAssumption
<1> QED BY <1>1, <1>2, <1>4

LEMMA LeafColors ==
  ASSUME NEW pl \in [Blocks -> Agents], NEW v \in Nat
  PROVE  /\ LeafColor(pl, v) = NoColor => v \div ecw >= ecn
         /\ LeafColor(pl, v) = NoColor \/ \E b \in Blocks : LeafColor(pl, v) = pl[b]
         /\ LeafColor(pl, v) \in Cluster \cup {NoColor}
<1>1. (v \div ecw) \in Nat
  BY Numbers
<1>2. (v \div ecw) < ecn => (v \div ecw) \in Blocks
  BY <1>1, Numbers DEF Blocks
<1> DEFINE b == v \div ecw
<1> HIDE DEF b
<1>3. CASE b < ecn
  <2>1. LeafColor(pl, v) = pl[b] /\ b \in Blocks /\ pl[b] \in Cluster
    BY <1>2, <1>3, Numbers DEF LeafColor, b
  <2> QED BY <2>1, Numbers
<1>4. CASE ~(b < ecn)
  BY <1>1, <1>4, Numbers DEF LeafColor, b
<1> QED BY <1>3, <1>4

\* A stripe has fewer blocks than there are agents.
LEMMA SomeAgentFree ==
  ASSUME NEW pl \in [Blocks -> Agents]
  PROVE  \E a \in Agents : \A b \in Blocks : pl[b] # a
<1>1. ASSUME \A a \in Agents : \E b \in Blocks : pl[b] = a  PROVE FALSE
  <2>1. pl \in Surjection(Blocks, Agents)
    BY <1>1 DEF Surjection
  <2>2. IsFiniteSet(Blocks) /\ Cardinality(Blocks) = ecn
    <3>1. ecn \in Nat /\ 0 \in Int /\ ecn - 1 \in Int
      BY Numbers
    <3>2. IsFiniteSet(0 .. ecn - 1) /\ Cardinality(0 .. ecn - 1) = IF 0 > ecn - 1 THEN 0 ELSE (ecn - 1) - 0 + 1
      BY <3>1, FS_Interval
    <3> QED BY <3>1, <3>2 DEF Blocks
  <2>3. Cardinality(Agents) = agents_num
    <3>1. agents_num \in Nat /\ 0 \in Int /\ agents_num - 1 \in Int
      BY Numbers
    <3>2. Cardinality(0 .. agents_num - 1)
            = IF 0 > agents_num - 1 THEN 0 ELSE (agents_num - 1) - 0 + 1
      BY <3>1, FS_Interval
    <3> QED BY <3>1, <3>2 DEF Agents
  <2>4. Cardinality(Agents) <= Cardinality(Blocks)
    BY <2>1, <2>2, FS_Surjection
  <2>5. ecn < agents_num /\ ecn \in Nat /\ agents_num \in Nat
    BY ColoringAssumption
  <2> QED BY <2>2, <2>3, <2>4, <2>5
<1> QED BY <1>1

\* The least loaded of a set of agents.
LEMMA LeastLoaded ==
  ASSUME NEW S \in SUBSET Agents, S # {}, NEW tbl \in Load
  PROVE  Min({n \in S : \A m \in S : tbl[n].in <= tbl[m].in}) \in S
<1> DEFINE least == {n \in S : \A m \in S : tbl[n].in <= tbl[m].in}
           ins == {tbl[n].in : n \in S}
<1>1. \A n \in S : n \in Cluster /\ n \in Nat /\ tbl[n].in \in Nat
  BY Numbers DEF Load
<1>2. PICK x \in ins : \A y \in ins : x <= y
  <2>1. ins \in SUBSET Nat /\ ins # {}
    BY <1>1
  <2> HIDE DEF ins
  <2> QED BY <2>1, LeastElement
<1>3. PICK n \in S : x = tbl[n].in
  BY <1>2
<1>4. \A m \in S : tbl[m].in \in ins
  OBVIOUS
<1>5. n \in least
  BY <1>2, <1>3, <1>4
<1>6. least \in SUBSET Nat /\ least # {} /\ least \in SUBSET S
  BY <1>1, <1>5
<1> HIDE DEF least
<1>7. \E k \in least : \A y \in least : k <= y
  BY <1>6, LeastElement
<1>8. Min(least) \in least
  BY <1>7 DEF Min
<1> QED BY <1>6, <1>8 DEF least

\* The new node is a node of the cluster: getReplacementNode finds an agent.
LEMMA ReplacementIsANode ==
  ASSUME StripesAre, NEW s \in 1 .. Stripes, NEW tbl \in Load, NEW n \in Replacements(s, tbl)
  PROVE  n \in Cluster /\ (solution = "dynamic" => n = agents_num)
<1> DEFINE pl == place[s]
           d == dag[s]
<1>1. IsRepairDag(d) /\ pl \in [Blocks -> Agents] /\ \E b \in Blocks : pl[b] = fail_node_id
  <2>1. pl \in Placements /\ IsRepairDag(d) /\ pl \in [Blocks -> Agents]
    BY StripeIs
  <2> QED BY <2>1, ColoringAssumption
<1> HIDE DEF pl, d
<1>2. PICK a \in Agents : \A b \in Blocks : pl[b] # a
  BY <1>1, SomeAgentFree
<1>3. a # NoColor
  BY Numbers
<1>4. \A v \in ToSet(d.leaves) : LeafColor(pl, v) # a
  <2> TAKE v \in ToSet(d.leaves)
  <2>1. v \in Nat
    BY <1>1, VerticesAre
  <2> QED BY <1>1, <1>2, <1>3, <2>1, LeafColors
<1>5. Lightest(pl, d, tbl) \in Agents
  <2> DEFINE S == Agents \ Avoid(pl, d)
  <2>1. a \notin Avoid(pl, d)
    BY <1>1, <1>2, <1>4 DEF Avoid
  <2>2. S \in SUBSET Agents /\ S # {}
    BY <2>1
  <2>3. Lightest(pl, d, tbl) = Min({k \in S : \A m \in S : tbl[k].in <= tbl[m].in})
    BY <2>2 DEF Lightest
  <2> HIDE DEF S
  <2>4. Lightest(pl, d, tbl) \in S
    BY <2>2, <2>3, LeastLoaded
  <2> QED BY <2>2, <2>4
<1>6. FirstReplacements(s, tbl) \in SUBSET Agents
  <2> DEFINE free == Agents \ BatchNodes
             S == Agents \ {LeafColor(pl, v) : v \in ToSet(d.leaves)}
  <2>1. S \in SUBSET Agents /\ S # {}
    BY <1>4
  <2>2. FirstReplacements(s, tbl)
          = IF free # {} THEN free ELSE {Min({k \in S : \A m \in S : tbl[k].in <= tbl[m].in})}
    BY DEF FirstReplacements, pl, d
  <2> HIDE DEF S
  <2>3. Min({k \in S : \A m \in S : tbl[k].in <= tbl[m].in}) \in S
    BY <2>1, LeastLoaded
  <2> QED BY <2>1, <2>2, <2>3
<1>7. n \in Agents \/ n = fail_node_id \/ n = agents_num \/ n = agents_num + (s % standby_size)
  BY <1>5, <1>6 DEF Replacements, pl, d
<1>8. solution = "dynamic" => n = agents_num
  BY DEF Replacements, StripesAre
<1>9. s \in Nat
  OBVIOUS
<1> QED BY <1>7, <1>8, <1>9, Numbers

\* The colours a stripe begins with.
FirstColors(s, n, itm) ==
  [v \in Ids(dag[s]) |-> IF v \in ToSet(dag[s].leaves) THEN LeafColor(place[s], v)
                         ELSE IF v = Root(dag[s]) THEN n ELSE itm[v]]

LEMMA FirstColorsAre ==
  ASSUME StripesAre, NEW s \in 1 .. Stripes, NEW n \in Cluster, NEW itm \in ItmColors(s, n)
  PROVE  LET c == FirstColors(s, n, itm)
         IN  /\ c \in Coloured(dag[s]) /\ c[REQUESTOR] = n
             /\ \A v \in ToSet(dag[s].leaves) : c[v] = LeafColor(place[s], v)
             /\ Greedy(s) => \A v \in ItmIdxs(dag[s]) : c[v] = NoColor
             /\ ~Greedy(s) => \A v \in ItmIdxs(dag[s]) : c[v] \in Cluster
<1> DEFINE d == dag[s]
           pl == place[s]
           c == FirstColors(s, n, itm)
<1>1. /\ IsRepairDag(d) /\ pl \in [Blocks -> Agents]
      /\ \A f \in Offline(Lost(s)) : f \in [ItmIdxs(d) -> Blocks]
  BY StripeIs
<1>2. Greedy(s) => \A v \in ItmIdxs(d) : itm[v] = NoColor
  BY DEF ItmColors
<1>3. ~Greedy(s) => \A v \in ItmIdxs(d) : itm[v] \in Cluster
  <2>1. CASE ~Greedy(s) /\ solution = "cent"
    BY <2>1 DEF ItmColors
  <2>2. CASE ~Greedy(s) /\ solution # "cent"
    <3>1. PICK f \in Offline(Lost(s)) :
             itm = [v \in ItmIdxs(d) |-> IF f[v] = Lost(s) THEN n ELSE pl[f[v]]]
      BY <2>2 DEF ItmColors
    <3>2. \A v \in ItmIdxs(d) : f[v] \in Blocks
      BY <1>1
    <3>3. \A b \in Blocks : pl[b] \in Cluster
      BY <1>1, Numbers
    <3> QED BY <3>1, <3>2, <3>3
  <2> QED BY <2>1, <2>2
<1> HIDE DEF d, pl
<1>4. /\ Root(d) = REQUESTOR /\ REQUESTOR \in Ids(d) /\ REQUESTOR \notin ToSet(d.leaves)
      /\ ToSet(d.leaves) \in SUBSET Ids(d) /\ ItmIdxs(d) \in SUBSET Ids(d)
      /\ \A v \in Ids(d) : v \in ItmIdxs(d) \/ v \in ToSet(d.leaves) \/ v = REQUESTOR
      /\ \A v \in ItmIdxs(d) : v \notin ToSet(d.leaves) /\ v # REQUESTOR
      /\ \A v \in Ids(d) : v \in Nat
  BY <1>1, VerticesAre
<1>5. c = [v \in Ids(d) |-> IF v \in ToSet(d.leaves) THEN LeafColor(pl, v)
                            ELSE IF v = REQUESTOR THEN n ELSE itm[v]]
  BY <1>4 DEF FirstColors, d, pl
<1> HIDE DEF c, REQUESTOR
<1>6. /\ \A v \in ToSet(d.leaves) : c[v] = LeafColor(pl, v)
      /\ c[REQUESTOR] = n
      /\ \A v \in ItmIdxs(d) : c[v] = itm[v]
  BY <1>4, <1>5
<1>7. ASSUME NEW v \in Ids(d)  PROVE c[v] \in Cluster \cup {NoColor}
  <2>1. CASE v \in ItmIdxs(d)
    BY <1>2, <1>3, <1>6, <2>1
  <2>2. CASE v \in ToSet(d.leaves)
    BY <1>1, <1>4, <1>6, <2>2, LeafColors
  <2>3. CASE v = REQUESTOR
    BY <1>6, <2>3
  <2> QED BY <1>4, <2>1, <2>2, <2>3
<1>8. c \in Coloured(d)
  BY <1>5, <1>7 DEF Coloured
<1> QED BY <1>2, <1>3, <1>6, <1>8 DEF c, d, pl

\* With its leaves and its root only, a stripe sends nothing.
LEMMA NothingSentAtFirst ==
  ASSUME NEW d, IsRepairDag(d), NEW col \in Coloured(d),
         \A v \in ItmIdxs(d) : col[v] = NoColor
  PROVE  Evaluate(d, col) = NoLoad
<1>1. Transfers(d, col) = {}
  <2> SUFFICES ASSUME NEW t \in Transfers(d, col) PROVE FALSE
    OBVIOUS
  <2> DEFINE u == t[1]
  <2>1. /\ u \in Ids(d) /\ t[2] \in Cluster /\ col[u] # NoColor
        /\ t[2] \in ParentColors(d, col, u)
    BY DEF Transfers
  <2>2. PICK p \in ToSet(d.parent[u]) : col[p] = t[2]
    BY <2>1 DEF ParentColors
  <2> HIDE DEF u
  <2>3. p \in Ids(d) /\ col[p] # NoColor
    BY <2>1, <2>2, VerticesAre, StripeLoadAssumption
  <2>4. u \in ToSet(d.child[p])
    BY <2>1, <2>2, <2>3, OneUse
  <2>5. d.child[p] # <<>>
    BY <2>4 DEF ToSet
  <2>6. p = REQUESTOR
    BY <2>3, <2>5, VerticesAre
  <2>7. u \notin ToSet(d.leaves)
    BY <2>4, <2>6 DEF IsRepairDag
  <2>8. u = REQUESTOR
    BY <2>1, <2>7, VerticesAre
  <2>9. d.parent[u] = <<>>
    BY <2>8, VerticesAre
  <2> QED BY <2>2, <2>9 DEF ToSet
<1> DEFINE T == Transfers(d, col)
<1>2. Evaluate(d, col) = [n \in Cluster |-> [in  |-> Cardinality({t \in T : t[2] = n}),
                                             out |-> Cardinality({t \in T : col[t[1]] = n})]]
  BY DEF Evaluate
<1>3. \A n : {t \in T : t[2] = n} = {} /\ {t \in T : col[t[1]] = n} = {}
  BY <1>1
<1>4. Cardinality({}) = 0
  BY FS_EmptySet
<1> QED BY <1>2, <1>3, <1>4 DEF NoLoad

LEMMA SumOfNothing ==
  ASSUME NEW n \in Nat, NEW L \in [1 .. n -> Load], \A s \in 1 .. n : L[s] = NoLoad
  PROVE  SumOfLoads(L) = NoLoad
<1>1. PICK p \in [0 .. n -> Load] : /\ p[0] = NoLoad /\ p[n] = SumOfLoads(L)
                                    /\ \A m \in 0 .. n - 1 : p[m + 1] = Plus(p[m], L[m + 1])
  BY SumAlong
<1> DEFINE S == {m \in 0 .. n : p[m] = NoLoad}
<1>2. 0 \in S
  BY <1>1
<1>3. \A m \in 0 .. n - 1 : m \in S => m + 1 \in S
  <2> SUFFICES ASSUME NEW m \in 0 .. n - 1, m \in S PROVE m + 1 \in S
    OBVIOUS
  <2>1. m + 1 \in 1 .. n /\ m + 1 \in 0 .. n
    OBVIOUS
  <2>2. p[m + 1] = Plus(NoLoad, NoLoad)
    BY <1>1, <2>1
  <2> QED BY <2>1, <2>2, PlusIs
<1>4. n \in S
  <2> HIDE DEF S
  <2>1. n \in 0 .. n
    OBVIOUS
  <2> QED BY <1>2, <1>3, <2>1, UpToN
<1> QED BY <1>1, <1>4

LEMMA StripesIsNat == Stripes \in Nat
  BY ColoringAssumption DEF Stripes

\* A stripe that has colours is not without.
LEMMA HasColors ==
  ASSUME NEW d, IsRepairDag(d), NEW col \in Coloured(d)
  PROVE  col # <<>>
<1>1. REQUESTOR \in Ids(d)
  BY VerticesAre
<1>2. DOMAIN col = Ids(d)
  BY DEF Coloured
<1>3. DOMAIN <<>> = {}
  OBVIOUS
<1> QED BY <1>1, <1>2, <1>3

LEMMA InitHolds == Init => IInv
<1> SUFFICES ASSUME Init PROVE IInv
  OBVIOUS
<1>1. StripesAre
  BY DEF Init, StripesAre
<1>2. Colored = {}
  BY DEF Init, Colored
<1>3. OneByOne
  <2>1. Cardinality({}) = 0 /\ 1 .. 0 = {}
    BY FS_EmptySet
  <2> QED BY <1>2, <2>1 DEF Init, OneByOne
<1>4. load \in [1 .. Stripes -> Load] /\ \A s \in 1 .. Stripes : load[s] = NoLoad
  BY PlusIs DEF Init
<1>5. LoadsAre
  BY <1>4, PlusIs DEF Init, LoadsAre
<1>6. TableOfTheOthers
  <2>1. SumOfLoads(load) = NoLoad
    BY <1>4, StripesIsNat, SumOfNothing
  <2> QED BY <2>1 DEF Init, TableOfTheOthers
<1>7. ColorsAre /\ LoadsAreExact /\ ZerosBelow
  BY <1>2 DEF ColorsAre, LoadsAreExact, ZerosBelow
<1> QED BY <1>1, <1>3, <1>5, <1>6, <1>7 DEF IInv

LEMMA StripesStay ==
  ASSUME StripesAre, UNCHANGED <<solution, scenario, place, dag>>
  PROVE  StripesAre' /\ Stripes' = Stripes
<1>1. Stripes' = Stripes /\ \A s : Lost(s)' = Lost(s)
  BY DEF Stripes, Lost
<1> QED BY <1>1 DEF StripesAre

\* A stripe begins, for the first time or again.
LEMMA BeginKeeps ==
  ASSUME IInv, cur = 0, NEW s \in 1 .. Stripes, NEW tbl \in Load, Begin(s, tbl), table' = tbl,
         UNCHANGED <<solution, scenario, place, dag>>,
         solution = "balance" => s \notin Colored,
         Colored \cup {s} = 1 .. Cardinality(Colored \cup {s}), Cardinality(Colored \cup {s}) \in Nat,
         solution # "dynamic" => tbl = SumOfLoads([load EXCEPT ![s] = NoLoad])
  PROVE  IInv'
<1> DEFINE d == dag[s]
<1>0. PICK n \in Replacements(s, tbl) :
        \E itm \in ItmColors(s, n) :
         /\ color' = [color EXCEPT ![s] = FirstColors(s, n, itm)]
         /\ load' = [load EXCEPT ![s] = IF solution = "balance" THEN load[s]
                                        ELSE Evaluate(d, FirstColors(s, n, itm))]
         /\ newNode' = [newNode EXCEPT ![s] = n]
         /\ cur' = s
         /\ todo' = IF Greedy(s) THEN ItmIdxs(d) ELSE {}
  BY DEF Begin, FirstColors
<1>1. PICK itm \in ItmColors(s, n) :
         /\ color' = [color EXCEPT ![s] = FirstColors(s, n, itm)]
         /\ load' = [load EXCEPT ![s] = IF solution = "balance" THEN load[s]
                                        ELSE Evaluate(d, FirstColors(s, n, itm))]
         /\ newNode' = [newNode EXCEPT ![s] = n]
         /\ cur' = s
         /\ todo' = IF Greedy(s) THEN ItmIdxs(d) ELSE {}
  BY <1>0
<1> DEFINE c == FirstColors(s, n, itm)
<1>2. StripesAre /\ OneByOne /\ ColorsAre /\ LoadsAre /\ LoadsAreExact /\ ZerosBelow
  BY DEF IInv
<1>3. StripesAre' /\ Stripes' = Stripes
  BY <1>2, StripesStay
<1>4. IsRepairDag(d)
  BY <1>2, StripeIs
<1>5. n \in Cluster
  BY <1>2, ReplacementIsANode
<1>6. /\ c \in Coloured(d) /\ c[REQUESTOR] = n
      /\ \A v \in ToSet(d.leaves) : c[v] = LeafColor(place[s], v)
      /\ Greedy(s) => \A v \in ItmIdxs(d) : c[v] = NoColor
      /\ ~Greedy(s) => \A v \in ItmIdxs(d) : c[v] \in Cluster
  BY <1>1, <1>2, <1>5, FirstColorsAre
<1>7. Evaluate(d, c) \in Load /\ load'[s] = Evaluate(d, c) /\ load' = [load EXCEPT ![s] = Evaluate(d, c)]
  <2>1. Evaluate(d, c) \in Load
    BY <1>4, <1>6, EvaluateIsLoad
  <2>2. load \in [1 .. Stripes -> Load]
    BY <1>2 DEF LoadsAre
  <2>3. CASE solution = "balance"
    <3>1. Greedy(s)
      BY <2>3 DEF Greedy
    <3>2. Evaluate(d, c) = NoLoad
      BY <1>4, <1>6, <3>1, NothingSentAtFirst
    <3>3. load[s] = NoLoad
      BY <1>2, <2>3 DEF LoadsAre
    <3> QED BY <1>1, <2>1, <2>2, <2>3, <3>2, <3>3
  <2>4. CASE solution # "balance"
    BY <1>1, <2>1, <2>2, <2>4
  <2> QED BY <2>3, <2>4
<1> HIDE DEF c, d
<1>8. color' = [color EXCEPT ![s] = c] /\ DOMAIN color = 1 .. Stripes /\ c # <<>>
  BY <1>1, <1>2, <1>4, <1>6, HasColors DEF OneByOne, c
<1>9. /\ color'[s] = c /\ \A t \in 1 .. Stripes : t # s => color'[t] = color[t]
      /\ Colored' = Colored \cup {s} /\ Colored \in SUBSET (1 .. Stripes)
  BY <1>3, <1>8 DEF Colored
<1>10. OneByOne'
  <2>1. todo' \subseteq {v \in ItmIdxs(dag'[s]) : color'[s][v] = NoColor}
    BY <1>1, <1>6, <1>9 DEF d
  <2>2. DOMAIN color' = 1 .. Stripes'
    BY <1>3, <1>8
  <2>3. Colored' = 1 .. Cardinality(Colored') /\ Cardinality(Colored') \in Nat
    <3> HIDE DEF Colored
    <3> QED BY <1>9
  <2>4. cur' \in Colored' \cup {0} /\ cur' # 0 /\ cur' = s
    BY <1>1, <1>9
  <2>5. solution' = "dynamic" => todo' = {}
    BY <1>1 DEF Greedy
  <2> HIDE DEF Colored
  <2> QED BY <2>1, <2>2, <2>3, <2>4, <2>5 DEF OneByOne
<1>11. ColorsAre'
  <2>1. \A t \in 1 .. Stripes : newNode'[t] = IF t = s THEN n ELSE newNode[t]
    BY <1>1, <1>2 DEF LoadsAre
  <2>3. SUFFICES ASSUME NEW t \in Colored'
                 PROVE  /\ color'[t] \in Coloured(dag[t])
                        /\ \A v \in ToSet(dag[t].leaves) : color'[t][v] = LeafColor(place[t], v)
                        /\ color'[t][REQUESTOR] \in Cluster
                        /\ newNode'[t] \in Cluster
    BY DEF ColorsAre
  <2>4. CASE t = s
    BY <1>5, <1>6, <1>9, <2>1, <2>4 DEF d
  <2>5. CASE t # s
    BY <1>2, <1>9, <2>1, <2>5 DEF ColorsAre
  <2> QED BY <2>4, <2>5
<1>12. LoadsAre'
  <2>1. \A t \in (1 .. Stripes) \ Colored' : load'[t] = NoLoad
    BY <1>2, <1>7, <1>9 DEF LoadsAre
  <2> QED BY <1>1, <1>2, <1>3, <1>7, <2>1 DEF LoadsAre
<1>13. LoadsAreExact'
  <2>1. \A t \in Colored' : load'[t] = Evaluate(dag[t], color'[t])
    BY <1>2, <1>7, <1>9 DEF LoadsAreExact, LoadsAre, d
  <2> QED BY <2>1 DEF LoadsAreExact
<1>14. TableOfTheOthers'
  <2>1. [load' EXCEPT ![s] = NoLoad] = [load EXCEPT ![s] = NoLoad]
    BY <1>2, <1>7 DEF LoadsAre
  <2>2. cur' # 0 /\ cur' = s
    BY <1>1
  <2> QED BY <2>1, <2>2 DEF TableOfTheOthers
<1>15. ZerosBelow'
  <2> SUFFICES ASSUME NEW t \in Colored', NEW v \in ItmIdxs(dag[t]), StaysUncolored(t, v)'
               PROVE  /\ solution # "dynamic"
                      /\ \A u \in ToSet(dag[t].child[v]) : StaysUncolored(t, u)'
    BY DEF ZerosBelow
  <2>1. t # s
    <3> SUFFICES ASSUME t = s PROVE FALSE
      OBVIOUS
    <3>1. c[v] = NoColor /\ v \notin todo' /\ v \in ItmIdxs(d)
      BY <1>1, <1>9 DEF StaysUncolored, d
    <3> QED BY <1>1, <1>6, <3>1, Numbers DEF d
  <2>2. t \in Colored /\ color'[t] = color[t]
    BY <1>9, <2>1
  <2>3. \A u : StaysUncolored(t, u)' <=> StaysUncolored(t, u)
    BY <1>1, <2>1, <2>2 DEF StaysUncolored
  <2> QED BY <1>2, <2>2, <2>3 DEF ZerosBelow
<1> QED BY <1>3, <1>10, <1>11, <1>12, <1>13, <1>14, <1>15 DEF IInv

\* Vertex v of a stripe goes to another node, and what that leaves as it is.
Recolor(s, v, new) ==
  /\ new # color[s][v]
  /\ color' = [color EXCEPT ![s][v] = new]
  /\ load' = [load EXCEPT ![s] = Change(dag[s], color[s], load[s], v, new)]
  /\ UNCHANGED <<solution, scenario, place, dag, newNode, table>>

KeptExcept(s, v, new) ==
  /\ Colored' = Colored /\ DOMAIN color' = DOMAIN color
  /\ ColorsAre' /\ LoadsAre' /\ LoadsAreExact'
  /\ \A w \in Ids(dag[s]) : color'[s][w] = IF w = v THEN new ELSE color[s][w]
  /\ \A t \in Colored : t # s => color'[t] = color[t]
  /\ \E e \in Load : load' = [load EXCEPT ![s] = e]

LEMMA RecolorKeeps ==
  ASSUME IInv, NEW s \in Colored, NEW v \in ItmIdxs(dag[s]), NEW new \in Cluster,
         Recolor(s, v, new)
  PROVE  KeptExcept(s, v, new)
<1> DEFINE d == dag[s]
           c == [color[s] EXCEPT ![v] = new]
<1>1. /\ StripesAre /\ ColorsAre /\ LoadsAre /\ LoadsAreExact
      /\ Colored \in SUBSET (1 .. Stripes) /\ DOMAIN color = 1 .. Stripes
      /\ Stripes' = Stripes /\ UNCHANGED <<solution, scenario, place, dag, newNode, table>>
  BY StripesStay DEF IInv, OneByOne, Colored, Recolor
<1>2. /\ IsRepairDag(d) /\ color[s] \in Coloured(d) /\ v \in Ids(d)
      /\ v \notin ToSet(d.leaves) /\ v # REQUESTOR
      /\ ToSet(d.leaves) \in SUBSET Ids(d) /\ REQUESTOR \in Ids(d)
  BY <1>1, StripeIs, VerticesAre DEF ColorsAre
<1>3. c \in Coloured(d) /\ \A w \in Ids(d) : c[w] = IF w = v THEN new ELSE color[s][w]
  BY <1>2 DEF Coloured
<1>4. Change(d, color[s], load[s], v, new) = Evaluate(d, c)
  <2>1. load[s] = Evaluate(d, color[s])
    BY <1>1 DEF LoadsAreExact
  <2>2. new # color[s][v]
    BY DEF Recolor
  <2> QED BY <1>2, <2>1, <2>2, ChangeIsExact
<1>5. Evaluate(d, c) \in Load
  <2> HIDE DEF c
  <2> QED BY <1>2, <1>3, EvaluateIsLoad
<1>6. c # <<>>
  <2> HIDE DEF c
  <2> QED BY <1>2, <1>3, HasColors
<1>7. load' = [load EXCEPT ![s] = Evaluate(d, c)]
  BY <1>4 DEF Recolor
<1>8. color' = [color EXCEPT ![s] = c]
  BY DEF Recolor
<1> HIDE DEF c, d
<1>9. /\ color'[s] = c /\ \A t \in 1 .. Stripes : t # s => color'[t] = color[t]
      /\ DOMAIN color' = DOMAIN color
  BY <1>1, <1>8
<1>10. Colored' = Colored
  BY <1>1, <1>6, <1>9 DEF Colored
<1>11. ColorsAre'
  <2>1. SUFFICES ASSUME NEW t \in Colored
                 PROVE  /\ color'[t] \in Coloured(dag[t])
                        /\ \A w \in ToSet(dag[t].leaves) : color'[t][w] = LeafColor(place[t], w)
                        /\ color'[t][REQUESTOR] \in Cluster
                        /\ newNode[t] \in Cluster
    BY <1>1, <1>10 DEF ColorsAre
  <2>2. CASE t = s
    <3>1. \A w \in ToSet(d.leaves) : c[w] = color[s][w]
      BY <1>2, <1>3
    <3>2. c[REQUESTOR] = color[s][REQUESTOR]
      BY <1>2, <1>3
    <3>3. /\ \A w \in ToSet(d.leaves) : color[s][w] = LeafColor(place[s], w)
          /\ color[s][REQUESTOR] \in Cluster /\ newNode[s] \in Cluster
      BY <1>1 DEF ColorsAre, d
    <3> QED BY <1>3, <1>9, <2>2, <3>1, <3>2, <3>3 DEF d
  <2>3. CASE t # s
    BY <1>1, <1>9, <2>3 DEF ColorsAre
  <2> QED BY <2>2, <2>3
<1>12. LoadsAre'
  BY <1>1, <1>5, <1>7, <1>10 DEF LoadsAre
<1>13. LoadsAreExact'
  <2>1. \A t \in Colored : load'[t] = Evaluate(dag[t], color'[t])
    BY <1>1, <1>7, <1>9 DEF LoadsAreExact, LoadsAre, d
  <2> QED BY <1>1, <1>10, <2>1 DEF LoadsAreExact
<1>14. \E e \in Load : load' = [load EXCEPT ![s] = e]
  BY <1>5, <1>7
<1>15. \A w \in Ids(dag[s]) : color'[s][w] = IF w = v THEN new ELSE color[s][w]
  BY <1>3, <1>9 DEF d
<1> QED BY <1>1, <1>9, <1>10, <1>11, <1>12, <1>13, <1>14, <1>15 DEF KeptExcept

\* The vertices of a stripe that are not coloured yet change as its todo does.
LEMMA ColorVertexKeeps ==
  ASSUME IInv, ColorVertex
  PROVE  IInv'
<1>1. PICK v \in todo :
         LET c == ChooseColor(dag[cur], color[cur], load[cur], table, v)
         IN  /\ ToSet(dag[cur].child[v]) \cap todo = {}
             /\ todo' = todo \ {v}
             /\ IF c = color[cur][v] THEN UNCHANGED <<color, load>>
                ELSE /\ color' = [color EXCEPT ![cur][v] = c]
                     /\ load' = [load EXCEPT ![cur] = Change(dag[cur], color[cur], @, v, c)]
             /\ UNCHANGED <<solution, scenario, place, dag, cur, newNode, table, colorings>>
  BY DEF ColorVertex
<1> DEFINE d == dag[cur]
           c == ChooseColor(d, color[cur], load[cur], table, v)
<1>2. /\ StripesAre /\ OneByOne /\ ColorsAre /\ LoadsAre /\ LoadsAreExact
      /\ TableOfTheOthers /\ ZerosBelow
  BY DEF IInv
<1>3. StripesAre' /\ Stripes' = Stripes
  BY <1>1, <1>2, StripesStay
<1>4. /\ cur \in Colored /\ cur # 0 /\ cur \in 1 .. Stripes
      /\ v \in ItmIdxs(d) /\ color[cur][v] = NoColor
      /\ todo \in SUBSET ItmIdxs(d) /\ \A w \in todo : color[cur][w] = NoColor
      /\ solution # "dynamic"
  <2>1. todo # {}
    BY <1>1
  <2> QED BY <1>1, <1>2, <2>1 DEF OneByOne, Colored
<1>5. IsRepairDag(d) /\ color[cur] \in Coloured(d)
  BY <1>2, <1>4, StripeIs DEF ColorsAre
<1>6. /\ v \in Ids(d) /\ ItmIdxs(d) \in SUBSET Ids(d)
      /\ \A w \in Ids(d) : ToSet(d.child[w]) \in SUBSET Ids(d) /\ d.child[w] \in Seq(Ids(d))
  <2>1. v \in Ids(d)
    BY <1>4, <1>5, VerticesAre
  <2> QED BY <1>5, <2>1, VerticesAre, OneUse
<1>7. OfTheChildren(d, color[cur], v, c)
  <2> HIDE DEF d
  <2> QED BY <1>6, ChosenColor
<1>8. c \in Cluster \/ c = NoColor
  BY <1>5, <1>6, <1>7 DEF Coloured, OfTheChildren
<1> HIDE DEF c, d
<1>9. KeptExcept(cur, v, c)
  <2>1. CASE c = NoColor
    <3>1. UNCHANGED <<color, load>>
      BY <1>1, <1>4, <2>1 DEF c, d
    <3>2. Colored' = Colored
      BY <1>3, <3>1 DEF Colored
    <3>3. ColorsAre' /\ LoadsAre' /\ LoadsAreExact'
      BY <1>1, <1>2, <1>3, <3>1, <3>2 DEF ColorsAre, LoadsAre, LoadsAreExact
    <3>4. load' = [load EXCEPT ![cur] = load[cur]] /\ load[cur] \in Load
      BY <1>2, <1>4, <3>1 DEF LoadsAre
    <3> QED BY <1>4, <2>1, <3>1, <3>2, <3>3, <3>4 DEF KeptExcept
  <2>2. CASE c # NoColor
    <3>1. Recolor(cur, v, c) /\ c \in Cluster
      BY <1>1, <1>4, <1>8, <2>2 DEF c, d, Recolor
    <3> QED BY <1>4, <3>1, RecolorKeeps DEF d
  <2> QED BY <2>1, <2>2
<1>10. /\ Colored' = Colored /\ DOMAIN color' = DOMAIN color
       /\ ColorsAre' /\ LoadsAre' /\ LoadsAreExact'
       /\ \A w \in Ids(d) : color'[cur][w] = IF w = v THEN c ELSE color[cur][w]
       /\ \A t \in Colored : t # cur => color'[t] = color[t]
       /\ \E e \in Load : load' = [load EXCEPT ![cur] = e]
  BY <1>9 DEF KeptExcept, d
<1>11. OneByOne'
  <2>1. todo' \subseteq {w \in ItmIdxs(d) : color'[cur][w] = NoColor}
    BY <1>1, <1>4, <1>6, <1>10
  <2>2. DOMAIN color' = 1 .. Stripes' /\ cur' \in Colored' \cup {0}
    BY <1>1, <1>2, <1>3, <1>10 DEF OneByOne
  <2>3. Colored' = 1 .. Cardinality(Colored') /\ Cardinality(Colored') \in Nat
    <3>1. Colored = 1 .. Cardinality(Colored) /\ Cardinality(Colored) \in Nat
      BY <1>2 DEF OneByOne
    <3> HIDE DEF Colored
    <3> QED BY <1>10, <3>1
  <2> HIDE DEF Colored
  <2> QED BY <1>1, <1>4, <2>1, <2>2, <2>3 DEF OneByOne, d
<1>12. TableOfTheOthers'
  <2>1. [load' EXCEPT ![cur] = NoLoad] = [load EXCEPT ![cur] = NoLoad]
    BY <1>2, <1>10 DEF LoadsAre
  <2> QED BY <1>1, <1>2, <1>4, <2>1 DEF TableOfTheOthers
<1>13. ZerosBelow'
  <2> SUFFICES ASSUME NEW t \in Colored, NEW w \in ItmIdxs(dag[t]), StaysUncolored(t, w)'
               PROVE  /\ solution # "dynamic"
                      /\ \A u \in ToSet(dag[t].child[w]) : StaysUncolored(t, u)'
    BY <1>1, <1>10 DEF ZerosBelow
  <2>1. CASE t # cur
    <3>1. \A u : StaysUncolored(t, u)' <=> StaysUncolored(t, u)
      BY <1>1, <1>10, <2>1 DEF StaysUncolored
    <3> QED BY <1>2, <2>1, <3>1 DEF ZerosBelow
  <2>2. CASE t = cur /\ w = v
    <3>1. c = NoColor
      BY <1>6, <1>10, <2>2 DEF StaysUncolored
    <3>2. \A u \in ToSet(d.child[v]) : color'[cur][u] = NoColor /\ u \notin todo'
      BY <1>1, <1>6, <1>7, <1>10, <3>1 DEF d, OfTheChildren
    <3> QED BY <1>1, <1>4, <2>2, <3>2 DEF StaysUncolored, d
  <2>3. CASE t = cur /\ w # v
    <3>1. w \in Ids(d) /\ w \in ItmIdxs(d)
      BY <1>6, <2>3 DEF d
    <3>2. StaysUncolored(cur, w)
      BY <1>1, <1>10, <2>3, <3>1 DEF StaysUncolored
    <3>3. \A u \in ToSet(d.child[w]) : StaysUncolored(cur, u)
      BY <1>2, <1>4, <3>1, <3>2 DEF ZerosBelow, d
    <3>4. \A u \in ToSet(d.child[w]) : u # v /\ u \in Ids(d)
      BY <1>6, <3>1, <3>3 DEF StaysUncolored
    <3>5. \A u \in ToSet(d.child[w]) : color'[cur][u] = NoColor /\ u \notin todo'
      BY <1>1, <1>10, <3>3, <3>4 DEF StaysUncolored
    <3> QED BY <1>1, <1>4, <2>3, <3>5 DEF StaysUncolored, d
  <2> QED BY <2>1, <2>2, <2>3
<1> QED BY <1>3, <1>10, <1>11, <1>12, <1>13 DEF IInv

\* The stripe that is done is added to the table.
LEMMA StripeColoredKeeps ==
  ASSUME IInv, StripeColored
  PROVE  IInv'
<1> DEFINE e == Evaluate(dag[cur], color[cur])
<1>1. /\ StripesAre /\ OneByOne /\ ColorsAre /\ LoadsAre /\ LoadsAreExact
      /\ TableOfTheOthers /\ ZerosBelow
  BY DEF IInv
<1>2. /\ cur # 0 /\ todo = {} /\ table' = Plus(table, e) /\ cur' = 0
      /\ load' = IF solution = "balance" THEN [load EXCEPT ![cur] = e] ELSE load
      /\ UNCHANGED <<solution, scenario, place, dag, todo, color, newNode>>
  BY DEF StripeColored
<1>3. cur \in Colored /\ cur \in 1 .. Stripes
  BY <1>1, <1>2 DEF OneByOne, Colored
<1>4. e = load[cur] /\ e \in Load /\ load \in [1 .. Stripes -> Load] /\ table \in Load
  BY <1>1, <1>3 DEF LoadsAreExact, LoadsAre
<1> HIDE DEF e
<1>5. load' = load
  BY <1>2, <1>3, <1>4
<1>6. StripesAre' /\ Stripes' = Stripes /\ Colored' = Colored
  BY <1>1, <1>2, StripesStay DEF Colored
<1>7. OneByOne'
  <2>1. /\ DOMAIN color' = 1 .. Stripes' /\ cur' = 0 /\ todo' = {}
        /\ Colored = 1 .. Cardinality(Colored) /\ Cardinality(Colored) \in Nat
    BY <1>1, <1>2, <1>6 DEF OneByOne
  <2>2. Cardinality(Colored)' = Cardinality(Colored)
    BY <1>6
  <2> HIDE DEF Colored
  <2> QED BY <1>6, <2>1, <2>2 DEF OneByOne
<1>8. ColorsAre' /\ LoadsAreExact'
  BY <1>1, <1>2, <1>5, <1>6 DEF ColorsAre, LoadsAreExact
<1>9. LoadsAre'
  BY <1>1, <1>2, <1>4, <1>5, <1>6, PlusIs DEF LoadsAre
<1>10. TableOfTheOthers'
  <2>1. SumOfLoads([load EXCEPT ![cur] = e]) = Plus(SumOfLoads([load EXCEPT ![cur] = NoLoad]), e)
    BY <1>3, <1>4, StripesIsNat, SumOfOthers
  <2>2. [load EXCEPT ![cur] = e] = load
    BY <1>3, <1>4
  <2> QED BY <1>1, <1>2, <1>5, <2>1, <2>2 DEF TableOfTheOthers
<1>11. ZerosBelow'
  <2>1. ASSUME NEW t \in Colored
        PROVE  \A v : StaysUncolored(t, v)' <=> StaysUncolored(t, v)
    <3>1. t # 0
      BY <1>1 DEF Colored
    <3> QED BY <1>2, <3>1 DEF StaysUncolored
  <2> QED BY <1>1, <1>2, <1>6, <2>1 DEF ZerosBelow
<1> QED BY <1>6, <1>7, <1>8, <1>9, <1>10, <1>11 DEF IInv

\* A vertex of the one stripe of DynamicSolution is moved.
LEMMA MoveVertexKeeps ==
  ASSUME IInv, MoveVertex
  PROVE  IInv'
<1>1. /\ StripesAre /\ OneByOne /\ ColorsAre /\ LoadsAre /\ LoadsAreExact
      /\ TableOfTheOthers /\ ZerosBelow
  BY DEF IInv
<1>2. /\ solution = "dynamic" /\ cur = 0
      /\ UNCHANGED <<solution, scenario, place, dag, cur, todo, newNode, table>>
  BY DEF MoveVertex
<1>0. PICK s \in Colored : \E v \in ItmIdxs(dag[s]), n \in Cluster : Recolor(s, v, n)
  <2>1. PICK s \in Colored : \E v \in ItmIdxs(dag[s]), n \in Agents \cup {newNode[s]} :
           /\ n \notin {fail_node_id, color[s][v]}
           /\ color' = [color EXCEPT ![s][v] = n]
           /\ load' = [load EXCEPT ![s] = Change(dag[s], color[s], load[s], v, n)]
    BY DEF MoveVertex
  <2>2. Agents \cup {newNode[s]} \in SUBSET Cluster
    BY <1>1, Numbers DEF ColorsAre
  <2>3. PICK v \in ItmIdxs(dag[s]), n \in Agents \cup {newNode[s]} :
           /\ n \notin {fail_node_id, color[s][v]}
           /\ color' = [color EXCEPT ![s][v] = n]
           /\ load' = [load EXCEPT ![s] = Change(dag[s], color[s], load[s], v, n)]
    BY <2>1
  <2>4. Recolor(s, v, n) /\ n \in Cluster
    BY <1>2, <2>2, <2>3 DEF Recolor
  <2> QED BY <2>4
<1>3. PICK v \in ItmIdxs(dag[s]), n \in Cluster : Recolor(s, v, n)
  BY <1>0
<1>4. KeptExcept(s, v, n)
  BY <1>3, RecolorKeeps
<1>5. /\ Colored' = Colored /\ DOMAIN color' = DOMAIN color
      /\ ColorsAre' /\ LoadsAre' /\ LoadsAreExact'
      /\ \A w \in Ids(dag[s]) : color'[s][w] = IF w = v THEN n ELSE color[s][w]
      /\ \A t \in Colored : t # s => color'[t] = color[t]
  BY <1>4 DEF KeptExcept
<1>6. StripesAre' /\ Stripes' = Stripes
  BY <1>1, <1>2, StripesStay
<1>7. OneByOne'
  <2>1. /\ DOMAIN color' = 1 .. Stripes' /\ cur' = 0 /\ todo' = {}
        /\ Colored = 1 .. Cardinality(Colored) /\ Cardinality(Colored) \in Nat
    BY <1>1, <1>2, <1>5, <1>6 DEF OneByOne
  <2>2. Cardinality(Colored)' = Cardinality(Colored)
    BY <1>5
  <2> HIDE DEF Colored
  <2> QED BY <1>5, <1>6, <2>1, <2>2 DEF OneByOne
<1>8. TableOfTheOthers'
  BY <1>2 DEF TableOfTheOthers
<1>9. ZerosBelow'
  <2> SUFFICES ASSUME NEW t \in Colored, NEW w \in ItmIdxs(dag[t]), StaysUncolored(t, w)'
               PROVE  FALSE
    BY <1>2, <1>5 DEF ZerosBelow
  <2>1. w \in Ids(dag[t])
    BY DEF ItmIdxs
  <2>2. color[t][w] = NoColor
    BY <1>5, <2>1, Numbers DEF StaysUncolored
  <2>3. StaysUncolored(t, w)
    BY <1>1, <1>2, <2>2 DEF StaysUncolored, OneByOne
  <2> QED BY <1>1, <1>2, <2>3 DEF ZerosBelow
<1> QED BY <1>5, <1>6, <1>7, <1>8, <1>9 DEF IInv

\* The next stripe, and a stripe once more.
LEMMA ColorStripeKeeps ==
  ASSUME IInv, ColorStripe \/ ColorAgain
  PROVE  IInv'
<1>1. OneByOne /\ LoadsAre /\ TableOfTheOthers
  BY DEF IInv
<1> DEFINE k == Cardinality(Colored)
<1>2. /\ Colored = 1 .. k /\ k \in Nat /\ Colored \in SUBSET (1 .. Stripes)
      /\ load \in [1 .. Stripes -> Load] /\ table \in Load
      /\ \A s \in (1 .. Stripes) \ Colored : load[s] = NoLoad
  BY <1>1 DEF OneByOne, LoadsAre, Colored
<1>3. CASE ColorStripe
  <2> DEFINE s == k + 1
  <2>1. /\ cur = 0 /\ k < Stripes /\ Begin(s, table) /\ table' = table
        /\ UNCHANGED <<solution, scenario, place, dag>>
    BY <1>3 DEF ColorStripe
  <2> HIDE DEF Colored, k
  <2>2. s \in 1 .. Stripes /\ s \notin Colored /\ Colored \cup {s} = 1 .. s /\ s \in Nat
    BY <1>2, <2>1, StripesIsNat
  <2>3. Cardinality(Colored \cup {s}) = s
    <3> HIDE DEF s
    <3>1. Cardinality(1 .. s) = s
      BY <2>2, FS_Interval
    <3> QED BY <2>2, <3>1, Zenon
  <2>4. solution # "dynamic" => table = SumOfLoads([load EXCEPT ![s] = NoLoad])
    <3>1. [load EXCEPT ![s] = NoLoad] = load
      BY <1>2, <2>2
    <3> QED BY <1>1, <2>1, <3>1 DEF TableOfTheOthers
  <2> HIDE DEF s
  <2> QED BY <1>2, <2>1, <2>2, <2>3, <2>4, BeginKeeps
<1>4. CASE ColorAgain
  <2>1. PICK s \in Colored : /\ table' = SumOfLoads([load EXCEPT ![s] = NoLoad])
                             /\ Begin(s, table')
    BY <1>4 DEF ColorAgain
  <2>2. solution = "parallel" /\ cur = 0 /\ UNCHANGED <<solution, scenario, place, dag>>
    BY <1>4 DEF ColorAgain
  <2>3. s \in 1 .. Stripes
    BY <1>2
  <2>4. [load EXCEPT ![s] = NoLoad] \in [1 .. Stripes -> Load]
    BY <1>2, PlusIs
  <2>5. table' \in Load
    <3> DEFINE L == [load EXCEPT ![s] = NoLoad]
    <3> HIDE DEF L
    <3>1. SumOfLoads(L) \in Load
      <4>1. PICK p \in [0 .. Stripes -> Load] : p[Stripes] = SumOfLoads(L)
        BY <2>4, StripesIsNat, SumAlong DEF L
      <4>2. Stripes \in 0 .. Stripes
        BY StripesIsNat
      <4> QED BY <4>1, <4>2
    <3> QED BY <2>1, <3>1 DEF L
  <2> HIDE DEF Colored
  <2>6. Colored \cup {s} = Colored
    OBVIOUS
  <2>7. Colored \cup {s} = 1 .. Cardinality(Colored \cup {s}) /\ Cardinality(Colored \cup {s}) \in Nat
    BY <1>2, <2>6
  <2> QED BY <2>1, <2>2, <2>3, <2>5, <2>7, BeginKeeps
<1> QED BY <1>3, <1>4

(***************************************************************************)
(* The invariant holds: of every step that takes a stripe or a vertex, and *)
(* of moving a vertex of a finished colouring.                             *)
(***************************************************************************)
THEOREM Invariance == Spec => []IInv
<1>1. Init => IInv
  BY InitHolds
<1>2. IInv /\ [Next]_vars => IInv'
  <2> SUFFICES ASSUME IInv, [Next]_vars PROVE IInv'
    OBVIOUS
  <2>1. CASE ColorStripe \/ ColorAgain
    BY <2>1, ColorStripeKeeps
  <2>2. CASE ColorVertex
    BY <2>2, ColorVertexKeeps
  <2>3. CASE StripeColored
    BY <2>3, StripeColoredKeeps
  <2>4. CASE MoveVertex
    BY <2>4, MoveVertexKeeps
  <2>5. CASE Done \/ UNCHANGED vars
    <3>1. UNCHANGED <<solution, scenario, place, dag, cur, todo, color, load, newNode, table>>
      BY <2>5 DEF Done, vars
    <3>2. Stripes' = Stripes /\ Colored' = Colored
      BY <3>1 DEF Stripes, Colored
    <3>3. /\ StripesAre /\ OneByOne /\ ColorsAre /\ LoadsAre /\ LoadsAreExact
          /\ TableOfTheOthers /\ ZerosBelow
      BY DEF IInv
    <3>4. StripesAre'
      BY <3>1, <3>3, StripesStay
    <3>5. OneByOne'
      <4>1. Cardinality(Colored)' = Cardinality(Colored)
        BY <3>2
      <4> HIDE DEF Colored
      <4> QED BY <3>1, <3>2, <3>3, <4>1 DEF OneByOne
    <3>6. ColorsAre' /\ LoadsAre' /\ LoadsAreExact' /\ TableOfTheOthers'
      BY <3>1, <3>2, <3>3 DEF ColorsAre, LoadsAre, LoadsAreExact, TableOfTheOthers
    <3>7. ZerosBelow'
      BY <3>1, <3>2, <3>3 DEF ZerosBelow, StaysUncolored
    <3> QED BY <3>4, <3>5, <3>6, <3>7 DEF IInv
  <2> QED BY <2>1, <2>2, <2>3, <2>4, <2>5 DEF Next
<1> QED BY <1>1, <1>2, PTL DEF Spec

(***************************************************************************)
(* The counts that changeColor keeps are those of evaluateColoring, after  *)
(* every step of every solution.                                           *)
(***************************************************************************)
THEOREM LoadsExact == Spec => []LoadsAreExact
<1>1. IInv => LoadsAreExact
  BY DEF IInv
<1> QED BY <1>1, Invariance, PTL

(***************************************************************************)
(* The table the next repair node is chosen by is the load of the batch so *)
(* far, also when a stripe is coloured a second time.                      *)
(***************************************************************************)
THEOREM TableSum == Spec => []TableIsTheSum
<1>1. IInv => TableIsTheSum
  BY DEF IInv, TableOfTheOthers, TableIsTheSum
<1> QED BY <1>1, Invariance, PTL

(***************************************************************************)
(* A set that holds the children of its vertices holds all that its        *)
(* vertices are made of.  The recursion of Within is defined up to any n,  *)
(* since it can be continued by one.                                       *)
(***************************************************************************)
Reaches(W, d, v, n) ==
  W = [m \in 0 .. n |-> IF m = 0 THEN {v}
                        ELSE W[m - 1] \cup UNION {ToSet(d.child[u]) : u \in W[m - 1]}]

LEMMA ReachesExists ==
  ASSUME NEW d, NEW v, NEW n \in Nat
  PROVE  \E W : Reaches(W, d, v, n)
<1> DEFINE S == {m \in 0 .. n : \E W : Reaches(W, d, v, m)}
           Next1(X) == X \cup UNION {ToSet(d.child[u]) : u \in X}
<1>0. \A W, m : Reaches(W, d, v, m) <=> W = [k \in 0 .. m |-> IF k = 0 THEN {v} ELSE Next1(W[k - 1])]
  BY DEF Reaches
<1> HIDE DEF Next1
<1>1. 0 \in S
  <2> DEFINE W == [k \in 0 .. 0 |-> {v}]
  <2>1. W = [k \in 0 .. 0 |-> IF k = 0 THEN {v} ELSE Next1(W[k - 1])]
    OBVIOUS
  <2>2. Reaches(W, d, v, 0)
    BY <1>0, <2>1
  <2> QED BY <2>2
<1>2. \A m \in 0 .. n - 1 : m \in S => m + 1 \in S
  <2> SUFFICES ASSUME NEW m \in 0 .. n - 1, m \in S PROVE m + 1 \in S
    OBVIOUS
  <2>1. PICK W : Reaches(W, d, v, m)
    OBVIOUS
  <2>2. W = [k \in 0 .. m |-> IF k = 0 THEN {v} ELSE Next1(W[k - 1])]
    BY <1>0, <2>1
  <2> DEFINE V == [k \in 0 .. m + 1 |-> IF k = m + 1 THEN Next1(W[m]) ELSE W[k]]
  <2>3. \A k \in 0 .. m : V[k] = W[k] /\ W[k] = IF k = 0 THEN {v} ELSE Next1(W[k - 1])
    <3>1. \A k \in 0 .. m : k \in 0 .. m + 1 /\ k # m + 1
      OBVIOUS
    <3> QED BY <2>2, <3>1
  <2>4. \A k \in 0 .. m + 1 : k = m + 1 \/ k \in 0 .. m
    OBVIOUS
  <2>5. \A k \in 0 .. m + 1 : k # 0 => k - 1 \in 0 .. m
    OBVIOUS
  <2>6. V[m + 1] = Next1(W[m]) /\ m \in 0 .. m /\ (m + 1) - 1 = m /\ m + 1 # 0
    OBVIOUS
  <2>7. V = [k \in 0 .. m + 1 |-> V[k]]
    OBVIOUS
  <2> HIDE DEF V
  <2>8. \A k \in 0 .. m + 1 : V[k] = IF k = 0 THEN {v} ELSE Next1(V[k - 1])
    BY <2>3, <2>4, <2>5, <2>6
  <2>9. V = [k \in 0 .. m + 1 |-> IF k = 0 THEN {v} ELSE Next1(V[k - 1])]
    BY <2>7, <2>8
  <2>10. Reaches(V, d, v, m + 1)
    BY <2>9, Zenon DEF Reaches, Next1
  <2>11. m + 1 \in 0 .. n
    OBVIOUS
  <2> QED BY <2>10, <2>11
<1>3. n \in S
  <2> HIDE DEF S
  <2>1. n \in 0 .. n
    OBVIOUS
  <2> QED BY <1>1, <1>2, <2>1, UpToN
<1> QED BY <1>3

LEMMA WithinClosed ==
  ASSUME NEW d, NEW v, NEW n \in Nat, NEW K, v \in K,
         \A u \in K : ToSet(d.child[u]) \in SUBSET K
  PROVE  Within(d, v, n) \in SUBSET K
<1> DEFINE W == CHOOSE X : Reaches(X, d, v, n)
           S == {m \in 0 .. n : W[m] \in SUBSET K}
<1>1. Within(d, v, n) = W[n]
  BY DEF Within, Reaches
<1>2. Reaches(W, d, v, n)
  BY ReachesExists
<1> HIDE DEF W
<1>3. W[0] = {v}
  BY <1>2 DEF Reaches
<1>4. ASSUME NEW m \in 0 .. n - 1
      PROVE  W[m + 1] = W[m] \cup UNION {ToSet(d.child[u]) : u \in W[m]}
  <2>1. m + 1 \in 0 .. n /\ m + 1 # 0 /\ (m + 1) - 1 = m
    OBVIOUS
  <2> QED BY <1>2, <2>1 DEF Reaches
<1>5. 0 \in S
  BY <1>3
<1>6. \A m \in 0 .. n - 1 : m \in S => m + 1 \in S
  <2> SUFFICES ASSUME NEW m \in 0 .. n - 1, m \in S PROVE m + 1 \in S
    OBVIOUS
  <2>1. m + 1 \in 0 .. n
    OBVIOUS
  <2>2. UNION {ToSet(d.child[u]) : u \in W[m]} \in SUBSET K
    OBVIOUS
  <2> QED BY <1>4, <2>1, <2>2
<1>7. n \in S
  <2> HIDE DEF S
  <2>1. n \in 0 .. n
    OBVIOUS
  <2> QED BY <1>5, <1>6, <2>1, UpToN
<1> QED BY <1>1, <1>7

(***************************************************************************)
(* A vertex that is left without a node is zero: whatever it is made of is *)
(* a virtual block.  The agents rely on it.                                *)
(***************************************************************************)
THEOREM UncoloredZero == Spec => []UncoloredIsZero
<1>1. ASSUME IInv PROVE UncoloredIsZero
  <2>1. StripesAre /\ ColorsAre /\ ZerosBelow
    BY <1>1 DEF IInv
  <2> SUFFICES ASSUME NEW s \in Colored \ {cur}, NEW v \in Ids(dag[s]), color[s][v] = NoColor,
                      NEW u \in MadeOf(dag[s], v), dag[s].child[u] = <<>>
               PROVE  u \div ecw >= ecn
    BY DEF UncoloredIsZero
  <2> DEFINE d == dag[s]
             K == {w \in Ids(d) : color[s][w] = NoColor}
  <2>2. s \in 1 .. Stripes
    BY DEF Colored
  <2>3. IsRepairDag(d) /\ place[s] \in [Blocks -> Agents]
    BY <2>1, <2>2, StripeIs
  <2>4. /\ \A w \in ToSet(d.leaves) : color[s][w] = LeafColor(place[s], w)
        /\ color[s][REQUESTOR] \in Cluster
    BY <2>1 DEF ColorsAre
  <2>5. \A w \in K : ToSet(d.child[w]) \in SUBSET K
    <3> TAKE w \in K
    <3>1. w \in ItmIdxs(d) \/ w \in ToSet(d.leaves)
      BY <2>3, <2>4, VerticesAre, Numbers
    <3>2. CASE w \in ItmIdxs(d)
      <4>1. \A x \in ToSet(d.child[w]) : color[s][x] = NoColor
        BY <2>1, <3>2 DEF ZerosBelow, StaysUncolored
      <4>2. ToSet(d.child[w]) \in SUBSET Ids(d)
        BY <2>3, VerticesAre
      <4> QED BY <4>1, <4>2
    <3>3. CASE w \in ToSet(d.leaves)
      <4>1. d.child[w] = <<>>
        BY <2>3, <3>3, VerticesAre
      <4> QED BY <4>1 DEF ToSet
    <3> QED BY <3>1, <3>2, <3>3
  <2>6. MadeOf(d, v) \in SUBSET K
    <3>1. Cardinality(Ids(d)) \in Nat
      BY <2>3, FS_CardinalityType DEF IsRepairDag
    <3>2. v \in K
      OBVIOUS
    <3> HIDE DEF K, d
    <3> QED BY <2>5, <3>1, <3>2, WithinClosed DEF MadeOf
  <2>7. u \in Ids(d) /\ color[s][u] = NoColor
    BY <2>6
  <2>8. u \in ToSet(d.leaves) /\ u \in Nat
    BY <2>3, <2>7, VerticesAre
  <2> QED BY <2>3, <2>4, <2>7, <2>8, LeafColors
<1> QED BY <1>1, Invariance, PTL
=============================================================================

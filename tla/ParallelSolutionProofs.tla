----------------------- MODULE ParallelSolutionProofs -----------------------
(***************************************************************************)
(* Proofs about ParallelSolution: every stripe that has lost a block is in *)
(* one batch, and the search compares with what the head batch loads, for  *)
(* any stripes, agents and loads.                                          *)
(***************************************************************************)
EXTENDS ParallelSolution, FiniteSetTheorems, WellFoundedInduction, TLAPS
-----------------------------------------------------------------------------
(***************************************************************************)
(* Numbers and sets of numbers.                                            *)
(***************************************************************************)
LEMMA LeastElement ==
  ASSUME NEW S \in SUBSET Nat, S # {}
  PROVE  \E x \in S : \A y \in S : x <= y
<1> DEFINE R == OpToRel(<, Nat)
<1>1. IsWellFoundedOn(R, Nat)
  BY NatLessThanWellFounded
<1>2. PICK x \in S : \A y \in S : ~(<<y, x>> \in R)
  BY <1>1, WFMin, Zenon
<1>3. \A y \in S : ~(y < x)
  BY <1>2 DEF OpToRel
<1> QED BY <1>3

\* A set of numbers that goes on from each of its elements up to n.
LEMMA UpToN ==
  ASSUME NEW n \in Nat, NEW S, 0 \in S, \A m \in 0 .. n - 1 : m \in S => m + 1 \in S
  PROVE  \A m \in 0 .. n : m \in S
<1> DEFINE Out == {m \in 0 .. n : m \notin S}
<1>1. ASSUME Out # {} PROVE FALSE
  <2> Out \in SUBSET Nat
    OBVIOUS
  <2>1. PICK x \in Out : \A y \in Out : x <= y
    <3> HIDE DEF Out
    <3> QED BY <1>1, LeastElement
  <2>2. x \in 1 .. n /\ x - 1 \notin Out
    BY <2>1
  <2>3. x - 1 \in 0 .. n - 1 /\ x - 1 \in S
    BY <2>2
  <2>4. (x - 1) + 1 \in S
    BY <2>3
  <2>5. (x - 1) + 1 = x
    BY <2>2
  <2> QED BY <2>1, <2>4, <2>5
<1>2. \A m \in 0 .. n : m \notin Out
  BY <1>1
<1> HIDE DEF Out
<1> QED BY <1>2 DEF Out

LEMMA MaxOfInterval ==
  ASSUME NEW m \in Nat
  PROVE  Max(1 .. m + 1) = m + 1 /\ (1 .. m + 1) \ {m + 1} = 1 .. m /\ 1 .. m + 1 # {}
<1>1. m + 1 \in 1 .. m + 1 /\ \A y \in 1 .. m + 1 : m + 1 >= y
  OBVIOUS
<1>2. \A x \in 1 .. m + 1 : x >= m + 1 => x = m + 1
  OBVIOUS
<1>3. Max(1 .. m + 1) = m + 1
  BY <1>1, <1>2 DEF Max
<1> QED BY <1>1, <1>3

(***************************************************************************)
(* FoldLeft is a recursion over the sets of indices.  F[i] is what it does *)
(* with the entry i.  The function it is defined by exists, since it can   *)
(* be made for the indices up to m, for each m.                            *)
(***************************************************************************)
Folds(g, S, base, F) ==
  g = [s \in S |-> IF s = {} THEN base ELSE F[Max(s)][g[s \ {Max(s)}]]]

LEMMA FoldExists ==
  ASSUME NEW n \in Nat, NEW A, NEW base \in A, NEW F \in [1 .. n -> [A -> A]]
  PROVE  \E g \in [SUBSET (1 .. n) -> A] : Folds(g, SUBSET (1 .. n), base, F)
<1> DEFINE S == {m \in 0 .. n : \E g \in [SUBSET (1 .. m) -> A] : Folds(g, SUBSET (1 .. m), base, F)}
<1>1. 0 \in S
  <2> DEFINE g == [s \in SUBSET (1 .. 0) |-> base]
  <2>1. \A s \in SUBSET (1 .. 0) : s = {}
    OBVIOUS
  <2>2. g \in [SUBSET (1 .. 0) -> A] /\ Folds(g, SUBSET (1 .. 0), base, F)
    BY <2>1 DEF Folds
  <2> QED BY <2>2
<1>2. ASSUME NEW m \in 0 .. n - 1, m \in S PROVE m + 1 \in S
  <2>1. PICK g \in [SUBSET (1 .. m) -> A] : Folds(g, SUBSET (1 .. m), base, F)
    BY <1>2
  <2> DEFINE k == m + 1
             h == [s \in SUBSET (1 .. k) |-> IF k \in s THEN F[k][g[s \ {k}]] ELSE g[s]]
  <2>2. k \in 1 .. n /\ m \in Nat /\ k \in Nat /\ k = m + 1
    OBVIOUS
  <2>3. ASSUME NEW s \in SUBSET (1 .. k)
        PROVE  /\ s \ {k} \in SUBSET (1 .. m)
               /\ k \notin s => s \in SUBSET (1 .. m)
               /\ k \in s => Max(s) = k
    <3>1. k \in s => (\A y \in s : k >= y)
      BY <2>2
    <3>2. \A x \in s : k \in s /\ x >= k => x = k
      BY <2>2
    <3>3. k \in s => Max(s) = k
      BY <3>1, <3>2 DEF Max
    <3> QED BY <2>2, <3>3
  <2>4. \A s \in SUBSET (1 .. m) : s \in SUBSET (1 .. k) /\ k \notin s
    BY <2>2
  <2> HIDE DEF k
  <2>5. h \in [SUBSET (1 .. k) -> A]
    BY <2>2, <2>3
  <2>6. \A s \in SUBSET (1 .. m) : h[s] = g[s]
    BY <2>4
  <2>7. ASSUME NEW s \in SUBSET (1 .. k)
        PROVE  h[s] = IF s = {} THEN base ELSE F[Max(s)][h[s \ {Max(s)}]]
    <3>1. CASE k \in s
      BY <2>3, <2>6, <3>1
    <3>2. CASE k \notin s
      <4>1. h[s] = g[s] /\ s \in SUBSET (1 .. m)
        BY <2>3, <3>2
      <4>2. s # {} => s \ {Max(s)} \in SUBSET (1 .. m)
        BY <4>1
      <4>3. g[s] = IF s = {} THEN base ELSE F[Max(s)][g[s \ {Max(s)}]]
        BY <2>1, <4>1 DEF Folds
      <4> QED BY <2>6, <4>1, <4>2, <4>3
    <3> QED BY <3>1, <3>2
  <2>8. Folds(h, SUBSET (1 .. k), base, F)
    <3>1. h = [s \in SUBSET (1 .. k) |-> h[s]]
      OBVIOUS
    <3> HIDE DEF h
    <3> QED BY <2>7, <3>1 DEF Folds
  <2> HIDE DEF h
  <2>9. k \in S
    BY <2>2, <2>5, <2>8
  <2> QED BY <2>9 DEF k
<1>3. n \in S
  <2> HIDE DEF S
  <2>1. n \in 0 .. n
    OBVIOUS
  <2> QED BY <1>1, <1>2, <2>1, UpToN
<1> QED BY <1>3

\* The same of a function that is not known to map into A.
Recurs(g, n, A, base, F) ==
  /\ g[{}] = base
  /\ \A s \in SUBSET (1 .. n) :
       s # {} /\ g[s \ {Max(s)}] \in A => g[s] = F[Max(s)][g[s \ {Max(s)}]]

Climbs(p, n, base, F, top) ==
  /\ p[0] = base /\ p[n] = top
  /\ \A m \in 0 .. n - 1 : p[m + 1] = F[m + 1][p[m]]

\* The recursion, along the indices.
LEMMA FoldsUpwards ==
  ASSUME NEW n \in Nat, NEW A, NEW base \in A, NEW F \in [1 .. n -> [A -> A]],
         NEW g, Recurs(g, n, A, base, F)
  PROVE  \E p \in [0 .. n -> A] : Climbs(p, n, base, F, g[1 .. n])
<1> DEFINE p == [m \in 0 .. n |-> g[1 .. m]]
           S == {m \in 0 .. n : p[m] \in A}
<1>1. \A m \in 0 .. n : 1 .. m \in SUBSET (1 .. n)
  OBVIOUS
<1>2. p[0] = base
  <2>1. 1 .. 0 = {} /\ 0 \in 0 .. n
    OBVIOUS
  <2> QED BY <2>1 DEF Recurs
<1>3. \A m \in 0 .. n - 1 : p[m] \in A => p[m + 1] = F[m + 1][p[m]] /\ p[m + 1] \in A
  <2> SUFFICES ASSUME NEW m \in 0 .. n - 1, p[m] \in A
               PROVE  p[m + 1] = F[m + 1][p[m]] /\ p[m + 1] \in A
    OBVIOUS
  <2>1. m \in Nat /\ m \in 0 .. n /\ m + 1 \in 0 .. n /\ m + 1 \in 1 .. n
    OBVIOUS
  <2>2. Max(1 .. m + 1) = m + 1 /\ (1 .. m + 1) \ {m + 1} = 1 .. m /\ 1 .. m + 1 # {}
    BY <2>1, MaxOfInterval
  <2>3. 1 .. m + 1 \in SUBSET (1 .. n)
    BY <1>1, <2>1
  <2>4. g[1 .. m] \in A
    BY <2>1
  <2>5. g[1 .. m + 1] = F[m + 1][g[1 .. m]]
    BY <2>2, <2>3, <2>4 DEF Recurs
  <2> QED BY <2>1, <2>4, <2>5
<1>4. \A m \in 0 .. n : p[m] \in A
  <2> HIDE DEF p
  <2>1. 0 \in S
    BY <1>2
  <2>2. \A m \in 0 .. n - 1 : m \in S => m + 1 \in S
    BY <1>3
  <2> HIDE DEF S
  <2>3. \A m \in 0 .. n : m \in S
    BY <2>1, <2>2, UpToN
  <2> QED BY <2>3 DEF S
<1>5. n \in 0 .. n /\ \A m \in 0 .. n - 1 : m \in 0 .. n
  OBVIOUS
<1>6. p \in [0 .. n -> A] /\ p[n] = g[1 .. n]
  BY <1>4, <1>5
<1> HIDE DEF p
<1>7. \A m \in 0 .. n - 1 : p[m + 1] = F[m + 1][p[m]]
  BY <1>3, <1>4, <1>5
<1> QED BY <1>2, <1>6, <1>7 DEF Climbs

\* A set of indices that is not empty has a greatest.
LEMMA MaxIsIn ==
  ASSUME NEW n \in Nat, NEW s \in SUBSET (1 .. n), s # {}
  PROVE  Max(s) \in s /\ s \ {Max(s)} \in SUBSET (1 .. n) /\ \A e \in s : Max(s) >= e
<1> DEFINE T == {n - x : x \in s}
<1>1. T \in SUBSET Nat /\ T # {}
  <2>1. \A x \in s : n - x \in Nat
    OBVIOUS
  <2>2. PICK x \in s : TRUE
    OBVIOUS
  <2>3. n - x \in T
    OBVIOUS
  <2> QED BY <2>1, <2>3
<1>2. PICK y \in T : \A z \in T : y <= z
  <2> HIDE DEF T
  <2> QED BY <1>1, LeastElement
<1>3. PICK x \in s : y = n - x
  BY <1>2
<1>4. \A z \in s : x >= z
  <2> TAKE z \in s
  <2>1. n - z \in T /\ x \in Int /\ z \in Int
    OBVIOUS
  <2>2. n - x <= n - z
    BY <1>2, <1>3, <2>1
  <2> HIDE DEF T
  <2> QED BY <2>1, <2>2
<1>5. Max(s) \in s /\ \A e \in s : Max(s) >= e
  BY <1>4 DEF Max
<1> QED BY <1>5
-----------------------------------------------------------------------------
(***************************************************************************)
(* Sums of loads.                                                          *)
(***************************************************************************)
Load == [Cluster -> [in : Nat, out : Nat]]

LEMMA PlusIs ==
  /\ NoLoad \in Load
  /\ \A s, t \in Load : Plus(s, t) \in Load
  /\ \A s \in Load : Plus(s, NoLoad) = s
  /\ \A s, t, u \in Load : Plus(Plus(s, t), u) = Plus(Plus(s, u), t)
<1>1. NoLoad \in Load
  BY DEF NoLoad, Load
<1>2. \A s, t \in Load : Plus(s, t) \in Load
  BY DEF Plus, Load
<1>3. ASSUME NEW s \in Load PROVE Plus(s, NoLoad) = s
  <2>1. \A k \in Cluster : [in |-> s[k].in + 0, out |-> s[k].out + 0] = s[k]
    BY DEF Load
  <2>2. s = [k \in Cluster |-> s[k]]
    BY DEF Load
  <2>3. Plus(s, NoLoad) = [k \in Cluster |-> [in |-> s[k].in + 0, out |-> s[k].out + 0]]
    BY DEF Plus, NoLoad
  <2> QED BY <2>1, <2>2, <2>3, Zenon
<1>4. ASSUME NEW s \in Load, NEW t \in Load, NEW u \in Load
      PROVE  Plus(Plus(s, t), u) = Plus(Plus(s, u), t)
  <2>1. \A k \in Cluster : /\ (s[k].in + t[k].in) + u[k].in = (s[k].in + u[k].in) + t[k].in
                           /\ (s[k].out + t[k].out) + u[k].out = (s[k].out + u[k].out) + t[k].out
    BY DEF Load
  <2> QED BY <2>1 DEF Plus
<1> QED BY <1>1, <1>2, <1>3, <1>4

\* The sum, along the stripes.
LEMMA SumAlong ==
  ASSUME NEW n \in Nat, NEW L \in [1 .. n -> Load]
  PROVE  \E p \in [0 .. n -> Load] : /\ p[0] = NoLoad /\ p[n] = SumOfLoads(L)
                                     /\ \A m \in 0 .. n - 1 : p[m + 1] = Plus(p[m], L[m + 1])
<1> DEFINE F == [i \in 1 .. n |-> [a \in Load |-> Plus(a, L[i])]]
           S == SUBSET (1 .. n)
           Sums(g) == g = [s \in S |-> IF s = {} THEN NoLoad ELSE Plus(g[s \ {Max(s)}], L[Max(s)])]
           iter == CHOOSE g : Sums(g)
<1>1. SumOfLoads(L) = iter[1 .. n]
  <2>1. DOMAIN L = 1 .. n
    OBVIOUS
  <2> QED BY <2>1 DEF SumOfLoads, FoldLeft, MapThenFoldSet
<1>2. F \in [1 .. n -> [Load -> Load]]
  BY PlusIs
<1>3. PICK g \in [S -> Load] : Folds(g, S, NoLoad, F)
  <2> HIDE DEF F
  <2> QED BY <1>2, PlusIs, FoldExists
<1>4. \A s \in S : s # {} => Max(s) \in 1 .. n /\ s \ {Max(s)} \in S
  BY MaxIsIn
<1>5. Sums(g)
  <2>1. ASSUME NEW s \in S, s # {}
        PROVE  F[Max(s)][g[s \ {Max(s)}]] = Plus(g[s \ {Max(s)}], L[Max(s)])
    <3>1. Max(s) \in 1 .. n /\ g[s \ {Max(s)}] \in Load
      BY <1>3, <1>4, <2>1
    <3> QED BY <3>1
  <2> HIDE DEF S, F
  <2>2. g = [s \in S |-> IF s = {} THEN NoLoad ELSE F[Max(s)][g[s \ {Max(s)}]]]
    BY <1>3 DEF Folds
  <2> QED BY <2>1, <2>2
<1>6. Sums(iter)
  <2> HIDE DEF Sums
  <2> QED BY <1>5
<1>7. /\ iter[{}] = NoLoad
      /\ \A s \in S : s # {} => iter[s] = Plus(iter[s \ {Max(s)}], L[Max(s)])
  <2>1. {} \in S
    OBVIOUS
  <2> HIDE DEF iter, S
  <2> QED BY <1>6, <2>1
<1> HIDE DEF iter
<1>8. \A s \in S : s # {} /\ iter[s \ {Max(s)}] \in Load =>
        iter[s] = F[Max(s)][iter[s \ {Max(s)}]]
  BY <1>4, <1>7
<1>9. PICK p \in [0 .. n -> Load] : Climbs(p, n, NoLoad, F, iter[1 .. n])
  <2> HIDE DEF F
  <2>1. Recurs(iter, n, Load, NoLoad, F)
    BY <1>7, <1>8 DEF Recurs
  <2> QED BY <1>2, <2>1, PlusIs, FoldsUpwards
<1>10. \A m \in 0 .. n - 1 : p[m + 1] = Plus(p[m], L[m + 1])
  <2> TAKE m \in 0 .. n - 1
  <2>1. m + 1 \in 1 .. n /\ m \in 0 .. n
    OBVIOUS
  <2>2. p[m] \in Load /\ p[m + 1] = F[m + 1][p[m]]
    BY <1>9, <2>1 DEF Climbs
  <2> QED BY <2>1, <2>2
<1> QED BY <1>1, <1>9, <1>10 DEF Climbs

-----------------------------------------------------------------------------
(***************************************************************************)
(* The entries of a list at some positions.                                *)
(***************************************************************************)
Below(i, S) == {j \in S : j < i}
Rank(i, S) == Cardinality(Below(i, S))

\* There is an element of each rank.
LEMMA RankExists ==
  ASSUME NEW n \in Nat, NEW S \in SUBSET (1 .. n)
  PROVE  /\ IsFiniteSet(S) /\ Cardinality(S) \in Nat
         /\ \A k \in 1 .. Cardinality(S) : \E i \in S : Rank(i, S) = k - 1
<1> DEFINE N == Cardinality(S)
<1>1. IsFiniteSet(S) /\ N \in Nat
  <2>1. IsFiniteSet(1 .. n)
    BY FS_Interval
  <2> QED BY <2>1, FS_Subset, FS_CardinalityType
<1>2. ASSUME NEW i \in S
      PROVE  IsFiniteSet(Below(i, S)) /\ Rank(i, S) \in Nat /\ Rank(i, S) < N
  <2>1. Below(i, S) \in SUBSET S /\ Below(i, S) # S
    BY DEF Below
  <2>2. /\ IsFiniteSet(Below(i, S)) /\ Cardinality(Below(i, S)) <= N
        /\ Cardinality(Below(i, S)) # N
    BY <1>1, <2>1, FS_Subset
  <2>3. Cardinality(Below(i, S)) \in Nat
    BY <2>2, FS_CardinalityType
  <2> HIDE DEF N
  <2> QED BY <1>1, <2>2, <2>3 DEF Rank
<1>3. ASSUME NEW i \in S, NEW j \in S, i < j  PROVE Rank(i, S) # Rank(j, S)
  <2>1. Below(i, S) \in SUBSET Below(j, S)
    <3>1. \A k \in S : k \in Int
      OBVIOUS
    <3>2. \A k \in S : k < i => k < j
      BY <1>3, <3>1
    <3> QED BY <3>2 DEF Below
  <2>2. Below(i, S) # Below(j, S)
    BY <1>3 DEF Below
  <2> QED BY <1>2, <2>1, <2>2, FS_Subset DEF Rank
<1> DEFINE f == [i \in S |-> Rank(i, S) + 1]
<1>4. f \in [S -> 1 .. N]
  <2> HIDE DEF N
  <2> QED BY <1>1, <1>2
<1>5. ASSUME NEW i \in S, NEW j \in S, f[i] = f[j] PROVE i = j
  <2>1. Rank(i, S) = Rank(j, S)
    BY <1>2, <1>5
  <2>2. ~(i < j) /\ ~(j < i)
    BY <1>3, <2>1
  <2> QED BY <2>2
<1>6. f \in Injection(S, 1 .. N)
  <2> HIDE DEF f, N
  <2> QED BY <1>4, <1>5 DEF Injection, IsInjective
<1>7. f \in Surjection(S, 1 .. N)
  <2>1. IsFiniteSet(1 .. N) /\ Cardinality(1 .. N) = N
    <3> HIDE DEF N
    <3> QED BY <1>1, FS_Interval
  <2> DEFINE T == 1 .. N
  <2>2. IsFiniteSet(T) /\ Cardinality(T) = Cardinality(S) /\ f \in Injection(S, T)
    BY <1>6, <2>1
  <2> HIDE DEF f, T
  <2>3. f \in Surjection(S, T)
    BY <2>2, FS_Injection
  <2> QED BY <2>3 DEF T
<1>8. ASSUME NEW k \in 1 .. N PROVE \E i \in S : Rank(i, S) = k - 1
  <2>1. PICK i \in S : f[i] = k
    <3> HIDE DEF f, N
    <3> QED BY <1>7 DEF Surjection
  <2> HIDE DEF N
  <2>2. Rank(i, S) + 1 = k
    BY <2>1
  <2> QED BY <1>2, <2>2
<1> QED BY <1>1, <1>8

\* A list of entries of s that are at positions of S, none only if S has none.
TakenAt(e, s, S) ==
  \E m \in Nat : /\ DOMAIN e = 1 .. m
                 /\ \A k \in 1 .. m : \E i \in S : e[k] = s[i]
                 /\ m = 0 => S = {}

LEMMA EntriesAre ==
  ASSUME NEW n \in Nat, NEW S \in SUBSET (1 .. n), NEW s
  PROVE  TakenAt(Entries(s, S), s, S)
<1> DEFINE m == Cardinality(S)
           At(k) == CHOOSE i \in S : Rank(i, S) = k - 1
<1>1. m \in Nat /\ \A k \in 1 .. m : \E i \in S : Rank(i, S) = k - 1
  BY RankExists
<1>2. Entries(s, S) = [k \in 1 .. m |-> s[At(k)]]
  BY DEF Entries, Rank, Below
<1>3. m = 0 => S = {}
  BY RankExists, FS_EmptySet
<1>4. \A k \in 1 .. m : At(k) \in S
  BY <1>1
<1> HIDE DEF At, m
<1> QED BY <1>1, <1>2, <1>3, <1>4 DEF TakenAt
\* e is s at the positions of S, each once.
Picks(e, s, S) ==
  \E m \in Nat : \E pos \in [1 .. m -> S] :
    /\ e = [k \in 1 .. m |-> s[pos[k]]]
    /\ \A k, l \in 1 .. m : pos[k] = pos[l] => k = l
    /\ \A i \in S : \E k \in 1 .. m : pos[k] = i

LEMMA EntriesOnce ==
  ASSUME NEW n \in Nat, NEW S \in SUBSET (1 .. n), NEW s
  PROVE  Picks(Entries(s, S), s, S)
<1> DEFINE m == Cardinality(S)
           At(k) == CHOOSE i \in S : Rank(i, S) = k - 1
           pos == [k \in 1 .. m |-> At(k)]
<1>1. /\ IsFiniteSet(S) /\ m \in Nat
      /\ \A k \in 1 .. m : \E i \in S : Rank(i, S) = k - 1
  BY RankExists
<1>2. \A k \in 1 .. m : At(k) \in S /\ Rank(At(k), S) = k - 1
  BY <1>1
<1>3. Entries(s, S) = [k \in 1 .. m |-> s[pos[k]]]
  BY DEF Entries, Rank, Below
<1>4. pos \in [1 .. m -> S]
  BY <1>2
<1>5. \A k, l \in 1 .. m : pos[k] = pos[l] => k = l
  <2>1. \A k \in 1 .. m : Rank(pos[k], S) = k - 1
    BY <1>2
  <2> HIDE DEF pos, m
  <2> QED BY <1>1, <2>1
<1>6. \A i \in S : \E k \in 1 .. m : pos[k] = i
  <2>1. Cardinality(1 .. m) = m /\ IsFiniteSet(1 .. m)
    <3> HIDE DEF m
    <3> QED BY <1>1, FS_Interval
  <2> DEFINE T == 1 .. m
  <2>2. IsFiniteSet(T) /\ Cardinality(T) = Cardinality(S) /\ pos \in Injection(T, S)
    <3> HIDE DEF pos, m
    <3>1. pos \in Injection(T, S)
      BY <1>4, <1>5 DEF Injection, IsInjective
    <3> QED BY <2>1, <3>1 DEF m
  <2> HIDE DEF pos, T
  <2>3. pos \in Surjection(T, S)
    BY <1>1, <2>2, FS_Injection
  <2> QED BY <2>3 DEF Surjection, T
<1> HIDE DEF pos, m
<1> QED BY <1>1, <1>3, <1>4, <1>5, <1>6 DEF Picks

\* The positions of a list that pass a test, in order.
LEMMA EntriesIn ==
  ASSUME NEW X, NEW s \in Seq(X), NEW S \in SUBSET (1 .. Len(s)), DistinctEntries(s)
  PROVE  /\ Entries(s, S) \in Seq(X) /\ DistinctEntries(Entries(s, S))
         /\ ToSet(Entries(s, S)) = {s[i] : i \in S}
<1> DEFINE e == Entries(s, S)
<1>1. PICK m \in Nat : \E pos \in [1 .. m -> S] :
        /\ e = [k \in 1 .. m |-> s[pos[k]]]
        /\ \A k, l \in 1 .. m : pos[k] = pos[l] => k = l
        /\ \A i \in S : \E k \in 1 .. m : pos[k] = i
  <2>1. Picks(e, s, S)
    <3>1. Len(s) \in Nat
      OBVIOUS
    <3> QED BY <3>1, EntriesOnce
  <2> HIDE DEF e
  <2> QED BY <2>1 DEF Picks
<1>2. PICK pos \in [1 .. m -> S] :
        /\ e = [k \in 1 .. m |-> s[pos[k]]]
        /\ \A k, l \in 1 .. m : pos[k] = pos[l] => k = l
        /\ \A i \in S : \E k \in 1 .. m : pos[k] = i
  BY <1>1
<1> HIDE DEF e
<1>3. /\ DOMAIN e = 1 .. m
      /\ \A k \in 1 .. m : pos[k] \in S /\ e[k] = s[pos[k]]
  BY <1>2
<1>4. \A i \in S : i \in DOMAIN s /\ s[i] \in X
  OBVIOUS
<1>5. e \in Seq(X)
  <2>1. e \in [1 .. m -> X]
    BY <1>2, <1>4
  <2> QED BY <2>1
<1>6. DistinctEntries(e)
  <2> SUFFICES ASSUME NEW k \in 1 .. m, NEW l \in 1 .. m, e[k] = e[l] PROVE k = l
    BY <1>3 DEF DistinctEntries
  <2>1. \A i, j \in S : s[i] = s[j] => i = j
    <3>1. \A i \in S : i \in DOMAIN s
      BY <1>4
    <3> QED BY <3>1 DEF DistinctEntries
  <2>2. pos[k] \in S /\ pos[l] \in S /\ s[pos[k]] = s[pos[l]]
    BY <1>3
  <2>3. pos[k] = pos[l]
    BY <2>1, <2>2
  <2> QED BY <1>2, <2>3
<1>7. ToSet(e) = {s[i] : i \in S}
  <2>1. \A k \in 1 .. m : e[k] \in {s[i] : i \in S}
    BY <1>3
  <2>2. ASSUME NEW i \in S PROVE \E k \in DOMAIN e : e[k] = s[i]
    BY <1>2, <1>3
  <2>3. DOMAIN e = 1 .. m
    BY <1>3
  <2> HIDE DEF e
  <2> QED BY <2>1, <2>2, <2>3 DEF ToSet
<1> QED BY <1>5, <1>6, <1>7 DEF e
-----------------------------------------------------------------------------
(***************************************************************************)
(* The sum of a list that grows at its end.                                *)
(***************************************************************************)
LEMMA SumAppended ==
  ASSUME NEW n \in Nat, NEW L \in [1 .. n -> Load], NEW M \in [1 .. n + 1 -> Load],
         \A i \in 1 .. n : M[i] = L[i]
  PROVE  SumOfLoads(L) \in Load /\ SumOfLoads(M) = Plus(SumOfLoads(L), M[n + 1])
<1>1. PICK p \in [0 .. n -> Load] : /\ p[0] = NoLoad /\ p[n] = SumOfLoads(L)
                                    /\ \A m \in 0 .. n - 1 : p[m + 1] = Plus(p[m], L[m + 1])
  BY SumAlong
<1> DEFINE k == n + 1
<1>2. k \in Nat /\ M \in [1 .. k -> Load] /\ n \in 0 .. k - 1 /\ n \in 0 .. n
  OBVIOUS
<1> HIDE DEF k
<1>3. PICK q \in [0 .. k -> Load] : /\ q[0] = NoLoad /\ q[k] = SumOfLoads(M)
                                    /\ \A m \in 0 .. k - 1 : q[m + 1] = Plus(q[m], M[m + 1])
  BY <1>2, SumAlong
<1> DEFINE S == {m \in 0 .. n : p[m] = q[m]}
<1>4. 0 \in S
  BY <1>1, <1>3
<1>5. \A m \in 0 .. n - 1 : m \in S => m + 1 \in S
  <2> SUFFICES ASSUME NEW m \in 0 .. n - 1, m \in S PROVE m + 1 \in S
    OBVIOUS
  <2>1. m \in 0 .. k - 1 /\ m + 1 \in 1 .. n /\ m + 1 \in 0 .. n
    BY DEF k
  <2>2. p[m + 1] = Plus(p[m], L[m + 1]) /\ q[m + 1] = Plus(q[m], M[m + 1]) /\ p[m] = q[m]
    BY <1>1, <1>3, <2>1
  <2> QED BY <2>1, <2>2
<1>6. p[n] = q[n]
  <2> HIDE DEF S
  <2>1. n \in S
    BY <1>2, <1>4, <1>5, UpToN
  <2> QED BY <2>1 DEF S
<1>7. q[n + 1] = Plus(q[n], M[n + 1])
  BY <1>2, <1>3
<1> QED BY <1>1, <1>2, <1>3, <1>6, <1>7 DEF k
-----------------------------------------------------------------------------
(***************************************************************************)
(* Lists of stripes.                                                       *)
(***************************************************************************)

\* A stripe leaves its batch.
LEMMA WithoutIs ==
  ASSUME NEW X, NEW l \in Seq(X), NEW s, DistinctEntries(l)
  PROVE  /\ Without(l, s) \in Seq(X) /\ DistinctEntries(Without(l, s))
         /\ ToSet(Without(l, s)) = ToSet(l) \ {s}
<1> DEFINE S == {i \in DOMAIN l : l[i] # s}
<1>1. S \in SUBSET (1 .. Len(l)) /\ Without(l, s) = Entries(l, S)
  BY DEF Without
<1>2. {l[i] : i \in S} = ToSet(l) \ {s}
  BY DEF ToSet
<1> HIDE DEF S
<1> QED BY <1>1, <1>2, EntriesIn

\* It leaves one that it may be in several times, or not at all.
LEMMA WithoutType ==
  ASSUME NEW X, NEW l \in Seq(X), NEW s
  PROVE  Without(l, s) \in Seq(X)
<1> DEFINE S == {i \in DOMAIN l : l[i] # s}
<1>1. S \in SUBSET (1 .. Len(l)) /\ Without(l, s) = Entries(l, S) /\ Len(l) \in Nat
  BY DEF Without
<1>2. \A i \in S : l[i] \in X
  OBVIOUS
<1> HIDE DEF S
<1>3. Picks(Entries(l, S), l, S)
  BY <1>1, EntriesOnce
<1>4. PICK m \in Nat : \E f \in [1 .. m -> S] : Entries(l, S) = [k \in 1 .. m |-> l[f[k]]]
  BY <1>3 DEF Picks
<1>5. PICK f \in [1 .. m -> S] : Entries(l, S) = [k \in 1 .. m |-> l[f[k]]]
  BY <1>4
<1>6. [k \in 1 .. m |-> l[f[k]]] \in [1 .. m -> X]
  BY <1>2
<1>7. Entries(l, S) \in Seq(X)
  BY <1>5, <1>6
<1> QED BY <1>1, <1>7

\* The load of a list of stripes, when one more comes in.
LEMMA TableAppended ==
  ASSUME NEW X, NEW q \in Seq(X), NEW s \in X, NEW l \in [X -> Load]
  PROVE  TableOf(q, l) \in Load /\ TableOf(Append(q, s), l) = Plus(TableOf(q, l), l[s])
<1> DEFINE n == Len(q)
           L == [i \in 1 .. n |-> l[q[i]]]
           M == [i \in 1 .. n + 1 |-> l[Append(q, s)[i]]]
<1>1. n \in Nat /\ DOMAIN q = 1 .. n /\ DOMAIN Append(q, s) = 1 .. n + 1
  OBVIOUS
<1>2. TableOf(q, l) = SumOfLoads(L) /\ TableOf(Append(q, s), l) = SumOfLoads(M)
  BY <1>1 DEF TableOf
<1>3. \A i \in 1 .. n : q[i] \in X /\ Append(q, s)[i] = q[i]
  OBVIOUS
<1>4. Append(q, s)[n + 1] = s /\ n + 1 \in 1 .. n + 1 /\ 1 .. n \subseteq 1 .. n + 1
  OBVIOUS
<1>5. \A i \in 1 .. n + 1 : i \in 1 .. n \/ i = n + 1
  BY <1>1
<1>6. L \in [1 .. n -> Load] /\ M \in [1 .. n + 1 -> Load] /\ M[n + 1] = l[s]
      /\ \A i \in 1 .. n : M[i] = L[i]
  <2> HIDE DEF n
  <2>1. \A i \in 1 .. n + 1 : Append(q, s)[i] \in X
    BY <1>3, <1>4, <1>5
  <2> QED BY <1>3, <1>4, <2>1
<1> HIDE DEF L, M, n
<1> QED BY <1>1, <1>2, <1>6, SumAppended

\* It does not depend on the load of other stripes.
SameLoads(q, l, k) == \A i \in DOMAIN q : l[q[i]] = k[q[i]]

LEMMA TableOfThese ==
  ASSUME NEW q, NEW l, NEW k, SameLoads(q, l, k)
  PROVE  TableOf(q, l) = TableOf(q, k)
<1>1. [i \in DOMAIN q |-> l[q[i]]] = [i \in DOMAIN q |-> k[q[i]]]
  BY DEF SameLoads
<1> QED BY <1>1, Zenon DEF TableOf
-----------------------------------------------------------------------------
(***************************************************************************)
(* The inductive invariant of the second half.                             *)
(***************************************************************************)

\* l divides the stripes that the groups gave to the batches.
Divides(l, n) ==
  /\ l \in [1 .. n -> Seq(Taken)]
  /\ \A b \in 1 .. n : DistinctEntries(l[b])
  /\ \A s \in Taken : \E b \in 1 .. n : s \in ToSet(l[b])
  /\ \A a, b \in 1 .. n : \A s \in Taken : s \in ToSet(l[a]) /\ s \in ToSet(l[b]) => a = b

\* Each batch that has a stripe is in one place: in use in the array, or delivered.
InOnePlace(l, sl, k, o, n) ==
  /\ sl \in [1 .. n -> 1 .. n] /\ k \in 0 .. n /\ o \in Seq(1 .. n)
  /\ \A i, j \in 1 .. k : sl[i] = sl[j] => i = j
  /\ DistinctEntries(o)
  /\ \A i \in 1 .. k : sl[i] \notin ToSet(o) /\ l[sl[i]] # <<>>
  /\ \A b \in 1 .. n : l[b] # <<>> => b \in ToSet(o) \/ \E i \in 1 .. k : sl[i] = b
  /\ \A b \in ToSet(o) : l[b] # <<>>

\* The head stays the first; what a search sees up to t is not delivered and not the head.
SearchSees(sl, k, h, t, o, n) ==
  /\ t \in 1 .. n /\ k \in 1 .. t /\ sl[1] = h
  /\ \A i \in 2 .. t : sl[i] # h /\ sl[i] \notin ToSet(o)

\* What a merge has of _batch_list while it goes on.
Listed(l, sl, k, h, t, o, n) == InOnePlace(l, sl, k, o, n) /\ SearchSees(sl, k, h, t, o, n)
Merging(m, h, t, o, n) ==
  Divides(m.list, n) /\ Listed(m.list, m.slots, m.size, h, t, o, n)

\* <<batch, stripe>>: a stripe of a batch that is neither the head nor delivered.
Movable(l, x, h, o, n) ==
  /\ x[1] \in 1 .. n /\ x[1] # h /\ x[1] \notin ToSet(o)
  /\ x[2] \in Taken /\ x[2] \in ToSet(l[x[1]])

NonEmpty(l) == l # <<>>

LEMMA NoneIn ==
  ASSUME NEW X, NEW l \in Seq(X)
  PROVE  l = <<>> <=> \A s \in X : s \notin ToSet(l)
<1>1. ASSUME l # <<>> PROVE l[1] \in X /\ l[1] \in ToSet(l)
  BY <1>1 DEF ToSet
<1>2. ASSUME l = <<>>, NEW s \in ToSet(l) PROVE FALSE
  BY <1>2 DEF ToSet
<1> QED BY <1>1, <1>2

LEMMA SetOfSeq ==
  ASSUME NEW X, NEW q \in Seq(X)
  PROVE  \A x \in ToSet(q) : x \in X
BY DEF ToSet

\* vector::erase takes out one of the first k.
LEMMA ErasedAre ==
  ASSUME NEW n \in Nat, NEW sl \in [1 .. n -> 1 .. n], NEW k \in 0 .. n, NEW r \in 1 .. k,
         \A i, j \in 1 .. k : sl[i] = sl[j] => i = j
  PROVE  /\ Erase(sl, k, sl[r]) \in [1 .. n -> 1 .. n]
         /\ \A i \in 1 .. n : Erase(sl, k, sl[r])[i] = IF r <= i /\ i < k THEN sl[i + 1] ELSE sl[i]
<1>1. (CHOOSE i \in 1 .. k : sl[i] = sl[r]) = r
  OBVIOUS
<1>2. Erase(sl, k, sl[r]) = [i \in 1 .. n |-> IF r <= i /\ i < k THEN sl[i + 1] ELSE sl[i]]
  <2>1. DOMAIN sl = 1 .. n
    OBVIOUS
  <2> QED BY <1>1, <2>1 DEF Erase
<1>3. \A i \in 1 .. n : i < k => i + 1 \in 1 .. n
  OBVIOUS
<1> QED BY <1>2, <1>3

\* What e has in use after it: all but the one at r.
InUse(e, sl, k, r, n) ==
  /\ e \in [1 .. n -> 1 .. n]
  /\ \A i, j \in 1 .. k - 1 : e[i] = e[j] => i = j
  /\ \A i \in 1 .. k - 1 : e[i] # sl[r] /\ \E j \in 1 .. k : e[i] = sl[j]
  /\ \A j \in 1 .. k : j # r => \E i \in 1 .. k - 1 : e[i] = sl[j]
  /\ \A i \in 1 .. n : r <= i /\ i < k => e[i] = sl[i + 1]
  /\ \A i \in 1 .. n : ~(r <= i /\ i < k) => e[i] = sl[i]

LEMMA InUseAfter ==
  ASSUME NEW n \in Nat, NEW sl \in [1 .. n -> 1 .. n], NEW k \in 0 .. n, NEW r \in 1 .. k,
         \A i, j \in 1 .. k : sl[i] = sl[j] => i = j
  PROVE  InUse(Erase(sl, k, sl[r]), sl, k, r, n)
<1> DEFINE e == Erase(sl, k, sl[r])
<1>1. /\ e \in [1 .. n -> 1 .. n]
      /\ \A i \in 1 .. n : e[i] = IF r <= i /\ i < k THEN sl[i + 1] ELSE sl[i]
  BY ErasedAre
<1> HIDE DEF e
<1>2. \A i \in 1 .. k - 1 : i \in 1 .. n /\ i \in 1 .. k /\ i + 1 \in 1 .. k
  OBVIOUS
<1>3. ASSUME NEW i \in 1 .. k - 1 PROVE e[i] = IF r <= i THEN sl[i + 1] ELSE sl[i]
  <2>1. i \in 1 .. n /\ i < k
    OBVIOUS
  <2>2. e[i] = IF r <= i /\ i < k THEN sl[i + 1] ELSE sl[i]
    BY <1>1, <2>1
  <2> QED BY <2>1, <2>2
<1>4. \A i, j \in 1 .. k - 1 : e[i] = e[j] => i = j
  <2> DEFINE from(i) == IF r <= i THEN i + 1 ELSE i
  <2> SUFFICES ASSUME NEW i \in 1 .. k - 1, NEW j \in 1 .. k - 1, e[i] = e[j] PROVE i = j
    OBVIOUS
  <2>1. from(i) \in 1 .. k /\ from(j) \in 1 .. k
    OBVIOUS
  <2>2. e[i] = sl[from(i)] /\ e[j] = sl[from(j)]
    BY <1>3
  <2>3. from(i) = from(j)
    <3> HIDE DEF from
    <3> QED BY <2>1, <2>2
  <2>4. i \in Int /\ j \in Int /\ r \in Int
    OBVIOUS
  <2> QED BY <2>3, <2>4, SMTT(20)
<1>5. \A i \in 1 .. k - 1 : e[i] # sl[r] /\ \E j \in 1 .. k : e[i] = sl[j]
  <2> TAKE i \in 1 .. k - 1
  <2>1. i \in 1 .. k /\ i + 1 \in 1 .. k
    BY <1>2
  <2>2. CASE r <= i
    <3>1. e[i] = sl[i + 1] /\ i + 1 # r
      BY <1>3, <2>2
    <3> QED BY <2>1, <3>1
  <2>3. CASE ~(r <= i)
    <3>1. e[i] = sl[i] /\ i # r
      BY <1>3, <2>3
    <3> QED BY <2>1, <3>1
  <2> QED BY <2>2, <2>3
<1>6. ASSUME NEW j \in 1 .. k, j # r PROVE \E i \in 1 .. k - 1 : e[i] = sl[j]
  <2>1. CASE j < r
    BY <1>3, <2>1
  <2>2. CASE j > r
    <3>1. j - 1 \in 1 .. k - 1 /\ r <= j - 1 /\ (j - 1) + 1 = j
      BY <1>6, <2>2
    <3>2. e[j - 1] = sl[j]
      BY <1>3, <3>1
    <3> QED BY <3>1, <3>2
  <2> QED BY <1>6, <2>1, <2>2
<1> QED BY <1>1, <1>4, <1>5, <1>6 DEF e, InUse
-----------------------------------------------------------------------------
(***************************************************************************)
(* The merge of what was kept aside, one stripe at a time.                 *)
(***************************************************************************)
Merges(n) ==
  [list : [1 .. n -> Seq(Taken)], tab : [1 .. n -> Load], slots : [1 .. n -> 1 .. n],
   size : {k \in Int : k <= n}, load : [Taken -> Load]]

MovedList(l, h, b, s) == [l EXCEPT ![h] = Append(@, s), ![b] = Without(@, s)]

Moved(a, m, h, b, s) ==
  LET l == MovedList(m.list, h, b, s)
  IN  /\ a.list = l /\ a.load = m.load
      /\ l[b] = <<>> => a.slots = Erase(m.slots, m.size, b) /\ a.size = m.size - 1
      /\ l[b] # <<>> => a.slots = m.slots /\ a.size = m.size

LEMMA MoveType ==
  ASSUME NEW n \in Nat, NEW m \in Merges(n), head \in 1 .. n,
         NEW b \in 1 .. n, b # head, NEW s \in Taken
  PROVE  Move(m, b, s) \in Merges(n) /\ Moved(Move(m, b, s), m, head, b, s)
<1> DEFINE l == MovedList(m.list, head, b, s)
           gone == l[b] = <<>>
           tb == [m.tab EXCEPT ![head] = Plus(@, m.load[s])]
           sl == IF gone THEN Erase(m.slots, m.size, b) ELSE m.slots
           sz == IF gone THEN m.size - 1 ELSE m.size
<1>1. /\ m.list \in [1 .. n -> Seq(Taken)] /\ m.tab \in [1 .. n -> Load]
      /\ m.slots \in [1 .. n -> 1 .. n] /\ m.size \in Int /\ m.size <= n
      /\ m.load \in [Taken -> Load]
  BY DEF Merges
<1>2. Move(m, b, s) = [list |-> l, tab |-> tb, slots |-> sl, size |-> sz, load |-> m.load]
  BY DEF Move, MovedList
<1>3. l \in [1 .. n -> Seq(Taken)]
  <2>1. Append(m.list[head], s) \in Seq(Taken)
    BY <1>1
  <2> DEFINE k == [m.list EXCEPT ![head] = Append(@, s)]
  <2>2. k \in [1 .. n -> Seq(Taken)]
    BY <1>1, <2>1
  <2>3. l = [k EXCEPT ![b] = Without(@, s)]
    BY DEF MovedList
  <2> HIDE DEF k
  <2>4. Without(k[b], s) \in Seq(Taken)
    BY <2>2, WithoutType
  <2> HIDE DEF l
  <2> QED BY <2>2, <2>3, <2>4
<1>4. tb \in [1 .. n -> Load]
  BY <1>1, PlusIs
<1>5. Erase(m.slots, m.size, b) \in [1 .. n -> 1 .. n]
  <2> DEFINE p == CHOOSE i \in 1 .. m.size : m.slots[i] = b
             e == [i \in 1 .. n |-> IF p <= i /\ i < m.size THEN m.slots[i + 1] ELSE m.slots[i]]
  <2>1. Erase(m.slots, m.size, b) = e
    BY <1>1 DEF Erase
  <2>2. ASSUME NEW i \in 1 .. n PROVE e[i] \in 1 .. n
    <3>1. i < m.size => i + 1 \in 1 .. n
      BY <1>1
    <3> HIDE DEF p
    <3> QED BY <1>1, <3>1
  <2>3. e \in [1 .. n -> 1 .. n]
    <3> HIDE DEF p
    <3> QED BY <2>2
  <2> QED BY <2>1, <2>3
<1>6. sl \in [1 .. n -> 1 .. n] /\ sz \in Int /\ sz <= n
  <2> HIDE DEF gone
  <2>1. CASE gone
    <3>1. sl = Erase(m.slots, m.size, b) /\ sz = m.size - 1
      BY <2>1
    <3> HIDE DEF sl, sz
    <3>2. sl \in [1 .. n -> 1 .. n]
      BY <1>5, <3>1, Zenon
    <3>3. m.size \in Int /\ m.size <= n /\ sz = m.size - 1
      BY <1>1, <3>1
    <3>4. sz \in Int /\ sz <= n
      BY <3>3
    <3> QED BY <3>2, <3>4
  <2>2. CASE ~gone
    <3>1. sl = m.slots /\ sz = m.size
      BY <2>2
    <3> HIDE DEF sl, sz
    <3> QED BY <1>1, <3>1
  <2> QED BY <2>1, <2>2
<1>7. [list |-> l, tab |-> tb, slots |-> sl, size |-> sz, load |-> m.load] \in Merges(n)
  <2> HIDE DEF l, tb, sl, sz
  <2> QED BY <1>1, <1>3, <1>4, <1>6 DEF Merges
<1>8. Moved(Move(m, b, s), m, head, b, s)
  <2> HIDE DEF tb
  <2> QED BY <1>2 DEF Moved
<1> QED BY <1>2, <1>7, <1>8

LEMMA AppendIs ==
  ASSUME NEW X, NEW q \in Seq(X), NEW s \in X
  PROVE  /\ Append(q, s) \in Seq(X) /\ Append(q, s) # <<>>
         /\ ToSet(Append(q, s)) = ToSet(q) \cup {s}
         /\ DistinctEntries(q) /\ s \notin ToSet(q) => DistinctEntries(Append(q, s))
<1> DEFINE n == Len(q)
           a == Append(q, s)
<1>1. /\ n \in Nat /\ DOMAIN q = 1 .. n /\ DOMAIN a = 1 .. n + 1 /\ a \in Seq(X)
      /\ a[n + 1] = s /\ \A i \in 1 .. n : a[i] = q[i]
  OBVIOUS
<1>2. \A i \in 1 .. n + 1 : i \in 1 .. n \/ i = n + 1
  BY <1>1
<1>3. 1 .. n \subseteq 1 .. n + 1 /\ n + 1 \in 1 .. n + 1
  BY <1>1
<1> HIDE DEF n, a
<1>4. ToSet(a) = ToSet(q) \cup {s}
  BY <1>1, <1>2, <1>3 DEF ToSet
<1>5. ASSUME DistinctEntries(q), s \notin ToSet(q) PROVE DistinctEntries(a)
  <2> SUFFICES ASSUME NEW i \in 1 .. n + 1, NEW j \in 1 .. n + 1, a[i] = a[j] PROVE i = j
    BY <1>1 DEF DistinctEntries
  <2>1. \A k \in 1 .. n : a[k] # s
    BY <1>1, <1>5 DEF ToSet
  <2>2. CASE i \in 1 .. n /\ j \in 1 .. n
    BY <1>1, <1>5, <2>2 DEF DistinctEntries
  <2>3. CASE i = n + 1 \/ j = n + 1
    BY <1>1, <1>2, <2>1, <2>3
  <2> QED BY <1>2, <2>2, <2>3
<1>6. a # <<>>
  BY <1>1, <1>3
<1> QED BY <1>1, <1>4, <1>5, <1>6 DEF a

\* The lists r, after s has gone from batch b to batch h of the lists l.
Takes(r, l, h, b, s, n) ==
  /\ Divides(r, n)
  /\ r[h] = Append(l[h], s) /\ r[h] # <<>>
  /\ ToSet(r[b]) = ToSet(l[b]) \ {s} /\ r[b] \in Seq(Taken)
  /\ \A c \in 1 .. n : c \notin {h, b} => r[c] = l[c]

LEMMA MovedDivides ==
  ASSUME NEW n \in Nat, NEW l, Divides(l, n), NEW h \in 1 .. n, NEW b \in 1 .. n, b # h,
         NEW s \in Taken, s \in ToSet(l[b])
  PROVE  Takes(MovedList(l, h, b, s), l, h, b, s, n)
<1> DEFINE r == MovedList(l, h, b, s)
<1>1. /\ l \in [1 .. n -> Seq(Taken)] /\ \A c \in 1 .. n : DistinctEntries(l[c])
      /\ \A x \in Taken : \E c \in 1 .. n : x \in ToSet(l[c])
      /\ \A a, c \in 1 .. n : \A x \in Taken : x \in ToSet(l[a]) /\ x \in ToSet(l[c]) => a = c
  BY DEF Divides
<1>2. /\ r = [c \in 1 .. n |-> IF c = b THEN Without(l[b], s)
                               ELSE IF c = h THEN Append(l[h], s) ELSE l[c]]
  BY <1>1 DEF MovedList
<1> HIDE DEF r
<1>3. r[h] = Append(l[h], s) /\ r[b] = Without(l[b], s) /\ \A c \in 1 .. n : c \notin {h, b} => r[c] = l[c]
  BY <1>2
<1>4. l[h] \in Seq(Taken) /\ l[b] \in Seq(Taken) /\ s \notin ToSet(l[h])
  BY <1>1
<1>5. r[h] \in Seq(Taken) /\ r[h] # <<>> /\ ToSet(r[h]) = ToSet(l[h]) \cup {s} /\ DistinctEntries(r[h])
  <2>1. DistinctEntries(l[h])
    BY <1>1
  <2> QED BY <1>3, <1>4, <2>1, AppendIs
<1>6. r[b] \in Seq(Taken) /\ ToSet(r[b]) = ToSet(l[b]) \ {s} /\ DistinctEntries(r[b])
  BY <1>1, <1>3, <1>4, WithoutIs
<1>7. \A c \in 1 .. n : r[c] \in Seq(Taken) /\ DistinctEntries(r[c])
  BY <1>1, <1>3, <1>5, <1>6
<1>8. r \in [1 .. n -> Seq(Taken)]
  <2>1. r = [c \in 1 .. n |-> r[c]]
    BY <1>2
  <2> QED BY <1>7, <2>1
<1>9. \A c \in 1 .. n : \A x \in Taken : x \in ToSet(r[c]) <=>
        IF x = s THEN c = h ELSE x \in ToSet(l[c])
  <2> SUFFICES ASSUME NEW c \in 1 .. n, NEW x \in Taken
               PROVE  x \in ToSet(r[c]) <=> IF x = s THEN c = h ELSE x \in ToSet(l[c])
    OBVIOUS
  <2>1. CASE c = h
    BY <1>5, <2>1
  <2>2. CASE c = b
    BY <1>6, <2>2
  <2>3. CASE c \notin {h, b}
    <3>1. r[c] = l[c]
      BY <1>3, <2>3
    <3>2. s \notin ToSet(l[c])
      BY <1>1, <2>3
    <3> QED BY <2>3, <3>1, <3>2
  <2> QED BY <2>1, <2>2, <2>3
<1>10. Divides(r, n)
  <2>1. \A x \in Taken : \E c \in 1 .. n : x \in ToSet(r[c])
    BY <1>1, <1>9
  <2>2. \A a, c \in 1 .. n : \A x \in Taken : x \in ToSet(r[a]) /\ x \in ToSet(r[c]) => a = c
    BY <1>1, <1>9
  <2> QED BY <1>7, <1>8, <2>1, <2>2 DEF Divides
<1> QED BY <1>3, <1>5, <1>6, <1>10 DEF r, Takes


\* The array after a stripe has been moved: its batch leaves it when it is empty.
LEMMA TakenListed ==
  ASSUME NEW n \in Nat, NEW h \in 1 .. n, NEW t, NEW o, NEW l, NEW sl, NEW k,
         l \in [1 .. n -> Seq(Taken)], Listed(l, sl, k, h, t, o, n),
         NEW b \in 1 .. n, b # h, b \notin ToSet(o), NEW s, l[b] # <<>>,
         NEW r, Takes(r, l, h, b, s, n)
  PROVE  /\ r[b] = <<>> => Listed(r, Erase(sl, k, b), k - 1, h, t, o, n)
         /\ r[b] # <<>> => Listed(r, sl, k, h, t, o, n)
<1>1. r[h] # <<>> /\ \A c \in 1 .. n : c \notin {h, b} => r[c] = l[c]
  BY DEF Takes
<1>2. sl \in [1 .. n -> 1 .. n] /\ k \in 0 .. n /\ o \in Seq(1 .. n)
  BY DEF Listed, InOnePlace
<1>3. (\A i, j \in 1 .. k : sl[i] = sl[j] => i = j) /\ DistinctEntries(o)
  BY DEF Listed, InOnePlace
<1>4. \A i \in 1 .. k : sl[i] \in 1 .. n /\ sl[i] \notin ToSet(o) /\ l[sl[i]] # <<>>
  <2>1. \A i \in 1 .. k : sl[i] \notin ToSet(o) /\ l[sl[i]] # <<>>
    BY DEF Listed, InOnePlace
  <2>2. \A i \in 1 .. k : sl[i] \in 1 .. n
    <3>1. sl \in [1 .. n -> 1 .. n] /\ k \in 0 .. n
      BY <1>2
    <3>2. \A i \in 1 .. k : i \in 1 .. n
      BY <3>1
    <3> QED BY <3>1, <3>2
  <2> QED BY <2>1, <2>2
<1>5. \A c \in 1 .. n : l[c] # <<>> => c \in ToSet(o) \/ \E i \in 1 .. k : sl[i] = c
  BY DEF Listed, InOnePlace
<1>6. \A c \in ToSet(o) : l[c] # <<>>
  BY DEF Listed, InOnePlace
<1>7. t \in 1 .. n /\ k \in 1 .. t /\ 1 \in 1 .. k /\ sl[1] = h
  BY <1>2 DEF Listed, SearchSees
<1>8. \A i \in 2 .. t : sl[i] # h /\ sl[i] \notin ToSet(o)
  BY DEF Listed, SearchSees
<1>9. \A c \in ToSet(o) : c \in 1 .. n /\ c \notin {h, b} /\ r[c] # <<>>
  <2>1. h \notin ToSet(o)
    BY <1>4, <1>7
  <2>2. \A c \in ToSet(o) : c \in 1 .. n
    BY <1>2, SetOfSeq
  <2> QED BY <1>1, <1>6, <2>1, <2>2
<1>10. PICK p \in 1 .. k : sl[p] = b
  BY <1>5
<1>11. p # 1
  BY <1>7, <1>10
<1>12. ASSUME r[b] = <<>> PROVE Listed(r, Erase(sl, k, b), k - 1, h, t, o, n)
  <2> DEFINE e == Erase(sl, k, b)
  <2>1. InUse(e, sl, k, p, n)
    BY <1>2, <1>3, <1>10, InUseAfter
  <2> HIDE DEF e
  <2>2. /\ e \in [1 .. n -> 1 .. n]
        /\ \A i, j \in 1 .. k - 1 : e[i] = e[j] => i = j
    BY <2>1 DEF InUse
  <2>3. \A i \in 1 .. k - 1 : e[i] # b /\ \E j \in 1 .. k : e[i] = sl[j]
    BY <1>10, <2>1 DEF InUse
  <2>4. \A j \in 1 .. k : j # p => \E i \in 1 .. k - 1 : e[i] = sl[j]
    BY <2>1 DEF InUse
  <2>5. /\ \A i \in 1 .. n : p <= i /\ i < k => e[i] = sl[i + 1]
        /\ \A i \in 1 .. n : ~(p <= i /\ i < k) => e[i] = sl[i]
    BY <2>1 DEF InUse
  <2>6. k - 1 \in 0 .. n /\ k - 1 \in 1 .. t
    BY <1>2, <1>7, <1>10, <1>11
  <2>7. \A i \in 1 .. k - 1 : e[i] \notin ToSet(o) /\ r[e[i]] # <<>>
    <3> TAKE i \in 1 .. k - 1
    <3>1. PICK j \in 1 .. k : e[i] = sl[j]
      BY <2>3
    <3>2. e[i] # b /\ e[i] \in 1 .. n /\ e[i] \notin ToSet(o) /\ l[e[i]] # <<>>
      BY <1>4, <2>3, <3>1
    <3> QED BY <1>1, <3>2
  <2>8. \A c \in 1 .. n : r[c] # <<>> => c \in ToSet(o) \/ \E i \in 1 .. k - 1 : e[i] = c
    <3> SUFFICES ASSUME NEW c \in 1 .. n, r[c] # <<>>, c \notin ToSet(o)
                 PROVE  \E i \in 1 .. k - 1 : e[i] = c
      OBVIOUS
    <3>1. c # b
      BY <1>12
    <3>2. PICK j \in 1 .. k : sl[j] = c
      <4>1. CASE c = h
        BY <1>7, <4>1
      <4>2. CASE c # h
        BY <1>1, <1>5, <3>1, <4>2
      <4> QED BY <4>1, <4>2
    <3>3. j # p
      BY <1>10, <3>1, <3>2
    <3> QED BY <2>4, <3>2, <3>3
  <2>9. InOnePlace(r, e, k - 1, o, n)
    BY <1>2, <1>3, <1>9, <2>2, <2>6, <2>7, <2>8 DEF InOnePlace
  <2>10. e[1] = h
    <3>1. 1 \in 1 .. n /\ ~(p <= 1 /\ 1 < k)
      BY <1>2, <1>7, <1>10, <1>11
    <3> QED BY <1>7, <2>5, <3>1
  <2>11. \A i \in 2 .. t : e[i] # h /\ e[i] \notin ToSet(o)
    <3> TAKE i \in 2 .. t
    <3>1. i \in 1 .. n
      BY <1>7
    <3>2. CASE p <= i /\ i < k
      <4>1. i + 1 \in 2 .. t /\ e[i] = sl[i + 1]
        BY <1>7, <2>5, <3>1, <3>2
      <4> QED BY <1>8, <4>1
    <3>3. CASE ~(p <= i /\ i < k)
      <4>1. e[i] = sl[i]
        BY <2>5, <3>1, <3>3
      <4> QED BY <1>8, <4>1
    <3> QED BY <3>2, <3>3
  <2>12. SearchSees(e, k - 1, h, t, o, n)
    BY <1>7, <2>6, <2>10, <2>11 DEF SearchSees
  <2> QED BY <2>9, <2>12 DEF Listed, e
<1>13. ASSUME r[b] # <<>> PROVE Listed(r, sl, k, h, t, o, n)
  <2>1. \A c \in 1 .. n : r[c] # <<>> <=> l[c] # <<>> \/ c = h
    BY <1>1, <1>13
  <2>2. \A i \in 1 .. k : sl[i] \notin ToSet(o) /\ r[sl[i]] # <<>>
    BY <1>4, <2>1
  <2>3. \A c \in 1 .. n : r[c] # <<>> => c \in ToSet(o) \/ \E i \in 1 .. k : sl[i] = c
    BY <1>5, <1>7, <2>1
  <2>4. InOnePlace(r, sl, k, o, n)
    BY <1>2, <1>3, <1>9, <2>2, <2>3 DEF InOnePlace
  <2> QED BY <2>4 DEF Listed
<1> QED BY <1>12, <1>13

\* What a Move of x leaves.
MoveDone(a, m, x, h, t, o, n) ==
  /\ Merging(a, h, t, o, n)
  /\ a.list[h] = Append(m.list[h], x[2]) /\ a.load = m.load
  /\ \A y : Movable(m.list, y, h, o, n) /\ y[2] # x[2] => Movable(a.list, y, h, o, n)

LEMMA MovedKeeps ==
  ASSUME NEW n \in Nat, NEW h \in 1 .. n, NEW t, NEW o, NEW m, Merging(m, h, t, o, n),
         NEW x, Movable(m.list, x, h, o, n), NEW a, Moved(a, m, h, x[1], x[2])
  PROVE  MoveDone(a, m, x, h, t, o, n)
<1> DEFINE b == x[1]
           s == x[2]
           r == MovedList(m.list, h, b, s)
<1>1. b \in 1 .. n /\ b # h /\ b \notin ToSet(o) /\ s \in Taken /\ s \in ToSet(m.list[b])
  BY DEF Movable
<1>2. Divides(m.list, n) /\ a.list = r /\ a.load = m.load
  BY DEF Merging, Moved
<1>3. /\ r[b] = <<>> => a.slots = Erase(m.slots, m.size, b) /\ a.size = m.size - 1
      /\ r[b] # <<>> => a.slots = m.slots /\ a.size = m.size
  BY DEF Moved
<1> HIDE DEF b, s
<1>4. Takes(r, m.list, h, b, s, n)
  BY <1>1, <1>2, MovedDivides
<1> HIDE DEF r
<1>5. m.list[b] # <<>>
  BY <1>1 DEF ToSet
<1>6. m.list \in [1 .. n -> Seq(Taken)] /\ Listed(m.list, m.slots, m.size, h, t, o, n)
  BY DEF Merging, Divides
<1>7. /\ r[b] = <<>> => Listed(r, Erase(m.slots, m.size, b), m.size - 1, h, t, o, n)
      /\ r[b] # <<>> => Listed(r, m.slots, m.size, h, t, o, n)
  BY <1>1, <1>4, <1>5, <1>6, TakenListed
<1>8. Listed(r, a.slots, a.size, h, t, o, n)
  BY <1>3, <1>7
<1>9. Divides(r, n) /\ r[h] = Append(m.list[h], s)
      /\ ToSet(r[b]) = ToSet(m.list[b]) \ {s}
      /\ \A c \in 1 .. n : c \notin {h, b} => r[c] = m.list[c]
  BY <1>4 DEF Takes
<1>10. \A y : Movable(m.list, y, h, o, n) /\ y[2] # s => Movable(a.list, y, h, o, n)
  <2> SUFFICES ASSUME NEW y, Movable(m.list, y, h, o, n), y[2] # s PROVE Movable(a.list, y, h, o, n)
    OBVIOUS
  <2>1. /\ y[1] \in 1 .. n /\ y[1] # h /\ y[1] \notin ToSet(o) /\ y[2] \in Taken
        /\ y[2] \in ToSet(m.list[y[1]])
    BY DEF Movable
  <2>2. y[2] \in ToSet(r[y[1]])
    BY <1>9, <2>1
  <2> QED BY <1>2, <2>1, <2>2 DEF Movable
<1>11. Merging(a, h, t, o, n)
  BY <1>2, <1>8, <1>9 DEF Merging
<1> QED BY <1>2, <1>9, <1>10, <1>11 DEF MoveDone, s

\* MoveAll, one stripe after the other.
Moves(p, k, m, all) ==
  /\ p[0] = m /\ p[k] = MoveAll(m, all)
  /\ \A j \in 0 .. k - 1 : p[j + 1] = Move(p[j], all[j + 1][1], all[j + 1][2])

LEMMA MoveAllAlong ==
  ASSUME NEW n \in Nat, NEW k \in Nat, NEW all, DOMAIN all = 1 .. k, head \in 1 .. n,
         \A i \in 1 .. k : all[i][1] \in 1 .. n /\ all[i][1] # head /\ all[i][2] \in Taken,
         NEW m \in Merges(n)
  PROVE  \E p \in [0 .. k -> Merges(n)] : Moves(p, k, m, all)
<1> DEFINE A == Merges(n)
           Turn == [i \in 1 .. k |-> [a \in A |-> Move(a, all[i][1], all[i][2])]]
           S == SUBSET (1 .. k)
           Done(g) == g = [s \in S |-> IF s = {} THEN m
                             ELSE Move(g[s \ {Max(s)}], all[Max(s)][1], all[Max(s)][2])]
           iter == CHOOSE g : Done(g)
<1>1. MoveAll(m, all) = iter[1 .. k]
  BY DEF MoveAll, FoldLeft, MapThenFoldSet
<1>2. Turn \in [1 .. k -> [A -> A]]
  <2>1. \A i \in 1 .. k : \A a \in A : Move(a, all[i][1], all[i][2]) \in A
    BY MoveType
  <2> HIDE DEF A
  <2> QED BY <2>1
<1> HIDE DEF A
<1>3. m \in A
  BY DEF A
<1>4. PICK g \in [S -> A] : Folds(g, S, m, Turn)
  <2> HIDE DEF Turn
  <2> QED BY <1>2, <1>3, FoldExists
<1>5. \A s \in S : s # {} => Max(s) \in 1 .. k /\ s \ {Max(s)} \in S
  BY MaxIsIn
<1>6. Done(g)
  <2>1. ASSUME NEW s \in S, s # {}
        PROVE  Turn[Max(s)][g[s \ {Max(s)}]] = Move(g[s \ {Max(s)}], all[Max(s)][1], all[Max(s)][2])
    <3>1. Max(s) \in 1 .. k /\ g[s \ {Max(s)}] \in A
      BY <1>4, <1>5, <2>1
    <3> QED BY <3>1
  <2> HIDE DEF S, Turn
  <2>2. g = [s \in S |-> IF s = {} THEN m ELSE Turn[Max(s)][g[s \ {Max(s)}]]]
    BY <1>4 DEF Folds
  <2> QED BY <2>1, <2>2
<1>7. Done(iter)
  <2> HIDE DEF Done
  <2> QED BY <1>6
<1>8. /\ iter[{}] = m
      /\ \A s \in S : s # {} =>
           iter[s] = Move(iter[s \ {Max(s)}], all[Max(s)][1], all[Max(s)][2])
  <2>1. {} \in S
    OBVIOUS
  <2> HIDE DEF iter, S
  <2> QED BY <1>7, <2>1
<1> HIDE DEF iter
<1>9. \A s \in S : s # {} /\ iter[s \ {Max(s)}] \in A =>
        iter[s] = Turn[Max(s)][iter[s \ {Max(s)}]]
  BY <1>5, <1>8
<1>10. PICK p \in [0 .. k -> A] : Climbs(p, k, m, Turn, iter[1 .. k])
  <2> HIDE DEF Turn
  <2>1. Recurs(iter, k, A, m, Turn)
    BY <1>8, <1>9 DEF Recurs
  <2> QED BY <1>2, <1>3, <2>1, FoldsUpwards
<1>11. \A j \in 0 .. k - 1 : p[j + 1] = Move(p[j], all[j + 1][1], all[j + 1][2])
  <2> TAKE j \in 0 .. k - 1
  <2>1. j + 1 \in 1 .. k /\ j \in 0 .. k
    OBVIOUS
  <2>2. p[j] \in A /\ p[j + 1] = Turn[j + 1][p[j]]
    BY <1>10, <2>1 DEF Climbs
  <2> QED BY <2>1, <2>2
<1>12. Moves(p, k, m, all)
  <2> HIDE DEF Turn
  <2> QED BY <1>1, <1>10, <1>11 DEF Climbs, Moves
<1> QED BY <1>12 DEF A

\* The list that q becomes when the first j stripes of all are appended.
With(q, all, j) == q \o [i \in 1 .. j |-> all[i][2]]

StripesIn(all, j, X) == \A i \in 1 .. j : all[i][2] \in X
IsWith(w, q, all, j, X) ==
  /\ w \in Seq(X) /\ Len(w) = Len(q) + j
  /\ ToSet(w) = ToSet(q) \cup {all[i][2] : i \in 1 .. j}

LEMMA WithIs ==
  ASSUME NEW X, NEW q \in Seq(X), NEW all, NEW j \in Nat, StripesIn(all, j, X)
  PROVE  IsWith(With(q, all, j), q, all, j, X)
<1> DEFINE e == [i \in 1 .. j |-> all[i][2]]
           w == q \o e
           c == Len(q)
<1>1. e \in Seq(X) /\ Len(e) = j /\ DOMAIN e = 1 .. j
  BY DEF StripesIn
<1>2. \A i \in 1 .. j : e[i] = all[i][2]
  OBVIOUS
<1> HIDE DEF e
<1>3. w \in Seq(X) /\ Len(w) = c + j /\ DOMAIN w = 1 .. c + j /\ DOMAIN q = 1 .. c /\ c \in Nat
  BY <1>1
<1>4. \A i \in 1 .. c : w[i] = q[i]
  BY <1>1
<1>5. \A i \in 1 .. j : w[c + i] = e[i]
  BY <1>1
<1> HIDE DEF w, c
<1>6. \A x \in ToSet(w) : x \in ToSet(q) \cup {all[i][2] : i \in 1 .. j}
  <2> SUFFICES ASSUME NEW k \in 1 .. c + j PROVE w[k] \in ToSet(q) \cup {all[i][2] : i \in 1 .. j}
    BY <1>3 DEF ToSet
  <2>1. CASE k \in 1 .. c
    BY <1>3, <1>4, <2>1 DEF ToSet
  <2>2. CASE k \notin 1 .. c
    <3>1. k - c \in 1 .. j /\ c + (k - c) = k
      BY <1>3, <2>2
    <3>2. w[k] = e[k - c]
      BY <1>5, <3>1
    <3> QED BY <1>2, <3>1, <3>2
  <2> QED BY <2>1, <2>2
<1>7. \A x \in ToSet(q) : x \in ToSet(w)
  <2>1. \A i \in 1 .. c : i \in 1 .. c + j
    BY <1>3
  <2> QED BY <1>3, <1>4, <2>1 DEF ToSet
<1>8. \A i \in 1 .. j : all[i][2] \in ToSet(w)
  <2>1. \A i \in 1 .. j : c + i \in 1 .. c + j
    BY <1>3
  <2> QED BY <1>2, <1>3, <1>5, <2>1 DEF ToSet
<1>9. ToSet(w) = ToSet(q) \cup {all[i][2] : i \in 1 .. j}
  BY <1>6, <1>7, <1>8
<1>10. w = With(q, all, j)
  BY DEF With, w, e
<1> QED BY <1>3, <1>9, <1>10 DEF c, IsWith

LEMMA WithNext ==
  ASSUME NEW X, NEW q \in Seq(X), NEW all, NEW j \in Nat, StripesIn(all, j + 1, X)
  PROVE  With(q, all, j + 1) = Append(With(q, all, j), all[j + 1][2])
<1> DEFINE e == [i \in 1 .. j |-> all[i][2]]
           f == [i \in 1 .. j + 1 |-> all[i][2]]
           s == all[j + 1][2]
           k == j + 1
<1>1. 1 .. j \subseteq 1 .. k /\ k \in 1 .. k /\ \A i \in 1 .. k : i \in 1 .. j \/ i = k
  OBVIOUS
<1>2. e \in Seq(X) /\ Len(e) = j /\ f \in Seq(X) /\ Len(f) = k /\ s \in X
  BY <1>1 DEF StripesIn
<1>3. f[k] = s /\ \A i \in 1 .. j : f[i] = e[i]
  BY <1>1
<1> HIDE DEF e, f, s
<1>4. f = Append(e, s)
  <2>1. /\ Append(e, s) \in Seq(X) /\ Len(Append(e, s)) = k
        /\ Append(e, s)[k] = s /\ \A i \in 1 .. j : Append(e, s)[i] = e[i]
    BY <1>2
  <2>2. \A i \in 1 .. k : f[i] = Append(e, s)[i]
    BY <1>1, <1>3, <2>1
  <2> QED BY <1>2, <2>1, <2>2
<1>5. q \o Append(e, s) = Append(q \o e, s)
  BY <1>2
<1> QED BY <1>4, <1>5 DEF With, e, f, s

\* Stripes that may be moved to the head, each once.
AllMovable(l, all, k, o, n) ==
  /\ \A i \in 1 .. k : Movable(l, all[i], head, o, n)
  /\ \A i, j \in 1 .. k : all[i][2] = all[j][2] => i = j

\* What MoveAll leaves.
Merged(r, m, all, k, t, o, n) ==
  /\ r \in Merges(n) /\ Merging(r, head, t, o, n) /\ r.load = m.load
  /\ r.list[head] = With(m.list[head], all, k)

LEMMA MergeKeeps ==
  ASSUME NEW n \in Nat, NEW k \in Nat, NEW all, DOMAIN all = 1 .. k, head \in 1 .. n,
         NEW t, NEW o, NEW m \in Merges(n), Merging(m, head, t, o, n),
         AllMovable(m.list, all, k, o, n)
  PROVE  Merged(MoveAll(m, all), m, all, k, t, o, n)
<1>1. \A i \in 1 .. k : all[i][1] \in 1 .. n /\ all[i][1] # head /\ all[i][2] \in Taken
  BY DEF AllMovable, Movable
<1>2. PICK p \in [0 .. k -> Merges(n)] : Moves(p, k, m, all)
  BY <1>1, MoveAllAlong
<1> DEFINE Left(j) == \A i \in j + 1 .. k : Movable(p[j].list, all[i], head, o, n)
           S == {j \in 0 .. k : /\ Merging(p[j], head, t, o, n) /\ p[j].load = m.load
                                /\ p[j].list[head] = With(m.list[head], all, j) /\ Left(j)}
<1>3. m.list[head] \in Seq(Taken)
  BY DEF Merges
<1>4. 0 \in S
  <2>1. p[0] = m
    BY <1>2 DEF Moves
  <2>2. With(m.list[head], all, 0) = m.list[head]
    BY <1>3 DEF With
  <2>3. Left(0)
    BY <2>1 DEF AllMovable
  <2> HIDE DEF Left
  <2> QED BY <2>1, <2>2, <2>3
<1>5. ASSUME NEW j \in 0 .. k - 1, j \in S PROVE j + 1 \in S
  <2> DEFINE a == p[j]
             b == p[j + 1]
             x == all[j + 1]
  <2>1. j \in Nat /\ j \in 0 .. k /\ j + 1 \in 0 .. k /\ j + 1 \in 1 .. k /\ j + 1 \in j + 1 .. k
    OBVIOUS
  <2>2. a \in Merges(n) /\ b = Move(a, x[1], x[2])
    BY <1>2, <2>1 DEF Moves
  <2>3. Merging(a, head, t, o, n) /\ a.load = m.load /\ a.list[head] = With(m.list[head], all, j)
        /\ Left(j)
    BY <1>5
  <2>4. Movable(a.list, x, head, o, n)
    BY <2>1, <2>3
  <2>5. x[1] \in 1 .. n /\ x[1] # head /\ x[2] \in Taken
    BY <1>1, <2>1
  <2> HIDE DEF a, b, x, Left, S
  <2>6. Moved(b, a, head, x[1], x[2])
    BY <2>2, <2>5, MoveType
  <2>7. MoveDone(b, a, x, head, t, o, n)
    BY <2>3, <2>4, <2>6, MovedKeeps
  <2>8. Merging(b, head, t, o, n) /\ b.load = m.load
        /\ b.list[head] = Append(With(m.list[head], all, j), x[2])
    BY <2>3, <2>7 DEF MoveDone
  <2>9. b.list[head] = With(m.list[head], all, j + 1)
    <3>1. StripesIn(all, j + 1, Taken)
      BY <1>1, <2>1 DEF StripesIn
    <3>2. With(m.list[head], all, j + 1) = Append(With(m.list[head], all, j), all[j + 1][2])
      BY <1>3, <2>1, <3>1, WithNext
    <3> QED BY <2>8, <3>2 DEF x
  <2>10. Left(j + 1)
    <3> SUFFICES ASSUME NEW i \in (j + 1) + 1 .. k PROVE Movable(b.list, all[i], head, o, n)
      BY DEF Left, b
    <3>1. i \in j + 1 .. k /\ i \in 1 .. k /\ i # j + 1
      BY <2>1
    <3>2. Movable(a.list, all[i], head, o, n)
      BY <2>3, <3>1 DEF Left, a
    <3>3. all[i][2] # x[2]
      BY <2>1, <3>1 DEF AllMovable, x
    <3> QED BY <2>7, <3>2, <3>3 DEF MoveDone
  <2> QED BY <2>1, <2>8, <2>9, <2>10 DEF S, b
<1>6. k \in S
  <2> HIDE DEF S
  <2>1. k \in 0 .. k
    OBVIOUS
  <2> QED BY <1>4, <1>5, <2>1, UpToN
<1>7. p[k] \in Merges(n) /\ p[k] = MoveAll(m, all)
  <2>1. k \in 0 .. k
    OBVIOUS
  <2> QED BY <1>2, <2>1 DEF Moves
<1> QED BY <1>6, <1>7 DEF Merged
-----------------------------------------------------------------------------
(***************************************************************************)
(* The steps of the second half.                                           *)
(***************************************************************************)
BatchesOK(n) ==
  /\ Divides(list, n) /\ InOnePlace(list, slots, size, out, n)
  /\ load \in [Taken -> Load] /\ tab \in [1 .. n -> Load]

\* The search: what it sees, what it keeps aside, and what it compares with.
Searching(n) ==
  /\ SearchSees(slots, size, head, tail, out, n)
  /\ kept \in Seq((1 .. n) \X Taken) /\ AllMovable(list, kept, Len(kept), out, n)
  /\ best = <<LoadOf(TableOf(list[head], load)), Len(list[head])>>
  /\ table = TableOf(With(list[head], kept, Len(kept)), load)

Improving ==
  /\ gpc = "group" => out = <<>>
  /\ gpc \notin {"group", "crashed"} =>
       \E n \in Nat : /\ BatchesOK(n)
                      /\ gpc = "try" => Searching(n)
                      /\ gpc \in {"try", "push"} => size # 0

\* A batch that is equally often in both, and once in the first, is so in the second.
EquallyOften(old, new, k, n) ==
  \A b \in 1 .. n : Cardinality({i \in 1 .. k : old[i] = b})
                      = Cardinality({i \in 1 .. k : new[i] = b})

OneSlotEach(sl, k) == \A i, j \in 1 .. k : sl[i] = sl[j] => i = j
SameBatches(old, new, k, n) ==
  \A b \in 1 .. n : (\E i \in 1 .. k : old[i] = b) <=> (\E i \in 1 .. k : new[i] = b)

LEMMA Permuted ==
  ASSUME NEW n \in Nat, NEW old \in [1 .. n -> 1 .. n], NEW new \in [1 .. n -> 1 .. n],
         NEW k \in 0 .. n, OneSlotEach(old, k), EquallyOften(old, new, k, n)
  PROVE  OneSlotEach(new, k) /\ SameBatches(old, new, k, n)
<1> DEFINE P(f, b) == {i \in 1 .. k : f[i] = b}
<1>1. IsFiniteSet(1 .. k) /\ \A i \in 1 .. k : i \in 1 .. n
  BY FS_Interval
<1>2. \A b : IsFiniteSet(P(old, b)) /\ IsFiniteSet(P(new, b))
  BY <1>1, FS_Subset
<1>3. ASSUME NEW b \in 1 .. n, NEW i \in 1 .. k, NEW j \in 1 .. k, new[i] = b, new[j] = b
      PROVE  i = j /\ \E m \in 1 .. k : old[m] = b
  <2>1. i \in P(new, b) /\ j \in P(new, b)
    BY <1>3
  <2>2. Cardinality(P(old, b)) = Cardinality(P(new, b))
    BY DEF EquallyOften
  <2>3. P(new, b) # {} /\ P(old, b) # {}
    <3>1. Cardinality(P(new, b)) # 0
      <4> HIDE DEF P
      <4> QED BY <1>2, <2>1, FS_EmptySet
    <3> HIDE DEF P
    <3> QED BY <1>2, <2>1, <2>2, <3>1, FS_EmptySet
  <2>4. PICK m \in 1 .. k : old[m] = b
    BY <2>3
  <2>5. P(old, b) = {m}
    BY <2>4 DEF OneSlotEach
  <2>6. Cardinality(P(new, b)) = 1
    <3> HIDE DEF P
    <3> QED BY <2>2, <2>5, FS_Singleton
  <2>7. \E x : P(new, b) = {x}
    <3> HIDE DEF P
    <3> QED BY <1>2, <2>6, FS_Singleton
  <2> HIDE DEF P
  <2> QED BY <2>1, <2>4, <2>7
<1>4. ASSUME NEW b \in 1 .. n, NEW i \in 1 .. k, old[i] = b
      PROVE  \E m \in 1 .. k : new[m] = b
  <2>1. i \in P(old, b) /\ Cardinality(P(old, b)) = Cardinality(P(new, b))
    BY <1>4 DEF EquallyOften
  <2>2. P(new, b) # {}
    <3> HIDE DEF P
    <3> QED BY <1>2, <2>1, FS_EmptySet
  <2> QED BY <2>2
<1>5. \A i, j \in 1 .. k : new[i] = new[j] => i = j
  <2> TAKE i, j \in 1 .. k
  <2>1. new[i] \in 1 .. n
    BY <1>1
  <2> QED BY <1>3, <2>1
<1>6. \A b \in 1 .. n : (\E i \in 1 .. k : old[i] = b) <=> (\E i \in 1 .. k : new[i] = b)
  BY <1>3, <1>4
<1> QED BY <1>5, <1>6 DEF OneSlotEach, SameBatches

LEMMA SelectHeadStep ==
  ASSUME NEW n \in Nat, BatchesOK(n), SelectHead
  PROVE  BatchesOK(n)' /\ Searching(n)' /\ size' # 0
<1>1. Divides(list, n) /\ InOnePlace(list, slots, size, out, n)
  BY DEF BatchesOK
<1>2. list \in [1 .. n -> Seq(Taken)] /\ DOMAIN list = 1 .. n
  BY <1>1 DEF Divides
<1>3. slots \in [1 .. n -> 1 .. n] /\ size \in 0 .. n /\ Len(slots) = n /\ DOMAIN slots = 1 .. n
  BY <1>1 DEF InOnePlace
<1>4. PICK new \in [DOMAIN slots -> DOMAIN list] : Sorted(slots, new) /\ slots' = new
  BY DEF SelectHead
<1>5. new \in [1 .. n -> 1 .. n]
  BY <1>2, <1>3, <1>4
<1>6. EquallyOften(slots, new, size, n)
  BY <1>3, <1>4 DEF Sorted, EquallyOften
<1>7. OneSlotEach(slots, size)
  BY <1>1 DEF InOnePlace, OneSlotEach
<1>8. /\ \A i, j \in 1 .. size : new[i] = new[j] => i = j
      /\ \A b \in 1 .. n : (\E i \in 1 .. size : slots[i] = b) <=> (\E i \in 1 .. size : new[i] = b)
  <2>1. OneSlotEach(new, size) /\ SameBatches(slots, new, size, n)
    BY <1>3, <1>5, <1>6, <1>7, Permuted
  <2> QED BY <2>1 DEF OneSlotEach, SameBatches
<1>9. /\ out \in Seq(1 .. n) /\ DistinctEntries(out)
      /\ \A i \in 1 .. size : slots[i] \notin ToSet(out) /\ list[slots[i]] # <<>>
      /\ \A b \in 1 .. n : list[b] # <<>> => b \in ToSet(out) \/ \E i \in 1 .. size : slots[i] = b
      /\ \A b \in ToSet(out) : list[b] # <<>>
  BY <1>1 DEF InOnePlace
<1>10. \A i \in 1 .. size : new[i] \in 1 .. n
  <2>1. \A i \in 1 .. size : i \in 1 .. n
    BY <1>3
  <2> QED BY <1>5, <2>1
<1>11. \A i \in 1 .. size : new[i] \notin ToSet(out) /\ list[new[i]] # <<>>
  <2> TAKE i \in 1 .. size
  <2>1. PICK j \in 1 .. size : slots[j] = new[i]
    BY <1>8, <1>10
  <2> QED BY <1>9, <2>1
<1>12. \A b \in 1 .. n : list[b] # <<>> => b \in ToSet(out) \/ \E i \in 1 .. size : new[i] = b
  BY <1>8, <1>9
<1>13. InOnePlace(list, new, size, out, n)
  BY <1>3, <1>5, <1>8, <1>9, <1>11, <1>12 DEF InOnePlace
<1>14. size \in 1 .. n /\ 1 \in 1 .. size
  BY <1>3 DEF SelectHead
<1>15. SearchSees(new, size, new[1], size, out, n)
  <2>1. \A i \in 2 .. size : i \in 1 .. size /\ i # 1
    BY <1>3
  <2>2. size \in 1 .. size
    BY <1>14
  <2> QED BY <1>8, <1>11, <1>14, <2>1, <2>2 DEF SearchSees
<1>16. /\ slots' = new /\ UNCHANGED <<place, size, list, tab, load, out>>
       /\ tail' = size /\ kept' = <<>>
       /\ table' = TableOf(list[new[1]], load) /\ best' = <<LoadOf(table'), Len(list[new[1]])>>
  BY <1>4 DEF SelectHead
<1>17. Taken' = Taken
  BY <1>16 DEF Taken, Lost
<1>18. BatchesOK(n)'
  BY <1>13, <1>16, <1>17 DEF BatchesOK, Divides
<1>19. Searching(n)'
  <2>1. head' = new[1]
    BY <1>16 DEF head
  <2>2. SearchSees(slots, size, head, tail, out, n)'
    BY <1>15, <1>16, <2>1
  <2>3. kept' \in Seq((1 .. n) \X Taken') /\ Len(kept') = 0
    BY <1>16
  <2>4. AllMovable(list, kept, Len(kept), out, n)'
    BY <2>3 DEF AllMovable
  <2>5. list[new[1]] \in Seq(Taken)
    BY <1>2, <1>10, <1>14
  <2>6. With(list[new[1]], kept', 0) = list[new[1]]
    BY <2>5 DEF With
  <2> QED BY <1>16, <2>1, <2>2, <2>3, <2>4, <2>6 DEF Searching
<1> QED BY <1>14, <1>16, <1>18, <1>19

\* A load of a stripe is a load table.
LoadsAreTables == \A s \in Taken : Loads(place[s]) \subseteq Load

\* The stripe that a turn of the search takes, of the batch at a slot it sees.
Takeable(b, s, n) ==
  /\ Movable(list, <<b, s>>, head, out, n)
  /\ \A i \in DOMAIN kept : kept[i][2] # s

LEMMA CandidateIs ==
  ASSUME NEW n \in Nat, BatchesOK(n), Searching(n), Candidates # {}
  PROVE  Takeable(slots[Max(Candidates)], Fits(slots[Max(Candidates)])[1], n)
<1> DEFINE i == Max(Candidates)
           b == slots[i]
           S == {j \in DOMAIN list[b] : Untried(list[b][j]) /\ MayFit(list[b][j])}
<1>1. tail \in 1 .. n /\ \A j \in 2 .. tail : slots[j] # head /\ slots[j] \notin ToSet(out)
  BY DEF Searching, SearchSees
<1>2. i \in 2 .. tail /\ Fits(b) # <<>>
  <2>1. Candidates \in SUBSET (1 .. n)
    BY <1>1 DEF Candidates
  <2>2. i \in Candidates
    BY <2>1, MaxIsIn
  <2> HIDE DEF i
  <2> QED BY <2>2 DEF Candidates
<1> HIDE DEF i
<1>3. slots \in [1 .. n -> 1 .. n] /\ list \in [1 .. n -> Seq(Taken)]
  BY DEF BatchesOK, InOnePlace, Divides
<1>4. b \in 1 .. n /\ b # head /\ b \notin ToSet(out)
  <2>1. i \in 1 .. n
    BY <1>1, <1>2
  <2> QED BY <1>1, <1>2, <1>3, <2>1
<1> HIDE DEF b
<1>5. list[b] \in Seq(Taken)
  BY <1>3, <1>4
<1>6. S \in SUBSET (1 .. Len(list[b])) /\ Len(list[b]) \in Nat /\ Fits(b) = Entries(list[b], S)
  BY <1>5 DEF Fits
<1>7. TakenAt(Fits(b), list[b], S)
  <2> HIDE DEF S
  <2> QED BY <1>6, EntriesAre
<1>8. PICK m \in Nat : /\ DOMAIN Fits(b) = 1 .. m
                       /\ \A k \in 1 .. m : \E j \in S : Fits(b)[k] = list[b][j]
                       /\ m = 0 => S = {}
  BY <1>7 DEF TakenAt
<1>9. m # 0
  <2>1. ASSUME m = 0 PROVE FALSE
    <3>1. Cardinality(S) = 0
      BY <1>8, <2>1, FS_EmptySet
    <3>2. Entries(list[b], S) = <<>>
      <4> HIDE DEF S
      <4> QED BY <3>1 DEF Entries
    <3> QED BY <1>2, <1>6, <3>2 DEF b
  <2> QED BY <2>1
<1>10. PICK j \in S : Fits(b)[1] = list[b][j]
  <2>1. 1 \in 1 .. m
    BY <1>9
  <2> QED BY <1>8, <2>1
<1>11. Untried(list[b][j]) /\ list[b][j] \in Taken /\ list[b][j] \in ToSet(list[b])
  BY <1>5, <1>10 DEF ToSet
<1> HIDE DEF S
<1>12. Takeable(b, Fits(b)[1], n)
  BY <1>4, <1>10, <1>11 DEF Takeable, Movable, Untried
<1> QED BY <1>12 DEF b, i

\* all is what is kept aside, with one more.
Grown(all, b, s, n) ==
  /\ all \in Seq((1 .. n) \X Taken) /\ Len(all) = Len(kept) + 1
  /\ AllMovable(list, all, Len(kept) + 1, out, n)
  /\ \A i \in 1 .. Len(kept) : all[i] = kept[i]
  /\ all[Len(kept) + 1] = <<b, s>>

LEMMA KeptGrows ==
  ASSUME NEW n \in Nat, Searching(n), NEW b \in 1 .. n, NEW s \in Taken, Takeable(b, s, n)
  PROVE  Grown(Append(kept, <<b, s>>), b, s, n)
<1> DEFINE all == Append(kept, <<b, s>>)
           k == Len(kept)
           X == (1 .. n) \X Taken
<1>1. kept \in Seq(X) /\ <<b, s>> \in X /\ AllMovable(list, kept, k, out, n)
  BY DEF Searching
<1> HIDE DEF X
<1>2. /\ all \in Seq(X) /\ Len(all) = k + 1 /\ k \in Nat /\ DOMAIN kept = 1 .. k
      /\ all[k + 1] = <<b, s>> /\ \A i \in 1 .. k : all[i] = kept[i]
  BY <1>1
<1> HIDE DEF all, k
<1>3. \A i \in 1 .. k + 1 : i \in 1 .. k \/ i = k + 1
  BY <1>2
<1>4. \A i \in 1 .. k + 1 : Movable(list, all[i], head, out, n)
  BY <1>1, <1>2, <1>3 DEF AllMovable, Takeable
<1>5. \A i \in 1 .. k : all[i][2] # s
  BY <1>2 DEF Takeable
<1>6. \A i, j \in 1 .. k + 1 : all[i][2] = all[j][2] => i = j
  <2>1. all[k + 1][2] = s
    BY <1>2
  <2>2. \A i, j \in 1 .. k : all[i][2] = all[j][2] => i = j
    BY <1>1, <1>2 DEF AllMovable
  <2> QED BY <1>3, <1>5, <2>1, <2>2
<1>7. AllMovable(list, all, k + 1, out, n)
  BY <1>4, <1>6 DEF AllMovable
<1> QED BY <1>2, <1>7 DEF all, k, X, Grown

\* The table when the stripe is colored anew, and one of the list: no stripe else is.
Recolored(new, s, l) == new = [load EXCEPT ![s] = l]

LEMMA TableGrows ==
  ASSUME NEW n \in Nat, BatchesOK(n), Searching(n), head \in 1 .. n,
         NEW b \in 1 .. n, NEW s \in Taken, Takeable(b, s, n), NEW all, Grown(all, b, s, n),
         NEW l \in Load, NEW new, Recolored(new, s, l)
  PROVE  /\ TableOf(list[head], new) = TableOf(list[head], load)
         /\ TableOf(With(list[head], all, Len(kept) + 1), new) = Plus(table, l)
<1> DEFINE k == Len(kept)
           q == list[head]
           w == With(q, kept, k)
<1>1. list \in [1 .. n -> Seq(Taken)] /\ q \in Seq(Taken) /\ load \in [Taken -> Load]
  BY DEF BatchesOK, Divides
<1>2. kept \in Seq((1 .. n) \X Taken)
  BY DEF Searching
<1>3. k \in Nat /\ DOMAIN kept = 1 .. k /\ StripesIn(kept, k, Taken)
  <2>1. \A i \in DOMAIN kept : kept[i] \in (1 .. n) \X Taken
    BY <1>2
  <2> QED BY <1>2, <2>1 DEF StripesIn
<1>4. new \in [Taken -> Load] /\ new[s] = l /\ \A x \in Taken : x # s => new[x] = load[x]
  BY <1>1 DEF Recolored
<1>5. s \notin ToSet(q)
  <2>1. s \in ToSet(list[b]) /\ b # head
    BY DEF Takeable, Movable
  <2> QED BY <2>1 DEF BatchesOK, Divides
<1>6. \A i \in 1 .. k : kept[i][2] # s
  BY <1>3 DEF Takeable
<1>7. table = TableOf(w, load)
  BY DEF Searching
<1>8. StripesIn(all, k + 1, Taken)
  <2>1. all \in Seq((1 .. n) \X Taken) /\ Len(all) = k + 1
    BY DEF Grown
  <2>2. \A i \in DOMAIN all : all[i] \in (1 .. n) \X Taken
    BY <2>1
  <2> QED BY <2>1, <2>2 DEF StripesIn
<1>9. (\A i \in 1 .. k : all[i] = kept[i]) /\ all[k + 1] = <<b, s>>
  BY DEF Grown
<1> HIDE DEF k, q
<1>10. w \in Seq(Taken) /\ ToSet(w) = ToSet(q) \cup {kept[i][2] : i \in 1 .. k}
  <2>1. IsWith(w, q, kept, k, Taken)
    BY <1>1, <1>3, WithIs
  <2> HIDE DEF w
  <2> QED BY <2>1 DEF IsWith
<1>11. w = With(q, all, k)
  BY <1>9, Zenon DEF With
<1> HIDE DEF w
<1>12. With(q, all, k + 1) = Append(w, s)
  <2>1. With(q, all, k + 1) = Append(With(q, all, k), all[k + 1][2])
    BY <1>1, <1>3, <1>8, WithNext
  <2> QED BY <1>9, <1>11, <2>1
<1>13. \A x \in Seq(Taken) : s \notin ToSet(x) => TableOf(x, new) = TableOf(x, load)
  <2> TAKE x \in Seq(Taken)
  <2> HAVE s \notin ToSet(x)
  <2>1. \A i \in DOMAIN x : x[i] \in Taken /\ x[i] # s
    BY DEF ToSet
  <2>2. SameLoads(x, new, load)
    BY <1>4, <2>1 DEF SameLoads
  <2> QED BY <2>2, TableOfThese
<1>14. TableOf(q, new) = TableOf(q, load)
  BY <1>1, <1>5, <1>13
<1>15. TableOf(w, new) = table
  <2>1. s \notin ToSet(w)
    BY <1>5, <1>6, <1>10
  <2> QED BY <1>7, <1>10, <1>13, <2>1
<1>16. TableOf(Append(w, s), new) = Plus(table, l)
  BY <1>4, <1>10, <1>15, TableAppended
<1> QED BY <1>12, <1>14, <1>16 DEF k, q

LEMMA TryStripeStep ==
  ASSUME NEW n \in Nat, BatchesOK(n), Searching(n), size # 0, LoadsAreTables, TryStripe
  PROVE  BatchesOK(n)' /\ Searching(n)' /\ size' # 0
<1> DEFINE b == slots[Max(Candidates)]
           s == Fits(b)[1]
           all == Append(kept, <<b, s>>)
           k == Len(kept)
           m(l) == [list |-> list, tab |-> tab, slots |-> slots, size |-> size,
                    load |-> [load EXCEPT ![s] = l]]
<1>1. PICK l \in Loads(place[s]) :
        /\ load' = [load EXCEPT ![s] = l]
        /\ table' = Plus(table, l)
        /\ IF Worse(<<LoadOf(Plus(table, l)), stripe_num + 1>>)
             THEN kept' = all /\ UNCHANGED <<list, tab, slots, size, best>>
             ELSE /\ kept' = <<>> /\ best' = NewBest(<<LoadOf(Plus(table, l)), stripe_num + 1>>)
                  /\ list' = MoveAll(m(l), all).list /\ tab' = MoveAll(m(l), all).tab
                  /\ slots' = MoveAll(m(l), all).slots /\ size' = MoveAll(m(l), all).size
  BY DEF TryStripe
<1>2. UNCHANGED <<place, tail, out>> /\ Candidates # {}
  BY DEF TryStripe
<1>3. Takeable(b, s, n)
  BY <1>2, CandidateIs
<1> HIDE DEF b, s
<1>4. b \in 1 .. n /\ s \in Taken
  BY <1>3 DEF Takeable, Movable
<1>5. Grown(all, b, s, n)
  BY <1>3, <1>4, KeptGrows, SMTT(20)
<1> HIDE DEF all
<1>6. SearchSees(slots, size, head, tail, out, n)
  BY DEF Searching
<1>7. head \in 1 .. n
  <2>1. slots \in [1 .. n -> 1 .. n]
    BY DEF BatchesOK, InOnePlace
  <2>2. 1 \in 1 .. n
    BY <1>6 DEF SearchSees
  <2> QED BY <2>1, <2>2 DEF head
<1>8. l \in Load /\ load' \in [Taken -> Load] /\ Taken' = Taken
  <2>1. Taken' = Taken
    BY <1>2 DEF Taken, Lost
  <2> QED BY <1>1, <1>2, <1>4, <2>1 DEF BatchesOK, LoadsAreTables
<1>9. /\ TableOf(list[head], load') = TableOf(list[head], load)
      /\ TableOf(With(list[head], all, k + 1), load') = table'
  <2>1. Recolored(load', s, l) /\ table' = Plus(table, l)
    BY <1>1 DEF Recolored
  <2> QED BY <1>3, <1>4, <1>5, <1>7, <1>8, <2>1, TableGrows
<1>10. all \in Seq((1 .. n) \X Taken) /\ Len(all) = k + 1 /\ AllMovable(list, all, k + 1, out, n)
  BY <1>5 DEF Grown
<1>11. best = <<LoadOf(TableOf(list[head], load)), Len(list[head])>>
  BY DEF Searching
<1>12. CASE kept' = all /\ UNCHANGED <<list, tab, slots, size, best>>
  <2>1. head' = head
    BY <1>12 DEF head
  <2>2. BatchesOK(n)'
    BY <1>2, <1>8, <1>12 DEF BatchesOK, Divides
  <2>3. SearchSees(slots, size, head, tail, out, n)'
    BY <1>2, <1>6, <1>12, <2>1
  <2>4. AllMovable(list, kept, Len(kept), out, n)'
    BY <1>2, <1>8, <1>10, <1>12, <2>1 DEF AllMovable, Movable
  <2>5. Searching(n)'
    BY <1>8, <1>9, <1>10, <1>11, <1>12, <2>1, <2>3, <2>4 DEF Searching
  <2> QED BY <1>12, <2>2, <2>5
<1>13. CASE /\ kept' = <<>> /\ best' = NewBest(<<LoadOf(Plus(table, l)), stripe_num + 1>>)
            /\ list' = MoveAll(m(l), all).list /\ tab' = MoveAll(m(l), all).tab
            /\ slots' = MoveAll(m(l), all).slots /\ size' = MoveAll(m(l), all).size
  <2> DEFINE a == m(l)
             r == MoveAll(a, all)
  <2>1. /\ a.list = list /\ a.slots = slots /\ a.size = size /\ a.load = load'
        /\ a \in Merges(n)
    <3>1. list \in [1 .. n -> Seq(Taken)] /\ tab \in [1 .. n -> Load]
      BY DEF BatchesOK, Divides
    <3>2. slots \in [1 .. n -> 1 .. n] /\ size \in 0 .. n
      BY DEF BatchesOK, InOnePlace
    <3>3. size \in Int /\ size <= n
      BY <3>2
    <3> QED BY <1>1, <1>8, <3>1, <3>2, <3>3 DEF Merges
  <2>2. list' = r.list /\ tab' = r.tab /\ slots' = r.slots /\ size' = r.size
    BY <1>13
  <2> HIDE DEF a
  <2>3. Merging(a, head, tail, out, n)
    BY <1>6, <2>1 DEF Merging, Listed, BatchesOK
  <2>4. DOMAIN all = 1 .. k + 1 /\ k + 1 \in Nat
    <3>1. k \in Nat
      BY DEF Searching
    <3> QED BY <1>10, <3>1
  <2>5. Merged(r, a, all, k + 1, tail, out, n)
    <3> DEFINE j == k + 1
    <3>1. j \in Nat /\ DOMAIN all = 1 .. j /\ AllMovable(a.list, all, j, out, n)
      BY <1>10, <2>1, <2>4
    <3> HIDE DEF j
    <3>2. Merged(MoveAll(a, all), a, all, j, tail, out, n)
      BY <1>7, <2>1, <2>3, <3>1, MergeKeeps
    <3> QED BY <3>2 DEF j
  <2> HIDE DEF r, m
  <2>6. /\ r \in Merges(n) /\ Merging(r, head, tail, out, n)
        /\ r.list[head] = With(list[head], all, k + 1)
    BY <2>1, <2>5 DEF Merged
  <2>7. SearchSees(slots', size', head, tail, out, n) /\ Divides(list', n)
        /\ InOnePlace(list', slots', size', out, n)
    BY <2>2, <2>6 DEF Merging, Listed
  <2>8. head' = head
    BY <2>7 DEF head, SearchSees
  <2>9. BatchesOK(n)'
    <3>1. tab' \in [1 .. n -> Load]
      BY <2>2, <2>6 DEF Merges
    <3> QED BY <1>2, <1>8, <2>7, <3>1 DEF BatchesOK, Divides
  <2>10. SearchSees(slots, size, head, tail, out, n)'
    BY <1>2, <2>7, <2>8
  <2>11. kept' \in Seq((1 .. n) \X Taken') /\ Len(kept') = 0
    BY <1>13
  <2>12. AllMovable(list, kept, Len(kept), out, n)'
    BY <2>11 DEF AllMovable
  <2>13. list'[head'] = With(list[head], all, k + 1)
    BY <2>2, <2>6, <2>8
  <2>14. With(list'[head'], kept', 0) = list'[head']
    <3>1. list' \in [1 .. n -> Seq(Taken)]
      BY <2>7 DEF Divides
    <3>2. list'[head'] \in Seq(Taken)
      BY <1>7, <2>8, <3>1
    <3> QED BY <3>2 DEF With
  <2>15. Len(list'[head']) = stripe_num + 1
    <3>1. list[head] \in Seq(Taken) /\ k \in Nat
      BY <1>7 DEF BatchesOK, Divides, Searching
    <3>2. StripesIn(all, k + 1, Taken)
      BY <1>10 DEF AllMovable, Movable, StripesIn
    <3>3. Len(With(list[head], all, k + 1)) = Len(list[head]) + (k + 1)
      <4> DEFINE w == With(list[head], all, k + 1)
      <4>1. IsWith(w, list[head], all, k + 1, Taken)
        BY <2>4, <3>1, <3>2, WithIs
      <4> HIDE DEF w
      <4> QED BY <4>1 DEF IsWith, w
    <3>4. Len(list'[head']) = Len(list[head]) + (k + 1)
      BY <2>13, <3>3, Zenon
    <3>5. Len(list[head]) \in Nat
      BY <3>1
    <3>6. stripe_num + 1 = Len(list[head]) + (k + 1)
      <4>1. \A c, d \in Nat : (c + d) + 1 = c + (d + 1)
        OBVIOUS
      <4> QED BY <3>1, <3>5, <4>1, Zenon DEF stripe_num
    <3> QED BY <3>4, <3>6, Zenon
  <2>16. best' = <<LoadOf(TableOf(list'[head'], load')), Len(list'[head'])>>
    BY <1>1, <1>9, <1>13, <2>13, <2>15 DEF NewBest
  <2>17. table' = TableOf(With(list'[head'], kept', Len(kept')), load')
    BY <1>9, <2>11, <2>13, <2>14
  <2>18. Searching(n)'
    BY <2>10, <2>11, <2>12, <2>16, <2>17 DEF Searching
  <2>19. size' # 0
    BY <2>7 DEF SearchSees
  <2> QED BY <2>9, <2>18, <2>19
<1> QED BY <1>1, <1>12, <1>13

\* The batches that improve is given.
Given(q) ==
  \E n \in Nat : Divides(q, n) /\ Len(q) = n /\ \A b \in 1 .. n : q[b] # <<>>

LEMMA StartImproveStep ==
  ASSUME NEW q, Given(q), LoadsAreTables, gpc = "group", Improving, StartImprove(q)
  PROVE  Improving'
<1>1. PICK n \in Nat : Divides(q, n) /\ Len(q) = n /\ \A b \in 1 .. n : q[b] # <<>>
  BY DEF Given
<1>2. q \in [1 .. n -> Seq(Taken)] /\ DOMAIN q = 1 .. n /\ out = <<>>
  BY <1>1 DEF Divides, Improving
<1>3. /\ list' = q /\ slots' = [b \in 1 .. n |-> b] /\ size' = n /\ gpc' = "sort"
      /\ UNCHANGED <<place, out>> /\ tab' = [b \in 1 .. n |-> TableOf(q[b], load')]
  BY <1>1, <1>2 DEF StartImprove
<1>4. load' \in [Taken -> Load] /\ Taken' = Taken
  <2>1. /\ load' \in [Taken -> UNION {Loads(place[s]) : s \in Taken}]
        /\ \A s \in Taken : load'[s] \in Loads(place[s])
    BY DEF StartImprove
  <2>2. Taken' = Taken
    BY <1>3 DEF Taken, Lost
  <2> QED BY <1>3, <2>1, <2>2 DEF LoadsAreTables
<1>5. \A b \in 1 .. n : TableOf(q[b], load') \in Load
  <2> TAKE b \in 1 .. n
  <2>1. q[b] \in Seq(Taken) /\ q[b] # <<>>
    BY <1>1, <1>2
  <2>2. q[b][1] \in Taken
    BY <2>1
  <2> QED BY <1>4, <2>1, <2>2, TableAppended
<1>6. InOnePlace(list', slots', size', out', n)
  <2> DEFINE sl == [b \in 1 .. n |-> b]
  <2>1. /\ sl \in [1 .. n -> 1 .. n] /\ n \in 0 .. n
        /\ \A i \in 1 .. n : sl[i] = i
    OBVIOUS
  <2>2. out \in Seq(1 .. n) /\ DistinctEntries(out) /\ ToSet(out) = {}
    BY <1>2 DEF DistinctEntries, ToSet
  <2> HIDE DEF sl
  <2>3. InOnePlace(q, sl, n, out, n)
    BY <1>1, <2>1, <2>2 DEF InOnePlace
  <2> QED BY <1>3, <2>3 DEF sl
<1>7. BatchesOK(n)'
  BY <1>1, <1>3, <1>4, <1>5, <1>6 DEF BatchesOK, Divides
<1> QED BY <1>3, <1>7 DEF Improving

LEMMA PushHeadStep ==
  ASSUME NEW n \in Nat, BatchesOK(n), size # 0, PushHead
  PROVE  BatchesOK(n)'
<1> DEFINE e == Erase(slots, size, slots[1])
           o == Append(out, slots[1])
<1>1. /\ list \in [1 .. n -> Seq(Taken)] /\ slots \in [1 .. n -> 1 .. n] /\ size \in 0 .. n
      /\ out \in Seq(1 .. n) /\ DistinctEntries(out)
  BY DEF BatchesOK, Divides, InOnePlace
<1>2. \A i, j \in 1 .. size : slots[i] = slots[j] => i = j
  BY DEF BatchesOK, InOnePlace
<1>3. \A i \in 1 .. size : slots[i] \notin ToSet(out) /\ list[slots[i]] # <<>>
  BY DEF BatchesOK, InOnePlace
<1>4. \A b \in 1 .. n : list[b] # <<>> => b \in ToSet(out) \/ \E i \in 1 .. size : slots[i] = b
  BY DEF BatchesOK, InOnePlace
<1>5. \A b \in ToSet(out) : list[b] # <<>>
  BY DEF BatchesOK, InOnePlace
<1>6. 1 \in 1 .. size /\ slots[1] \in 1 .. n /\ size - 1 \in 0 .. n
  <2>1. size \in 1 .. n
    BY <1>1
  <2> QED BY <1>1, <2>1
<1>7. InUse(e, slots, size, 1, n)
  BY <1>1, <1>2, <1>6, InUseAfter
<1>8. /\ o \in Seq(1 .. n) /\ ToSet(o) = ToSet(out) \cup {slots[1]} /\ DistinctEntries(o)
  <2>1. slots[1] \notin ToSet(out)
    BY <1>3, <1>6
  <2>2. out \in Seq(1 .. n) /\ DistinctEntries(out) /\ slots[1] \in 1 .. n
    BY <1>1, <1>6
  <2> QED BY <2>1, <2>2, AppendIs
<1> HIDE DEF e, o
<1>9. /\ e \in [1 .. n -> 1 .. n]
      /\ \A i, j \in 1 .. size - 1 : e[i] = e[j] => i = j
  BY <1>7 DEF InUse
<1>10. \A i \in 1 .. size - 1 : e[i] # slots[1] /\ \E j \in 1 .. size : e[i] = slots[j]
  BY <1>7 DEF InUse
<1>11. \A j \in 1 .. size : j # 1 => \E i \in 1 .. size - 1 : e[i] = slots[j]
  BY <1>7 DEF InUse
<1>12. InOnePlace(list, e, size - 1, o, n)
  <2>1. \A i \in 1 .. size - 1 : e[i] \notin ToSet(o) /\ list[e[i]] # <<>>
    BY <1>3, <1>8, <1>10
  <2>2. \A b \in 1 .. n : list[b] # <<>> => b \in ToSet(o) \/ \E i \in 1 .. size - 1 : e[i] = b
    BY <1>4, <1>8, <1>11
  <2>3. \A b \in ToSet(o) : list[b] # <<>>
    BY <1>3, <1>5, <1>6, <1>8
  <2> QED BY <1>6, <1>8, <1>9, <2>1, <2>2, <2>3 DEF InOnePlace
<1>13. out' = o /\ slots' = e /\ size' = size - 1 /\ UNCHANGED <<place, list, tab, load>>
  BY DEF PushHead, head, e, o
<1>14. Taken' = Taken
  BY <1>13 DEF Taken, Lost
<1> QED BY <1>12, <1>13, <1>14 DEF BatchesOK, Divides

LEMMA UnchangedBatches ==
  ASSUME NEW n \in Nat, UNCHANGED <<place, slots, size, list, tab, load, out>>
  PROVE  BatchesOK(n) <=> BatchesOK(n)'
<1>1. Taken' = Taken
  BY DEF Taken, Lost
<1> QED BY <1>1 DEF BatchesOK, Divides

LEMMA UnchangedSearch ==
  ASSUME NEW n \in Nat, UNCHANGED <<place, genVars>>
  PROVE  Searching(n) <=> Searching(n)'
<1>1. Taken' = Taken /\ head' = head /\ UNCHANGED <<slots, size, list, load, tail, best, kept, table, out>>
  BY DEF Taken, Lost, genVars, head
<1> QED BY <1>1 DEF Searching, AllMovable, Movable

LEMMA ImprovingStep ==
  ASSUME Improving, LoadsAreTables, gpc \notin {"group", "crashed"}, Improver
  PROVE  Improving'
<1>1. PICK n \in Nat : /\ BatchesOK(n)
                       /\ gpc = "try" => Searching(n)
                       /\ gpc \in {"try", "push"} => size # 0
  BY DEF Improving
<1>2. CASE SelectHead
  <2>1. gpc' = "try"
    BY <1>2 DEF SelectHead
  <2> QED BY <1>1, <1>2, <2>1, SelectHeadStep DEF Improving
<1>3. CASE TryStripe
  <2>1. gpc = "try" /\ gpc' = "try"
    BY <1>3 DEF TryStripe
  <2> QED BY <1>1, <1>3, <2>1, TryStripeStep DEF Improving
<1>4. CASE StopTrying
  <2>1. gpc = "try" /\ gpc' = "push" /\ UNCHANGED <<place, slots, size, list, tab, load, out>>
    BY <1>4 DEF StopTrying, AfterSearch, genVars
  <2> QED BY <1>1, <2>1, UnchangedBatches DEF Improving
<1>5. CASE PushHead
  <2>1. gpc = "push" /\ gpc' \in {"reset", "sort"}
    BY <1>5 DEF PushHead
  <2> QED BY <1>1, <1>5, <2>1, PushHeadStep DEF Improving
<1>6. CASE ResetRequest
  <2>1. gpc' = "sort" /\ UNCHANGED <<place, slots, size, list, tab, load, out>>
    BY <1>6 DEF ResetRequest, genVars
  <2> QED BY <1>1, <2>1, UnchangedBatches DEF Improving
<1>7. CASE Finish
  <2>1. gpc' = "done" /\ UNCHANGED <<place, slots, size, list, tab, load, out>>
    BY <1>7 DEF Finish
  <2> QED BY <1>1, <2>1, UnchangedBatches DEF Improving
<1>8. CASE EraseNothing
  BY <1>8 DEF EraseNothing, Crash, Improving
<1> QED BY <1>2, <1>3, <1>4, <1>5, <1>6, <1>7, <1>8 DEF Improver

\* The consumer, and the first half, leave all of it alone.
LEMMA ImprovingKept ==
  ASSUME Improving, UNCHANGED <<place, genVars, gpc>>
  PROVE  Improving'
<1>1. UNCHANGED <<place, slots, size, list, tab, load, out>>
  BY DEF genVars
<1>2. CASE gpc = "group"
  BY <1>1, <1>2 DEF Improving
<1>3. CASE gpc = "crashed"
  BY <1>1, <1>3 DEF Improving
<1>4. CASE gpc \notin {"group", "crashed"}
  <2>1. PICK n \in Nat : /\ BatchesOK(n)
                         /\ gpc = "try" => Searching(n)
                         /\ gpc \in {"try", "push"} => size # 0
    BY <1>4 DEF Improving
  <2>2. BatchesOK(n)' /\ (gpc = "try" => Searching(n)')
    BY <1>1, <2>1, UnchangedBatches, UnchangedSearch
  <2> QED BY <1>1, <1>4, <2>1, <2>2 DEF Improving
<1> QED BY <1>2, <1>3, <1>4

LEMMA BestFollows == Improving => BestIsTheHeads
<1> SUFFICES ASSUME Improving, gpc = "try" PROVE BestIsTheHeads
  BY DEF BestIsTheHeads
<1>1. PICK n \in Nat : Searching(n)
  BY DEF Improving
<1>2. DOMAIN kept = 1 .. Len(kept)
  BY <1>1 DEF Searching
<1>3. [i \in DOMAIN kept |-> kept[i][2]] = [i \in 1 .. Len(kept) |-> kept[i][2]]
  BY <1>2, Zenon
<1>4. table = TableOf(list[head] \o [i \in DOMAIN kept |-> kept[i][2]], load)
  BY <1>1, <1>3 DEF Searching, With
<1> QED BY <1>1, <1>4 DEF Searching, BestIsTheHeads

\* The batches that are delivered or still in the array.
ListedBatches == out \o SubSeq(slots, 1, size)

\* c lists each batch that has a stripe once.
ListsBatches(c, m, n) ==
  /\ DOMAIN c = 1 .. m
  /\ \A i \in 1 .. m : c[i] \in 1 .. n /\ list[c[i]] # <<>>
  /\ \A i, j \in 1 .. m : c[i] = c[j] => i = j
  /\ \A b \in 1 .. n : list[b] # <<>> => \E i \in 1 .. m : c[i] = b

LEMMA ListedAre ==
  ASSUME NEW n \in Nat, InOnePlace(list, slots, size, out, n)
  PROVE  \E m \in Nat : ListsBatches(ListedBatches, m, n)
<1> DEFINE d == Len(out)
           q == SubSeq(slots, 1, size)
           c == out \o q
<1>1. slots \in [1 .. n -> 1 .. n] /\ size \in 0 .. n
  BY DEF InOnePlace
<1>2. out \in Seq(1 .. n) /\ DistinctEntries(out)
  BY DEF InOnePlace
<1>3. \A i, j \in 1 .. size : slots[i] = slots[j] => i = j
  BY DEF InOnePlace
<1>4. \A i \in 1 .. size : slots[i] \notin ToSet(out) /\ list[slots[i]] # <<>>
  BY DEF InOnePlace
<1>5. \A b \in 1 .. n : list[b] # <<>> => b \in ToSet(out) \/ \E i \in 1 .. size : slots[i] = b
  BY DEF InOnePlace
<1>6. \A b \in ToSet(out) : list[b] # <<>>
  BY DEF InOnePlace
<1>7. /\ q \in Seq(1 .. n) /\ Len(q) = size /\ size \in Nat
      /\ \A i \in 1 .. size : q[i] = slots[i]
  BY <1>1
<1>8. d \in Nat /\ DOMAIN out = 1 .. d /\ \A i \in 1 .. d : out[i] \in 1 .. n /\ out[i] \in ToSet(out)
  <2>1. d \in Nat /\ DOMAIN out = 1 .. d /\ \A i \in 1 .. d : out[i] \in 1 .. n
    BY <1>2
  <2> QED BY <2>1 DEF ToSet
<1> HIDE DEF q
<1>9. DOMAIN c = 1 .. d + size
  <2>1. out \in Seq(1 .. n) /\ q \in Seq(1 .. n)
    BY <1>2, <1>7
  <2> QED BY <1>7, <2>1
<1>10. \A i \in 1 .. d : c[i] = out[i]
  <2>1. out \in Seq(1 .. n) /\ q \in Seq(1 .. n)
    BY <1>2, <1>7
  <2> QED BY <2>1
<1>11. \A i \in 1 .. size : c[d + i] = slots[i]
  <2>1. \A i \in 1 .. size : c[d + i] = q[i]
    BY <1>2, <1>7
  <2> HIDE DEF c, d
  <2> QED BY <1>7, <2>1
<1> HIDE DEF c, d
<1>12. \A i \in 1 .. d + size : i \in 1 .. d \/ \E j \in 1 .. size : i = d + j
  <2> SUFFICES ASSUME NEW i \in 1 .. d + size, i \notin 1 .. d
               PROVE  \E j \in 1 .. size : i = d + j
    OBVIOUS
  <2>1. i - d \in 1 .. size /\ i = d + (i - d)
    BY <1>7, <1>8
  <2> QED BY <2>1
<1>13. \A i \in 1 .. size : i \in 1 .. n /\ slots[i] \in 1 .. n
  <2>1. \A i \in 1 .. size : i \in 1 .. n
    BY <1>1
  <2> QED BY <1>1, <2>1
<1>14. \A i \in 1 .. d + size : c[i] \in 1 .. n /\ list[c[i]] # <<>>
  BY <1>4, <1>6, <1>8, <1>10, <1>11, <1>12, <1>13
<1>15. ASSUME NEW i \in 1 .. d + size, NEW j \in 1 .. d + size, c[i] = c[j] PROVE i = j
  <2>1. CASE i \in 1 .. d /\ j \in 1 .. d
    BY <1>2, <1>8, <1>10, <1>15, <2>1 DEF DistinctEntries
  <2>2. CASE i \notin 1 .. d /\ j \notin 1 .. d
    BY <1>3, <1>11, <1>12, <1>15, <2>2
  <2>3. CASE i \in 1 .. d /\ j \notin 1 .. d
    BY <1>4, <1>8, <1>10, <1>11, <1>12, <1>15, <2>3
  <2>4. CASE i \notin 1 .. d /\ j \in 1 .. d
    BY <1>4, <1>8, <1>10, <1>11, <1>12, <1>15, <2>4
  <2> QED BY <2>1, <2>2, <2>3, <2>4
<1>16. ASSUME NEW b \in 1 .. n, list[b] # <<>> PROVE \E i \in 1 .. d + size : c[i] = b
  <2>1. CASE b \in ToSet(out)
    <3>1. PICK i \in 1 .. d : out[i] = b
      BY <1>8, <2>1 DEF ToSet
    <3>2. i \in 1 .. d + size
      BY <1>7, <1>8
    <3> QED BY <1>10, <3>1, <3>2
  <2>2. CASE b \notin ToSet(out)
    <3>1. PICK i \in 1 .. size : slots[i] = b
      BY <1>5, <1>16, <2>2
    <3>2. d + i \in 1 .. d + size
      BY <1>7, <1>8
    <3> QED BY <1>11, <3>1, <3>2
  <2> QED BY <2>1, <2>2
<1>17. ListsBatches(c, d + size, n)
  BY <1>9, <1>14, <1>15, <1>16 DEF ListsBatches
<1> QED BY <1>7, <1>8, <1>17 DEF ListedBatches, c, q

\* A list without repetitions is not longer than a set that it is in.
LEMMA NoLonger ==
  ASSUME NEW X, IsFiniteSet(X), NEW q \in Seq(X), DistinctEntries(q)
  PROVE  \A j \in DOMAIN q : j \in 1 .. Cardinality(X)
<1> DEFINE k == Len(q)
<1>1. k \in Nat /\ DOMAIN q = 1 .. k /\ q \in [1 .. k -> X]
  OBVIOUS
<1>2. IsFiniteSet(1 .. k) /\ Cardinality(1 .. k) = k
  BY <1>1, FS_Interval
<1>3. q \in Injection(1 .. k, X)
  BY <1>1 DEF Injection, IsInjective, DistinctEntries
<1>4. Cardinality(1 .. k) <= Cardinality(X)
  <2> DEFINE D == 1 .. k
  <2>1. q \in Injection(D, X)
    BY <1>3
  <2> HIDE DEF D
  <2>2. Cardinality(D) <= Cardinality(X)
    BY <2>1, FS_Injection
  <2> QED BY <2>2 DEF D
<1>5. Cardinality(X) \in Nat
  BY FS_CardinalityType
<1> HIDE DEF k
<1> QED BY <1>1, <1>2, <1>4, <1>5

TakenIsAnInterval == IsFiniteSet(Taken) /\ Taken = 1 .. Cardinality(Taken)

\* The places of a stripe in the batches that c lists.
PlacesOf(s, c) ==
  {p \in (DOMAIN c) \X Taken :
     LET stripes == list[c[p[1]]] IN p[2] \in DOMAIN stripes /\ stripes[p[2]] = s}

LEMMA OnePlace ==
  ASSUME NEW n \in Nat, Divides(list, n), TakenIsAnInterval, NEW c, NEW m \in Nat,
         ListsBatches(c, m, n), NEW s
  PROVE  Cardinality(PlacesOf(s, c)) = IF s \in Taken THEN 1 ELSE 0
<1>1. list \in [1 .. n -> Seq(Taken)] /\ \A b \in 1 .. n : DistinctEntries(list[b])
  BY DEF Divides
<1>2. \A x \in Taken : \E b \in 1 .. n : x \in ToSet(list[b])
  BY DEF Divides
<1>3. \A a, b \in 1 .. n : \A x \in Taken : x \in ToSet(list[a]) /\ x \in ToSet(list[b]) => a = b
  BY DEF Divides
<1>4. DOMAIN c = 1 .. m /\ \A i \in 1 .. m : c[i] \in 1 .. n
  BY DEF ListsBatches
<1>5. /\ \A i, j \in 1 .. m : c[i] = c[j] => i = j
      /\ \A b \in 1 .. n : list[b] # <<>> => \E i \in 1 .. m : c[i] = b
  BY DEF ListsBatches
<1>6. ASSUME NEW p \in PlacesOf(s, c)
      PROVE  /\ p[1] \in 1 .. m /\ p[2] \in DOMAIN list[c[p[1]]] /\ list[c[p[1]]][p[2]] = s
             /\ p = <<p[1], p[2]>> /\ s \in Taken /\ s \in ToSet(list[c[p[1]]])
  <2>1. /\ p[1] \in 1 .. m /\ p[2] \in DOMAIN list[c[p[1]]] /\ list[c[p[1]]][p[2]] = s
        /\ p = <<p[1], p[2]>>
    BY <1>4 DEF PlacesOf
  <2>2. list[c[p[1]]] \in Seq(Taken)
    BY <1>1, <1>4, <2>1
  <2> DEFINE q == list[c[p[1]]]
  <2> HIDE DEF q
  <2>3. q \in Seq(Taken) /\ p[2] \in DOMAIN q /\ q[p[2]] = s
    BY <2>1, <2>2 DEF q
  <2>4. s \in Taken /\ s \in ToSet(q)
    BY <2>3 DEF ToSet
  <2> QED BY <2>1, <2>4 DEF q
<1>7. CASE s \notin Taken
  <2>1. PlacesOf(s, c) = {}
    BY <1>6, <1>7
  <2> QED BY <1>7, <2>1, FS_EmptySet
<1>8. CASE s \in Taken
  <2>1. PICK b \in 1 .. n : s \in ToSet(list[b])
    BY <1>2, <1>8
  <2>2. PICK j \in DOMAIN list[b] : list[b][j] = s
    BY <2>1 DEF ToSet
  <2>3. list[b] \in Seq(Taken) /\ DistinctEntries(list[b]) /\ list[b] # <<>>
    BY <1>1, <2>1, <2>2
  <2>4. j \in Taken
    BY <2>3, NoLonger DEF TakenIsAnInterval
  <2>5. PICK i \in 1 .. m : c[i] = b
    BY <1>5, <2>3
  <2>6. <<i, j>> \in PlacesOf(s, c)
    BY <1>4, <2>2, <2>4, <2>5 DEF PlacesOf
  <2>7. \A p \in PlacesOf(s, c) : p = <<i, j>>
    <3> TAKE p \in PlacesOf(s, c)
    <3>1. /\ p[1] \in 1 .. m /\ p[2] \in DOMAIN list[c[p[1]]] /\ list[c[p[1]]][p[2]] = s
          /\ p = <<p[1], p[2]>> /\ s \in ToSet(list[c[p[1]]])
      BY <1>6
    <3>2. c[p[1]] = b
      BY <1>3, <1>4, <1>8, <2>1, <3>1
    <3>3. p[1] = i
      BY <1>5, <2>5, <3>1, <3>2
    <3>4. p[2] = j
      BY <2>2, <2>3, <3>1, <3>2 DEF DistinctEntries
    <3> QED BY <3>1, <3>3, <3>4, Zenon
  <2>8. PlacesOf(s, c) = {<<i, j>>}
    BY <2>6, <2>7
  <2> QED BY <1>8, <2>8, FS_Singleton
<1> QED BY <1>7, <1>8

LEMMA OnceFollows ==
  ASSUME Improving, TakenIsAnInterval
  PROVE  EachStripeOnce
<1> SUFFICES ASSUME gpc \notin {"group", "crashed"}
             PROVE  /\ \A i \in DOMAIN ListedBatches : list[ListedBatches[i]] # <<>>
                    /\ \A s \in DOMAIN place :
                         Cardinality(PlacesOf(s, ListedBatches)) = IF s \in Taken THEN 1 ELSE 0
  BY Zenon DEF EachStripeOnce, ListedBatches, PlacesOf
<1>1. PICK n \in Nat : BatchesOK(n)
  BY DEF Improving
<1>2. PICK m \in Nat : ListsBatches(ListedBatches, m, n)
  BY <1>1, ListedAre DEF BatchesOK
<1>3. \A i \in DOMAIN ListedBatches : list[ListedBatches[i]] # <<>>
  BY <1>2 DEF ListsBatches
<1>4. \A s : Cardinality(PlacesOf(s, ListedBatches)) = IF s \in Taken THEN 1 ELSE 0
  BY <1>1, <1>2, OnePlace DEF BatchesOK
<1> QED BY <1>3, <1>4
-----------------------------------------------------------------------------
(***************************************************************************)
(* The first half: the groups are lists of affected stripes, none of them  *)
(* twice, and the last one stays empty only when all are selected.         *)
(***************************************************************************)

\* One of the two loops that insert stripes one after the other.
Turn(kind, s, i) == IF kind = "add" THEN G!AddOne(s, i) ELSE G!Put(s, i)
Turns(kind, base, q) ==
  IF kind = "add" THEN G!FoldLeft(G!AddOne, base, q) ELSE G!FoldLeft(G!Put, base, q)

\* g is such a loop, for the entries at each set of positions up to n.
Loops(g, n, kind, base, q) ==
  g = [s \in SUBSET (1 .. n) |-> IF s = {} THEN base
                                 ELSE Turn(kind, g[s \ {Max(s)}], q[Max(s)])]

LEMMA LoopExists ==
  ASSUME NEW n \in Nat, NEW kind, NEW base, NEW q
  PROVE  \E g : Loops(g, n, kind, base, q)
<1> DEFINE S == {m \in 0 .. n : \E g : Loops(g, m, kind, base, q)}
<1>1. 0 \in S
  <2> DEFINE g == [s \in SUBSET (1 .. 0) |-> base]
  <2>1. \A s \in SUBSET (1 .. 0) : s = {}
    OBVIOUS
  <2>2. Loops(g, 0, kind, base, q)
    BY <2>1 DEF Loops
  <2> QED BY <2>2
<1>2. ASSUME NEW m \in 0 .. n - 1, m \in S PROVE m + 1 \in S
  <2>1. PICK g : Loops(g, m, kind, base, q)
    BY <1>2
  <2> DEFINE k == m + 1
             h == [s \in SUBSET (1 .. k) |-> IF k \in s THEN Turn(kind, g[s \ {k}], q[k]) ELSE g[s]]
  <2>2. m \in Nat /\ k \in Nat /\ k = m + 1
    OBVIOUS
  <2>3. ASSUME NEW s \in SUBSET (1 .. k)
        PROVE  /\ s \ {k} \in SUBSET (1 .. m)
               /\ k \notin s => s \in SUBSET (1 .. m)
               /\ k \in s => Max(s) = k
    <3>1. k \in s => (\A y \in s : k >= y)
      BY <2>2
    <3>2. \A x \in s : k \in s /\ x >= k => x = k
      BY <2>2
    <3>3. k \in s => Max(s) = k
      BY <3>1, <3>2 DEF Max
    <3> QED BY <2>2, <3>3
  <2>4. \A s \in SUBSET (1 .. m) : s \in SUBSET (1 .. k) /\ k \notin s
    BY <2>2
  <2> HIDE DEF k
  <2>5. \A s \in SUBSET (1 .. m) : h[s] = g[s]
    BY <2>4
  <2>6. ASSUME NEW s \in SUBSET (1 .. k)
        PROVE  h[s] = IF s = {} THEN base ELSE Turn(kind, h[s \ {Max(s)}], q[Max(s)])
    <3>1. CASE k \in s
      BY <2>3, <2>5, <3>1
    <3>2. CASE k \notin s
      <4>1. h[s] = g[s] /\ s \in SUBSET (1 .. m)
        BY <2>3, <3>2
      <4>2. s # {} => s \ {Max(s)} \in SUBSET (1 .. m)
        BY <4>1
      <4>3. g[s] = IF s = {} THEN base ELSE Turn(kind, g[s \ {Max(s)}], q[Max(s)])
        BY <2>1, <4>1 DEF Loops
      <4> QED BY <2>5, <4>1, <4>2, <4>3
    <3> QED BY <3>1, <3>2
  <2>7. Loops(h, k, kind, base, q)
    <3>1. h = [s \in SUBSET (1 .. k) |-> h[s]]
      OBVIOUS
    <3> HIDE DEF h
    <3> QED BY <2>6, <3>1 DEF Loops
  <2> HIDE DEF h
  <2>8. m + 1 \in 0 .. n
    OBVIOUS
  <2> QED BY <2>7, <2>8 DEF k
<1>3. n \in S
  <2> HIDE DEF S
  <2>1. n \in 0 .. n
    OBVIOUS
  <2> QED BY <1>1, <1>2, <2>1, UpToN
<1> QED BY <1>3

\* The loop, along the entries.
Steps(p, n, kind, base, q) ==
  /\ p[0] = base /\ p[n] = Turns(kind, base, q)
  /\ \A j \in 0 .. n - 1 : p[j + 1] = Turn(kind, p[j], q[j + 1])

LEMMA TurnsAlong ==
  ASSUME NEW n \in Nat, NEW kind, NEW base, NEW q, DOMAIN q = 1 .. n
  PROVE  \E p : Steps(p, n, kind, base, q)
<1>1. \E g : Loops(g, n, kind, base, q) /\ Turns(kind, base, q) = g[1 .. n]
  <2>1. CASE kind = "add"
    <3> DEFINE Done(g) == g = [s \in SUBSET (1 .. n) |-> IF s = {} THEN base
                                 ELSE G!AddOne(g[s \ {Max(s)}], q[Max(s)])]
               iter == CHOOSE g : Done(g)
    <3>1. Turns(kind, base, q) = iter[1 .. n]
      BY <2>1 DEF Turns, G!FoldLeft, G!MapThenFoldSet, G!Max, Max
    <3>2. \A g : Loops(g, n, kind, base, q) <=> Done(g)
      BY <2>1 DEF Loops, Turn
    <3>3. Done(iter)
      <4> HIDE DEF Done
      <4> QED BY <3>2, LoopExists
    <3> HIDE DEF iter, Done
    <3> QED BY <3>1, <3>2, <3>3
  <2>2. CASE kind # "add"
    <3> DEFINE Done(g) == g = [s \in SUBSET (1 .. n) |-> IF s = {} THEN base
                                 ELSE G!Put(g[s \ {Max(s)}], q[Max(s)])]
               iter == CHOOSE g : Done(g)
    <3>1. Turns(kind, base, q) = iter[1 .. n]
      BY <2>2 DEF Turns, G!FoldLeft, G!MapThenFoldSet, G!Max, Max
    <3>2. \A g : Loops(g, n, kind, base, q) <=> Done(g)
      BY <2>2 DEF Loops, Turn
    <3>3. Done(iter)
      <4> HIDE DEF Done
      <4> QED BY <3>2, LoopExists
    <3> HIDE DEF iter, Done
    <3> QED BY <3>1, <3>2, <3>3
  <2> QED BY <2>1, <2>2
<1>2. PICK g : Loops(g, n, kind, base, q) /\ Turns(kind, base, q) = g[1 .. n]
  BY <1>1
<1>3. \A s \in SUBSET (1 .. n) : g[s] = IF s = {} THEN base
                                        ELSE Turn(kind, g[s \ {Max(s)}], q[Max(s)])
  BY <1>2 DEF Loops
<1> DEFINE p == [j \in 0 .. n |-> g[1 .. j]]
<1>4. p[0] = base
  <2>1. 1 .. 0 = {} /\ 0 \in 0 .. n /\ 1 .. 0 \in SUBSET (1 .. n)
    OBVIOUS
  <2> QED BY <1>3, <2>1
<1>5. \A j \in 0 .. n - 1 : p[j + 1] = Turn(kind, p[j], q[j + 1])
  <2> TAKE j \in 0 .. n - 1
  <2>1. j \in Nat /\ j \in 0 .. n /\ j + 1 \in 0 .. n /\ 1 .. j + 1 \in SUBSET (1 .. n)
    OBVIOUS
  <2>2. Max(1 .. j + 1) = j + 1 /\ (1 .. j + 1) \ {j + 1} = 1 .. j /\ 1 .. j + 1 # {}
    BY <2>1, MaxOfInterval
  <2>3. g[1 .. j + 1] = Turn(kind, g[1 .. j], q[j + 1])
    BY <1>3, <2>1, <2>2
  <2> QED BY <2>1, <2>3
<1>6. p[n] = Turns(kind, base, q)
  BY <1>2
<1> HIDE DEF p
<1> QED BY <1>4, <1>5, <1>6 DEF Steps

\* The groups of k affected stripes: nothing is in two, and only the last may be empty.
GroupsOK(gs, k) ==
  /\ gs \in Seq(Seq(1 .. k)) /\ gs # <<>>
  /\ \A g \in DOMAIN gs : DistinctEntries(gs[g])
  /\ \A g, h \in DOMAIN gs : \A i \in 1 .. k : i \in ToSet(gs[g]) /\ i \in ToSet(gs[h]) => g = h
  /\ \A g \in DOMAIN gs : g # Len(gs) => gs[g] # <<>>

InGroups(gs) == UNION {ToSet(gs[g]) : g \in DOMAIN gs}

\* What the last group may become.
Suits(q, gs, k) ==
  /\ q \in Seq(1 .. k) /\ DistinctEntries(q)
  /\ \A i \in ToSet(q) : i \in ToSet(gs[Len(gs)]) \/ i \notin InGroups(gs)

LastBecomes(hs, gs, q) == hs = [gs EXCEPT ![Len(gs)] = q]

LEMMA LastReplaced ==
  ASSUME NEW k \in Nat, NEW gs, GroupsOK(gs, k), NEW q, Suits(q, gs, k),
         NEW hs, LastBecomes(hs, gs, q)
  PROVE  GroupsOK(hs, k) /\ hs[Len(hs)] = q
<1> DEFINE n == Len(gs)
<1>1. gs \in Seq(Seq(1 .. k)) /\ n \in Nat /\ DOMAIN gs = 1 .. n /\ n \in 1 .. n
  BY DEF GroupsOK
<1>2. q \in Seq(1 .. k)
  BY DEF Suits
<1>3. hs \in Seq(Seq(1 .. k)) /\ Len(hs) = n /\ DOMAIN hs = 1 .. n
  BY <1>1, <1>2 DEF LastBecomes
<1>4. hs[n] = q /\ \A g \in 1 .. n : g # n => hs[g] = gs[g]
  BY <1>1 DEF LastBecomes
<1>5. \A g \in 1 .. n : DistinctEntries(gs[g]) /\ (g # n => gs[g] # <<>>)
  BY <1>1 DEF GroupsOK
<1>6. DistinctEntries(q)
  BY DEF Suits
<1> HIDE DEF n
<1>7. ASSUME NEW g \in 1 .. n, NEW h \in 1 .. n, NEW i \in 1 .. k,
             i \in ToSet(hs[g]), i \in ToSet(hs[h])
      PROVE  g = h
  <2>1. \A a, b \in 1 .. n : i \in ToSet(gs[a]) /\ i \in ToSet(gs[b]) => a = b
    BY <1>1 DEF GroupsOK
  <2>2. \A a \in 1 .. n : i \in ToSet(q) /\ i \in ToSet(gs[a]) => a = n
    <3>1. \A a \in 1 .. n : i \in ToSet(gs[a]) => i \in InGroups(gs)
      BY <1>1 DEF InGroups
    <3> QED BY <1>1, <2>1, <3>1 DEF Suits, n
  <2> QED BY <1>4, <1>7, <2>1, <2>2
<1>8. \A g \in 1 .. n : DistinctEntries(hs[g]) /\ (g # n => hs[g] # <<>>)
  BY <1>4, <1>5, <1>6
<1>9. hs # <<>>
  BY <1>1, <1>3
<1> QED BY <1>3, <1>4, <1>7, <1>8, <1>9 DEF GroupsOK

LEMMA GroupAppended ==
  ASSUME NEW k \in Nat, NEW gs, GroupsOK(gs, k), gs[Len(gs)] # <<>>
  PROVE  GroupsOK(Append(gs, <<>>), k) /\ Append(gs, <<>>)[Len(Append(gs, <<>>))] = <<>>
<1> DEFINE n == Len(gs)
           hs == Append(gs, <<>>)
<1>1. gs \in Seq(Seq(1 .. k)) /\ n \in Nat /\ DOMAIN gs = 1 .. n
  BY DEF GroupsOK
<1>2. <<>> \in Seq(1 .. k) /\ ToSet(<<>>) = {} /\ DistinctEntries(<<>>)
  BY DEF ToSet, DistinctEntries
<1>3. hs \in Seq(Seq(1 .. k)) /\ Len(hs) = n + 1 /\ DOMAIN hs = 1 .. n + 1
  BY <1>1, <1>2
<1>4. hs[n + 1] = <<>> /\ \A g \in 1 .. n : hs[g] = gs[g]
  BY <1>1
<1>5. \A g \in 1 .. n : gs[g] # <<>> /\ DistinctEntries(gs[g])
  BY <1>1 DEF GroupsOK
<1>6. \A g, h \in 1 .. n : \A i \in 1 .. k : i \in ToSet(gs[g]) /\ i \in ToSet(gs[h]) => g = h
  BY <1>1 DEF GroupsOK
<1>7. \A g \in 1 .. n + 1 : g \in 1 .. n \/ g = n + 1
  BY <1>1
<1> HIDE DEF hs
<1>8. hs # <<>>
  BY <1>1, <1>3
<1> HIDE DEF n
<1>9. \A g \in 1 .. n + 1 : DistinctEntries(hs[g])
  BY <1>2, <1>4, <1>5, <1>7
<1>10. \A g, h \in 1 .. n + 1 : \A i \in 1 .. k : i \in ToSet(hs[g]) /\ i \in ToSet(hs[h]) => g = h
  BY <1>2, <1>4, <1>6, <1>7
<1>11. \A g \in 1 .. n + 1 : g # n + 1 => hs[g] # <<>>
  BY <1>4, <1>5, <1>7
<1>12. GroupsOK(hs, k)
  BY <1>3, <1>8, <1>9, <1>10, <1>11 DEF GroupsOK
<1> QED BY <1>3, <1>4, <1>12 DEF hs

\* An exchange that was found: stripes that are not in a group, each once.
ExchangeOK ==
  /\ exchange[1] \in DOMAIN to_repair /\ exchange[1] \notin InGroups(groups)
  /\ exchange[3] \in Seq(DOMAIN to_repair) /\ DistinctEntries(exchange[3])
  /\ \A i \in ToSet(exchange[3]) : i \notin InGroups(groups) /\ i # exchange[1]

last == groups[Len(groups)]

Grouped ==
  /\ place \in StripeLists /\ to_repair \in Seq(Lost)
  /\ DOMAIN to_repair = Taken
  /\ GroupsOK(groups, Len(to_repair))
  /\ pc = "fill" =>
       /\ at[1] \in Nat \ {0}
       /\ last = <<>> => /\ matrix = G!NoRows /\ belong = G!Free
                         /\ \A i \in DOMAIN to_repair : i < at[1] => i \in InGroups(groups)
  /\ pc = "greedy" => last # <<>> /\ (exchange = <<>> \/ ExchangeOK)
  /\ pc = "format" => last = <<>> /\ DOMAIN to_repair \subseteq InGroups(groups)
  /\ pc = "done" => Given(batches)

\* The first half reads the same lists.
LEMMA GNames ==
  /\ G!group = last /\ G!ifselect = InGroups(groups)
  /\ \A q : G!ToSet(q) = ToSet(q)
  /\ \A q, S : G!Entries(q, S) = Entries(q, S)
<1>1. \A q : G!ToSet(q) = ToSet(q)
  BY DEF G!ToSet, ToSet
<1>2. \A q, S : G!Entries(q, S) = Entries(q, S)
  BY DEF G!Entries, Entries, G!Cardinality, Cardinality
<1>3. G!ifselect = InGroups(groups)
  BY <1>1 DEF G!ifselect, InGroups
<1>4. G!group = last
  BY DEF G!group, G!Last, last
<1> QED BY <1>1, <1>2, <1>3, <1>4

LEMMA RoomInAGroup == G!stripes_per_group \in Nat \ {0}
<1>1. \A a \in Nat : \A b \in Nat \ {0} : a > b => (a - 1) \div b \in Nat \ {0}
  OBVIOUS
<1>2. agents_num \in Nat /\ ecn \in Nat \ {0} /\ agents_num > ecn
  BY ParallelSolutionAssumption DEF G!GroupingAssumption
<1> QED BY <1>1, <1>2 DEF G!stripes_per_group

\* Stripes that are in no group, each once, and not src.
Unused(q, src) ==
  /\ q \in Seq(DOMAIN to_repair) /\ DistinctEntries(q)
  /\ \A i \in ToSet(q) : i \notin InGroups(groups) /\ i # src

\* A list that takes some of the entries of e, in their order.
Taking(q, k, e, j) ==
  q \in Seq(1 .. k) /\ DistinctEntries(q) /\ \A i \in ToSet(q) : \E m \in 1 .. j : i = e[m]

LEMMA TakesNext ==
  ASSUME NEW k \in Nat, NEW n \in Nat, NEW e \in Seq(1 .. k), Len(e) = n, DistinctEntries(e),
         NEW j \in 0 .. n - 1, NEW q, Taking(q, k, e, j), NEW r, r \in {q, Append(q, e[j + 1])}
  PROVE  Taking(r, k, e, j + 1)
<1>1. q \in Seq(1 .. k) /\ DistinctEntries(q) /\ \A i \in ToSet(q) : \E m \in 1 .. j : i = e[m]
  BY DEF Taking
<1>2. /\ DOMAIN e = 1 .. n /\ j \in Nat /\ j + 1 \in 1 .. n /\ j + 1 \in 1 .. j + 1
      /\ \A m \in 1 .. j : m \in 1 .. j + 1 /\ m \in 1 .. n /\ m # j + 1
  OBVIOUS
<1>3. e[j + 1] \in 1 .. k
  BY <1>2
<1>4. e[j + 1] \notin ToSet(q)
  BY <1>1, <1>2 DEF DistinctEntries
<1>5. CASE r = q
  BY <1>1, <1>2, <1>5 DEF Taking
<1>6. CASE r = Append(q, e[j + 1])
  <2>1. r \in Seq(1 .. k) /\ DistinctEntries(r) /\ ToSet(r) = ToSet(q) \cup {e[j + 1]}
    BY <1>1, <1>3, <1>4, <1>6, AppendIs
  <2> QED BY <1>1, <1>2, <2>1 DEF Taking
<1> QED BY <1>5, <1>6

LEMMA AdditionalIs ==
  ASSUME Grouped, NEW src \in DOMAIN to_repair, NEW x
  PROVE  Unused(G!Additional(src, x), src)
<1> DEFINE k == Len(to_repair)
           id == [i \in DOMAIN to_repair |-> i]
           S == {i \in G!Unselected : i > src}
           e == Entries(id, S)
           n == Len(e)
           base == [addi |-> <<>>, matrix |-> x.matrix, belong |-> x.belong]
<1>1. k \in Nat /\ DOMAIN to_repair = 1 .. k
  BY DEF Grouped
<1> HIDE DEF k
<1>2. G!Additional(src, x) = Turns("add", base, e).addi
  BY GNames DEF G!Additional, Turns
<1>3. id \in Seq(1 .. k) /\ Len(id) = k /\ DistinctEntries(id)
  BY <1>1 DEF DistinctEntries
<1>4. S \in SUBSET (1 .. k)
  BY <1>1 DEF G!Unselected
<1>5. \A i \in S : i \notin InGroups(groups) /\ i # src /\ id[i] = i
  BY <1>1, GNames DEF G!Unselected
<1> HIDE DEF id, S
<1>6. e \in Seq(1 .. k) /\ DistinctEntries(e) /\ ToSet(e) = {id[i] : i \in S}
  BY <1>3, <1>4, EntriesIn
<1> HIDE DEF e
<1>7. n \in Nat /\ DOMAIN e = 1 .. n
  BY <1>6
<1> HIDE DEF n
<1>8. PICK p : Steps(p, n, "add", base, e)
  BY <1>7, TurnsAlong
<1> DEFINE J == {j \in 0 .. n : Taking(p[j].addi, k, e, j)}
<1>9. 0 \in J
  <2>1. p[0].addi = <<>>
    BY <1>8 DEF Steps
  <2>2. Taking(<<>>, k, e, 0)
    BY DEF Taking, DistinctEntries, ToSet
  <2> QED BY <1>7, <2>1, <2>2
<1>10. \A j \in 0 .. n - 1 : j \in J => j + 1 \in J
  <2> SUFFICES ASSUME NEW j \in 0 .. n - 1, j \in J PROVE j + 1 \in J
    OBVIOUS
  <2> DEFINE q == p[j].addi
             r == p[j + 1].addi
  <2>1. p[j + 1] = G!AddOne(p[j], e[j + 1])
    BY <1>8 DEF Steps, Turn
  <2>2. r \in {q, Append(q, e[j + 1])}
    BY <2>1 DEF G!AddOne
  <2>3. Taking(q, k, e, j)
    OBVIOUS
  <2> HIDE DEF q, r
  <2>4. Taking(r, k, e, j + 1)
    BY <1>1, <1>6, <1>7, <2>2, <2>3, TakesNext DEF n
  <2>5. j + 1 \in 0 .. n
    BY <1>7
  <2> QED BY <2>4, <2>5 DEF r
<1>11. n \in J
  <2> HIDE DEF J
  <2>1. n \in 0 .. n
    BY <1>7
  <2> QED BY <1>7, <1>9, <1>10, <2>1, UpToN
<1> DEFINE a == Turns("add", base, e).addi
<1>12. Taking(a, k, e, n)
  BY <1>8, <1>11 DEF Steps
<1> HIDE DEF a
<1>13. \A i \in ToSet(a) : i \notin InGroups(groups) /\ i # src
  <2> TAKE i \in ToSet(a)
  <2>1. PICK m \in 1 .. n : i = e[m]
    BY <1>12 DEF Taking
  <2>2. i \in ToSet(e)
    BY <1>7, <2>1 DEF ToSet
  <2>3. i \in S
    BY <1>5, <1>6, <2>2
  <2> QED BY <1>5, <2>3
<1>14. Unused(a, src)
  BY <1>1, <1>12, <1>13 DEF Taking, Unused
<1> QED BY <1>2, <1>14 DEF a

\* A group after an exchange: stripes of the last group, src, and the first j that came in.
Exchanged(q, src, e, j) ==
  /\ q \in Seq(DOMAIN to_repair) /\ DistinctEntries(q) /\ q # <<>>
  /\ \A i \in ToSet(q) : i \in ToSet(last) \/ i = src \/ \E m \in 1 .. j : i = e[m]

LEMMA ExchangedNext ==
  ASSUME NEW src, NEW e, Unused(e, src), NEW j \in 0 .. Len(e) - 1,
         ToSet(last) \subseteq InGroups(groups),
         NEW q, Exchanged(q, src, e, j), NEW r, r \in {q, Append(q, e[j + 1])}
  PROVE  Exchanged(r, src, e, j + 1)
<1> DEFINE X == DOMAIN to_repair
<1>1. /\ q \in Seq(X) /\ DistinctEntries(q) /\ q # <<>>
      /\ \A i \in ToSet(q) : i \in ToSet(last) \/ i = src \/ \E m \in 1 .. j : i = e[m]
  BY DEF Exchanged
<1>2. e \in Seq(X) /\ DistinctEntries(e) /\ \A i \in ToSet(e) : i \notin InGroups(groups) /\ i # src
  BY DEF Unused
<1> HIDE DEF X
<1>3. /\ DOMAIN e = 1 .. Len(e) /\ j \in Nat /\ j + 1 \in 1 .. Len(e) /\ j + 1 \in 1 .. j + 1
      /\ \A m \in 1 .. j : m \in 1 .. j + 1 /\ m \in 1 .. Len(e) /\ m # j + 1
  BY <1>2
<1>4. e[j + 1] \in X /\ e[j + 1] \in ToSet(e)
  BY <1>2, <1>3 DEF ToSet
<1>5. \A m \in 1 .. j : e[m] # e[j + 1]
  BY <1>2, <1>3 DEF DistinctEntries
<1>6. e[j + 1] \notin ToSet(q)
  BY <1>1, <1>2, <1>4, <1>5
<1>7. CASE r = q
  BY <1>1, <1>3, <1>7 DEF Exchanged, X
<1>8. CASE r = Append(q, e[j + 1])
  <2>1. /\ r \in Seq(X) /\ DistinctEntries(r) /\ r # <<>> /\ ToSet(r) = ToSet(q) \cup {e[j + 1]}
    BY <1>1, <1>4, <1>6, <1>8, AppendIs
  <2> QED BY <1>1, <1>3, <2>1 DEF Exchanged, X
<1> QED BY <1>7, <1>8

\* src takes the place of the stripe in a row.
LEMMA PutInIs ==
  ASSUME NEW src \in DOMAIN to_repair, last \in Seq(DOMAIN to_repair), DistinctEntries(last),
         last # <<>>, src \notin ToSet(last), NEW row, NEW e
  PROVE  Exchanged(G!PutIn(last, row, src), src, e, 0)
<1> DEFINE X == DOMAIN to_repair
           n == Len(last)
           q == [last EXCEPT ![row] = src]
<1>1. n \in Nat /\ DOMAIN last = 1 .. n /\ last \in [1 .. n -> X] /\ n # 0
  OBVIOUS
<1> HIDE DEF n, X
<1>2. DOMAIN q = 1 .. n /\ \A i \in 1 .. n : q[i] = IF i = row THEN src ELSE last[i]
  BY <1>1
<1>3. q \in [1 .. n -> X]
  BY <1>1 DEF X
<1>4. q \in Seq(X) /\ q # <<>>
  <2>1. q \in Seq(X) /\ Len(q) = n
    BY <1>1, <1>3
  <2> HIDE DEF q
  <2> QED BY <1>1, <2>1
<1> HIDE DEF q
<1>5. \A i \in 1 .. n : last[i] # src /\ last[i] \in ToSet(last)
  BY <1>1 DEF ToSet
<1>6. DistinctEntries(q)
  BY <1>1, <1>2, <1>5 DEF DistinctEntries
<1>7. \A x \in ToSet(q) : x \in ToSet(last) \/ x = src
  BY <1>2, <1>5 DEF ToSet
<1>8. Exchanged(q, src, e, 0)
  BY <1>4, <1>6, <1>7 DEF Exchanged, X
<1> QED BY <1>8 DEF q, G!PutIn

LEMMA ExchangeIs ==
  ASSUME Grouped, last # <<>>, ExchangeOK, NEW base,
         base.group = G!PutIn(last, exchange[2], exchange[1])
  PROVE  /\ Suits(Turns("put", base, exchange[3]).group, groups, Len(to_repair))
         /\ Turns("put", base, exchange[3]).group # <<>>
<1> DEFINE k == Len(to_repair)
           src == exchange[1]
           e == exchange[3]
           n == Len(e)
<1>1. k \in Nat /\ DOMAIN to_repair = 1 .. k /\ GroupsOK(groups, k)
  BY DEF Grouped
<1>2. Unused(e, src) /\ src \in DOMAIN to_repair /\ src \notin InGroups(groups)
  BY DEF ExchangeOK, Unused
<1> HIDE DEF k, src, e
<1>3. last \in Seq(1 .. k) /\ DistinctEntries(last) /\ ToSet(last) \subseteq InGroups(groups)
  <2>1. groups \in Seq(Seq(1 .. k)) /\ groups # <<>>
    BY <1>1 DEF GroupsOK
  <2>2. Len(groups) \in DOMAIN groups
    BY <2>1
  <2>3. last \in Seq(1 .. k)
    BY <2>1, <2>2 DEF last
  <2> QED BY <1>1, <2>2, <2>3 DEF GroupsOK, InGroups, last
<1>4. n \in Nat /\ DOMAIN e = 1 .. n
  BY <1>2 DEF Unused
<1>5. PICK p : Steps(p, n, "put", base, e)
  BY <1>4, TurnsAlong
<1> DEFINE J == {j \in 0 .. n : Exchanged(p[j].group, src, e, j)}
<1>6. 0 \in J
  <2>1. p[0].group = G!PutIn(last, exchange[2], src)
    BY <1>5 DEF Steps, src
  <2>2. Exchanged(p[0].group, src, e, 0)
    BY <1>1, <1>2, <1>3, <2>1, PutInIs
  <2> QED BY <1>4, <2>2
<1>7. \A j \in 0 .. n - 1 : j \in J => j + 1 \in J
  <2> SUFFICES ASSUME NEW j \in 0 .. n - 1, j \in J PROVE j + 1 \in J
    OBVIOUS
  <2> DEFINE q == p[j].group
             r == p[j + 1].group
  <2>1. p[j + 1] = G!Put(p[j], e[j + 1])
    BY <1>5 DEF Steps, Turn
  <2>2. r \in {q, Append(q, e[j + 1])}
    BY <2>1 DEF G!Put
  <2>3. Exchanged(q, src, e, j)
    OBVIOUS
  <2> HIDE DEF q, r
  <2>4. Exchanged(r, src, e, j + 1)
    BY <1>2, <1>3, <2>2, <2>3, ExchangedNext
  <2>5. j + 1 \in 0 .. n
    BY <1>4
  <2> QED BY <2>4, <2>5 DEF r
<1>8. n \in J
  <2> HIDE DEF J, n
  <2>1. n \in 0 .. n
    BY <1>4
  <2> QED BY <1>4, <1>6, <1>7, <2>1, UpToN
<1> DEFINE a == Turns("put", base, e).group
<1>9. Exchanged(a, src, e, n)
  BY <1>5, <1>8 DEF Steps
<1> HIDE DEF a
<1>10. \A m \in 1 .. n : e[m] \notin InGroups(groups)
  BY <1>2, <1>4 DEF Unused, ToSet
<1>11. a \in Seq(1 .. k) /\ DistinctEntries(a) /\ a # <<>>
       /\ \A i \in ToSet(a) : i \in ToSet(last) \/ i = src \/ \E m \in 1 .. n : i = e[m]
  BY <1>1, <1>9 DEF Exchanged
<1>12. Suits(a, groups, k)
  BY <1>2, <1>10, <1>11 DEF Suits, last
<1> QED BY <1>11, <1>12 DEF a, e, k
-----------------------------------------------------------------------------
(***************************************************************************)
(* The steps of the first half.                                            *)
(***************************************************************************)

LEMMA GroupingInit ==
  ASSUME G!Init
  PROVE  Grouped
<1> DEFINE m == Len(place)
           id == [s \in DOMAIN place |-> s]
           S == {s \in DOMAIN place : G!Affected(s)}
<1>1. place \in Seq(SUBSET Agents) /\ place \in StripeLists
  BY ParallelSolutionAssumption DEF G!Init
<1>2. m \in Nat /\ DOMAIN place = 1 .. m
  BY <1>1
<1>3. S = Lost /\ S \in SUBSET (1 .. m)
  BY <1>2 DEF Lost, G!Affected
<1>4. to_repair = Entries(id, S)
  BY GNames DEF G!Init
<1> HIDE DEF S, m
<1>5. id \in Seq(1 .. m) /\ Len(id) = m /\ DistinctEntries(id) /\ \A s \in 1 .. m : id[s] = s
  BY <1>2 DEF DistinctEntries
<1> HIDE DEF id
<1>6. to_repair \in Seq(Lost)
  <2>1. Entries(id, S) \in Seq(1 .. m) /\ ToSet(Entries(id, S)) = {id[s] : s \in S}
    BY <1>3, <1>5, EntriesIn
  <2>2. {id[s] : s \in S} = Lost
    BY <1>3, <1>5
  <2> DEFINE q == Entries(id, S)
  <2> HIDE DEF q
  <2>3. q \in Seq(1 .. m) /\ ToSet(q) = Lost
    BY <2>1, <2>2 DEF q
  <2>4. \A i \in DOMAIN q : q[i] \in Lost
    BY <2>3 DEF ToSet
  <2>5. q \in Seq(Lost)
    BY <2>3, <2>4
  <2> QED BY <1>4, <2>5 DEF q
<1>7. DOMAIN to_repair = Taken
  BY <1>3, <1>4 DEF Entries, Taken
<1>8. /\ pc = "fill" /\ at = <<1, 0>> /\ groups = << <<>> >>
      /\ matrix = G!NoRows /\ belong = G!Free
  BY DEF G!Init
<1>9. GroupsOK(groups, Len(to_repair))
  <2> DEFINE k == Len(to_repair)
  <2>1. k \in Nat
    BY <1>6
  <2> HIDE DEF k
  <2>2. << <<>> >> \in Seq(Seq(1 .. k)) /\ DOMAIN << <<>> >> = {1} /\ Len(<< <<>> >>) = 1
    OBVIOUS
  <2>3. DistinctEntries(<<>>)
    BY DEF DistinctEntries
  <2> QED BY <1>8, <2>2, <2>3 DEF GroupsOK, k
<1>10. \A i \in DOMAIN to_repair : ~(i < 1)
  BY <1>6
<1> QED BY <1>1, <1>6, <1>7, <1>8, <1>9, <1>10 DEF Grouped

\* A list of which all is unchanged but the place of the loops.
LEMMA SameGroups ==
  ASSUME UNCHANGED <<place, to_repair, groups>>
  PROVE  /\ Lost' = Lost /\ Taken' = Taken /\ last' = last /\ InGroups(groups)' = InGroups(groups)
         /\ GroupsOK(groups, Len(to_repair))' <=> GroupsOK(groups, Len(to_repair))
BY DEF Lost, Taken, last, InGroups, GroupsOK

LEMMA LastIn ==
  ASSUME Grouped
  PROVE  /\ Len(to_repair) \in Nat /\ DOMAIN to_repair = 1 .. Len(to_repair)
         /\ last \in Seq(DOMAIN to_repair) /\ DistinctEntries(last)
         /\ ToSet(last) \subseteq InGroups(groups)
<1> DEFINE k == Len(to_repair)
<1>1. k \in Nat /\ DOMAIN to_repair = 1 .. k /\ GroupsOK(groups, k)
  BY DEF Grouped
<1> HIDE DEF k
<1>2. groups \in Seq(Seq(1 .. k)) /\ groups # <<>>
  BY <1>1 DEF GroupsOK
<1>3. Len(groups) \in DOMAIN groups
  BY <1>2
<1>4. last \in Seq(1 .. k)
  BY <1>2, <1>3 DEF last
<1> QED BY <1>1, <1>3, <1>4 DEF GroupsOK, InGroups, last, k

LEMMA FillStep ==
  ASSUME Grouped, G!Fill
  PROVE  Grouped'
<1> DEFINE i == at[1]
           k == Len(to_repair)
           r == G!IfInsert(G!StripeOf(i), Len(last) + 1, matrix, belong)
<1>1. /\ pc = "fill" /\ i \in DOMAIN to_repair /\ at' = <<i + 1, 0>>
      /\ UNCHANGED <<pc, place, to_repair>>
      /\ IF i \in InGroups(groups) THEN UNCHANGED <<groups, matrix, belong>>
         ELSE /\ matrix' = r.matrix /\ belong' = r.belong
              /\ groups' = IF r.ok THEN [groups EXCEPT ![Len(groups)] = Append(last, i)]
                           ELSE groups
  <2>1. /\ pc = "fill" /\ i \in DOMAIN to_repair /\ at' = <<i + 1, 0>>
        /\ UNCHANGED <<pc, place, to_repair>>
    BY DEF G!Fill
  <2>2. IF i \in G!ifselect THEN UNCHANGED <<groups, matrix, belong>>
        ELSE LET h == G!IfInsert(G!StripeOf(i), Len(G!group) + 1, matrix, belong)
             IN  /\ matrix' = h.matrix /\ belong' = h.belong
                 /\ groups' = IF h.ok THEN [groups EXCEPT ![Len(groups)] = Append(@, i)]
                              ELSE groups
    BY DEF G!Fill
  <2>3. [groups EXCEPT ![Len(groups)] = Append(@, i)] = [groups EXCEPT ![Len(groups)] = Append(last, i)]
    BY DEF last
  <2> QED BY <2>1, <2>2, <2>3, GNames, Zenon
<1>2. k \in Nat /\ DOMAIN to_repair = 1 .. k /\ last \in Seq(1 .. k) /\ DistinctEntries(last)
      /\ ToSet(last) \subseteq InGroups(groups)
  BY LastIn
<1>3. GroupsOK(groups, k) /\ place \in StripeLists /\ to_repair \in Seq(Lost)
      /\ DOMAIN to_repair = Taken
  BY DEF Grouped
<1>4. last = <<>> => /\ matrix = G!NoRows /\ belong = G!Free
                     /\ \A j \in DOMAIN to_repair : j < i => j \in InGroups(groups)
  BY <1>1 DEF Grouped
<1> HIDE DEF i, k
<1>5. Lost' = Lost /\ Taken' = Taken
  BY <1>1 DEF Lost, Taken
<1>6. i \in 1 .. k /\ i + 1 \in Nat \ {0}
  BY <1>1, <1>2
<1>7. at'[1] = i + 1
  BY <1>1
<1>8. CASE i \in InGroups(groups)
  <2>1. UNCHANGED <<groups, matrix, belong>> /\ UNCHANGED last /\ UNCHANGED InGroups(groups)
    BY <1>1, <1>8 DEF last, InGroups
  <2>2. last = <<>> => \A j \in DOMAIN to_repair : j < i + 1 => j \in InGroups(groups)
    BY <1>2, <1>4, <1>6, <1>8
  <2>3. GroupsOK(groups', Len(to_repair'))
    BY <1>1, <1>3, <2>1 DEF k
  <2> QED BY <1>1, <1>3, <1>4, <1>5, <1>6, <1>7, <2>1, <2>2, <2>3 DEF Grouped
<1>9. CASE i \notin InGroups(groups) /\ r.ok
  <2> DEFINE q == Append(last, i)
  <2>1. q \in Seq(1 .. k) /\ q # <<>> /\ ToSet(q) = ToSet(last) \cup {i} /\ DistinctEntries(q)
    BY <1>2, <1>6, <1>9, AppendIs
  <2>2. LastBecomes(groups', groups, q)
    BY <1>1, <1>9 DEF LastBecomes
  <2> HIDE DEF q
  <2>3. Suits(q, groups, k)
    BY <1>9, <2>1 DEF Suits, last
  <2>4. GroupsOK(groups', k) /\ groups'[Len(groups')] = q
    BY <1>2, <1>3, <2>2, <2>3, LastReplaced
  <2>5. last' # <<>>
    BY <2>1, <2>4 DEF last
  <2> QED BY <1>1, <1>3, <1>5, <1>6, <1>7, <2>4, <2>5 DEF Grouped, k
<1>10. CASE i \notin InGroups(groups) /\ ~r.ok
  <2>1. groups' = groups /\ last' = last
    BY <1>1, <1>10 DEF last
  <2>2. last # <<>>
    <3> SUFFICES ASSUME last = <<>> PROVE FALSE
      OBVIOUS
    <3>1. Len(last) + 1 = 1 /\ matrix = G!NoRows /\ belong = G!Free
      BY <1>4
    <3>2. to_repair[i] \in Lost
      BY <1>1, <1>3
    <3>3. G!StripeOf(i) = place[to_repair[i]] \ {fail_node_id}
      BY DEF G!StripeOf, G!Helpers
    <3>4. to_repair[i] \in DOMAIN place /\ fail_node_id \in place[to_repair[i]]
      BY <3>2 DEF Lost
    <3>5. G!IfInsert(place[to_repair[i]] \ {fail_node_id}, 1, G!NoRows, G!Free).ok
      BY <1>3, <3>4, ParallelSolutionAssumption
    <3> QED BY <1>10, <3>1, <3>3, <3>5
  <2>3. GroupsOK(groups', Len(to_repair'))
    BY <1>1, <1>3, <2>1 DEF k
  <2> QED BY <1>1, <1>3, <1>5, <1>6, <1>7, <2>1, <2>2, <2>3 DEF Grouped
<1> QED BY <1>8, <1>9, <1>10

LEMMA FilledStep ==
  ASSUME Grouped, G!Filled
  PROVE  Grouped'
<1>1. /\ pc = "fill" /\ exchange' = <<>> /\ UNCHANGED <<place, to_repair, groups>>
      /\ pc' = IF last = <<>> THEN "format" ELSE "greedy"
      /\ at[1] \notin DOMAIN to_repair \/ Len(last) = G!stripes_per_group
  BY GNames DEF G!Filled, G!Full
<1>2. /\ Lost' = Lost /\ Taken' = Taken /\ last' = last /\ InGroups(groups)' = InGroups(groups)
      /\ GroupsOK(groups, Len(to_repair))'
  BY <1>1, SameGroups DEF Grouped
<1>3. ASSUME last = <<>> PROVE DOMAIN to_repair \subseteq InGroups(groups)
  <2>1. Len(last) = 0
    BY <1>3
  <2>2. at[1] \notin DOMAIN to_repair
    BY <1>1, <2>1, RoomInAGroup
  <2>3. at[1] \in Nat \ {0} /\ \A i \in DOMAIN to_repair : i < at[1] => i \in InGroups(groups)
    BY <1>1, <1>3 DEF Grouped
  <2>4. Len(to_repair) \in Nat /\ DOMAIN to_repair = 1 .. Len(to_repair)
    BY LastIn
  <2>5. \A i \in DOMAIN to_repair : i < at[1]
    BY <2>2, <2>3, <2>4
  <2> QED BY <2>3, <2>5
<1> QED BY <1>1, <1>2, <1>3 DEF Grouped

LEMMA TestReplaceStep ==
  ASSUME Grouped, G!TestReplace
  PROVE  Grouped'
<1> DEFINE x == G!Exchange(at[1], at[2])
           addi == IF x.ok THEN G!Additional(at[1], x) ELSE <<>>
<1>1. /\ pc = "greedy" /\ at[1] \in DOMAIN to_repair /\ UNCHANGED <<pc, place, to_repair, groups>>
      /\ \/ exchange' = exchange
         \/ /\ at[1] \notin InGroups(groups) /\ G!Pays(x, addi)
            /\ exchange' = <<at[1], at[2], addi>>
  BY GNames DEF G!TestReplace
<1>2. /\ Lost' = Lost /\ Taken' = Taken /\ last' = last /\ InGroups(groups)' = InGroups(groups)
      /\ GroupsOK(groups, Len(to_repair))'
  BY <1>1, SameGroups DEF Grouped
<1>3. Grouped /\ last # <<>> /\ (exchange = <<>> \/ ExchangeOK)
  BY <1>1 DEF Grouped
<1>4. exchange' = <<>> \/ ExchangeOK'
  <2>1. CASE exchange' = exchange
    BY <1>1, <1>2, <1>3, <2>1 DEF ExchangeOK
  <2>2. CASE /\ at[1] \notin InGroups(groups) /\ G!Pays(x, addi)
             /\ exchange' = <<at[1], at[2], addi>>
    <3>1. addi = G!Additional(at[1], x)
      BY <2>2 DEF G!Pays
    <3>2. Unused(addi, at[1])
      BY <1>1, <3>1, AdditionalIs
    <3> HIDE DEF addi
    <3>3. exchange'[1] = at[1] /\ exchange'[3] = addi
      BY <2>2
    <3> QED BY <1>1, <1>2, <2>2, <3>2, <3>3 DEF Unused, ExchangeOK
  <2> QED BY <1>1, <2>1, <2>2
<1> QED BY <1>1, <1>2, <1>3, <1>4 DEF Grouped

LEMMA PerformReplaceStep ==
  ASSUME Grouped, G!PerformReplace
  PROVE  Grouped'
<1> DEFINE x == G!Exchange(exchange[1], exchange[2])
           base == [ok |-> TRUE, matrix |-> x.matrix, belong |-> x.belong,
                    group |-> G!PutIn(last, exchange[2], exchange[1])]
           q == Turns("put", base, exchange[3]).group
<1>1. /\ pc = "greedy" /\ exchange # <<>> /\ exchange' = <<>> /\ UNCHANGED <<place, to_repair>>
      /\ pc' \in {"greedy", "exit"} /\ groups' = [groups EXCEPT ![Len(groups)] = q]
  BY GNames DEF G!PerformReplace, Turns
<1>2. last # <<>> /\ ExchangeOK
  BY <1>1 DEF Grouped
<1>3. Suits(q, groups, Len(to_repair)) /\ q # <<>>
  BY <1>2, ExchangeIs
<1>6. LastBecomes(groups', groups, q)
  BY <1>1 DEF LastBecomes
<1> HIDE DEF q
<1>7. Len(to_repair) \in Nat
  BY LastIn
<1>8. GroupsOK(groups, Len(to_repair))
  BY DEF Grouped
<1>4. GroupsOK(groups', Len(to_repair)) /\ groups'[Len(groups')] = q
  BY <1>3, <1>6, <1>7, <1>8, LastReplaced
<1>5. Lost' = Lost /\ Taken' = Taken /\ last' # <<>>
  BY <1>1, <1>3, <1>4 DEF Lost, Taken, last
<1> QED BY <1>1, <1>4, <1>5 DEF Grouped

LEMMA NextGroupStep ==
  ASSUME Grouped, G!NextGroup
  PROVE  Grouped'
<1>1. /\ pc = "greedy" /\ pc' \in {"exit", "fill"} /\ groups' = Append(groups, <<>>)
      /\ matrix' = G!NoRows /\ belong' = G!Free /\ at' = <<1, 0>> /\ UNCHANGED <<place, to_repair>>
  BY DEF G!NextGroup
<1>2. last # <<>>
  BY <1>1 DEF Grouped
<1>3. GroupsOK(groups', Len(to_repair))
  BY <1>1, <1>2, LastIn, GroupAppended DEF Grouped, last
<1>4. Lost' = Lost /\ Taken' = Taken
  BY <1>1 DEF Lost, Taken
<1>5. \A i \in DOMAIN to_repair : ~(i < 1)
  BY LastIn
<1>6. at'[1] = 1 /\ 1 \in Nat \ {0}
  BY <1>1
<1> QED BY <1>1, <1>3, <1>4, <1>5, <1>6 DEF Grouped

LEMMA FormatStep ==
  ASSUME Grouped, G!Format
  PROVE  Grouped'
<1> DEFINE n == Len(groups) - 1
           k == Len(to_repair)
<1>1. /\ pc = "format" /\ pc' = "done" /\ UNCHANGED <<place, to_repair, groups>>
      /\ batches' = [g \in 1 .. n |-> [r \in DOMAIN groups[g] |-> groups[g][r]]]
  BY DEF G!Format, G!TakenAs
<1>2. /\ Lost' = Lost /\ Taken' = Taken /\ last' = last /\ InGroups(groups)' = InGroups(groups)
      /\ GroupsOK(groups, Len(to_repair))'
  BY <1>1, SameGroups DEF Grouped
<1>3. /\ last = <<>> /\ DOMAIN to_repair \subseteq InGroups(groups) /\ GroupsOK(groups, k)
      /\ k \in Nat /\ DOMAIN to_repair = 1 .. k
  BY <1>1, LastIn DEF Grouped
<1> HIDE DEF k
<1>4. Given(batches')
  <2>1. Taken = 1 .. k
    BY <1>3 DEF Grouped
  <2>2. groups \in Seq(Seq(1 .. k)) /\ Len(groups) \in Nat /\ DOMAIN groups = 1 .. Len(groups)
        /\ groups # <<>>
    BY <1>3 DEF GroupsOK
  <2>3. /\ n \in Nat /\ Len(groups) = n + 1
        /\ \A g \in 1 .. n : g \in DOMAIN groups /\ g # Len(groups)
        /\ \A g \in DOMAIN groups : g \in 1 .. n \/ g = Len(groups)
    <3> DEFINE l == Len(groups)
    <3>1. l \in Nat /\ l # 0 /\ DOMAIN groups = 1 .. l
      BY <2>2
    <3> HIDE DEF l
    <3>2. /\ l - 1 \in Nat /\ l = l - 1 + 1
          /\ \A g \in 1 .. l - 1 : g \in 1 .. l /\ g # l
          /\ \A g \in 1 .. l : g \in 1 .. l - 1 \/ g = l
      BY <3>1
    <3> QED BY <3>1, <3>2 DEF l
  <2> HIDE DEF n
  <2>4. \A g \in 1 .. n : groups[g] \in Seq(1 .. k) /\ groups[g] # <<>> /\ DistinctEntries(groups[g])
    <3>1. \A g \in DOMAIN groups : groups[g] \in Seq(1 .. k)
      BY <2>2
    <3>2. \A g \in DOMAIN groups : DistinctEntries(groups[g]) /\ (g # Len(groups) => groups[g] # <<>>)
      BY <1>3 DEF GroupsOK
    <3> QED BY <2>3, <3>1, <3>2
  <2>5. batches' = [g \in 1 .. n |-> groups[g]]
    <3>1. \A g \in 1 .. n : [r \in DOMAIN groups[g] |-> groups[g][r]] = groups[g]
      BY <2>4
    <3> QED BY <1>1, <3>1
  <2>6. batches' \in [1 .. n -> Seq(Taken)] /\ Len(batches') = n
    BY <2>1, <2>3, <2>4, <2>5
  <2>7. \A s \in Taken : \E g \in 1 .. n : s \in ToSet(batches'[g])
    <3> TAKE s \in Taken
    <3>1. PICK g \in DOMAIN groups : s \in ToSet(groups[g])
      BY <1>3, <2>1 DEF InGroups
    <3>2. ToSet(last) = {}
      BY <1>3 DEF ToSet
    <3>3. g \in 1 .. n
      BY <2>3, <3>1, <3>2 DEF last
    <3> QED BY <2>5, <3>1, <3>3
  <2>8. \A a, b \in 1 .. n : \A s \in Taken : s \in ToSet(batches'[a]) /\ s \in ToSet(batches'[b]) => a = b
    BY <1>3, <2>1, <2>3, <2>5 DEF GroupsOK
  <2>9. Divides(batches', n)
    BY <2>4, <2>5, <2>6, <2>7, <2>8 DEF Divides
  <2> QED BY <2>3, <2>4, <2>5, <2>6, <2>9 DEF Given
<1>5. Given(batches)'
  BY <1>1, <1>2, <1>4 DEF Given, Divides
<1> QED BY <1>1, <1>2, <1>5 DEF Grouped

\* A step of the first half leaves the stripes where they are.
LEMMA GroupingStep ==
  ASSUME Grouped, G!Next
  PROVE  Grouped' /\ place' = place
<1>1. CASE G!Fill
  BY <1>1, FillStep DEF G!Fill
<1>2. CASE G!Filled
  BY <1>2, FilledStep DEF G!Filled
<1>3. CASE G!TestReplace
  BY <1>3, TestReplaceStep DEF G!TestReplace
<1>4. CASE G!PerformReplace
  BY <1>4, PerformReplaceStep DEF G!PerformReplace
<1>5. CASE G!NextGroup
  BY <1>5, NextGroupStep DEF G!NextGroup
<1>6. CASE G!Format
  BY <1>6, FormatStep DEF G!Format
<1> QED BY <1>1, <1>2, <1>3, <1>4, <1>5, <1>6 DEF G!Next

\* The second half and the consumer do not write what the first half has.
LEMMA GroupedKept ==
  ASSUME Grouped, UNCHANGED <<place, grouping>>
  PROVE  Grouped'
<1>1. UNCHANGED <<place, pc, to_repair, at, exchange, groups, matrix, belong, batches>>
  BY DEF grouping
<1>2. /\ Lost' = Lost /\ Taken' = Taken /\ last' = last /\ InGroups(groups)' = InGroups(groups)
      /\ GroupsOK(groups, Len(to_repair))'
  BY <1>1, SameGroups DEF Grouped
<1>3. ExchangeOK' <=> ExchangeOK
  BY <1>1, <1>2 DEF ExchangeOK
<1>4. Given(batches)' <=> Given(batches)
  BY <1>1, <1>2 DEF Given, Divides
<1> QED BY <1>1, <1>2, <1>3, <1>4 DEF Grouped

\* What the assumptions on the constants say of the list that is tried.
LEMMA TakenIs ==
  ASSUME Grouped
  PROVE  IsFiniteSet(Lost) /\ Taken \subseteq DOMAIN place /\ TakenIsAnInterval /\ LoadsAreTables
<1> DEFINE m == Len(place)
           k == Cardinality(Lost)
<1>1. place \in StripeLists /\ place \in Seq(SUBSET Agents)
  BY ParallelSolutionAssumption DEF Grouped
<1>2. m \in Nat /\ DOMAIN place = 1 .. m
  BY <1>1
<1>3. Lost \subseteq 1 .. m
  BY <1>2 DEF Lost
<1> HIDE DEF m
<1>4. IsFiniteSet(1 .. m) /\ Cardinality(1 .. m) = m
  BY <1>2, FS_Interval
<1>5. IsFiniteSet(Lost) /\ k <= m
  BY <1>3, <1>4, FS_Subset
<1>6. k \in Nat
  BY <1>5, FS_CardinalityType
<1>7. Taken = 1 .. k
  BY DEF Taken
<1> HIDE DEF k
<1>8. Taken \subseteq DOMAIN place
  BY <1>2, <1>5, <1>6, <1>7
<1>9. TakenIsAnInterval
  <2>1. IsFiniteSet(1 .. k) /\ Cardinality(1 .. k) = k
    BY <1>6, FS_Interval
  <2> QED BY <1>7, <2>1 DEF TakenIsAnInterval
<1>10. \A s \in DOMAIN place : Loads(place[s]) \subseteq Load
  BY <1>1, ParallelSolutionAssumption DEF Load
<1> QED BY <1>5, <1>8, <1>9, <1>10 DEF LoadsAreTables

\* The inductive invariant: what the first half keeps, and what the second.
Inv == Grouped /\ Improving

LEMMA InvInit ==
  ASSUME Init
  PROVE  Inv
<1>1. Grouped
  BY GroupingInit DEF Init
<1>2. gpc = "group" /\ out = <<>>
  BY DEF Init, ImproveInit
<1>3. Improving
  BY <1>2 DEF Improving
<1> QED BY <1>1, <1>3 DEF Inv

LEMMA InvStep ==
  ASSUME Inv, [Next]_vars
  PROVE  Inv'
<1>1. Grouped /\ Improving /\ LoadsAreTables
  BY TakenIs DEF Inv
<1>2. CASE FindRepairBatches
  <2>1. Grouped' /\ place' = place
    BY <1>1, <1>2, GroupingStep DEF FindRepairBatches
  <2>2. UNCHANGED <<place, genVars, gpc>>
    BY <1>2, <2>1 DEF FindRepairBatches, improving
  <2> QED BY <1>1, <2>1, <2>2, ImprovingKept DEF Inv
<1>3. CASE Improve
  <2>1. ASSUME StartImprove(batches) PROVE Improving'
    <3>1. Given(batches) /\ gpc = "group"
      BY <1>1, <1>3, <2>1 DEF Improve, Grouped, StartImprove
    <3> QED BY <1>1, <2>1, <3>1, StartImproveStep
  <2>2. Improving'
    BY <1>3, <2>1 DEF Improve, DecodeNothing, Crash, Improving
  <2>3. UNCHANGED <<place, grouping>>
    BY <1>3 DEF Improve, StartImprove, DecodeNothing, Crash
  <2> QED BY <1>1, <2>2, <2>3, GroupedKept DEF Inv
<1>4. CASE ImproveBatches
  <2>1. gpc \notin {"group", "crashed"} /\ place' = place
    BY <1>4 DEF ImproveBatches, Improver, SelectHead, TryStripe, EraseNothing, Crash, StopTrying,
                PushHead, ResetRequest, Finish
  <2>2. Improving'
    BY <1>1, <1>4, <2>1, ImprovingStep DEF ImproveBatches
  <2>3. UNCHANGED <<place, grouping>>
    BY <1>4, <2>1 DEF ImproveBatches
  <2> QED BY <1>1, <2>2, <2>3, GroupedKept DEF Inv
<1>5. CASE Consumer
  <2>1. UNCHANGED <<place, grouping, genVars, gpc>>
    BY <1>5 DEF Consumer, Consume, Goto, HasNextFlag, HasNextQueue, GetSize, Request, Pop, Work
  <2> QED BY <1>1, <2>1, GroupedKept, ImprovingKept DEF Inv
<1>6. CASE UNCHANGED vars
  <2>1. UNCHANGED <<place, grouping, genVars, gpc>>
    BY <1>6 DEF vars, improving
  <2> QED BY <1>1, <2>1, GroupedKept, ImprovingKept DEF Inv
<1> QED BY <1>2, <1>3, <1>4, <1>5, <1>6 DEF Next, Generator
-----------------------------------------------------------------------------
(***************************************************************************)
(* findRepairBatchs gives improve as many stripes as have lost a block,    *)
(* the first ones of the placement file, each in one batch that is not     *)
(* empty: however stripes were exchanged between the groups, none was      *)
(* taken twice and none was left behind.                                   *)
(***************************************************************************)
EachStripeInOneGroup == pc = "done" => Given(batches)

THEOREM GroupsDivideTheStripes == Spec => []EachStripeInOneGroup
<1>1. Inv => EachStripeInOneGroup
  BY DEF Inv, Grouped, EachStripeInOneGroup
<1>2. Init => Inv
  BY InvInit
<1>3. Inv /\ [Next]_vars => Inv'
  BY InvStep
<1> QED BY <1>1, <1>2, <1>3, PTL DEF Spec

(***************************************************************************)
(* Whatever the search of improve and improve_enqueue moves from a batch   *)
(* to the head of the list, and whatever it erases on the way, each stripe *)
(* that the groups gave to the batches is once in those that are delivered *)
(* or still listed; no other stripe is, and no such batch is empty.        *)
(***************************************************************************)
THEOREM EveryStripeIsRepairedOnce == Spec => []EachStripeOnce
<1>1. Inv => EachStripeOnce
  BY TakenIs, OnceFollows DEF Inv
<1>2. Init => Inv
  BY InvInit
<1>3. Inv /\ [Next]_vars => Inv'
  BY InvStep
<1> QED BY <1>1, <1>2, <1>3, PTL DEF Spec

(***************************************************************************)
(* What is repaired is what was lost, in every placement file in which no  *)
(* unaffected stripe comes before an affected one: there the two numbers   *)
(* of a stripe, which the code confuses, are one.                          *)
(***************************************************************************)
LEMMA InOrderTakesTheLost ==
  ASSUME Grouped, G!InOrder
  PROVE  Taken = Lost
<1> DEFINE k == Cardinality(Lost)
<1>1. IsFiniteSet(Lost) /\ TakenIsAnInterval
  BY TakenIs
<1>2. to_repair \in Seq(Lost) /\ DOMAIN to_repair = Taken
  BY DEF Grouped
<1>3. \A i \in Taken : i \in Lost
  BY <1>2 DEF G!InOrder, G!TakenAs
<1>4. k \in Nat /\ Taken = 1 .. k
  BY <1>1, FS_CardinalityType DEF Taken
<1> HIDE DEF k
<1>5. Cardinality(Taken) = k
  BY <1>4, FS_Interval
<1> QED BY <1>1, <1>3, <1>5, FS_Subset DEF k

LEMMA BatchesHoldTheTaken ==
  ASSUME Improving, gpc \notin {"group", "crashed"}
  PROVE  UNION {ToSet(list[b]) : b \in DOMAIN list} = Taken
<1>1. PICK n \in Nat : Divides(list, n)
  BY DEF Improving, BatchesOK
<1>2. DOMAIN list = 1 .. n /\ \A b \in 1 .. n : list[b] \in Seq(Taken)
  BY <1>1 DEF Divides
<1>3. \A b \in 1 .. n : \A s \in ToSet(list[b]) : s \in Taken
  BY <1>2, SetOfSeq
<1>4. \A s \in Taken : \E b \in 1 .. n : s \in ToSet(list[b])
  BY <1>1 DEF Divides
<1> QED BY <1>2, <1>3, <1>4

THEOREM InOrderRepairsWhatIsLost == Spec => [](G!InOrder => RepairsWhatIsLost)
<1>1. Inv => (G!InOrder => RepairsWhatIsLost)
  BY InOrderTakesTheLost, BatchesHoldTheTaken DEF Inv, RepairsWhatIsLost
<1>2. Init => Inv
  BY InvInit
<1>3. Inv /\ [Next]_vars => Inv'
  BY InvStep
<1> QED BY <1>1, <1>2, <1>3, PTL DEF Spec

(***************************************************************************)
(* In the search best_avg is what the stripes of the head batch load per   *)
(* stripe, and loadTable what they and those kept aside load, although the *)
(* search gives every stripe it takes a new colour.                        *)
(***************************************************************************)
THEOREM SearchComparesWithTheHead == Spec => []BestIsTheHeads
<1>1. Inv => BestIsTheHeads
  BY BestFollows DEF Inv
<1>2. Init => Inv
  BY InvInit
<1>3. Inv /\ [Next]_vars => Inv'
  BY InvStep
<1> QED BY <1>1, <1>2, <1>3, PTL DEF Spec
=============================================================================

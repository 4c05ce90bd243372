---------------------------- MODULE ECDagProofs -----------------------------
(***************************************************************************)
(* Proofs about ECDag: whatever a code joins, the prune leaves exactly the *)
(* repair, and both sorts list children before their parents.              *)
(***************************************************************************)
EXTENDS ECDag, FiniteSetTheorems, WellFoundedInduction, TLAPS
-----------------------------------------------------------------------------
(***************************************************************************)
(* The inductive invariant.                                                *)
(***************************************************************************)
Types == {"root", "leaf", "intermediate"}

DagsOn(I) ==
  [child : [I -> Seq(I)], coefs : [I -> Seq(Int)], parent : [I -> Seq(I)],
   type : [I -> Types], headers : Seq(I), leaves : Seq(I), concacts : Seq(Int)]

Shaped(d) == Ids(d) \in SUBSET Int /\ IsFiniteSet(Ids(d)) /\ d \in DagsOn(Ids(d))

\* No cycles: among any vertices there is one made of none of them, and one
\* that none of them is made of.
Grounded(d) ==
  \A S \in SUBSET Ids(d) : S # {} => \E v \in S : ToSet(d.child[v]) \cap S = {}

Topped(d) ==
  \A S \in SUBSET Ids(d) : S # {} => \E v \in S : \A u \in S : v \notin ToSet(d.child[u])

\* A vertex is there because it is joined or because it is used.
Needed(d) == \A v \in Ids(d) : d.child[v] # <<>> \/ d.parent[v] # <<>>

Good(d) == Shaped(d) /\ WellFormed(d) /\ Grounded(d) /\ Topped(d) /\ Needed(d)

BuildInv ==
  /\ Good(dag) /\ Ids(dag) \subseteq 0 .. REQUESTOR - ecn
  /\ stack = <<>> /\ toDelete = {} /\ levels = <<>> /\ topo = <<>>

\* What the code has built, as the prune finds it.
BuiltInv == Good(built) /\ Keep \in Ids(built) /\ built.parent[Keep] = <<>>

(***************************************************************************)
(* Pruning.  A vertex is touched when removeChildNode has been called for  *)
(* it; its uses are gone up to where the call is in its loop.              *)
(***************************************************************************)
Calls == {stack[k][1] : k \in DOMAIN stack}
Touched == toDelete \cup Calls
TimesFrom(s, i, v) == Cardinality({j \in DOMAIN s : i <= j /\ s[j] = v})

UsesLeft ==
  /\ \A c \in Ids(built) : \A p \in toDelete : Times(dag.parent[c], p) = 0
  /\ \A c \in Ids(built) : \A k \in DOMAIN stack :
       Times(dag.parent[c], stack[k][1]) = TimesFrom(built.child[stack[k][1]], stack[k][2], c)
  /\ \A c \in Ids(built) : \A p \in Ids(built) \ Touched :
       Times(dag.parent[c], p) = Times(built.child[p], c)

CallsOnce ==
  /\ \A k, l \in DOMAIN stack : stack[k][1] = stack[l][1] => k = l
  /\ Calls \cap toDelete = {}

Bottom == IF stack = <<>> THEN {} ELSE {stack[1][1]}

PruneShape ==
  /\ dag \in DagsOn(Ids(built))
  /\ dag.child = built.child /\ dag.coefs = built.coefs
  /\ dag.type = built.type /\ dag.leaves = built.leaves
  /\ toDelete \in SUBSET Ids(built)
  /\ stack \in Seq(Ids(built) \X (Nat \ {0}))
  /\ todo \in Seq(Ids(built)) /\ DistinctEntries(todo)
  /\ levels = <<>> /\ topo = <<>>

PruneInv ==
  /\ PruneShape
  /\ CallsOnce /\ UsesLeft
  /\ \A v \in Touched : dag.parent[v] = <<>>
  /\ Touched \cap MadeOf(built, Keep) = {}
  /\ {v \in Ids(built) \ Touched : dag.parent[v] = <<>>} = {Keep} \cup ToSet(todo)
  /\ DistinctEntries(dag.headers)
  /\ ToSet(dag.headers) = {Keep} \cup ToSet(todo) \cup Bottom

(***************************************************************************)
(* Sorting.                                                                *)
(***************************************************************************)
Pruned ==
  /\ Ids(dag) = MadeOf(built, Keep)
  /\ \A v \in Ids(dag) : dag.child[v] = built.child[v] /\ dag.coefs[v] = built.coefs[v]
  /\ dag.headers = <<Keep>> /\ WellFormed(dag)

\* The children of p that are not in S, one per use.
Waiting(d, p, S) == Cardinality({k \in DOMAIN d.child[p] : d.child[p][k] \notin S})

PlacedIn(ls) == UNION {ls[l] : l \in DOMAIN ls}

LevelsOK(d, ls) ==
  /\ ls \in Seq(SUBSET Ids(d))
  /\ \A l \in DOMAIN ls : \A v \in ls[l] :
       /\ \A m \in DOMAIN ls : v \in ls[m] => m = l
       /\ \A c \in ToSet(d.child[v]) : \E m \in 1 .. l - 1 : c \in ls[m]

LevelInv ==
  /\ LevelsOK(dag, levels)
  /\ inref = [p \in Ids(dag) \ PlacedIn(levels) |-> Waiting(dag, p, PlacedIn(levels))]
  /\ topo = <<>>

\* The vertices that have had their turn.
Passed == {v \in Ids(dag) : inref[v] = 0} \ ToSet(ready)

TopoInv ==
  /\ LevelsOK(dag, levels)
  /\ ready \in Seq(Ids(dag)) /\ DistinctEntries(ready)
  /\ \A v \in ToSet(ready) : inref[v] = 0
  /\ inref = [p \in Ids(dag) |-> Waiting(dag, p, Passed)]
  /\ topo \in Seq(Ids(dag)) /\ DistinctEntries(topo)
  /\ ToSet(topo) = Passed \cap ItmIdxs(dag)
  /\ \A i \in DOMAIN topo : \A c \in ToSet(dag.child[topo[i]]) \cap ItmIdxs(dag) :
       \E j \in 1 .. i - 1 : topo[j] = c

IInv ==
  /\ step \in {"build", "prune", "level", "topo", "done"}
  /\ failed \in SUBSET (0 .. ecn - 1) /\ failBlk \in failed
  /\ step = "build" => BuildInv
  /\ step # "build" => BuiltInv
  /\ step = "prune" => PruneInv
  /\ step \in {"level", "topo", "done"} => Pruned /\ Shaped(dag) /\ Grounded(dag)
  /\ step = "level" => LevelInv
  /\ step \in {"topo", "done"} => TopoInv
  /\ step = "done" => ready = <<>>
-----------------------------------------------------------------------------
(***************************************************************************)
(* Numbers and finite sets.                                                *)
(***************************************************************************)
\* A set of natural numbers that is not empty has a least element.
LEMMA LeastElement ==
  ASSUME NEW S \in SUBSET Nat, S # {}
  PROVE  \E x \in S : \A y \in S : x <= y
<1> DEFINE R == OpToRel(<, Nat)
<1>1. IsWellFoundedOn(R, Nat)
  BY NatLessThanWellFounded
<1>2. PICK x \in S : \A y \in S : ~(<<y, x>> \in R)
  BY <1>1, WFMin, Zenon
<1>3. \A y \in S : ~(y < x)
  BY <1>2 DEF OpToRel
<1> QED BY <1>3

\* A set of numbers that goes on from each of its elements up to n.
LEMMA UpToN ==
  ASSUME NEW n \in Nat, NEW S, 0 \in S, \A m \in 0 .. n - 1 : m \in S => m + 1 \in S
  PROVE  \A m \in 0 .. n : m \in S
<1> DEFINE Out == {m \in 0 .. n : m \notin S}
<1>1. ASSUME Out # {} PROVE FALSE
  <2> Out \in SUBSET Nat
    OBVIOUS
  <2>1. PICK x \in Out : \A y \in Out : x <= y
    <3> HIDE DEF Out
    <3> QED BY <1>1, LeastElement
  <2>2. x \in 1 .. n /\ x - 1 \notin Out
    BY <2>1
  <2>3. x - 1 \in 0 .. n - 1 /\ x - 1 \in S
    BY <2>2
  <2>4. (x - 1) + 1 \in S
    BY <2>3
  <2>5. (x - 1) + 1 = x
    BY <2>2
  <2> QED BY <2>1, <2>4, <2>5
<1>2. \A m \in 0 .. n : m \notin Out
  BY <1>1
<1> HIDE DEF Out
<1> QED BY <1>2 DEF Out

\* f lists the elements of R once, by those of S.
OneToOne(f, S, R) ==
  /\ f \in [S -> R]
  /\ \A s, t \in S : f[s] = f[t] => s = t
  /\ \A r \in R : \E s \in S : f[s] = r

LEMMA SameCount ==
  ASSUME NEW S, NEW R, IsFiniteSet(R), NEW f, OneToOne(f, S, R)
  PROVE  IsFiniteSet(S) /\ Cardinality(S) = Cardinality(R) /\ Cardinality(S) \in Nat
<1>1. f \in Injection(S, R)
  BY DEF Injection, IsInjective, OneToOne
<1>2. f \in Surjection(S, R)
  BY DEF Surjection, OneToOne
<1> QED BY <1>1, <1>2, FS_Injection, FS_CardinalityType

-----------------------------------------------------------------------------
(***************************************************************************)
(* The entries of a list at some positions, in order.                      *)
(***************************************************************************)
Below(i, S) == {j \in S : j < i}
Rank(i, S) == Cardinality(Below(i, S))

LEMMA RankExists ==
  ASSUME NEW n \in Nat, NEW S \in SUBSET (1 .. n)
  PROVE  /\ IsFiniteSet(S) /\ Cardinality(S) \in Nat
         /\ \A k \in 1 .. Cardinality(S) : \E i \in S : Rank(i, S) = k - 1
<1> DEFINE N == Cardinality(S)
<1>1. IsFiniteSet(S) /\ N \in Nat
  <2>1. IsFiniteSet(1 .. n)
    BY FS_Interval
  <2> QED BY <2>1, FS_Subset, FS_CardinalityType
<1>2. ASSUME NEW i \in S
      PROVE  IsFiniteSet(Below(i, S)) /\ Rank(i, S) \in Nat /\ Rank(i, S) < N
  <2>1. Below(i, S) \in SUBSET S /\ Below(i, S) # S
    BY DEF Below
  <2>2. /\ IsFiniteSet(Below(i, S)) /\ Cardinality(Below(i, S)) <= N
        /\ Cardinality(Below(i, S)) # N
    BY <1>1, <2>1, FS_Subset
  <2>3. Cardinality(Below(i, S)) \in Nat
    BY <2>2, FS_CardinalityType
  <2> HIDE DEF N
  <2> QED BY <1>1, <2>2, <2>3 DEF Rank
<1>3. ASSUME NEW i \in S, NEW j \in S, i < j  PROVE Rank(i, S) # Rank(j, S)
  <2>1. Below(i, S) \in SUBSET Below(j, S)
    <3>1. \A k \in S : k \in Int
      OBVIOUS
    <3>2. \A k \in S : k < i => k < j
      BY <1>3, <3>1
    <3> QED BY <3>2 DEF Below
  <2>2. Below(i, S) # Below(j, S)
    BY <1>3 DEF Below
  <2> QED BY <1>2, <2>1, <2>2, FS_Subset DEF Rank
<1> DEFINE f == [i \in S |-> Rank(i, S) + 1]
<1>4. f \in [S -> 1 .. N]
  <2> HIDE DEF N
  <2> QED BY <1>1, <1>2
<1>5. ASSUME NEW i \in S, NEW j \in S, f[i] = f[j] PROVE i = j
  <2>1. Rank(i, S) = Rank(j, S)
    BY <1>2, <1>5
  <2>2. ~(i < j) /\ ~(j < i)
    BY <1>3, <2>1
  <2> QED BY <2>2
<1>6. f \in Injection(S, 1 .. N)
  <2> HIDE DEF f, N
  <2> QED BY <1>4, <1>5 DEF Injection, IsInjective
<1>7. f \in Surjection(S, 1 .. N)
  <2>1. IsFiniteSet(1 .. N) /\ Cardinality(1 .. N) = N
    <3> HIDE DEF N
    <3> QED BY <1>1, FS_Interval
  <2> DEFINE T == 1 .. N
  <2>2. IsFiniteSet(T) /\ Cardinality(T) = Cardinality(S) /\ f \in Injection(S, T)
    BY <1>6, <2>1
  <2> HIDE DEF f, T
  <2>3. f \in Surjection(S, T)
    BY <2>2, FS_Injection
  <2> QED BY <2>3 DEF T
<1>8. ASSUME NEW k \in 1 .. N PROVE \E i \in S : Rank(i, S) = k - 1
  <2>1. PICK i \in S : f[i] = k
    <3> HIDE DEF f, N
    <3> QED BY <1>7 DEF Surjection
  <2> HIDE DEF N
  <2>2. Rank(i, S) + 1 = k
    BY <2>1
  <2> QED BY <1>2, <2>2
<1> QED BY <1>1, <1>8

\* e is s at the positions of S, each once.
Picks(e, s, S) ==
  \E m \in Nat : \E at \in [1 .. m -> S] :
    /\ e = [k \in 1 .. m |-> s[at[k]]]
    /\ \A k, l \in 1 .. m : at[k] = at[l] => k = l
    /\ \A i \in S : \E k \in 1 .. m : at[k] = i

LEMMA EntriesOnce ==
  ASSUME NEW n \in Nat, NEW S \in SUBSET (1 .. n), NEW s
  PROVE  Picks(Entries(s, S), s, S)
<1> DEFINE m == Cardinality(S)
           At(k) == CHOOSE i \in S : Rank(i, S) = k - 1
           at == [k \in 1 .. m |-> At(k)]
<1>1. /\ IsFiniteSet(S) /\ m \in Nat
      /\ \A k \in 1 .. m : \E i \in S : Rank(i, S) = k - 1
  BY RankExists
<1>2. \A k \in 1 .. m : At(k) \in S /\ Rank(At(k), S) = k - 1
  BY <1>1
<1>3. Entries(s, S) = [k \in 1 .. m |-> s[at[k]]]
  BY DEF Entries, Rank, Below
<1>4. at \in [1 .. m -> S]
  BY <1>2
<1>5. \A k, l \in 1 .. m : at[k] = at[l] => k = l
  <2>1. \A k \in 1 .. m : Rank(at[k], S) = k - 1
    BY <1>2
  <2> HIDE DEF at, m
  <2> QED BY <1>1, <2>1
<1>6. \A i \in S : \E k \in 1 .. m : at[k] = i
  <2>1. Cardinality(1 .. m) = m /\ IsFiniteSet(1 .. m)
    <3> HIDE DEF m
    <3> QED BY <1>1, FS_Interval
  <2> DEFINE T == 1 .. m
  <2>2. IsFiniteSet(T) /\ Cardinality(T) = Cardinality(S) /\ at \in Injection(T, S)
    <3> HIDE DEF at, m
    <3>1. at \in Injection(T, S)
      BY <1>4, <1>5 DEF Injection, IsInjective
    <3> QED BY <2>1, <3>1 DEF m
  <2> HIDE DEF at, T
  <2>3. at \in Surjection(T, S)
    BY <1>1, <2>2, FS_Injection
  <2> QED BY <2>3 DEF Surjection, T
<1> HIDE DEF at, m
<1> QED BY <1>1, <1>3, <1>4, <1>5, <1>6 DEF Picks

-----------------------------------------------------------------------------
(***************************************************************************)
(* How often an entry is in a list.                                        *)
(***************************************************************************)
Places(s, v) == {i \in DOMAIN s : s[i] = v}

LEMMA ListIs ==
  ASSUME NEW X, NEW s \in Seq(X)
  PROVE  /\ Len(s) \in Nat /\ DOMAIN s = 1 .. Len(s)
         /\ \A i \in DOMAIN s : s[i] \in X
         /\ ToSet(s) \in SUBSET X
         /\ s = <<>> <=> Len(s) = 0
         /\ s = <<>> <=> ToSet(s) = {}
<1>1. Len(s) \in Nat /\ DOMAIN s = 1 .. Len(s) /\ \A i \in DOMAIN s : s[i] \in X
  OBVIOUS
<1>2. s = <<>> <=> Len(s) = 0
  OBVIOUS
<1>3. ToSet(s) \in SUBSET X
  BY <1>1 DEF ToSet
<1>4. ASSUME ToSet(s) = {} PROVE Len(s) = 0
  <2>1. \A i \in 1 .. Len(s) : s[i] \in ToSet(s)
    BY <1>1 DEF ToSet
  <2>2. ~(1 \in 1 .. Len(s))
    BY <1>4, <2>1
  <2> QED BY <1>1, <2>2
<1>5. ASSUME s = <<>> PROVE ToSet(s) = {}
  <2>1. DOMAIN s = {}
    BY <1>1, <1>2, <1>5
  <2> QED BY <2>1 DEF ToSet
<1> QED BY <1>1, <1>2, <1>3, <1>4, <1>5

LEMMA TimesIs ==
  ASSUME NEW X, NEW s \in Seq(X), NEW v
  PROVE  /\ IsFiniteSet(Places(s, v)) /\ Times(s, v) = Cardinality(Places(s, v))
         /\ Times(s, v) \in Nat
         /\ Times(s, v) = 0 <=> v \notin ToSet(s)
<1>1. IsFiniteSet(1 .. Len(s))
  BY FS_Interval, ListIs
<1>2. Places(s, v) \in SUBSET (1 .. Len(s))
  BY ListIs DEF Places
<1>3. IsFiniteSet(Places(s, v)) /\ Times(s, v) = Cardinality(Places(s, v))
  BY <1>1, <1>2, FS_Subset DEF Times, Places
<1>4. Times(s, v) \in Nat
  BY <1>3, FS_CardinalityType
<1>5. Times(s, v) = 0 <=> Places(s, v) = {}
  BY <1>3, FS_EmptySet
<1>6. Places(s, v) = {} <=> v \notin ToSet(s)
  BY DEF Places, ToSet
<1> QED BY <1>3, <1>4, <1>5, <1>6

LEMMA ContainsIs ==
  ASSUME NEW X, NEW s \in Seq(X), NEW v
  PROVE  Contains(s, v) <=> v \in ToSet(s)
<1>1. DOMAIN s = 1 .. Len(s)
  BY ListIs
<1> QED BY <1>1 DEF Contains, ToSet

LEMMA TimesOfConcat ==
  ASSUME NEW X, NEW s \in Seq(X), NEW t \in Seq(X), NEW v
  PROVE  Times(s \o t, v) = Times(s, v) + Times(t, v)
<1> DEFINE n == Len(s)
           m == Len(t)
           u == s \o t
           A == Places(s, v)
           B == Places(t, v)
           C == {i \in n + 1 .. n + m : u[i] = v}
           f == [i \in C |-> i - n]
<1>1. n \in Nat /\ m \in Nat /\ DOMAIN s = 1 .. n /\ DOMAIN t = 1 .. m
  BY ListIs
<1>2. u \in Seq(X) /\ DOMAIN u = 1 .. n + m
  OBVIOUS
<1>3. /\ \A i \in 1 .. n : u[i] = s[i]
      /\ \A i \in n + 1 .. n + m : u[i] = t[i - n]
  OBVIOUS
<1> HIDE DEF u, n, m
<1>4. Places(u, v) = A \cup C
  <2>1. \A i \in 1 .. n + m : i \in 1 .. n \/ i \in n + 1 .. n + m
    BY <1>1
  <2>2. \A i : i \in 1 .. n \/ i \in n + 1 .. n + m => i \in 1 .. n + m
    BY <1>1
  <2> QED BY <1>1, <1>2, <1>3, <2>1, <2>2 DEF Places
<1>5. A \cap C = {}
  BY <1>1 DEF Places
<1>6. OneToOne(f, C, B)
  <2>1. \A i \in C : i \in Int /\ i - n \in B
    BY <1>1, <1>3 DEF Places
  <2>2. \A i \in B : i \in Int /\ i + n \in C /\ (i + n) - n = i
    <3> TAKE i \in B
    <3>1. i \in 1 .. m /\ t[i] = v
      BY <1>1 DEF Places
    <3>2. i + n \in n + 1 .. n + m /\ (i + n) - n = i
      BY <1>1, <3>1
    <3>3. u[i + n] = t[(i + n) - n]
      BY <1>3, <3>2
    <3> QED BY <3>1, <3>2, <3>3
  <2>3. \A i \in C : f[i] = i - n
    OBVIOUS
  <2>4. f \in [C -> B]
    BY <2>1
  <2> HIDE DEF f, C, B
  <2>5. \A i, j \in C : f[i] = f[j] => i = j
    BY <1>1, <2>1, <2>3
  <2>6. \A r \in B : \E i \in C : f[i] = r
    BY <2>2, <2>3
  <2> QED BY <2>4, <2>5, <2>6 DEF OneToOne
<1>7. IsFiniteSet(A) /\ IsFiniteSet(B) /\ Times(s, v) = Cardinality(A) /\ Times(t, v) = Cardinality(B)
      /\ Times(u, v) = Cardinality(Places(u, v)) /\ Cardinality(A) \in Nat
  BY <1>2, TimesIs
<1> HIDE DEF A, B, C, f
<1>8. IsFiniteSet(C) /\ Cardinality(C) = Cardinality(B) /\ Cardinality(C) \in Nat
  BY <1>6, <1>7, SameCount
<1>9. Cardinality(A \cup C) = Cardinality(A) + Cardinality(C) - Cardinality({})
  BY <1>5, <1>7, <1>8, FS_Union
<1>10. Cardinality(A \cup C) = Cardinality(A) + Cardinality(C)
  BY <1>7, <1>8, <1>9, FS_EmptySet
<1> QED BY <1>4, <1>7, <1>8, <1>10 DEF u

\* The list that repeats an entry.
LEMMA TimesRepeated ==
  ASSUME NEW n \in Nat, NEW p, NEW v
  PROVE  Times([i \in 1 .. n |-> p], v) = IF v = p THEN n ELSE 0
<1> DEFINE s == [i \in 1 .. n |-> p]
<1>1. Places(s, v) = IF v = p THEN 1 .. n ELSE {}
  BY DEF Places
<1>2. Cardinality(1 .. n) = n /\ Cardinality({}) = 0
  BY FS_Interval, FS_EmptySet
<1>3. Times(s, v) = Cardinality(Places(s, v))
  BY DEF Times, Places
<1> QED BY <1>1, <1>2, <1>3
-----------------------------------------------------------------------------
(***************************************************************************)
(* What is taken out of lists and added to them.                           *)
(***************************************************************************)
LEMMA ConcatAt ==
  ASSUME NEW X, NEW s \in Seq(X), NEW t \in Seq(X)
  PROVE  /\ s \o t \in Seq(X) /\ Len(s \o t) = Len(s) + Len(t)
         /\ \A i \in 1 .. Len(s) : (s \o t)[i] = s[i]
         /\ \A i \in 1 .. Len(t) : (s \o t)[Len(s) + i] = t[i]
OBVIOUS

\* s without its place m.
Cut(s, m) == [k \in 1 .. Len(s) - 1 |-> IF k < m THEN s[k] ELSE s[k + 1]]

LEMMA RemoveFirstCuts ==
  ASSUME NEW X, NEW s \in Seq(X), NEW e \in ToSet(s)
  PROVE  \E m \in DOMAIN s : s[m] = e /\ RemoveFirst(s, e) = Cut(s, m)
<1> DEFINE n == Len(s)
           I == {i \in 1 .. n : s[i] = e}
           m == SelectInSeq(s, LAMBDA v : v = e)
<1>1. n \in Nat /\ DOMAIN s = 1 .. n /\ \A i \in 1 .. n : s[i] \in X
  BY ListIs
<1>2. I \in SUBSET Nat /\ I # {}
  BY <1>1 DEF ToSet
<1>3. m = Min(I)
  BY <1>2 DEF SelectInSeq
<1>4. PICK x \in I : \A y \in I : x <= y
  <2> HIDE DEF I
  <2> QED BY <1>2, LeastElement
<1>5. m \in I
  <2>1. Min(I) \in I
    BY <1>4 DEF Min
  <2> QED BY <1>3, <2>1
<1>6. RemoveFirst(s, e) = RemoveAt(s, m)
  BY <1>2 DEF RemoveFirst
<1>7. m \in 1 .. n /\ s[m] = e /\ m \in Int
  <2>1. m \in 1 .. n /\ s[m] = e
    BY <1>5
  <2> HIDE DEF m
  <2> QED BY <1>1, <2>1
<1> HIDE DEF m, I
<1> DEFINE a == SubSeq(s, 1, m - 1)
           b == SubSeq(s, m + 1, n)
<1>8. /\ a = [k \in 1 .. m - 1 |-> s[k]]
      /\ b = [k \in 1 .. n - m |-> s[m + k]]
  <2>1. a = [k \in 1 .. (m - 1) - 1 + 1 |-> s[1 + k - 1]]
    BY <1>1, <1>7
  <2>2. b = [k \in 1 .. n - (m + 1) + 1 |-> s[(m + 1) + k - 1]]
    BY <1>1, <1>7
  <2>3. (m - 1) - 1 + 1 = m - 1 /\ n - (m + 1) + 1 = n - m
    BY <1>1, <1>7
  <2>4. \A k \in 1 .. m - 1 : 1 + k - 1 = k
    OBVIOUS
  <2>5. \A k \in 1 .. n - m : (m + 1) + k - 1 = m + k
    BY <1>7
  <2> HIDE DEF a, b
  <2> QED BY <2>1, <2>2, <2>3, <2>4, <2>5
<1> HIDE DEF a, b
<1>9. /\ a \in Seq(X) /\ Len(a) = m - 1 /\ b \in Seq(X) /\ Len(b) = n - m
  <2>1. \A k \in 1 .. m - 1 : s[k] \in X
    BY <1>1, <1>7
  <2>2. \A k \in 1 .. n - m : s[m + k] \in X
    BY <1>1, <1>7
  <2>3. m - 1 \in Nat /\ n - m \in Nat
    BY <1>1, <1>7
  <2>4. a \in [1 .. m - 1 -> X] /\ b \in [1 .. n - m -> X]
    BY <1>8, <2>1, <2>2
  <2>5. a \in Seq(X) /\ b \in Seq(X)
    BY <2>3, <2>4
  <2>6. DOMAIN a = 1 .. m - 1 /\ DOMAIN b = 1 .. n - m
    BY <1>8
  <2> QED BY <2>3, <2>5, <2>6
<1>10. a \o b = [k \in 1 .. n - 1 |-> IF k < m THEN s[k] ELSE s[k + 1]]
  <2> DEFINE u == a \o b
  <2>1. u \in Seq(X) /\ Len(u) = Len(a) + Len(b)
    BY <1>9, ConcatAt
  <2>2. /\ \A k \in 1 .. Len(a) : u[k] = a[k]
        /\ \A k \in 1 .. Len(b) : u[Len(a) + k] = b[k]
    BY <1>9, ConcatAt
  <2>3. Len(a) + Len(b) = n - 1
    BY <1>1, <1>7, <1>9
  <2> HIDE DEF u
  <2>4. ASSUME NEW k \in 1 .. n - 1 PROVE u[k] = IF k < m THEN s[k] ELSE s[k + 1]
    <3>1. CASE k < m
      <4>1. k \in 1 .. m - 1
        BY <1>1, <1>7, <3>1
      <4> QED BY <1>8, <1>9, <2>2, <3>1, <4>1
    <3>2. CASE ~(k < m)
      <4>1. k - (m - 1) \in 1 .. n - m /\ (m - 1) + (k - (m - 1)) = k /\ m + (k - (m - 1)) = k + 1
        BY <1>1, <1>7, <3>2
      <4>2. b[k - (m - 1)] = s[k + 1]
        BY <1>8, <4>1
      <4> QED BY <1>9, <2>2, <3>2, <4>1, <4>2
    <3> QED BY <3>1, <3>2
  <2>5. u = [k \in 1 .. n - 1 |-> u[k]]
    BY <2>1, <2>3
  <2> QED BY <2>4, <2>5 DEF u
<1>11. RemoveFirst(s, e) = Cut(s, m)
  BY <1>6, <1>10 DEF RemoveAt, a, b, Cut, n
<1> QED BY <1>1, <1>7, <1>11

LEMMA CutIs ==
  ASSUME NEW X, NEW s \in Seq(X), NEW m \in DOMAIN s
  PROVE  /\ Cut(s, m) \in Seq(X)
         /\ \A v : Times(Cut(s, m), v) = Times(s, v) - IF s[m] = v THEN 1 ELSE 0
<1> DEFINE n == Len(s)
           r == Cut(s, m)
<1>1. n \in Nat /\ m \in 1 .. n /\ DOMAIN s = 1 .. n /\ \A i \in 1 .. n : s[i] \in X
  BY ListIs
<1>2. r \in Seq(X) /\ DOMAIN r = 1 .. n - 1
  <2>1. \A k \in 1 .. n - 1 : (IF k < m THEN s[k] ELSE s[k + 1]) \in X
    BY <1>1
  <2>2. r \in [1 .. n - 1 -> X]
    BY <2>1 DEF Cut
  <2>3. n - 1 \in Nat
    BY <1>1
  <2> HIDE DEF r
  <2> QED BY <2>2, <2>3
<1>3. \A k \in 1 .. n - 1 : r[k] = s[IF k < m THEN k ELSE k + 1]
  BY DEF Cut
<1> HIDE DEF r
<1>4. ASSUME NEW v
      PROVE  Times(r, v) = Times(s, v) - IF s[m] = v THEN 1 ELSE 0
  <2> DEFINE A == Places(s, v)
             B == Places(r, v)
             f == [k \in B |-> IF k < m THEN k ELSE k + 1]
  <2>1. OneToOne(f, B, A \ {m})
    <3>1. \A k \in B : /\ k \in 1 .. n - 1
                       /\ (IF k < m THEN k ELSE k + 1) \in A \ {m}
      <4> TAKE k \in B
      <4>1. k \in 1 .. n - 1 /\ r[k] = v
        BY <1>2 DEF Places
      <4>2. (IF k < m THEN k ELSE k + 1) \in (1 .. n) \ {m}
        BY <1>1, <4>1
      <4>3. s[IF k < m THEN k ELSE k + 1] = v
        BY <1>3, <4>1
      <4> QED BY <1>1, <4>1, <4>2, <4>3 DEF Places
    <3>2. \A i \in A \ {m} : \E k \in B : (IF k < m THEN k ELSE k + 1) = i
      <4> TAKE i \in A \ {m}
      <4>1. i \in 1 .. n /\ s[i] = v /\ i # m
        BY <1>1 DEF Places
      <4> DEFINE k == IF i < m THEN i ELSE i - 1
      <4>2. k \in 1 .. n - 1 /\ (IF k < m THEN k ELSE k + 1) = i
        BY <1>1, <4>1
      <4> HIDE DEF k
      <4>3. r[k] = v
        BY <1>3, <4>1, <4>2
      <4> QED BY <1>2, <4>2, <4>3 DEF Places
    <3>3. f \in [B -> A \ {m}]
      BY <3>1
    <3>4. \A k \in B : f[k] = IF k < m THEN k ELSE k + 1
      OBVIOUS
    <3> HIDE DEF f, A, B
    <3>5. \A k, l \in B : f[k] = f[l] => k = l
      BY <1>1, <3>1, <3>4
    <3>6. \A i \in A \ {m} : \E k \in B : f[k] = i
      BY <3>2, <3>4
    <3> QED BY <3>3, <3>5, <3>6 DEF OneToOne
  <2>2. IsFiniteSet(A) /\ Times(s, v) = Cardinality(A) /\ Times(r, v) = Cardinality(B)
    BY <1>2, TimesIs
  <2>3. m \in A <=> s[m] = v
    BY <1>1 DEF Places
  <2> HIDE DEF A, B, f
  <2>4. IsFiniteSet(A \ {m}) /\ Cardinality(A \ {m}) = IF m \in A THEN Cardinality(A) - 1 ELSE Cardinality(A)
    BY <2>2, FS_RemoveElement
  <2>5. Cardinality(B) = Cardinality(A \ {m})
    BY <2>1, <2>4, SameCount
  <2>6. Cardinality(A) \in Nat
    BY <2>2, FS_CardinalityType
  <2> QED BY <2>2, <2>3, <2>4, <2>5, <2>6
<1> QED BY <1>2, <1>4 DEF r

LEMMA RemoveFirstIs ==
  ASSUME NEW X, NEW s \in Seq(X), NEW e \in ToSet(s)
  PROVE  /\ RemoveFirst(s, e) \in Seq(X)
         /\ \A v : Times(RemoveFirst(s, e), v) = Times(s, v) - IF e = v THEN 1 ELSE 0
<1>1. PICK m \in DOMAIN s : s[m] = e /\ RemoveFirst(s, e) = Cut(s, m)
  BY RemoveFirstCuts
<1> QED BY <1>1, CutIs

\* A list without repetitions has each entry once.
LEMMA OnceIs ==
  ASSUME NEW X, NEW s \in Seq(X)
  PROVE  DistinctEntries(s) <=> \A v \in ToSet(s) : Times(s, v) = 1
<1>1. ASSUME DistinctEntries(s), NEW v \in ToSet(s) PROVE Times(s, v) = 1
  <2>1. PICK i \in DOMAIN s : s[i] = v
    BY DEF ToSet
  <2>2. Places(s, v) = {i}
    BY <1>1, <2>1 DEF Places, DistinctEntries
  <2> QED BY <2>2, TimesIs, FS_Singleton
<1>2. ASSUME \A v \in ToSet(s) : Times(s, v) = 1, NEW i \in DOMAIN s, NEW j \in DOMAIN s, s[i] = s[j]
      PROVE  i = j
  <2>1. s[i] \in ToSet(s)
    BY DEF ToSet
  <2>2. Cardinality(Places(s, s[i])) = 1 /\ IsFiniteSet(Places(s, s[i]))
    BY <1>2, <2>1, TimesIs
  <2>3. PICK x : Places(s, s[i]) = {x}
    BY <2>2, FS_Singleton
  <2>4. i \in Places(s, s[i]) /\ j \in Places(s, s[i])
    BY <1>2 DEF Places
  <2> QED BY <2>3, <2>4
<1> QED BY <1>1, <1>2 DEF DistinctEntries

LEMMA RemoveFirstOnce ==
  ASSUME NEW X, NEW s \in Seq(X), NEW e \in ToSet(s), DistinctEntries(s)
  PROVE  /\ RemoveFirst(s, e) \in Seq(X) /\ DistinctEntries(RemoveFirst(s, e))
         /\ ToSet(RemoveFirst(s, e)) = ToSet(s) \ {e}
<1> DEFINE r == RemoveFirst(s, e)
<1>1. r \in Seq(X) /\ \A v : Times(r, v) = Times(s, v) - IF e = v THEN 1 ELSE 0
  BY RemoveFirstIs
<1> HIDE DEF r
<1>2. \A v : (Times(s, v) \in Nat /\ (Times(s, v) = 0 <=> v \notin ToSet(s))
              /\ (Times(r, v) = 0 <=> v \notin ToSet(r)))
  BY <1>1, TimesIs
<1>3. \A v \in ToSet(s) : Times(s, v) = 1
  BY OnceIs
<1>4. \A v : v \in ToSet(r) <=> v \in ToSet(s) /\ v # e
  <2> TAKE v
  <2>1. Times(r, v) = Times(s, v) - IF e = v THEN 1 ELSE 0
    BY <1>1
  <2>2. CASE e = v
    BY <1>2, <1>3, <2>1, <2>2
  <2>3. CASE e # v
    BY <1>2, <2>1, <2>3
  <2> QED BY <2>2, <2>3
<1>5. \A v \in ToSet(r) : Times(r, v) = 1
  BY <1>1, <1>2, <1>3, <1>4
<1> QED BY <1>1, <1>4, <1>5, OnceIs DEF r

\* The entries of a list at some places.
LEMMA EntriesIn ==
  ASSUME NEW X, NEW s \in Seq(X), NEW S \in SUBSET (DOMAIN s)
  PROVE  /\ Entries(s, S) \in Seq(X)
         /\ ToSet(Entries(s, S)) = {s[i] : i \in S}
         /\ (\A i, j \in S : s[i] = s[j] => i = j) => DistinctEntries(Entries(s, S))
<1> DEFINE e == Entries(s, S)
<1>1. Len(s) \in Nat /\ DOMAIN s = 1 .. Len(s) /\ \A i \in DOMAIN s : s[i] \in X
  BY ListIs
<1>2. Picks(e, s, S)
  BY <1>1, EntriesOnce
<1> HIDE DEF e
<1>3. PICK m \in Nat : \E at \in [1 .. m -> S] :
        /\ e = [k \in 1 .. m |-> s[at[k]]]
        /\ \A k, l \in 1 .. m : at[k] = at[l] => k = l
        /\ \A i \in S : \E k \in 1 .. m : at[k] = i
  BY <1>2 DEF Picks
<1>4. PICK at \in [1 .. m -> S] :
        /\ e = [k \in 1 .. m |-> s[at[k]]]
        /\ \A k, l \in 1 .. m : at[k] = at[l] => k = l
        /\ \A i \in S : \E k \in 1 .. m : at[k] = i
  BY <1>3
<1>5. DOMAIN e = 1 .. m /\ \A k \in 1 .. m : at[k] \in S /\ e[k] = s[at[k]]
  BY <1>4
<1>6. e \in Seq(X)
  <2>1. \A k \in 1 .. m : s[at[k]] \in X
    BY <1>1, <1>5
  <2>2. e \in [1 .. m -> X]
    BY <1>4, <2>1
  <2> QED BY <2>2
<1>7. ToSet(e) = {s[i] : i \in S}
  <2>1. \A k \in 1 .. m : e[k] \in {s[i] : i \in S}
    BY <1>5
  <2>2. \A i \in S : \E k \in 1 .. m : e[k] = s[i]
    BY <1>4, <1>5
  <2>3. ToSet(e) = {e[k] : k \in 1 .. m}
    BY <1>5 DEF ToSet
  <2>4. {e[k] : k \in 1 .. m} \subseteq {s[i] : i \in S}
    BY <2>1
  <2>5. {s[i] : i \in S} \subseteq {e[k] : k \in 1 .. m}
    BY <2>2
  <2> QED BY <2>3, <2>4, <2>5
<1>8. ASSUME \A i, j \in S : s[i] = s[j] => i = j, NEW k \in 1 .. m, NEW l \in 1 .. m, e[k] = e[l]
      PROVE  k = l
  <2>1. at[k] = at[l]
    BY <1>5, <1>8
  <2> QED BY <1>4, <2>1
<1> QED BY <1>5, <1>6, <1>7, <1>8 DEF DistinctEntries, e

LEMMA OutsideIs ==
  ASSUME NEW X, NEW s \in Seq(X), NEW S
  PROVE  /\ Outside(s, S) \in Seq(X)
         /\ ToSet(Outside(s, S)) = ToSet(s) \ S
         /\ DistinctEntries(s) => DistinctEntries(Outside(s, S))
<1> DEFINE P == {i \in DOMAIN s : s[i] \notin S}
<1>1. P \in SUBSET (DOMAIN s) /\ Outside(s, S) = Entries(s, P)
  BY DEF Outside
<1>2. {s[i] : i \in P} = ToSet(s) \ S
  BY DEF ToSet
<1>3. DistinctEntries(s) => \A i, j \in P : s[i] = s[j] => i = j
  BY DEF DistinctEntries
<1> HIDE DEF P
<1> QED BY <1>1, <1>2, <1>3, EntriesIn

LEMMA OnceEachIs ==
  ASSUME NEW X, NEW s \in Seq(X)
  PROVE  OnceEach(s) \in Seq(X) /\ ToSet(OnceEach(s)) = ToSet(s) /\ DistinctEntries(OnceEach(s))
<1> DEFINE P == {i \in DOMAIN s : \A j \in 1 .. i - 1 : s[j] # s[i]}
<1>1. P \in SUBSET (DOMAIN s) /\ OnceEach(s) = Entries(s, P)
  BY DEF OnceEach
<1>2. Len(s) \in Nat /\ DOMAIN s = 1 .. Len(s)
  BY ListIs
<1>3. ASSUME NEW i \in DOMAIN s PROVE \E j \in P : s[j] = s[i]
  <2> DEFINE Q == Places(s, s[i])
  <2>1. Q \in SUBSET Nat /\ Q # {}
    BY <1>2 DEF Places
  <2>2. PICK j \in Q : \A k \in Q : j <= k
    <3> HIDE DEF Q
    <3> QED BY <2>1, LeastElement
  <2>3. j \in DOMAIN s /\ s[j] = s[i]
    BY <2>2 DEF Places
  <2>4. \A k \in 1 .. j - 1 : s[k] # s[j]
    <3> TAKE k \in 1 .. j - 1
    <3>1. k \in DOMAIN s /\ ~(j <= k)
      BY <1>2, <2>3
    <3> QED BY <2>2, <2>3, <3>1 DEF Places
  <2> QED BY <2>3, <2>4
<1>4. {s[i] : i \in P} = ToSet(s)
  <2>1. \A i \in P : s[i] \in ToSet(s)
    BY DEF ToSet
  <2>2. \A v \in ToSet(s) : \E i \in DOMAIN s : v = s[i]
    BY DEF ToSet
  <2> HIDE DEF P
  <2> QED BY <1>3, <2>1, <2>2
<1>5. \A i, j \in P : s[i] = s[j] => i = j
  <2> SUFFICES ASSUME NEW i \in P, NEW j \in P, s[i] = s[j], i < j PROVE FALSE
    BY <1>2
  <2>1. i \in 1 .. j - 1
    BY <1>2
  <2> QED BY <2>1
<1> HIDE DEF P
<1>6. /\ Entries(s, P) \in Seq(X) /\ ToSet(Entries(s, P)) = {s[i] : i \in P}
      /\ DistinctEntries(Entries(s, P))
  BY <1>1, <1>5, EntriesIn
<1> QED BY <1>1, <1>4, <1>6, Zenon

LEMMA AppendIs ==
  ASSUME NEW X, NEW s \in Seq(X), NEW e \in X
  PROVE  /\ Append(s, e) \in Seq(X) /\ ToSet(Append(s, e)) = ToSet(s) \cup {e}
         /\ DistinctEntries(s) /\ e \notin ToSet(s) => DistinctEntries(Append(s, e))
         /\ DOMAIN Append(s, e) = 1 .. Len(s) + 1
         /\ \A i \in DOMAIN s : Append(s, e)[i] = s[i]
         /\ Append(s, e)[Len(s) + 1] = e
<1> DEFINE n == Len(s)
           t == Append(s, e)
<1>1. n \in Nat /\ DOMAIN s = 1 .. n
  BY ListIs
<1>2. t \in Seq(X) /\ DOMAIN t = 1 .. n + 1 /\ t[n + 1] = e
  OBVIOUS
<1>3. \A i \in 1 .. n : t[i] = s[i]
  OBVIOUS
<1> HIDE DEF t, n
<1>4. \A i \in 1 .. n + 1 : i \in 1 .. n \/ i = n + 1
  BY <1>1
<1>5. n + 1 \in 1 .. n + 1 /\ \A i \in 1 .. n : i \in 1 .. n + 1
  BY <1>1
<1>6. ToSet(t) = ToSet(s) \cup {e}
  BY <1>1, <1>2, <1>3, <1>4, <1>5 DEF ToSet
<1>7. ASSUME DistinctEntries(s), e \notin ToSet(s) PROVE DistinctEntries(t)
  <2>1. \A i \in 1 .. n : s[i] # e
    BY <1>1, <1>7 DEF ToSet
  <2>2. \A i, j \in 1 .. n : s[i] = s[j] => i = j
    BY <1>1, <1>7 DEF DistinctEntries
  <2> QED BY <1>2, <1>3, <1>4, <2>1, <2>2 DEF DistinctEntries
<1> QED BY <1>1, <1>2, <1>3, <1>6, <1>7 DEF t, n

LEMMA ConcatIs ==
  ASSUME NEW X, NEW s \in Seq(X), NEW t \in Seq(X)
  PROVE  /\ s \o t \in Seq(X) /\ ToSet(s \o t) = ToSet(s) \cup ToSet(t)
         /\ DistinctEntries(s) /\ DistinctEntries(t) /\ ToSet(s) \cap ToSet(t) = {} =>
              DistinctEntries(s \o t)
<1> DEFINE u == s \o t
           Counts(l, v) == Times(l, v) \in Nat /\ (Times(l, v) = 0 <=> v \notin ToSet(l))
<1>1. u \in Seq(X)
  OBVIOUS
<1>2. \A v : /\ Times(u, v) = Times(s, v) + Times(t, v)
             /\ Times(u, v) \in Nat /\ Times(s, v) \in Nat /\ Times(t, v) \in Nat
             /\ Times(u, v) = 0 <=> v \notin ToSet(u)
             /\ Times(s, v) = 0 <=> v \notin ToSet(s)
             /\ Times(t, v) = 0 <=> v \notin ToSet(t)
  <2> TAKE v
  <2>1. Times(u, v) = Times(s, v) + Times(t, v)
    BY TimesOfConcat
  <2>2. \A l \in Seq(X) : Counts(l, v)
    BY TimesIs
  <2> HIDE DEF u
  <2>3. Counts(u, v) /\ Counts(s, v) /\ Counts(t, v)
    BY <1>1, <2>2, Zenon
  <2> QED BY <2>1, <2>3
<1> HIDE DEF u
<1>3. ToSet(u) = ToSet(s) \cup ToSet(t)
  <2>1. \A v : v \in ToSet(u) <=> v \in ToSet(s) \/ v \in ToSet(t)
    BY <1>2
  <2> QED BY <2>1
<1>4. ASSUME DistinctEntries(s), DistinctEntries(t), ToSet(s) \cap ToSet(t) = {}
      PROVE  DistinctEntries(u)
  <2>1. \A v \in ToSet(s) : Times(s, v) = 1
    BY <1>4, OnceIs
  <2>2. \A v \in ToSet(t) : Times(t, v) = 1
    BY <1>4, OnceIs
  <2>3. \A v \in ToSet(u) : Times(u, v) = 1
    BY <1>2, <1>3, <1>4, <2>1, <2>2
  <2> QED BY <1>1, <2>3, OnceIs
<1> QED BY <1>1, <1>3, <1>4 DEF u
-----------------------------------------------------------------------------
(***************************************************************************)
(* Join keeps a DAG well formed and without cycles.                        *)
(***************************************************************************)
EmptyIn(d, v) == d.parent[v] = <<>>

\* What Join does, part by part.
JoinedBy(d, j, p, cs) ==
  /\ Ids(j) = Ids(d) \cup ToSet(cs) \cup {p}
  /\ j.child[p] = cs
  /\ \A v \in Ids(d) : j.child[v] = d.child[v]
  /\ \A v \in ToSet(cs) \ Ids(d) : j.child[v] = <<>>
  /\ \A v \in Ids(j) : \A q : Times(j.parent[v], q) =
       (IF v \in Ids(d) THEN Times(d.parent[v], q) ELSE 0) + (IF q = p THEN Times(cs, v) ELSE 0)
  /\ \A v \in Ids(j) : EmptyIn(j, v) <=> (v \in Ids(d) => EmptyIn(d, v)) /\ v \notin ToSet(cs)
  /\ DistinctEntries(d.headers) => DistinctEntries(j.headers)
  /\ ToSet(j.headers) = (ToSet(d.headers) \ ToSet(cs)) \cup {p}
  /\ DistinctEntries(d.leaves) /\ ToSet(d.leaves) \subseteq Ids(d) => DistinctEntries(j.leaves)
  /\ ToSet(j.leaves) = ToSet(d.leaves) \cup (ToSet(cs) \ Ids(d))
  /\ j.type[p] = "root"
  /\ \A v \in Ids(d) : j.type[v] = IF v \in ToSet(d.headers) /\ v \in ToSet(cs)
                                     THEN "intermediate" ELSE d.type[v]
  /\ \A v \in ToSet(cs) \ Ids(d) : j.type[v] = "leaf"

LEMMA ShapeIs ==
  ASSUME NEW d, Shaped(d)
  PROVE  /\ Ids(d) \in SUBSET Int /\ IsFiniteSet(Ids(d)) /\ DOMAIN d.child = Ids(d)
         /\ \A v \in Ids(d) : /\ d.child[v] \in Seq(Ids(d)) /\ d.parent[v] \in Seq(Ids(d))
                              /\ d.coefs[v] \in Seq(Int) /\ d.type[v] \in Types
         /\ d.headers \in Seq(Ids(d)) /\ d.leaves \in Seq(Ids(d)) /\ d.concacts \in Seq(Int)
BY DEF Shaped, DagsOn, Ids

LEMMA WiderSeq ==
  ASSUME NEW X, NEW Y, X \subseteq Y, NEW s \in Seq(X)
  PROVE  s \in Seq(Y)
<1>1. s \in [1 .. Len(s) -> Y] /\ Len(s) \in Nat
  OBVIOUS
<1> QED BY <1>1

LEMMA RangeSeq ==
  ASSUME NEW X, NEW s \in Seq(X)
  PROVE  s \in Seq(ToSet(s))
<1>1. Len(s) \in Nat /\ s = [i \in 1 .. Len(s) |-> s[i]] /\ DOMAIN s = 1 .. Len(s)
  OBVIOUS
<1>2. \A i \in 1 .. Len(s) : s[i] \in ToSet(s)
  BY <1>1 DEF ToSet
<1>3. s \in [1 .. Len(s) -> ToSet(s)]
  BY <1>1, <1>2
<1> QED BY <1>1, <1>3

LEMMA RangeFinite ==
  ASSUME NEW X, NEW s \in Seq(X)
  PROVE  IsFiniteSet(ToSet(s))
<1>1. Len(s) \in Nat /\ DOMAIN s = 1 .. Len(s)
  BY ListIs
<1>2. IsFiniteSet(1 .. Len(s))
  BY <1>1, FS_Interval
<1> DEFINE f == [i \in 1 .. Len(s) |-> s[i]]
<1>3. f \in Surjection(1 .. Len(s), ToSet(s))
  BY <1>1 DEF Surjection, ToSet
<1> HIDE DEF f
<1> QED BY <1>2, <1>3, FS_Surjection

LEMMA RepeatedIs ==
  ASSUME NEW n \in Nat, NEW p, NEW X, p \in X
  PROVE  [i \in 1 .. n |-> p] \in Seq(X) /\ (n = 0 <=> [i \in 1 .. n |-> p] = <<>>)
<1> DEFINE s == [i \in 1 .. n |-> p]
<1>1. s \in Seq(X) /\ DOMAIN s = 1 .. n
  <2>1. s \in [1 .. n -> X]
    OBVIOUS
  <2> QED BY <2>1
<1>2. Len(s) = n
  BY <1>1
<1> HIDE DEF s
<1>3. s = <<>> <=> n = 0
  BY <1>1, <1>2, ListIs
<1> QED BY <1>1, <1>3 DEF s

LEMMA JoinIs ==
  ASSUME NEW d, Shaped(d), NEW p \in Int, NEW cs \in Seq(Int), cs # <<>>, JoinAllowed(d, p, cs),
         NEW coefs \in Seq(Int), NEW j, j = Join(d, p, cs, coefs)
  PROVE  Shaped(j) /\ JoinedBy(d, j, p, cs)
<1> DEFINE I == Ids(d)
           J == I \cup ToSet(cs) \cup {p}
           Old(f, v, none) == IF v \in I THEN f[v] ELSE none
           child == [v \in J |-> IF v = p THEN cs ELSE Old(d.child, v, <<>>)]
           cof == [v \in J |-> IF v = p THEN coefs ELSE Old(d.coefs, v, <<>>)]
           more(v) == [i \in 1 .. Times(cs, v) |-> p]
           parent == [v \in J |-> Old(d.parent, v, <<>>) \o more(v)]
           type == [v \in J |-> CASE v = p -> "root"
                                  [] Contains(d.headers, v) /\ Contains(cs, v) -> "intermediate"
                                  [] OTHER -> Old(d.type, v, "leaf")]
           headers == Append(Outside(d.headers, ToSet(cs)), p)
           leaves == d.leaves \o Outside(OnceEach(cs), I)
<1>1. /\ j.child = child /\ j.coefs = cof /\ j.parent = parent /\ j.type = type
      /\ j.headers = headers /\ j.leaves = leaves /\ j.concacts = d.concacts
      /\ j = [child |-> j.child, coefs |-> j.coefs, parent |-> j.parent, type |-> j.type,
              headers |-> j.headers, leaves |-> j.leaves, concacts |-> j.concacts]
  <2>1. d = [child |-> d.child, coefs |-> d.coefs, parent |-> d.parent, type |-> d.type,
             headers |-> d.headers, leaves |-> d.leaves, concacts |-> d.concacts]
    BY DEF Shaped, DagsOn
  <2>2. j = [d EXCEPT !.child = child, !.coefs = cof, !.parent = parent, !.type = type,
                      !.headers = headers, !.leaves = leaves]
    BY DEF Join
  <2> HIDE DEF child, cof, parent, type, headers, leaves
  <2> QED BY <2>1, <2>2
<1> HIDE DEF child, cof, parent, type, headers, leaves
<1>2. /\ I \in SUBSET Int /\ IsFiniteSet(I)
      /\ \A v \in I : /\ d.child[v] \in Seq(I) /\ d.parent[v] \in Seq(I)
                      /\ d.coefs[v] \in Seq(Int) /\ d.type[v] \in Types
      /\ d.headers \in Seq(I) /\ d.leaves \in Seq(I) /\ d.concacts \in Seq(Int)
  BY ShapeIs
<1>3. ToSet(cs) \in SUBSET Int /\ IsFiniteSet(ToSet(cs)) /\ cs \in Seq(ToSet(cs))
  BY ListIs, RangeFinite, RangeSeq
<1>4. p \notin I /\ p \notin ToSet(cs)
  BY DEF JoinAllowed
<1>5. J \in SUBSET Int /\ IsFiniteSet(J) /\ I \subseteq J /\ ToSet(cs) \subseteq J /\ p \in J
  <2>1. IsFiniteSet(I \cup ToSet(cs))
    BY <1>2, <1>3, FS_Union
  <2>2. IsFiniteSet(J)
    BY <2>1, FS_AddElement
  <2> QED BY <1>2, <1>3, <2>2
<1> HIDE DEF I, J
<1>6. <<>> \in Seq(J) /\ <<>> \in Seq(Int) /\ cs \in Seq(J) /\ \A s \in Seq(I) : s \in Seq(J)
  <2>1. \A X \in SUBSET J : \A s \in Seq(X) : s \in Seq(J)
    BY WiderSeq
  <2>2. <<>> \in Seq(J) /\ <<>> \in Seq(Int)
    OBVIOUS
  <2> QED BY <1>3, <1>5, <2>1, <2>2, Zenon
<1>7. Ids(j) = J
  BY <1>1 DEF Ids, child
<1>8. child \in [J -> Seq(J)]
  BY <1>2, <1>6 DEF child
<1>9. cof \in [J -> Seq(Int)]
  BY <1>2, <1>6 DEF cof
<1>10. \A v : /\ Times(cs, v) \in Nat /\ more(v) \in Seq(J)
              /\ more(v) = <<>> <=> v \notin ToSet(cs)
              /\ \A q : Times(more(v), q) = IF q = p THEN Times(cs, v) ELSE 0
  <2> TAKE v
  <2>1. Times(cs, v) \in Nat /\ (Times(cs, v) = 0 <=> v \notin ToSet(cs))
    BY TimesIs
  <2>2. more(v) \in Seq(J) /\ (Times(cs, v) = 0 <=> more(v) = <<>>)
    BY <1>5, <2>1, RepeatedIs
  <2>3. \A q : Times(more(v), q) = IF q = p THEN Times(cs, v) ELSE 0
    BY <2>1, TimesRepeated
  <2> QED BY <2>1, <2>2, <2>3
<1> HIDE DEF more
<1>11. ASSUME NEW v \in J
       PROVE  /\ parent[v] \in Seq(J)
              /\ \A q : Times(parent[v], q) =
                   (IF v \in I THEN Times(d.parent[v], q) ELSE 0) + (IF q = p THEN Times(cs, v) ELSE 0)
              /\ parent[v] = <<>> <=> (v \in I => d.parent[v] = <<>>) /\ v \notin ToSet(cs)
  <2> DEFINE a == Old(d.parent, v, <<>>)
             b == more(v)
  <2>1. a \in Seq(J) /\ b \in Seq(J) /\ parent[v] = a \o b
    BY <1>2, <1>6, <1>10 DEF parent
  <2>2. \A q : Times(<<>>, q) = 0
    <3> TAKE q
    <3>1. <<>> \in Seq(Int) /\ q \notin ToSet(<<>>)
      BY DEF ToSet
    <3> QED BY <3>1, TimesIs
  <2>3. \A q : Times(a, q) = IF v \in I THEN Times(d.parent[v], q) ELSE 0
    BY <2>2
  <2>4. a = <<>> <=> (v \in I => d.parent[v] = <<>>)
    OBVIOUS
  <2> HIDE DEF a, b
  <2>5. a \o b \in Seq(J) /\ \A q : Times(a \o b, q) = Times(a, q) + Times(b, q)
    BY <2>1, TimesOfConcat
  <2>6. a \o b = <<>> <=> a = <<>> /\ b = <<>>
    BY <2>1
  <2>7. /\ b = <<>> <=> v \notin ToSet(cs)
        /\ \A q : Times(b, q) = IF q = p THEN Times(cs, v) ELSE 0
    BY <1>10 DEF b
  <2> QED BY <2>1, <2>3, <2>4, <2>5, <2>6, <2>7
<1>12. parent \in [J -> Seq(J)]
  <2>1. parent = [v \in J |-> parent[v]]
    BY DEF parent
  <2> QED BY <1>11, <2>1
<1>13. /\ type \in [J -> Types] /\ type[p] = "root"
       /\ \A v \in I : type[v] = IF v \in ToSet(d.headers) /\ v \in ToSet(cs)
                                   THEN "intermediate" ELSE d.type[v]
       /\ \A v \in ToSet(cs) \ I : type[v] = "leaf"
  <2>1. \A v : (Contains(d.headers, v) <=> v \in ToSet(d.headers))
    BY <1>2, ContainsIs
  <2>2. \A v : (Contains(cs, v) <=> v \in ToSet(cs))
    BY ContainsIs
  <2>3. ToSet(d.headers) \subseteq I
    BY <1>2, ListIs
  <2> DEFINE t(v) == CASE v = p -> "root"
                       [] Contains(d.headers, v) /\ Contains(cs, v) -> "intermediate"
                       [] OTHER -> Old(d.type, v, "leaf")
             u(v) == IF v = p THEN "root"
                     ELSE IF v \in ToSet(d.headers) /\ v \in ToSet(cs) THEN "intermediate"
                     ELSE IF v \in I THEN d.type[v] ELSE "leaf"
  <2>4. \A v \in J : type[v] = t(v)
    BY DEF type
  <2>5. ASSUME NEW v \in J PROVE t(v) = u(v)
    <3>1. CASE v = p
      <4>1. ~(Contains(d.headers, v) /\ Contains(cs, v))
        BY <1>4, <2>2, <3>1
      <4> QED BY <3>1, <4>1
    <3>2. CASE v # p
      BY <2>1, <2>2, <3>2
    <3> QED BY <3>1, <3>2
  <2> HIDE DEF t
  <2>6. type = [v \in J |-> type[v]]
    BY DEF type
  <2>7. type = [v \in J |-> u(v)]
    BY <2>4, <2>5, <2>6
  <2> HIDE DEF type
  <2> QED BY <1>2, <1>4, <1>5, <2>3, <2>7 DEF Types
<1>14. /\ headers \in Seq(J)
       /\ ToSet(headers) = (ToSet(d.headers) \ ToSet(cs)) \cup {p}
       /\ DistinctEntries(d.headers) => DistinctEntries(headers)
  <2> DEFINE h == Outside(d.headers, ToSet(cs))
  <2>1. /\ h \in Seq(I) /\ ToSet(h) = ToSet(d.headers) \ ToSet(cs)
        /\ DistinctEntries(d.headers) => DistinctEntries(h)
    BY <1>2, OutsideIs
  <2>2. ToSet(h) \subseteq I
    BY <2>1, ListIs
  <2> HIDE DEF h
  <2>3. h \in Seq(J) /\ p \notin ToSet(h)
    BY <1>4, <1>6, <2>1, <2>2 DEF I
  <2>4. /\ Append(h, p) \in Seq(J) /\ ToSet(Append(h, p)) = ToSet(h) \cup {p}
        /\ DistinctEntries(h) => DistinctEntries(Append(h, p))
    BY <1>5, <2>3, AppendIs
  <2>5. headers = Append(h, p)
    BY DEF headers, h
  <2> QED BY <2>1, <2>4, <2>5
<1>15. /\ leaves \in Seq(J)
       /\ ToSet(leaves) = ToSet(d.leaves) \cup (ToSet(cs) \ I)
       /\ DistinctEntries(d.leaves) => DistinctEntries(leaves)
  <2> DEFINE o == OnceEach(cs)
             h == Outside(o, I)
  <2>1. o \in Seq(ToSet(cs)) /\ ToSet(o) = ToSet(cs) /\ DistinctEntries(o)
    BY <1>3, OnceEachIs
  <2> HIDE DEF o
  <2>2. h \in Seq(ToSet(cs)) /\ ToSet(h) = ToSet(cs) \ I /\ DistinctEntries(h)
    BY <2>1, OutsideIs
  <2> HIDE DEF h
  <2>3. h \in Seq(J) /\ d.leaves \in Seq(J)
    BY <1>2, <1>5, <1>6, <2>2, WiderSeq
  <2>4. ToSet(d.leaves) \subseteq I
    BY <1>2, ListIs
  <2>5. /\ d.leaves \o h \in Seq(J) /\ ToSet(d.leaves \o h) = ToSet(d.leaves) \cup ToSet(h)
        /\ DistinctEntries(d.leaves) => DistinctEntries(d.leaves \o h)
    <3>1. ToSet(d.leaves) \cap ToSet(h) = {}
      BY <2>2, <2>4
    <3> QED BY <2>2, <2>3, <3>1, ConcatIs
  <2>6. leaves = d.leaves \o h
    BY DEF leaves, h, o
  <2> QED BY <2>2, <2>5, <2>6
<1>16. Shaped(j)
  <2>1. j \in DagsOn(J)
    BY <1>1, <1>2, <1>8, <1>9, <1>12, <1>13, <1>14, <1>15 DEF DagsOn
  <2> QED BY <1>5, <1>7, <2>1 DEF Shaped
<1>17. JoinedBy(d, j, p, cs)
  <2>1. /\ child[p] = cs
        /\ \A v \in I : child[v] = d.child[v]
        /\ \A v \in ToSet(cs) \ I : child[v] = <<>>
    BY <1>4, <1>5 DEF child, I
  <2>2. p \notin I
    BY <1>4
  <2>3. /\ j.child[p] = cs
        /\ \A v \in I : j.child[v] = d.child[v]
        /\ \A v \in ToSet(cs) \ I : j.child[v] = <<>>
    BY <1>1, <2>1
  <2>4. /\ \A v \in J : \A q : Times(j.parent[v], q) =
             (IF v \in I THEN Times(d.parent[v], q) ELSE 0) + (IF q = p THEN Times(cs, v) ELSE 0)
        /\ \A v \in J : EmptyIn(j, v) <=> (v \in I => EmptyIn(d, v)) /\ v \notin ToSet(cs)
    BY <1>1, <1>11 DEF EmptyIn
  <2>5. /\ DistinctEntries(d.headers) => DistinctEntries(j.headers)
        /\ ToSet(j.headers) = (ToSet(d.headers) \ ToSet(cs)) \cup {p}
        /\ ToSet(j.leaves) = ToSet(d.leaves) \cup (ToSet(cs) \ I)
        /\ DistinctEntries(d.leaves) /\ ToSet(d.leaves) \subseteq I => DistinctEntries(j.leaves)
    BY <1>1, <1>14, <1>15
  <2>6. /\ j.type[p] = "root"
        /\ \A v \in I : j.type[v] = IF v \in ToSet(d.headers) /\ v \in ToSet(cs)
                                     THEN "intermediate" ELSE d.type[v]
        /\ \A v \in ToSet(cs) \ I : j.type[v] = "leaf"
    BY <1>1, <1>13, <2>2
  <2>7. J = I \cup ToSet(cs) \cup {p}
    BY DEF J
  <2>8. Ids(d) = I
    BY DEF I
  <2>9. Ids(j) = Ids(d) \cup ToSet(cs) \cup {p}
    BY <1>7, <2>7, <2>8
  <2>10. /\ \A v \in Ids(d) : j.child[v] = d.child[v]
         /\ \A v \in ToSet(cs) \ Ids(d) : j.child[v] = <<>>
    BY <2>3, <2>8
  <2>11. \A v \in Ids(j) : \A q : Times(j.parent[v], q) =
            (IF v \in Ids(d) THEN Times(d.parent[v], q) ELSE 0) + (IF q = p THEN Times(cs, v) ELSE 0)
    BY <1>7, <2>4, <2>8
  <2>12. \A v \in Ids(j) : EmptyIn(j, v) <=> (v \in Ids(d) => EmptyIn(d, v)) /\ v \notin ToSet(cs)
    BY <1>7, <2>4, <2>8
  <2>13. /\ ToSet(j.leaves) = ToSet(d.leaves) \cup (ToSet(cs) \ Ids(d))
         /\ DistinctEntries(d.leaves) /\ ToSet(d.leaves) \subseteq Ids(d) => DistinctEntries(j.leaves)
    BY <2>5, <2>8
  <2>14. /\ \A v \in Ids(d) : j.type[v] = IF v \in ToSet(d.headers) /\ v \in ToSet(cs)
                                         THEN "intermediate" ELSE d.type[v]
         /\ \A v \in ToSet(cs) \ Ids(d) : j.type[v] = "leaf"
    BY <2>6, <2>8
  <2> QED BY <2>3, <2>5, <2>6, <2>9, <2>10, <2>11, <2>12, <2>13, <2>14 DEF JoinedBy
<1> QED BY <1>16, <1>17

LEMMA EmptyTimes ==
  ASSUME NEW v
  PROVE  Times(<<>>, v) = 0 /\ ToSet(<<>>) = {}
<1>1. <<>> \in Seq(Int) /\ ToSet(<<>>) = {}
  BY DEF ToSet
<1> QED BY <1>1, TimesIs

\* The lists of children of the new DAG.
LEMMA ChildrenJoined ==
  ASSUME NEW d, NEW j, NEW p, NEW cs, JoinedBy(d, j, p, cs), Shaped(d), JoinAllowed(d, p, cs)
  PROVE  /\ Ids(j) = Ids(d) \cup ToSet(cs) \cup {p} /\ p \notin Ids(d) /\ p \notin ToSet(cs)
         /\ ToSet(j.child[p]) = ToSet(cs)
         /\ \A v \in Ids(d) : ToSet(j.child[v]) = ToSet(d.child[v]) /\ ToSet(d.child[v]) \subseteq Ids(d)
         /\ \A v \in ToSet(cs) \ Ids(d) : ToSet(j.child[v]) = {}
<1>1. p \notin Ids(d) /\ p \notin ToSet(cs)
  BY DEF JoinAllowed
<1>2. \A v \in Ids(d) : d.child[v] \in Seq(Ids(d))
  BY ShapeIs
<1>3. \A v \in Ids(d) : ToSet(d.child[v]) \subseteq Ids(d)
  BY <1>2, ListIs
<1>4. \A v \in ToSet(cs) \ Ids(d) : ToSet(j.child[v]) = {}
  BY EmptyTimes DEF JoinedBy
<1>5. /\ Ids(j) = Ids(d) \cup ToSet(cs) \cup {p} /\ j.child[p] = cs
      /\ \A v \in Ids(d) : j.child[v] = d.child[v]
  BY DEF JoinedBy
<1> QED BY <1>1, <1>3, <1>4, <1>5

LEMMA JoinGrounded ==
  ASSUME NEW d, NEW j, NEW p, NEW cs, JoinedBy(d, j, p, cs), Shaped(d), JoinAllowed(d, p, cs),
         Grounded(d), Topped(d)
  PROVE  Grounded(j) /\ Topped(j)
<1> DEFINE I == Ids(d)
           C == ToSet(cs)
           Old(v) == ToSet(d.child[v])
           New(v) == ToSet(j.child[v])
<1>1. /\ Ids(j) = I \cup C \cup {p} /\ p \notin I /\ p \notin C
      /\ New(p) = C
      /\ \A v \in I : New(v) = Old(v) /\ Old(v) \subseteq I
      /\ \A v \in C \ I : New(v) = {}
  BY ChildrenJoined
<1>2. \A S \in SUBSET I : S # {} => \E v \in S : Old(v) \cap S = {}
  BY DEF Grounded
<1>3. \A S \in SUBSET I : S # {} => \E v \in S : \A u \in S : v \notin Old(u)
  BY DEF Topped
<1> HIDE DEF I, C, Old, New
<1>4. ASSUME NEW S \in SUBSET (I \cup C \cup {p}), S # {}
      PROVE  \E v \in S : New(v) \cap S = {}
  <2>1. CASE S \cap I # {}
    <3>1. PICK v \in S \cap I : Old(v) \cap (S \cap I) = {}
      BY <1>2, <2>1
    <3>2. New(v) \cap S = {}
      BY <1>1, <3>1
    <3> QED BY <3>1, <3>2
  <2>2. CASE S \cap I = {} /\ S \cap C # {}
    <3>1. PICK v \in S : v \in C \ I
      BY <2>2
    <3> QED BY <1>1, <3>1
  <2>3. CASE S \cap I = {} /\ S \cap C = {}
    <3>1. p \in S
      BY <1>4, <2>3
    <3> QED BY <1>1, <2>3, <3>1
  <2> QED BY <2>1, <2>2, <2>3
<1>5. ASSUME NEW S \in SUBSET (I \cup C \cup {p}), S # {}
      PROVE  \E v \in S : \A u \in S : v \notin New(u)
  <2>1. CASE p \in S
    <3>1. \A u \in S : p \notin New(u)
      BY <1>1
    <3> QED BY <2>1, <3>1
  <2>2. CASE p \notin S /\ S \cap I # {}
    <3>1. PICK v \in S \cap I : \A u \in S \cap I : v \notin Old(u)
      BY <1>3, <2>2
    <3>2. \A u \in S : v \notin New(u)
      BY <1>1, <2>2, <3>1
    <3> QED BY <3>1, <3>2
  <2>3. CASE p \notin S /\ S \cap I = {}
    <3>1. \A u \in S : New(u) = {}
      BY <1>1, <2>3
    <3> QED BY <1>5, <3>1
  <2> QED BY <2>1, <2>2, <2>3
<1>6. Grounded(j)
  BY <1>1, <1>4 DEF Grounded, New
<1>7. Topped(j)
  BY <1>1, <1>5 DEF Topped, New
<1> QED BY <1>6, <1>7

LEMMA JoinUses ==
  ASSUME NEW d, NEW j, NEW p, NEW cs, JoinedBy(d, j, p, cs), Shaped(d), Shaped(j),
         JoinAllowed(d, p, cs), UsesRecorded(d)
  PROVE  UsesRecorded(j)
<1> SUFFICES ASSUME NEW v \in Ids(j), NEW q \in Ids(j)
             PROVE  Times(j.parent[v], q) = Times(j.child[q], v)
  BY DEF UsesRecorded
<1>1. Times(j.parent[v], q) =
        (IF v \in Ids(d) THEN Times(d.parent[v], q) ELSE 0) + (IF q = p THEN Times(cs, v) ELSE 0)
  BY DEF JoinedBy
<1>2. /\ Ids(j) = Ids(d) \cup ToSet(cs) \cup {p} /\ p \notin Ids(d) /\ p \notin ToSet(cs)
      /\ \A u \in Ids(d) : ToSet(d.child[u]) \subseteq Ids(d)
  BY ChildrenJoined
<1>3. /\ j.child[p] = cs
      /\ \A u \in Ids(d) : j.child[u] = d.child[u]
      /\ \A u \in ToSet(cs) \ Ids(d) : j.child[u] = <<>>
  BY DEF JoinedBy
<1>4. \A u \in Ids(d) : d.child[u] \in Seq(Ids(d)) /\ d.parent[u] \in Seq(Ids(d))
  BY ShapeIs
<1>5. \A u \in Ids(d) : ToSet(d.parent[u]) \subseteq Ids(d)
  BY <1>4, ListIs
<1>6. \A u \in Ids(d) : \A w : /\ Times(d.parent[u], w) \in Nat
                               /\ w \notin ToSet(d.parent[u]) => Times(d.parent[u], w) = 0
  BY <1>4, TimesIs
<1>7. \A u \in Ids(d) : \A w : w \notin ToSet(d.child[u]) => Times(d.child[u], w) = 0
  BY <1>4, TimesIs
<1>8. Times(cs, v) \in Nat
  <2>1. j.child[p] \in Seq(Ids(j))
    BY <1>2, ShapeIs
  <2> QED BY <1>3, <2>1, TimesIs
<1>9. CASE q = p
  <2>1. v \in Ids(d) => Times(d.parent[v], p) = 0
    BY <1>2, <1>5, <1>6
  <2> QED BY <1>1, <1>3, <1>8, <1>9, <2>1
<1>10. CASE q \in Ids(d)
  <2>1. q # p
    BY <1>2, <1>10
  <2>2. CASE v \in Ids(d)
    <3>1. Times(d.parent[v], q) = Times(d.child[q], v)
      BY <1>10, <2>2 DEF UsesRecorded
    <3>2. Times(d.parent[v], q) \in Nat
      BY <1>6, <2>2
    <3>3. j.child[q] = d.child[q]
      BY <1>3, <1>10
    <3>4. Times(j.parent[v], q) = Times(d.parent[v], q) + 0
      BY <1>1, <2>1, <2>2
    <3> QED BY <3>1, <3>2, <3>3, <3>4
  <2>3. CASE v \notin Ids(d)
    <3>1. Times(d.child[q], v) = 0
      BY <1>2, <1>7, <1>10, <2>3
    <3> QED BY <1>1, <1>3, <1>10, <2>1, <2>3, <3>1
  <2> QED BY <2>2, <2>3
<1>11. CASE q \in ToSet(cs) \ Ids(d)
  <2>1. Times(j.child[q], v) = 0 /\ q # p
    BY <1>2, <1>3, <1>11, EmptyTimes
  <2>2. v \in Ids(d) => Times(d.parent[v], q) = 0
    BY <1>5, <1>6, <1>11
  <2> QED BY <1>1, <2>1, <2>2
<1> QED BY <1>2, <1>9, <1>10, <1>11

LEMMA JoinLists ==
  ASSUME NEW d, NEW j, NEW p, NEW cs, cs # <<>>, JoinedBy(d, j, p, cs), Shaped(d), Shaped(j),
         JoinAllowed(d, p, cs), ListsAgree(d), Needed(d)
  PROVE  ListsAgree(j) /\ Needed(j)
<1> DEFINE I == Ids(d)
           C == ToSet(cs)
<1>1. /\ Ids(j) = I \cup C \cup {p} /\ p \notin I /\ p \notin C
      /\ j.child[p] = cs
      /\ \A v \in I : j.child[v] = d.child[v]
      /\ \A v \in C \ I : j.child[v] = <<>>
  BY DEF JoinedBy, JoinAllowed
<1>2. \A v \in Ids(j) : j.parent[v] = <<>> <=> (v \in I => d.parent[v] = <<>>) /\ v \notin C
  BY DEF JoinedBy, EmptyIn
<1>3. /\ DistinctEntries(d.headers) /\ DistinctEntries(d.leaves)
      /\ ToSet(d.headers) = {v \in I : d.parent[v] = <<>>}
      /\ ToSet(d.leaves) = {v \in I : d.child[v] = <<>>}
      /\ \A v \in I : d.type[v] = IF d.parent[v] = <<>> THEN "root"
                                  ELSE IF d.child[v] = <<>> THEN "leaf" ELSE "intermediate"
      /\ \A v \in I : d.child[v] # <<>> \/ d.parent[v] # <<>>
  BY DEF ListsAgree, Needed
<1>4. /\ DistinctEntries(j.headers) /\ DistinctEntries(j.leaves)
      /\ ToSet(j.headers) = (ToSet(d.headers) \ C) \cup {p}
      /\ ToSet(j.leaves) = ToSet(d.leaves) \cup (C \ I)
      /\ j.type[p] = "root"
      /\ \A v \in I : j.type[v] = IF v \in ToSet(d.headers) /\ v \in C
                                    THEN "intermediate" ELSE d.type[v]
      /\ \A v \in C \ I : j.type[v] = "leaf"
  BY <1>3 DEF JoinedBy
<1> HIDE DEF I, C
<1>5. \A v : v \in ToSet(j.headers) <=> v \in Ids(j) /\ j.parent[v] = <<>>
  BY <1>1, <1>2, <1>3, <1>4
<1>6. \A v : v \in ToSet(j.leaves) <=> v \in Ids(j) /\ j.child[v] = <<>>
  BY <1>1, <1>3, <1>4
<1>7. \A v \in Ids(j) : j.child[v] # <<>> \/ j.parent[v] # <<>>
  BY <1>1, <1>2, <1>3
<1>8. ASSUME NEW v \in Ids(j)
      PROVE  j.type[v] = IF j.parent[v] = <<>> THEN "root"
                         ELSE IF j.child[v] = <<>> THEN "leaf" ELSE "intermediate"
  <2>1. CASE v = p
    BY <1>1, <1>2, <1>4, <2>1
  <2>2. CASE v \in C \ I
    BY <1>1, <1>2, <1>4, <2>2
  <2>3. CASE v \in I
    BY <1>1, <1>2, <1>3, <1>4, <2>3
  <2> QED BY <1>1, <2>1, <2>2, <2>3
<1>9. /\ ToSet(j.headers) = {v \in Ids(j) : j.parent[v] = <<>>}
      /\ ToSet(j.leaves) = {v \in Ids(j) : j.child[v] = <<>>}
  BY <1>5, <1>6
<1> QED BY <1>4, <1>7, <1>8, <1>9 DEF ListsAgree, Needed

LEMMA ShapeCloses ==
  ASSUME NEW d, Shaped(d)
  PROVE  Closed(d)
<1>1. \A v \in Ids(d) : d.child[v] \in Seq(Ids(d)) /\ d.parent[v] \in Seq(Ids(d))
  BY ShapeIs
<1>2. \A v \in Ids(d) : ToSet(d.child[v]) \in SUBSET Ids(d) /\ ToSet(d.parent[v]) \in SUBSET Ids(d)
  BY <1>1, ListIs
<1> QED BY <1>2 DEF Closed

LEMMA JoinKeeps ==
  ASSUME NEW d, Good(d), NEW p \in Int, NEW cs \in Seq(Int), cs # <<>>, JoinAllowed(d, p, cs),
         NEW coefs \in Seq(Int), NEW j, j = Join(d, p, cs, coefs)
  PROVE  Good(j) /\ JoinedBy(d, j, p, cs)
<1>1. Shaped(d) /\ UsesRecorded(d) /\ ListsAgree(d) /\ Grounded(d) /\ Topped(d) /\ Needed(d)
  BY DEF Good, WellFormed
<1>2. Shaped(j) /\ JoinedBy(d, j, p, cs)
  BY <1>1, JoinIs
<1>3. Grounded(j) /\ Topped(j)
  BY <1>1, <1>2, JoinGrounded
<1>4. UsesRecorded(j)
  BY <1>1, <1>2, JoinUses
<1>5. ListsAgree(j) /\ Needed(j)
  BY <1>1, <1>2, JoinLists
<1>6. Closed(j)
  BY <1>2, ShapeCloses
<1> QED BY <1>2, <1>3, <1>4, <1>5, <1>6 DEF Good, WellFormed

LEMMA EmptyIsGood == Good(EmptyDag) /\ Ids(EmptyDag) = {}
<1> DEFINE e == <<>>
<1>1. DOMAIN e = {} /\ e \in Seq({}) /\ e \in Seq(Int)
  OBVIOUS
<1>2. \A X : e \in [{} -> X]
  OBVIOUS
<1>3. Ids(EmptyDag) = {}
  BY <1>1 DEF Ids, EmptyDag
<1>4. EmptyDag \in DagsOn({})
  <2> HIDE DEF e
  <2>1. EmptyDag = [child |-> e, coefs |-> e, parent |-> e, type |-> e,
                    headers |-> e, leaves |-> e, concacts |-> e]
    BY DEF EmptyDag, e
  <2> QED BY <1>1, <1>2, <2>1 DEF DagsOn
<1>5. Shaped(EmptyDag)
  BY <1>3, <1>4, FS_EmptySet DEF Shaped
<1>6. Grounded(EmptyDag) /\ Topped(EmptyDag) /\ Needed(EmptyDag) /\ UsesRecorded(EmptyDag)
  BY <1>3 DEF Grounded, Topped, Needed, UsesRecorded
<1>7. ListsAgree(EmptyDag)
  <2>1. EmptyDag.headers = <<>> /\ EmptyDag.leaves = <<>>
    BY DEF EmptyDag
  <2>2. ToSet(<<>>) = {} /\ DistinctEntries(<<>>)
    BY DEF ToSet, DistinctEntries
  <2> QED BY <1>3, <2>1, <2>2 DEF ListsAgree
<1> QED BY <1>3, <1>5, <1>6, <1>7, ShapeCloses DEF Good, WellFormed
-----------------------------------------------------------------------------
(***************************************************************************)
(* Concact by block: one root after the other.  FoldLeft is a recursion    *)
(* over sets of indices, which has to be shown to exist.                   *)
(***************************************************************************)
Order(n) == [i \in 1 .. n |-> i - 1]

Folds(g, S, d, o, cs, w) ==
  g = [t \in S |-> IF t = {} THEN d ELSE ConcactBlock(g[t \ {Max(t)}], cs, w, o[Max(t)])]

LEMMA MaxOfInterval ==
  ASSUME NEW m \in Nat
  PROVE  Max(1 .. m + 1) = m + 1 /\ (1 .. m + 1) \ {m + 1} = 1 .. m /\ 1 .. m + 1 # {}
<1>1. m + 1 \in 1 .. m + 1 /\ \A y \in 1 .. m + 1 : m + 1 >= y
  OBVIOUS
<1>2. \A x \in 1 .. m + 1 : x >= m + 1 => x = m + 1
  OBVIOUS
<1>3. Max(1 .. m + 1) = m + 1
  BY <1>1, <1>2 DEF Max
<1> QED BY <1>1, <1>3

LEMMA FoldExists ==
  ASSUME NEW n \in Nat, NEW d, NEW o, NEW cs, NEW w
  PROVE  \E g : Folds(g, SUBSET (1 .. n), d, o, cs, w)
<1> DEFINE S == {m \in 0 .. n : \E g : Folds(g, SUBSET (1 .. m), d, o, cs, w)}
<1>1. 0 \in S
  <2> DEFINE g == [t \in SUBSET (1 .. 0) |-> d]
  <2>1. \A t \in SUBSET (1 .. 0) : t = {}
    OBVIOUS
  <2>2. Folds(g, SUBSET (1 .. 0), d, o, cs, w)
    BY <2>1 DEF Folds
  <2> QED BY <2>2
<1>2. ASSUME NEW m \in 0 .. n - 1, m \in S PROVE m + 1 \in S
  <2>1. PICK g : Folds(g, SUBSET (1 .. m), d, o, cs, w)
    BY <1>2
  <2> DEFINE k == m + 1
             h == [t \in SUBSET (1 .. k) |->
                     IF k \in t THEN ConcactBlock(g[t \ {k}], cs, w, o[k]) ELSE g[t]]
  <2>2. k \in 0 .. n /\ m \in Nat /\ k \in Nat /\ k = m + 1
    OBVIOUS
  <2>3. ASSUME NEW t \in SUBSET (1 .. k)
        PROVE  /\ t \ {k} \in SUBSET (1 .. m) /\ t \ {k} \in SUBSET (1 .. k) /\ k \notin t \ {k}
               /\ k \notin t => t \in SUBSET (1 .. m)
               /\ k \in t => Max(t) = k
    <3>1. k \in t => (\A y \in t : k >= y)
      BY <2>2
    <3>2. \A x \in t : k \in t /\ x >= k => x = k
      BY <2>2
    <3>3. k \in t => Max(t) = k
      BY <3>1, <3>2 DEF Max
    <3> QED BY <2>2, <3>3
  <2>4. \A t \in SUBSET (1 .. m) : t \in SUBSET (1 .. k) /\ k \notin t
    BY <2>2
  <2> HIDE DEF k
  <2>5. \A t \in SUBSET (1 .. m) : h[t] = g[t]
    BY <2>4
  <2>6. ASSUME NEW t \in SUBSET (1 .. k)
        PROVE  h[t] = IF t = {} THEN d ELSE ConcactBlock(h[t \ {Max(t)}], cs, w, o[Max(t)])
    <3>1. CASE k \in t
      <4>1. /\ h[t] = ConcactBlock(g[t \ {k}], cs, w, o[k]) /\ h[t \ {k}] = g[t \ {k}]
            /\ Max(t) = k
        BY <2>3, <3>1
      <4> HIDE DEF h
      <4> QED BY <3>1, <4>1
    <3>2. CASE k \notin t
      <4>1. h[t] = g[t] /\ t \in SUBSET (1 .. m)
        BY <2>3, <3>2
      <4>2. t \ {Max(t)} \in SUBSET (1 .. m)
        BY <4>1
      <4>3. g[t] = IF t = {} THEN d ELSE ConcactBlock(g[t \ {Max(t)}], cs, w, o[Max(t)])
        BY <2>1, <4>1 DEF Folds
      <4>4. h[t \ {Max(t)}] = g[t \ {Max(t)}]
        BY <2>5, <4>2
      <4> HIDE DEF h
      <4> QED BY <4>1, <4>3, <4>4
    <3> QED BY <3>1, <3>2
  <2>7. Folds(h, SUBSET (1 .. k), d, o, cs, w)
    <3>1. h = [t \in SUBSET (1 .. k) |-> h[t]]
      OBVIOUS
    <3> HIDE DEF h
    <3> QED BY <2>6, <3>1 DEF Folds
  <2> HIDE DEF h
  <2>8. k \in S
    BY <2>2, <2>7
  <2> QED BY <2>8 DEF k
<1>3. n \in S
  <2> HIDE DEF S
  <2>1. n \in 0 .. n
    OBVIOUS
  <2> QED BY <1>1, <1>2, <2>1, UpToN
<1> QED BY <1>3

\* g is the DAG before each of the n blocks, and after the last.
Concacts(g, d, cs, n, w) ==
  /\ g[0] = d /\ g[n] = ConcactBlocks(d, cs, n, w)
  /\ \A m \in 0 .. n - 1 : g[m + 1] = ConcactBlock(g[m], cs, w, m)

LEMMA ConcactSteps ==
  ASSUME NEW n \in Nat, NEW d, NEW cs, NEW w
  PROVE  \E g : Concacts(g, d, cs, n, w)
<1> DEFINE o == Order(n)
           iter == CHOOSE g : Folds(g, SUBSET (1 .. n), d, o, cs, w)
           up == [m \in 0 .. n |-> iter[1 .. m]]
<1>1. ConcactBlocks(d, cs, n, w) = iter[1 .. n]
  <2>1. DOMAIN o = 1 .. n
    BY DEF Order
  <2>2. ConcactBlocks(d, cs, n, w) = FoldLeft(LAMBDA g, b : ConcactBlock(g, cs, w, b), d, o)
    BY DEF ConcactBlocks, Order
  <2> HIDE DEF o
  <2> QED BY <2>1, <2>2 DEF FoldLeft, MapThenFoldSet, Folds
<1>2. Folds(iter, SUBSET (1 .. n), d, o, cs, w)
  <2> HIDE DEF o
  <2> QED BY FoldExists
<1> HIDE DEF iter
<1>3. /\ iter[{}] = d
      /\ \A t \in SUBSET (1 .. n) : t # {} =>
           iter[t] = ConcactBlock(iter[t \ {Max(t)}], cs, w, o[Max(t)])
  <2> HIDE DEF o
  <2> QED BY <1>2 DEF Folds
<1>4. up[0] = d
  <2>1. 1 .. 0 = {} /\ 0 \in 0 .. n
    OBVIOUS
  <2> QED BY <1>3, <2>1
<1>5. ASSUME NEW m \in 0 .. n - 1
      PROVE  up[m + 1] = ConcactBlock(up[m], cs, w, m)
  <2>1. m \in Nat /\ m \in 0 .. n /\ m + 1 \in 0 .. n /\ m + 1 \in 1 .. n /\ (m + 1) - 1 = m
    OBVIOUS
  <2>2. Max(1 .. m + 1) = m + 1 /\ (1 .. m + 1) \ {m + 1} = 1 .. m /\ 1 .. m + 1 # {}
    BY <2>1, MaxOfInterval
  <2>3. 1 .. m + 1 \in SUBSET (1 .. n)
    OBVIOUS
  <2>4. iter[1 .. m + 1] = ConcactBlock(iter[1 .. m], cs, w, o[m + 1])
    BY <1>3, <2>2, <2>3
  <2>5. o[m + 1] = m
    BY <2>1 DEF Order
  <2> QED BY <2>1, <2>4, <2>5
<1>6. up[n] = iter[1 .. n]
  OBVIOUS
<1> HIDE DEF up
<1> QED BY <1>1, <1>4, <1>5, <1>6 DEF Concacts

LEMMA ConcactsAreFree ==
  ASSUME NEW d, Good(d), NEW x \in Seq(Int), NEW e, e = [d EXCEPT !.concacts = x]
  PROVE  Good(e) /\ e.child = d.child /\ e.parent = d.parent
<1>1. d \in DagsOn(Ids(d)) /\ Ids(d) = DOMAIN d.child
  BY DEF Good, Shaped, Ids
<1>2. /\ e.child = d.child /\ e.coefs = d.coefs /\ e.parent = d.parent /\ e.type = d.type
      /\ e.headers = d.headers /\ e.leaves = d.leaves /\ e \in DagsOn(Ids(d))
  BY <1>1 DEF DagsOn
<1>3. Ids(e) = Ids(d)
  BY <1>1, <1>2 DEF Ids
<1>4. Shaped(e)
  BY <1>2, <1>3 DEF Good, Shaped
<1>5. Grounded(e) /\ Topped(e) /\ Needed(e)
  BY <1>2, <1>3 DEF Good, Grounded, Topped, Needed
<1>6. Closed(e) /\ UsesRecorded(e)
  BY <1>2, <1>3 DEF Good, WellFormed, Closed, UsesRecorded
<1>7. ListsAgree(e)
  BY <1>2, <1>3 DEF Good, WellFormed, ListsAgree
<1> QED BY <1>2, <1>4, <1>5, <1>6, <1>7 DEF Good, WellFormed
-----------------------------------------------------------------------------
(***************************************************************************)
(* What is asked for.                                                      *)
(***************************************************************************)
LEMMA ToIs ==
  ASSUME failed \in SUBSET (0 .. ecn - 1), failBlk \in failed
  PROVE  To \in Seq(Int) /\ \E v \in ToSet(To) : v \div ecw = failBlk
<1> DEFINE N == ecn * ecw
           pkts == [i \in 1 .. N |-> i - 1]
           S == {i \in DOMAIN pkts : pkts[i] \div ecw \in failed}
           v == failBlk * ecw
<1>1. ecn \in Nat \ {0} /\ ecw \in Nat \ {0} /\ failBlk \in 0 .. ecn - 1
  BY ECDagAssumption
<1>2. N \in Nat /\ v \in 0 .. N - 1 /\ v \div ecw = failBlk
  <2>1. N \in Nat
    BY <1>1
  <2>2. v \in Nat
    BY <1>1
  <2>3. (failBlk + 1) * ecw <= N
    <3>1. failBlk + 1 <= ecn /\ failBlk + 1 \in Nat
      BY <1>1
    <3> QED BY <1>1, <3>1
  <2>4. (failBlk + 1) * ecw = v + ecw
    BY <1>1
  <2>5. v \div ecw = failBlk
    BY <1>1, <2>2
  <2> HIDE DEF v, N
  <2> QED BY <1>1, <2>1, <2>2, <2>3, <2>4, <2>5
<1> HIDE DEF N, v
<1>3. pkts \in Seq(Int) /\ DOMAIN pkts = 1 .. N /\ S \in SUBSET (DOMAIN pkts)
  <2>1. pkts \in [1 .. N -> Int] /\ DOMAIN pkts = 1 .. N
    BY <1>2
  <2> QED BY <1>2, <2>1
<1>4. To = Entries(pkts, S)
  BY DEF To, N
<1>5. v + 1 \in S /\ pkts[v + 1] = v
  <2>1. v + 1 \in 1 .. N /\ (v + 1) - 1 = v
    BY <1>2
  <2>2. pkts[v + 1] = v
    BY <2>1
  <2> QED BY <1>2, <1>3, <2>1, <2>2
<1> HIDE DEF pkts, S
<1>6. Entries(pkts, S) \in Seq(Int) /\ ToSet(Entries(pkts, S)) = {pkts[i] : i \in S}
  BY <1>3, EntriesIn
<1>7. v \in {pkts[i] : i \in S}
  BY <1>5
<1> QED BY <1>2, <1>4, <1>6, <1>7

LEMMA PartIs ==
  ASSUME NEW X, NEW cs \in Seq(X), NEW w, NEW b
  PROVE  /\ PartOf(cs, w, b) \in Seq(X) /\ ToSet(PartOf(cs, w, b)) \subseteq ToSet(cs)
         /\ \A v \in ToSet(cs) : v \div w = b => PartOf(cs, w, b) # <<>>
<1> DEFINE S == {i \in DOMAIN cs : cs[i] \div w = b}
           e == Entries(cs, S)
<1>1. S \in SUBSET (DOMAIN cs) /\ PartOf(cs, w, b) = e
  BY DEF PartOf
<1>2. \A v \in ToSet(cs) : v \div w = b => \E i \in S : cs[i] = v
  BY DEF ToSet
<1>3. \A i \in DOMAIN cs : cs[i] \in ToSet(cs)
  BY DEF ToSet
<1> HIDE DEF S
<1>4. e \in Seq(X) /\ ToSet(e) = {cs[i] : i \in S}
  BY <1>1, EntriesIn
<1> HIDE DEF e
<1>5. ToSet(e) \subseteq ToSet(cs)
  BY <1>1, <1>3, <1>4
<1>6. e = <<>> <=> ToSet(e) = {}
  BY <1>4, ListIs
<1>7. \A v \in ToSet(cs) : v \div w = b => e # <<>>
  BY <1>2, <1>4, <1>6
<1> QED BY <1>1, <1>4, <1>5, <1>7

\* One more block.
Collected(d, g, m, cs, w) ==
  /\ Good(g) /\ Ids(d) \subseteq Ids(g)
  /\ Ids(g) \subseteq Ids(d) \cup {REQUESTOR - b : b \in 0 .. m - 1}
  /\ \A b \in 0 .. m - 1 : PartOf(cs, w, b) # <<>> =>
       REQUESTOR - b \in Ids(g) /\ EmptyIn(g, REQUESTOR - b)

LEMMA RootAdded ==
  ASSUME NEW g, NEW cs, NEW w, NEW m, PartOf(cs, w, m) # <<>>
  PROVE  ConcactBlock(g, cs, w, m) =
           [Join(g, REQUESTOR - m, PartOf(cs, w, m), NoCoefs(cs))
              EXCEPT !.concacts = Append(@, REQUESTOR - m)]
BY DEF ConcactBlock

LEMMA ConcactKeeps ==
  ASSUME NEW n \in Nat, NEW d, Ids(d) \subseteq 0 .. REQUESTOR - n, NEW w,
         NEW cs \in Seq(Int), ToSet(cs) \subseteq Ids(d),
         NEW m \in 0 .. n - 1, NEW g, Collected(d, g, m, cs, w)
  PROVE  Collected(d, ConcactBlock(g, cs, w, m), m + 1, cs, w)
<1> DEFINE c == PartOf(cs, w, m)
           r == REQUESTOR - m
           j == Join(g, r, c, NoCoefs(cs))
           h == [j EXCEPT !.concacts = Append(@, r)]
<1>1. /\ Good(g) /\ Ids(d) \subseteq Ids(g)
      /\ Ids(g) \subseteq Ids(d) \cup {REQUESTOR - b : b \in 0 .. m - 1}
      /\ \A b \in 0 .. m - 1 : PartOf(cs, w, b) # <<>> =>
           REQUESTOR - b \in Ids(g) /\ EmptyIn(g, REQUESTOR - b)
  BY DEF Collected
<1>2. c \in Seq(Int) /\ ToSet(c) \subseteq Ids(d)
  <2>1. c \in Seq(Int) /\ ToSet(c) \subseteq ToSet(cs)
    BY PartIs
  <2> QED BY <2>1
<1>3. \A b \in 0 .. m : b \in 0 .. m - 1 \/ b = m
  OBVIOUS
<1>4. CASE c = <<>>
  <2>1. ConcactBlock(g, cs, w, m) = g
    BY <1>4 DEF ConcactBlock
  <2>2. (m + 1) - 1 = m /\ \A b \in 0 .. m - 1 : b \in 0 .. m
    OBVIOUS
  <2> QED BY <1>1, <1>3, <1>4, <2>1, <2>2 DEF Collected
<1>5. CASE c # <<>>
  <2> HIDE DEF c, j
  <2>1. r \in Int /\ r \notin Ids(d) /\ \A b \in 0 .. m - 1 : REQUESTOR - b # r
    <3>1. REQUESTOR \in Int
      BY DEF REQUESTOR
    <3>2. r \in Int /\ ~(r <= REQUESTOR - n) /\ \A b \in 0 .. m - 1 : REQUESTOR - b # r
      BY <3>1
    <3> QED BY <3>2
  <2>2. \A b \in 0 .. m - 1 : REQUESTOR - b \notin Ids(d)
    <3>1. REQUESTOR \in Int
      BY DEF REQUESTOR
    <3>2. \A b \in 0 .. m - 1 : ~(REQUESTOR - b <= REQUESTOR - n)
      BY <3>1
    <3> QED BY <3>2
  <2> HIDE DEF r
  <2>3. JoinAllowed(g, r, c)
    BY <1>1, <1>2, <2>1 DEF JoinAllowed
  <2>4. NoCoefs(cs) \in Seq(Int)
    <3>1. Len(cs) \in Nat /\ DOMAIN cs = 1 .. Len(cs)
      BY ListIs
    <3>2. NoCoefs(cs) \in [1 .. Len(cs) -> Int]
      BY <3>1 DEF NoCoefs
    <3> QED BY <3>1, <3>2
  <2>5. Good(j) /\ JoinedBy(g, j, r, c)
    BY <1>1, <1>2, <1>5, <2>1, <2>3, <2>4, JoinKeeps DEF j
  <2>6. Append(j.concacts, r) \in Seq(Int)
    <3>1. j.concacts \in Seq(Int)
      BY <2>5, ShapeIs DEF Good
    <3> QED BY <2>1, <3>1, AppendIs
  <2>7. Good(h) /\ h.child = j.child /\ h.parent = j.parent
    BY <2>5, <2>6, ConcactsAreFree
  <2>8. ConcactBlock(g, cs, w, m) = h
    BY <1>5, RootAdded DEF c, j, r
  <2> HIDE DEF h
  <2>9. Ids(h) = Ids(j) /\ \A v : EmptyIn(h, v) = EmptyIn(j, v)
    BY <2>7 DEF Ids, EmptyIn
  <2>10. Ids(j) = Ids(g) \cup ToSet(c) \cup {r}
    BY <2>5 DEF JoinedBy
  <2>11. \A v \in Ids(j) : EmptyIn(j, v) <=> (v \in Ids(g) => EmptyIn(g, v)) /\ v \notin ToSet(c)
    BY <2>5 DEF JoinedBy
  <2>12. Ids(d) \subseteq Ids(h)
    BY <1>1, <2>9, <2>10
  <2>13. Ids(h) \subseteq Ids(d) \cup {REQUESTOR - b : b \in 0 .. m}
    <3>1. r \in {REQUESTOR - b : b \in 0 .. m}
      <4>1. m \in 0 .. m
        OBVIOUS
      <4> QED BY <4>1 DEF r
    <3>2. \A b \in 0 .. m - 1 : b \in 0 .. m
      OBVIOUS
    <3>3. Ids(g) \subseteq Ids(d) \cup {REQUESTOR - b : b \in 0 .. m}
      BY <1>1, <3>2
    <3> QED BY <1>2, <2>9, <2>10, <3>1, <3>3
  <2>14. r \in Ids(h) /\ EmptyIn(h, r)
    <3>1. r \notin Ids(g) /\ r \notin ToSet(c)
      BY <2>3 DEF JoinAllowed
    <3> QED BY <2>9, <2>10, <2>11, <3>1
  <2>15. ASSUME NEW b \in 0 .. m - 1, PartOf(cs, w, b) # <<>>
         PROVE  REQUESTOR - b \in Ids(h) /\ EmptyIn(h, REQUESTOR - b)
    <3>1. REQUESTOR - b \in Ids(g) /\ EmptyIn(g, REQUESTOR - b)
      BY <1>1, <2>15
    <3>2. REQUESTOR - b \notin ToSet(c)
      BY <1>2, <2>2
    <3> QED BY <2>9, <2>10, <2>11, <3>1, <3>2
  <2>16. \A b \in 0 .. m : PartOf(cs, w, b) # <<>> =>
           REQUESTOR - b \in Ids(h) /\ EmptyIn(h, REQUESTOR - b)
    BY <1>3, <2>14, <2>15 DEF r
  <2>17. (m + 1) - 1 = m
    OBVIOUS
  <2> QED BY <2>7, <2>8, <2>12, <2>13, <2>16, <2>17 DEF Collected
<1> QED BY <1>4, <1>5

LEMMA ConcactsKeep ==
  ASSUME NEW n \in Nat, NEW d, Good(d), Ids(d) \subseteq 0 .. REQUESTOR - n, NEW w,
         NEW cs \in Seq(Int), ToSet(cs) \subseteq Ids(d)
  PROVE  Collected(d, ConcactBlocks(d, cs, n, w), n, cs, w)
<1>1. PICK g : Concacts(g, d, cs, n, w)
  BY ConcactSteps
<1> DEFINE S == {m \in 0 .. n : Collected(d, g[m], m, cs, w)}
<1>2. 0 \in S
  <2>1. 0 .. 0 - 1 = {} /\ 0 \in 0 .. n
    OBVIOUS
  <2>2. g[0] = d
    BY <1>1 DEF Concacts
  <2> QED BY <2>1, <2>2 DEF Collected
<1>3. ASSUME NEW m \in 0 .. n - 1, m \in S PROVE m + 1 \in S
  <2>1. g[m + 1] = ConcactBlock(g[m], cs, w, m)
    BY <1>1 DEF Concacts
  <2>2. Collected(d, g[m], m, cs, w)
    BY <1>3
  <2>3. Collected(d, ConcactBlock(g[m], cs, w, m), m + 1, cs, w)
    BY <2>2, ConcactKeeps
  <2>4. m + 1 \in 0 .. n
    OBVIOUS
  <2> QED BY <2>1, <2>3, <2>4
<1>4. n \in S
  <2> HIDE DEF S
  <2>1. n \in 0 .. n
    OBVIOUS
  <2> QED BY <1>2, <1>3, <2>1, UpToN
<1>5. g[n] = ConcactBlocks(d, cs, n, w)
  BY <1>1 DEF Concacts
<1> QED BY <1>4, <1>5
-----------------------------------------------------------------------------
(***************************************************************************)
(* The steps that build.                                                   *)
(***************************************************************************)
LEMMA InitHolds ==
  ASSUME Init
  PROVE  IInv
<1>1. failed \in SUBSET (0 .. ecn - 1) /\ failBlk \in failed
  BY ECDagAssumption DEF Init
<1>2. /\ step = "build" /\ dag = EmptyDag
      /\ stack = <<>> /\ toDelete = {} /\ levels = <<>> /\ topo = <<>>
  BY DEF Init
<1>3. BuildInv
  BY <1>2, EmptyIsGood DEF BuildInv
<1> QED BY <1>1, <1>2, <1>3 DEF IInv

LEMMA JoinStepKeeps ==
  ASSUME IInv, JoinStep
  PROVE  IInv'
<1>1. /\ step = "build" /\ step' = "build"
      /\ failed' = failed /\ failBlk' = failBlk
      /\ stack' = stack /\ toDelete' = toDelete /\ levels' = levels /\ topo' = topo
  BY DEF JoinStep, sorting
<1>2. /\ Good(dag) /\ Ids(dag) \subseteq 0 .. REQUESTOR - ecn
      /\ stack = <<>> /\ toDelete = {} /\ levels = <<>> /\ topo = <<>>
      /\ failed \in SUBSET (0 .. ecn - 1) /\ failBlk \in failed
  BY <1>1 DEF IInv, BuildInv
<1>3. PICK j \in Joins :
        /\ JoinAllowed(dag, j[1], j[2])
        /\ dag' = Join(dag, j[1], j[2], [i \in DOMAIN j[2] |-> 1])
  BY DEF JoinStep
<1> DEFINE p == j[1]
           cs == j[2]
           ones == [i \in DOMAIN cs |-> 1]
           N == 0 .. REQUESTOR - ecn
<1>4. p \in N /\ cs \in Seq(N) /\ cs # <<>>
  BY ECDagAssumption
<1>5. N \subseteq Int
  BY ECDagAssumption DEF REQUESTOR
<1>6. JoinAllowed(dag, p, cs) /\ dag' = Join(dag, p, cs, ones)
  BY <1>3
<1> HIDE DEF p, cs, N
<1>7. p \in Int /\ cs \in Seq(Int) /\ ToSet(cs) \subseteq N
  BY <1>4, <1>5, WiderSeq, ListIs
<1>8. ones \in Seq(Int)
  <2>1. DOMAIN cs = 1 .. Len(cs) /\ Len(cs) \in Nat
    BY <1>4, ListIs
  <2>2. ones \in [1 .. Len(cs) -> Int]
    BY <2>1
  <2> QED BY <2>1, <2>2
<1> HIDE DEF ones
<1>9. Good(dag') /\ JoinedBy(dag, dag', p, cs)
  BY <1>2, <1>4, <1>6, <1>7, <1>8, JoinKeeps
<1>10. Ids(dag') \subseteq N
  BY <1>2, <1>4, <1>7, <1>9 DEF JoinedBy, N
<1>11. BuildInv'
  BY <1>1, <1>2, <1>9, <1>10 DEF BuildInv, N
<1> QED BY <1>1, <1>2, <1>11 DEF IInv

LEMMA ConcactStepKeeps ==
  ASSUME IInv, ConcactStep
  PROVE  IInv'
<1>1. /\ step = "build" /\ step' = "prune" /\ dag' = ConcactBlocks(dag, To, ecn, ecw)
      /\ ToSet(To) \subseteq Joined /\ built' = dag' /\ todo' = dag'.headers
      /\ failed' = failed /\ failBlk' = failBlk
      /\ stack' = stack /\ toDelete' = toDelete /\ levels' = levels /\ topo' = topo
  BY DEF ConcactStep, sorting
<1>2. /\ Good(dag) /\ Ids(dag) \subseteq 0 .. REQUESTOR - ecn
      /\ stack = <<>> /\ toDelete = {} /\ levels = <<>> /\ topo = <<>>
      /\ failed \in SUBSET (0 .. ecn - 1) /\ failBlk \in failed
  BY <1>1 DEF IInv, BuildInv
<1>3. To \in Seq(Int) /\ (\E v \in ToSet(To) : v \div ecw = failBlk) /\ ToSet(To) \subseteq Ids(dag)
  BY <1>1, <1>2, ToIs DEF Joined
<1>4. ecn \in Nat /\ failBlk \in 0 .. ecn - 1
  BY <1>2, ECDagAssumption
<1> DEFINE g == ConcactBlocks(dag, To, ecn, ecw)
<1>5. Collected(dag, g, ecn, To, ecw)
  <2>1. ToSet(To) \subseteq Ids(dag)
    BY <1>3
  <2> QED BY <1>2, <1>3, <1>4, <2>1, ConcactsKeep
<1>6. PartOf(To, ecw, failBlk) # <<>>
  BY <1>3, PartIs
<1> HIDE DEF g
<1>7. Good(g) /\ Keep \in Ids(g) /\ g.parent[Keep] = <<>>
  BY <1>4, <1>5, <1>6 DEF Collected, Keep, EmptyIn
<1>8. dag' = g /\ built' = g /\ Keep' = Keep /\ todo' = g.headers
  BY <1>1 DEF g, Keep
<1>9. BuiltInv'
  BY <1>7, <1>8 DEF BuiltInv
<1>10. /\ stack' = <<>> /\ toDelete' = {} /\ levels' = <<>> /\ topo' = <<>>
       /\ DOMAIN (stack') = {} /\ Touched' = {} /\ Calls' = {} /\ Bottom' = {}
  BY <1>1, <1>2 DEF Touched, Calls, Bottom
<1>11. /\ Shaped(g) /\ ListsAgree(g) /\ UsesRecorded(g)
  BY <1>7 DEF Good, WellFormed
<1>12. /\ g \in DagsOn(Ids(g)) /\ g.headers \in Seq(Ids(g)) /\ DistinctEntries(g.headers)
       /\ ToSet(g.headers) = {v \in Ids(g) : g.parent[v] = <<>>}
  BY <1>11, ShapeIs DEF Shaped, ListsAgree
<1>13. PruneShape'
  <2>1. <<>> \in Seq(Ids(g) \X (Nat \ {0})) /\ {} \in SUBSET Ids(g)
    OBVIOUS
  <2> QED BY <1>8, <1>10, <1>12, <2>1 DEF PruneShape
<1>14. CallsOnce' /\ UsesLeft'
  <2>1. CallsOnce'
    BY <1>10 DEF CallsOnce
  <2>2. \A c \in Ids(g) : \A p \in Ids(g) : Times(g.parent[c], p) = Times(g.child[p], c)
    BY <1>11 DEF UsesRecorded
  <2>3. UsesLeft'
    BY <1>8, <1>10, <2>2 DEF UsesLeft
  <2> QED BY <2>1, <2>3
<1>15. PruneInv'
  <2>1. {v \in Ids(g) : g.parent[v] = <<>>} = {Keep} \cup ToSet(g.headers)
    BY <1>7, <1>12
  <2>2. ToSet(g.headers) = {Keep} \cup ToSet(g.headers)
    BY <1>7, <1>12
  <2> HIDE DEF Keep
  <2>3. /\ \A v \in Touched' : dag'.parent[v] = <<>>
        /\ Touched' \cap MadeOf(built', Keep') = {}
        /\ {v \in Ids(built') \ Touched' : dag'.parent[v] = <<>>} = {Keep'} \cup ToSet(todo')
        /\ DistinctEntries(dag'.headers)
        /\ ToSet(dag'.headers) = {Keep'} \cup ToSet(todo') \cup Bottom'
    BY <1>8, <1>10, <1>12, <2>1, <2>2
  <2> QED BY <1>13, <1>14, <2>3 DEF PruneInv
<1> QED BY <1>1, <1>2, <1>9, <1>15 DEF IInv
-----------------------------------------------------------------------------
(***************************************************************************)
(* What a vertex is made of.                                               *)
(***************************************************************************)
WithChildren(d, S) == S \cup UNION {ToSet(d.child[u]) : u \in S}

Reaches(W, d, v, n) ==
  W = [m \in 0 .. n |-> IF m = 0 THEN {v}
                        ELSE W[m - 1] \cup UNION {ToSet(d.child[u]) : u \in W[m - 1]}]

LEMMA ReachExists ==
  ASSUME NEW n \in Nat, NEW d, NEW v
  PROVE  \E W : Reaches(W, d, v, n)
<1> DEFINE S == {m \in 0 .. n : \E W : Reaches(W, d, v, m)}
<1>1. 0 \in S
  <2> DEFINE W == [m \in 0 .. 0 |-> {v}]
  <2>1. \A m \in 0 .. 0 : m = 0
    OBVIOUS
  <2>2. Reaches(W, d, v, 0)
    BY <2>1 DEF Reaches
  <2> QED BY <2>2
<1>2. ASSUME NEW m \in 0 .. n - 1, m \in S PROVE m + 1 \in S
  <2>1. PICK W : Reaches(W, d, v, m)
    BY <1>2
  <2> DEFINE k == m + 1
             V == [i \in 0 .. k |-> IF i = k THEN WithChildren(d, W[m]) ELSE W[i]]
  <2>2. k \in 0 .. n /\ k \in Nat /\ k # 0 /\ k - 1 = m
    OBVIOUS
  <2>3. \A i \in 0 .. k : i = k \/ (i \in 0 .. m /\ i # k)
    OBVIOUS
  <2>4. \A i \in 0 .. m : i \in 0 .. k /\ i # k /\ (i # 0 => i - 1 \in 0 .. m)
    OBVIOUS
  <2>5. m \in 0 .. m
    OBVIOUS
  <2> HIDE DEF k
  <2>6. \A i \in 0 .. m : V[i] = W[i]
    BY <2>4
  <2>7. \A i \in 0 .. m : W[i] = IF i = 0 THEN {v} ELSE WithChildren(d, W[i - 1])
    BY <2>1 DEF Reaches, WithChildren
  <2>8. V[k] = WithChildren(d, W[m])
    BY <2>2
  <2>9. V = [i \in 0 .. k |-> V[i]]
    OBVIOUS
  <2> HIDE DEF V
  <2>10. \A i \in 0 .. k : V[i] = IF i = 0 THEN {v} ELSE WithChildren(d, V[i - 1])
    <3> TAKE i \in 0 .. k
    <3>1. CASE i = k
      BY <2>2, <2>5, <2>6, <2>8, <3>1
    <3>2. CASE i # k
      <4>1. i \in 0 .. m /\ (i # 0 => i - 1 \in 0 .. m)
        BY <2>3, <2>4, <3>2
      <4> QED BY <2>6, <2>7, <4>1
    <3> QED BY <3>1, <3>2
  <2>11. Reaches(V, d, v, k)
    BY <2>9, <2>10 DEF Reaches, WithChildren
  <2>12. k \in S
    BY <2>2, <2>11
  <2> QED BY <2>12 DEF k
<1>3. n \in S
  <2> HIDE DEF S
  <2>1. n \in 0 .. n
    OBVIOUS
  <2> QED BY <1>1, <1>2, <2>1, UpToN
<1> QED BY <1>3

\* The vertices reached in 0, 1, ... n edges.
Layers(W, d, v, n) ==
  /\ W[0] = {v} /\ W[n] = Within(d, v, n)
  /\ \A m \in 0 .. n - 1 : W[m + 1] = WithChildren(d, W[m])

LEMMA LayersExist ==
  ASSUME NEW n \in Nat, NEW d, NEW v
  PROVE  \E W : Layers(W, d, v, n)
<1> DEFINE W == CHOOSE U : Reaches(U, d, v, n)
<1>1. Within(d, v, n) = W[n]
  BY DEF Within, Reaches
<1>2. Reaches(W, d, v, n)
  BY ReachExists
<1> HIDE DEF W
<1>3. \A i \in 0 .. n : W[i] = IF i = 0 THEN {v} ELSE WithChildren(d, W[i - 1])
  BY <1>2 DEF Reaches, WithChildren
<1>4. 0 \in 0 .. n /\ \A m \in 0 .. n - 1 : m + 1 \in 0 .. n /\ m + 1 # 0 /\ (m + 1) - 1 = m
  OBVIOUS
<1>5. W[0] = {v} /\ \A m \in 0 .. n - 1 : W[m + 1] = WithChildren(d, W[m])
  BY <1>3, <1>4
<1> QED BY <1>1, <1>5 DEF Layers

\* S is v and vertices that others of S are made of.
StartsAt(d, v, S) ==
  /\ S \subseteq Ids(d) /\ v \in S
  /\ \A u \in S : u # v => \E p \in S : u \in ToSet(d.child[p])

IsClosed(d, S) == \A u \in S : ToSet(d.child[u]) \subseteq S

LEMMA MadeOfIs ==
  ASSUME NEW d, Shaped(d), NEW v \in Ids(d)
  PROVE  StartsAt(d, v, MadeOf(d, v)) /\ IsClosed(d, MadeOf(d, v))
<1> DEFINE I == Ids(d)
           n == Cardinality(I)
<1>1. /\ IsFiniteSet(I) /\ n \in Nat
      /\ \A u \in I : ToSet(d.child[u]) \subseteq I
  <2>1. IsFiniteSet(I) /\ \A u \in I : d.child[u] \in Seq(I)
    BY ShapeIs
  <2>2. \A u \in I : ToSet(d.child[u]) \in SUBSET I
    BY <2>1, ListIs
  <2> QED BY <2>1, <2>2, FS_CardinalityType
<1> HIDE DEF n
<1>2. PICK W : Layers(W, d, v, n)
  BY <1>1, LayersExist
<1> DEFINE Claim(m) == /\ StartsAt(d, v, W[m])
                       /\ IsClosed(d, W[m]) \/ Cardinality(W[m]) >= m + 1
           S == {m \in 0 .. n : Claim(m)}
<1>3. 0 \in S
  <2>1. W[0] = {v}
    BY <1>2 DEF Layers
  <2>2. Cardinality({v}) = 1
    BY FS_Singleton
  <2>3. StartsAt(d, v, W[0])
    BY <2>1 DEF StartsAt
  <2>4. 0 \in 0 .. n
    BY <1>1
  <2> QED BY <2>1, <2>2, <2>3, <2>4
<1>4. ASSUME NEW m \in 0 .. n - 1, m \in S PROVE m + 1 \in S
  <2> DEFINE A == W[m]
             B == WithChildren(d, A)
  <2>1. W[m + 1] = B /\ m + 1 \in 0 .. n /\ m \in Nat
    BY <1>1, <1>2 DEF Layers
  <2>2. StartsAt(d, v, A) /\ (IsClosed(d, A) \/ Cardinality(A) >= m + 1)
    BY <1>4
  <2> HIDE DEF A
  <2>3. A \subseteq B
    BY DEF WithChildren
  <2>4. B \subseteq I
    BY <1>1, <2>2 DEF StartsAt, WithChildren
  <2>5. StartsAt(d, v, B)
    BY <2>2, <2>3, <2>4 DEF StartsAt, WithChildren
  <2>6. IsClosed(d, A) => B = A
    BY DEF IsClosed, WithChildren
  <2>7. A = B => IsClosed(d, A)
    BY DEF IsClosed, WithChildren
  <2>8. IsFiniteSet(B) /\ IsFiniteSet(A) /\ Cardinality(A) \in Nat /\ Cardinality(B) \in Nat
    BY <1>1, <2>3, <2>4, FS_Subset, FS_CardinalityType
  <2> HIDE DEF B
  <2>9. A # B => Cardinality(A) < Cardinality(B)
    BY <2>3, <2>8, FS_Subset
  <2>10. IsClosed(d, B) \/ Cardinality(B) >= (m + 1) + 1
    <3>1. CASE A = B
      BY <2>7, <3>1
    <3>2. CASE A # B
      BY <2>1, <2>2, <2>6, <2>8, <2>9, <3>2
    <3> QED BY <3>1, <3>2
  <2> QED BY <2>1, <2>5, <2>10
<1>5. n \in S
  <2> HIDE DEF S
  <2>1. n \in 0 .. n
    BY <1>1
  <2> QED BY <1>1, <1>3, <1>4, <2>1, UpToN
<1>6. W[n] = MadeOf(d, v)
  BY <1>2 DEF Layers, MadeOf, n
<1>7. StartsAt(d, v, W[n]) /\ (IsClosed(d, W[n]) \/ Cardinality(W[n]) >= n + 1)
  BY <1>5
<1>8. ~(Cardinality(W[n]) >= n + 1)
  <2> DEFINE A == W[n]
  <2> HIDE DEF A
  <2>1. A \subseteq I
    BY <1>7 DEF StartsAt, A
  <2>2. Cardinality(A) <= n /\ Cardinality(A) \in Nat
    BY <1>1, <2>1, FS_Subset, FS_CardinalityType DEF n
  <2> QED BY <1>1, <2>2 DEF A
<1> QED BY <1>6, <1>7, <1>8
-----------------------------------------------------------------------------
(***************************************************************************)
(* Pruning: the uses that are left.                                        *)
(***************************************************************************)
LEMMA TimesFromIs ==
  ASSUME NEW X, NEW s \in Seq(X), NEW v
  PROVE  /\ TimesFrom(s, 1, v) = Times(s, v)
         /\ \A i \in Nat : i > Len(s) => TimesFrom(s, i, v) = 0
         /\ \A i \in 1 .. Len(s) : /\ TimesFrom(s, i, v) \in Nat /\ TimesFrom(s, i + 1, v) \in Nat
                                   /\ TimesFrom(s, i, v) =
                                        TimesFrom(s, i + 1, v) + IF s[i] = v THEN 1 ELSE 0
<1> DEFINE At(i) == {j \in DOMAIN s : i <= j /\ s[j] = v}
<1>1. Len(s) \in Nat /\ DOMAIN s = 1 .. Len(s)
  BY ListIs
<1>2. At(1) = Places(s, v)
  BY <1>1 DEF Places
<1>3. \A i : TimesFrom(s, i, v) = Cardinality(At(i))
  BY DEF TimesFrom
<1>4. \A i \in Nat : i > Len(s) => At(i) = {}
  BY <1>1
<1>5. ASSUME NEW i \in 1 .. Len(s)
      PROVE  /\ TimesFrom(s, i, v) \in Nat /\ TimesFrom(s, i + 1, v) \in Nat
             /\ TimesFrom(s, i, v) = TimesFrom(s, i + 1, v) + IF s[i] = v THEN 1 ELSE 0
  <2>1. At(i) = IF s[i] = v THEN At(i + 1) \cup {i} ELSE At(i + 1)
    <3>1. \A j \in DOMAIN s : i <= j <=> i + 1 <= j \/ j = i
      BY <1>1
    <3>2. i \in DOMAIN s /\ i <= i
      BY <1>1
    <3>3. CASE s[i] = v
      BY <3>1, <3>2, <3>3
    <3>4. CASE s[i] # v
      BY <3>1, <3>4
    <3> QED BY <3>3, <3>4
  <2>2. At(i + 1) \in SUBSET (1 .. Len(s)) /\ i \notin At(i + 1)
    BY <1>1
  <2> HIDE DEF At
  <2>3. IsFiniteSet(At(i + 1)) /\ Cardinality(At(i + 1)) \in Nat
    <3>1. IsFiniteSet(1 .. Len(s))
      BY <1>1, FS_Interval
    <3> QED BY <2>2, <3>1, FS_Subset, FS_CardinalityType
  <2>4. Cardinality(At(i + 1) \cup {i}) = Cardinality(At(i + 1)) + 1
    BY <2>2, <2>3, FS_AddElement
  <2>5. CASE s[i] = v
    <3>1. TimesFrom(s, i, v) = Cardinality(At(i + 1)) + 1
      BY <1>3, <2>1, <2>4, <2>5
    <3> QED BY <1>3, <2>3, <2>5, <3>1
  <2>6. CASE s[i] # v
    <3>1. TimesFrom(s, i, v) = Cardinality(At(i + 1))
      BY <1>3, <2>1, <2>6
    <3> QED BY <1>3, <2>3, <2>6, <3>1
  <2> QED BY <2>5, <2>6
<1> HIDE DEF At
<1>6. TimesFrom(s, 1, v) = Times(s, v)
  BY <1>2, <1>3, TimesIs
<1>7. \A i \in Nat : i > Len(s) => TimesFrom(s, i, v) = 0
  BY <1>3, <1>4, FS_EmptySet
<1> QED BY <1>5, <1>6, <1>7

\* What the repair is made of keeps its uses, and is no root.
Unused(b, keep, T, c) ==
  /\ Good(b) /\ keep \in Ids(b) /\ T \cap MadeOf(b, keep) = {} /\ c \in Ids(b) \ {keep}
  /\ \A p \in Ids(b) \ T : Times(<<>>, p) = Times(b.child[p], c)

LEMMA NotMade ==
  ASSUME NEW b, NEW keep, NEW T, NEW c, Unused(b, keep, T, c)
  PROVE  c \notin MadeOf(b, keep)
<1> SUFFICES ASSUME c \in MadeOf(b, keep) PROVE FALSE
  OBVIOUS
<1>0. /\ Good(b) /\ keep \in Ids(b) /\ T \cap MadeOf(b, keep) = {} /\ c \in Ids(b) \ {keep}
      /\ \A p \in Ids(b) \ T : Times(<<>>, p) = Times(b.child[p], c)
  BY DEF Unused
<1>1. StartsAt(b, keep, MadeOf(b, keep))
  BY <1>0, MadeOfIs DEF Good
<1>2. PICK p \in MadeOf(b, keep) : c \in ToSet(b.child[p])
  BY <1>0, <1>1 DEF StartsAt
<1>3. p \in Ids(b) \ T
  BY <1>0, <1>1, <1>2 DEF StartsAt
<1>4. Times(b.child[p], c) = 0
  BY <1>0, <1>3, EmptyTimes
<1>5. b.child[p] \in Seq(Ids(b))
  BY <1>0, <1>3, ShapeIs DEF Good
<1> QED BY <1>2, <1>4, <1>5, TimesIs

LEMMA TailIs ==
  ASSUME NEW X, NEW s \in Seq(X), s # <<>>
  PROVE  /\ Head(s) \in X /\ Tail(s) \in Seq(X)
         /\ ToSet(s) = {Head(s)} \cup ToSet(Tail(s))
         /\ DistinctEntries(s) => DistinctEntries(Tail(s)) /\ Head(s) \notin ToSet(Tail(s))
<1> DEFINE n == Len(s)
           t == Tail(s)
<1>1. n \in Nat /\ n >= 1 /\ DOMAIN s = 1 .. n /\ Head(s) = s[1] /\ s[1] \in X
  <2>1. n \in Nat /\ DOMAIN s = 1 .. n /\ (s = <<>> <=> n = 0) /\ \A i \in DOMAIN s : s[i] \in X
    BY ListIs
  <2>2. n # 0
    BY <2>1
  <2>3. 1 \in 1 .. n
    BY <2>1, <2>2
  <2> QED BY <2>1, <2>3
<1>2. t \in Seq(X) /\ DOMAIN t = 1 .. n - 1 /\ \A i \in 1 .. n - 1 : t[i] = s[i + 1]
  BY <1>1
<1> HIDE DEF n, t
<1>3. \A i \in 1 .. n : i = 1 \/ (i - 1 \in 1 .. n - 1 /\ (i - 1) + 1 = i)
  BY <1>1
<1>4. \A i \in 1 .. n - 1 : i + 1 \in 1 .. n /\ i + 1 # 1
  BY <1>1
<1>5. ASSUME NEW i \in 1 .. n PROVE s[i] = s[1] \/ s[i] \in ToSet(t)
  <2>1. CASE i = 1
    BY <2>1
  <2>2. CASE i # 1
    <3>1. i - 1 \in 1 .. n - 1 /\ (i - 1) + 1 = i
      BY <1>3, <2>2
    <3>2. i - 1 \in DOMAIN t /\ t[i - 1] = s[i]
      BY <1>2, <3>1
    <3> QED BY <3>2 DEF ToSet
  <2> QED BY <2>1, <2>2
<1>6. \A i \in 1 .. n - 1 : t[i] \in ToSet(s)
  BY <1>1, <1>2, <1>4 DEF ToSet
<1>7. ToSet(s) = {s[1]} \cup ToSet(t)
  <2>1. ToSet(t) \subseteq ToSet(s)
    BY <1>2, <1>6 DEF ToSet
  <2>2. s[1] \in ToSet(s)
    BY <1>1 DEF ToSet
  <2>3. ToSet(s) \subseteq {s[1]} \cup ToSet(t)
    BY <1>1, <1>5 DEF ToSet
  <2> QED BY <2>1, <2>2, <2>3
<1>8. ASSUME DistinctEntries(s) PROVE DistinctEntries(t) /\ s[1] \notin ToSet(t)
  <2>1. \A i, j \in 1 .. n : s[i] = s[j] => i = j
    BY <1>1, <1>8 DEF DistinctEntries
  <2>2. \A i, j \in 1 .. n - 1 : t[i] = t[j] => i + 1 = j + 1
    BY <1>2, <1>4, <2>1
  <2>3. \A i, j \in 1 .. n - 1 : i + 1 = j + 1 => i = j
    OBVIOUS
  <2>4. \A i \in 1 .. n - 1 : t[i] # s[1]
    <3>1. 1 \in 1 .. n
      BY <1>1
    <3> QED BY <1>2, <1>4, <2>1, <3>1
  <2>5. DistinctEntries(t)
    BY <1>2, <2>2, <2>3 DEF DistinctEntries
  <2>6. s[1] \notin ToSet(t)
    BY <1>2, <2>4 DEF ToSet
  <2> QED BY <2>5, <2>6
<1> QED BY <1>1, <1>2, <1>7, <1>8 DEF t

LEMMA FrontIs ==
  ASSUME NEW X, NEW s \in Seq(X), s # <<>>
  PROVE  /\ Len(s) \in Nat \ {0} /\ DOMAIN s = 1 .. Len(s)
         /\ Front(s) \in Seq(X) /\ DOMAIN Front(s) = 1 .. Len(s) - 1
         /\ \A k \in 1 .. Len(s) - 1 : Front(s)[k] = s[k]
<1>1. Len(s) \in Nat /\ DOMAIN s = 1 .. Len(s) /\ Len(s) # 0
  BY ListIs
<1> QED BY <1>1 DEF Front

LEMMA OneEntry ==
  ASSUME NEW X, NEW s \in Seq(X), DistinctEntries(s), NEW x, ToSet(s) = {x}
  PROVE  s = <<x>>
<1>1. Len(s) \in Nat /\ DOMAIN s = 1 .. Len(s)
  BY ListIs
<1>2. \A i \in 1 .. Len(s) : s[i] = x
  BY <1>1 DEF ToSet
<1>3. \A i, j \in 1 .. Len(s) : i = j
  BY <1>1, <1>2 DEF DistinctEntries
<1>4. 1 .. Len(s) # {}
  BY <1>1 DEF ToSet
<1> DEFINE n == Len(s)
<1> HIDE DEF n
<1>5. Len(s) = 1
  <2>1. Len(s) >= 1
    <3>1. PICK i \in 1 .. Len(s) : TRUE
      BY <1>4
    <3> QED BY <1>1, <3>1
  <2>2. 1 \in 1 .. Len(s) /\ Len(s) \in 1 .. Len(s)
    BY <1>1, <2>1
  <2> QED BY <1>3, <2>2
<1> QED BY <1>1, <1>2, <1>5
-----------------------------------------------------------------------------
(***************************************************************************)
(* The steps of the prune.                                                 *)
(***************************************************************************)
\* A root that goes is taken apart next.
LEMMA NextHeaderKeeps ==
  ASSUME IInv, NextHeader
  PROVE  IInv'
<1> DEFINE h == Head(todo)
           t == Tail(todo)
           I == Ids(built)
           M == MadeOf(built, Keep)
<1>1. /\ step = "prune" /\ step' = "prune" /\ stack = <<>> /\ todo # <<>> /\ todo' = t
      /\ stack' = IF h = Keep THEN <<>> ELSE <<<<h, 1>>>>
      /\ dag' = dag /\ built' = built /\ toDelete' = toDelete
      /\ failed' = failed /\ failBlk' = failBlk /\ levels' = levels /\ topo' = topo
  BY DEF NextHeader, sorting
<1>2. BuiltInv /\ PruneInv /\ failed \in SUBSET (0 .. ecn - 1) /\ failBlk \in failed
  BY <1>1 DEF IInv
<1>3. Keep' = Keep /\ BuiltInv'
  BY <1>1, <1>2 DEF BuiltInv, Keep
<1>4. Calls = {} /\ Touched = toDelete /\ Bottom = {}
  <2>1. DOMAIN <<>> = {}
    OBVIOUS
  <2> QED BY <1>1, <2>1 DEF Calls, Touched, Bottom
<1>5. /\ todo \in Seq(I) /\ DistinctEntries(todo) /\ toDelete \in SUBSET I
  BY <1>2 DEF PruneInv, PruneShape
<1>6. /\ h \in I /\ t \in Seq(I) /\ ToSet(todo) = {h} \cup ToSet(t)
      /\ DistinctEntries(t) /\ h \notin ToSet(t)
  BY <1>1, <1>5, TailIs
<1>7. {v \in I \ toDelete : dag.parent[v] = <<>>} = {Keep} \cup ToSet(todo)
  BY <1>2, <1>4 DEF PruneInv
<1>8. /\ DistinctEntries(dag.headers)
      /\ ToSet(dag.headers) = {Keep} \cup ToSet(todo)
      /\ toDelete \cap M = {}
      /\ \A v \in toDelete : dag.parent[v] = <<>>
  BY <1>2, <1>4 DEF PruneInv
<1>9. CASE h = Keep
  <2>1. stack' = stack
    BY <1>1, <1>9
  <2>2. Calls' = {} /\ Touched' = toDelete /\ Bottom' = {}
    BY <1>1, <1>4, <2>1 DEF Calls, Touched, Bottom
  <2>3. PruneShape'
    BY <1>1, <1>2, <1>6, <2>1 DEF PruneInv, PruneShape
  <2>4. CallsOnce' /\ UsesLeft'
    BY <1>1, <1>2, <2>1 DEF PruneInv, CallsOnce, UsesLeft, Touched, Calls
  <2>5. {v \in I \ toDelete : dag.parent[v] = <<>>} = {Keep} \cup ToSet(t)
    BY <1>6, <1>7, <1>9
  <2>6. ToSet(dag.headers) = {Keep} \cup ToSet(t) \cup {}
    BY <1>6, <1>8, <1>9
  <2>7. PruneInv'
    BY <1>1, <1>3, <1>8, <2>2, <2>3, <2>4, <2>5, <2>6 DEF PruneInv
  <2> QED BY <1>1, <1>2, <1>3, <2>7 DEF IInv
<1>10. CASE h # Keep
  <2>1. stack' = <<<<h, 1>>>> /\ DOMAIN (stack') = {1} /\ stack'[1] = <<h, 1>>
    BY <1>1, <1>10
  <2> HIDE DEF h, t, I, M
  <2>2. Calls' = {h} /\ Touched' = toDelete \cup {h} /\ Bottom' = {h}
    BY <1>1, <2>1 DEF Calls, Touched, Bottom
  <2>3. PruneShape'
    <3>1. <<<<h, 1>>>> \in Seq(I \X (Nat \ {0}))
      BY <1>6
    <3> QED BY <1>1, <1>2, <1>6, <2>1, <3>1 DEF PruneInv, PruneShape, I
  <2>4. h \in I \ toDelete /\ dag.parent[h] = <<>>
    BY <1>6, <1>7
  <2>5. CallsOnce'
    BY <1>1, <2>1, <2>2, <2>4 DEF CallsOnce
  <2>6. /\ \A c \in I : \A p \in toDelete : Times(dag.parent[c], p) = 0
        /\ \A c \in I : \A p \in I \ toDelete : Times(dag.parent[c], p) = Times(built.child[p], c)
    BY <1>2, <1>4 DEF PruneInv, UsesLeft, I
  <2>7. \A c \in I : Times(dag.parent[c], h) = TimesFrom(built.child[h], 1, c)
    <3>1. built.child[h] \in Seq(I)
      BY <1>2, <1>6, ShapeIs DEF BuiltInv, Good, I
    <3>2. \A c \in I : TimesFrom(built.child[h], 1, c) = Times(built.child[h], c)
      BY <3>1, TimesFromIs
    <3> QED BY <2>4, <2>6, <3>2
  <2>8. UsesLeft'
    BY <1>1, <2>1, <2>2, <2>6, <2>7 DEF UsesLeft, I
  <2>9. h \notin M
    <3>1. Good(built) /\ Keep \in Ids(built)
      BY <1>2 DEF BuiltInv
    <3>2. \A p \in I \ toDelete : Times(<<>>, p) = Times(built.child[p], h)
      BY <2>4, <2>6
    <3>3. Unused(built, Keep, toDelete, h)
      BY <1>8, <1>10, <2>4, <3>1, <3>2 DEF Unused, M, I
    <3> QED BY <3>3, NotMade DEF M
  <2>10. {v \in I \ (toDelete \cup {h}) : dag.parent[v] = <<>>} = {Keep} \cup ToSet(t)
    BY <1>6, <1>7, <1>10
  <2>11. ToSet(dag.headers) = {Keep} \cup ToSet(t) \cup {h}
    BY <1>6, <1>8
  <2>12. PruneInv'
    BY <1>1, <1>3, <1>8, <2>2, <2>3, <2>4, <2>5, <2>8, <2>9, <2>10, <2>11 DEF PruneInv, I, M
  <2> QED BY <1>1, <1>2, <1>3, <2>12 DEF IInv
<1> QED BY <1>9, <1>10
\* The call at the top goes on to its next child.
Turned(I, s, n, e) ==
  /\ n \in Nat \ {0} /\ DOMAIN s = 1 .. n /\ s[n][1] \in I /\ s[n][2] \in Nat \ {0}
  /\ e \in Seq(I \X (Nat \ {0})) /\ Len(e) = n /\ DOMAIN e = 1 .. n
  /\ e[n] = <<s[n][1], s[n][2] + 1>>
  /\ \A k \in 1 .. n : k # n => e[k] = s[k]

LEMMA TurnIs ==
  ASSUME NEW I, NEW s \in Seq(I \X (Nat \ {0})), s # <<>>
  PROVE  Turned(I, s, Len(s), [s EXCEPT ![Len(s)][2] = @ + 1])
<1> DEFINE n == Len(s)
           e == [s EXCEPT ![n][2] = @ + 1]
           P == I \X (Nat \ {0})
           x == <<s[n][1], s[n][2] + 1>>
<1>1. /\ n \in Nat \ {0} /\ DOMAIN s = 1 .. n /\ n \in 1 .. n
      /\ \A k \in 1 .. n : s[k] \in P
  <2>1. Len(s) \in Nat /\ DOMAIN s = 1 .. Len(s) /\ Len(s) # 0 /\ \A k \in DOMAIN s : s[k] \in P
    BY ListIs
  <2> QED BY <2>1
<1>2. s[n] \in P
  BY <1>1
<1>3. s[n][1] \in I /\ s[n][2] \in Nat \ {0} /\ s[n] = <<s[n][1], s[n][2]>>
  BY <1>2
<1>4. [s[n] EXCEPT ![2] = @ + 1] = x
  BY <1>3
<1>5. e = [s EXCEPT ![n] = [s[n] EXCEPT ![2] = @ + 1]]
  BY <1>1
<1>6. x \in P
  BY <1>3
<1> HIDE DEF P, x, e, n
<1>7. e = [k \in 1 .. n |-> IF k = n THEN x ELSE s[k]]
  BY <1>1, <1>4, <1>5
<1>8. e \in [1 .. n -> P]
  BY <1>1, <1>6, <1>7
<1>9. e \in Seq(P) /\ Len(e) = n /\ DOMAIN e = 1 .. n
  BY <1>1, <1>8
<1>10. e[n] = x /\ \A k \in 1 .. n : k # n => e[k] = s[k]
  BY <1>1, <1>7
<1>11. Turned(I, s, n, e)
  BY <1>1, <1>3, <1>9, <1>10 DEF P, x, Turned
<1> QED BY <1>11 DEF n, e

\* The call at the top takes one use of a child away; the child that has none
\* left is next.
LEMMA RemoveChildKeeps ==
  ASSUME IInv, RemoveChild
  PROVE  IInv'
<1> DEFINE I == Ids(built)
           M == MadeOf(built, Keep)
           P == I \X (Nat \ {0})
           n == Len(stack)
           v == stack[n][1]
           i == stack[n][2]
           c == built.child[v][i]
           np == RemoveFirst(dag.parent[c], v)
           e == [stack EXCEPT ![n][2] = @ + 1]
           more == IF np = <<>> THEN <<<<c, 1>>>> ELSE <<>>
           new == IF np = <<>> THEN {c} ELSE {}
<1>1. /\ step = "prune" /\ step' = "prune" /\ stack # <<>>
      /\ i <= Len(dag.child[v])
      /\ dag' = RemoveParent(dag, dag.child[v][i], v)
      /\ stack' = e \o (IF dag'.parent[dag.child[v][i]] = <<>>
                          THEN <<<<dag.child[v][i], 1>>>> ELSE <<>>)
      /\ todo' = todo /\ built' = built /\ toDelete' = toDelete
      /\ failed' = failed /\ failBlk' = failBlk /\ levels' = levels /\ topo' = topo
  BY DEF RemoveChild, sorting, Top
<1>2. BuiltInv /\ PruneInv /\ failed \in SUBSET (0 .. ecn - 1) /\ failBlk \in failed
  BY <1>1 DEF IInv
<1>3. Keep' = Keep /\ BuiltInv'
  BY <1>1, <1>2 DEF BuiltInv, Keep
<1>4. /\ dag \in DagsOn(I) /\ dag.child = built.child
      /\ stack \in Seq(P) /\ toDelete \in SUBSET I /\ CallsOnce /\ UsesLeft
      /\ \A x \in Touched : dag.parent[x] = <<>>
      /\ Touched \cap M = {}
      /\ {x \in I \ Touched : dag.parent[x] = <<>>} = {Keep} \cup ToSet(todo)
      /\ DistinctEntries(dag.headers)
      /\ ToSet(dag.headers) = {Keep} \cup ToSet(todo) \cup Bottom
  BY <1>2 DEF PruneInv, PruneShape
<1>5. /\ n \in Nat \ {0} /\ DOMAIN stack = 1 .. n /\ n \in 1 .. n /\ v \in I /\ i \in Nat \ {0}
      /\ e \in Seq(P) /\ Len(e) = n /\ DOMAIN e = 1 .. n
      /\ e[n] = <<v, i + 1>> /\ \A k \in 1 .. n : k # n => e[k] = stack[k]
  <2>1. stack \in Seq(I \X (Nat \ {0})) /\ stack # <<>>
    BY <1>1, <1>4
  <2>2. Turned(I, stack, n, e)
    BY <2>1, TurnIs, Zenon
  <2> HIDE DEF n, e
  <2>3. /\ n \in Nat \ {0} /\ DOMAIN stack = 1 .. n /\ v \in I /\ i \in Nat \ {0}
        /\ e \in Seq(P) /\ Len(e) = n /\ DOMAIN e = 1 .. n
        /\ e[n] = <<v, i + 1>> /\ \A k \in 1 .. n : k # n => e[k] = stack[k]
    BY <2>2 DEF Turned
  <2>4. n \in 1 .. n
    BY <2>3
  <2> QED BY <2>3, <2>4
<1> HIDE DEF n, v, i, e
<1>6. /\ \A x \in I : built.child[x] \in Seq(I)
      /\ Good(built) /\ Keep \in I
  <2>1. Good(built) /\ Keep \in I
    BY <1>2 DEF BuiltInv
  <2>2. Shaped(built)
    BY <2>1 DEF Good
  <2>3. \A x \in I : built.child[x] \in Seq(I)
    BY <2>2, ShapeIs
  <2> QED BY <2>1, <2>3
<1>7. /\ \A x \in I : dag.parent[x] \in Seq(I)
      /\ dag = [child |-> dag.child, coefs |-> dag.coefs, parent |-> dag.parent, type |-> dag.type,
                headers |-> dag.headers, leaves |-> dag.leaves, concacts |-> dag.concacts]
      /\ dag.parent \in [I -> Seq(I)]
  BY <1>4 DEF DagsOn
<1>8. i \in 1 .. Len(built.child[v]) /\ c \in I
  <2>1. built.child[v] \in Seq(I)
    BY <1>5, <1>6
  <2>2. Len(built.child[v]) \in Nat /\ DOMAIN built.child[v] = 1 .. Len(built.child[v])
    BY <2>1, ListIs
  <2>3. i <= Len(built.child[v])
    BY <1>1, <1>4
  <2>4. i \in 1 .. Len(built.child[v])
    BY <1>5, <2>2, <2>3
  <2>5. built.child[v][i] \in I
    BY <2>1, <2>2, <2>4, ListIs
  <2> QED BY <1>4, <2>4, <2>5
<1>9. /\ dag' = [dag EXCEPT !.parent = [dag.parent EXCEPT ![c] = np]]
      /\ dag'.parent = [dag.parent EXCEPT ![c] = np]
      /\ dag'.parent[c] = np /\ \A x \in I : x # c => dag'.parent[x] = dag.parent[x]
  <2>1. dag' = [dag EXCEPT !.parent = [dag.parent EXCEPT ![c] = np]]
    BY <1>1, <1>4 DEF RemoveParent
  <2> HIDE DEF c, np
  <2>2. dag'.parent = [dag.parent EXCEPT ![c] = np]
    BY <1>7, <2>1
  <2> QED BY <1>7, <1>8, <2>1, <2>2
<1>10. stack' = e \o more
  BY <1>1, <1>4, <1>9
<1> HIDE DEF c, np, more
<1>11. /\ dag'.child = dag.child /\ dag'.coefs = dag.coefs /\ dag'.type = dag.type
       /\ dag'.headers = dag.headers /\ dag'.leaves = dag.leaves
       /\ (np \in Seq(I) => dag' \in DagsOn(I))
  <2>1. np \in Seq(I) => [dag.parent EXCEPT ![c] = np] \in [I -> Seq(I)]
    BY <1>7, <1>8
  <2> DEFINE q == [dag.parent EXCEPT ![c] = np]
  <2>2. dag' = [dag EXCEPT !.parent = q]
    BY <1>9
  <2> HIDE DEF q
  <2>3. q \in [I -> Seq(I)] => dag' \in DagsOn(I)
    BY <1>4, <2>2 DEF DagsOn
  <2>4. /\ dag'.child = dag.child /\ dag'.coefs = dag.coefs /\ dag'.type = dag.type
        /\ dag'.headers = dag.headers /\ dag'.leaves = dag.leaves
    BY <1>7, <2>2
  <2> QED BY <2>1, <2>3, <2>4 DEF q
<1>12. /\ \A x \in I : \A p \in toDelete : Times(dag.parent[x], p) = 0
       /\ \A x \in I : \A k \in 1 .. n :
            Times(dag.parent[x], stack[k][1]) = TimesFrom(built.child[stack[k][1]], stack[k][2], x)
       /\ \A x \in I : \A p \in I \ Touched : Times(dag.parent[x], p) = Times(built.child[p], x)
  BY <1>4, <1>5 DEF UsesLeft
<1>13. /\ \A k, l \in 1 .. n : stack[k][1] = stack[l][1] => k = l
       /\ Calls \cap toDelete = {} /\ Touched = toDelete \cup Calls
       /\ Calls = {stack[k][1] : k \in 1 .. n}
  BY <1>4, <1>5 DEF CallsOnce, Touched, Calls
<1>14. v \in Calls /\ v \notin toDelete /\ v \in Touched /\ Calls \subseteq I
  <2>1. v \in Calls
    BY <1>5, <1>13 DEF v
  <2>2. \A k \in 1 .. n : stack[k] \in P
    BY <1>4, <1>5, ListIs
  <2>3. \A k \in 1 .. n : stack[k][1] \in I
    BY <2>2
  <2> QED BY <1>13, <2>1, <2>3
<1>15. \A x \in I : /\ Times(dag.parent[x], v) = TimesFrom(built.child[v], i, x)
                    /\ TimesFrom(built.child[v], i, x) \in Nat
                    /\ TimesFrom(built.child[v], i + 1, x) \in Nat
                    /\ TimesFrom(built.child[v], i, x) =
                         TimesFrom(built.child[v], i + 1, x) + IF c = x THEN 1 ELSE 0
  <2> TAKE x \in I
  <2>1. Times(dag.parent[x], v) = TimesFrom(built.child[v], i, x)
    BY <1>5, <1>12 DEF v, i
  <2>2. built.child[v] \in Seq(I)
    BY <1>5, <1>6
  <2> QED BY <1>8, <2>1, <2>2, TimesFromIs DEF c
<1>16. v \in ToSet(dag.parent[c])
  <2>1. Times(dag.parent[c], v) # 0
    BY <1>8, <1>15
  <2> QED BY <1>7, <1>8, <2>1, TimesIs
<1>17. c \notin Touched /\ c # Keep /\ c \notin ToSet(todo) /\ c # v /\ dag.parent[c] # <<>>
  <2>1. dag.parent[c] # <<>>
    BY <1>16, EmptyTimes
  <2> QED BY <1>4, <1>14, <2>1
<1>18. np \in Seq(I) /\ \A q : Times(np, q) = Times(dag.parent[c], q) - IF v = q THEN 1 ELSE 0
  <2>1. dag.parent[c] \in Seq(I)
    BY <1>7, <1>8
  <2> QED BY <1>16, <2>1, RemoveFirstIs DEF np
<1>19. \A x \in I : \A q : q # v => Times(dag'.parent[x], q) = Times(dag.parent[x], q)
  <2> TAKE x \in I
  <2> TAKE q
  <2> HAVE q # v
  <2>1. CASE x = c
    <3>1. Times(dag.parent[c], q) \in Nat
      BY <1>7, <1>8, TimesIs
    <3>2. Times(np, q) = Times(dag.parent[c], q) - 0
      BY <1>18
    <3> QED BY <1>9, <2>1, <3>1, <3>2
  <2>2. CASE x # c
    BY <1>9, <2>2
  <2> QED BY <2>1, <2>2
<1>20. \A x \in I : Times(dag'.parent[x], v) = TimesFrom(built.child[v], i + 1, x)
  <2> TAKE x \in I
  <2>1. CASE x = c
    <3>1. Times(dag.parent[c], v) = TimesFrom(built.child[v], i + 1, c) + 1
      BY <1>8, <1>15
    <3>2. Times(np, v) = Times(dag.parent[c], v) - 1
      BY <1>18
    <3>3. TimesFrom(built.child[v], i + 1, c) \in Nat
      BY <1>8, <1>15
    <3> QED BY <1>9, <2>1, <3>1, <3>2, <3>3
  <2>2. CASE x # c
    <3>1. Times(dag.parent[x], v) = TimesFrom(built.child[v], i + 1, x) + 0
      BY <1>15, <2>2
    <3> QED BY <1>9, <1>15, <2>2, <3>1
  <2> QED BY <2>1, <2>2
<1> DEFINE m == IF np = <<>> THEN n + 1 ELSE n
<1>21. /\ stack' \in Seq(P) /\ DOMAIN (stack') = 1 .. m
       /\ stack'[n] = <<v, i + 1>> /\ \A k \in 1 .. n : k # n => stack'[k] = stack[k]
       /\ np = <<>> => stack'[n + 1] = <<c, 1>>
  <2>1. CASE np = <<>>
    <3> DEFINE o == <<<<c, 1>>>>
    <3>1. more = o
      BY <2>1 DEF more
    <3>2. o \in Seq(P) /\ Len(o) = 1 /\ o[1] = <<c, 1>>
      BY <1>8
    <3> HIDE DEF o, P
    <3>3. /\ e \o o \in Seq(P) /\ Len(e \o o) = n + 1
          /\ \A k \in 1 .. n : (e \o o)[k] = e[k]
          /\ (e \o o)[n + 1] = o[1]
      <4>1. e \in Seq(P) /\ o \in Seq(P)
        BY <1>5, <3>2
      <4>2. /\ e \o o \in Seq(P) /\ Len(e \o o) = Len(e) + Len(o)
            /\ \A k \in 1 .. Len(e) : (e \o o)[k] = e[k]
        BY <4>1, ConcatAt
      <4>3. \A k \in 1 .. Len(o) : (e \o o)[Len(e) + k] = o[k]
        BY <4>1, ConcatAt
      <4>4. 1 \in 1 .. Len(o)
        BY <3>2
      <4> QED BY <1>5, <3>2, <4>2, <4>3, <4>4
    <3>4. DOMAIN (e \o o) = 1 .. n + 1
      BY <3>3, ListIs
    <3> QED BY <1>5, <1>10, <2>1, <3>1, <3>2, <3>3, <3>4
  <2>2. CASE np # <<>>
    <3>1. more = <<>>
      BY <2>2 DEF more
    <3> HIDE DEF P
    <3>2. e \o <<>> = e
      BY <1>5
    <3> QED BY <1>5, <1>10, <2>2, <3>1, <3>2
  <2> QED BY <2>1, <2>2
<1>22. m \in Nat /\ \A k \in 1 .. m : k \in 1 .. n \/ (k = n + 1 /\ np = <<>>)
  BY <1>5
<1>23. \A k \in 1 .. n : k \in 1 .. m
  BY <1>5
<1>24. np = <<>> => n + 1 \in 1 .. m
  BY <1>5
<1> HIDE DEF m, I, M, P
<1>25. \A k \in 1 .. n : stack'[k][1] = stack[k][1]
  BY <1>5, <1>21 DEF v
<1>26. Calls' = Calls \cup new
  <2>1. Calls' = {stack'[k][1] : k \in 1 .. m}
    BY <1>21 DEF Calls
  <2>2. \A k \in 1 .. m : stack'[k][1] \in Calls \cup new
    BY <1>13, <1>21, <1>22, <1>25
  <2>3. \A k \in 1 .. n : stack[k][1] \in Calls'
    BY <1>23, <1>25, <2>1
  <2>4. new \subseteq Calls'
    BY <1>21, <1>24, <2>1
  <2> HIDE DEF new
  <2> QED BY <1>13, <2>1, <2>2, <2>3, <2>4
<1>27. Touched' = Touched \cup new
  BY <1>1, <1>26 DEF Touched
<1>28. PruneShape'
  <2>1. dag' \in DagsOn(Ids(built'))
    BY <1>1, <1>11, <1>18 DEF I
  <2> QED BY <1>1, <1>2, <1>11, <1>21, <2>1 DEF PruneInv, PruneShape, I, P
<1>29. CallsOnce'
  <2>1. \A k \in 1 .. n : stack[k][1] # c
    BY <1>13, <1>17
  <2>2. \A k, l \in 1 .. m : stack'[k][1] = stack'[l][1] => k = l
    <3>1. \A k \in 1 .. m : k = n + 1 => stack'[k][1] = c
      BY <1>5, <1>21, <1>22
    <3> QED BY <1>13, <1>22, <1>25, <2>1, <3>1
  <2>3. Calls' \cap toDelete' = {}
    BY <1>1, <1>13, <1>17, <1>26
  <2> QED BY <1>21, <2>2, <2>3 DEF CallsOnce
<1>30. UsesLeft'
  <2>1. \A x \in I : \A p \in toDelete : Times(dag'.parent[x], p) = 0
    BY <1>12, <1>14, <1>19
  <2>2. ASSUME NEW x \in I, NEW k \in 1 .. m
        PROVE  Times(dag'.parent[x], stack'[k][1]) =
                 TimesFrom(built.child[stack'[k][1]], stack'[k][2], x)
    <3>1. CASE k = n
      BY <1>20, <1>21, <3>1
    <3>2. CASE k \in 1 .. n /\ k # n
      <4>1. stack'[k] = stack[k] /\ stack[k][1] # v
        BY <1>5, <1>13, <1>21, <3>2 DEF v
      <4> QED BY <1>12, <1>19, <3>2, <4>1
    <3>3. CASE k = n + 1 /\ np = <<>>
      <4>1. stack'[k] = <<c, 1>>
        BY <1>21, <3>3
      <4>2. Times(dag'.parent[x], c) = Times(built.child[c], x)
        BY <1>8, <1>12, <1>17, <1>19
      <4>3. TimesFrom(built.child[c], 1, x) = Times(built.child[c], x)
        BY <1>6, <1>8, TimesFromIs
      <4> QED BY <4>1, <4>2, <4>3
    <3> QED BY <1>22, <3>1, <3>2, <3>3
  <2>3. \A x \in I : \A p \in I \ Touched' : Times(dag'.parent[x], p) = Times(built.child[p], x)
    BY <1>12, <1>14, <1>19, <1>27
  <2> QED BY <1>1, <1>21, <2>1, <2>2, <2>3 DEF UsesLeft, I
<1>31. \A x \in Touched' : dag'.parent[x] = <<>>
  <2>1. Touched \subseteq I
    BY <1>4, <1>13, <1>14
  <2>2. \A x \in Touched : dag'.parent[x] = <<>>
    BY <1>4, <1>9, <1>17, <2>1
  <2> QED BY <1>9, <1>27, <2>2
<1>32. Touched' \cap M = {}
  <2>1. ASSUME np = <<>> PROVE c \notin M
    <3>1. \A p \in I \ Touched : Times(np, p) = Times(built.child[p], c)
      <4>1. \A p \in I \ Touched : p # v
        BY <1>14
      <4> QED BY <1>8, <1>9, <1>12, <1>19, <4>1
    <3>2. Unused(built, Keep, Touched, c)
      BY <1>4, <1>6, <1>8, <1>17, <2>1, <3>1 DEF Unused, I, M
    <3> QED BY <3>2, NotMade DEF M
  <2> QED BY <1>4, <1>27, <2>1
<1>33. {x \in I \ Touched' : dag'.parent[x] = <<>>} = {Keep} \cup ToSet(todo)
  <2>1. ASSUME NEW x \in I
        PROVE  x \notin Touched' /\ dag'.parent[x] = <<>> <=> x \notin Touched /\ dag.parent[x] = <<>>
    <3>1. CASE x = c
      BY <1>9, <1>17, <1>27, <3>1
    <3>2. CASE x # c
      BY <1>9, <1>27, <3>2
    <3> QED BY <3>1, <3>2
  <2>2. {x \in I \ Touched' : dag'.parent[x] = <<>>} = {x \in I \ Touched : dag.parent[x] = <<>>}
    BY <2>1
  <2> QED BY <1>4, <2>2
<1>34. Bottom' = Bottom
  <2>1. 1 \in 1 .. n /\ 1 \in DOMAIN (stack')
    BY <1>5, <1>21, <1>23
  <2>2. stack' # <<>>
    BY <2>1
  <2> QED BY <1>1, <1>25, <2>1, <2>2 DEF Bottom
<1>35. PruneInv'
  BY <1>1, <1>3, <1>4, <1>11, <1>28, <1>29, <1>30, <1>31, <1>32, <1>33, <1>34 DEF PruneInv, I, M
<1> QED BY <1>1, <1>2, <1>3, <1>35 DEF IInv

\* All uses by the vertex at the top are gone.
LEMMA RemoveReturnsKeeps ==
  ASSUME IInv, RemoveReturns
  PROVE  IInv'
<1> DEFINE I == Ids(built)
           M == MadeOf(built, Keep)
           P == I \X (Nat \ {0})
           n == Len(stack)
           v == stack[n][1]
           i == stack[n][2]
           r == Front(stack)
<1>1. /\ step = "prune" /\ step' = "prune" /\ stack # <<>>
      /\ i > Len(dag.child[v]) /\ toDelete' = toDelete \cup {v} /\ stack' = r
      /\ dag' = IF n = 1 THEN RemoveNode(dag, v) ELSE dag
      /\ todo' = todo /\ built' = built
      /\ failed' = failed /\ failBlk' = failBlk /\ levels' = levels /\ topo' = topo
  BY DEF RemoveReturns, sorting, Top
<1>2. BuiltInv /\ PruneInv /\ failed \in SUBSET (0 .. ecn - 1) /\ failBlk \in failed
  BY <1>1 DEF IInv
<1>3. Keep' = Keep /\ BuiltInv'
  BY <1>1, <1>2 DEF BuiltInv, Keep
<1>4. /\ dag \in DagsOn(I) /\ dag.child = built.child
      /\ stack \in Seq(P) /\ toDelete \in SUBSET I /\ CallsOnce /\ UsesLeft
      /\ \A x \in Touched : dag.parent[x] = <<>>
      /\ Touched \cap M = {}
      /\ {x \in I \ Touched : dag.parent[x] = <<>>} = {Keep} \cup ToSet(todo)
      /\ DistinctEntries(dag.headers)
      /\ ToSet(dag.headers) = {Keep} \cup ToSet(todo) \cup Bottom
  BY <1>2 DEF PruneInv, PruneShape
<1>5. /\ n \in Nat \ {0} /\ DOMAIN stack = 1 .. n
      /\ r \in Seq(P) /\ DOMAIN r = 1 .. n - 1 /\ \A k \in 1 .. n - 1 : r[k] = stack[k]
  <2>1. stack \in Seq(P) /\ stack # <<>>
    BY <1>1, <1>4
  <2> HIDE DEF P, v, i
  <2> QED BY <2>1, FrontIs
<1>6. /\ n \in 1 .. n /\ \A k \in 1 .. n : k = n \/ k \in 1 .. n - 1
      /\ \A k \in 1 .. n - 1 : k \in 1 .. n /\ k # n
  <2>1. n \in Nat \ {0}
    BY <1>5
  <2> HIDE DEF n, r, P, v, i
  <2> QED BY <2>1
<1>7. \A k \in 1 .. n : stack[k] \in P
  BY <1>4, <1>5, ListIs
<1> HIDE DEF r
<1>8. v \in I /\ i \in Nat \ {0} /\ \A k \in 1 .. n : stack[k][1] \in I
  BY <1>6, <1>7
<1> HIDE DEF n, v, i
<1>9. /\ \A k, l \in 1 .. n : stack[k][1] = stack[l][1] => k = l
      /\ Calls \cap toDelete = {} /\ Touched = toDelete \cup Calls
      /\ Calls = {stack[k][1] : k \in 1 .. n}
  BY <1>4, <1>5 DEF CallsOnce, Touched, Calls
<1>10. v \in Calls /\ v \notin toDelete /\ v \in Touched
  BY <1>6, <1>9 DEF v
<1>11. Calls' = Calls \ {v} /\ Touched' = Touched
  <2>1. Calls' = {r[k][1] : k \in 1 .. n - 1}
    BY <1>1, <1>5 DEF Calls
  <2>2. \A k \in 1 .. n - 1 : r[k][1] = stack[k][1] /\ stack[k][1] # v
    BY <1>5, <1>6, <1>9 DEF v
  <2>3. \A k \in 1 .. n : stack[k][1] = v \/ k \in 1 .. n - 1
    BY <1>6 DEF v
  <2>4. Calls' \subseteq Calls \ {v}
    BY <1>6, <1>9, <2>1, <2>2
  <2>5. Calls \ {v} \subseteq Calls'
    BY <1>9, <2>1, <2>2, <2>3
  <2>6. Calls' = Calls \ {v}
    BY <2>4, <2>5
  <2> QED BY <1>1, <1>9, <1>10, <2>6 DEF Touched
<1>12. /\ dag'.child = dag.child /\ dag'.coefs = dag.coefs /\ dag'.type = dag.type
       /\ dag'.parent = dag.parent /\ dag'.leaves = dag.leaves
       /\ dag' \in DagsOn(I)
       /\ DistinctEntries(dag'.headers)
       /\ ToSet(dag'.headers) = {Keep} \cup ToSet(todo) \cup Bottom'
  <2>1. CASE n = 1
    <3> DEFINE h == RemoveFirst(dag.headers, v)
    <3>1. v \notin {Keep} \cup ToSet(todo)
      BY <1>4, <1>10
    <3>2. stack[1][1] = v
      BY <2>1 DEF v
    <3>3. Bottom = {v}
      BY <1>1, <3>2 DEF Bottom
    <3>4. dag.headers \in Seq(I)
      BY <1>4 DEF DagsOn
    <3>5. v \in ToSet(dag.headers)
      BY <1>4, <3>3
    <3>6. h \in Seq(I) /\ DistinctEntries(h) /\ ToSet(h) = ToSet(dag.headers) \ {v}
      BY <1>4, <3>4, <3>5, RemoveFirstOnce
    <3>7. dag' = [dag EXCEPT !.headers = h]
      BY <1>1, <2>1 DEF RemoveNode
    <3> HIDE DEF h
    <3>8. /\ dag'.child = dag.child /\ dag'.coefs = dag.coefs /\ dag'.type = dag.type
          /\ dag'.parent = dag.parent /\ dag'.leaves = dag.leaves
          /\ dag' \in DagsOn(I) /\ dag'.headers = h
      BY <1>4, <3>6, <3>7 DEF DagsOn
    <3>9. stack' = <<>>
      <4>1. r = <<>>
        <5>1. ~(1 \in 1 .. n - 1)
          BY <2>1
        <5>2. Len(r) \in Nat /\ DOMAIN r = 1 .. Len(r) /\ (r = <<>> <=> Len(r) = 0)
          BY <1>5, ListIs
        <5>3. ~(1 \in 1 .. Len(r))
          BY <1>5, <5>1, <5>2
        <5> QED BY <5>2, <5>3
      <4> QED BY <1>1, <4>1
    <3>10. Bottom' = {}
      BY <3>9 DEF Bottom
    <3> QED BY <1>4, <3>1, <3>3, <3>6, <3>8, <3>10
  <2>2. CASE n # 1
    <3>1. 1 \in 1 .. n - 1
      BY <1>5, <2>2
    <3>2. stack' # <<>> /\ stack'[1] = stack[1]
      BY <1>1, <1>5, <3>1
    <3>3. Bottom' = Bottom
      BY <1>1, <3>2 DEF Bottom
    <3> QED BY <1>1, <1>4, <2>2, <3>3
  <2> QED BY <2>1, <2>2
<1>13. PruneShape'
  <2>1. toDelete' \in SUBSET I /\ stack' \in Seq(P)
    BY <1>1, <1>4, <1>5, <1>8
  <2>2. dag' \in DagsOn(Ids(built'))
    BY <1>1, <1>12
  <2> QED BY <1>1, <1>2, <1>12, <2>1, <2>2 DEF PruneInv, PruneShape
<1>14. CallsOnce'
  <2>1. \A k, l \in 1 .. n - 1 : r[k][1] = r[l][1] => k = l
    BY <1>5, <1>6, <1>9
  <2>2. Calls' \cap toDelete' = {}
    BY <1>1, <1>9, <1>11
  <2> QED BY <1>1, <1>5, <2>1, <2>2 DEF CallsOnce
<1>15. UsesLeft'
  <2>1. /\ \A c \in I : \A p \in toDelete : Times(dag.parent[c], p) = 0
        /\ \A c \in I : \A k \in 1 .. n :
             Times(dag.parent[c], stack[k][1]) = TimesFrom(built.child[stack[k][1]], stack[k][2], c)
        /\ \A c \in I : \A p \in I \ Touched : Times(dag.parent[c], p) = Times(built.child[p], c)
    BY <1>4, <1>5 DEF UsesLeft
  <2>2. \A c \in I : Times(dag.parent[c], v) = 0
    <3> TAKE c \in I
    <3>1. Times(dag.parent[c], v) = TimesFrom(built.child[v], i, c)
      BY <1>6, <2>1 DEF v, i
    <3>2. built.child[v] \in Seq(I)
      BY <1>2, <1>8, ShapeIs DEF BuiltInv, Good
    <3>3. TimesFrom(built.child[v], i, c) = 0
      BY <1>1, <1>4, <1>8, <3>2, TimesFromIs
    <3> QED BY <3>1, <3>3
  <2>3. \A c \in I : \A p \in toDelete \cup {v} : Times(dag.parent[c], p) = 0
    BY <2>1, <2>2
  <2>4. \A c \in I : \A k \in 1 .. n - 1 :
          Times(dag.parent[c], r[k][1]) = TimesFrom(built.child[r[k][1]], r[k][2], c)
    BY <1>5, <1>6, <2>1
  <2> QED BY <1>1, <1>5, <1>11, <1>12, <2>1, <2>3, <2>4 DEF UsesLeft
<1>16. PruneInv'
  BY <1>1, <1>3, <1>4, <1>11, <1>12, <1>13, <1>14, <1>15 DEF PruneInv
<1> QED BY <1>1, <1>2, <1>3, <1>16 DEF IInv
-----------------------------------------------------------------------------
(***************************************************************************)
(* What the prune leaves: T has been taken out of b, as d says.            *)
(***************************************************************************)
Prunable(b, d, T, keep) ==
  /\ Good(b) /\ keep \in Ids(b) /\ b.parent[keep] = <<>>
  /\ d \in DagsOn(Ids(b))
  /\ d.child = b.child /\ d.coefs = b.coefs /\ d.type = b.type /\ d.leaves = b.leaves
  /\ T \in SUBSET Ids(b) /\ T \cap MadeOf(b, keep) = {}
  /\ \A v \in Ids(b) : \A p \in T : Times(d.parent[v], p) = 0
  /\ \A v \in Ids(b) : \A p \in Ids(b) \ T : Times(d.parent[v], p) = Times(b.child[p], v)
  /\ {v \in Ids(b) \ T : d.parent[v] = <<>>} = {keep}
  /\ DistinctEntries(d.headers) /\ ToSet(d.headers) = {keep}

\* A vertex other than the root that is left is used by one that is left.
LEMMA LeftIsUsed ==
  ASSUME NEW b, NEW d, NEW T, NEW keep, Prunable(b, d, T, keep)
  PROVE  /\ \A v \in Ids(b) : ToSet(d.parent[v]) \subseteq Ids(b) \ T
         /\ \A v \in Ids(b) : \A p \in ToSet(d.parent[v]) : v \in ToSet(b.child[p])
         /\ \A v \in Ids(b) \ T : v # keep => \E p \in Ids(b) \ T : v \in ToSet(b.child[p])
<1> DEFINE I == Ids(b)
<1>1. /\ Shaped(b) /\ d \in DagsOn(I) /\ {v \in I \ T : d.parent[v] = <<>>} = {keep}
      /\ \A v \in I : \A p \in T : Times(d.parent[v], p) = 0
      /\ \A v \in I : \A p \in I \ T : Times(d.parent[v], p) = Times(b.child[p], v)
  BY DEF Prunable, Good
<1>2. \A v \in I : d.parent[v] \in Seq(I) /\ b.child[v] \in Seq(I)
  BY <1>1, ShapeIs DEF DagsOn
<1> HIDE DEF I
<1>3. \A v \in I : /\ ToSet(d.parent[v]) \subseteq I
                   /\ \A q : Times(d.parent[v], q) = 0 <=> q \notin ToSet(d.parent[v])
                   /\ d.parent[v] # <<>> => ToSet(d.parent[v]) # {}
  <2> TAKE v \in I
  <2>1. d.parent[v] \in Seq(I)
    BY <1>2
  <2>2. ToSet(d.parent[v]) \in SUBSET I /\ (d.parent[v] = <<>> <=> ToSet(d.parent[v]) = {})
    BY <2>1, ListIs
  <2>3. \A q : Times(d.parent[v], q) = 0 <=> q \notin ToSet(d.parent[v])
    BY <2>1, TimesIs
  <2> QED BY <2>2, <2>3
<1>4. \A v \in I : \A q : Times(b.child[v], q) = 0 <=> q \notin ToSet(b.child[v])
  BY <1>2, TimesIs
<1>5. \A v \in I : ToSet(d.parent[v]) \subseteq I \ T
  BY <1>1, <1>3
<1>6. \A v \in I : \A p \in ToSet(d.parent[v]) : v \in ToSet(b.child[p])
  <2> TAKE v \in I
  <2> TAKE p \in ToSet(d.parent[v])
  <2>1. p \in I \ T
    BY <1>5
  <2>2. Times(d.parent[v], p) = Times(b.child[p], v) /\ Times(d.parent[v], p) # 0
    BY <1>1, <1>3, <2>1
  <2> QED BY <1>4, <2>1, <2>2
<1>7. \A v \in I \ T : v # keep => \E p \in I \ T : v \in ToSet(b.child[p])
  <2> TAKE v \in I \ T
  <2> HAVE v # keep
  <2>1. d.parent[v] # <<>>
    BY <1>1
  <2>2. PICK p \in ToSet(d.parent[v]) : TRUE
    BY <1>3, <2>1
  <2> QED BY <1>5, <1>6, <2>2
<1> QED BY <1>5, <1>6, <1>7 DEF I

LEMMA LeftIsMade ==
  ASSUME NEW b, NEW d, NEW T, NEW keep, Prunable(b, d, T, keep)
  PROVE  Ids(b) \ T = MadeOf(b, keep)
<1> DEFINE I == Ids(b)
           M == MadeOf(b, keep)
           S == (I \ T) \ M
<1>1. StartsAt(b, keep, M) /\ IsClosed(b, M)
  BY MadeOfIs DEF Prunable, Good
<1>2. M \subseteq I /\ keep \in M /\ T \cap M = {}
  BY <1>1 DEF StartsAt, Prunable
<1>3. \A v \in I \ T : v # keep => \E p \in I \ T : v \in ToSet(b.child[p])
  BY LeftIsUsed
<1>4. ASSUME S # {} PROVE FALSE
  <2>1. PICK v \in S : \A u \in S : v \notin ToSet(b.child[u])
    BY <1>4 DEF Prunable, Good, Topped
  <2>2. PICK p \in I \ T : v \in ToSet(b.child[p])
    BY <1>2, <1>3, <2>1
  <2>3. p \in M
    BY <2>1, <2>2
  <2> QED BY <1>1, <2>1, <2>2, <2>3 DEF IsClosed
<1> QED BY <1>2, <1>4

LEMMA DeletedIs ==
  ASSUME NEW b, NEW d, NEW T, NEW keep, Prunable(b, d, T, keep), NEW r, r = DeleteUseless(d, T)
  PROVE  /\ Ids(r) = MadeOf(b, keep)
         /\ \A v \in Ids(r) : r.child[v] = b.child[v] /\ r.coefs[v] = b.coefs[v]
         /\ r.headers = <<keep>> /\ WellFormed(r)
         /\ Shaped(r) /\ Grounded(r)
<1> DEFINE I == Ids(b)
           M == MadeOf(b, keep)
           U == {v \in T : d.type[v] = "leaf"}
           lv == Outside(d.leaves, U)
<1>1. /\ Shaped(b) /\ WellFormed(b) /\ Grounded(b) /\ Needed(b)
      /\ keep \in I /\ b.parent[keep] = <<>>
      /\ d \in DagsOn(I) /\ d.child = b.child /\ d.coefs = b.coefs /\ d.type = b.type
      /\ d.leaves = b.leaves /\ T \in SUBSET I
      /\ \A v \in I : \A p \in I \ T : Times(d.parent[v], p) = Times(b.child[p], v)
      /\ {v \in I \ T : d.parent[v] = <<>>} = {keep}
      /\ DistinctEntries(d.headers) /\ ToSet(d.headers) = {keep}
  BY DEF Prunable, Good
<1>2. I \ T = M /\ M \subseteq I /\ keep \in M
  <2>1. I \ T = M
    BY LeftIsMade
  <2>2. keep \in {v \in I \ T : d.parent[v] = <<>>}
    BY <1>1
  <2> QED BY <2>1, <2>2
<1>3. /\ I \in SUBSET Int /\ IsFiniteSet(I) /\ DOMAIN d.child = I
      /\ \A v \in I : /\ d.child[v] \in Seq(I) /\ d.parent[v] \in Seq(I)
                      /\ d.coefs[v] \in Seq(Int) /\ d.type[v] \in Types
      /\ d.headers \in Seq(I) /\ d.leaves \in Seq(I) /\ d.concacts \in Seq(Int)
  BY <1>1 DEF DagsOn, Shaped
<1>4. Ids(d) \ T = M
  BY <1>2, <1>3 DEF Ids
<1>5. /\ r.child = [v \in M |-> d.child[v]] /\ r.coefs = [v \in M |-> d.coefs[v]]
      /\ r.parent = [v \in M |-> d.parent[v]] /\ r.type = [v \in M |-> d.type[v]]
      /\ r.leaves = lv /\ r.headers = d.headers /\ r.concacts = d.concacts
      /\ r = [child |-> r.child, coefs |-> r.coefs, parent |-> r.parent, type |-> r.type,
              headers |-> r.headers, leaves |-> r.leaves, concacts |-> r.concacts]
  <2> HIDE DEF lv, M
  <2>1. d = [child |-> d.child, coefs |-> d.coefs, parent |-> d.parent, type |-> d.type,
             headers |-> d.headers, leaves |-> d.leaves, concacts |-> d.concacts]
    BY <1>1 DEF DagsOn
  <2> DEFINE c == [v \in M |-> d.child[v]]
             f == [v \in M |-> d.coefs[v]]
             p == [v \in M |-> d.parent[v]]
             t == [v \in M |-> d.type[v]]
  <2>2. r = [d EXCEPT !.child = c, !.coefs = f, !.parent = p, !.type = t, !.leaves = lv]
    BY <1>4 DEF DeleteUseless, lv
  <2> HIDE DEF c, f, p, t
  <2>3. /\ r.child = c /\ r.coefs = f /\ r.parent = p /\ r.type = t
        /\ r.leaves = lv /\ r.headers = d.headers /\ r.concacts = d.concacts
        /\ r = [child |-> r.child, coefs |-> r.coefs, parent |-> r.parent, type |-> r.type,
                headers |-> r.headers, leaves |-> r.leaves, concacts |-> r.concacts]
    BY <2>1, <2>2
  <2> QED BY <2>3 DEF c, f, p, t
<1> HIDE DEF lv, M, I, U
<1>6. Ids(r) = M
  BY <1>5 DEF Ids
<1>7. \A v \in M : ToSet(b.child[v]) \subseteq M /\ ToSet(d.parent[v]) \subseteq M
  <2>1. IsClosed(b, M)
    BY <1>1, MadeOfIs DEF M, I
  <2>2. \A v \in I : ToSet(d.parent[v]) \subseteq I \ T
    BY LeftIsUsed DEF I
  <2> QED BY <1>2, <2>1, <2>2 DEF IsClosed
<1>8. \A s \in Seq(I) : ToSet(s) \subseteq M => s \in Seq(M)
  <2> TAKE s \in Seq(I)
  <2> HAVE ToSet(s) \subseteq M
  <2>1. s \in Seq(ToSet(s))
    BY RangeSeq
  <2> QED BY <2>1, WiderSeq
<1>9. d.headers \in Seq(M) /\ d.headers = <<keep>>
  <2>1. ToSet(d.headers) \subseteq M
    BY <1>1, <1>2
  <2> QED BY <1>1, <1>3, <1>8, <2>1, OneEntry
<1>10. /\ DistinctEntries(b.leaves) /\ ToSet(b.leaves) = {v \in I : b.child[v] = <<>>}
       /\ \A v \in I : b.type[v] = IF b.parent[v] = <<>> THEN "root"
                                   ELSE IF b.child[v] = <<>> THEN "leaf" ELSE "intermediate"
  BY <1>1 DEF WellFormed, ListsAgree, I
<1>11. /\ lv \in Seq(M) /\ DistinctEntries(lv) /\ ToSet(lv) = {v \in M : b.child[v] = <<>>}
  <2>1. /\ lv \in Seq(I) /\ ToSet(lv) = ToSet(d.leaves) \ U /\ DistinctEntries(lv)
    BY <1>1, <1>3, <1>10, OutsideIs DEF lv
  <2>2. \A v \in T : v \in ToSet(b.leaves) => v \in U
    <3> TAKE v \in T
    <3> HAVE v \in ToSet(b.leaves)
    <3>1. v \in I /\ b.child[v] = <<>>
      BY <1>10
    <3>2. b.parent[v] # <<>>
      BY <1>1, <3>1 DEF Needed, I
    <3>3. b.type[v] = "leaf"
      BY <1>10, <3>1, <3>2
    <3> QED BY <1>1, <3>3 DEF U
  <2>3. U \subseteq T
    BY DEF U
  <2>4. \A v : v \in ToSet(lv) <=> v \in M /\ b.child[v] = <<>>
    BY <1>1, <1>2, <1>10, <2>1, <2>2, <2>3
  <2>5. ToSet(lv) \subseteq M
    BY <2>4
  <2>6. ToSet(lv) = {v \in M : b.child[v] = <<>>}
    BY <2>4
  <2> QED BY <1>8, <2>1, <2>5, <2>6
<1>12. /\ r.child \in [M -> Seq(M)] /\ r.parent \in [M -> Seq(M)]
       /\ r.coefs \in [M -> Seq(Int)] /\ r.type \in [M -> Types]
  <2>1. \A v \in M : d.child[v] \in Seq(M) /\ d.parent[v] \in Seq(M)
    BY <1>1, <1>2, <1>3, <1>7, <1>8
  <2> QED BY <1>2, <1>3, <1>5, <2>1
<1>13. Shaped(r)
  <2>1. r \in DagsOn(M)
    BY <1>3, <1>5, <1>9, <1>11, <1>12 DEF DagsOn
  <2>2. M \in SUBSET Int /\ IsFiniteSet(M)
    BY <1>2, <1>3, FS_Subset
  <2> QED BY <1>6, <2>1, <2>2 DEF Shaped
<1>14. \A v \in M : /\ r.child[v] = b.child[v] /\ r.coefs[v] = b.coefs[v]
                    /\ r.parent[v] = d.parent[v] /\ r.type[v] = b.type[v]
  BY <1>1, <1>5
<1>15. Grounded(r)
  BY <1>1, <1>2, <1>6, <1>14 DEF Grounded, I
<1>16. UsesRecorded(r)
  <2>1. \A v, p \in M : Times(d.parent[v], p) = Times(b.child[p], v)
    BY <1>1, <1>2
  <2> QED BY <1>6, <1>14, <2>1 DEF UsesRecorded
<1>17. ListsAgree(r)
  <2>1. {v \in M : r.parent[v] = <<>>} = {keep}
    BY <1>1, <1>2, <1>14
  <2>2. \A v \in M : b.parent[v] = <<>> <=> d.parent[v] = <<>>
    <3> TAKE v \in M
    <3>1. CASE v = keep
      BY <1>1, <1>2, <1>14, <2>1, <3>1
    <3>2. CASE v # keep
      <4>1. d.parent[v] # <<>>
        BY <1>14, <2>1, <3>2
      <4>2. PICK p \in I \ T : v \in ToSet(b.child[p])
        BY <1>2, <3>2, LeftIsUsed DEF I
      <4>3. Times(b.parent[v], p) = Times(b.child[p], v)
        BY <1>1, <1>2, <4>2 DEF WellFormed, UsesRecorded, I
      <4>4. Times(b.child[p], v) # 0
        <5>1. b.child[p] \in Seq(I)
          BY <1>1, <1>3, <4>2
        <5> QED BY <4>2, <5>1, TimesIs
      <4>5. b.parent[v] # <<>>
        BY <4>3, <4>4, EmptyTimes
      <4> QED BY <4>1, <4>5
    <3> QED BY <3>1, <3>2
  <2>3. \A v \in M : r.type[v] = IF r.parent[v] = <<>> THEN "root"
                                 ELSE IF r.child[v] = <<>> THEN "leaf" ELSE "intermediate"
    BY <1>2, <1>10, <1>14, <2>2
  <2>4. ToSet(r.headers) = {v \in M : r.parent[v] = <<>>} /\ DistinctEntries(r.headers)
    BY <1>1, <1>5, <2>1
  <2>5. ToSet(r.leaves) = {v \in M : r.child[v] = <<>>} /\ DistinctEntries(r.leaves)
    BY <1>5, <1>11, <1>14
  <2> QED BY <1>6, <2>3, <2>4, <2>5 DEF ListsAgree
<1>18. WellFormed(r)
  BY <1>13, <1>16, <1>17, ShapeCloses DEF WellFormed
<1> QED BY <1>5, <1>6, <1>9, <1>13, <1>14, <1>15, <1>18 DEF M

LEMMA AllWait ==
  ASSUME NEW d, Shaped(d), NEW p \in Ids(d)
  PROVE  Waiting(d, p, {}) = Len(d.child[p])
<1> DEFINE m == Len(d.child[p])
<1>1. m \in Nat /\ DOMAIN d.child[p] = 1 .. m
  <2>1. d.child[p] \in Seq(Ids(d))
    BY ShapeIs
  <2> QED BY <2>1, ListIs
<1>2. {k \in DOMAIN d.child[p] : d.child[p][k] \notin {}} = 1 .. m
  BY <1>1
<1> HIDE DEF m
<1>3. Cardinality(1 .. m) = m
  BY <1>1, FS_Interval
<1> QED BY <1>2, <1>3 DEF Waiting, m

LEMMA DeleteStepKeeps ==
  ASSUME IInv, DeleteStep
  PROVE  IInv'
<1>1. /\ step = "prune" /\ step' = "level" /\ stack = <<>> /\ todo = <<>>
      /\ dag' = DeleteUseless(dag, toDelete) /\ inref' = InRefs(dag') /\ built' = built
      /\ failed' = failed /\ failBlk' = failBlk /\ levels' = levels /\ topo' = topo
  BY DEF DeleteStep
<1>2. BuiltInv /\ PruneInv /\ failed \in SUBSET (0 .. ecn - 1) /\ failBlk \in failed
  BY <1>1 DEF IInv
<1>3. Keep' = Keep /\ BuiltInv'
  BY <1>1, <1>2 DEF BuiltInv, Keep
<1>4. Touched = toDelete /\ Bottom = {} /\ ToSet(todo) = {}
  <2>1. DOMAIN <<>> = {}
    OBVIOUS
  <2>2. ToSet(<<>>) = {}
    BY EmptyTimes
  <2> QED BY <1>1, <2>1, <2>2 DEF Touched, Calls, Bottom
<1>5. Prunable(built, dag, toDelete, Keep)
  <2>1. /\ Good(built) /\ Keep \in Ids(built) /\ built.parent[Keep] = <<>>
    BY <1>2 DEF BuiltInv
  <2>2. /\ dag \in DagsOn(Ids(built)) /\ dag.child = built.child /\ dag.coefs = built.coefs
        /\ dag.type = built.type /\ dag.leaves = built.leaves /\ toDelete \in SUBSET Ids(built)
    BY <1>2 DEF PruneInv, PruneShape
  <2>3. /\ \A v \in Ids(built) : \A p \in toDelete : Times(dag.parent[v], p) = 0
        /\ \A v \in Ids(built) : \A p \in Ids(built) \ toDelete :
             Times(dag.parent[v], p) = Times(built.child[p], v)
    BY <1>2, <1>4 DEF PruneInv, UsesLeft
  <2>4. /\ toDelete \cap MadeOf(built, Keep) = {}
        /\ {v \in Ids(built) \ toDelete : dag.parent[v] = <<>>} = {Keep}
        /\ DistinctEntries(dag.headers) /\ ToSet(dag.headers) = {Keep}
    BY <1>2, <1>4 DEF PruneInv
  <2> QED BY <2>1, <2>2, <2>3, <2>4 DEF Prunable
<1>6. /\ Ids(dag') = MadeOf(built, Keep)
      /\ \A v \in Ids(dag') : dag'.child[v] = built.child[v] /\ dag'.coefs[v] = built.coefs[v]
      /\ dag'.headers = <<Keep>> /\ WellFormed(dag') /\ Shaped(dag') /\ Grounded(dag')
  BY <1>1, <1>5, DeletedIs
<1>7. Pruned'
  BY <1>1, <1>3, <1>6 DEF Pruned
<1>8. levels' = <<>> /\ topo' = <<>> /\ PlacedIn(levels') = {}
  <2>1. levels' = <<>> /\ topo' = <<>>
    BY <1>1, <1>2 DEF PruneInv, PruneShape
  <2> QED BY <2>1 DEF PlacedIn
<1>9. LevelsOK(dag', levels')
  BY <1>8 DEF LevelsOK
<1>10. inref' = [p \in Ids(dag') \ PlacedIn(levels') |-> Waiting(dag', p, PlacedIn(levels'))]
  <2>1. \A p \in Ids(dag') : Waiting(dag', p, {}) = Len(dag'.child[p])
    <3> DEFINE d == dag'
    <3>1. Shaped(d)
      BY <1>6
    <3> HIDE DEF d
    <3>2. \A p \in Ids(d) : Waiting(d, p, {}) = Len(d.child[p])
      BY <3>1, AllWait
    <3> QED BY <3>2 DEF d
  <2> QED BY <1>1, <1>8, <2>1 DEF InRefs
<1>11. LevelInv'
  BY <1>8, <1>9, <1>10 DEF LevelInv
<1> QED BY <1>1, <1>2, <1>3, <1>6, <1>7, <1>11 DEF IInv
-----------------------------------------------------------------------------
(***************************************************************************)
(* Sorting: counting uses.                                                 *)
(***************************************************************************)
UsesOf(cs, S) == Cardinality({k \in DOMAIN cs : cs[k] \in S})

LEMMA UsesOfIs ==
  ASSUME NEW X, NEW cs \in Seq(X), NEW S
  PROVE  /\ IsFiniteSet({k \in DOMAIN cs : cs[k] \in S}) /\ UsesOf(cs, S) \in Nat
         /\ S = {} => UsesOf(cs, S) = 0
         /\ \A x \in S : UsesOf(cs, S) = UsesOf(cs, S \ {x}) + Times(cs, x)
<1> DEFINE At(T) == {k \in DOMAIN cs : cs[k] \in T}
<1>1. \A T : IsFiniteSet(At(T)) /\ UsesOf(cs, T) = Cardinality(At(T)) /\ UsesOf(cs, T) \in Nat
  <2> TAKE T
  <2>1. DOMAIN cs = 1 .. Len(cs) /\ Len(cs) \in Nat
    BY ListIs
  <2>2. IsFiniteSet(1 .. Len(cs))
    BY <2>1, FS_Interval
  <2>3. IsFiniteSet(At(T))
    BY <2>1, <2>2, FS_Subset
  <2> QED BY <2>3, FS_CardinalityType DEF UsesOf
<1>2. ASSUME NEW x \in S
      PROVE  UsesOf(cs, S) = UsesOf(cs, S \ {x}) + Times(cs, x)
  <2>1. At(S) = At(S \ {x}) \cup Places(cs, x) /\ At(S \ {x}) \cap Places(cs, x) = {}
    BY DEF Places
  <2>2. IsFiniteSet(Places(cs, x)) /\ Times(cs, x) = Cardinality(Places(cs, x)) /\ Times(cs, x) \in Nat
    BY TimesIs
  <2> DEFINE A == At(S \ {x})
             B == Places(cs, x)
  <2>3. IsFiniteSet(A) /\ IsFiniteSet(B) /\ At(S) = A \cup B /\ A \cap B = {}
    BY <1>1, <2>1, <2>2
  <2>4. /\ UsesOf(cs, S) = Cardinality(At(S)) /\ UsesOf(cs, S \ {x}) = Cardinality(A)
        /\ Cardinality(A) \in Nat /\ Cardinality(B) \in Nat
    BY <1>1, <2>2
  <2> HIDE DEF A, B, At
  <2>5. Cardinality(A \cup B) = Cardinality(A) + Cardinality(B) - Cardinality({})
    BY <2>3, FS_Union
  <2>6. Cardinality(A \cup B) = Cardinality(A) + Cardinality(B)
    BY <2>4, <2>5, FS_EmptySet
  <2> QED BY <2>2, <2>3, <2>4, <2>6 DEF B
<1>3. S = {} => At(S) = {}
  OBVIOUS
<1>4. S = {} => UsesOf(cs, S) = 0
  <2>1. UsesOf(cs, S) = Cardinality(At(S))
    BY <1>1
  <2> QED BY <1>3, <2>1, FS_EmptySet
<1> QED BY <1>1, <1>2, <1>4

\* FoldSet is a recursion over the subsets of S, which has to be shown to exist.
Sums(g, d, p, SS) ==
  g = [s \in SS |-> IF s = {} THEN 0
                    ELSE LET x == CHOOSE y \in s : TRUE
                         IN  g[s \ {x}] + Times(d.parent[x], p)]

LEMMA UsesByIs ==
  ASSUME NEW d, NEW p, NEW X, NEW cs \in Seq(X), NEW S, IsFiniteSet(S),
         \A v \in S : Times(d.parent[v], p) = Times(cs, v)
  PROVE  UsesBy(d, p, S) = UsesOf(cs, S)
<1> DEFINE SS == SUBSET S
           h == [s \in SS |-> UsesOf(cs, s)]
           iter == CHOOSE g : Sums(g, d, p, SS)
           First(s) == CHOOSE y \in s : TRUE
<1>1. UsesBy(d, p, S) = iter[S]
  BY DEF UsesBy, FoldSet, MapThenFoldSet, Sums
<1>2. ASSUME NEW s \in SS, s # {}
      PROVE  /\ First(s) \in s /\ s \ {First(s)} \in SS
             /\ UsesOf(cs, s) = UsesOf(cs, s \ {First(s)}) + Times(d.parent[First(s)], p)
  <2>1. First(s) \in s
    BY <1>2
  <2>2. First(s) \in S /\ s \ {First(s)} \in SS
    BY <1>2, <2>1
  <2> HIDE DEF First
  <2>3. UsesOf(cs, s) = UsesOf(cs, s \ {First(s)}) + Times(cs, First(s))
    BY <2>1, UsesOfIs
  <2> QED BY <2>1, <2>2, <2>3
<1>3. UsesOf(cs, {}) = 0
  BY UsesOfIs
<1>4. Sums(h, d, p, SS)
  <2>1. \A s \in SS : h[s] = IF s = {} THEN 0 ELSE h[s \ {First(s)}] + Times(d.parent[First(s)], p)
    <3> TAKE s \in SS
    <3>1. CASE s = {}
      BY <1>3, <3>1
    <3>2. CASE s # {}
      <4>1. h[s] = UsesOf(cs, s) /\ h[s \ {First(s)}] = UsesOf(cs, s \ {First(s)})
        BY <1>2, <3>2
      <4> HIDE DEF h, First
      <4> QED BY <1>2, <3>2, <4>1
    <3> QED BY <3>1, <3>2
  <2>2. h = [s \in SS |-> h[s]]
    OBVIOUS
  <2> HIDE DEF h
  <2> QED BY <2>1, <2>2 DEF Sums
<1>5. Sums(iter, d, p, SS)
  <2> HIDE DEF h, SS
  <2> QED BY <1>4
<1> HIDE DEF iter
<1>6. \A s \in SS : iter[s] = IF s = {} THEN 0 ELSE iter[s \ {First(s)}] + Times(d.parent[First(s)], p)
  <2> HIDE DEF SS
  <2> QED BY <1>5 DEF Sums
<1> HIDE DEF First
<1> DEFINE Bad == {s \in SS : iter[s] # UsesOf(cs, s)}
           Sizes == {Cardinality(s) : s \in Bad}
<1>7. \A s \in SS : IsFiniteSet(s) /\ Cardinality(s) \in Nat
  BY FS_Subset, FS_CardinalityType
<1>8. ASSUME Bad # {} PROVE FALSE
  <2>1. Sizes \in SUBSET Nat /\ Sizes # {}
    BY <1>7, <1>8
  <2>2. PICK n \in Sizes : \A m \in Sizes : n <= m
    <3> HIDE DEF Sizes
    <3> QED BY <2>1, LeastElement
  <2>3. PICK s \in Bad : n = Cardinality(s)
    BY <2>2
  <2>4. s \in SS /\ iter[s] # UsesOf(cs, s)
    BY <2>3
  <2>5. s # {}
    BY <1>3, <1>6, <2>4
  <2> DEFINE t == s \ {First(s)}
  <2>6. /\ First(s) \in s /\ t \in SS
        /\ UsesOf(cs, s) = UsesOf(cs, t) + Times(d.parent[First(s)], p)
        /\ iter[s] = iter[t] + Times(d.parent[First(s)], p)
    BY <1>2, <1>6, <2>4, <2>5
  <2>7. Cardinality(t) = Cardinality(s) - 1
    <3>1. IsFiniteSet(s)
      BY <1>7, <2>4
    <3> QED BY <2>6, <3>1, FS_RemoveElement
  <2> HIDE DEF t
  <2>8. t \in Bad
    BY <2>4, <2>6
  <2>9. Cardinality(s) <= Cardinality(t)
    BY <2>2, <2>3, <2>8
  <2>10. Cardinality(s) \in Nat
    BY <1>7, <2>4
  <2> QED BY <2>7, <2>9, <2>10
<1>9. S \in SS
  OBVIOUS
<1> QED BY <1>1, <1>8, <1>9

\* The children that are waited for.
LEMMA WaitingIs ==
  ASSUME NEW d, NEW p, NEW X, d.child[p] \in Seq(X), NEW S
  PROVE  /\ Waiting(d, p, S) \in Nat
         /\ Waiting(d, p, S) = 0 <=> ToSet(d.child[p]) \subseteq S
         /\ \A A : A \cap S = {} =>
              /\ UsesOf(d.child[p], A) \in Nat /\ Waiting(d, p, S \cup A) \in Nat
              /\ Waiting(d, p, S) = Waiting(d, p, S \cup A) + UsesOf(d.child[p], A)
<1> DEFINE cs == d.child[p]
           Not(T) == {k \in DOMAIN cs : cs[k] \notin T}
           At(T) == {k \in DOMAIN cs : cs[k] \in T}
<1>1. DOMAIN cs = 1 .. Len(cs) /\ Len(cs) \in Nat
  BY ListIs
<1>2. \A T : IsFiniteSet(Not(T)) /\ Waiting(d, p, T) = Cardinality(Not(T)) /\ Waiting(d, p, T) \in Nat
  <2> TAKE T
  <2>1. IsFiniteSet(1 .. Len(cs))
    <3> HIDE DEF cs
    <3> QED BY <1>1, FS_Interval
  <2>2. IsFiniteSet(Not(T))
    BY <1>1, <2>1, FS_Subset
  <2> QED BY <2>2, FS_CardinalityType DEF Waiting
<1>3. Waiting(d, p, S) = 0 <=> ToSet(cs) \subseteq S
  <2>1. Not(S) = {} <=> ToSet(cs) \subseteq S
    BY DEF ToSet
  <2> HIDE DEF Not, cs
  <2>2. Cardinality(Not(S)) = 0 <=> Not(S) = {}
    BY <1>2, FS_EmptySet
  <2> QED BY <1>2, <2>1, <2>2
<1>4. ASSUME NEW A, A \cap S = {}
      PROVE  /\ UsesOf(cs, A) \in Nat /\ Waiting(d, p, S \cup A) \in Nat
             /\ Waiting(d, p, S) = Waiting(d, p, S \cup A) + UsesOf(cs, A)
  <2>1. Not(S) = Not(S \cup A) \cup At(A) /\ Not(S \cup A) \cap At(A) = {}
    BY <1>4
  <2>2. IsFiniteSet(At(A)) /\ UsesOf(cs, A) = Cardinality(At(A)) /\ UsesOf(cs, A) \in Nat
    BY UsesOfIs DEF UsesOf
  <2> DEFINE B == Not(S \cup A)
             C == At(A)
  <2>3. /\ IsFiniteSet(B) /\ IsFiniteSet(C) /\ Not(S) = B \cup C /\ B \cap C = {}
        /\ Cardinality(B) \in Nat /\ Cardinality(C) \in Nat
        /\ Waiting(d, p, S \cup A) = Cardinality(B) /\ Waiting(d, p, S) = Cardinality(B \cup C)
        /\ UsesOf(cs, A) = Cardinality(C)
    BY <1>2, <2>1, <2>2
  <2> HIDE DEF B, C, Not, At, cs
  <2>4. Cardinality(B \cup C) = Cardinality(B) + Cardinality(C) - Cardinality({})
    BY <2>3, FS_Union
  <2>5. Cardinality(B \cup C) = Cardinality(B) + Cardinality(C)
    BY <2>3, <2>4, FS_EmptySet
  <2> QED BY <2>3, <2>5
<1> QED BY <1>2, <1>3, <1>4

LEMMA OutRefIs ==
  ASSUME NEW d, Shaped(d), NEW v, NEW p \in Ids(d), v \in ToSet(d.child[p])
  PROVE  OutRef(d, v) # 0
<1> DEFINE f == [q \in Ids(d) |-> {q} \X {i \in DOMAIN d.child[q] : d.child[q][i] = v}]
           R == {f[q] : q \in Ids(d)}
           U == UNION R
<1>1. OutRef(d, v) = Cardinality(U)
  <2>1. R = {{q} \X {i \in DOMAIN d.child[q] : d.child[q][i] = v} : q \in Ids(d)}
    OBVIOUS
  <2> HIDE DEF R
  <2> QED BY <2>1 DEF OutRef
<1>2. \A q \in Ids(d) : d.child[q] \in Seq(Ids(d)) /\ IsFiniteSet(Ids(d))
  BY ShapeIs
<1>3. \A q \in Ids(d) : IsFiniteSet(f[q])
  <2> TAKE q \in Ids(d)
  <2>1. IsFiniteSet(Places(d.child[q], v))
    BY <1>2, TimesIs
  <2>2. IsFiniteSet({q})
    BY FS_Singleton
  <2>3. f[q] = {q} \X Places(d.child[q], v)
    BY DEF Places
  <2> QED BY <2>1, <2>2, <2>3, FS_Product
<1>4. \E i \in DOMAIN d.child[p] : d.child[p][i] = v
  BY DEF ToSet
<1>5. f[p] # {}
  <2>1. PICK i \in DOMAIN d.child[p] : d.child[p][i] = v
    BY <1>4
  <2>2. <<p, i>> \in f[p]
    BY <2>1
  <2> HIDE DEF f
  <2> QED BY <2>2
<1> HIDE DEF f
<1>6. IsFiniteSet(R)
  <2> DEFINE g == [q \in Ids(d) |-> f[q]]
  <2>1. g \in Surjection(Ids(d), R)
    BY DEF Surjection
  <2> HIDE DEF g, R
  <2> QED BY <1>2, <2>1, FS_Surjection
<1>7. \A T \in R : IsFiniteSet(T)
  BY <1>3
<1>8. U # {}
  <2>1. f[p] \in R
    OBVIOUS
  <2> HIDE DEF R
  <2> QED BY <1>5, <2>1
<1> HIDE DEF R
<1>9. IsFiniteSet(U)
  BY <1>6, <1>7, FS_UNION
<1> HIDE DEF U
<1> QED BY <1>1, <1>8, <1>9, FS_EmptySet

-----------------------------------------------------------------------------
(***************************************************************************)
(* Sorting by level.                                                       *)
(***************************************************************************)
LEMMA InPlaced ==
  ASSUME NEW ls, NEW v
  PROVE  v \in PlacedIn(ls) <=> \E l \in DOMAIN ls : v \in ls[l]
BY DEF PlacedIn

Levelled(d, ls, L, m) == LevelsOK(d, m) /\ PlacedIn(m) = PlacedIn(ls) \cup L

LEMMA LevelAdded ==
  ASSUME NEW d, NEW ls, LevelsOK(d, ls), NEW L \in SUBSET Ids(d), L \cap PlacedIn(ls) = {},
         \A v \in L : ToSet(d.child[v]) \subseteq PlacedIn(ls),
         NEW m, m = IF L = {} THEN ls ELSE Append(ls, L)
  PROVE  Levelled(d, ls, L, m)
<1> DEFINE n == Len(ls)
<1>1. ls \in Seq(SUBSET Ids(d)) /\ n \in Nat /\ DOMAIN ls = 1 .. n
  <2>1. ls \in Seq(SUBSET Ids(d))
    BY DEF LevelsOK
  <2> QED BY <2>1, ListIs
<1>2. CASE L = {}
  BY <1>2 DEF Levelled
<1>3. CASE L # {}
  <2>1. /\ m \in Seq(SUBSET Ids(d)) /\ DOMAIN m = 1 .. n + 1
        /\ \A i \in 1 .. n : m[i] = ls[i]
        /\ m[n + 1] = L
    BY <1>1, <1>3, AppendIs
  <2> HIDE DEF n
  <2>2. /\ n + 1 \in 1 .. n + 1 /\ n + 1 \notin 1 .. n
        /\ \A i \in 1 .. n + 1 : i \in 1 .. n \/ i = n + 1
        /\ \A i \in 1 .. n : i \in 1 .. n + 1 /\ i \in 1 .. (n + 1) - 1
        /\ \A i \in 1 .. n : \A k \in 1 .. i - 1 : k \in 1 .. n
    BY <1>1
  <2>3. \A v : v \in PlacedIn(ls) <=> \E i \in 1 .. n : v \in ls[i]
    BY <1>1, InPlaced
  <2>4. \A v : v \in PlacedIn(m) <=> \E i \in 1 .. n + 1 : v \in m[i]
    BY <2>1, InPlaced
  <2>5. \A v : v \in PlacedIn(m) <=> v \in PlacedIn(ls) \/ v \in L
    BY <2>1, <2>2, <2>3, <2>4
  <2>6. ASSUME NEW i \in 1 .. n, NEW v \in m[i]
        PROVE  /\ \A k \in 1 .. n + 1 : v \in m[k] => k = i
               /\ \A c \in ToSet(d.child[v]) : \E k \in 1 .. i - 1 : c \in m[k]
    <3>1. v \in ls[i] /\ v \in PlacedIn(ls)
      BY <2>1, <2>3, <2>6
    <3>2. v \notin L
      BY <3>1
    <3>3. /\ \A k \in 1 .. n : v \in ls[k] => k = i
          /\ \A c \in ToSet(d.child[v]) : \E k \in 1 .. i - 1 : c \in ls[k]
      BY <1>1, <3>1 DEF LevelsOK
    <3>4. \A k \in 1 .. i - 1 : m[k] = ls[k]
      BY <2>1, <2>2
    <3> QED BY <2>1, <2>2, <3>2, <3>3, <3>4
  <2>7. ASSUME NEW v \in L
        PROVE  /\ \A k \in 1 .. n + 1 : v \in m[k] => k = n + 1
               /\ \A c \in ToSet(d.child[v]) : \E k \in 1 .. (n + 1) - 1 : c \in m[k]
    <3>1. v \notin PlacedIn(ls)
      OBVIOUS
    <3> QED BY <2>1, <2>2, <2>3, <3>1
  <2>8. \A i \in 1 .. n + 1 : \A v \in m[i] :
          /\ \A k \in 1 .. n + 1 : v \in m[k] => k = i
          /\ \A c \in ToSet(d.child[v]) : \E k \in 1 .. i - 1 : c \in m[k]
    <3> TAKE i \in 1 .. n + 1
    <3>1. CASE i \in 1 .. n
      BY <2>6, <3>1
    <3>2. CASE i = n + 1
      BY <2>1, <2>7, <3>2
    <3> QED BY <2>2, <3>1, <3>2
  <2>9. PlacedIn(m) = PlacedIn(ls) \cup L
    BY <2>5
  <2>10. LevelsOK(d, m)
    <3> DEFINE Ordered(S) == \A l \in S : \A v \in m[l] :
                 /\ \A k \in S : v \in m[k] => k = l
                 /\ \A c \in ToSet(d.child[v]) : \E k \in 1 .. l - 1 : c \in m[k]
    <3>1. Ordered(1 .. n + 1)
      BY <2>8
    <3> HIDE DEF Ordered
    <3>2. Ordered(DOMAIN m)
      BY <2>1, <3>1
    <3>3. m \in Seq(SUBSET Ids(d))
      BY <2>1
    <3> QED BY ONLY <3>2, <3>3, Zenon DEF LevelsOK, Ordered
  <2> QED BY <2>9, <2>10 DEF Levelled
<1> QED BY <1>2, <1>3

\* What is waited for, when the vertices L are placed.
FewerWait(d, p, Q, L, n) == Waiting(d, p, Q) - n = Waiting(d, p, Q \cup L)

PlacedUses(d, p, L) ==
  UsesBy(d, p, {v \in L : OutRef(d, v) # 0 /\ Contains(d.parent[v], p)})

LEMMA LessWaits ==
  ASSUME NEW d, Shaped(d), WellFormed(d), NEW Q, NEW L \in SUBSET Ids(d), L \cap Q = {},
         NEW p \in Ids(d)
  PROVE  FewerWait(d, p, Q, L, PlacedUses(d, p, L))
<1> DEFINE I == Ids(d)
           cs == d.child[p]
           P == {v \in L : OutRef(d, v) # 0 /\ Contains(d.parent[v], p)}
<1>1. IsFiniteSet(I) /\ cs \in Seq(I) /\ \A v \in I : d.parent[v] \in Seq(I)
  BY ShapeIs
<1>2. \A v \in I : Times(d.parent[v], p) = Times(cs, v)
  BY DEF WellFormed, UsesRecorded
<1>3. IsFiniteSet(P) /\ P \in SUBSET I
  <2>1. P \in SUBSET I
    OBVIOUS
  <2> HIDE DEF P
  <2> QED BY <1>1, <2>1, FS_Subset
<1>4. ASSUME NEW v \in L, v \in ToSet(cs)
      PROVE  v \in P
  <2>1. OutRef(d, v) # 0
    BY <1>4, OutRefIs
  <2>2. Times(cs, v) # 0
    BY <1>1, <1>4, TimesIs
  <2>3. v \in I
    OBVIOUS
  <2>4. Times(d.parent[v], p) # 0
    BY <1>2, <2>2, <2>3
  <2>5. p \in ToSet(d.parent[v])
    BY <1>1, <2>3, <2>4, TimesIs
  <2>6. Contains(d.parent[v], p)
    BY <1>1, <2>3, <2>5, ContainsIs
  <2> QED BY <2>1, <2>6
<1>5. UsesOf(cs, P) = UsesOf(cs, L)
  <2>1. \A k \in DOMAIN cs : cs[k] \in P <=> cs[k] \in L
    <3>1. P \subseteq L
      OBVIOUS
    <3>2. \A k \in DOMAIN cs : cs[k] \in ToSet(cs)
      BY DEF ToSet
    <3> HIDE DEF P, cs
    <3> QED BY <1>4, <3>1, <3>2
  <2> HIDE DEF P, cs
  <2>2. {k \in DOMAIN cs : cs[k] \in P} = {k \in DOMAIN cs : cs[k] \in L}
    BY <2>1
  <2> QED BY <2>2 DEF UsesOf
<1>6. UsesBy(d, p, P) = UsesOf(cs, P)
  <2>1. \A v \in P : Times(d.parent[v], p) = Times(cs, v)
    BY <1>2, <1>3
  <2> HIDE DEF P, cs, I
  <2> QED BY <1>1, <1>3, <2>1, UsesByIs
<1>7. /\ UsesOf(cs, L) \in Nat /\ Waiting(d, p, Q \cup L) \in Nat
      /\ Waiting(d, p, Q) = Waiting(d, p, Q \cup L) + UsesOf(cs, L)
  BY <1>1, WaitingIs
<1> HIDE DEF P, cs
<1>8. Waiting(d, p, Q) - UsesBy(d, p, P) = Waiting(d, p, Q \cup L)
  BY <1>5, <1>6, <1>7
<1> QED BY <1>8 DEF P, PlacedUses, FewerWait

LEMMA LevelStepKeeps ==
  ASSUME IInv, LevelStep
  PROVE  IInv'
<1> DEFINE I == Ids(dag)
           Q == PlacedIn(levels)
           L == {v \in DOMAIN inref : inref[v] = 0}
<1>1. /\ step = "level" /\ step' = "level" /\ dag' = dag /\ built' = built
      /\ failed' = failed /\ failBlk' = failBlk /\ topo' = topo
      /\ levels' = IF L = {} THEN levels ELSE Append(levels, L)
      /\ inref' = [p \in DOMAIN inref \ L |-> inref[p] - PlacedUses(dag, p, L)]
  BY DEF LevelStep, PlacedUses
<1>2. /\ BuiltInv /\ Pruned /\ Shaped(dag) /\ Grounded(dag) /\ LevelInv
      /\ failed \in SUBSET (0 .. ecn - 1) /\ failBlk \in failed
  BY <1>1 DEF IInv
<1>3. Keep' = Keep /\ BuiltInv' /\ Pruned' /\ Shaped(dag') /\ Grounded(dag')
  BY <1>1, <1>2 DEF BuiltInv, Pruned, Keep
<1>4. /\ LevelsOK(dag, levels) /\ inref = [p \in I \ Q |-> Waiting(dag, p, Q)] /\ topo = <<>>
      /\ WellFormed(dag)
  BY <1>2 DEF LevelInv, Pruned
<1>5. L \in SUBSET I /\ L \cap Q = {} /\ \A v \in L : Waiting(dag, v, Q) = 0
  BY <1>4
<1>6. \A v \in L : ToSet(dag.child[v]) \subseteq Q
  <2> TAKE v \in L
  <2> HIDE DEF L, Q, I
  <2>1. v \in I /\ Waiting(dag, v, Q) = 0
    BY <1>5
  <2>2. dag.child[v] \in Seq(I)
    BY <1>2, <2>1, ShapeIs DEF I
  <2> QED BY <2>1, <2>2, WaitingIs
<1>7. LevelsOK(dag, levels') /\ PlacedIn(levels') = Q \cup L
  <2> HIDE DEF L
  <2>1. Levelled(dag, levels, L, levels')
    <3> DEFINE m == levels'
    <3>1. m = IF L = {} THEN levels ELSE Append(levels, L)
      BY <1>1
    <3> HIDE DEF m
    <3>2. Levelled(dag, levels, L, m)
      BY <1>4, <1>5, <1>6, <3>1, LevelAdded, Zenon
    <3> QED BY <3>2 DEF m
  <2> QED BY <2>1 DEF Levelled
<1>8. inref' = [p \in I \ (Q \cup L) |-> Waiting(dag, p, Q \cup L)]
  <2> HIDE DEF L, Q
  <2>1. DOMAIN inref \ L = I \ (Q \cup L)
    BY <1>4
  <2>2. \A p \in I \ (Q \cup L) :
          inref[p] - PlacedUses(dag, p, L) = Waiting(dag, p, Q \cup L)
    <3> TAKE p \in I \ (Q \cup L)
    <3>1. p \in I /\ inref[p] = Waiting(dag, p, Q)
      BY <1>4
    <3>2. FewerWait(dag, p, Q, L, PlacedUses(dag, p, L))
      BY <1>2, <1>4, <1>5, <3>1, LessWaits, Zenon
    <3> QED BY <3>1, <3>2 DEF FewerWait
  <2> QED BY <1>1, <2>1, <2>2
<1>9. LevelInv'
  <2> HIDE DEF L, Q
  <2> QED BY <1>1, <1>4, <1>7, <1>8 DEF LevelInv
<1> QED BY <1>1, <1>2, <1>3, <1>9 DEF IInv

-----------------------------------------------------------------------------
(***************************************************************************)
(* Sorting topologically.                                                  *)
(***************************************************************************)
LEMMA AsList ==
  ASSUME NEW X, NEW S \in SUBSET X, IsFiniteSet(S), NEW s \in SetToSeqs(S)
  PROVE  s \in Seq(X) /\ ToSet(s) = S /\ DistinctEntries(s)
<1> DEFINE n == Cardinality(S)
<1>1. n \in Nat
  BY FS_CardinalityType
<1>2. s \in [1 .. n -> S] /\ \A i, j \in 1 .. n : i # j => s[i] # s[j]
  BY DEF SetToSeqs
<1>3. Cardinality(1 .. n) = Cardinality(S)
  <2> HIDE DEF n
  <2>1. Cardinality(1 .. n) = n
    BY <1>1, FS_Interval
  <2> QED BY <2>1 DEF n
<1> HIDE DEF n
<1>4. s \in Injection(1 .. n, S)
  BY <1>2 DEF Injection, IsInjective
<1>5. s \in Surjection(1 .. n, S)
  BY <1>3, <1>4, FS_Injection
<1>6. DOMAIN s = 1 .. n /\ \A v \in S : \E i \in 1 .. n : s[i] = v
  BY <1>2, <1>5 DEF Surjection
<1>7. ToSet(s) = S
  BY <1>2, <1>6 DEF ToSet
<1>8. DistinctEntries(s)
  BY <1>2, <1>6 DEF DistinctEntries
<1>9. s \in Seq(X)
  <2>1. s \in [1 .. n -> X]
    BY <1>2
  <2> QED BY <1>1, <2>1
<1> QED BY <1>7, <1>8, <1>9

\* The vertices P have had their turn, those of the queue q are waiting for it.
Queued(d, r, q, P) ==
  /\ q \in Seq(Ids(d)) /\ DistinctEntries(q)
  /\ \A v \in ToSet(q) : r[v] = 0
  /\ r = [p \in Ids(d) |-> Waiting(d, p, P)]
  /\ P = {v \in Ids(d) : r[v] = 0} \ ToSet(q)

\* They are listed, if they are computed and used, after their children.
Listed(d, P, l) ==
  /\ l \in Seq(Ids(d)) /\ DistinctEntries(l)
  /\ ToSet(l) = P \cap ItmIdxs(d)
  /\ \A i \in DOMAIN l : \A c \in ToSet(d.child[l[i]]) \cap ItmIdxs(d) :
       \E j \in 1 .. i - 1 : l[j] = c

LEMMA TopoInvIs == TopoInv <=> /\ LevelsOK(dag, levels)
                               /\ Queued(dag, inref, ready, Passed)
                               /\ Listed(dag, Passed, topo)
BY DEF TopoInv, Queued, Listed, Passed

LEMMA TopoStartKeeps ==
  ASSUME IInv, TopoStart
  PROVE  IInv'
<1> DEFINE I == Ids(dag)
           S == {v \in I : dag.child[v] = <<>>}
<1>1. /\ step = "level" /\ step' = "topo" /\ dag' = dag /\ built' = built
      /\ failed' = failed /\ failBlk' = failBlk /\ topo' = topo /\ levels' = levels
      /\ inref' = [v \in I |-> Len(dag.child[v])] /\ ready' \in SetToSeqs(S)
  BY DEF TopoStart, InRefs
<1>2. /\ BuiltInv /\ Pruned /\ Shaped(dag) /\ Grounded(dag) /\ LevelInv
      /\ failed \in SUBSET (0 .. ecn - 1) /\ failBlk \in failed
  BY <1>1 DEF IInv
<1>3. Keep' = Keep /\ BuiltInv' /\ Pruned' /\ Shaped(dag') /\ Grounded(dag')
  BY <1>1, <1>2 DEF BuiltInv, Pruned, Keep
<1>4. LevelsOK(dag, levels) /\ topo = <<>>
  BY <1>2 DEF LevelInv
<1>5. ready' \in Seq(I) /\ ToSet(ready') = S /\ DistinctEntries(ready')
  <2>1. IsFiniteSet(I)
    BY <1>2, ShapeIs
  <2>2. S \in SUBSET I
    OBVIOUS
  <2>3. IsFiniteSet(S)
    BY <2>1, <2>2, FS_Subset
  <2> HIDE DEF S
  <2> QED BY <1>1, <2>2, <2>3, AsList
<1>6. \A v \in I : /\ Len(dag.child[v]) = Waiting(dag, v, {})
                   /\ Len(dag.child[v]) = 0 <=> dag.child[v] = <<>>
  <2> TAKE v \in I
  <2>1. dag.child[v] \in Seq(I)
    BY <1>2, ShapeIs
  <2> QED BY <1>2, <2>1, AllWait, ListIs
<1>7. Queued(dag, inref', ready', {})
  <2>1. S = {v \in I : inref'[v] = 0}
    BY <1>1, <1>6
  <2>2. inref' = [v \in I |-> Waiting(dag, v, {})]
    BY <1>1, <1>6
  <2> HIDE DEF S
  <2> QED BY <1>5, <2>1, <2>2 DEF Queued
<1>8. Passed' = {}
  BY <1>1, <1>7 DEF Queued, Passed
<1>9. Listed(dag, {}, topo')
  <2>1. <<>> \in Seq(I) /\ DOMAIN <<>> = {}
    OBVIOUS
  <2>2. ToSet(<<>>) = {}
    BY EmptyTimes
  <2> QED BY <1>1, <1>4, <2>1, <2>2 DEF Listed, DistinctEntries
<1>10. LevelsOK(dag', levels') /\ Queued(dag', inref', ready', Passed') /\ Listed(dag', Passed', topo')
  BY <1>1, <1>4, <1>7, <1>8, <1>9
<1>11. TopoInv'
  BY <1>10 DEF TopoInv, Queued, Listed, Passed
<1> QED BY <1>1, <1>2, <1>3, <1>11 DEF IInv

\* The uses of v that its parents record, as TopoStep takes them.
Takes(d, v, ps) == ps = IF OutRef(d, v) = 0 THEN <<>> ELSE d.parent[v]

TookTurn(d, P, v, ps, p) ==
  /\ Waiting(d, p, P) - Times(ps, p) = Waiting(d, p, P \cup {v})
  /\ p \in ToSet(ps) <=> v \in ToSet(d.child[p])

LEMMA TurnCounts ==
  ASSUME NEW d, Shaped(d), WellFormed(d), NEW P, NEW v \in Ids(d), v \notin P,
         NEW ps, Takes(d, v, ps), NEW p \in Ids(d)
  PROVE  ps \in Seq(Ids(d)) /\ TookTurn(d, P, v, ps, p)
<1> DEFINE I == Ids(d)
           cs == d.child[p]
<1>1. cs \in Seq(I) /\ d.parent[v] \in Seq(I) /\ <<>> \in Seq(I)
  BY ShapeIs
<1>2. ps \in Seq(I)
  BY <1>1 DEF Takes
<1>3. Times(ps, p) = Times(cs, v)
  <2>1. CASE OutRef(d, v) = 0
    <3>1. v \notin ToSet(cs)
      BY <2>1, OutRefIs
    <3>2. Times(cs, v) = 0
      BY <1>1, <3>1, TimesIs
    <3>3. Times(ps, p) = 0
      BY <2>1, EmptyTimes DEF Takes
    <3> QED BY <3>2, <3>3
  <2>2. CASE OutRef(d, v) # 0
    BY <2>2 DEF Takes, WellFormed, UsesRecorded
  <2> QED BY <2>1, <2>2
<1> HIDE DEF cs, I
<1>4. p \in ToSet(ps) <=> v \in ToSet(cs)
  BY <1>1, <1>2, <1>3, TimesIs
<1>5. UsesOf(cs, {v}) = Times(cs, v) /\ Times(cs, v) \in Nat
  <2>1. UsesOf(cs, {v}) = UsesOf(cs, {v} \ {v}) + Times(cs, v)
    BY <1>1, UsesOfIs
  <2>2. UsesOf(cs, {}) = 0 /\ {v} \ {v} = {}
    BY <1>1, UsesOfIs
  <2>3. Times(cs, v) \in Nat
    BY <1>1, TimesIs
  <2> QED BY <2>1, <2>2, <2>3
<1>6. /\ Waiting(d, p, P \cup {v}) \in Nat
      /\ Waiting(d, p, P) = Waiting(d, p, P \cup {v}) + UsesOf(cs, {v})
  <2>1. {v} \cap P = {}
    OBVIOUS
  <2> QED BY <1>1, <2>1, WaitingIs DEF cs
<1>7. Waiting(d, p, P) - Times(ps, p) = Waiting(d, p, P \cup {v})
  BY <1>3, <1>5, <1>6
<1> QED BY <1>2, <1>4, <1>7 DEF TookTurn, cs, I

\* What TopoStep does to inref and to ready.
NextQueue(d, r, q, ps, s, t) ==
  /\ s = [p \in DOMAIN r |-> r[p] - Times(ps, p)]
  /\ t = Tail(q) \o Outside(OnceEach(ps), {p \in Ids(d) : s[p] # 0})

QueueTurned(d, s, t, P, v) ==
  /\ v \in Ids(d) /\ v \notin P /\ ToSet(d.child[v]) \subseteq P
  /\ Queued(d, s, t, P \cup {v})

LEMMA QueueTurns ==
  ASSUME NEW d, Shaped(d), WellFormed(d), NEW r, NEW q, NEW P, Queued(d, r, q, P), q # <<>>,
         NEW v, v = Head(q), NEW ps, Takes(d, v, ps),
         NEW s, NEW t, NextQueue(d, r, q, ps, s, t)
  PROVE  QueueTurned(d, s, t, P, v)
<1> DEFINE I == Ids(d)
           R == P \cup {v}
           N == {p \in I : s[p] # 0}
           o == Outside(OnceEach(ps), N)
<1>1. /\ q \in Seq(I) /\ DistinctEntries(q) /\ \A u \in ToSet(q) : r[u] = 0
      /\ r = [p \in I |-> Waiting(d, p, P)] /\ P = {u \in I : r[u] = 0} \ ToSet(q)
  BY DEF Queued
<1>2. /\ v \in I /\ Tail(q) \in Seq(I) /\ ToSet(q) = {v} \cup ToSet(Tail(q))
      /\ DistinctEntries(Tail(q)) /\ v \notin ToSet(Tail(q))
  BY <1>1, TailIs
<1> HIDE DEF I, N, o, R
<1>3. v \notin P /\ r[v] = 0
  BY <1>1, <1>2
<1>4. \A u \in I : /\ r[u] = 0 <=> ToSet(d.child[u]) \subseteq P
                   /\ Waiting(d, u, R) = 0 <=> ToSet(d.child[u]) \subseteq R
  <2> TAKE u \in I
  <2>1. d.child[u] \in Seq(I)
    BY ShapeIs DEF I
  <2> QED BY <1>1, <2>1, WaitingIs
<1>5. \A p \in I : ps \in Seq(I) /\ TookTurn(d, P, v, ps, p)
  BY <1>2, <1>3, TurnCounts DEF I
<1>6. ps \in Seq(I)
  BY <1>2, <1>5
<1>7. s = [p \in I |-> Waiting(d, p, R)]
  <2>1. DOMAIN r = I
    BY <1>1
  <2>2. \A p \in I : r[p] - Times(ps, p) = Waiting(d, p, R)
    BY <1>1, <1>5 DEF TookTurn, R
  <2> QED BY <2>1, <2>2 DEF NextQueue
<1>8. \A u \in I : s[u] = 0 <=> ToSet(d.child[u]) \subseteq R
  BY <1>4, <1>7
<1>9. \A u \in I : u \in ToSet(ps) <=> v \in ToSet(d.child[u])
  BY <1>5 DEF TookTurn
<1>10. o \in Seq(I) /\ ToSet(o) = ToSet(ps) \ N /\ DistinctEntries(o)
  <2>1. OnceEach(ps) \in Seq(I) /\ ToSet(OnceEach(ps)) = ToSet(ps) /\ DistinctEntries(OnceEach(ps))
    BY <1>6, OnceEachIs
  <2> QED BY <2>1, OutsideIs DEF o
<1>11. \A u \in ToSet(o) : u \in I /\ s[u] = 0 /\ r[u] # 0
  <2> TAKE u \in ToSet(o)
  <2>1. u \in ToSet(ps) /\ u \notin N
    BY <1>10
  <2>2. u \in I
    <3>1. ToSet(ps) \subseteq I
      BY <1>6 DEF ToSet
    <3> QED BY <2>1, <3>1
  <2>3. s[u] = 0
    BY <2>1, <2>2 DEF N
  <2>4. v \in ToSet(d.child[u])
    BY <1>9, <2>1, <2>2
  <2> QED BY <1>3, <1>4, <2>2, <2>3, <2>4
<1>12. /\ t \in Seq(I) /\ ToSet(t) = ToSet(Tail(q)) \cup ToSet(o) /\ DistinctEntries(t)
  <2>1. ToSet(Tail(q)) \cap ToSet(o) = {}
    BY <1>1, <1>2, <1>11
  <2>2. t = Tail(q) \o o
    BY DEF o, N, I, NextQueue
  <2> DEFINE l == Tail(q)
  <2>3. l \in Seq(I) /\ DistinctEntries(l) /\ ToSet(l) \cap ToSet(o) = {} /\ t = l \o o
    BY <1>2, <2>1, <2>2
  <2> HIDE DEF l
  <2>4. l \o o \in Seq(I) /\ ToSet(l \o o) = ToSet(l) \cup ToSet(o) /\ DistinctEntries(l \o o)
    <3>1. \A x \in Seq(I) : \A y \in Seq(I) :
            /\ x \o y \in Seq(I) /\ ToSet(x \o y) = ToSet(x) \cup ToSet(y)
            /\ DistinctEntries(x) /\ DistinctEntries(y) /\ ToSet(x) \cap ToSet(y) = {} =>
                 DistinctEntries(x \o y)
      BY ConcatIs
    <3> QED BY <1>10, <2>3, <3>1
  <2> QED BY <2>3, <2>4 DEF l
<1>13. \A u \in ToSet(t) : s[u] = 0
  <2> TAKE u \in ToSet(t)
  <2>1. CASE u \in ToSet(o)
    BY <1>11, <2>1
  <2>2. CASE u \in ToSet(Tail(q))
    <3>1. u \in I /\ r[u] = 0
      <4>1. ToSet(Tail(q)) \subseteq I
        BY <1>2 DEF ToSet
      <4> QED BY <1>1, <1>2, <2>2, <4>1
    <3> QED BY <1>4, <1>8, <3>1 DEF R
  <2> QED BY <1>12, <2>1, <2>2
<1>14. ASSUME NEW u \in I
       PROVE  u \in R <=> s[u] = 0 /\ u \notin ToSet(t)
  <2>1. CASE u \in R
    <3>1. r[u] = 0 /\ u \notin ToSet(Tail(q))
      BY <1>1, <1>2, <1>3, <2>1 DEF R
    <3>2. u \notin ToSet(o)
      BY <1>11, <3>1
    <3>3. s[u] = 0
      BY <1>4, <1>8, <3>1 DEF R
    <3> QED BY <1>12, <2>1, <3>1, <3>2, <3>3
  <2>2. CASE u \notin R /\ r[u] = 0
    <3>1. u \in ToSet(Tail(q))
      BY <1>1, <1>2, <2>2 DEF R
    <3> QED BY <1>12, <2>2, <3>1
  <2>3. CASE u \notin R /\ r[u] # 0 /\ s[u] = 0
    <3>1. v \in ToSet(d.child[u])
      BY <1>4, <1>8, <2>3 DEF R
    <3>2. u \in ToSet(ps) /\ u \notin N
      BY <1>9, <2>3, <3>1 DEF N
    <3> QED BY <1>10, <1>12, <2>3, <3>2
  <2>4. CASE u \notin R /\ s[u] # 0
    BY <2>4
  <2> QED BY <2>1, <2>2, <2>3, <2>4
<1>15. R \subseteq I
  BY <1>1, <1>2 DEF R
<1>16. R = {u \in I : s[u] = 0} \ ToSet(t)
  BY <1>14, <1>15
<1>17. Queued(d, s, t, R)
  BY <1>7, <1>12, <1>13, <1>16 DEF Queued, I
<1> QED BY <1>2, <1>3, <1>4, <1>17 DEF QueueTurned, R, I

LEMMA ListGrows ==
  ASSUME NEW d, NEW P, NEW l, Listed(d, P, l), NEW v \in Ids(d), v \notin P,
         ToSet(d.child[v]) \subseteq P,
         NEW m, m = IF v \in ItmIdxs(d) THEN Append(l, v) ELSE l
  PROVE  Listed(d, P \cup {v}, m)
<1> DEFINE I == Ids(d)
           Itm == ItmIdxs(d)
           n == Len(l)
           After(t, i) == \A c \in ToSet(d.child[t[i]]) \cap Itm : \E j \in 1 .. i - 1 : t[j] = c
<1>1. /\ l \in Seq(I) /\ DistinctEntries(l) /\ ToSet(l) = P \cap Itm
      /\ \A i \in DOMAIN l : After(l, i)
  BY DEF Listed
<1>2. CASE v \notin Itm
  <2>1. m = l /\ (P \cup {v}) \cap Itm = P \cap Itm
    BY <1>2
  <2> QED BY <1>1, <2>1 DEF Listed
<1>3. CASE v \in Itm
  <2>1. n \in Nat /\ DOMAIN l = 1 .. n
    BY <1>1, ListIs
  <2>2. m = Append(l, v) /\ v \notin ToSet(l)
    BY <1>1, <1>3
  <2>3. /\ m \in Seq(I) /\ ToSet(m) = ToSet(l) \cup {v} /\ DistinctEntries(m)
        /\ DOMAIN m = 1 .. n + 1 /\ m[n + 1] = v /\ \A i \in 1 .. n : m[i] = l[i]
    BY <1>1, <2>1, <2>2, AppendIs
  <2>4. ToSet(m) = (P \cup {v}) \cap Itm
    BY <1>1, <1>3, <2>3
  <2> HIDE DEF n, I, Itm
  <2>5. ASSUME NEW i \in 1 .. n PROVE After(m, i)
    <3>1. After(l, i) /\ m[i] = l[i]
      BY <1>1, <2>1, <2>3
    <3>2. \A j \in 1 .. i - 1 : m[j] = l[j]
      <4>1. \A j \in 1 .. i - 1 : j \in 1 .. n
        BY <2>1
      <4> QED BY <2>3, <4>1
    <3> QED BY <3>1, <3>2
  <2>6. After(m, n + 1)
    <3>1. \A c \in P \cap Itm : \E j \in 1 .. n : l[j] = c
      BY <1>1, <2>1 DEF ToSet
    <3>2. \A j \in 1 .. n : j \in 1 .. (n + 1) - 1
      BY <2>1
    <3>3. \A c \in ToSet(d.child[v]) \cap Itm : \E j \in 1 .. (n + 1) - 1 : m[j] = c
      BY <2>3, <3>1, <3>2
    <3> QED BY <2>3, <3>3
  <2>7. \A i \in DOMAIN m : After(m, i)
    <3> HIDE DEF After
    <3>1. \A i \in 1 .. n + 1 : i \in 1 .. n \/ i = n + 1
      BY <2>1
    <3> QED BY <2>3, <2>5, <2>6, <3>1
  <2> QED BY <2>3, <2>4, <2>7 DEF Listed, I, Itm
<1> QED BY <1>2, <1>3

LEMMA TopoStepKeeps ==
  ASSUME IInv, TopoStep
  PROVE  IInv'
<1> DEFINE v == Head(ready)
           ps == IF OutRef(dag, v) = 0 THEN <<>> ELSE dag.parent[v]
<1>1. /\ step = "topo" /\ ready # <<>> /\ step' = step /\ dag' = dag /\ built' = built
      /\ failed' = failed /\ failBlk' = failBlk /\ levels' = levels
      /\ topo' = (IF v \in ItmIdxs(dag) THEN Append(topo, v) ELSE topo)
      /\ inref' = [p \in DOMAIN inref |-> inref[p] - Times(ps, p)]
      /\ ready' = Tail(ready) \o Outside(OnceEach(ps), {p \in Ids(dag) : inref'[p] # 0})
  BY DEF TopoStep
<1>2. /\ BuiltInv /\ Pruned /\ Shaped(dag) /\ Grounded(dag) /\ TopoInv
      /\ failed \in SUBSET (0 .. ecn - 1) /\ failBlk \in failed
  BY <1>1 DEF IInv
<1>3. Keep' = Keep /\ BuiltInv' /\ Pruned' /\ Shaped(dag') /\ Grounded(dag')
  BY <1>1, <1>2 DEF BuiltInv, Pruned, Keep
<1>4. /\ LevelsOK(dag, levels) /\ Queued(dag, inref, ready, Passed) /\ Listed(dag, Passed, topo)
      /\ WellFormed(dag)
  BY <1>2, TopoInvIs DEF Pruned
<1>5. Takes(dag, v, ps)
  BY DEF Takes
<1> HIDE DEF v, ps
<1>6. v = Head(ready)
  BY DEF v
<1> DEFINE s == inref'
           t == ready'
           m == topo'
           P == Passed
<1>7. /\ NextQueue(dag, inref, ready, ps, s, t)
      /\ m = IF v \in ItmIdxs(dag) THEN Append(topo, v) ELSE topo
  BY <1>1 DEF NextQueue
<1> HIDE DEF s, t, m, P
<1>8. Queued(dag, inref, ready, P) /\ Listed(dag, P, topo)
  BY <1>4 DEF P
<1>9. /\ v \in Ids(dag) /\ v \notin P /\ ToSet(dag.child[v]) \subseteq P
      /\ Queued(dag, s, t, P \cup {v})
  <2>1. QueueTurned(dag, s, t, P, v)
    BY <1>1, <1>2, <1>4, <1>5, <1>6, <1>7, <1>8, QueueTurns, Zenon
  <2> QED BY <2>1 DEF QueueTurned
<1>10. Listed(dag, P \cup {v}, m)
  BY <1>7, <1>8, <1>9, ListGrows
<1>11. Queued(dag, inref', ready', P \cup {v}) /\ Listed(dag, P \cup {v}, topo')
  BY <1>9, <1>10 DEF s, t, m
<1>12. Passed' = P \cup {v}
  BY <1>1, <1>11 DEF Queued, Passed
<1>13. LevelsOK(dag', levels') /\ Queued(dag', inref', ready', Passed') /\ Listed(dag', Passed', topo')
  BY <1>1, <1>4, <1>11, <1>12
<1>14. TopoInv'
  BY <1>13 DEF TopoInv, Queued, Listed, Passed
<1> QED BY <1>1, <1>2, <1>3, <1>14 DEF IInv

LEMMA SortsDoneKeeps ==
  ASSUME IInv, SortsDone
  PROVE  IInv'
<1>1. /\ step = "topo" /\ step' = "done" /\ ready = <<>> /\ dag' = dag /\ built' = built
      /\ failed' = failed /\ failBlk' = failBlk /\ levels' = levels
      /\ inref' = inref /\ ready' = ready /\ topo' = topo
  BY DEF SortsDone, sorting
<1>2. /\ BuiltInv /\ Pruned /\ Shaped(dag) /\ Grounded(dag) /\ TopoInv
      /\ failed \in SUBSET (0 .. ecn - 1) /\ failBlk \in failed
  BY <1>1 DEF IInv
<1>3. Keep' = Keep /\ BuiltInv' /\ Pruned' /\ Shaped(dag') /\ Grounded(dag')
  BY <1>1, <1>2 DEF BuiltInv, Pruned, Keep
<1>4. Passed' = Passed
  BY <1>1 DEF Passed
<1>5. TopoInv'
  BY <1>1, <1>2, <1>4 DEF TopoInv
<1> QED BY <1>1, <1>2, <1>3, <1>5 DEF IInv

LEMMA StutterKeeps ==
  ASSUME IInv, UNCHANGED vars
  PROVE  IInv'
<1>1. /\ step' = step /\ dag' = dag /\ built' = built /\ failed' = failed /\ failBlk' = failBlk
      /\ todo' = todo /\ stack' = stack /\ toDelete' = toDelete
      /\ levels' = levels /\ inref' = inref /\ ready' = ready /\ topo' = topo
  BY DEF vars, sorting
<1>2. Keep' = Keep /\ Calls' = Calls /\ Bottom' = Bottom /\ Passed' = Passed
  BY <1>1 DEF Keep, Calls, Bottom, Passed
<1>3. Touched' = Touched
  BY <1>1, <1>2 DEF Touched
<1>4. (BuildInv => BuildInv') /\ (BuiltInv => BuiltInv') /\ (Pruned => Pruned')
  BY <1>1, <1>2 DEF BuildInv, BuiltInv, Pruned
<1>5. PruneInv => PruneInv'
  <2>1. (PruneShape => PruneShape') /\ (CallsOnce => CallsOnce') /\ (UsesLeft => UsesLeft')
    BY <1>1, <1>2, <1>3 DEF PruneShape, CallsOnce, UsesLeft
  <2> QED BY <1>1, <1>2, <1>3, <2>1 DEF PruneInv
<1>6. (LevelInv => LevelInv') /\ (TopoInv => TopoInv')
  BY <1>1, <1>2 DEF LevelInv, TopoInv
<1> QED BY <1>1, <1>4, <1>5, <1>6 DEF IInv

-----------------------------------------------------------------------------
(***************************************************************************)
(* The theorems.                                                           *)
(***************************************************************************)
(***************************************************************************)
(* Whatever the code joins: the DAG that is built is well formed, free of  *)
(* cycles, and its recorded uses are its edges; the prune takes off        *)
(* the uses of the vertices it has called and keeps all others; the sorts  *)
(* count, for each vertex, the uses of children that are not listed yet.   *)
(***************************************************************************)
THEOREM Invariance == Spec => []IInv
<1>1. Init => IInv
  BY InitHolds
<1>2. IInv /\ [Next]_vars => IInv'
  <2> SUFFICES ASSUME IInv, [Next]_vars PROVE IInv'
    OBVIOUS
  <2>1. CASE JoinStep
    BY <2>1, JoinStepKeeps
  <2>2. CASE ConcactStep
    BY <2>2, ConcactStepKeeps
  <2>3. CASE NextHeader
    BY <2>3, NextHeaderKeeps
  <2>4. CASE RemoveChild
    BY <2>4, RemoveChildKeeps
  <2>5. CASE RemoveReturns
    BY <2>5, RemoveReturnsKeeps
  <2>6. CASE DeleteStep
    BY <2>6, DeleteStepKeeps
  <2>7. CASE LevelStep
    BY <2>7, LevelStepKeeps
  <2>8. CASE TopoStart
    BY <2>8, TopoStartKeeps
  <2>9. CASE TopoStep
    BY <2>9, TopoStepKeeps
  <2>10. CASE SortsDone
    BY <2>10, SortsDoneKeeps
  <2>11. CASE Stutter \/ UNCHANGED vars
    BY <2>11, StutterKeeps DEF Stutter
  <2> QED BY <2>1, <2>2, <2>3, <2>4, <2>5, <2>6, <2>7, <2>8, <2>9, <2>10, <2>11
       DEF Next, Build, Work
<1> QED BY <1>1, <1>2, PTL DEF Spec

LEMMA PruneHolds ==
  ASSUME IInv
  PROVE  PruneKeepsTheRepair
<1>1. step \notin {"build", "prune"} => Pruned
  BY DEF IInv
<1> QED BY <1>1 DEF Pruned, PruneKeepsTheRepair

\* When the queue is empty all vertices have had their turn.
LEMMA AllPassed ==
  ASSUME Shaped(dag), Grounded(dag), TopoInv, ready = <<>>
  PROVE  Passed = Ids(dag)
<1> DEFINE I == Ids(dag)
           S == I \ Passed
<1>1. inref = [p \in I |-> Waiting(dag, p, Passed)]
  BY DEF TopoInv
<1>2. Passed = {v \in I : inref[v] = 0}
  BY EmptyTimes DEF Passed
<1>3. ASSUME S # {} PROVE FALSE
  <2>1. PICK v \in S : ToSet(dag.child[v]) \cap S = {}
    BY <1>3 DEF Grounded
  <2>2. v \in I /\ dag.child[v] \in Seq(I)
    BY <2>1, ShapeIs
  <2>3. ToSet(dag.child[v]) \subseteq Passed
    BY <2>1, <2>2 DEF ToSet
  <2>4. Waiting(dag, v, Passed) = 0
    BY <2>2, <2>3, WaitingIs
  <2>5. v \in Passed
    BY <1>1, <1>2, <2>2, <2>4
  <2> QED BY <2>1, <2>5
<1> QED BY <1>2, <1>3

LEMMA SortsHold ==
  ASSUME IInv
  PROVE  ChildrenFirst
<1>1. CASE step \in {"build", "prune"}
  <2>1. levels = <<>> /\ topo = <<>>
    BY <1>1 DEF IInv, BuildInv, PruneInv, PruneShape
  <2>2. step # "done" /\ DOMAIN <<>> = {}
    BY <1>1
  <2> QED BY <2>1, <2>2 DEF ChildrenFirst, DistinctEntries
<1>2. CASE step = "level"
  <2>1. LevelsOK(dag, levels) /\ topo = <<>>
    BY <1>2 DEF IInv, LevelInv
  <2>2. DOMAIN <<>> = {}
    OBVIOUS
  <2> QED BY <1>2, <2>1, <2>2 DEF ChildrenFirst, LevelsOK, DistinctEntries
<1>3. CASE step \in {"topo", "done"}
  <2>1. TopoInv /\ Shaped(dag) /\ Grounded(dag)
    BY <1>3 DEF IInv
  <2>2. LevelsOK(dag, levels) /\ Listed(dag, Passed, topo)
    BY <2>1, TopoInvIs
  <2>3. step = "done" => ToSet(topo) = ItmIdxs(dag)
    <3> HAVE step = "done"
    <3>1. ready = <<>>
      BY DEF IInv
    <3>2. Passed = Ids(dag)
      BY <2>1, <3>1, AllPassed
    <3> QED BY <2>2, <3>2 DEF Listed, ItmIdxs
  <2> QED BY <2>2, <2>3 DEF ChildrenFirst, LevelsOK, Listed
<1>4. step \in {"build", "prune", "level", "topo", "done"}
  BY DEF IInv
<1> QED BY <1>1, <1>2, <1>3, <1>4

(***************************************************************************)
(* For every code, every set of failed blocks and every block of them:     *)
(* the prune keeps what that block is made of, untouched, and the lists    *)
(* that Join, removeChildNode and DeleteUseless keep by hand agree with    *)
(* the edges that are left.                                                *)
(***************************************************************************)
THEOREM PruneKeeps == Spec => []PruneKeepsTheRepair
<1>1. Spec => []IInv
  BY Invariance
<1> QED BY <1>1, PruneHolds, PTL

(***************************************************************************)
(* For every code: both sorts list a vertex once and after its children,   *)
(* and genTopoIdxs, when it is done, has listed all that are computed and  *)
(* used, whatever the order in which it took the leaves.                   *)
(***************************************************************************)
THEOREM SortsInOrder == Spec => []ChildrenFirst
<1>1. Spec => []IInv
  BY Invariance
<1> QED BY <1>1, SortsHold, PTL
=============================================================================

-------------------------------- MODULE Dag ---------------------------------
(***************************************************************************)
(* The data structure ECDAG: vertices with the ordered list of their       *)
(* children, the coefficient of each child, and the list of their parents, *)
(* one entry per use; the headers (vertices nobody uses) and the leaves    *)
(* (vertices made of nothing), both lists kept up to date by Join.         *)
(***************************************************************************)
EXTENDS Lists, SequencesExt

REQUESTOR == 32767

EmptyDag ==
  [child |-> <<>>, coefs |-> <<>>, parent |-> <<>>, type |-> <<>>,
   headers |-> <<>>, leaves |-> <<>>, concacts |-> <<>>]

\* The keys of _ecNodeMap.
Ids(d) == DOMAIN d.child

Times(s, v) == Cardinality({i \in DOMAIN s : s[i] = v})

\* The entries of s, each where it comes first.
OnceEach(s) == Entries(s, {i \in DOMAIN s : \A j \in 1 .. i - 1 : s[j] # s[i]})

\* The entries of s that are not in S.
Outside(s, S) == Entries(s, {i \in DOMAIN s : s[i] \notin S})

\* The assertion in Join: the parent is not in the map when the children are.
JoinAllowed(d, pidx, cidx) == pidx \notin Ids(d) /\ pidx \notin ToSet(cidx)

(***************************************************************************)
(* Join: pidx is made of cidx.  A child that is not yet in the map becomes *)
(* a leaf, one that was a header becomes intermediate; the new parent is a *)
(* header.                                                                 *)
(***************************************************************************)
Join(d, pidx, cidx, coefs) ==
  LET ids == Ids(d) \cup ToSet(cidx) \cup {pidx}
      Used(h) == Contains(cidx, h)
      Old(f, v, none) == IF v \in Ids(d) THEN f[v] ELSE none
  IN  [d EXCEPT
        !.child   = [v \in ids |-> IF v = pidx THEN cidx ELSE Old(@, v, <<>>)],
        !.coefs   = [v \in ids |-> IF v = pidx THEN coefs ELSE Old(@, v, <<>>)],
        !.parent  = [v \in ids |-> Old(@, v, <<>>) \o [i \in 1 .. Times(cidx, v) |-> pidx]],
        !.type    = [v \in ids |-> CASE v = pidx -> "root"
                                     [] Contains(d.headers, v) /\ Used(v) -> "intermediate"
                                     [] OTHER -> Old(@, v, "leaf")],
        !.headers = Append(Outside(@, ToSet(cidx)), pidx),
        !.leaves  = @ \o Outside(OnceEach(cidx), Ids(d))]

NoCoefs(cidx) == [i \in DOMAIN cidx |-> -1]

\* Concact: one root that collects the sub-packets of the lost block.
Concact(d, cidx) == Join(d, REQUESTOR, cidx, NoCoefs(cidx))

\* The sub-packets of block b in cidx.
PartOf(cidx, w, b) == Entries(cidx, {i \in DOMAIN cidx : cidx[i] \div w = b})

\* A root for the block b, if it has a sub-packet in cidx.
ConcactBlock(d, cidx, w, b) ==
  IF PartOf(cidx, w, b) = <<>> THEN d
  ELSE [Join(d, REQUESTOR - b, PartOf(cidx, w, b), NoCoefs(cidx))
          EXCEPT !.concacts = Append(@, REQUESTOR - b)]

\* Concact by block.
ConcactBlocks(d, cidx, n, w) ==
  FoldLeft(LAMBDA g, b : ConcactBlock(g, cidx, w, b), d, [i \in 1 .. n |-> i - 1])

\* genItmIdxs: the vertices that are computed and used.
ItmIdxs(d) == Ids(d) \ (ToSet(d.headers) \cup ToSet(d.leaves))

\* removeParent: one use of v by p is gone.
RemoveParent(d, v, p) == [d EXCEPT !.parent[v] = RemoveFirst(@, p)]

\* removeNode: v is no longer a header.
RemoveNode(d, v) == [d EXCEPT !.headers = RemoveFirst(@, v)]

\* Mutant: the leaves that are deleted stay in the list of leaves.
DeleteUselessKeepingLeaves(d, toDelete) ==
  LET On(f) == [v \in Ids(d) \ toDelete |-> f[v]]
  IN  [d EXCEPT !.child = On(@), !.coefs = On(@), !.parent = On(@), !.type = On(@)]

\* DeleteUseless: the marked vertices leave the map, the leaves among them the list.
DeleteUseless(d, toDelete) ==
  LET On(f) == [v \in Ids(d) \ toDelete |-> f[v]]
  IN  [d EXCEPT !.child = On(@), !.coefs = On(@), !.parent = On(@), !.type = On(@),
                !.leaves = Outside(@, {v \in toDelete : d.type[v] = "leaf"})]
-----------------------------------------------------------------------------
(***************************************************************************)
(* What makes a DAG well formed.                                           *)
(***************************************************************************)
DistinctEntries(s) == \A i, j \in DOMAIN s : s[i] = s[j] => i = j

\* Every use of a child is recorded with the child, and no other.
UsesRecorded(d) ==
  \A v, p \in Ids(d) : Times(d.parent[v], p) = Times(d.child[p], v)

\* The lists and the types say what the edges say.
ListsAgree(d) ==
  /\ DistinctEntries(d.headers) /\ DistinctEntries(d.leaves)
  /\ ToSet(d.headers) = {v \in Ids(d) : d.parent[v] = <<>>}
  /\ ToSet(d.leaves) = {v \in Ids(d) : d.child[v] = <<>>}
  /\ \A v \in Ids(d) :
       d.type[v] = IF d.parent[v] = <<>> THEN "root"
                   ELSE IF d.child[v] = <<>> THEN "leaf" ELSE "intermediate"

\* Edges stay inside the map.
Closed(d) ==
  \A v \in Ids(d) : ToSet(d.child[v]) \cup ToSet(d.parent[v]) \subseteq Ids(d)

WellFormed(d) == Closed(d) /\ UsesRecorded(d) /\ ListsAgree(d)

\* The vertices that are v or that v is made of, reached in at most n edges.
Within(d, v, n) ==
  LET W[m \in 0 .. n] == IF m = 0 THEN {v}
                         ELSE W[m - 1] \cup UNION {ToSet(d.child[u]) : u \in W[m - 1]}
  IN  W[n]

MadeOf(d, v) == Within(d, v, Cardinality(Ids(d)))
=============================================================================

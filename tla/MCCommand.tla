----------------------------- MODULE MCCommand ------------------------------
(***************************************************************************)
(* Buffers of 20, 16 and 12 bytes, so that commands of a few numbers make  *)
(* them grow up to twice; lists of up to two, empty ones included.         *)
(***************************************************************************)
EXTENDS Command

Lists  == {<<>>, <<7>>, <<7, 8>>}
Names  == {<<"b">>, <<"b", "l", "k">>}
Usages == {<<TRUE, FALSE>>, <<FALSE, TRUE>>, <<TRUE, TRUE>>}
SameLen(S, n) == {s \in UNION {[1 .. m -> S] : m \in 0 .. 2} : Len(s) = n}
MCZERO == <<"Z", "E", "R", "O">>

Task(type, l) == [kind |-> "task", type |-> type, idxs |-> l]

MCCommands ==
  UNION {{[kind |-> "task", type |-> 0, blk |-> b, idxs |-> l, usage |-> u] :
            b \in Names, u \in SameLen(Usages, Len(l))} : l \in Lists}
  \cup {[kind |-> "task", type |-> 0, blk |-> MCZERO, idxs |-> l, usage |-> <<>>] : l \in Lists}
  \cup UNION {{[kind |-> "task", type |-> 1, idxs |-> l, to |-> t] :
                 t \in SameLen(Lists, Len(l))} : l \in Lists}
  \cup {Task(type, l) : type \in {2, 3}, l \in Lists}
  \cup {[kind |-> "task", type |-> 4, idxs |-> l, blk |-> b] : l \in Lists, b \in Names}
  \cup UNION {{[kind |-> "item", dst |-> 9, srcs |-> l, coefs |-> c, usage |-> u] :
                 c \in SameLen({1, 2}, Len(l)), u \in Usages} : l \in Lists}
  \cup {[kind |-> "request", batch |-> b, cur |-> 2, stripes |-> s] :
          b \in {0, 3}, s \in {<<>>, <<<<0, 5>>>>, <<<<0, 5>>, <<4, 1>>>>}}
=============================================================================

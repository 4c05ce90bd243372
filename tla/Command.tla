------------------------------ MODULE Command -------------------------------
(***************************************************************************)
(* The bytes of a command.  The coordinator writes the fields of a task    *)
(* (Task), of a compute item (ComputeItem) or of the request of a round    *)
(* (AGCommand) into a buffer that grows when it is full, and pushes it to  *)
(* a redis list; the agent reads the fields from what it pops.  The list   *)
(* says which of the three it is; nothing in the bytes says how long a     *)
(* list is but the numbers that were written before it.                    *)
(*                                                                         *)
(* A cell is a byte: byte k of a number v is <<"int", v, k>>, a character  *)
(* c of a string <<"char", c>>.                                            *)
(***************************************************************************)
EXTENDS Integers, Sequences, SequencesExt

CONSTANTS
  Commands,                 \* the commands that may be sent
  ZERO,                     \* the name "ZERO"
  TASK_COMMAND_LEN, COMPUTE_COMMAND_LEN, AGENT_COMMAND_LEN

VARIABLES
  cmd,      \* what is sent
  rest,     \* the fields that are not written yet
  cells,    \* _agCmd or _cmd, up to _cmLen
  maxLen,   \* _maxLen
  size,     \* of the memory _agCmd points to
  phase,    \* "write", "sent" or "resolved"
  got       \* what the agent has read

vars == <<cmd, rest, cells, maxLen, size, phase, got>>

Int4(v) == <<"int", v>>
Str(s)  == <<"str", s>>
Bit(b)  == Int4(IF b THEN 1 ELSE 0)

Ints(s) == [i \in DOMAIN s |-> Int4(s[i])]
List(s) == <<Int4(Len(s))>> \o Ints(s)
Bits(usage) == <<Bit(usage[1]), Bit(usage[2])>>

FirstLen(c) ==
  CASE c.kind = "task" -> TASK_COMMAND_LEN
    [] c.kind = "item" -> COMPUTE_COMMAND_LEN
    [] c.kind = "request" -> AGENT_COMMAND_LEN

\* The tasks, a compute item, a request.  A name is a sequence of characters.
Name == Seq(STRING)
Usage == BOOLEAN \X BOOLEAN

ReadTask    == [kind : {"task"}, type : {0}, blk : Name, idxs : Seq(Int), usage : Seq(Usage)]
SendTask    == [kind : {"task"}, type : {1}, idxs : Seq(Int), to : Seq(Seq(Int))]
ListTask    == [kind : {"task"}, type : {2, 3}, idxs : Seq(Int)]
PersistTask == [kind : {"task"}, type : {4}, idxs : Seq(Int), blk : Name]
ComputeItem == [kind : {"item"}, dst : Int, srcs : Seq(Int), coefs : Seq(Int), usage : Usage]
AGCommand   == [kind : {"request"}, batch : Int, cur : Int, stripes : Seq(Int \X Int)]

\* A string is not longer than the buffer it is written to.  The lists that are
\* written under one length have it: a vertex that is read has a usage unless
\* there is nothing to read, one that is sent has receivers, a source has a
\* coefficient.
ASSUME CommandAssumption ==
  /\ {TASK_COMMAND_LEN, COMPUTE_COMMAND_LEN, AGENT_COMMAND_LEN} \subseteq Nat \ (0 .. 3)
  /\ \A c \in Commands :
       \/ /\ c \in ReadTask /\ 4 + Len(c.blk) <= TASK_COMMAND_LEN
          /\ Len(c.usage) = IF c.blk = ZERO THEN 0 ELSE Len(c.idxs)
       \/ c \in SendTask /\ Len(c.to) = Len(c.idxs)
       \/ c \in ListTask
       \/ c \in PersistTask /\ 4 + Len(c.blk) <= TASK_COMMAND_LEN
       \/ c \in ComputeItem /\ Len(c.coefs) = Len(c.srcs)
       \/ c \in AGCommand
-----------------------------------------------------------------------------
(***************************************************************************)
(* build*Command.  The types are 0 read, 1 send, 2 receive, 3 compute and  *)
(* 4 persist.  Zero packets have no usage list.                            *)
(***************************************************************************)
ReadFields(c) ==
  <<Int4(0), Str(c.blk)>> \o List(c.idxs)
    \o (IF c.blk = ZERO THEN <<>> ELSE FlattenSeq([i \in DOMAIN c.usage |-> Bits(c.usage[i])]))

\* Mutant: the receivers of a vertex follow the vertex.
SendFieldsInterleaved(c) ==
  <<Int4(1), Int4(Len(c.idxs))>>
    \o FlattenSeq([i \in DOMAIN c.idxs |-> <<Int4(c.idxs[i])>> \o List(c.to[i])])

SendFields(c) ==
  <<Int4(1)>> \o List(c.idxs) \o FlattenSeq([i \in DOMAIN c.idxs |-> List(c.to[i])])

ItemFields(c) == <<Int4(c.dst)>> \o List(c.srcs) \o Ints(c.coefs) \o Bits(c.usage)

RequestFields(c) ==
  Ints(<<c.batch, c.cur, Len(c.stripes)>>)
    \o FlattenSeq([i \in DOMAIN c.stripes |-> Ints(c.stripes[i])])

Fields(c) ==
  CASE c.kind = "request" -> RequestFields(c)
    [] c.kind = "item" -> ItemFields(c)
    [] c.kind = "task" /\ c.type = 0 -> ReadFields(c)
    [] c.kind = "task" /\ c.type = 1 -> SendFields(c)
    [] c.kind = "task" /\ c.type \in {2, 3} -> <<Int4(c.type)>> \o List(c.idxs)
    [] c.kind = "task" /\ c.type = 4 -> <<Int4(4)>> \o List(c.idxs) \o <<Str(c.blk)>>

IntCells(v) == [k \in 1 .. 4 |-> <<"int", v, k>>]

Cells(f) ==
  IF f[1] = "int" THEN IntCells(f[2])
  ELSE IntCells(Len(f[2])) \o [k \in DOMAIN f[2] |-> <<"char", f[2][k]>>]

Init ==
  /\ cmd \in Commands
  /\ rest = Fields(cmd)
  /\ cells = <<>>
  /\ maxLen = FirstLen(cmd) /\ size = FirstLen(cmd)
  /\ phase = "write" /\ got = <<>>

\* writeInt and writeString: twice the memory, once, when it is too small.
Write ==
  /\ phase = "write" /\ rest # <<>>
  /\ cells' = cells \o Cells(Head(rest))
  /\ LET grow == Len(cells') > maxLen
     IN  /\ maxLen' = IF grow THEN 2 * maxLen ELSE maxLen
         /\ size' = IF grow THEN 2 * maxLen ELSE size
  /\ rest' = Tail(rest)
  /\ UNCHANGED <<cmd, phase, got>>

\* RPUSH of _cmLen bytes.
SendTo ==
  /\ phase = "write" /\ rest = <<>>
  /\ phase' = "sent"
  /\ UNCHANGED <<cmd, rest, cells, maxLen, size, got>>
-----------------------------------------------------------------------------
(***************************************************************************)
(* resolve*Task and the constructors that read.  p is the number of cells  *)
(* that are read.  What is no number reads as Garbage.                     *)
(***************************************************************************)
Garbage == -99

readInt(p) ==
  IF p + 4 <= Len(cells) /\ cells[p + 1][1] = "int"
       /\ SubSeq(cells, p + 1, p + 4) = IntCells(cells[p + 1][2])
  THEN cells[p + 1][2] ELSE Garbage

ReadInts(p, n) == [i \in 1 .. n |-> readInt(p + 4 * (i - 1))]
ReadList(p)    == ReadInts(p + 4, readInt(p))
EndOfList(p)   == p + 4 + 4 * Len(ReadList(p))

ReadBits(p) == <<readInt(p) = 1, readInt(p + 4) = 1>>

readString(p) ==
  [k \in 1 .. readInt(p) |->
     IF p + 4 + k <= Len(cells) THEN Last(cells[p + 4 + k]) ELSE Garbage]
EndOfString(p) == p + 4 + Len(readString(p))

ResolveRead ==
  LET blk == readString(4)
      at == EndOfString(4)
      num == readInt(at)
      usages == IF blk = ZERO THEN 0 ELSE num
      end == EndOfList(at)
  IN  [cmd |-> [kind |-> "task", type |-> 0, blk |-> blk, idxs |-> ReadList(at),
                usage |-> [i \in 1 .. usages |-> ReadBits(end + 8 * (i - 1))]],
       end |-> end + 8 * usages]

ResolveSend ==
  LET lists == FoldLeft(LAMBDA s, i : [to |-> Append(s.to, ReadList(s.end)),
                                       end |-> EndOfList(s.end)],
                        [to |-> <<>>, end |-> EndOfList(4)], ReadList(4))
  IN  [cmd |-> [kind |-> "task", type |-> 1, idxs |-> ReadList(4), to |-> lists.to],
       end |-> lists.end]

ResolveList(type) ==
  [cmd |-> [kind |-> "task", type |-> type, idxs |-> ReadList(4)], end |-> EndOfList(4)]

ResolvePersist ==
  [cmd |-> [kind |-> "task", type |-> 4, idxs |-> ReadList(4),
            blk |-> readString(EndOfList(4))],
   end |-> EndOfString(EndOfList(4))]

\* The coefficients are as many as the sources.
ResolveItem ==
  LET numsrc == readInt(4)
      end == EndOfList(4) + 4 * numsrc
  IN  [cmd |-> [kind |-> "item", dst |-> readInt(0), srcs |-> ReadList(4),
                coefs |-> ReadInts(EndOfList(4), numsrc), usage |-> ReadBits(end)],
       end |-> end + 8]

ResolveRequest ==
  LET num == readInt(8)
  IN  [cmd |-> [kind |-> "request", batch |-> readInt(0), cur |-> readInt(4),
                stripes |-> [i \in 1 .. num |-> ReadInts(12 + 8 * (i - 1), 2)]],
       end |-> 12 + 8 * num]

Resolved ==
  CASE cmd.kind = "request" -> ResolveRequest
    [] cmd.kind = "item" -> ResolveItem
    [] cmd.kind = "task" /\ readInt(0) = 0 -> ResolveRead
    [] cmd.kind = "task" /\ readInt(0) = 1 -> ResolveSend
    [] cmd.kind = "task" /\ readInt(0) \in {2, 3} -> ResolveList(readInt(0))
    [] cmd.kind = "task" /\ readInt(0) = 4 -> ResolvePersist

Resolve ==
  /\ phase = "sent"
  /\ got' = Resolved
  /\ phase' = "resolved"
  /\ UNCHANGED <<cmd, rest, cells, maxLen, size>>

Next == Write \/ SendTo \/ Resolve

Spec == Init /\ [][Next]_vars
-----------------------------------------------------------------------------
(***************************************************************************)
(* The agent has the command that the coordinator has built and has read   *)
(* all of it, and all that was written was inside the buffer, wherever it  *)
(* grew: in a list, before a string, or never.                             *)
(***************************************************************************)
ResolvesTheSame ==
  /\ Len(cells) <= size /\ maxLen = size
  /\ phase = "resolved" => got = [cmd |-> cmd, end |-> Len(cells)]
=============================================================================

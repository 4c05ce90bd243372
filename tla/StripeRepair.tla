---------------------------- MODULE StripeRepair ----------------------------
(***************************************************************************)
(* The repair of one stripe by the agents (Worker::repairStripe on every   *)
(* node that has tasks).  Each agent runs one thread per task.  Threads of *)
(* a node exchange packets through the blocking queues of the stripe's     *)
(* DataMap, one per key; threads of different nodes through redis lists,   *)
(* one per vertex at the receiving node.  A thread makes one turn of its   *)
(* loops per sub-packet, for PktNum packets.                               *)
(*                                                                         *)
(* The key of a local queue is the dagidx; the packets a node sends wait   *)
(* in a second queue, whose key is the dagidx negated, or KEY0 for 0.      *)
(*                                                                         *)
(* The data of a packet is the vertex it belongs to and its number; the    *)
(* arithmetic of the erasure code is abstracted to: the right inputs give  *)
(* the right output, and others do not.                                    *)
(***************************************************************************)
EXTENDS TaskGen

CONSTANTS PktNum,      \* packets of a block: pktnum
          SendWindow,  \* redis commands sent before the first reply is read
          FailBlock,   \* the lost block: _fail_blk_idx
          Colorings,   \* the colourings a run may start from
          BadBlocks    \* blocks whose disk may fail while it is read

KEY0 == -32767

\* Is the vertex a combination of zeros?
IsZero[v \in Vertices] ==
  IF IsLeaf(v) THEN IsVirtual(v) ELSE \A c \in ToSet(Src[v]) : IsZero[c]

(***************************************************************************)
(* A colouring as the repair needs it: the root and every block that is    *)
(* read are at a node, a block with all its sub-packets, and a vertex      *)
(* without a colour is a combination of zeros, that nothing which has a    *)
(* colour is sent to.  The solutions hand over such colourings             *)
(* (UncoloredIsZero in Coloring and SingleBlock), all but Dynamic2Solution *)
(* (ColorsTheBlankNodes in SingleBlock).                                   *)
(***************************************************************************)
Usable(col) ==
  /\ col \in [Vertices -> Nodes \cup {NoColor}]
  /\ col[REQUESTOR] \in Nodes
  /\ \A v \in Vertices : IsLeaf(v) /\ ~IsVirtual(v) =>
       /\ col[v] \in Nodes
       /\ \A w \in Vertices : IsLeaf(w) /\ w \div ecw = v \div ecw => col[w] = col[v]
  /\ \A v \in Vertices : col[v] = NoColor /\ ~IsLeaf(v) =>
       /\ IsZero[v]
       /\ \A c \in ToSet(Src[v]) : IsVirtual(c) \/ col[c] = NoColor

(***************************************************************************)
(* The DAG has no cycle: the definition of IsZero is one.  The root        *)
(* collects the sub-packets of the lost block in their order (Concact).    *)
(***************************************************************************)
ASSUME StripeRepairAssumption ==
  /\ PktNum \in Nat /\ SendWindow \in Nat
  /\ \A v \in Vertices :
       IsZero[v] = IF IsLeaf(v) THEN IsVirtual(v) ELSE \A c \in ToSet(Src[v]) : IsZero[c]
  /\ FailBlock \in 0 .. ecn - 1
  /\ Src[REQUESTOR] = [i \in 1 .. ecw |-> FailBlock * ecw + i - 1]
  /\ \A c \in Colorings : Usable(Remap(c))

VARIABLES
  color,     \* _coloring, the failed node replaced
  threads,   \* the tasks of all the nodes, each run by a thread
  inputs,    \* compute thread -> input_list
  running,   \* nodes whose threads are started
  queue,     \* node -> key -> blocking queue of packets
  redis,     \* node -> vertex -> list batch:stripe:dagidx
  turn,      \* thread -> turns of its loop made so far
  buf,       \* compute thread -> the inputs it has popped for this packet
  cmds,      \* send thread -> receiver -> vertex -> packets not yet written out
  replies,   \* send thread -> replylist, the receivers that owe a reply
  count,     \* send thread -> commands issued so far
  failed,    \* read threads that returned on a read error
  file       \* what persist has written

given == <<color, threads, inputs>>
vars == <<given, running, queue, redis, turn, buf, cmds, replies, count, failed, file>>
-----------------------------------------------------------------------------
(***************************************************************************)
(* Threads.  A thread is a task, and runs on the node of the task.         *)
(***************************************************************************)
ThreadsOf(n) == {t \in threads : t.node = n}
OfType(type, S) == {t \in S : t.type = type}

\* Mutant: an input that two items share is listed twice.
InputListRepeats(t) == FlattenSeq([i \in DOMAIN t.list |-> Src[t.list[i]]])

\* The first use of v as a child, by the items of a list, is before that of w.
UsedBefore(list, v, w) ==
  \E i \in DOMAIN list : \E j \in DOMAIN Src[list[i]] :
    /\ Src[list[i]][j] = v
    /\ \A k \in 1 .. i : \A l \in DOMAIN Src[list[k]] : Src[list[k]][l] = w => k = i /\ j < l

\* The inputs of a compute task, each once, in the order they are popped.
InputList(t) ==
  LET used == UNION {ToSet(Src[v]) : v \in ToSet(t.list)}
  IN  InOrder(used, {p \in used \X used : UsedBefore(t.list, p[1], p[2])})

\* Turns per packet: a compute thread pops its inputs, then makes its outputs.
PerPacket(t) == Len(t.list) + (IF t.type = "compute" THEN Len(inputs[t]) ELSE 0)

\* Mutant: one packet too many.
TurningOnceMore(t) == turn[t] <= PktNum * PerPacket(t) /\ t \notin failed

\* Has the thread something left to do in its loop?
Turning(t) == turn[t] < PktNum * PerPacket(t) /\ t \notin failed
Finished(t) == ~Turning(t) /\ (t.type = "send" => replies[t] = <<>>)

Pkt(t) == turn[t] \div PerPacket(t)
Pos(t) == turn[t] % PerPacket(t)
Item(t) == t.list[Pos(t) + 1]     \* not for compute threads

NextTurn(t) == turn' = [turn EXCEPT ![t] = @ + 1]

\* Mutant: vertex 0 has no key of its own for what is sent.
CacheKeyNegated(v) == -v

CacheKey(v) == IF v # 0 THEN -v ELSE KEY0

\* Mutant: the usage flags of a vertex are ignored.
KeysOfBoth(v, same, diff) == {v, CacheKey(v)}

\* The queues of a vertex: for use at the same node, for use at others.
KeysOf(v, same, diff) == (IF same THEN {v} ELSE {}) \cup (IF diff THEN {CacheKey(v)} ELSE {})

\* prepareDataMap: the queues that the tasks of a node create.
KeysFor(t) ==
  CASE t.type \in {"read", "compute"} ->
         UNION {KeysOf(v, Same(color, v), Diff(color, v)) : v \in ToSet(t.list)}
    [] t.type \in {"zero", "recv"} -> ToSet(t.list)
    [] OTHER -> {}

Keys(n) == UNION {KeysFor(t) : t \in ThreadsOf(n)}
-----------------------------------------------------------------------------
(***************************************************************************)
(* Data.                                                                   *)
(***************************************************************************)
ZeroPacket == <<-1, 0>>
BadPacket  == <<-2, 0>>

Value(v, k) == IF IsZero[v] THEN ZeroPacket ELSE <<v, k>>

\* Sub-packet `off' of a block: blocks hold packets of ecw sub-packets.
BlockData(b, off) == Value(b * ecw + (off % ecw), off \div ecw)

\* Computation::Multi for vertex v: `in' gives the packet used for each child.
Multi(v, in) ==
  LET right == {k \in 0 .. PktNum - 1 : \A c \in ToSet(Src[v]) : in[c] = Value(c, k)}
  IN  IF right = {} THEN BadPacket ELSE Value(v, CHOOSE k \in right : TRUE)

Push(q, v, pkt) ==
  [key \in DOMAIN q |-> IF key \in KeysOf(v, Same(color, v), Diff(color, v))
                          THEN Append(q[key], pkt) ELSE q[key]]
-----------------------------------------------------------------------------
Init ==
  /\ \E c \in Colorings : color = Remap(c)
  /\ threads = GenRepairTasks(color)
  /\ inputs = [t \in OfType("compute", threads) |-> InputList(t)]
  /\ running = {}
  /\ queue = [n \in Nodes |-> <<>>]
  /\ redis = [n \in Nodes |-> [v \in Vertices |-> <<>>]]
  /\ turn = [t \in threads |-> 0]
  /\ buf = [t \in OfType("compute", threads) |-> <<>>]
  /\ cmds = [t \in OfType("send", threads) |-> [n \in Nodes |-> [v \in Vertices |-> <<>>]]]
  /\ replies = [t \in OfType("send", threads) |-> <<>>]
  /\ count = [t \in OfType("send", threads) |-> 0]
  /\ failed = {}
  /\ file = <<>>

\* repairBatch creates the queues, and repairStripe starts the threads.
Start(n) ==
  /\ n \notin running
  /\ ThreadsOf(n) # {}
  /\ running' = running \cup {n}
  /\ queue' = [queue EXCEPT ![n] = [key \in Keys(n) |-> <<>>]]
  /\ UNCHANGED <<given, redis, turn, buf, cmds, replies, count, failed, file>>

\* readRealBlock reads a sub-packet and pushes it to one or both queues.
ReadRealBlock(t) ==
  /\ t.type = "read" /\ Turning(t)
  /\ LET v == Item(t)
         pkt == BlockData(t.at, Pkt(t) * ecw + (v % ecw))
     IN  queue' = [queue EXCEPT ![t.node] = Push(@, v, pkt)]
  /\ NextTurn(t)
  /\ UNCHANGED <<given, running, redis, buf, cmds, replies, count, failed, file>>

\* Mutant: the buffer is pushed although the read failed.
ReadErrorPushes(t) ==
  /\ t.type = "read" /\ Turning(t)
  /\ t.at \in BadBlocks
  /\ failed' = failed \cup {t}
  /\ queue' = [queue EXCEPT ![t.node] = Push(@, Item(t), BadPacket)]
  /\ UNCHANGED <<given, running, redis, turn, buf, cmds, replies, count, file>>

\* pread returns an error: the thread logs it and returns.
ReadError(t) ==
  /\ t.type = "read" /\ Turning(t)
  /\ t.at \in BadBlocks
  /\ failed' = failed \cup {t}
  /\ UNCHANGED <<given, running, queue, redis, turn, buf, cmds, replies, count, file>>

\* readVirtBlock pushes zeros, to the local queue.
ReadVirtBlock(t) ==
  /\ t.type = "zero" /\ Turning(t)
  /\ queue' = [queue EXCEPT ![t.node][Item(t)] = Append(@, ZeroPacket)]
  /\ NextTurn(t)
  /\ UNCHANGED <<given, running, redis, buf, cmds, replies, count, failed, file>>

\* The commands to receiver n are pushed to its redis.
Flush(t, n, pending) ==
  /\ redis' = [redis EXCEPT ![n] = [v \in Vertices |-> @[v] \o pending[n][v]]]
  /\ cmds' = [cmds EXCEPT ![t] = [pending EXCEPT ![n] = [v \in Vertices |-> <<>>]]]

\* The number of commands in the output buffer of one connection.
Commands(unsent) == MapThenSumSet(LAMBDA v : Len(unsent[v]), Vertices)

\* redisGetReply for the oldest reply.  If it has been read from the socket
\* together with an earlier one, no command is written out; if not, all the
\* commands to that receiver are, and the reply is waited for.
GetReply(t, pending, owed) ==
  LET n == Head(owed)
      alreadySent == Len(SelectSeq(owed, LAMBDA m : m = n)) > Commands(pending[n])
  IN  /\ replies' = [replies EXCEPT ![t] = Tail(owed)]
      /\ \/ Flush(t, n, pending)
         \/ /\ alreadySent
            /\ cmds' = [cmds EXCEPT ![t] = pending]
            /\ UNCHANGED redis

\* sendOneByOne pops a packet and issues an RPUSH to every node that uses it;
\* from the SendWindow-th command on, it then waits for the oldest reply.
SendOneByOne(t) ==
  /\ t.type = "send" /\ Turning(t)
  /\ LET v == Item(t)
         q == queue[t.node][CacheKey(v)]
         to == SetToSeq(SendTo(color, v))
         pending == [n \in Nodes |-> IF n \in SendTo(color, v)
                                       THEN [cmds[t][n] EXCEPT ![v] = Append(@, Head(q))]
                                       ELSE cmds[t][n]]
         owed == replies[t] \o to
     IN  /\ q # <<>>
         /\ queue' = [queue EXCEPT ![t.node][CacheKey(v)] = Tail(@)]
         /\ count' = [count EXCEPT ![t] = @ + Len(to)]
         /\ IF count'[t] > SendWindow
              THEN GetReply(t, pending, owed)
              ELSE /\ cmds' = [cmds EXCEPT ![t] = pending]
                   /\ replies' = [replies EXCEPT ![t] = owed]
                   /\ UNCHANGED redis
  /\ NextTurn(t)
  /\ UNCHANGED <<given, running, buf, failed, file>>

\* After its loop it waits for the replies it has not read.
ReadReply(t) ==
  /\ t.type = "send" /\ ~Turning(t) /\ replies[t] # <<>>
  /\ GetReply(t, cmds[t], replies[t])
  /\ UNCHANGED <<given, running, queue, turn, buf, count, failed, file>>

\* recvList pops from the node's own redis, in the order of its list.
RecvOneByOne(t) ==
  /\ t.type = "recv" /\ Turning(t)
  /\ LET v == Item(t)
     IN  /\ redis[t.node][v] # <<>>
         /\ redis' = [redis EXCEPT ![t.node][v] = Tail(@)]
         /\ queue' = [queue EXCEPT ![t.node][v] = Append(@, Head(redis[t.node][v]))]
  /\ NextTurn(t)
  /\ UNCHANGED <<given, running, buf, cmds, replies, count, failed, file>>

\* computeOneByOne first pops a packet of every input ...
PopInput(t) ==
  /\ t.type = "compute" /\ Turning(t)
  /\ Pos(t) < Len(inputs[t])
  /\ LET v == inputs[t][Pos(t) + 1]
         q == queue[t.node][v]
     IN  /\ q # <<>>
         /\ buf' = [buf EXCEPT ![t] = Append(@, Head(q))]
         /\ queue' = [queue EXCEPT ![t.node][v] = Tail(@)]
  /\ NextTurn(t)
  /\ UNCHANGED <<given, running, redis, cmds, replies, count, failed, file>>

\* ... then computes its vertices and pushes each where it is used.
PushOutput(t) ==
  /\ t.type = "compute" /\ Turning(t)
  /\ Pos(t) >= Len(inputs[t])
  /\ LET i == Pos(t) - Len(inputs[t]) + 1
         v == t.list[i]
         in == [c \in ToSet(inputs[t]) |->
                  buf[t][CHOOSE k \in DOMAIN buf[t] : inputs[t][k] = c]]
     IN  /\ queue' = [queue EXCEPT ![t.node] = Push(@, v, Multi(v, in))]
         /\ buf' = IF i = Len(t.list) THEN [buf EXCEPT ![t] = <<>>] ELSE buf
  /\ NextTurn(t)
  /\ UNCHANGED <<given, running, redis, cmds, replies, count, failed, file>>

\* persist appends the packets of the lost block's sub-packets to its file.
Persist(t) ==
  /\ t.type = "persist" /\ Turning(t)
  /\ LET q == queue[t.node][Item(t)]
     IN  /\ q # <<>>
         /\ file' = Append(file, Head(q))
         /\ queue' = [queue EXCEPT ![t.node][Item(t)] = Tail(@)]
  /\ NextTurn(t)
  /\ UNCHANGED <<given, running, redis, buf, cmds, replies, count, failed>>

Joined(n) == n \in running /\ \A t \in ThreadsOf(n) : Finished(t)

\* Every node has joined its threads: the repair of the stripe is over.
Over == \A n \in Nodes : ThreadsOf(n) = {} \/ Joined(n)

Stop == Over /\ UNCHANGED vars

Thread(t) ==
  \/ ReadRealBlock(t) \/ ReadVirtBlock(t)
  \/ SendOneByOne(t) \/ ReadReply(t) \/ RecvOneByOne(t)
  \/ PopInput(t) \/ PushOutput(t) \/ Persist(t)

Agent(n) == Start(n) \/ (n \in running /\ \E t \in ThreadsOf(n) : Thread(t))

DiskError(n) == n \in running /\ \E t \in ThreadsOf(n) : ReadError(t)

Next == Stop \/ \E n \in Nodes : Agent(n) \/ DiskError(n)

Spec == Init /\ [][Next]_vars

\* An agent goes on while one of its threads can.
FairSpec == Spec /\ \A n \in Nodes : WF_vars(Agent(n))
-----------------------------------------------------------------------------
(***************************************************************************)
(* Properties.                                                             *)
(***************************************************************************)
Packet == {ZeroPacket, BadPacket} \cup (Vertices \X (0 .. PktNum - 1))

TypeOK ==
  /\ color \in [Vertices -> Nodes \cup {NoColor}]
  /\ running \subseteq Nodes
  /\ \A n \in Nodes : /\ \A key \in DOMAIN queue[n] : queue[n][key] \in Seq(Packet)
                       /\ \A v \in Vertices : redis[n][v] \in Seq(Packet)
  /\ turn \in [threads -> Nat]
  /\ \A t \in DOMAIN buf : buf[t] \in Seq(Packet)
  /\ \A t \in DOMAIN cmds : /\ cmds[t] \in [Nodes -> [Vertices -> Seq(Packet)]]
                            /\ replies[t] \in Seq(Nodes)
                            /\ count[t] \in Nat
  /\ failed \subseteq threads
  /\ file \in Seq(Packet)

(***************************************************************************)
(* When a node starts its threads, every queue that one of them takes from *)
(* or puts into exists there (getQueue would return NULL), one thread puts *)
(* into it and one takes from it.                                          *)
(***************************************************************************)
TakesFrom(t) ==
  CASE t.type = "send" -> {CacheKey(v) : v \in ToSet(t.list)}
    [] t.type = "compute" -> ToSet(inputs[t])
    [] t.type = "persist" -> ToSet(t.list)
    [] OTHER -> {}

QueuesAreWired ==
  \A n \in running : (\A t \in ThreadsOf(n) : turn[t] = 0) =>
    \A t \in ThreadsOf(n) : \A key \in KeysFor(t) \cup TakesFrom(t) :
      /\ key \in DOMAIN queue[n]
      /\ Cardinality({u \in ThreadsOf(n) : key \in KeysFor(u)}) = 1
      /\ Cardinality({u \in ThreadsOf(n) : key \in TakesFrom(u)}) = 1

(***************************************************************************)
(* When a node joins its threads its queues are empty: they are deleted    *)
(* then.  When all have, no list of the stripe is left in redis: the next  *)
(* round of a single-block repair uses the same keys.                      *)
(***************************************************************************)
NothingLeft ==
  /\ \A n \in Nodes : Joined(n) => \A key \in DOMAIN queue[n] : queue[n][key] = <<>>
  /\ Over => \A n \in Nodes : \A v \in Vertices : redis[n][v] = <<>>

(***************************************************************************)
(* The file of the repaired block implements the abstract repair: whatever *)
(* the threads of the agents do first, the right sub-packet is appended.   *)
(***************************************************************************)
LostData(off) == BlockData(FailBlock, off)
Block == INSTANCE BlockRepair WITH Size <- PktNum * ecw, Lost <- LostData

ImplementsBlockRepair == Block!Spec

(***************************************************************************)
(* A read error is never reported as a repair: the agents do not all join  *)
(* their threads, because one of them waits for the data that was not read *)
(* (and the coordinator with it: the code has no message for a failure).   *)
(***************************************************************************)
NoFalseFinish == failed # {} => ~Over

(***************************************************************************)
(* The repair ends with the whole block written: no order of the threads,  *)
(* of the starts of the agents and of the writes to redis leaves a thread  *)
(* waiting.                                                                *)
(***************************************************************************)
BlockIsRepaired == <>(Over /\ Len(file) = PktNum * ecw)
=============================================================================

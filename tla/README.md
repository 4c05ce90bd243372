# Verification of dynamicParaMSR

dynamicParaMSR repairs blocks of erasure-coded stripes. A coordinator decides
which node computes which part of a repair (a *colouring* of the stripe's
repair DAG) and agents on the storage nodes carry it out. This directory holds
TLA+ models of the parts that make that work, TLC runs on small instances, and
TLAPS proofs. Paths below are relative to `src/src/`.

## 1. The system

| Component | Code | State | Operations |
|---|---|---|---|
| Batch pipeline | `ParaCoordinator.cc`, `common/Coordinator.cc`, `sol/SolutionBase.cc`, `sol/{Cent,Offline,Balance}Solution.cc`, `util/BlockingQueue.hh` | `_stripes_to_repair`, `_batch_queue`, `_batch_request`, `_finish_gen_batches`, `batch_list` | filter the failed stripes; build, push and dump batches; hasNext, pop, repair, delete |
| Round dispatch | `sol/RepairBatch.cc`, `single/SingleSolutionBase.cc`, `ec/NodeBatchTask.cc`, `protocol/AGCommand.cc`, `ec/Task.cc`, `common/Worker.cc` (first part) | redis lists `ag_request`, `batch:stripe:command`, `...:compute:dagidx`, `batch:curId:node:finish`; the agent's position | send commands and wait for flags, one thread per node; the agent pops, repairs, pushes a flag |
| Task generation | `common/Stripe.cc` 598-1249 | the stripe's `_ecdag`, `_coloring`, `_taskmap` | read, zero, send, receive, compute and persist tasks per level and node |
| Agent data flow | `common/Worker.cc`, `Worker.hh`, `common/DataPacket.cc` | a `DataMap` of blocking queues per stripe, redis lists `batch:stripe:dagidx:v`, the `.repair` file | one thread per task |
| Repair DAG | `ec/ECDAG.cc`, `ec/ECNode.cc` | `_ecNodeMap`, `_ecHeaders`, `_ecLeaves` | Join, Concact, levelled sort, topological order, removal of useless vertices |
| Load and colouring | `common/Stripe.cc` 90-600, `sol/*Solution.cc`, `single/*` | `_coloring`, `_in`, `_out`, `_load`, the batch's load table | setColoring, changeColor, evaluateColoring, evaluateChange, choice of a colour |
| ParallelSolution | `sol/ParallelSolution.cc`, `MulSim_parallel.cc` | groups with a matching, `_batch_list`, load tables, `_batch_request` | form groups, exchange stripes, improve batches until they are asked for |
| SecSolution | `sol/SecSolution.cc`, `sol/FlowGraph.cc` | the flow network, three maps of stripes | select stripes, exchange one, assign new nodes |
| Single-block solutions | `single/*.cc`, `common/Bandwidth.cc`, `SingleCoordinator.cc` | colouring and load of the stripe, bandwidth tables, groups of vertices | LoadNext, colour, decide, generate tasks |
| Search for colourings | `Naive_homo.cc`, `single/NaiveSingleSolution.cc` | the curve in two maps, a pool | look at neighbours, insert, replace, drop |
| Commands | `ec/Task.cc`, `ec/Compute*.cc`, `protocol/AGCommand.cc` | `_command`, `_cmLen`, `_maxLen` | build, grow, resolve |
| Inputs | `common/{Config,StripeStore,TradeoffPoints}.cc`, `scripts/`, `conf/`, `offline/` | | parsing |
| Codes | `ec/{Clay,RDP,HHXORPlus,BUTTERFLY,Computation}.cc`, `CodeTest.cc` | the DAG, matrices over GF(2^8) | Encode, Decode, compute |

**How they interact.** `ParaCoordinator` starts a generator thread, which runs
a solution's `genRepairBatches`, and repairs batches in the main thread; the
two share a `BlockingQueue` (with a lock), the stripes and two flags (without).
The repair of a batch turns each stripe's coloured DAG into tasks
(`Stripe::genRepairTasks`), sends them through redis lists to the agents, and
waits for one finish flag per node. An agent runs one thread per stripe and,
within it, one thread per task; these exchange packets through blocking queues
inside a node and through redis lists between nodes. `SingleCoordinator` does
the same for one block, once per bandwidth setting, always as batch 0, stripe 0.

**What is hard.** Two threads that share unprotected state and free each
other's objects; a flag and a queue that are read one after the other; keys
that are used again in the next round; pipelined commands that are written out
late; a data flow of many threads on several nodes in which a single missing or
superfluous packet, or a wrong order, stops the whole repair or corrupts a
block; read errors that nobody is told about. `PROJECT.json` lists each with its line.

**What makes each component correct.** Pipeline: each lost stripe is rebuilt
exactly once, no stripe is used by both threads, nothing is used after it is
freed, the process ends (it may not: section 5). Dispatch: rounds do not
overlap, each agent runs what was planned for it in this round, every round
ends, the lists are empty between rounds. Task generation and data flow: each
queue a task uses exists and has one producer and one consumer, the block is
written in order with the right data, everything is consumed, a failure is
never reported as success. Codes: what is decoded is what was encoded, read from
survivors only. DAG: the prune leaves exactly the repair, children come before
parents, the sorts end. Colouring: the load kept incrementally is the load of
the colouring, the table is the sum over the batch, what has no node is zero.
ParallelSolution and SecSolution: each affected stripe is in one batch (it may not
be with ParallelSolution: section 5), the
stripes of a group share no helper, tables and bounds that a search compares
with are current, a waiting consumer is served. Search: the curve stays a
front and the search ends at a local optimum. Commands: what is read is what
was written.

## 2. Modules

| Module | Models | Kind |
|---|---|---|
| `RepairJob` | what a full-node repair promises | abstract specification |
| `BatchQueue` | generator and main thread of `ParaCoordinator` | state machine, implements `RepairJob` |
| `BatchQueueProofs` | proofs about `BatchQueue` | TLAPS |
| `RepairRounds` | what the coordinator promises about rounds | abstract specification |
| `Dispatch` | coordinator threads, redis lists, agents | state machine, implements `RepairRounds` |
| `DispatchProofs` | proofs about `Dispatch` | TLAPS |
| `TaskGen` | `Stripe::genRepairTasks` | operators |
| `BlockRepair` | what the repair of a stripe promises | abstract specification |
| `StripeRepair` | the agents' threads on one stripe; extends `TaskGen` | state machine, implements `BlockRepair` |
| `StripeRepairProofs` | proofs about `TaskGen` and `StripeRepair` | TLAPS |
| `Galois` | arithmetic in GF(2^8), matrices and their inversion | operators |
| `ErasureCode` | stripes, sub-packets and Joins as the codes share them | operators |
| `Rdp`, `Butterfly`, `HHXORPlus`, `Clay` | Encode and Decode of the four codes | operators |
| `CodeRepair` | `CodeTest`: encode, lose blocks, decode, compute level by level | state machine |
| `Lists` | lists that a loop makes of the entries it does not skip | operators |
| `Dag` | the data structure `ECDAG`: Join, Concact, removal, sorts | operators |
| `ECDag` | building, pruning and sorting a repair DAG | state machine |
| `ECDagProofs` | proofs about `Dag` and `ECDag` | TLAPS |
| `StripeLoad` | load of a colouring, counted and kept up to date | operators |
| `Coloring` | colouring the stripes of a batch, five solutions | state machine |
| `ColoringProofs` | proofs about `StripeLoad` and `Coloring` | TLAPS |
| `Grouping` | `findRepairBatchs`: matching, exchanges | state machine |
| `BatchImprove` | `improve`, `improve_enqueue` and the consumer | state machine |
| `ParallelSolution` | the composition of these two | state machine |
| `ParallelSolutionProofs` | proofs about `ParallelSolution` | TLAPS |
| `FlowGraph` | flow network and maximum flow | operators |
| `SecSolution` | the batches of SelectiveEC | state machine |
| `SingleBlock` | the single-block solutions over a bandwidth file | state machine |
| `Pareto` | search for Pareto-optimal colourings | state machine |
| `ParetoProofs` | proofs about `Pareto` | TLAPS |
| `Command` | the bytes of commands and the growth of buffers | state machine |
| `CommandProofs` | proofs about `Command` | TLAPS |
| `MC*` | small instances (`MCRepairDag` puts `CodeRepair` and `ECDag` side by side, `MCSingleBlock` does so with `Pareto` and two instances of `SingleBlock`, `MCStripeRepair` with `StripeRepair` with and without disk errors) | TLC |

`BatchQueue`, `Dispatch` and `StripeRepair` are three magnifications of one
system. The step `RepairDone` of `BatchQueue` is a whole round of `Dispatch`; the steps between
`StartRepair` and `FinishRepair` of `Dispatch`, where one message stands for all
the packets between two agents, are a run of `StripeRepair` per stripe.

### BatchQueue

Each thread has a program counter (`gpc`, `cpc`). Where the code takes a lock or
touches shared state, a step begins: reading the flag (`HasNextFlag`), reading
the size (`HasNextQueue`, `RequestBatch`), the pop, the push, the dump after the
push, the assignment of the flag. The work on one stripe (`genRepairECDAG`,
colouring, load) is a pair `BeginStripe`/`EndStripe` so that the other thread
may do anything in between. `filterFailedStripes` is a step per block.
`BlockingQueue::getSize` reads the deque without the lock; the model reads it
atomically, since only "is it 0" is used. The three solutions have the same
loop: the map names `CentSolution` for most steps, `OfflineSolution` for the
whole loop and `BalanceSolution` for the push.
`StripeOwnership` is about `genRepairTasks` reading, in the main thread, what
`BeginStripe` .. `EndStripe` rewrite in the other.

### Dispatch

`sendPos` and `recvPos` are places `<<i, t, c>>` in a node's `NodeBatchTask`:
stripe, task, compute item (0 is the task command). A sender thread pushes the
commands in that order, over one connection, to the lists its keys name; an
agent pops in the order that the commands themselves dictate. What a message
says is the plan's entry for the round and the place it was made for, so that
a message in the wrong place is recognised. `curId` is chosen
nondeterministically in batch mode: `RepairBatch` uses the constructor that
does not set it, and any value works because the agent echoes it. Redis lists
are FIFO sequences; BLPOP is a step that is enabled when the list is not empty.

### TaskGen

`_coloring` is a function from vertices to nodes, or `NoColor` (-1). The order
in which `unordered_map` lists vertices is the constant `HashOrder`, any strict
order: `InOrder` lists a set by it (the read tasks by number, as the code does).
Sender and receiver use the same order because their lists are filled in the same loop.
`TaskGenAssumption` states what the code takes for granted. Its last line says
that all the consumers of a vertex are on one level; a node has one queue per
vertex, and with consumers on two levels two threads would compete for the
packets. The DAGs of the shipped codes (Clay 4-2-4, 6-4-8 and 14-10-256, RDP
6-4-4, HHXORPlus 14-10-2 and 9-6-2, BUTTERFLY 6-4-8) satisfy it.

### StripeRepair

A thread is a task; `turn` counts what it has done of its loops. One turn pops
or pushes one packet, except that a thread that pushes a packet into both
queues of a vertex does it in one turn (no thread takes from both). A sender
keeps its unwritten commands (`cmds`, per receiver and vertex: commands of
different vertices go to different lists, so their mutual order shows nowhere) and the receivers that owe it a reply
(`replies`); waiting for a reply (`GetReply`) writes out the commands to that
receiver, unless the reply came together with an earlier one, as in hiredis.
`Usable` is what a stripe's colouring must be: every block that is read is at
one node, the root is at one, and only combinations of zeros go without; that
the solutions deliver it is `UncoloredIsZero` of `Coloring` and `SingleBlock`; it is not
delivered by `Dynamic2Solution` (`ColorsTheBlankNodes`, section 5).
The packet of vertex v, number k is `<<v, k>>`; zero packets are all alike.
`Multi` yields the right packet if all its inputs are right and `BadPacket`
otherwise: the field arithmetic is the only thing abstracted. A read error
(`ReadError`) ends the thread silently, as in the code.

### The codes: Galois, ErasureCode, Rdp, Butterfly, HHXORPlus, Clay, CodeRepair

A code is the list of Joins that its `Encode` or `Decode` makes, in order, with
the coefficients. `CodeRepair` runs them one at a time as `CodeTest` does: a
Join whose parent exists already is the failed assertion of `ECDAG::Join`
(`step = "abort"`). Values are symbolic: a sub-packet is the combination of data
sub-packets it holds, so one computation covers all contents. Leaves outside the
stripe are the virtual blocks of a shortened code and zero, as in the agents.
Multiplication is in GF(2^8) with 0x11D, the field of the libraries; tables and
SIMD are left out. `HHXORPlus` inverts its recovery matrix by Gauss-Jordan
elimination as the code does; `Clay` has its planes, pairs and the order by
intersection score.

### Dag, ECDag

`Dag` keeps children, coefficients, parents (one entry per use), types, headers
and leaves, as `ECNode` and `ECDAG` do. `ECDag` builds any DAG of a few Joins, adds the
`Concact`s that `genRepairECDAG` makes, prunes the other headers (the recursion
of `removeChildNode` and `removeNode` is an explicit stack, `DeleteUseless` a
sweep), and runs the levelled sort and `genTopoIdxs` as loops. The order of the
hash map is a choice. `ECDagAssumption` says what a code joins: vertices with numbers below
those of `Concact`'s roots, never without a child. That children are joined before
their parents is `JoinAllowed`, the assertion in `Join`, as is that no vertex is joined twice.

### StripeLoad, Coloring

`Evaluate` counts the traffic of a colouring from nothing (`evaluateColoring`);
`Change` and `EvaluateChange` are `changeColor` and `evaluateChange`, as sets
of transfers that are added and dropped. `Coloring` colours stripe after
stripe: repair node by `getReplacementNode`, then all vertices at once or
vertex by vertex in any order `genTopoIdxs` allows, then the load goes into the
table. The tie rule of `isBetter` is that of the code: the node that sends less.
`ColoringAssumption` says what a repair DAG is (`IsRepairDag`: edges recorded on
both sides, one root that collects computed vertices, no vertex with the same child
twice); that the codes make such DAGs is `FitForTasks` and `PruneKeepsTheRepair` of
`repair_dag`. It also says that there are more agents than blocks, without
which `getReplacementNode` finds no node.

### Grouping, BatchImprove, ParallelSolution

`Grouping` is `findRepairBatchs`: `Fill` offers the next stripe to the Hungarian
matching, `TestReplace` and `PerformReplace` are the trial and the actual
exchange of `greedy_replacement`, with the rows and nodes that a trial leaves
behind. The two numberings of stripes that the code mixes are kept apart and
mixed where the code mixes them; `MatchingIsExact` and `BenefitIsKept` are claimed for lists
where the two agree (`InOrder`). `BatchImprove` is `improve` and
`improve_enqueue`: `TryStripe` looks from the tail for a stripe that fits in the head
batch; the array behind `_batch_list` is modelled with what `vector::erase` leaves
beyond its end, because the search reads there. A stripe gets any of a few loads
(how is `Coloring`'s subject). What the batches hold are `Taken`, the first stripes of
`_stripe_list`, as many as have lost a block; those of them that have lost nothing are
`Unharmed`. To repair one of these the code decodes no lost block (`to[0]` of an empty vector) and
erases a failed node that is not there (`erase(end())`): the process may end
there (`DecodeNothing`, `EraseNothing`), or go on with whatever nodes are left (`Sources`).
The consumer's `hasNext`, size, request and pop are steps. `ParallelSolution` extends `BatchImprove` and instantiates `Grouping`
with the same list of stripes (`place`): the result of `Grouping` is the start of
`BatchImprove`, and the consumer is there from the beginning. Where `Grouping` ends
the process (ERR-2) the consumer ends too.
`ParallelSolutionAssumption` says that a stripe alone finds its helpers (agents outnumber
the blocks of a stripe) and that a load is counted for every node; TLC evaluates both.

### FlowGraph, SecSolution

`FlowGraph` is the Edmonds-Karp loop over a residual matrix with the search in
the code's order, so that flows come out as in the code. `SecSolution` has the
three maps as sets, an action per batch start, exchange and finish; the order of
`pendingmap` is a choice. `CutOf` is not in the code: it is what maximality is
checked against.

### SingleBlock

One lost block, repaired for one line of the bandwidth file after another. A
step is the beginning of a colouring, one vertex (or, for `DynamicSolution` and
`Dynamic2Solution`, one group of vertices with the same children), or the
decision and the generation of tasks. Trial loads may be negative as in the
code. Bandwidth is counted in a unit of which all loads that occur are divisors,
so doubles are integers. The order of `genTopoIdxs` is chosen from `TopoIdxs` once per
behaviour; that it has children before parents is evaluated (`IsTopoOrder`).
`Uninitialised` holds the ints that an unset `_ecn` may have: 0, with which nothing is
a request, one with which some vertices are, and one with which all are.
A choice that finds no node ends in `crashed`, as indexing a table with -1 may. What is promised is stated per
method: `UncoloredIsZero` for all but `Dynamic2Solution`, for which
`ColorsTheBlankNodes` says what its source says, and is violated.

### Pareto

The two maps that link the curve, the pool and the table of solutions by id.
`Search` picks a solution, `Compare` takes one of its neighbours, in any order, along
the curve (`Meet` is what happens at one point: link, replace, drop or stop),
`Sweep` deletes what was dropped. `MCSingleBlock` has its instance.

### Command

A cell is a byte: byte k of a number, or a character. Building appends the
fields in the code's order and doubles the buffer where the code does;
resolving reads by position. Reading beyond what was written gives `Garbage`.

## 3. Runs

| Run | Instance | What it shows |
|---|---|---|
| `batch_queue` | 4 stripes of 2 blocks on 3 nodes, batches of 2, every placement | ownership, no use after free, all lost stripes and only those rebuilt, refinement of `RepairJob`, each lost stripe is eventually rebuilt |
| `batch_queue_termination` | the same | violated: see section 5 |
| `dispatch` | 3 nodes, a batch job of 2 rounds with 2 stripes and a cycle of packets, a single-block job of 2 rounds that reuses all keys | agents run the plan of the current round, lists are empty between rounds, packets are of the round, refinement of `RepairRounds`, every round ends, no deadlock |
| `stripe_repair` | DAG of 9 vertices on 4 levels with a virtual block, 3 colourings, 2 packets, replies awaited from the second command on; and the same with blocks 0 and 1 that may fail, another hash order and replies awaited at the end | queues wired, block written in order with the right data, nothing left; without an error the repair ends and nothing deadlocks; with one the file stays right, and the failure is never reported as a repair |
| `repair_dag` | RDP (12,10,10), butterfly (6,4,8), Hitchhiker (8,5,2) with 1 or 2 lost blocks, Clay (6,3,9) with 1 to 3, shortened Clay (5,3,8); and all DAGs of up to 4 of 16 Joins over three blocks, 1 or 2 lost | decoded = encoded, only survivors are read (for Hitchhiker those it asks for), consumers of a vertex on one level, the prune leaves exactly the repair, children before parents, the sorts end |
| `parallel_solution` | 4 stripes of 3 blocks on 8 agents: all 2401 lists from seven placements are grouped; five lists, three with a stripe that lost nothing, two of them with it before one that did, are improved with and without queue | the matching is exact after trials and exchanges, exchanges keep their promise, each stripe the batches are given is in one of them, bounds and tables of the search are current, a waiting consumer is served |
| `parallel_solution_order` | the same | violated: see section 5 |
| `coloring` | 2 stripes of 3 blocks with 2 sub-packets on 5 agents and 2 standby nodes, three DAGs, five placements, both scenarios, five solutions, up to 4 colourings | incremental load = load counted from nothing, table = sum of the batch, no node only for zeros |
| `sec_solution` | up to 7 stripes of 3 blocks on 6 agents | every flow is a maximum flow; each affected stripe in one batch, balanced, with distinct new nodes |
| `single_block` | three parts. 5 methods on three made-up DAGs of up to 10 vertices, every topological order, 3 placements, 5 bandwidth lines, 2 repairs; the same methods on the repair DAGs of Clay (4,2,4), two orders, 2 placements, 2 bandwidth lines; the search for offline colourings of 3 vertices on 3 candidates, 3 cost functions with ties, both rules | every vertex that counts gets a node (`Dynamic2Solution` excepted), slow lines make no tasks; the curve stays a consistent front, nothing on it or in the pool is deleted, the search ends at a local optimum |
| `single_block_blank` | the same, `Dynamic2Solution` only | violated: see section 5 |
| `command` | all kinds of commands, lists of 0 to 2, names of 1 and 3 characters, buffers of 20, 16, 12 bytes | the agent reads what was built and all of it; the buffer holds it |

**Why the bounds are enough.** Four stripes and batches of two give zero, one
and two batches, full and short last batches, and a generator that is ahead of,
level with or behind the main thread. Two rounds show every reuse of a key, since
a round interferes with its successor first; a node that works in one round only
and a node with two stripes are both there. In `stripe_repair` vertex 0 (with
its own key), a vertex used at its own node and at others, a virtual leaf with
a coloured and an uncoloured parent, a vertex sent to two nodes and a compute
task with two items that share an input all occur; two packets are enough to mix
up packets of different numbers, and a window of 1 (10 in the code) makes the
sender wait in its loop, one of 10 only after it.

`repair_dag` has the smallest parameters for which each code does all it can:
a butterfly with both parities and four data blocks, a Hitchhiker with groups of
different sizes, a Clay grid with full and with virtual nodes, every
intersection score, and sets of lost blocks that pair up, share a column or are unrelated. In the
`any` part shared vertices, double use, chains of four and headers nobody asked
for all occur. `parallel_solution`: two stripes fill a group, so four stripes
give full groups, exchanges, a last group that is not full and batches that are
emptied while they are searched. Of the lists that are improved one has its unaffected stripe last and two have it
before an affected one, so that what the code takes for the affected stripes is wrong in two
ways: an unaffected one too many, an affected one too few. `coloring`: two stripes are enough for a table
that has another stripe in it, four colourings for each to be tried again on top
of the other. `single_block`: the second repair begins with the load and colours
the first has left. Its made-up DAGs have what the codes' DAGs have, singly and more densely
(two vertices with the same children, leaves with many uses, a vertex made of virtual
leaves only), and the DAGs of Clay are those of a shipped code at its smallest. `command`: growth once and twice, in the middle of a list and
exactly at its end.

**Type invariants** are checked in the runs whose types are not obvious
(`batch_queue`, `dispatch`, `stripe_repair`). The other modules work on data
structures whose shape the properties above determine.

**Deadlock** is checked in `dispatch`, `stripe_repair`, `coloring`,
`single_block`, `single_block_blank` and `sec_solution`, where the end is a stuttering step
that is only enabled when all is done, or, in `stripe_repair`, after a read error, when
waiting for ever is what the code does (`Hangs`). It is not in `batch_queue`, where the
process ends (or waits: section 5), in `repair_dag` and `command`, which are
sequential and stop, and in `parallel_solution` and `parallel_solution_order`, where lists that are only
grouped stop there and the consumer may wait after the last batch for the reason
of section 5.

**Fairness.** The threads of the coordinator and the agents are OS threads or
processes of which none is stopped by the code: each is weakly fair. No strong
fairness is used; a thread blocked on a queue or a list is only required to go
on when it stays able to, and each queue or list has one consumer. In
`StripeRepair` weak fairness is per agent, which is weaker than per thread and
suffices because every turn of a thread brings the repair forward.
In `ParallelSolution` the generator and the consumer are weakly fair; the
generator's fairness is written out (`[]<>Returned \/ []<><<Generator>>_vars`),
since ENABLED of the matching would be evaluated by enumeration. `SortsEnd` is
about one sequential program: its next step is weakly fair.
No liveness is claimed for repairs that may have a read error.

## 4. Proofs

`BatchQueueProofs` proves, for any number of stripes and nodes, any placement
that satisfies `BatchQueueAssumption` and any batch size:

| Theorem | States |
|---|---|
| `Invariance` | `Spec => []IInv` |
| `TypeCorrect` | `Spec => []TypeOK` |
| `Ownership` | `Spec => []StripeOwnership` |
| `UseBeforeFree` | `Spec => []NoUseAfterFree` |
| `NothingForgotten` | `Spec => []AllRebuiltAtReturn` |
| `Refinement` | `Spec => ImplementsRepairJob` |

None of the properties is inductive. The strengthening `IInv` has five parts.
`FilterInv`: `toRepair` is increasing and holds exactly the lost stripes that
the scan has passed (this is where the assumption that the blocks of a stripe are on
distinct nodes is used: otherwise a stripe would be listed twice). `BuildInv`:
every batch, and the one being built, is the window of `toRepair` that
begins at `FirstIdx`. `QueueInv`: popped and queued batches are together, in
order, those built. `FlagInv`: what each thread knows of the other from the
flag. `Ownership` follows since windows are disjoint and `toRepair` has no
repetitions; `UseBeforeFree` because deleting starts after the flag was seen
and the flag is set after the last dump; `NothingForgotten` because at return
the queue is empty and all windows are built, and `NumBatches` windows cover the list
(`BatchesCover`, the only place with division). `Refinement` maps `RepairDone` to
`RebuildBatch`, `HasNextQueue` to `Close` and all other steps to stuttering.

`DispatchProofs` proves, for any jobs, nodes and numbers of rounds, stripes, tasks
and compute items that satisfy `DispatchAssumption` (plans are well formed: workers
are nodes, packets flow between workers):

| Theorem | States |
|---|---|
| `Invariance` | `Spec => []IInv` |
| `TypeCorrect` | `Spec => []TypeOK` |
| `PlanIsRun` | `Spec => []RunsThePlan` |
| `NothingIsLeft` | `Spec => []NothingLeftBetweenRounds` |
| `PacketsAreOfTheRound` | `Spec => []PacketsOfTheRound` |
| `Refinement` | `Spec => ImplementsRounds` |

`IInv` says of every list what is in it. `Upto(plan, pos)` are the places of a plan
before a position; a sender has pushed those before `sendPos`, the agent has popped
those before `recvPos`, and `CommandInv` and `ComputeInv` say that the list of a key
holds exactly the messages of the difference that have this key, in the order of
the places, stamped with this round. A pop therefore yields the message of the
agent's own place (`TaskInv`), although the key does not name the place: that is
`PlanIsRun`. `RequestInv` and `FinishInv` say the same of requests and flags,
`ExchangeInv` of packets. `PosInv` ties the positions of the two sides together and
`RoundInv` the rounds; without them the lists of one round could not be told from
those of the next, whose keys are the same. The order of places is proved total on
a plan (`Before`), and the places up to the next one are those up to this one and
this one, by cases on where a position is in its task and stripe.

`StripeRepairProofs` proves, for any DAG, colourings, hash order,
number of packets and window that satisfy `TaskGenAssumption` and
`StripeRepairAssumption`, with any set of blocks that fail:

| Theorem | States |
|---|---|
| `Invariance` | `Spec => []IInv` |
| `TypeCorrect` | `Spec => []TypeOK` |
| `Wired` | `Spec => []QueuesAreWired` |
| `NothingIsLeft` | `Spec => []NothingLeft` |
| `NeverFalse` | `Spec => []NoFalseFinish` |
| `Refinement` | `Spec => ImplementsBlockRepair` |

First, without any state, the wiring that `genRepairTasks` makes. `InOrderLists`:
sorting a finite set by a strict order lists each element once. `TaskIs`,
`TaskOnly` and `TaskThere`: which vertex is in which task. From these `OnePuts` and
`OneTakes`: at most one position of one thread of a node puts into a queue, or takes from it; `PutIsTaken`
and `TakenIsPut`: where there is the one there is the other, and the queue exists;
`OneSends`, `OneReceives`, `SentIsReceived`, `ReceivedIsSent` for redis. This
uses the assumption that the consumers of a vertex are on one level.

Then the data flow. A thread passes position p of its loop once per packet, so
after `turn` turns of a loop of L it has done so `Rounds(turn, L, p)` times
(`Dealt`). `QueueInv`: the queue of a key holds the packets of its vertex from what
the consumer has dealt with up to what the producer has, in order. `RedisInv` says it
of a redis list followed by the sender's unwritten commands (`Transit`), so that
writing commands out changes nothing it says. `BufInv`: the inputs a compute thread
has popped are those of one packet number, whence its output is right (`Computes`).
`FileInv`: the file is a prefix of the lost data. `GivenInv`, `TurnInv` and
`ReplyInv` are types and bounds. Every property follows: a queue is empty when
both have dealt with all packets (`NothingIsLeft`); a thread that failed stops
before its last turn, so some queue after it stays short and its node is never
done (`NeverFalse`); `Refinement` maps a turn of the persist thread to `Write` and
everything else to stuttering.

`ECDagProofs` proves, for any Joins a code may make, any number of them, any blocks, sub-packets
and failures that satisfy `ECDagAssumption`:

| Theorem | States |
|---|---|
| `Invariance` | `Spec => []IInv` |
| `PruneKeeps` | `Spec => []PruneKeepsTheRepair` |
| `SortsInOrder` | `Spec => []ChildrenFirst` |

`IInv` has a part for each phase. While the DAG is built it is `Good`: `Join` keeps the lists,
the types and the recorded uses in agreement with the edges (`JoinLists`, `JoinUses`), and it
makes no cycle. That is stated twice, as what the prune and the sorts need: every set of
vertices has one that is made of none of them (`Grounded`) and one that none of them is made of
(`Topped`). `ConcactBlocks` is a fold of Joins, and each of them is allowed because the
root of a block is no vertex yet (`ConcactSteps`, `ConcactsAreFree`).

The prune is a recursion that changes the lists it goes through. `UsesLeft` says
what its calls have done at any moment: of a vertex whose call has returned no use is left,
of one on the stack those from its place in the loop on, of all others every use. With it, the
vertices without a parent are the root that is kept, the roots not looked at and those
already called (`PruneInv`), so none is called twice, and none that the repaired block is made
of is called at all (`NotMade`). When all calls have returned, a vertex that is left is used by one
that is left, unless it is the root (`LeftIsUsed`); by `Topped` all of them are then what the root is made
of (`LeftIsMade`). `MadeOfIs` shows that `MadeOf`, defined by as many rounds as there are vertices, is
closed.

In the sorts, `inref` counts the uses of children not listed yet (`Waiting`). A vertex that
is listed lowers it by the uses that the vertex has recorded with it, which is right since
these are the uses its parent makes (`LessWaits`, `TurnCounts`); a child used twice counts twice. So what reaches zero has all its
children listed (`LevelAdded`, `QueueTurns`, `ListGrows`), and it does so once: it was not zero
before, and it is neither in the queue nor past it. That `genTopoIdxs` leaves nothing out is
`Grounded` once more (`AllPassed`): of the vertices left out one would have no child among them.

`ColoringProofs` proves, for any numbers of agents, standby nodes and stripes, any repair
DAGs, placements and offline colourings that satisfy `ColoringAssumption`, and all
five solutions:

| Theorem | States |
|---|---|
| `ChangeIsExact` | `Change(d, c, Evaluate(d, c), v, new) = Evaluate(d, [c EXCEPT ![v] = new])` for any repair DAG `d`, vertex `v` and node `new` |
| `Invariance` | `Spec => []IInv` |
| `LoadsExact` | `Spec => []LoadsAreExact` |
| `TableSum` | `Spec => []TableIsTheSum` |
| `UncoloredZero` | `Spec => []UncoloredIsZero` |

`ChangeIsExact` is about transfers. `changeColor` adds and drops them one by one from what it finds
around a vertex; `evaluateColoring` counts all of them. The proof shows that what is dropped was
there, what is added was not, and that nothing else changes (`CrossingAfter`,
`TransfersAfter`); then the counts of each node follow (`CountAfter`). The delicate case is
a child with other consumers: its transfer to the old node goes only if this
was the last use there (`UsesAt` = 1), its transfer to the new one comes only if there was
none (`UsesAt` = 0); `OneUse` and `UsesCounted` connect that count with the recolouring. It is here that a vertex
must not list a child twice: the code would count its uses twice.

`IInv` then needs the table while a stripe is being coloured (`TableOfTheOthers`: the
sum of the loads of the others, by `SumAlong` and `SumOfOthers`), and what has no node in a colouring that is
not finished (`ZerosBelow`: a vertex that has had its turn, and has no node, has children
without one). This is inductive because a vertex has its turn after its children, and
because `ChooseColor` returns no node only if no child has one (`ChosenColor`).
`BalanceSolution` begins with a load of zero without counting; `NothingSentAtFirst` shows that
nothing crosses while only leaves and the root have nodes. `SomeAgentFree` counts agents and
blocks, so that a repair node exists.

`ParallelSolutionProofs` proves, for any numbers of agents and blocks, any lists of stripes, any
loads of a colouring, bounds `MinOutput` and nodes `Sources` that satisfy
`ParallelSolutionAssumption`:

| Theorem | States |
|---|---|
| `GroupsDivideTheStripes` | `Spec => []EachStripeInOneGroup` |
| `EveryStripeIsRepairedOnce` | `Spec => []EachStripeOnce` |
| `InOrderRepairsWhatIsLost` | `Spec => [](G!InOrder => RepairsWhatIsLost)` |
| `SearchComparesWithTheHead` | `Spec => []BestIsTheHeads` |

No order of the stripes is assumed. The code takes a position in `_stripes_to_repair` for one in
`_stripe_list` (section 5), so the first two theorems are about `Taken`, the first stripes of
`_stripe_list`, as many as have lost a block: each of them is repaired once, and nothing
else, whatever they are. That they are those that lost a block, `RepairsWhatIsLost`, is what
the code fails to achieve (run `parallel_solution_order`); the fourth says exactly how far it goes: it
holds where no unaffected stripe comes before an affected one (`InOrder`), since the lost stripes are then
the numbers 1 to n (`InOrderTakesTheLost`).

The invariant has two halves. `Grouped` is about `findRepairBatchs`: each group lists
affected stripes once, no two groups share one (`GroupsOK`), all but the last hold some, and
the exchange that was found brings in stripes that are in no group (`ExchangeOK`); performing
it keeps this (`ExchangeIs`), in whatever order stripes leave and come in. That no stripe is left
behind needs more: the loop ends when the last group is empty, and an empty group means
that every stripe before `at` is in another group, since a matching that is empty has room
for any stripe, which is the assumption that a stripe alone finds its helpers. What the
Hungarian method computes does not matter otherwise, only that it answers yes or no.

`Improving` is about the search. `Divides`: the batches hold each stripe once.
`InOnePlace`: each batch with stripes is delivered or in use in the array, once, and those are not
empty. `SearchSees`: what the search finds from the tail down, in slots beyond the
end of the array too, is never the head and never delivered, because `Erase` only moves slots to the front
and leaves copies behind. `AllMovable`: what was kept aside is still where it was found. A merge
moves these stripes one by one (`MovedKeeps`, `MergeKeeps`), and batches that it empties leave the array
while the search is under way. The load table is that of the head and the stripes kept aside
(`With`), although each candidate gets a new load in `load`: it is none of those counted
(`TableOfThese`), and a sum grows by one at its end (`SumAppended`).

`ParetoProofs` proves, for any numbers of vertices and nodes, any evaluation, both rules and any
order of the neighbours that satisfy `ParetoAssumption` (an evaluation gives every colouring
a load, a bottleneck and a bandwidth that are integers):

| Theorem | States |
|---|---|
| `Invariance` | `Spec => []Inv` |
| `FrontAlways` | `Spec => []CurveIsAFront` |
| `NoneBetter` | `Spec => []NoBetterNeighbor` |

`Inv` has six parts. `Linked`: the two maps link the curve and its ends in the two directions, and
hold nothing else. `Sorted`: each point is `Ahead` of those behind it, so none beats
another. `Kept` says where an id is: on the curve or dropped, or a neighbour that waits.
`Pooled`: the pool is what is unsearched. `Covered` is what the end of the search needs: what a
searched point becomes when one vertex changes is as good as a point of the curve, beaten
by one, or waits to be compared.

The work is in `Compare`, which goes along the curve while it changes it. Three things can be
true after the first m points (`Walked`): the neighbour is behind all of them and not linked yet
(`Waits`); a point was as good and it is dropped (`Refused`); or it stands between point r and
point k+1, what is between these was beaten and is gone, and it is ahead of the rest
(`Around`, `Stands`). `WaitsOn`, `StandsOn` and `WalkOn` carry this over one point, for the six
cases of `Meet`; `PlacedFor`, `PlacedBefore`, `PlacedLast` and `PlacedStill` are what these do to the
maps. That each map is again that of a list (`PlacedChain`), and that the definition of `Curve`,
a recursive function over one of the maps, yields this list (`ChainIs`), is shown by
induction from the tail. The order of the costs needs care with the bottleneck, whose
decimals count for the order of the curve and not for beating (`DivMonotone`, `AheadIs`): a point that is beaten
by one that is beaten itself is beaten (`StaysReached`), and that keeps `Covered`. `NeighborsAre`
says that quotient and remainder enumerate every vertex and every other colour.

`CommandProofs` proves, for any commands, names and lengths of buffers that satisfy
`CommandAssumption`: an int fits in the shortest buffer and so does a name after it
(the growth doubles once, without looking at what is to come), and lists that are
written under one length have that length.

| Theorem | States |
|---|---|
| `Invariance` | `Spec => []IInv` |
| `Resolves` | `Spec => []ResolvesTheSame` |

`IInv` says that the fields written so far lie in the buffer one after the other from its
first cell (`WrittenIn`), that with those still to come they are the fields of the command, and
that what is resolved is the command and ends where the cells end. Growth keeps it
because every field fits in the length the buffer began with (`Fit`, `FieldsFit`). The rest is about
reading: fields that lie in the cells fall in two parts where the code splits them (`LiesBoth`); a
list reads as it was written, also a list of lists (`ListLies`, `BitsLie`, `FlattenLies`), and
so do the stripes of a request, which the receiver folds up while the place of the next one depends on the
length of the last (`ListsAre`). `ReadResolved` .. `RequestResolved` put these together for each kind
of command; the type that comes first tells the kinds apart (`KindIs`).

That induction over data is out of the provers' reach holds for a claim about every definition
of a form; about one definition it can be done. Where a proof needs it (a finite set has a least
element, the list of a set grows by one, a fold goes up along its list or its set, a recursive function over a link
map yields the linked list) it takes the least number of a set of naturals for which the claim fails, or
uses the lemma `UpToN` made from that. The properties of `Level` and `IsZero` that follow from their
definitions are lines of the assumptions, which TLC evaluates on the DAGs of the runs.
Each proof module stands alone: the few lemmas on lists, folds and sums that several
need are at the beginning of each.

Out of reach and left to TLC: liveness (`EveryLostStripeRebuilt`,
`EveryRoundEnds`, `EndsRepaired`, `SortsEnd`, `WaitingIsServed`), anything with ENABLED, and what the
recursive algorithms compute for all inputs (the field arithmetic, the
matchings, the flows).

Only model-checked: the invariants of `sec_solution` and `single_block`, `RepairsTheData`,
`ReadsSurvivors` and `FitForTasks` of `repair_dag`, and `MatchingIsExact` and
`BenefitIsKept` of `parallel_solution`. The three of `repair_dag` are about what Encode and Decode
compute with numbers of GF(2^8), and these two about what the Hungarian
method finds: `Hungary` is a recursive function over data. `UncoloredIsZero` of
`single_block` is not proved for every DAG: that `Affinaty` and `DynamicSolution` always find a
node rests on how far trial loads can fall, which depends on the DAG. `SlowIsNotRepaired` is a matter of
one step and gains little from a proof.

## 5. Findings

**`Termination` is violated** (run `batch_queue_termination`). `hasNext` (`sol/SolutionBase.cc:50`) and the pop are
not one step with the generator's last assignment: after the main thread has
repaired the last batch but before the generator has set `_finish_gen_batches`,
`hasNext` returns true and `BlockingQueue::pop` waits for a batch that never
comes. Every stripe is rebuilt, but `Coordinator::repair` does not return, the
generator is not joined and the code after `// clean` (`ParaCoordinator.cc:45`)
is not reached. The window is short when batches take long to repair (the
generator is then ahead), and long when the generator is slower than the agents.
If no stripe lost a block the same happens when the main thread looks first.

**`RepairsWhatIsLost` is violated** (run `parallel_solution_order`).
`formatReconstructionSets` (`sol/ParallelSolution.cc:402`, also 180 and 302) looks up positions in
`_stripes_to_repair` in `_stripe_list`, although 2155 says "we first figure out stripes that stores a
block in $fail_node_id". When a stripe without a block on the failed node precedes an affected
one, batches hold stripes that need no repair and miss some that do. In the run's behaviour the first of
three stripes has lost nothing: the batch holds the first and the second, and the third is never
repaired. The placements that `gen_simulation_data.py` makes for a failed node
other than 0 are of this kind: it puts that node only into stripes without node 0.

**`ColorsTheBlankNodes` is violated** (run `single_block_blank`), for two reasons.
`RepairGroup::push` (`single/RepairGroup.cc:39`) reads `_ecn`, which only `DynamicSolution`
sets. In `Dynamic2Solution` it is whatever the memory held: with a large value every vertex counts as a request,
the number of groups is not positive, no vertex is coloured, and the agents take all of them for
zero. This concerns every code. And `evaluateColorLoad` lets trial loads drift below zero
(only the chosen node's entry of `_interLoadTable` is corrected): when every trial has a bottleneck
below 0, `bestColor` stays -1 (`single/Dynamic2Solution.cc:81`) and the table is indexed with it
(127). The run finds this with `_ecn` = 0 too, on its made-up DAG of ten vertices. On the DAGs
of the shipped codes it was not found: a random search over thousands of placements, orders
and bandwidths on those of Butterfly, Clay, RDP and HHXORPlus gave no such choice; on
those of Clay (4,2,4) the instance of the run, restricted to an `_ecn` of 0, has none.

Also seen, without a run of their own (the numbers are lines under `src/src/`):

- `sol/ParallelSolution.cc:504`: `assert(rg_index!=_rg_num)` fails when many
  stripes share a node, e.g. three stripes of three blocks that pairwise do, on
  ten agents.
- `sol/ParallelSolution.cc:828`: when a batch uses every agent, the repair node is
  the one of least input load that the stripe is not read from. The failed node
  qualifies, and its load is 0.
- `sol/ParallelSolution.cc:1573`: a request made between the push of a batch and
  the reset of `_batch_request` is dropped; the generator goes on improving while
  the consumer waits. The consumer is still served in the end (`WaitingIsServed`).
- `sol/BalanceSolution.cc:131`: of two equal loads the node that sends less is
  taken; 124 says "just consider global input".
- `sol/SecSolution.cc:156`: stripes are chosen by what their helpers can send;
  with too few other agents in common the assertion that each has a new node
  fails (two stripes on the same three of four agents).
- `Naive_homo.cc:191`: a colour is an index into `candidates` and is taken for a
  node (106), so vertices are computed at the failed node and never at the new one;
  `Bruteforce_homo.cc:78` takes `candidates[i]`.
- `single/ParaSingleSolution.cc:24`: the index of the lost block (118) is compared
  with node ids: unless block i is on node i another block's colouring is used.
- `single/DynamicSolution.cc:396`: `fail_node_id` gets the index of the lost block
  (693), so that the idle nodes may include the node that lost it.
- `ec/HHXORPlus.cc:579`: a Vandermonde matrix below an identity is not MDS: blocks
  0, 1 and 3 of (8,5) cannot be recovered together; the code prints an error and goes on.
- `protocol/AGCommand.hh` describes a request without the `curId` field that the
  code writes. The second branch of `Stripe::evaluateChange` (345-370) disagrees
  with `changeColor` (219-224), but no caller reaches it.
- `sol/SolutionBase.cc:8`: this constructor leaves the two flags unset; the
  solutions of `ParaCoordinator` use the others. `util/BlockingQueue.hh:36` reads
  the size without the lock. `ec/Task.cc:318` doubles the buffer once, whatever the
  length of the name.

## 6. Not modelled, and why

Parsing of configuration, placement and offline files: their results are inputs
of the models. The simulators beyond what section 2 names: they call the same solutions
and print. `improve_hybrid`, `improve_hungary`, `genColoringForSingleFailure` and
`choose` of `ParallelSolution`, `Place` and the optimised `Decode` variants of the
codes: no caller. The functions for idle nodes of `DynamicSolution` and `Affinaty`:
their calls are commented out (the moves they make are in `Coloring`). Several lost
blocks of a shortened Clay code. SIMD and table arithmetic. Shell commands of
`Bandwidth`. Loss of a redis connection or a crash of an agent: the code has no
handling, it waits for ever or dereferences a null reply.

## 7. Plan

All components of section 1 that are to be modelled are, and what can be proved about them
without induction over data is. The codes compute by recursion over data and stay with TLC, as do
the flows of `SecSolution` and the matchings of `Grouping`. The next step would be a theorem about the
choice of batches in `SecSolution` for any flow that is a flow, which needs no more of `FlowGraph` than that.

----------------------------- MODULE BatchQueue ------------------------------
(***************************************************************************)
(* The two threads of ParaCoordinator.  The generator thread runs          *)
(* SolutionBase::genRepairBatches: it filters the stripes that lost a      *)
(* block, builds one RepairBatch after another and pushes each into        *)
(* _batch_queue.  The main thread runs Coordinator::repair: it pops the    *)
(* batches, repairs them and frees them after its loop.  They share the    *)
(* queue, the stripes and two flags, _finish_gen_batches and               *)
(* _batch_request; only the queue is protected by a lock.                  *)
(*                                                                         *)
(* CentSolution, OfflineSolution and BalanceSolution have the same         *)
(* generator loop; they differ in how a stripe is coloured, which is one   *)
(* pair of steps here.  The repair of a batch (RepairBatch::genRepairTasks)*)
(* is one pair of steps as well.                                           *)
(***************************************************************************)
EXTENDS Integers, Sequences, FiniteSets

CONSTANTS NumStripes,  \* _stripe_list.size()
          NumBlocks,   \* blocks of a stripe
          Nodes,       \* ids of the storage nodes
          FailNode,    \* the failed node
          BatchSize,   \* _batch_size
          Placements   \* the placements a run may start from

Stripe == 0 .. NumStripes - 1
Block  == 0 .. NumBlocks - 1

(***************************************************************************)
(* Two blocks of a stripe never share a node: the scripts that write the   *)
(* placement file draw distinct nodes.                                     *)
(***************************************************************************)
ASSUME BatchQueueAssumption ==
  /\ NumStripes \in Nat
  /\ NumBlocks \in Nat
  /\ BatchSize \in Nat \ {0}
  /\ Placements \subseteq [Stripe -> [Block -> Nodes]]
  /\ \A p \in Placements : \A s \in Stripe : \A b, c \in Block :
       p[s][b] = p[s][c] => b = c

VARIABLES
  placement,     \* stripe -> block -> node, fixed by the placement file
  \* generator thread
  gpc,           \* where the generator is
  scanStripe,    \* filterFailedStripes' stripeid
  scanBlock,     \* filterFailedStripes' blkid
  toRepair,      \* _stripes_to_repair
  batchid,       \* index of the batch being built
  slot,          \* i, the slot of the batch being filled
  curList,       \* cur_stripe_list
  \* shared
  built,         \* built[b + 1]: the stripe list of RepairBatch b
  queue,         \* _batch_queue, as batch ids
  batchRequest,  \* _batch_request
  finishGen,     \* _finish_gen_batches
  \* main thread
  cpc,           \* where the main thread is
  batchList,     \* batch_list, as batch ids
  freeIdx        \* batches deleted so far by the loop after the repair

genVars  == <<gpc, scanStripe, scanBlock, toRepair, batchid, slot, curList>>
mainVars == <<cpc, batchList, freeIdx>>
vars == <<placement, genVars, built, queue, batchRequest, finishGen, mainVars>>

GenPC  == {"filter", "batch", "color", "dump", "done"}
MainPC == {"hasNext", "hasNextQueue", "getSize", "pop", "repair",
           "clean", "join", "end"}

\* Mutant: the remainder of the division is never batched.
NumBatchesFloor == Len(toRepair) \div BatchSize

\* The number of batches, a division rounded up.
NumBatches ==
  (Len(toRepair) \div BatchSize) + (IF Len(toRepair) % BatchSize # 0 THEN 1 ELSE 0)

Init ==
  /\ placement \in Placements
  /\ gpc = "filter" /\ scanStripe = 0 /\ scanBlock = 0
  /\ toRepair = <<>> /\ batchid = 0 /\ slot = 0 /\ curList = <<>>
  /\ built = <<>> /\ queue = <<>>
  /\ batchRequest = FALSE /\ finishGen = FALSE
  /\ cpc = "hasNext" /\ batchList = <<>> /\ freeIdx = 0
-----------------------------------------------------------------------------
(***************************************************************************)
(* The generator thread.                                                   *)
(***************************************************************************)

\* One turn of filterFailedStripes' inner loop.
FilterBlock ==
  /\ gpc = "filter"
  /\ scanStripe < NumStripes
  /\ scanBlock < NumBlocks
  /\ toRepair' = IF placement[scanStripe][scanBlock] = FailNode
                   THEN Append(toRepair, scanStripe) ELSE toRepair
  /\ scanBlock' = scanBlock + 1
  /\ UNCHANGED <<placement, gpc, scanStripe, batchid, slot, curList, built, queue,
                 batchRequest, finishGen, mainVars>>

FilterNextStripe ==
  /\ gpc = "filter"
  /\ scanStripe < NumStripes
  /\ scanBlock = NumBlocks
  /\ scanStripe' = scanStripe + 1
  /\ scanBlock' = 0
  /\ UNCHANGED <<placement, gpc, toRepair, batchid, slot, curList, built,
                 queue, batchRequest, finishGen, mainVars>>

FilterEnd ==
  /\ gpc = "filter"
  /\ scanStripe = NumStripes
  /\ gpc' = "batch"
  /\ UNCHANGED <<placement, scanStripe, scanBlock, toRepair, batchid, slot, curList, built,
                 queue, batchRequest, finishGen, mainVars>>

\* Mutant: consecutive batches overlap by one stripe.
FirstIdxOverlap(b) == b * (BatchSize - 1)

\* Position in _stripes_to_repair of the first stripe of batch b.
FirstIdx(b) == b * BatchSize

\* stripeidx, the position in _stripes_to_repair of the slot being filled.
StripeIdx == FirstIdx(batchid) + slot

\* Mutant: `i <= _batch_size' in the loop over the slots.
SlotLeftOffByOne == batchid < NumBatches /\ slot <= BatchSize

\* The loop conditions over the batches and over the slots of a batch.
SlotLeft == batchid < NumBatches /\ slot < BatchSize

\* genRepairECDAG and the colouring of one stripe begin: the stripe's DAG,
\* colouring and load are being rewritten until EndStripe.
BeginStripe ==
  /\ gpc = "batch" /\ SlotLeft
  /\ StripeIdx < Len(toRepair)
  /\ curList' = Append(curList, toRepair[StripeIdx + 1])
  /\ gpc' = "color"
  /\ UNCHANGED <<placement, scanStripe, scanBlock, toRepair, batchid, slot, built, queue,
                 batchRequest, finishGen, mainVars>>

EndStripe ==
  /\ gpc = "color"
  /\ slot' = slot + 1
  /\ gpc' = "batch"
  /\ UNCHANGED <<placement, scanStripe, scanBlock, toRepair, batchid, curList, built, queue,
                 batchRequest, finishGen, mainVars>>

\* The last batch has fewer than BatchSize stripes: its other slots are skipped.
SkipSlot ==
  /\ gpc = "batch" /\ SlotLeft
  /\ StripeIdx >= Len(toRepair)
  /\ slot' = slot + 1
  /\ UNCHANGED <<placement, gpc, scanStripe, scanBlock, toRepair, batchid, curList, built,
                 queue, batchRequest, finishGen, mainVars>>

\* Mutant: the flag is raised together with the last push, before its dump.
PushBatchRaisingFlag ==
  /\ gpc = "batch" /\ batchid < NumBatches /\ slot = BatchSize
  /\ built' = Append(built, curList)
  /\ queue' = Append(queue, batchid)
  /\ finishGen' = (batchid + 1 = NumBatches)
  /\ gpc' = "dump"
  /\ UNCHANGED <<placement, scanStripe, scanBlock, toRepair, batchid, slot, curList,
                 batchRequest, mainVars>>

\* The batch is complete: it is created, evaluated and pushed.
PushBatch ==
  /\ gpc = "batch" /\ batchid < NumBatches /\ slot = BatchSize
  /\ built' = Append(built, curList)
  /\ queue' = Append(queue, batchid)
  /\ gpc' = "dump"
  /\ UNCHANGED <<placement, scanStripe, scanBlock, toRepair, batchid, slot, curList,
                 batchRequest, finishGen, mainVars>>

\* curbatch->dump() after the push, while the main thread may have the batch.
DumpBatch ==
  /\ gpc = "dump"
  /\ batchid' = batchid + 1
  /\ slot' = 0
  /\ curList' = <<>>
  /\ gpc' = "batch"
  /\ UNCHANGED <<placement, scanStripe, scanBlock, toRepair, built, queue, batchRequest,
                 finishGen, mainVars>>

FinishGeneration ==
  /\ gpc = "batch" /\ batchid = NumBatches
  /\ finishGen' = TRUE
  /\ gpc' = "done"
  /\ UNCHANGED <<placement, scanStripe, scanBlock, toRepair, batchid, slot, curList, built,
                 queue, batchRequest, mainVars>>
-----------------------------------------------------------------------------
(***************************************************************************)
(* The main thread: `while (hasNext()) { getRepairBatchFromQueue(); ... }'.*)
(***************************************************************************)

\* Mutant: hasNext looks at the queue alone.
HasNextFlagIgnored ==
  /\ cpc = "hasNext"
  /\ cpc' = IF queue = <<>> THEN "clean" ELSE "getSize"
  /\ UNCHANGED <<placement, genVars, built, queue, batchRequest, finishGen,
                 batchList, freeIdx>>

\* hasNext reads the flag, without a lock ...
HasNextFlag ==
  /\ cpc = "hasNext"
  /\ cpc' = IF finishGen THEN "hasNextQueue" ELSE "getSize"
  /\ UNCHANGED <<placement, genVars, built, queue, batchRequest, finishGen,
                 batchList, freeIdx>>

\* ... and then, if it is set, the size of the queue.
HasNextQueue ==
  /\ cpc = "hasNextQueue"
  /\ cpc' = IF queue # <<>> THEN "getSize" ELSE "clean"
  /\ UNCHANGED <<placement, genVars, built, queue, batchRequest, finishGen,
                 batchList, freeIdx>>

RequestBatch ==
  /\ cpc = "getSize"
  /\ batchRequest' = (batchRequest \/ queue = <<>>)
  /\ cpc' = "pop"
  /\ UNCHANGED <<placement, genVars, built, queue, finishGen, batchList, freeIdx>>

\* BlockingQueue::pop blocks while the queue is empty.
PopBatch ==
  /\ cpc = "pop"
  /\ queue # <<>>
  /\ batchList' = Append(batchList, Head(queue))
  /\ queue' = Tail(queue)
  /\ cpc' = "repair"
  /\ UNCHANGED <<placement, genVars, built, batchRequest, finishGen, freeIdx>>

\* RepairBatch::genRepairTasks returns.
RepairDone ==
  /\ cpc = "repair"
  /\ cpc' = "hasNext"
  /\ UNCHANGED <<placement, genVars, built, queue, batchRequest, finishGen,
                 batchList, freeIdx>>

\* The loop after the repair dumps and deletes every batch.
FreeBatch ==
  /\ cpc = "clean"
  /\ freeIdx < Len(batchList)
  /\ freeIdx' = freeIdx + 1
  /\ UNCHANGED <<placement, genVars, built, queue, batchRequest, finishGen,
                 cpc, batchList>>

RepairReturns ==
  /\ cpc = "clean"
  /\ freeIdx = Len(batchList)
  /\ cpc' = "join"
  /\ UNCHANGED <<placement, genVars, built, queue, batchRequest, finishGen,
                 batchList, freeIdx>>

JoinGenerator ==
  /\ cpc = "join"
  /\ gpc = "done"
  /\ cpc' = "end"
  /\ UNCHANGED <<placement, genVars, built, queue, batchRequest, finishGen,
                 batchList, freeIdx>>
-----------------------------------------------------------------------------
Generator ==
  \/ FilterBlock \/ FilterNextStripe \/ FilterEnd
  \/ BeginStripe \/ EndStripe \/ SkipSlot
  \/ PushBatch \/ DumpBatch \/ FinishGeneration

Main ==
  \/ HasNextFlag \/ HasNextQueue \/ RequestBatch \/ PopBatch
  \/ RepairDone \/ FreeBatch \/ RepairReturns \/ JoinGenerator

Next == Generator \/ Main

Spec == Init /\ [][Next]_vars

\* The two threads are scheduled: neither stops where it could take a step.
FairSpec == Spec /\ WF_vars(Generator) /\ WF_vars(Main)
-----------------------------------------------------------------------------
(***************************************************************************)
(* Properties.                                                             *)
(***************************************************************************)
RangeOf(s) == {s[k] : k \in 1 .. Len(s)}

\* The stripes with a block on the failed node.
Lost == {s \in Stripe : \E b \in Block : placement[s][b] = FailNode}

\* How many of the popped batches are repaired: all but the current one.
NumRepaired == IF cpc = "repair" THEN Len(batchList) - 1 ELSE Len(batchList)

Rebuilt == UNION {RangeOf(built[batchList[k] + 1]) : k \in 1 .. NumRepaired}

Freed == {batchList[k] : k \in 1 .. freeIdx}

Returned == cpc \in {"clean", "join", "end"}

TypeOK ==
  /\ placement \in Placements
  /\ gpc \in GenPC
  /\ scanStripe \in 0 .. NumStripes
  /\ scanBlock \in 0 .. NumBlocks
  /\ toRepair \in Seq(Stripe)
  /\ batchid \in Nat
  /\ slot \in 0 .. BatchSize
  /\ curList \in Seq(Stripe)
  /\ built \in Seq(Seq(Stripe))
  /\ queue \in Seq(Nat)
  /\ batchRequest \in BOOLEAN
  /\ finishGen \in BOOLEAN
  /\ cpc \in MainPC
  /\ batchList \in Seq(Nat)
  /\ freeIdx \in Nat

(***************************************************************************)
(* A stripe belongs to one thread at a time.  While the generator rewrites *)
(* a stripe's DAG, colouring and load, no batch it has already handed over *)
(* holds that stripe: the main thread reads those fields without a lock    *)
(* (Stripe::genRepairTasks under RepairBatch::genRepairTasks).             *)
(***************************************************************************)
StripeOwnership ==
  gpc = "color" =>
    \A k \in 1 .. Len(built) : curList[Len(curList)] \notin RangeOf(built[k])

(***************************************************************************)
(* The generator prints a batch after pushing it, when the main thread may *)
(* have popped it, repaired it and left its loop: the batch must not have  *)
(* been deleted by then.                                                   *)
(***************************************************************************)
NoUseAfterFree == gpc = "dump" => batchid \notin Freed

(***************************************************************************)
(* When Coordinator::repair leaves its loop, the stripes with a block on   *)
(* the failed node, and only those, are rebuilt, and nothing is left in    *)
(* the queue.                                                              *)
(***************************************************************************)
AllRebuiltAtReturn ==
  Returned => Rebuilt = Lost /\ queue = <<>> /\ Len(batchList) = NumBatches

(***************************************************************************)
(* The coordinator implements the abstract repair job: each turn of its    *)
(* loop rebuilds at most BatchSize stripes none of which was rebuilt       *)
(* before, and it returns only when none is left.                          *)
(***************************************************************************)
Job == INSTANCE RepairJob WITH lost <- Lost, rebuilt <- Rebuilt, closed <- Returned

ImplementsRepairJob == Job!Spec

(***************************************************************************)
(* Every stripe that lost a block is eventually rebuilt, however the       *)
(* scheduler interleaves the two threads.                                  *)
(***************************************************************************)
EveryLostStripeRebuilt == \A s \in Stripe : (s \in Lost) ~> (s \in Rebuilt)

(***************************************************************************)
(* The process ends: when a stripe lost a block, Coordinator::repair       *)
(* returns, the generator thread is joined and the objects are deleted,    *)
(* the last lines of ParaCoordinator's main.  The code does not satisfy    *)
(* this one: hasNext and the pop are not one step with FinishGeneration,   *)
(* and the main thread can wait for a batch nobody will push.              *)
(***************************************************************************)
Termination == (Lost # {}) ~> (cpc = "end")
=============================================================================

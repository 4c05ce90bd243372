-------------------------- MODULE BatchQueueProofs ---------------------------
(***************************************************************************)
(* Proofs about BatchQueue for every number of stripes, batch size and     *)
(* placement: the type invariant, that a stripe is never shared by the two *)
(* threads, that no batch is used after it was freed, that everything lost *)
(* is rebuilt when the coordinator returns, and that the two threads       *)
(* implement RepairJob.                                                    *)
(***************************************************************************)
EXTENDS BatchQueue, FiniteSetTheorems, TLAPS

-----------------------------------------------------------------------------
(***************************************************************************)
(* Arithmetic of the batches.                                              *)
(***************************************************************************)

\* The first stripe of a batch has a natural position, BatchSize after the
\* previous batch's.
LEMMA FirstIdxStep ==
  /\ FirstIdx(0) = 0
  /\ \A b \in Nat : FirstIdx(b) \in Nat /\ FirstIdx(b + 1) = FirstIdx(b) + BatchSize
BY BatchQueueAssumption DEF FirstIdx

\* A later batch starts at least BatchSize further.
LEMMA FirstIdxMono ==
  ASSUME NEW a \in Nat, NEW b \in Nat, a < b
  PROVE  FirstIdx(a) + BatchSize <= FirstIdx(b)
<1>1. PICK d \in Nat : b = a + 1 + d
  <2>1. b - a - 1 \in Nat /\ b = a + 1 + (b - a - 1)
    OBVIOUS
  <2> QED BY <2>1
<1>2. (a + 1 + d) * BatchSize = a * BatchSize + BatchSize + d * BatchSize
  BY BatchQueueAssumption
<1>3. d * BatchSize \in Nat /\ a * BatchSize \in Nat
  BY BatchQueueAssumption
<1> QED BY <1>1, <1>2, <1>3, BatchQueueAssumption DEF FirstIdx

\* NumBatches batches are enough for the stripes to repair, and none is empty.
LEMMA BatchesCover ==
  ASSUME toRepair \in Seq(Stripe)
  PROVE  /\ NumBatches \in Nat
         /\ Len(toRepair) <= FirstIdx(NumBatches)
         /\ \A b \in Nat : b < NumBatches => FirstIdx(b) < Len(toRepair)
<1> DEFINE n == Len(toRepair)
           q == n \div BatchSize
           r == n % BatchSize
<1>1. n \in Nat
  OBVIOUS
<1>2. q \in Nat /\ r \in 0 .. BatchSize - 1 /\ n = BatchSize * q + r
  BY <1>1, BatchQueueAssumption
<1> HIDE DEF n, q, r
<1>3. NumBatches = q + (IF r # 0 THEN 1 ELSE 0)
  BY DEF NumBatches, n, q, r
<1>4. FirstIdx(q) = BatchSize * q /\ FirstIdx(q) \in Nat
  BY <1>2, BatchQueueAssumption, FirstIdxStep DEF FirstIdx
<1>5. FirstIdx(q + 1) = FirstIdx(q) + BatchSize
  BY <1>2, FirstIdxStep
<1>6. NumBatches \in Nat /\ n <= FirstIdx(NumBatches)
  BY <1>1, <1>2, <1>3, <1>4, <1>5, BatchQueueAssumption
<1>7. ASSUME NEW b \in Nat, b < NumBatches PROVE FirstIdx(b) < n
  <2>1. CASE b = q
    BY <1>1, <1>2, <1>3, <1>4, <1>7, <2>1
  <2>2. CASE b < q
    <3>1. q \in Nat
      BY <1>2
    <3>2. FirstIdx(b) + BatchSize <= FirstIdx(q)
      BY <2>2, <3>1, FirstIdxMono
    <3>3. FirstIdx(b) \in Nat
      BY FirstIdxStep
    <3> QED BY <1>1, <1>2, <1>4, <3>2, <3>3, BatchQueueAssumption
  <2> QED BY <1>2, <1>3, <1>7, <2>1, <2>2
<1> QED BY <1>6, <1>7 DEF n

-----------------------------------------------------------------------------
(***************************************************************************)
(* The inductive invariant, in the order in which data flows.              *)
(***************************************************************************)

\* A stripe whose block on the failed node filterFailedStripes has passed.
Seen(s) ==
  \/ gpc # "filter"
  \/ s < scanStripe
  \/ s = scanStripe /\ \E b \in Block : b < scanBlock /\ placement[s][b] = FailNode

\* _stripes_to_repair lists, in order and once each, the lost stripes seen so far.
FilterInv ==
  /\ \A i, j \in 1 .. Len(toRepair) : i < j => toRepair[i] < toRepair[j]
  /\ \A i \in 1 .. Len(toRepair) : toRepair[i] \in Lost /\ Seen(toRepair[i])
  /\ \A s \in Lost : Seen(s) => \E i \in 1 .. Len(toRepair) : toRepair[i] = s

\* l is batch b's part of the list r, _stripes_to_repair, as far as its first k
\* slots go.
Window(r, l, b, k) ==
  /\ Len(l) <= k
  /\ FirstIdx(b) + Len(l) <= Len(r)
  /\ \A j \in 1 .. Len(l) : l[j] = r[FirstIdx(b) + j]
  /\ Len(l) = k \/ FirstIdx(b) + Len(l) = Len(r)

\* The batches built are consecutive windows, and so is the one in progress.
BuildInv ==
  /\ gpc = "filter" => batchid = 0 /\ slot = 0 /\ curList = <<>> /\ built = <<>>
  /\ Len(built) = IF gpc = "dump" THEN batchid + 1 ELSE batchid
  /\ \A k \in 1 .. Len(built) : Window(toRepair, built[k], k - 1, BatchSize)
  /\ gpc # "filter" => batchid <= NumBatches
  /\ gpc = "batch" /\ batchid < NumBatches => Window(toRepair, curList, batchid, slot)
  /\ gpc = "batch" /\ batchid = NumBatches => slot = 0 /\ curList = <<>>
  /\ gpc = "color" => /\ batchid < NumBatches /\ slot < BatchSize
                      /\ Window(toRepair, curList, batchid, slot + 1)
                      /\ Len(curList) = slot + 1
  /\ gpc = "dump" => batchid < NumBatches
  /\ gpc \in {"filter", "batch", "color", "dump"} \/ batchid = NumBatches

\* The batches pushed are the popped ones, in order, then the queued ones.
QueueInv ==
  /\ Len(batchList) + Len(queue) = Len(built)
  /\ \A k \in 1 .. Len(batchList) : batchList[k] = k - 1
  /\ \A k \in 1 .. Len(queue) : queue[k] = Len(batchList) + k - 1

\* What each thread knows of the other from the flag.
FlagInv ==
  /\ finishGen <=> gpc = "done"
  /\ cpc = "hasNextQueue" \/ Returned => finishGen
  /\ Returned => queue = <<>>
  /\ cpc = "repair" => batchList # <<>>
  /\ freeIdx <= Len(batchList)
  /\ ~Returned => freeIdx = 0

IInv == TypeOK /\ FilterInv /\ BuildInv /\ QueueInv /\ FlagInv

-----------------------------------------------------------------------------
(***************************************************************************)
(* The invariant is established and preserved, one lemma per part.         *)
(***************************************************************************)

\* The numeric constants, without what the assumption says of the placements.
LEMMA Sizes == NumStripes \in Nat /\ NumBlocks \in Nat /\ BatchSize \in Nat \ {0}
BY BatchQueueAssumption

\* Nothing is filtered, queued or built at the start: IInv holds initially.
LEMMA InitIInv == Init => IInv
<1> SUFFICES ASSUME Init PROVE IInv
  OBVIOUS
<1> USE DEF Init
<1>1. TypeOK
  <2>1. <<>> \in Seq(Stripe) /\ <<>> \in Seq(Seq(Stripe)) /\ <<>> \in Seq(Nat)
    OBVIOUS
  <2>2. 0 \in 0 .. NumStripes /\ 0 \in 0 .. NumBlocks /\ 0 \in 0 .. BatchSize
    BY Sizes
  <2> QED BY <2>1, <2>2 DEF TypeOK, GenPC, MainPC
<1>2. FilterInv
  BY Sizes DEF FilterInv, Seen, Lost, Stripe, Block
<1>3. BuildInv
  BY DEF BuildInv
<1>4. QueueInv /\ FlagInv
  BY DEF QueueInv, FlagInv, Returned
<1> QED BY <1>1, <1>2, <1>3, <1>4 DEF IInv

\* Every step of the generator or the coordinator keeps the types.
LEMMA TypeStep == IInv /\ [Next]_vars => TypeOK'
<1> SUFFICES ASSUME IInv, [Next]_vars PROVE TypeOK'
  OBVIOUS
<1> USE Sizes DEF IInv, TypeOK, GenPC, MainPC, genVars, mainVars
<1>1. CASE FilterBlock
  <2>1. scanBlock' \in 0 .. NumBlocks /\ scanStripe' \in 0 .. NumStripes
    BY <1>1 DEF FilterBlock
  <2>2. toRepair' \in Seq(Stripe)
    <3>1. scanStripe \in Stripe
      BY <1>1 DEF FilterBlock, Stripe
    <3>2. Append(toRepair, scanStripe) \in Seq(Stripe)
      BY <3>1
    <3> QED BY <1>1, <3>2 DEF FilterBlock
  <2> QED BY <1>1, <2>1, <2>2 DEF FilterBlock
<1>2. CASE FilterNextStripe
  BY <1>2 DEF FilterNextStripe
<1>3. CASE FilterEnd
  BY <1>3 DEF FilterEnd
<1>4. CASE BeginStripe
  <2>1. StripeIdx + 1 \in 1 .. Len(toRepair)
    <3>1. StripeIdx \in Nat
      <4>1. batchid \in Nat /\ slot \in Nat
        OBVIOUS
      <4>2. FirstIdx(batchid) \in Nat
        BY <4>1, FirstIdxStep
      <4> QED BY <4>1, <4>2 DEF StripeIdx
    <3>2. StripeIdx < Len(toRepair)
      BY <1>4 DEF BeginStripe
    <3> QED BY <3>1, <3>2
  <2> QED BY <1>4, <2>1 DEF BeginStripe
<1>5. CASE EndStripe
  BY <1>5 DEF EndStripe, BuildInv
<1>6. CASE SkipSlot
  BY <1>6 DEF SkipSlot, SlotLeft
<1>7. CASE PushBatch
  BY <1>7 DEF PushBatch
<1>8. CASE DumpBatch
  BY <1>8 DEF DumpBatch
<1>9. CASE FinishGeneration
  BY <1>9 DEF FinishGeneration
<1>10. CASE HasNextFlag
  BY <1>10 DEF HasNextFlag
<1>11. CASE HasNextQueue
  BY <1>11 DEF HasNextQueue
<1>12. CASE RequestBatch
  BY <1>12 DEF RequestBatch
<1>13. CASE PopBatch
  BY <1>13 DEF PopBatch
<1>14. CASE RepairDone
  BY <1>14 DEF RepairDone
<1>15. CASE FreeBatch
  BY <1>15 DEF FreeBatch
<1>16. CASE RepairReturns
  BY <1>16 DEF RepairReturns
<1>17. CASE JoinGenerator
  BY <1>17 DEF JoinGenerator
<1>18. CASE UNCHANGED vars
  BY <1>18 DEF vars
<1> QED BY <1>1, <1>2, <1>3, <1>4, <1>5, <1>6, <1>7, <1>8, <1>9, <1>10, <1>11,
           <1>12, <1>13, <1>14, <1>15, <1>16, <1>17, <1>18
        DEF Next, Generator, Main

\* Only filterFailedStripes' loop changes what FilterInv is about.
LEMMA FilterStep == IInv /\ [Next]_vars => FilterInv'
<1> SUFFICES ASSUME IInv, [Next]_vars PROVE FilterInv'
  OBVIOUS
<1> USE Sizes DEF IInv
<1>1. CASE FilterBlock
  <2> USE <1>1 DEF FilterBlock, TypeOK
  <2> DEFINE s == scanStripe
             b == scanBlock
  <2>1. s \in Stripe /\ b \in Block /\ placement' = placement /\ gpc = "filter" /\ gpc' = "filter"
    BY DEF Stripe, Block
  <2>2. Lost' = Lost
    BY <2>1 DEF Lost
  <2>3. \A t \in Stripe : Seen(t) => Seen(t)'
    BY <2>1 DEF Seen, Stripe, Block
  <2>4. CASE placement[s][b] = FailNode
    <3>1. toRepair' = Append(toRepair, s) /\ s \in Lost
      BY <2>1, <2>4 DEF Lost
    <3>2. ~ Seen(s)
      <4>1. SUFFICES ASSUME NEW c \in Block, c < b, placement[s][c] = FailNode PROVE FALSE
        BY <2>1 DEF Seen, Stripe
      <4> QED BY <2>1, <2>4, <4>1, BatchQueueAssumption DEF Block
    <3>3. Seen(s)'
      BY <2>1, <2>4 DEF Seen, Block
    <3>4. \A i \in 1 .. Len(toRepair) : toRepair[i] < s
      <4> TAKE i \in 1 .. Len(toRepair)
      <4>1. Seen(toRepair[i]) /\ toRepair[i] \in Stripe
        BY DEF FilterInv
      <4>2. toRepair[i] # s
        BY <3>2, <4>1
      <4> QED BY <2>1, <4>1, <4>2 DEF Seen, Stripe
    <3>5. \A t \in Lost : Seen(t)' => t = s \/ Seen(t)
      BY <2>1 DEF Seen, Lost, Stripe, Block
    <3>6. /\ Len(toRepair') = Len(toRepair) + 1
          /\ \A i \in 1 .. Len(toRepair) : toRepair'[i] = toRepair[i]
          /\ toRepair'[Len(toRepair) + 1] = s
          /\ Len(toRepair) \in Nat
      BY <3>1
    <3>7. (\A i, j \in 1 .. Len(toRepair) : i < j => toRepair[i] < toRepair[j])'
      BY <3>4, <3>6 DEF FilterInv
    <3>8. (\A i \in 1 .. Len(toRepair) : toRepair[i] \in Lost /\ Seen(toRepair[i]))'
      <4> SUFFICES ASSUME NEW i \in 1 .. Len(toRepair')
                   PROVE  toRepair'[i] \in Lost' /\ Seen(toRepair[i])'
        OBVIOUS
      <4>1. CASE i \in 1 .. Len(toRepair)
        <5>1. toRepair'[i] = toRepair[i] /\ toRepair[i] \in Lost /\ Seen(toRepair[i])
          BY <3>6, <4>1 DEF FilterInv
        <5>2. Seen(toRepair[i])'
          BY <2>1, <5>1 DEF Seen
        <5> QED BY <2>2, <5>1, <5>2
      <4>2. CASE i = Len(toRepair) + 1
        <5>1. toRepair'[i] = s
          BY <3>6, <4>2
        <5>2. Seen(toRepair[i])'
          BY <2>1, <2>4, <5>1 DEF Seen, Block
        <5> QED BY <2>2, <3>1, <5>1, <5>2
      <4>3. i \in 1 .. Len(toRepair) \/ i = Len(toRepair) + 1
        BY <3>6
      <4> QED BY <4>1, <4>2, <4>3
    <3>9. (\A t \in Lost : Seen(t) => \E i \in 1 .. Len(toRepair) : toRepair[i] = t)'
      <4> SUFFICES ASSUME NEW t \in Lost', Seen(t)'
                   PROVE  \E i \in 1 .. Len(toRepair') : toRepair'[i] = t
        OBVIOUS
      <4>1. t = s \/ Seen(t)
        BY <2>2, <3>5
      <4> QED BY <2>2, <3>6, <4>1 DEF FilterInv
    <3> QED BY <3>7, <3>8, <3>9 DEF FilterInv
  <2>5. CASE placement[s][b] # FailNode
    <3>1. toRepair' = toRepair
      BY <2>5
    <3>2. \A t \in Lost : Seen(t)' => Seen(t)
      BY <2>1, <2>5 DEF Seen, Lost, Stripe, Block
    <3>3. \A t \in Lost : t \in Stripe
      BY DEF Lost
    <3> QED BY <2>2, <2>3, <3>1, <3>2, <3>3 DEF FilterInv
  <2> QED BY <2>4, <2>5
<1>2. CASE FilterNextStripe
  <2>1. Lost' = Lost /\ toRepair' = toRepair
    BY <1>2 DEF FilterNextStripe, Lost
  <2>2. \A t \in Lost : Seen(t)' <=> Seen(t)
    <3> SUFFICES ASSUME NEW t \in Lost PROVE Seen(t)' <=> Seen(t)
      OBVIOUS
    <3>1. t \in Nat /\ scanStripe \in Nat /\ scanBlock = NumBlocks
      BY <1>2 DEF FilterNextStripe, Lost, Stripe, TypeOK
    <3>2. \A b \in Block : b < NumBlocks /\ ~ (b < 0)
      BY DEF Block
    <3>3. \E b \in Block : placement[t][b] = FailNode
      BY DEF Lost
    <3>4. /\ gpc = "filter" /\ gpc' = "filter" /\ placement' = placement
          /\ scanStripe' = scanStripe + 1 /\ scanBlock' = 0
      BY <1>2 DEF FilterNextStripe
    <3>5. Seen(t)' <=> t < scanStripe + 1
      BY <3>2, <3>4 DEF Seen
    <3>6. Seen(t) <=> t < scanStripe \/ t = scanStripe
      BY <3>1, <3>2, <3>3, <3>4 DEF Seen
    <3> QED BY <3>1, <3>5, <3>6
  <2> QED BY <2>1, <2>2 DEF FilterInv
<1>3. CASE FilterEnd
  <2>1. Lost' = Lost /\ toRepair' = toRepair
    BY <1>3 DEF FilterEnd, Lost
  <2>2. \A t \in Lost : Seen(t)' /\ Seen(t)
    BY <1>3 DEF FilterEnd, Seen, Lost, Stripe, TypeOK
  <2> QED BY <2>1, <2>2 DEF FilterInv
<1>4. CASE ~ (FilterBlock \/ FilterNextStripe \/ FilterEnd)
  <2>1. /\ placement' = placement /\ toRepair' = toRepair
        /\ scanStripe' = scanStripe /\ scanBlock' = scanBlock
        /\ gpc' = "filter" <=> gpc = "filter"
    BY <1>4 DEF Next, Generator, Main, vars, genVars, mainVars, BeginStripe, EndStripe,
       SkipSlot, PushBatch, DumpBatch, FinishGeneration, HasNextFlag, HasNextQueue,
       RequestBatch, PopBatch, RepairDone, FreeBatch, RepairReturns, JoinGenerator
  <2>2. Lost' = Lost /\ \A t : Seen(t)' <=> Seen(t)
    BY <2>1 DEF Lost, Seen
  <2> QED BY <2>1, <2>2 DEF FilterInv
<1> QED BY <1>1, <1>2, <1>3, <1>4

\* Filling a slot extends the window; a slot past the end leaves it complete.
LEMMA WindowNext ==
  ASSUME NEW r \in Seq(Stripe), NEW l \in Seq(Stripe), NEW b \in Nat, NEW k \in Nat,
         Window(r, l, b, k)
  PROVE  /\ FirstIdx(b) + k < Len(r) =>
              Window(r, Append(l, r[FirstIdx(b) + k + 1]), b, k + 1) /\ Len(l) = k
         /\ FirstIdx(b) + k >= Len(r) => Window(r, l, b, k + 1)
<1>1. FirstIdx(b) \in Nat /\ Len(l) \in Nat /\ Len(r) \in Nat
  <2>1. FirstIdx(b) \in Nat
    BY FirstIdxStep
  <2> QED BY <2>1
<1>2. CASE FirstIdx(b) + k < Len(r)
  <2>1. Len(l) = k
    BY <1>1, <1>2 DEF Window
  <2> DEFINE x == r[FirstIdx(b) + k + 1]
             m == Append(l, x)
  <2>2. Len(m) = k + 1 /\ m[k + 1] = x /\ \A j \in 1 .. k : m[j] = l[j]
    BY <2>1
  <2> HIDE DEF m
  <2>3. \A j \in 1 .. Len(m) : m[j] = r[FirstIdx(b) + j]
    <3> TAKE j \in 1 .. Len(m)
    <3>1. CASE j = k + 1
      BY <1>1, <2>2, <3>1
    <3>2. CASE j \in 1 .. k
      BY <2>1, <2>2, <3>2 DEF Window
    <3> QED BY <2>2, <3>1, <3>2
  <2>4. Window(r, m, b, k + 1)
    BY <1>1, <1>2, <2>2, <2>3 DEF Window
  <2> QED BY <1>1, <1>2, <2>1, <2>4 DEF m
<1>3. CASE FirstIdx(b) + k >= Len(r)
  <2>1. FirstIdx(b) + Len(l) = Len(r)
    BY <1>1, <1>3 DEF Window
  <2>2. Window(r, l, b, k + 1)
    BY <1>1, <2>1 DEF Window
  <2> QED BY <1>1, <1>3, <2>2
<1> QED BY <1>1, <1>2, <1>3

\* A batch under construction holds the stripes of its window that the slots
\* filled so far account for, and the batches pushed before it are complete.
LEMMA BuildStep == IInv /\ [Next]_vars => BuildInv'
<1> SUFFICES ASSUME IInv, [Next]_vars PROVE BuildInv'
  OBVIOUS
<1> USE Sizes DEF IInv
<1>a. NumBatches \in Nat
  BY BatchesCover DEF TypeOK
<1>b. toRepair' = toRepair => NumBatches' = NumBatches
  BY DEF NumBatches
<1>1. CASE FilterBlock
  BY <1>1 DEF FilterBlock, BuildInv
<1>2. CASE FilterNextStripe
  BY <1>2 DEF FilterNextStripe, BuildInv
<1>3. CASE FilterEnd
  <2>1. /\ gpc = "filter" /\ gpc' = "batch" /\ batchid' = 0 /\ slot' = 0
        /\ curList' = <<>> /\ built' = <<>> /\ toRepair' = toRepair
    BY <1>3 DEF FilterEnd, BuildInv
  <2>2. NumBatches' \in Nat
    BY <1>a, <1>b, <2>1
  <2>3. Window(toRepair, <<>>, 0, 0)
    BY FirstIdxStep DEF Window, TypeOK
  <2>4. Window(toRepair, <<>>, 0, 0)'
    BY <2>1, <2>3
  <2> QED BY <2>1, <2>2, <2>4 DEF BuildInv
<1>4. CASE BeginStripe
  <2>1. /\ gpc = "batch" /\ gpc' = "color" /\ batchid' = batchid /\ slot' = slot
        /\ batchid < NumBatches /\ slot < BatchSize /\ built' = built
        /\ toRepair' = toRepair /\ FirstIdx(batchid) + slot < Len(toRepair)
        /\ curList' = Append(curList, toRepair[FirstIdx(batchid) + slot + 1])
    BY <1>4 DEF BeginStripe, SlotLeft, StripeIdx
  <2>2. /\ batchid \in Nat /\ slot \in Nat /\ curList \in Seq(Stripe)
        /\ toRepair \in Seq(Stripe)
        /\ Window(toRepair, curList, batchid, slot)
    BY <2>1 DEF TypeOK, BuildInv
  <2>3. Window(toRepair, curList', batchid, slot + 1) /\ Len(curList) = slot
    BY <2>1, <2>2, WindowNext
  <2>4. Window(toRepair, curList, batchid, slot + 1)'
    BY <2>1, <2>3 DEF Window
  <2>5. Len(curList') = slot + 1
    BY <2>1, <2>2, <2>3
  <2>6. \A k \in 1 .. Len(built) : Window(toRepair, built[k], k - 1, BatchSize)'
    BY <2>1 DEF BuildInv
  <2> QED BY <1>b, <2>1, <2>4, <2>5, <2>6 DEF BuildInv
<1>5. CASE EndStripe
  <2>1. /\ gpc = "color" /\ gpc' = "batch" /\ batchid' = batchid /\ slot' = slot + 1
        /\ built' = built /\ toRepair' = toRepair /\ curList' = curList
    BY <1>5 DEF EndStripe
  <2>2. batchid < NumBatches /\ Window(toRepair, curList, batchid, slot + 1)
    BY <2>1 DEF BuildInv
  <2>3. Window(toRepair, curList, batchid, slot)'
    BY <2>1, <2>2 DEF Window
  <2>4. \A k \in 1 .. Len(built) : Window(toRepair, built[k], k - 1, BatchSize)'
    BY <2>1 DEF BuildInv
  <2> QED BY <1>a, <1>b, <2>1, <2>2, <2>3, <2>4 DEF BuildInv, TypeOK
<1>6. CASE SkipSlot
  <2>1. /\ gpc = "batch" /\ gpc' = gpc /\ batchid' = batchid /\ slot' = slot + 1
        /\ batchid < NumBatches /\ built' = built /\ toRepair' = toRepair
        /\ curList' = curList /\ FirstIdx(batchid) + slot >= Len(toRepair)
    BY <1>6 DEF SkipSlot, SlotLeft, StripeIdx
  <2>2. /\ batchid \in Nat /\ slot \in Nat /\ curList \in Seq(Stripe)
        /\ toRepair \in Seq(Stripe)
        /\ Window(toRepair, curList, batchid, slot)
    BY <2>1 DEF TypeOK, BuildInv
  <2>3. Window(toRepair, curList, batchid, slot + 1)
    BY <2>1, <2>2, WindowNext
  <2>4. Window(toRepair, curList, batchid, slot)'
    BY <2>1, <2>3 DEF Window
  <2>5. \A k \in 1 .. Len(built) : Window(toRepair, built[k], k - 1, BatchSize)'
    BY <2>1 DEF BuildInv
  <2> QED BY <1>a, <1>b, <2>1, <2>2, <2>4, <2>5 DEF BuildInv
<1>7. CASE PushBatch
  <2>1. /\ gpc = "batch" /\ gpc' = "dump" /\ batchid' = batchid /\ slot = BatchSize
        /\ batchid < NumBatches /\ built' = Append(built, curList)
        /\ toRepair' = toRepair
    BY <1>7 DEF PushBatch
  <2>2. built \in Seq(Seq(Stripe)) /\ Len(built) = batchid /\ batchid \in Nat
    BY <2>1 DEF TypeOK, BuildInv
  <2>3. Window(toRepair, curList, batchid, BatchSize)
    BY <2>1 DEF BuildInv
  <2>4. /\ Len(built') = batchid + 1 /\ built'[batchid + 1] = curList
        /\ \A k \in 1 .. batchid : built'[k] = built[k]
    BY <2>1, <2>2
  <2>5. \A k \in 1 .. Len(built') : Window(toRepair', built'[k], k - 1, BatchSize)
    <3> TAKE k \in 1 .. Len(built')
    <3>1. CASE k = batchid + 1
      <4>1. k - 1 = batchid
        BY <2>2, <3>1
      <4> QED BY <2>1, <2>3, <2>4, <3>1, <4>1
    <3>2. CASE k \in 1 .. batchid
      BY <2>1, <2>2, <2>4, <3>2 DEF BuildInv
    <3> QED BY <2>2, <2>4, <3>1, <3>2
  <2> QED BY <1>b, <2>1, <2>2, <2>4, <2>5 DEF BuildInv
<1>8. CASE DumpBatch
  <2>1. /\ gpc = "dump" /\ gpc' = "batch" /\ batchid' = batchid + 1 /\ slot' = 0
        /\ curList' = <<>> /\ built' = built /\ toRepair' = toRepair
    BY <1>8 DEF DumpBatch
  <2>2. /\ Len(built) = batchid + 1 /\ batchid < NumBatches /\ batchid \in Nat
        /\ \A k \in 1 .. Len(built) : Window(toRepair, built[k], k - 1, BatchSize)
    BY <2>1 DEF BuildInv, TypeOK
  <2>3. batchid + 1 < NumBatches => Window(toRepair, <<>>, batchid + 1, 0)
    <3> SUFFICES ASSUME batchid + 1 < NumBatches
                 PROVE  Window(toRepair, <<>>, batchid + 1, 0)
      OBVIOUS
    <3>1. FirstIdx(batchid + 1) \in Nat /\ FirstIdx(batchid + 1) < Len(toRepair)
      BY <2>2, BatchesCover, FirstIdxStep DEF TypeOK
    <3> QED BY <3>1 DEF Window
  <2> QED BY <1>a, <1>b, <2>1, <2>2, <2>3 DEF BuildInv
<1>9. CASE FinishGeneration
  BY <1>9, <1>a, <1>b DEF FinishGeneration, BuildInv
<1>10. CASE Main
  <2>1. UNCHANGED <<genVars, built>>
    BY <1>10 DEF Main, HasNextFlag, HasNextQueue, RequestBatch, PopBatch, RepairDone,
                 FreeBatch, RepairReturns, JoinGenerator
  <2> QED BY <1>b, <2>1 DEF BuildInv, genVars
<1>11. CASE UNCHANGED vars
  BY <1>b, <1>11 DEF BuildInv, vars, genVars
<1> QED BY <1>1, <1>2, <1>3, <1>4, <1>5, <1>6, <1>7, <1>8, <1>9, <1>10, <1>11
        DEF Next, Generator

\* The queue and the popped batches are, in order, the batches pushed.
LEMMA QueueStep == IInv /\ [Next]_vars => QueueInv'
<1> SUFFICES ASSUME IInv, [Next]_vars PROVE QueueInv'
  OBVIOUS
<1> USE DEF IInv
<1>1. CASE PushBatch
  <2>1. /\ built' = Append(built, curList) /\ queue' = Append(queue, batchid)
        /\ batchList' = batchList /\ batchid = Len(built)
    BY <1>1 DEF PushBatch, mainVars, BuildInv
  <2>2. /\ Len(built') = Len(built) + 1 /\ Len(queue') = Len(queue) + 1
        /\ Len(built) \in Nat /\ Len(queue) \in Nat /\ Len(batchList) \in Nat
        /\ queue'[Len(queue) + 1] = batchid
        /\ \A k \in 1 .. Len(queue) : queue'[k] = queue[k]
    BY <2>1 DEF TypeOK
  <2> QED BY <2>1, <2>2 DEF QueueInv
<1>2. CASE PopBatch
  <2>1. /\ queue # <<>> /\ batchList' = Append(batchList, Head(queue))
        /\ queue' = Tail(queue) /\ built' = built
    BY <1>2 DEF PopBatch
  <2>2. /\ Len(batchList) \in Nat /\ Len(queue') = Len(queue) - 1
        /\ Len(queue) \in Nat \ {0} /\ Head(queue) = queue[1]
        /\ \A k \in 1 .. Len(queue') : queue'[k] = queue[k + 1]
        /\ Len(batchList') = Len(batchList) + 1
        /\ batchList'[Len(batchList) + 1] = Head(queue)
        /\ \A k \in 1 .. Len(batchList) : batchList'[k] = batchList[k]
    BY <2>1 DEF TypeOK
  <2> QED BY <2>1, <2>2, SMTT(20) DEF QueueInv
<1>3. CASE ~ (PushBatch \/ PopBatch)
  <2>1. UNCHANGED <<built, queue, batchList>>
    BY <1>3 DEF Next, Generator, Main, vars, mainVars, FilterBlock, FilterNextStripe,
       FilterEnd, BeginStripe, EndStripe, SkipSlot, DumpBatch, FinishGeneration,
       HasNextFlag, HasNextQueue, RequestBatch, RepairDone, FreeBatch, RepairReturns,
       JoinGenerator
  <2> QED BY <2>1 DEF QueueInv
<1> QED BY <1>1, <1>2, <1>3

\* The end-of-generation flag is set only after the last push.
LEMMA FlagStep == IInv /\ [Next]_vars => FlagInv'
<1> SUFFICES ASSUME IInv, [Next]_vars PROVE FlagInv'
  OBVIOUS
<1> USE DEF IInv, Returned
<1>1. CASE PushBatch
  \* The queue grows only before the flag is set, so before the coordinator returns.
  BY <1>1 DEF PushBatch, mainVars, FlagInv
<1>2. CASE PopBatch
  <2>1. /\ cpc = "pop" /\ cpc' = "repair" /\ batchList' = Append(batchList, Head(queue))
        /\ UNCHANGED <<finishGen, gpc, freeIdx>>
    BY <1>2 DEF PopBatch, genVars
  <2>2. batchList' # <<>> /\ Len(batchList') = Len(batchList) + 1 /\ Len(batchList) \in Nat
    <3>1. batchList \in Seq(Nat) /\ Head(queue) \in Nat
      BY <1>2 DEF PopBatch, TypeOK
    <3> QED BY <2>1, <3>1
  <2> QED BY <2>1, <2>2 DEF FlagInv, TypeOK
<1>3. CASE FreeBatch
  BY <1>3 DEF FreeBatch, FlagInv, genVars, TypeOK
<1>4. CASE FinishGeneration
  BY <1>4 DEF FinishGeneration, FlagInv, mainVars, BuildInv
<1>5. CASE HasNextFlag
  BY <1>5 DEF HasNextFlag, FlagInv, genVars
<1>6. CASE HasNextQueue
  BY <1>6 DEF HasNextQueue, FlagInv, genVars
<1>7. CASE RequestBatch \/ RepairDone \/ RepairReturns \/ JoinGenerator
  BY <1>7 DEF RequestBatch, RepairDone, RepairReturns, JoinGenerator, FlagInv, genVars
<1>8. CASE FilterBlock \/ FilterNextStripe \/ FilterEnd \/ BeginStripe \/ EndStripe
           \/ SkipSlot \/ DumpBatch
  BY <1>8 DEF FilterBlock, FilterNextStripe, FilterEnd, BeginStripe, EndStripe,
              SkipSlot, DumpBatch, FlagInv, mainVars
<1>9. CASE UNCHANGED vars
  BY <1>9 DEF vars, genVars, mainVars, FlagInv
<1> QED BY <1>1, <1>2, <1>3, <1>4, <1>5, <1>6, <1>7, <1>8, <1>9
        DEF Next, Generator, Main

\* The invariant holds in every reachable state.
THEOREM Invariance == Spec => []IInv
<1>1. IInv /\ [Next]_vars => IInv'
  BY TypeStep, FilterStep, BuildStep, QueueStep, FlagStep DEF IInv
<1> QED BY InitIInv, <1>1, PTL DEF Spec

\* Type correctness of the two threads' state.
THEOREM TypeCorrect == Spec => []TypeOK
<1>1. IInv => TypeOK
  BY DEF IInv
<1> QED BY <1>1, Invariance, PTL
-----------------------------------------------------------------------------
(***************************************************************************)
(* The safety properties follow from the invariant.                        *)
(***************************************************************************)

\* Windows of different batches share no stripe.
LEMMA WindowsDisjoint ==
  ASSUME IInv,
         NEW l \in Seq(Stripe), NEW a \in Nat, Window(toRepair, l, a, BatchSize),
         NEW m \in Seq(Stripe), NEW b \in Nat, NEW k, Window(toRepair, m, b, k),
         a < b
  PROVE  RangeOf(l) \cap RangeOf(m) = {}
<1> SUFFICES ASSUME NEW i \in 1 .. Len(l), NEW j \in 1 .. Len(m), l[i] = m[j]
             PROVE  FALSE
  BY DEF RangeOf
<1>1. Len(l) \in Nat /\ Len(m) \in Nat
  OBVIOUS
<1>2. FirstIdx(a) \in Nat /\ FirstIdx(b) \in Nat /\ FirstIdx(a) + BatchSize <= FirstIdx(b)
  BY FirstIdxStep, FirstIdxMono
<1> DEFINE p == FirstIdx(a) + i
           q == FirstIdx(b) + j
<1>3. toRepair \in Seq(Stripe) /\ Len(toRepair) \in Nat
  BY DEF IInv, TypeOK
<1>4. p \in 1 .. Len(toRepair) /\ l[i] = toRepair[p] /\ i <= BatchSize
  <2>1. /\ FirstIdx(a) + Len(l) <= Len(toRepair) /\ l[i] = toRepair[p]
        /\ Len(l) <= BatchSize
    BY <1>1 DEF Window
  <2> QED BY <2>1, <1>1, <1>2, <1>3, Sizes
<1>5. q \in 1 .. Len(toRepair) /\ m[j] = toRepair[q]
  <2>1. FirstIdx(b) + Len(m) <= Len(toRepair) /\ m[j] = toRepair[q]
    BY <1>1 DEF Window
  <2> QED BY <2>1, <1>1, <1>2, <1>3
<1>6. p < q
  BY <1>1, <1>2, <1>4, Sizes
<1> HIDE DEF p, q
<1>7. toRepair[p] < toRepair[q]
  BY <1>4, <1>5, <1>6 DEF IInv, FilterInv
<1>8. toRepair[p] \in Stripe
  BY <1>3, <1>4
<1>9. toRepair[p] = toRepair[q]
  BY <1>4, <1>5
<1>10. toRepair[p] \in Nat
  BY <1>8, Sizes DEF Stripe
<1> QED BY <1>7, <1>9, <1>10

\* While the generator rewrites a stripe, no batch it has handed to the main
\* thread holds that stripe: consecutive windows of a list without repetition.
THEOREM Ownership == Spec => []StripeOwnership
<1>1. IInv => StripeOwnership
  <2> SUFFICES ASSUME IInv, gpc = "color", NEW k \in 1 .. Len(built)
               PROVE  curList[Len(curList)] \notin RangeOf(built[k])
    BY DEF StripeOwnership
  <2>1. /\ Len(built) = batchid /\ batchid \in Nat /\ k - 1 \in Nat /\ k - 1 < batchid
        /\ Len(curList) = slot + 1 /\ slot \in Nat
    BY Sizes DEF IInv, BuildInv, TypeOK
  <2>2. curList[Len(curList)] \in RangeOf(curList)
    BY <2>1 DEF RangeOf
  <2>3. built[k] \in Seq(Stripe) /\ curList \in Seq(Stripe)
    BY DEF IInv, TypeOK
  <2>4. Window(toRepair, built[k], k - 1, BatchSize) /\ Window(toRepair, curList, batchid, slot + 1)
    BY DEF IInv, BuildInv
  <2>5. RangeOf(built[k]) \cap RangeOf(curList) = {}
    BY <2>1, <2>3, <2>4, WindowsDisjoint
  <2> QED BY <2>2, <2>5
<1> QED BY <1>1, Invariance, PTL

\* A batch the generator still prints has not been deleted: the main thread
\* deletes only after it saw the flag, which is set after the last print.
THEOREM UseBeforeFree == Spec => []NoUseAfterFree
<1>1. IInv => NoUseAfterFree
  BY DEF IInv, FlagInv, NoUseAfterFree, Freed
<1> QED BY <1>1, Invariance, PTL
-----------------------------------------------------------------------------
(***************************************************************************)
(* What has been rebuilt, and the refinement of RepairJob.                 *)
(***************************************************************************)

\* The stripes of the first n batches of the list bs.
FirstBatches(bs, n) == UNION {RangeOf(bs[k]) : k \in 1 .. n}

\* The batches are popped in the order in which they were built.
LEMMA RebuiltIsPrefix ==
  IInv => /\ NumRepaired \in 0 .. Len(built)
          /\ Rebuilt = FirstBatches(built, NumRepaired)
<1> SUFFICES ASSUME IInv
             PROVE  /\ NumRepaired \in 0 .. Len(built)
                    /\ Rebuilt = FirstBatches(built, NumRepaired)
  OBVIOUS
<1>1. Len(batchList) \in Nat /\ Len(queue) \in Nat /\ Len(built) \in Nat
  BY DEF IInv, TypeOK
<1>2. cpc = "repair" => Len(batchList) # 0
  BY DEF IInv, FlagInv, TypeOK
<1>3. NumRepaired \in 0 .. Len(batchList) /\ NumRepaired \in 0 .. Len(built)
  BY <1>1, <1>2 DEF IInv, QueueInv, NumRepaired
<1>4. \A k \in 1 .. NumRepaired : batchList[k] + 1 = k
  BY <1>1, <1>3 DEF IInv, QueueInv
<1> QED BY <1>3, <1>4 DEF Rebuilt, FirstBatches

\* A batch is a nonempty set of at most BatchSize lost stripes, none of which
\* is in an earlier batch.
LEMMA BatchIsNew ==
  ASSUME IInv, NEW k \in 1 .. Len(built)
  PROVE  /\ RangeOf(built[k]) \subseteq Lost
         /\ RangeOf(built[k]) # {}
         /\ Cardinality(RangeOf(built[k])) <= BatchSize
         /\ RangeOf(built[k]) \cap FirstBatches(built, k - 1) = {}
<1> DEFINE l == built[k]
<1>1. /\ Len(built) \in Nat /\ l \in Seq(Stripe) /\ toRepair \in Seq(Stripe)
      /\ Window(toRepair, l, k - 1, BatchSize) /\ k - 1 \in Nat
  <2>1. built \in Seq(Seq(Stripe)) /\ toRepair \in Seq(Stripe)
    BY DEF IInv, TypeOK
  <2>2. Len(built) \in Nat /\ l \in Seq(Stripe)
    BY <2>1
  <2>3. Window(toRepair, l, k - 1, BatchSize)
    BY DEF IInv, BuildInv
  <2> QED BY <2>1, <2>2, <2>3
<1>2. Len(l) \in Nat /\ Len(toRepair) \in Nat
  BY <1>1
<1>3. k - 1 < NumBatches
  <2>1. batchid \in Nat /\ gpc # "filter"
    BY <1>1 DEF IInv, TypeOK, BuildInv
  <2>2. NumBatches \in Nat
    BY <1>1, BatchesCover
  <2> QED BY <1>1, <2>1, <2>2 DEF IInv, BuildInv
<1>4. FirstIdx(k - 1) \in Nat /\ FirstIdx(k - 1) < Len(toRepair)
  BY <1>1, <1>3, BatchesCover, FirstIdxStep
<1>5. RangeOf(l) \subseteq Lost
  <2> SUFFICES ASSUME NEW j \in 1 .. Len(l) PROVE l[j] \in Lost
    BY DEF RangeOf
  <2>1. FirstIdx(k - 1) + j \in 1 .. Len(toRepair) /\ l[j] = toRepair[FirstIdx(k - 1) + j]
    BY <1>1, <1>2, <1>4 DEF Window
  <2> QED BY <2>1 DEF IInv, FilterInv
<1>6. Len(l) >= 1
  BY <1>1, <1>2, <1>4, Sizes DEF Window
<1>7. RangeOf(l) # {}
  <2>1. 1 \in 1 .. Len(l)
    BY <1>2, <1>6
  <2> QED BY <2>1 DEF RangeOf
<1>8. Cardinality(RangeOf(l)) <= BatchSize
  <2>1. IsFiniteSet(1 .. Len(l)) /\ Cardinality(1 .. Len(l)) = Len(l)
    <3>1. /\ IsFiniteSet(1 .. Len(l))
          /\ Cardinality(1 .. Len(l)) = IF 1 > Len(l) THEN 0 ELSE Len(l) - 1 + 1
      <4>1. 1 \in Int /\ Len(l) \in Int
        BY <1>2
      <4> HIDE DEF l
      <4> QED BY <4>1, FS_Interval
    <3> QED BY <1>2, <1>6, <3>1
  <2> DEFINE f == [i \in 1 .. Len(l) |-> l[i]]
  <2>2. f \in Surjection(1 .. Len(l), RangeOf(l))
    BY DEF RangeOf, Surjection
  <2> HIDE DEF f
  <2>3. Cardinality(RangeOf(l)) <= Len(l) /\ IsFiniteSet(RangeOf(l))
    BY <2>1, <2>2, FS_Surjection
  <2>4. Cardinality(RangeOf(l)) \in Nat
    BY <2>3, FS_CardinalityType
  <2> QED BY <1>1, <1>2, <2>3, <2>4, Sizes DEF Window
<1>9. RangeOf(l) \cap FirstBatches(built, k - 1) = {}
  <2> SUFFICES ASSUME NEW i \in 1 .. k - 1 PROVE RangeOf(built[i]) \cap RangeOf(l) = {}
    BY DEF FirstBatches
  <2>1. /\ i - 1 \in Nat /\ i - 1 < k - 1 /\ built[i] \in Seq(Stripe)
        /\ Window(toRepair, built[i], i - 1, BatchSize)
    <3>1. i \in 1 .. Len(built) /\ i - 1 \in Nat /\ i - 1 < k - 1
      BY <1>1
    <3>2. built \in Seq(Seq(Stripe))
      BY DEF IInv, TypeOK
    <3>3. built[i] \in Seq(Stripe)
      BY <3>1, <3>2
    <3> QED BY <3>1, <3>3 DEF IInv, BuildInv
  <2> QED BY <1>1, <2>1, WindowsDisjoint
<1> QED BY <1>5, <1>7, <1>8, <1>9

\* Every position of _stripes_to_repair falls into a batch.
LEMMA PositionInBatch ==
  ASSUME NEW i \in Nat \ {0}
  PROVE  \E q \in Nat, r \in 1 .. BatchSize : i = FirstIdx(q) + r
<1> DEFINE q == (i - 1) \div BatchSize
           m == (i - 1) % BatchSize
<1>1. i - 1 \in Nat
  OBVIOUS
<1>2. q \in Nat /\ m \in 0 .. BatchSize - 1 /\ i - 1 = BatchSize * q + m
  BY <1>1, Sizes
<1> HIDE DEF q, m
<1>3. FirstIdx(q) = BatchSize * q /\ FirstIdx(q) \in Nat
  BY <1>2, Sizes, FirstIdxStep DEF FirstIdx
<1>4. m + 1 \in 1 .. BatchSize /\ i = FirstIdx(q) + (m + 1)
  BY <1>2, <1>3, Sizes
<1> QED BY <1>2, <1>4

\* Once all the batches are built, together they hold every lost stripe.
LEMMA AllBatchesCoverLost ==
  ASSUME IInv, gpc = "done"
  PROVE  FirstBatches(built, Len(built)) = Lost
<1>1. /\ toRepair \in Seq(Stripe) /\ Len(toRepair) \in Nat /\ NumBatches \in Nat
      /\ Len(built) = NumBatches
  BY BatchesCover DEF IInv, TypeOK, BuildInv
<1>2. FirstBatches(built, Len(built)) \subseteq Lost
  BY BatchIsNew DEF FirstBatches
<1>3. ASSUME NEW s \in Lost PROVE s \in FirstBatches(built, Len(built))
  <2>1. PICK i \in 1 .. Len(toRepair) : toRepair[i] = s
    BY DEF IInv, FilterInv, Seen
  <2>2. PICK q \in Nat, r \in 1 .. BatchSize : i = FirstIdx(q) + r
    BY <1>1, PositionInBatch, SMTT(20)
  <2>3. FirstIdx(q) \in Nat /\ FirstIdx(NumBatches) \in Nat
    BY <1>1, FirstIdxStep
  <2>4. q < NumBatches
    <3>1. CASE NumBatches < q
      <4>1. FirstIdx(NumBatches) + BatchSize <= FirstIdx(q)
        BY <1>1, <3>1, FirstIdxMono
      <4> QED BY <1>1, <2>2, <2>3, <4>1, BatchesCover, Sizes
    <3>2. CASE NumBatches = q
      BY <1>1, <2>2, <2>3, <3>2, BatchesCover, Sizes
    <3> QED BY <1>1, <3>1, <3>2
  <2>5. q + 1 \in 1 .. Len(built) /\ (q + 1) - 1 = q
    BY <1>1, <2>4
  <2>6. Window(toRepair, built[q + 1], q, BatchSize) /\ Len(built[q + 1]) \in Nat
    BY <2>5 DEF IInv, BuildInv, TypeOK
  <2>7. r \in 1 .. Len(built[q + 1]) /\ built[q + 1][r] = s
    <3>1. r \in Nat \ {0} /\ r <= BatchSize /\ FirstIdx(q) + r <= Len(toRepair)
      BY <1>1, <2>2, Sizes
    <3>2. r <= Len(built[q + 1])
      BY <1>1, <2>3, <2>6, <3>1 DEF Window
    <3>3. r \in 1 .. Len(built[q + 1])
      BY <2>6, <3>1, <3>2
    <3> QED BY <2>1, <2>2, <2>6, <3>3 DEF Window
  <2>8. s \in RangeOf(built[q + 1])
    BY <2>7 DEF RangeOf
  <2> QED BY <2>5, <2>8 DEF FirstBatches
<1> QED BY <1>2, <1>3

\* In a returned state everything lost is rebuilt and the queue is empty.
LEMMA RebuiltAtReturn == IInv => AllRebuiltAtReturn
<1> SUFFICES ASSUME IInv, Returned
             PROVE  Rebuilt = Lost /\ queue = <<>> /\ Len(batchList) = NumBatches
  BY DEF AllRebuiltAtReturn
<1>1. gpc = "done" /\ queue = <<>> /\ cpc # "repair"
  BY DEF IInv, FlagInv, Returned
<1>2. Len(batchList) = Len(built) /\ Len(built) = NumBatches
  BY <1>1 DEF IInv, QueueInv, BuildInv, TypeOK
<1>3. Rebuilt = FirstBatches(built, Len(built))
  BY <1>1, <1>2, RebuiltIsPrefix DEF NumRepaired
<1> QED BY <1>1, <1>2, <1>3, AllBatchesCoverLost

\* When the coordinator leaves its loop, every lost stripe is rebuilt.
THEOREM NothingForgotten == Spec => []AllRebuiltAtReturn
BY Invariance, RebuiltAtReturn, PTL

\* RepairJob's cardinality is the cardinality.
LEMMA JobCardinality == \A S : Job!Cardinality(S) = Cardinality(S)
BY DEF Cardinality, Job!Cardinality

\* The steps of the two threads are steps of RepairJob, or change none of its
\* variables: RepairDone rebuilds a batch, HasNextQueue closes the job.
LEMMA StepImplementsJob ==
  IInv /\ IInv' /\ [Next]_vars => [Job!Next]_(Job!vars)
<1> SUFFICES ASSUME IInv, IInv', [Next]_vars PROVE [Job!Next]_(Job!vars)
  OBVIOUS
<1>0. NumRepaired \in 0 .. Len(built) /\ Len(built) \in Nat /\ Len(batchList) \in Nat
  <2>1. built \in Seq(Seq(Stripe)) /\ batchList \in Seq(Nat)
    BY DEF IInv, TypeOK
  <2> QED BY <2>1, RebuiltIsPrefix
<1>1. Rebuilt = FirstBatches(built, NumRepaired) /\ Rebuilt' = FirstBatches(built', NumRepaired')
  <2>1. (IInv => Rebuilt = FirstBatches(built, NumRepaired))'
    BY RebuiltIsPrefix, PTL
  <2> QED BY <2>1, RebuiltIsPrefix
<1>2. CASE RepairDone
  <2>1. /\ placement' = placement /\ built' = built /\ batchList' = batchList
        /\ cpc = "repair" /\ cpc' = "hasNext"
    BY <1>2 DEF RepairDone
  <2>2. Lost' = Lost /\ Returned = FALSE /\ Returned' = FALSE
    BY <2>1 DEF Lost, Returned
  <2> DEFINE n == NumRepaired + 1
  <2>3. NumRepaired' = n /\ n \in 1 .. Len(built) /\ n - 1 = NumRepaired
    <3>1. NumRepaired' = n /\ n = Len(batchList)
      BY <1>0, <2>1 DEF NumRepaired
    <3>2. Len(batchList) # 0
      BY <2>1 DEF IInv, FlagInv, TypeOK
    <3>3. Len(queue) \in Nat /\ Len(batchList) + Len(queue) = Len(built)
      BY DEF IInv, QueueInv, TypeOK
    <3> QED BY <1>0, <3>1, <3>2, <3>3
  <2>4. Rebuilt' = Rebuilt \cup RangeOf(built[n])
    BY <1>0, <1>1, <2>1, <2>3 DEF FirstBatches
  <2>5. /\ RangeOf(built[n]) \subseteq Lost \ Rebuilt
        /\ RangeOf(built[n]) # {}
        /\ Cardinality(RangeOf(built[n])) <= BatchSize
    BY <1>1, <2>3, BatchIsNew
  <2>6. Job!RebuildBatch
    <3>1. \E batch \in SUBSET (Lost \ Rebuilt) :
            /\ batch # {}
            /\ Cardinality(batch) <= BatchSize
            /\ Rebuilt' = Rebuilt \cup batch
      BY <2>4, <2>5
    <3> QED BY <2>2, <3>1, JobCardinality DEF Job!RebuildBatch
  <2> QED BY <2>6 DEF Job!Next
<1>3. CASE HasNextQueue
  <2>1. /\ placement' = placement /\ built' = built /\ batchList' = batchList
        /\ cpc = "hasNextQueue" /\ cpc' \in {"getSize", "clean"}
    BY <1>3 DEF HasNextQueue
  <2>2. Lost' = Lost /\ NumRepaired' = NumRepaired /\ Rebuilt' = Rebuilt
        /\ Returned = FALSE
    BY <1>1, <2>1 DEF Lost, NumRepaired, Returned
  <2>3. CASE cpc' = "getSize"
    <3>1. Returned' = FALSE
      BY <2>3 DEF Returned
    <3> QED BY <2>2, <3>1 DEF Job!vars
  <2>4. CASE cpc' = "clean"
    <3>1. Returned' = TRUE
      BY <2>4 DEF Returned
    <3>2. Rebuilt = Lost
      <4>1. (IInv => AllRebuiltAtReturn)'
        BY RebuiltAtReturn, PTL
      <4>2. Rebuilt' = Lost'
        BY <3>1, <4>1 DEF AllRebuiltAtReturn
      <4> QED BY <2>2, <4>2
    <3>3. Job!Close
      BY <2>2, <3>1, <3>2 DEF Job!Close
    <3> QED BY <3>3 DEF Job!Next
  <2> QED BY <2>1, <2>3, <2>4
<1>4. CASE PushBatch
  <2>1. /\ placement' = placement /\ built' = Append(built, curList)
        /\ UNCHANGED <<cpc, batchList>>
    BY <1>4 DEF PushBatch, mainVars
  <2>2. Lost' = Lost /\ NumRepaired' = NumRepaired /\ Returned' = Returned
    BY <2>1 DEF Lost, NumRepaired, Returned
  <2>3. \A k \in 1 .. NumRepaired : built'[k] = built[k]
    BY <1>0, <2>1 DEF IInv, TypeOK
  <2>4. Rebuilt' = Rebuilt
    BY <1>1, <2>2, <2>3 DEF FirstBatches
  <2> QED BY <2>2, <2>4 DEF Job!vars
<1>5. CASE PopBatch
  <2>1. /\ placement' = placement /\ built' = built /\ cpc = "pop" /\ cpc' = "repair"
        /\ batchList' = Append(batchList, Head(queue))
    BY <1>5 DEF PopBatch
  <2>2. NumRepaired' = NumRepaired
    BY <1>0, <2>1 DEF NumRepaired, IInv, TypeOK
  <2>3. Lost' = Lost /\ Rebuilt' = Rebuilt /\ Returned' = Returned
    BY <1>1, <2>1, <2>2 DEF Lost, Returned
  <2> QED BY <2>3 DEF Job!vars
<1>6. CASE ~ (RepairDone \/ HasNextQueue \/ PushBatch \/ PopBatch)
  <2>1. UNCHANGED <<placement, built, batchList>>
    BY <1>6 DEF Next, Generator, Main, vars, mainVars, FilterBlock, FilterNextStripe,
       FilterEnd, BeginStripe, EndStripe, SkipSlot, DumpBatch, FinishGeneration,
       HasNextFlag, RequestBatch, FreeBatch, RepairReturns, JoinGenerator
  <2>2. (cpc = "repair" <=> cpc' = "repair") /\ Returned' = Returned
    BY <1>6 DEF Next, Generator, Main, vars, mainVars, FilterBlock, FilterNextStripe,
       FilterEnd, BeginStripe, EndStripe, SkipSlot, DumpBatch, FinishGeneration,
       HasNextFlag, RequestBatch, FreeBatch, RepairReturns, JoinGenerator, Returned
  <2>3. Lost' = Lost /\ NumRepaired' = NumRepaired
    BY <2>1, <2>2 DEF Lost, NumRepaired
  <2>4. Rebuilt' = Rebuilt
    BY <1>1, <2>1, <2>3
  <2> QED BY <2>2, <2>3, <2>4 DEF Job!vars
<1> QED BY <1>2, <1>3, <1>4, <1>5, <1>6

\* The two threads implement the abstract repair job.
THEOREM Refinement == Spec => ImplementsRepairJob
<1>1. Init => Job!Init
  <2> SUFFICES ASSUME Init PROVE Job!Init
    OBVIOUS
  <2>1. Lost \subseteq Stripe
    BY DEF Lost
  <2>2. Rebuilt = {}
    BY DEF Init, Rebuilt, NumRepaired
  <2> QED BY <2>1, <2>2 DEF Init, Job!Init, Returned
<1> QED BY <1>1, Invariance, StepImplementsJob, PTL DEF Spec, ImplementsRepairJob, Job!Spec
=============================================================================

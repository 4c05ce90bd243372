---------------------------- MODULE BatchImprove ----------------------------
(***************************************************************************)
(* The second half of ParallelSolution.  improve takes the batch of least  *)
(* load per stripe and tries stripes of the other batches in it: a stripe  *)
(* is coloured on top of what the batch loads already and kept aside until *)
(* the load per stripe is no worse than before; then all that was kept     *)
(* aside is merged into the batch.  improve_enqueue does so in a thread of *)
(* its own, pushes each batch into _batch_queue, and stops improving one   *)
(* when the consumer asks for it.  How a stripe is coloured is the subject *)
(* of Coloring; here its load is any of a few it may get.                  *)
(* _batch_list is modelled with the slots of its array: tail_batch_idx is  *)
(* not refreshed when a batch is erased in the middle of a search, which   *)
(* then reads beyond the end of the list, in slots that vector::erase has  *)
(* left as they were.  load per stripe is a fraction; the code's float may *)
(* see a tie otherwise.                                                    *)
(***************************************************************************)
EXTENDS StripeLoad

CONSTANTS agents_num, ecw,
          fail_node_id,
          Loads(_),          \* nodes of a stripe -> what a colouring may load
          MinOutput(_),      \* getMinOutput: what each of them has to send at least
          Sources(_),        \* nodes of a stripe -> them without the failed one: source_node_ids
          Modes              \* of "improve", "enqueue"

Agents == 0 .. agents_num - 1

ASSUME BatchImproveAssumption ==
  /\ agents_num \in Nat /\ Cluster = Agents /\ fail_node_id \in Agents
  /\ Modes \subseteq {"improve", "enqueue"}

VARIABLES
  mode,
  place,         \* _nodelist of each stripe
  slots, size,   \* _batch_list: its array, of which `size' slots are in use
  list,          \* _stripe_list of each batch
  tab,           \* _in and _out of each batch
  load,          \* _in and _out of each stripe
  gpc,           \* the generator: "group", "sort", "try", "push", "reset", "done";
                 \* "crashed": the process has ended
  tail,          \* tail_batch_idx, counted from one
  best,          \* best_avg, as <<load, stripes>>
  kept,          \* batch_stripe: <<batch, stripe>>
  table,         \* loadTable
  out,           \* batches delivered, in order: the queue is what is not popped of it
  popped,        \* how many of them the consumer has
  request,       \* _batch_request
  finish,        \* _finish_gen_batches
  cpc            \* the consumer: "hasNext", "queue", "getSize", "request", "pop", "work", "end"

genVars == <<slots, size, list, tab, load, tail, best, kept, table, out, finish>>
conVars == <<popped, cpc>>
improving == <<mode, genVars, gpc, conVars, request>>

TableOf(stripes, l) == SumOfLoads([i \in DOMAIN stripes |-> l[stripes[i]]])
LoadOf(t) == StateOf(t, Agents).load

\* A fraction <<load, stripes>> that is greater than another.
Greater(a, b) == a[1] * b[2] > b[1] * a[2]

head == slots[1]
queue == SubSeq(out, popped + 1, Len(out))

\* The stripes that have lost a block.
Lost == {s \in DOMAIN place : fail_node_id \in place[s]}

\* What the batches hold in place of them: the positions of _stripes_to_repair,
\* taken for stripes (Grouping, TakenAs).
Taken == 1 .. Cardinality(Lost)

\* Stripes of the batches that have lost nothing.
Unharmed == Taken \ Lost

\* The consumer may ask for a batch while the first ones are still being formed.
ImproveInit ==
  /\ mode \in Modes
  /\ slots = <<>> /\ size = 0 /\ list = <<>> /\ load = <<>> /\ tab = <<>>
  /\ gpc = "group" /\ tail = 0 /\ best = <<0, 1>> /\ kept = <<>> /\ table = NoLoad
  /\ out = <<>> /\ popped = 0
  /\ request = FALSE /\ finish = FALSE
  /\ cpc = IF mode = "enqueue" THEN "hasNext" ELSE "end"

\* genOfflineColoring and evaluateBatch of the batches that are to be improved.
StartImprove(batches) ==
  /\ gpc = "group"
  /\ list' = batches
  /\ slots' = [b \in DOMAIN batches |-> b] /\ size' = Len(batches)
  /\ load' \in {l \in [Taken -> UNION {Loads(place[s]) : s \in Taken}] :
                  \A s \in Taken : l[s] \in Loads(place[s])}
  /\ tab' = [b \in DOMAIN batches |-> TableOf(batches[b], load')]
  /\ gpc' = "sort"
  /\ UNCHANGED <<mode, place, tail, best, kept, table, out, finish, conVars, request>>

Crash == gpc' = "crashed" /\ UNCHANGED <<mode, place, genVars, conVars, request>>

\* Decode of no lost block reads to[0] (RDP, BUTTERFLY): the process may end.
DecodeNothing == gpc = "group" /\ Unharmed # {} /\ Crash
-----------------------------------------------------------------------------
\* getLoad()/getStripeList().size(), a division of integers
SortKey(b) == LoadOf(tab[b]) \div Len(list[b])

\* std::sort: equal batches in any order.
Sorted(old, new) ==
  /\ \A b \in 1 .. Len(slots) :
       Cardinality({i \in 1 .. size : old[i] = b}) = Cardinality({i \in 1 .. size : new[i] = b})
  /\ \A i \in 1 .. size - 1 : SortKey(new[i]) <= SortKey(new[i + 1])
  /\ \A i \in size + 1 .. Len(slots) : new[i] = old[i]

SelectHead ==
  /\ gpc = "sort" /\ size > 0
  /\ \E new \in [DOMAIN slots -> DOMAIN list] : Sorted(slots, new) /\ slots' = new
  /\ table' = TableOf(list[slots'[1]], load)
  /\ best' = <<LoadOf(table'), Len(list[slots'[1]])>>
  /\ tail' = size
  /\ kept' = <<>>
  /\ gpc' = "try"
  /\ UNCHANGED <<mode, place, size, list, tab, load, out, finish, conVars, request>>

stripe_num == Len(list[head]) + Len(kept)

\* Not in stripeIdx_to_insert.
Untried(s) == \A i \in DOMAIN kept : kept[i][2] # s

\* Neither the new node's input nor a source's output would raise the average.
MayFit(s) ==
  LET input  == Min({table[n].in : n \in Agents \ place[s]}) + ecw
      output == Max({table[n].out + MinOutput(place[s]) : n \in Sources(place[s])})
  IN  ~Greater(<<input, stripe_num + 1>>, best) /\ ~Greater(<<output, stripe_num + 1>>, best)

Fits(b) ==
  Entries(list[b], {i \in DOMAIN list[b] : Untried(list[b][i]) /\ MayFit(list[b][i])})

\* The slots from tail_batch_idx down to the second that have a candidate.
Candidates == {i \in 2 .. tail : Fits(slots[i]) # <<>>}

\* vector::erase moves the later elements up; the last slot keeps its value.
Erase(sl, n, b) ==
  LET at == CHOOSE i \in 1 .. n : sl[i] = b
  IN  [i \in DOMAIN sl |-> IF at <= i /\ i < n THEN sl[i + 1] ELSE sl[i]]

Without(l, s) == Entries(l, {i \in DOMAIN l : l[i] # s})

\* Mutant: the head batch does not get the stripe.
MoveLosing(m, b, s) ==
  LET l == [m.list EXCEPT ![b] = Without(@, s)]
      gone == l[b] = <<>>
  IN  [m EXCEPT !.list = l, !.slots = IF gone THEN Erase(@, m.size, b) ELSE @,
                !.size = IF gone THEN @ - 1 ELSE @]

\* push and erase: _in and _out of the batch that loses a stripe stay.  A batch
\* without stripes leaves _batch_list.
Move(m, b, s) ==
  LET l == [m.list EXCEPT ![head] = Append(@, s), ![b] = Without(@, s)]
      gone == l[b] = <<>>
  IN  [list |-> l, tab |-> [m.tab EXCEPT ![head] = Plus(@, m.load[s])],
       slots |-> IF gone THEN Erase(m.slots, m.size, b) ELSE m.slots,
       size |-> IF gone THEN m.size - 1 ELSE m.size, load |-> m.load]

MoveAll(m, all) == FoldLeft(LAMBDA a, x : Move(a, x[1], x[2]), m, all)

\* Mutant: best_avg is not lowered by a merge.
NewBestUnchanged(avg) == best

\* best_avg = avgafter
NewBest(avg) == avg

\* avgafter > best_avg
Worse(avg) == Greater(avg, best)

\* One turn of the inner loop: the first candidate is coloured, then kept or merged.
TryStripe ==
  /\ gpc = "try" /\ ~(mode = "enqueue" /\ request) /\ Candidates # {}
  /\ \E l \in Loads(place[Fits(slots[Max(Candidates)])[1]]) :
       LET b == slots[Max(Candidates)]
           s == Fits(b)[1]
           all == Append(kept, <<b, s>>)
           avg == <<LoadOf(Plus(table, l)), stripe_num + 1>>
           m == MoveAll([list |-> list, tab |-> tab, slots |-> slots, size |-> size,
                         load |-> [load EXCEPT ![s] = l]], all)
       IN  /\ load' = [load EXCEPT ![s] = l]
           /\ table' = Plus(table, l)
           /\ IF Worse(avg)
                THEN kept' = all /\ UNCHANGED <<list, tab, slots, size, best>>
                ELSE /\ kept' = <<>> /\ best' = NewBest(avg)
                     /\ list' = m.list /\ tab' = m.tab /\ slots' = m.slots /\ size' = m.size
  /\ UNCHANGED <<mode, place, tail, gpc, out, finish, conVars, request>>

\* erase(find(..)) of a failed node that is not there: the process may end.
EraseNothing ==
  /\ gpc = "try" /\ ~(mode = "enqueue" /\ request)
  /\ \E i \in 2 .. tail :
       /\ Candidates \subseteq 2 .. i
       /\ \E s \in Unharmed \cap ToSet(list[slots[i]]) : Untried(s)
  /\ Crash

\* Mutant: a request makes the search start over.
AfterSearchAgain == IF mode = "enqueue" /\ request THEN "sort" ELSE "push"

\* The search is left for the delivery of the head batch, whatever ended it.
AfterSearch == "push"

\* _batch_request, or no candidate is left.
StopTrying ==
  /\ gpc = "try"
  /\ (mode = "enqueue" /\ request) \/ Candidates = {}
  /\ gpc' = AfterSearch
  /\ UNCHANGED <<mode, place, genVars, conVars, request>>

PushHead ==
  /\ gpc = "push"
  /\ out' = Append(out, head)
  /\ slots' = Erase(slots, size, head)
  /\ size' = size - 1
  /\ gpc' = IF mode = "enqueue" THEN "reset" ELSE "sort"
  /\ UNCHANGED <<mode, place, list, tab, load, tail, best, kept, table, finish, conVars, request>>

\* _batch_request = false, after the push
ResetValue == FALSE

ResetRequest ==
  /\ gpc = "reset"
  /\ request' = ResetValue
  /\ gpc' = "sort"
  /\ UNCHANGED <<mode, place, genVars, conVars>>

Finish ==
  /\ gpc = "sort" /\ size = 0
  /\ finish' = TRUE
  /\ gpc' = "done"
  /\ UNCHANGED <<mode, place, slots, size, list, tab, load, tail, best, kept, table, out, conVars, request>>

Improver == SelectHead \/ TryStripe \/ EraseNothing \/ StopTrying \/ PushHead \/ ResetRequest \/ Finish
-----------------------------------------------------------------------------
Goto(pc) == cpc' = pc /\ UNCHANGED <<mode, place, genVars, gpc>>

\* hasNext: the flag, then the queue.
HasNextFlag  == cpc = "hasNext" /\ Goto(IF finish THEN "queue" ELSE "getSize")
                /\ UNCHANGED <<popped, request>>
HasNextQueue == cpc = "queue" /\ Goto(IF queue # <<>> THEN "getSize" ELSE "end")
                /\ UNCHANGED <<popped, request>>

\* getRepairBatchFromQueue: the size, the request and the pop are three steps.
GetSize == cpc = "getSize" /\ Goto(IF queue = <<>> THEN "request" ELSE "pop")
           /\ UNCHANGED <<popped, request>>
Request == cpc = "request" /\ Goto("pop") /\ request' = TRUE /\ UNCHANGED popped
Pop     == cpc = "pop" /\ queue # <<>> /\ Goto("work") /\ popped' = popped + 1
           /\ UNCHANGED request
Work    == cpc = "work" /\ Goto("hasNext") /\ UNCHANGED <<popped, request>>

Consume ==
  /\ gpc # "crashed"
  /\ HasNextFlag \/ HasNextQueue \/ GetSize \/ Request \/ Pop \/ Work
-----------------------------------------------------------------------------
(***************************************************************************)
(* No stripe is lost and none is repaired twice, although a search may go  *)
(* through slots beyond the end of _batch_list: each stripe that the       *)
(* groups gave to the batches, and no other, is once in the batches that   *)
(* are delivered or still listed, and no such batch is empty.              *)
(***************************************************************************)
EachStripeOnce ==
  LET listed == out \o SubSeq(slots, 1, size)
  IN  gpc \notin {"group", "crashed"} =>
        /\ \A i \in DOMAIN listed : list[listed[i]] # <<>>
        /\ \A s \in DOMAIN place :
             Cardinality({p \in (DOMAIN listed) \X Taken :
                            LET stripes == list[listed[p[1]]]
                            IN  p[2] \in DOMAIN stripes /\ stripes[p[2]] = s})
               = IF s \in Taken THEN 1 ELSE 0

(***************************************************************************)
(* What is repaired is what was lost: "we first figure out stripes that    *)
(* stores a block in $fail_node_id".  The batches have as many stripes,    *)
(* but by their positions in that list: a stripe that lost nothing gets    *)
(* in, and an affected one is never repaired, when one of the former comes *)
(* before one of the latter in the placement file.                         *)
(***************************************************************************)
RepairsWhatIsLost ==
  gpc \notin {"group", "crashed"} =>
    UNION {ToSet(list[b]) : b \in DOMAIN list} = Lost

(***************************************************************************)
(* What the search compares with is true although stripes are coloured     *)
(* anew all the time: best_avg is what the stripes of the head batch load  *)
(* per stripe, and loadTable what they and those kept aside load.          *)
(***************************************************************************)
BestIsTheHeads ==
  gpc = "try" =>
    /\ best = <<LoadOf(TableOf(list[head], load)), Len(list[head])>>
    /\ table = TableOf(list[head] \o [i \in DOMAIN kept |-> kept[i][2]], load)

(***************************************************************************)
(* A consumer that waits in pop while there are stripes to deliver gets a  *)
(* batch: neither a request that was taken back (_batch_request is reset   *)
(* after the push, also when the consumer has asked again in between), nor *)
(* the search for groups, nor an improvement without an end stands in the  *)
(* way; only the end of the process does.                                  *)
(***************************************************************************)
WaitingIsServed ==
  (cpc = "pop" /\ (size > 0 \/ (gpc = "group" /\ Lost # {})))
    ~> (cpc = "work" \/ gpc = "crashed")
=============================================================================

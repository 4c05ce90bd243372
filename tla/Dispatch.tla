------------------------------ MODULE Dispatch -------------------------------
(***************************************************************************)
(* How the coordinator hands a round of work to the agents and waits for   *)
(* it.  A round is one batch (RepairBatch::genRepairTasks) or one          *)
(* bandwidth setting of the repair of a single block                       *)
(* (SingleSolutionBase::genRepairTasks).  Everything goes through redis    *)
(* lists: one thread per node pushes to the node's redis an AGCommand and  *)
(* then the task commands, each compute task followed by its compute       *)
(* items; the agent (Worker::doProcess) pops them, repairs, exchanging     *)
(* packets with the other agents, and pushes a finish flag to the          *)
(* coordinator's redis, where one thread per node waits for it.            *)
(*                                                                         *)
(* The keys of the lists do not tell rounds apart on their own: the key    *)
(* ag_request is always the same, and a single-block repair uses batch 0   *)
(* and stripe 0 in every round.                                            *)
(*                                                                         *)
(* A command is identified by the round and the place it was planned at;   *)
(* what it says is looked up in the plan.  The packets one agent sends to  *)
(* another in a round are one message.                                     *)
(***************************************************************************)
EXTENDS Integers, Sequences, FiniteSets

CONSTANTS
  Nodes,     \* ids of the agents and of the repair nodes
  BatchIds,  \* batch ids
  StripeIds, \* stripe ids
  DagIdxs,   \* dagidx of the compute items
  CurIds,    \* values the field _curId of a NodeBatchTask may have
  Jobs       \* the jobs a run may be given

VARIABLES
  job,       \* [single |-> is it a single-block repair, rounds |-> the plan]
  \* coordinator
  round,     \* the current round
  phase,     \* "send", "wait" or "end"
  curId,     \* node -> _curId of its NodeBatchTask
  sendPos,   \* node -> what its thread pushes next
  waited,    \* nodes whose finish flag the coordinator has popped
  finish,    \* the coordinator's redis: key of a finish flag -> how many
  \* redis of a node
  agRequest, \* node -> list ag_request
  command,   \* node -> batch, stripe -> list batch:stripe:command
  compute,   \* node -> batch, stripe, dagidx -> list ...:compute:dagidx
  packets,   \* node -> batch, sender -> the packets received
  \* agent
  apc,       \* node -> "request", "recv" or "repair"
  ag,        \* node -> the AGCommand it works on
  recvPos,   \* node -> what it pops next
  nbtask,    \* node -> the commands it has popped, each with its place
  sentTo,    \* node -> nodes it has sent its packets to
  recvFrom   \* node -> nodes whose packets it has consumed

coorVars  == <<round, phase, curId, sendPos, waited>>
agentVars == <<apc, ag, recvPos, nbtask, sentTo, recvFrom>>
listVars  == <<finish, agRequest, command, compute, packets>>
vars == <<job, coorVars, listVars, agentVars>>
-----------------------------------------------------------------------------
(***************************************************************************)
(* The plan.  rounds[r].tasks[n] is the NodeBatchTask of node n: for each  *)
(* stripe its id and its tasks, a task being the list of the dagidx of its *)
(* compute items, empty if it is no compute task.  rounds[r].feeds holds   *)
(* <<m, n>> when a send task of m has packets for a recv task of n.        *)
(***************************************************************************)
NumRounds(j) == Len(j.rounds)
Workers(j, r) == DOMAIN j.rounds[r].tasks
TasksOf(j, r, n) == j.rounds[r].tasks[n]

\* A single-block repair numbers its only batch 0 whatever the round.
BatchId(j, r) == IF j.single THEN 0 ELSE r - 1

\* The _curId of a NodeBatchTask is the bandwidth id in a single-block
\* repair.  RepairBatch's constructor call leaves it uninitialised.
CurIdChoices(j, r) == IF j.single THEN {r} ELSE CurIds

\* genRepairTasks makes a NodeBatchTask for the nodes of the stripes' task
\* maps, which hold no node without a task, and counts the batch and the
\* bandwidth settings it is called for; a repair without any does not call it.
\* A packet is sent and received by tasks of the round.
StripeTasks == [stripe : StripeIds, tasks : Seq(Seq(DagIdxs)) \ {<<>>}]
NodeTasks == Seq(StripeTasks)

ASSUME DispatchAssumption ==
  /\ CurIds \subseteq Int
  /\ \A j \in Jobs :
       /\ NumRounds(j) \in Nat \ {0}
       /\ \A r \in 1 .. NumRounds(j) :
            /\ BatchId(j, r) \in BatchIds /\ CurIdChoices(j, r) \subseteq CurIds
            /\ Workers(j, r) \subseteq Nodes
            /\ \A n \in Workers(j, r) : TasksOf(j, r, n) \in NodeTasks
            /\ j.rounds[r].feeds \subseteq Workers(j, r) \X Workers(j, r)

Start == <<0, 1, 0>>   \* the AGCommand
First == <<1, 1, 0>>   \* the first task of the first stripe

\* Mutant: the last compute item of a task is left out.
AfterDropsLast(pos, dsts, numTasks) ==
  CASE pos[3] + 1 < Len(dsts)   -> <<pos[1], pos[2], pos[3] + 1>>
    [] pos[3] + 1 >= Len(dsts) /\ pos[2] < numTasks -> <<pos[1], pos[2] + 1, 0>>
    [] OTHER -> <<pos[1] + 1, 1, 0>>

\* What follows place <<i, t, c>> (item c of task t of the i-th stripe; item 0
\* is the task's own command) in the order of sendTaskCommands, when the task
\* has the items dsts and the stripe numTasks tasks.
After(pos, dsts, numTasks) ==
  CASE pos[3] < Len(dsts)   -> <<pos[1], pos[2], pos[3] + 1>>
    [] pos[3] >= Len(dsts) /\ pos[2] < numTasks -> <<pos[1], pos[2] + 1, 0>>
    [] OTHER -> <<pos[1] + 1, 1, 0>>

AfterIn(p, pos) == After(pos, p[pos[1]].tasks[pos[2]], Len(p[pos[1]].tasks))

\* The places of the commands of a NodeBatchTask.
Places(p) ==
  UNION {UNION {{<<i, t, c>> : c \in 0 .. Len(p[i].tasks[t])} :
                t \in DOMAIN p[i].tasks} : i \in DOMAIN p}

\* The commands node n must work on in round r.
Work(j, r, n) == {<<pos, [round |-> r, pos |-> pos]>> : pos \in Places(TasksOf(j, r, n))}

NoRequest == [round |-> 0, cur |-> 0]

CommandKey == BatchIds \X StripeIds
ComputeKey == BatchIds \X StripeIds \X DagIdxs
PacketKey  == BatchIds \X Nodes
FinishKey  == BatchIds \X CurIds \X Nodes

Init ==
  /\ job \in Jobs
  /\ round = 1 /\ phase = "send" /\ waited = {}
  /\ curId \in [Nodes -> CurIdChoices(job, 1)]
  /\ sendPos = [n \in Nodes |-> Start]
  /\ finish = [k \in FinishKey |-> 0]
  /\ agRequest = [n \in Nodes |-> <<>>]
  /\ command = [n \in Nodes |-> [k \in CommandKey |-> <<>>]]
  /\ compute = [n \in Nodes |-> [k \in ComputeKey |-> <<>>]]
  /\ packets = [n \in Nodes |-> [k \in PacketKey |-> <<>>]]
  /\ apc = [n \in Nodes |-> "request"]
  /\ ag = [n \in Nodes |-> NoRequest]
  /\ recvPos = [n \in Nodes |-> Start]
  /\ nbtask = [n \in Nodes |-> {}]
  /\ sentTo = [n \in Nodes |-> {}]
  /\ recvFrom = [n \in Nodes |-> {}]
-----------------------------------------------------------------------------
(***************************************************************************)
(* The coordinator.                                                        *)
(***************************************************************************)
batch == BatchId(job, round)

\* What the thread of node n sends: NodeBatchTask::_taskmap.
Sending(n) == TasksOf(job, round, n)

\* Has the thread of node n anything left to push?
InTasks(n) == sendPos[n] # Start /\ sendPos[n][1] <= Len(Sending(n))
SendDone(n) == sendPos[n] # Start /\ sendPos[n][1] > Len(Sending(n))

Msg(n) == [round |-> round, pos |-> sendPos[n]]

\* sendCommands: the AGCommand first ...
SendAGCommand(n) ==
  /\ phase = "send" /\ n \in Workers(job, round)
  /\ sendPos[n] = Start
  /\ agRequest' = [agRequest EXCEPT ![n] = Append(@, [round |-> round, cur |-> curId[n]])]
  /\ sendPos' = [sendPos EXCEPT ![n] = First]
  /\ UNCHANGED <<job, round, phase, curId, waited, finish, command, compute, packets,
                 agentVars>>

\* Mutant: every command goes to the list of the first stripe.
SendTaskCommandToFirst(n) ==
  /\ phase = "send" /\ n \in Workers(job, round)
  /\ InTasks(n) /\ sendPos[n][3] = 0
  /\ command' = [command EXCEPT ![n][<<batch, Sending(n)[1].stripe>>] = Append(@, Msg(n))]
  /\ sendPos' = [sendPos EXCEPT ![n] = AfterIn(Sending(n), @)]
  /\ UNCHANGED <<job, round, phase, curId, waited, finish, agRequest, compute, packets,
                 agentVars>>

\* ... then each task command ...
SendTaskCommand(n) ==
  /\ phase = "send" /\ n \in Workers(job, round)
  /\ InTasks(n) /\ sendPos[n][3] = 0
  /\ LET p == Sending(n)  pos == sendPos[n]
     IN  /\ command' = [command EXCEPT ![n][<<batch, p[pos[1]].stripe>>] = Append(@, Msg(n))]
         /\ sendPos' = [sendPos EXCEPT ![n] = AfterIn(p, pos)]
  /\ UNCHANGED <<job, round, phase, curId, waited, finish, agRequest, compute, packets,
                 agentVars>>

\* ... followed, if it is a compute task, by its compute items.
SendComputeItem(n) ==
  /\ phase = "send" /\ n \in Workers(job, round)
  /\ InTasks(n) /\ sendPos[n][3] > 0
  /\ LET p == Sending(n)
         pos == sendPos[n]
         key == <<batch, p[pos[1]].stripe, p[pos[1]].tasks[pos[2]][pos[3]]>>
     IN  /\ compute' = [compute EXCEPT ![n][key] = Append(@, Msg(n))]
         /\ sendPos' = [sendPos EXCEPT ![n] = AfterIn(p, pos)]
  /\ UNCHANGED <<job, round, phase, curId, waited, finish, agRequest, command, packets,
                 agentVars>>

\* The sending threads are joined and the waiting threads are created.
AllSent ==
  /\ phase = "send"
  /\ \A n \in Workers(job, round) : SendDone(n)
  /\ phase' = "wait"
  /\ UNCHANGED <<job, round, curId, sendPos, waited, listVars, agentVars>>

\* Mutant: the wait gives up before the flag is there.
WaitFinishFlagPolls(n) ==
  /\ phase = "wait" /\ n \in Workers(job, round)
  /\ n \notin waited
  /\ finish' = [finish EXCEPT ![<<batch, curId[n], n>>] = @ - 1]
  /\ waited' = waited \cup {n}
  /\ UNCHANGED <<job, round, phase, curId, sendPos, agRequest, command, compute, packets,
                 agentVars>>

\* NodeBatchTask::waitFinishFlag pops the node's flag.
WaitFinishFlag(n) ==
  /\ phase = "wait" /\ n \in Workers(job, round)
  /\ n \notin waited
  /\ finish[<<batch, curId[n], n>>] > 0
  /\ finish' = [finish EXCEPT ![<<batch, curId[n], n>>] = @ - 1]
  /\ waited' = waited \cup {n}
  /\ UNCHANGED <<job, round, phase, curId, sendPos, agRequest, command, compute, packets,
                 agentVars>>

\* Mutant: the round ends with the first flag.
RoundDoneOnFirstFlag ==
  /\ phase = "wait" /\ (waited # {} \/ Workers(job, round) = {})
  /\ round' = round + 1
  /\ waited' = {}
  /\ sendPos' = [n \in Nodes |-> Start]
  /\ phase' = IF round < NumRounds(job) THEN "send" ELSE "end"
  /\ curId' \in IF round < NumRounds(job) THEN [Nodes -> CurIdChoices(job, round + 1)]
                ELSE {curId}
  /\ UNCHANGED <<job, listVars, agentVars>>

\* The waiting threads are joined: the caller goes on to the next round.
RoundDone ==
  /\ phase = "wait" /\ Workers(job, round) \subseteq waited
  /\ round' = round + 1
  /\ waited' = {}
  /\ sendPos' = [n \in Nodes |-> Start]
  /\ phase' = IF round < NumRounds(job) THEN "send" ELSE "end"
  /\ curId' \in IF round < NumRounds(job) THEN [Nodes -> CurIdChoices(job, round + 1)]
                ELSE {curId}
  /\ UNCHANGED <<job, listVars, agentVars>>
-----------------------------------------------------------------------------
(***************************************************************************)
(* The agent of node n.                                                    *)
(***************************************************************************)
\* The NodeBatchTask an AGCommand announces, and the batch id it carries.
Announced(n) == TasksOf(job, ag[n].round, n)
AgBatch(n) == BatchId(job, ag[n].round)
AgStripe(n) == Announced(n)[recvPos[n][1]].stripe

\* Worker::readInstructions takes one request at a time.
ReadInstructions(n) ==
  /\ apc[n] = "request"
  /\ agRequest[n] # <<>>
  /\ ag' = [ag EXCEPT ![n] = Head(agRequest[n])]
  /\ agRequest' = [agRequest EXCEPT ![n] = Tail(@)]
  /\ recvPos' = [recvPos EXCEPT ![n] = First]
  /\ apc' = [apc EXCEPT ![n] = "recv"]
  /\ UNCHANGED <<job, coorVars, finish, command, compute, packets, nbtask, sentTo, recvFrom>>

\* The compute items that task message m lists.
DstsOf(n, m) == TasksOf(job, m.round, n)[m.pos[1]].tasks[m.pos[2]]

\* The task message agent n resolves, the last it took for this task.
CurTask(n) ==
  CHOOSE m \in {x[2] : x \in nbtask[n]} :
    <<<<recvPos[n][1], recvPos[n][2], 0>>, m>> \in nbtask[n]

\* recvBatchTasks pops one task command of the stripe it is at.
RecvTask(n) ==
  /\ apc[n] = "recv"
  /\ recvPos[n][1] <= Len(Announced(n)) /\ recvPos[n][3] = 0
  /\ LET key == <<AgBatch(n), AgStripe(n)>>
         m == Head(command[n][key])
     IN  /\ command[n][key] # <<>>
         /\ command' = [command EXCEPT ![n][key] = Tail(@)]
         /\ nbtask' = [nbtask EXCEPT ![n] = @ \cup {<<recvPos[n], m>>}]
         /\ recvPos' = [recvPos EXCEPT ![n] =
                          After(@, DstsOf(n, m), Len(Announced(n)[@[1]].tasks))]
  /\ UNCHANGED <<job, coorVars, finish, agRequest, compute, packets, apc, ag, sentTo, recvFrom>>

\* resolveComputeTask pops the items the command lists, in its order.
RecvComputeItem(n) ==
  /\ apc[n] = "recv"
  /\ recvPos[n][1] <= Len(Announced(n)) /\ recvPos[n][3] > 0
  /\ LET dsts == DstsOf(n, CurTask(n))
         key == <<AgBatch(n), AgStripe(n), dsts[recvPos[n][3]]>>
     IN  /\ compute[n][key] # <<>>
         /\ compute' = [compute EXCEPT ![n][key] = Tail(@)]
         /\ nbtask' = [nbtask EXCEPT ![n] = @ \cup {<<recvPos[n], Head(compute[n][key])>>}]
         /\ recvPos' = [recvPos EXCEPT ![n] =
                          After(@, dsts, Len(Announced(n)[@[1]].tasks))]
  /\ UNCHANGED <<job, coorVars, finish, agRequest, command, packets, apc, ag, sentTo, recvFrom>>

\* All the commands are there: repairBatch starts its threads.
StartRepair(n) ==
  /\ apc[n] = "recv"
  /\ recvPos[n][1] > Len(Announced(n))
  /\ apc' = [apc EXCEPT ![n] = "repair"]
  /\ UNCHANGED <<job, coorVars, listVars, ag, recvPos, nbtask, sentTo, recvFrom>>

Feeds(r) == job.rounds[r].feeds

\* sendOneByOne pushes to the redis of each receiver.
SendPackets(n, m) ==
  /\ apc[n] = "repair"
  /\ <<n, m>> \in Feeds(ag[n].round) /\ m \notin sentTo[n]
  /\ packets' = [packets EXCEPT ![m][<<AgBatch(n), n>>] = Append(@, ag[n].round)]
  /\ sentTo' = [sentTo EXCEPT ![n] = @ \cup {m}]
  /\ UNCHANGED <<job, coorVars, finish, agRequest, command, compute, apc, ag, recvPos, nbtask,
                 recvFrom>>

\* recvOneByOne pops the packets from its own redis.
RecvPackets(n, m) ==
  /\ apc[n] = "repair"
  /\ <<m, n>> \in Feeds(ag[n].round) /\ m \notin recvFrom[n]
  /\ packets[n][<<AgBatch(n), m>>] # <<>>
  /\ packets' = [packets EXCEPT ![n][<<AgBatch(n), m>>] = Tail(@)]
  /\ recvFrom' = [recvFrom EXCEPT ![n] = @ \cup {m}]
  /\ UNCHANGED <<job, coorVars, finish, agRequest, command, compute, apc, ag, recvPos, nbtask,
                 sentTo>>

AllExchanged(n) ==
  /\ {m \in Nodes : <<n, m>> \in Feeds(ag[n].round)} \subseteq sentTo[n]
  /\ {m \in Nodes : <<m, n>> \in Feeds(ag[n].round)} \subseteq recvFrom[n]

\* Mutant: the flag is sent before the stripe threads are joined.
FinishRepairEarly(n) ==
  /\ apc[n] = "repair"
  /\ finish' = [finish EXCEPT ![<<AgBatch(n), ag[n].cur, n>>] = @ + 1]
  /\ apc' = [apc EXCEPT ![n] = "request"]
  /\ nbtask' = [nbtask EXCEPT ![n] = {}]
  /\ sentTo' = [sentTo EXCEPT ![n] = {}]
  /\ recvFrom' = [recvFrom EXCEPT ![n] = {}]
  /\ UNCHANGED <<job, coorVars, agRequest, command, compute, packets, ag, recvPos>>

\* The stripe threads are joined, the queues and the task deleted, and the
\* flag pushed under the _curId the request carried.
FinishRepair(n) ==
  /\ apc[n] = "repair"
  /\ AllExchanged(n)
  /\ finish' = [finish EXCEPT ![<<AgBatch(n), ag[n].cur, n>>] = @ + 1]
  /\ apc' = [apc EXCEPT ![n] = "request"]
  /\ nbtask' = [nbtask EXCEPT ![n] = {}]
  /\ sentTo' = [sentTo EXCEPT ![n] = {}]
  /\ recvFrom' = [recvFrom EXCEPT ![n] = {}]
  /\ UNCHANGED <<job, coorVars, agRequest, command, compute, packets, ag, recvPos>>
-----------------------------------------------------------------------------
Sender(n) == SendAGCommand(n) \/ SendTaskCommand(n) \/ SendComputeItem(n)

Coordinator == AllSent \/ RoundDone

Agent(n) ==
  \/ ReadInstructions(n) \/ RecvTask(n) \/ RecvComputeItem(n) \/ StartRepair(n)
  \/ \E m \in Nodes : SendPackets(n, m) \/ RecvPackets(n, m)
  \/ FinishRepair(n)

\* The repair is over and every agent waits for a request: only then may the
\* system stop.
AllIdle ==
  /\ phase = "end"
  /\ \A n \in Nodes : apc[n] = "request" /\ agRequest[n] = <<>>
  /\ UNCHANGED vars

Next ==
  \/ Coordinator
  \/ \E n \in Nodes : Sender(n) \/ WaitFinishFlag(n) \/ Agent(n)
  \/ AllIdle

Spec == Init /\ [][Next]_vars

\* Each thread of the coordinator and each agent goes on while it can.
FairSpec ==
  /\ Spec
  /\ WF_vars(Coordinator)
  /\ \A n \in Nodes : WF_vars(Sender(n)) /\ WF_vars(WaitFinishFlag(n)) /\ WF_vars(Agent(n))
-----------------------------------------------------------------------------
(***************************************************************************)
(* Properties.                                                             *)
(***************************************************************************)
Place == Int \X Int \X Int
Message == [round : Int, pos : Place]

TypeOK ==
  /\ job \in Jobs
  /\ round \in 1 .. NumRounds(job) + 1
  /\ phase \in {"send", "wait", "end"}
  /\ curId \in [Nodes -> CurIds]
  /\ sendPos \in [Nodes -> Place]
  /\ waited \subseteq Nodes
  /\ finish \in [FinishKey -> Nat]
  /\ agRequest \in [Nodes -> Seq([round : Int, cur : Int])]
  /\ command \in [Nodes -> [CommandKey -> Seq(Message)]]
  /\ compute \in [Nodes -> [ComputeKey -> Seq(Message)]]
  /\ packets \in [Nodes -> [PacketKey -> Seq(Int)]]
  /\ apc \in [Nodes -> {"request", "recv", "repair"}]
  /\ ag \in [Nodes -> [round : Int, cur : Int]]
  /\ recvPos \in [Nodes -> Place]
  /\ nbtask \in [Nodes -> SUBSET (Place \X Message)]
  /\ sentTo \in [Nodes -> SUBSET Nodes]
  /\ recvFrom \in [Nodes -> SUBSET Nodes]

(***************************************************************************)
(* An agent that repairs runs the commands planned for it in the current   *)
(* round, each in its place: the reuse of keys and the order in which the  *)
(* senders and the agents run never give it a command of another round,    *)
(* stripe or task.                                                         *)
(***************************************************************************)
RunsThePlan ==
  \A n \in Nodes : apc[n] = "repair" =>
    /\ ag[n].round = round
    /\ nbtask[n] = Work(job, round, n)

(***************************************************************************)
(* When a round ends, nothing of it is left in any list: every agent is    *)
(* idle and what remains would be taken for a command or for data of the   *)
(* next round that uses the same keys.                                     *)
(***************************************************************************)
RoundOver == phase = "end" \/ (phase = "send" /\ \A n \in Nodes : sendPos[n] = Start)

NothingLeftBetweenRounds ==
  RoundOver =>
    /\ \A k \in FinishKey : finish[k] = 0
    /\ \A n \in Nodes :
         /\ apc[n] = "request"
         /\ agRequest[n] = <<>>
         /\ \A k \in CommandKey : command[n][k] = <<>>
         /\ \A k \in ComputeKey : compute[n][k] = <<>>
         /\ \A k \in PacketKey : packets[n][k] = <<>>

(***************************************************************************)
(* The packets an agent finds under the key it waits for are those of its  *)
(* own round, although a fast agent may send before the receiver has even  *)
(* read its request.                                                       *)
(***************************************************************************)
PacketsOfTheRound ==
  \A n, m \in Nodes :
    apc[n] = "repair" /\ <<m, n>> \in Feeds(ag[n].round) /\ m \notin recvFrom[n] =>
      packets[n][<<AgBatch(n), m>>] \in {<<>>, <<ag[n].round>>}

(***************************************************************************)
(* The coordinator and the agents implement the abstract rounds.  A node   *)
(* is running while its agent repairs, and done when the last request it   *)
(* took is that of the current round.                                      *)
(***************************************************************************)
StatusOf(n) ==
  CASE apc[n] = "repair" -> "running"
    [] apc[n] = "request" /\ ag[n].round = round -> "done"
    [] OTHER -> "idle"

Abstract == INSTANCE RepairRounds
  WITH status <- [n \in Nodes |-> StatusOf(n)],
       work <- [n \in Nodes |-> IF apc[n] = "repair" THEN nbtask[n] ELSE {}]

ImplementsRounds == Abstract!Spec

(***************************************************************************)
(* The repair ends: no sender, waiter or agent waits for ever on a list,   *)
(* whichever order the scheduler picks.                                    *)
(***************************************************************************)
EveryRoundEnds == <>(phase = "end")
=============================================================================

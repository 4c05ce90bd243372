---------------------------- MODULE RepairRounds -----------------------------
(***************************************************************************)
(* What the coordinator promises about the rounds of a repair (a round is  *)
(* a batch, or one bandwidth setting of the single-block repair): rounds   *)
(* do not overlap, and in each round every node that has work runs exactly *)
(* the work planned for it, once.                                          *)
(***************************************************************************)
EXTENDS Integers

CONSTANTS Nodes,
          Jobs,                \* the jobs a run may be given
          NumRounds(_),        \* the number of rounds of a job
          Workers(_, _),       \* the nodes with work in a round of a job
          Work(_, _, _)        \* the work of a node in a round of a job

VARIABLES job, round, status, work

vars == <<job, round, status, work>>

Status == {"idle", "running", "done"}

Init ==
  /\ job \in Jobs
  /\ round = 1
  /\ status = [n \in Nodes |-> "idle"]
  /\ work = [n \in Nodes |-> {}]

\* A node starts the work planned for it, and no other.
Run(n) ==
  /\ round <= NumRounds(job)
  /\ n \in Workers(job, round)
  /\ status[n] = "idle"
  /\ status' = [status EXCEPT ![n] = "running"]
  /\ work' = [work EXCEPT ![n] = Work(job, round, n)]
  /\ UNCHANGED <<job, round>>

Finish(n) ==
  /\ status[n] = "running"
  /\ status' = [status EXCEPT ![n] = "done"]
  /\ work' = [work EXCEPT ![n] = {}]
  /\ UNCHANGED <<job, round>>

\* The next round begins when every node with work is done.
NextRound ==
  /\ round <= NumRounds(job)
  /\ \A n \in Workers(job, round) : status[n] = "done"
  /\ round' = round + 1
  /\ status' = [n \in Nodes |-> "idle"]
  /\ UNCHANGED <<job, work>>

Next == NextRound \/ \E n \in Nodes : Run(n) \/ Finish(n)

Spec == Init /\ [][Next]_vars
=============================================================================

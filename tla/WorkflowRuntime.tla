-------------------------- MODULE WorkflowRuntime ---------------------------
(***************************************************************************)
(* One execution of one workflow: the graph executor of edge-core          *)
(* (workflow/runtime.ts) started by the execute route, redelivered by the  *)
(* queue (routes/system-queue.ts), replayed by the recovery sweep and      *)
(* recorded in workflow_executions (phase2.ts, phase2-store.ts). Several   *)
(* runs of the same execution may be alive at once, in several isolates.   *)
(*                                                                         *)
(* Abstractions: nodes have no inputs or outputs, only an order; the graph *)
(* is not edited while the execution is open. The loop of the executor     *)
(* between two awaits is synchronous: no timer of its isolate fires there. *)
(***************************************************************************)
EXTENDS SequencesExt

CONSTANTS
  Nodes, Edges,   \* the graph: edges are <<source, target>>
  Runs,           \* runs of the execution that may be alive at once
  Stores,         \* TRUE: a checkpoint store that outlives a run; FALSE: a Map per run
  MaxCrashes      \* bound, and fairness assumption: isolates die finitely often

ASSUME WorkflowAssumption == /\ IsFiniteSet(Nodes)
                             /\ Edges \subseteq Nodes \X Nodes
                             /\ Stores \subseteq BOOLEAN /\ MaxCrashes \in Nat

VARIABLES
  row,          \* workflow_executions.status, or "deleted"
  workflow,     \* the workflows row is there
  durable,      \* the provider this deployment was built with
  checkpoint,   \* completedNodes of the shared checkpoint
  run,          \* per run: where it is, executed nodes, queue, current node
  ran,          \* history: nodes that some run has executed
  crashes

vars == <<row, workflow, durable, checkpoint, run, ran, crashes>>

Idle == [pc |-> "idle", done |-> {}, queue |-> <<>>, node |-> "none",
         waiting |-> FALSE, outcome |-> "none"]

Sources(n) == {e[1] : e \in {e \in Edges : e[2] = n}}
Targets(n) == {e[2] : e \in {e \in Edges : e[1] = n}}
StartNodes == {n \in Nodes : Sources(n) = {}}

Init == /\ row = "running" /\ workflow = TRUE      \* createExecution
        /\ durable \in Stores
        /\ checkpoint = {} /\ ran = {} /\ crashes = 0
        /\ run = [r \in Runs |-> Idle]

At(r, pc) == run[r].pc = pc

\* completeExecution: only a row that is still running.
Completed(outcome) == IF row = "running" THEN outcome ELSE row

-----------------------------------------------------------------------------
(* Deliveries *)

\* The execute route, a redelivery, or the sweep over rows still running.
Receive(r) ==
  /\ At(r, "idle") /\ row = "running"
  /\ IF workflow
     THEN run' = [run EXCEPT ![r] = [Idle EXCEPT !.pc = "load", !.waiting = TRUE]] /\ UNCHANGED row
     ELSE row' = Completed("error") /\ UNCHANGED run       \* workflow_deleted
  /\ UNCHANGED <<workflow, durable, checkpoint, ran, crashes>>

\* deleteWorkflow: the workflow, then its executions.
DeleteWorkflow ==
  /\ workflow /\ workflow' = FALSE
  /\ UNCHANGED <<row, durable, checkpoint, run, ran, crashes>>

DeleteExecutions ==
  /\ ~workflow /\ row' = "deleted"
  /\ UNCHANGED <<workflow, durable, checkpoint, run, ran, crashes>>

-----------------------------------------------------------------------------
(* coreExecute() *)

Load(r) ==
  /\ At(r, "load")
  /\ run' = [run EXCEPT ![r].pc = "loop", ![r].queue = SetToSeq(StartNodes),
                        ![r].done = IF durable THEN checkpoint ELSE {}]
  /\ UNCHANGED <<row, workflow, durable, checkpoint, ran, crashes>>

\* A node executed before, by this run or by the one that was checkpointed.
TakeDone(r) ==
  /\ At(r, "loop") /\ run[r].queue # <<>> /\ Head(run[r].queue) \in run[r].done
  /\ run' = [run EXCEPT ![r].queue =
                Tail(@) \o SetToSeq(Targets(Head(@)) \ run[r].done)]
  /\ UNCHANGED <<row, workflow, durable, checkpoint, ran, crashes>>

MetAlways(r, n) == TRUE   \* Dependencies are not looked at: not what the code does.

DependenciesMet(r, n) == Sources(n) \subseteq run[r].done

\* Put back at the end of the queue until its predecessors are done.
TakeBlocked(r) ==
  LET q == run[r].queue IN
  /\ At(r, "loop") /\ q # <<>> /\ Head(q) \notin run[r].done /\ ~DependenciesMet(r, Head(q))
  /\ run' = [run EXCEPT ![r].queue = Append(Tail(q), Head(q))]
  /\ UNCHANGED <<row, workflow, durable, checkpoint, ran, crashes>>

TakeReady(r) ==
  LET q == run[r].queue IN
  /\ At(r, "loop") /\ q # <<>> /\ Head(q) \notin run[r].done /\ DependenciesMet(r, Head(q))
  /\ run' = [run EXCEPT ![r].pc = "node", ![r].queue = Tail(q), ![r].node = Head(q)]
  /\ UNCHANGED <<row, workflow, durable, checkpoint, ran, crashes>>

ExecuteNode(r) ==
  /\ At(r, "node")
  /\ run' = [run EXCEPT ![r].pc = "save", ![r].done = @ \cup {run[r].node}]
  /\ ran' = ran \cup {run[r].node}
  /\ UNCHANGED <<row, workflow, durable, checkpoint, crashes>>

SaveCheckpoint(r) ==
  /\ At(r, "save")
  /\ checkpoint' = IF durable THEN run[r].done ELSE checkpoint
  /\ run' = [run EXCEPT ![r].pc = "loop", ![r].node = "none",
               ![r].queue = @ \o SetToSeq(Targets(run[r].node) \ run[r].done)]
  /\ UNCHANGED <<row, workflow, durable, ran, crashes>>

\* The loop goes on after a failed node: not what the code does.
FailNodeQuietly(r) ==
  /\ run[r].pc \in {"node", "save"}
  /\ run' = [run EXCEPT ![r].pc = "loop", ![r].node = "none"]
  /\ UNCHANGED <<row, workflow, durable, checkpoint, ran, crashes>>

\* The executor or the checkpoint store throws; the checkpoint stays.
FailNode(r) ==
  /\ run[r].pc \in {"node", "save"}
  /\ run' = [run EXCEPT ![r].pc = "report", ![r].outcome = "error"]
  /\ UNCHANGED <<row, workflow, durable, checkpoint, ran, crashes>>

Finish(r) ==
  /\ At(r, "loop") /\ run[r].queue = <<>>
  /\ run' = [run EXCEPT ![r].pc = "report", ![r].outcome = "completed"]
  /\ checkpoint' = IF durable THEN {} ELSE checkpoint
  /\ UNCHANGED <<row, workflow, durable, ran, crashes>>

-----------------------------------------------------------------------------
(* runAndRecordAt() *)

\* Promise.race: the row is an error, the core goes on unheard.
TimeOut(r) ==
  /\ run[r].pc \in {"load", "node", "save", "report"} /\ run[r].waiting
  /\ row' = Completed("error")
  /\ run' = [run EXCEPT ![r].waiting = FALSE]
  /\ UNCHANGED <<workflow, durable, checkpoint, ran, crashes>>

\* Only successes are recorded: not what the code does.
ReportSuccess(r) ==
  /\ At(r, "report")
  /\ row' = IF run[r].waiting /\ run[r].outcome = "completed" THEN Completed("completed") ELSE row
  /\ run' = [run EXCEPT ![r] = Idle]
  /\ UNCHANGED <<workflow, durable, checkpoint, ran, crashes>>

Report(r) ==
  /\ At(r, "report")
  /\ row' = IF run[r].waiting THEN Completed(run[r].outcome) ELSE row
  /\ run' = [run EXCEPT ![r] = Idle]
  /\ UNCHANGED <<workflow, durable, checkpoint, ran, crashes>>

\* The isolate is evicted; a Map of its own is gone with it.
Crash(r) ==
  /\ ~At(r, "idle") /\ crashes < MaxCrashes
  /\ crashes' = crashes + 1
  /\ run' = [run EXCEPT ![r] = Idle]
  /\ UNCHANGED <<row, workflow, durable, checkpoint, ran>>

\* What the scheduler of the isolate runs without further input.
Step(r) == \/ Load(r) \/ TakeDone(r) \/ TakeBlocked(r) \/ TakeReady(r)
           \/ ExecuteNode(r) \/ SaveCheckpoint(r) \/ Finish(r) \/ Report(r)

Next == \/ DeleteWorkflow \/ DeleteExecutions
        \/ \E r \in Runs : Receive(r) \/ Step(r) \/ FailNode(r) \/ TimeOut(r) \/ Crash(r)

Fairness == \A r \in Runs : WF_vars(Step(r)) /\ WF_vars(Receive(r))

Spec == Init /\ [][Next]_vars /\ Fairness

-----------------------------------------------------------------------------
(* Properties *)

\* No node of any run starts before all its predecessors have been executed,
\* and no checkpoint holds a node without them: a resumed, redelivered or
\* overtaken run can trust whatever checkpoint it finds.
NodesFollowDependencies ==
  /\ \A r \in Runs : At(r, "node") => Sources(run[r].node) \subseteq run[r].done
  /\ \A n \in checkpoint : Sources(n) \subseteq checkpoint

\* Without a durable checkpoint store a row says completed only when every
\* node of the graph has been executed, whichever runs crashed, failed, timed
\* out or raced on the way.
CompletedMeansAllRan == row = "completed" /\ ~durable => ran = Nodes

\* The same of a run that resumes from the checkpoint of an earlier one:
\* "checkpoint resume skips completed node, runs the rest".
ResumeRunsTheRest == row = "completed" /\ durable => ran = Nodes

\* With a graph without cycles, and without resuming, every execution ends in
\* a result or an error: no crash, failing node, timeout or deletion leaves it
\* running for ever.
EveryExecutionEnds == ~durable ~> row # "running"
=============================================================================

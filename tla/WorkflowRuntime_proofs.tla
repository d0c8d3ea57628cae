----------------------- MODULE WorkflowRuntime_proofs -----------------------
(***************************************************************************)
(* Proofs about the workflow executor, for every graph and any number of   *)
(* runs of one execution that race, fail, time out, crash and resume: no   *)
(* node starts before its predecessors, and without a durable checkpoint   *)
(* "completed" means that the whole graph was executed.                    *)
(*                                                                         *)
(* The argument: what a run has executed is closed under predecessors, and *)
(* so is every checkpoint; and a run loses no node: whatever starts the    *)
(* graph or follows an executed node is executed or in the queue. When the *)
(* queue is empty, what is executed is also closed under successors; in a  *)
(* graph without cycles that is all of it.                                 *)
(***************************************************************************)
EXTENDS WorkflowRuntime, FiniteSetTheorems, SequenceTheorems, TLAPS

-----------------------------------------------------------------------------
(* Queues *)

LEMMA RangeOfEnumeration ==
  ASSUME NEW S, IsFiniteSet(S)
  PROVE  SetToSeq(S) \in Seq(S) /\ Range(SetToSeq(S)) = S
  <1>. DEFINE n == Cardinality(S)
  <1>1. n \in Nat /\ ExistsBijection(1..n, S)
    BY FS_CardinalityType
  <1>2. \E f \in [1..n -> S] : IsInjective(f)
    BY <1>1 DEF ExistsBijection, Bijection, Injection
  <1>3. SetToSeq(S) \in [1..n -> S] /\ IsInjective(SetToSeq(S))
    BY <1>2 DEF SetToSeq
  <1>4. SetToSeq(S) \in Surjection(1..n, S)
    <2>1. SetToSeq(S) \in Injection(1..n, S)
      BY <1>3 DEF Injection
    <2>2. Cardinality(1..n) = n
      BY <1>1, FS_Interval
    <2>. QED  BY <2>1, <2>2, FS_Injection
  <1>. HIDE DEF n
  <1>5. SetToSeq(S) \in Seq(S)
    BY <1>1, <1>3
  <1>6. Range(SetToSeq(S)) = S
    BY <1>3, <1>4 DEF Range, Surjection
  <1>. QED  BY <1>5, <1>6

LEMMA RangeOfQueue ==
  ASSUME NEW S, NEW q \in Seq(S), q # <<>>
  PROVE  /\ Head(q) \in S /\ Tail(q) \in Seq(S)
         /\ Range(q) = {Head(q)} \cup Range(Tail(q))
  <1>1. Head(q) \in S /\ Tail(q) \in Seq(S)
    BY HeadTailProperties
  <1>2. q = <<Head(q)>> \o Tail(q)
    BY <1>1, ConcatProperties, SeqEqual
  <1>3. Range(<<Head(q)>>) = {Head(q)} /\ <<Head(q)>> \in Seq(S)
    BY <1>1 DEF Range
  <1>4. Range(<<Head(q)>> \o Tail(q)) = Range(<<Head(q)>>) \cup Range(Tail(q))
    <2>1. PICK s \in Seq(S), t \in Seq(S) : s = <<Head(q)>> /\ t = Tail(q)
      BY <1>1, <1>3
    <2>2. Range(s \o t) = Range(s) \cup Range(t)
      BY RangeConcatenation
    <2>. QED  BY <2>1, <2>2
  <1>5. Range(q) = Range(<<Head(q)>>) \cup Range(Tail(q))
    BY <1>2, <1>4, Zenon
  <1>. QED  BY <1>1, <1>3, <1>5

LEMMA RangeOfAppend ==
  ASSUME NEW S, NEW q \in Seq(S), NEW x \in S
  PROVE  Append(q, x) \in Seq(S) /\ Range(Append(q, x)) = Range(q) \cup {x}
  <1>1. Append(q, x) = q \o <<x>>
    BY AppendIsConcat
  <1>2. Range(<<x>>) = {x} /\ <<x>> \in Seq(S)
    BY DEF Range
  <1>3. Range(q \o <<x>>) = Range(q) \cup Range(<<x>>)
    BY <1>2, RangeConcatenation, Zenon
  <1>. QED  BY <1>1, <1>2, <1>3

-----------------------------------------------------------------------------
(* The inductive invariant *)

RunPCs == {"idle", "load", "loop", "node", "save", "report"}

RunState == [pc : RunPCs, done : SUBSET Nodes, queue : Seq(Nodes), node : Nodes \cup {"none"},
             waiting : BOOLEAN, outcome : {"none", "error", "completed"}]

\* The nodes a run has still to execute, as far as it knows.
Pending(w) == Range(w.queue) \cup (IF w.pc = "node" THEN {w.node} ELSE {})

\* What a run knows of the graph is closed under predecessors.
RunIsOrdered(w) ==
  /\ \A n \in w.done : Sources(n) \subseteq w.done
  /\ w.pc = "node" => w.node \in Nodes /\ Sources(w.node) \subseteq w.done
  /\ w.pc = "save" => w.node \in w.done

\* Nothing is left of the graph that a node of S or the start leads to.
Exhausted(S) == StartNodes \subseteq S /\ \A m \in S : Targets(m) \subseteq S

\* A run that starts from nothing forgets nothing: whatever starts the graph or
\* follows an executed node is executed or pending.
RunCovers(w) ==
  /\ w.pc \in {"loop", "node", "save"} =>
       /\ StartNodes \subseteq w.done \cup Pending(w)
       /\ \A m \in w.done : (w.pc = "save" /\ w.node = m)
                              \/ Targets(m) \subseteq w.done \cup Pending(w)
  /\ (w.pc = "report" /\ w.outcome = "completed") => Exhausted(w.done)

CheckpointIsOrdered ==
  checkpoint \subseteq Nodes /\ \A n \in checkpoint : Sources(n) \subseteq checkpoint

ResultIsTrue == (row = "completed" /\ ~durable) => \E S \in SUBSET ran : Exhausted(S)

IInv == /\ run \in [Runs -> RunState] /\ ran \subseteq Nodes
        /\ CheckpointIsOrdered
        /\ \A r \in Runs : RunIsOrdered(run[r])
        /\ ~durable => \A r \in Runs : RunCovers(run[r]) /\ run[r].done \subseteq ran
        /\ ResultIsTrue

LEMMA GraphTyped ==
  /\ StartNodes \subseteq Nodes /\ IsFiniteSet(StartNodes)
  /\ \A n \in Nodes : \A S :
       /\ Sources(n) \subseteq Nodes
       /\ Targets(n) \ S \subseteq Nodes /\ IsFiniteSet(Targets(n) \ S)
  <1>1. IsFiniteSet(Nodes)
    BY WorkflowAssumption
  <1>2. StartNodes \subseteq Nodes
    BY DEF StartNodes
  <1>3. ASSUME NEW n \in Nodes, NEW S
        PROVE  Sources(n) \subseteq Nodes /\ Targets(n) \ S \subseteq Nodes
    BY WorkflowAssumption DEF Sources, Targets
  <1>. QED  BY <1>1, <1>2, <1>3, FS_Subset

LEMMA IdleTyped == Idle \in RunState /\ RunIsOrdered(Idle) /\ RunCovers(Idle)
  <1>1. <<>> \in Seq(Nodes)
    OBVIOUS
  <1>. QED  BY <1>1 DEF Idle, RunState, RunPCs, RunIsOrdered, RunCovers

LEMMA InitInv == Init => IInv
  BY IdleTyped DEF Init, IInv, CheckpointIsOrdered, ResultIsTrue, Idle

-----------------------------------------------------------------------------
(* What a step must do to keep the invariant *)

\* The row says completed only as far as it did, or by a run that exhausted the graph.
RowMoves == row' = "completed" => \/ row = "completed"
                                  \/ ~durable => \E S \in SUBSET ran' : Exhausted(S)

\* Run r goes on as w; the rest only grows.
LEMMA RunKeeps ==
  ASSUME IInv, NEW r \in Runs, NEW w \in RunState, run' = [run EXCEPT ![r] = w],
         RunIsOrdered(w), ~durable => RunCovers(w) /\ w.done \subseteq ran',
         ran \subseteq ran', ran' \subseteq Nodes, durable' = durable,
         CheckpointIsOrdered', RowMoves
  PROVE  IInv'
  <1>1. /\ run' \in [Runs -> RunState] /\ run'[r] = w
        /\ \A s \in Runs : s # r => run'[s] = run[s]
    BY DEF IInv
  <1>2. \A s \in Runs : RunIsOrdered(run'[s])
    BY <1>1 DEF IInv
  <1>3. ~durable' => \A s \in Runs : RunCovers(run'[s]) /\ run'[s].done \subseteq ran'
    BY <1>1 DEF IInv
  <1>4. ResultIsTrue'
    BY DEF IInv, ResultIsTrue, RowMoves
  <1>. QED  BY <1>1, <1>2, <1>3, <1>4 DEF IInv

\* The same when no run moves.
LEMMA RowKeeps ==
  ASSUME IInv, UNCHANGED <<run, ran, durable, checkpoint>>, RowMoves
  PROVE  IInv'
  BY DEF IInv, ResultIsTrue, RowMoves, CheckpointIsOrdered

\* A step of run r that leaves everything else alone.
LEMMA LocalKeeps ==
  ASSUME IInv, NEW r \in Runs, NEW w \in RunState, run' = [run EXCEPT ![r] = w],
         UNCHANGED <<ran, durable, checkpoint>>, RowMoves,
         RunIsOrdered(w), ~durable => RunCovers(w) /\ w.done \subseteq ran
  PROVE  IInv'
  <1>1. CheckpointIsOrdered' /\ ran' \subseteq Nodes
    BY DEF IInv, CheckpointIsOrdered
  <1>. QED  BY <1>1, RunKeeps

LEMMA RunTyped ==
  ASSUME IInv, NEW r \in Runs
  PROVE  \E v \in RunState : /\ v = run[r] /\ RunIsOrdered(v)
                             /\ ~durable => RunCovers(v) /\ v.done \subseteq ran
  BY DEF IInv

\* What happens around the loop: everything but the queue of nodes.
LEMMA ReturnKeeps ==
  ASSUME IInv, NEW r \in Runs, run' = [run EXCEPT ![r] = Idle],
         UNCHANGED <<ran, durable, checkpoint>>, RowMoves
  PROVE  IInv'
  <1>1. PICK w \in RunState : w = Idle
    BY IdleTyped
  <1>2. RunIsOrdered(w) /\ RunCovers(w) /\ w.done = {}
    BY <1>1, IdleTyped DEF Idle
  <1>. QED  BY <1>1, <1>2, LocalKeeps

-----------------------------------------------------------------------------
(* One lemma per step of a run *)

LEMMA ReceiveKeeps ==
  ASSUME IInv, NEW r \in Runs, Receive(r)
  PROVE  IInv'
  <1>1. CASE workflow
    <2>1. PICK w \in RunState : w = [Idle EXCEPT !.pc = "load", !.waiting = TRUE]
      BY IdleTyped DEF RunState, RunPCs
    <2>2. RunIsOrdered(w) /\ RunCovers(w) /\ w.done = {}
      BY <2>1 DEF Idle, RunIsOrdered, RunCovers
    <2>. QED  BY <1>1, <2>1, <2>2, LocalKeeps DEF Receive, RowMoves
  <1>2. CASE ~workflow
    BY <1>2, RowKeeps DEF Receive, RowMoves, Completed
  <1>. QED  BY <1>1, <1>2

LEMMA LoadKeeps ==
  ASSUME IInv, NEW r \in Runs, Load(r)
  PROVE  IInv'
  <1>1. PICK v \in RunState : v = run[r]
    BY RunTyped
  <1>2. PICK q \in Seq(Nodes), d \in SUBSET Nodes :
          /\ q = SetToSeq(StartNodes) /\ Range(q) = StartNodes
          /\ d = IF durable THEN checkpoint ELSE {}
    <2>1. SetToSeq(StartNodes) \in Seq(StartNodes) /\ Range(SetToSeq(StartNodes)) = StartNodes
      BY GraphTyped, RangeOfEnumeration
    <2>2. SetToSeq(StartNodes) \in Seq(Nodes)
      BY <2>1, GraphTyped, SeqMonotonic
    <2>3. (IF durable THEN checkpoint ELSE {}) \in SUBSET Nodes
      BY DEF IInv, CheckpointIsOrdered
    <2>. QED  BY <2>1, <2>2, <2>3
  <1>3. PICK w \in RunState : w = [v EXCEPT !.pc = "loop", !.queue = q, !.done = d]
    BY DEF RunState, RunPCs
  <1>4. w.pc = "loop" /\ w.queue = q /\ w.done = d
    BY <1>3 DEF RunState
  <1>5. run' = [run EXCEPT ![r] = w]
    BY <1>1, <1>2, <1>3 DEF Load, IInv
  <1>6. RunIsOrdered(w)
    BY <1>2, <1>4 DEF RunIsOrdered, IInv, CheckpointIsOrdered
  <1>7. ~durable => RunCovers(w) /\ w.done \subseteq ran
    BY <1>2, <1>4 DEF RunCovers, Pending
  <1>. QED  BY <1>5, <1>6, <1>7, LocalKeeps DEF Load, RowMoves

\* The queue loses a node that is done, and gains those that follow it.
LEMMA TakeDoneKeeps ==
  ASSUME IInv, NEW r \in Runs, TakeDone(r)
  PROVE  IInv'
  <1>1. PICK v \in RunState : /\ v = run[r] /\ RunIsOrdered(v)
                              /\ ~durable => RunCovers(v) /\ v.done \subseteq ran
    BY RunTyped
  <1>2. v.pc = "loop" /\ v.queue \in Seq(Nodes) /\ v.queue # <<>> /\ Head(v.queue) \in v.done
        /\ v.done \subseteq Nodes
    BY <1>1 DEF TakeDone, At, RunState
  <1>3. PICK rest \in Seq(Nodes) : rest = Tail(v.queue) /\ Range(v.queue) = {Head(v.queue)} \cup Range(rest)
    BY <1>2, RangeOfQueue
  <1>4. PICK more \in Seq(Nodes) : more = SetToSeq(Targets(Head(v.queue)) \ v.done)
    <2>1. /\ Targets(Head(v.queue)) \ v.done \subseteq Nodes
          /\ IsFiniteSet(Targets(Head(v.queue)) \ v.done)
      BY <1>2, GraphTyped
    <2>. QED  BY <2>1, RangeOfEnumeration, SeqMonotonic
  <1>5. Range(rest \o more) = Range(rest) \cup Range(more) /\ rest \o more \in Seq(Nodes)
    BY RangeConcatenation, ConcatProperties
  <1>6. PICK q \in Seq(Nodes) : q = rest \o more
    BY <1>5
  <1>7. PICK w \in RunState : w = [v EXCEPT !.queue = q]
    BY DEF RunState
  <1>8. w.pc = "loop" /\ w.queue = q /\ w.done = v.done
    BY <1>2, <1>7 DEF RunState
  <1>9. run' = [run EXCEPT ![r] = w]
    BY <1>1, <1>3, <1>4, <1>6, <1>7 DEF TakeDone, IInv
  <1>10. RunIsOrdered(w)
    BY <1>1, <1>8 DEF RunIsOrdered
  <1>11. v.done \cup Pending(v) \subseteq w.done \cup Pending(w)
    BY <1>2, <1>3, <1>5, <1>6, <1>8 DEF Pending
  <1>12. RunCovers(v) => RunCovers(w)
    BY <1>2, <1>8, <1>11 DEF RunCovers
  <1>. QED  BY <1>1, <1>8, <1>9, <1>10, <1>12, LocalKeeps DEF TakeDone, RowMoves

\* The queue is turned.
LEMMA TakeBlockedKeeps ==
  ASSUME IInv, NEW r \in Runs, TakeBlocked(r)
  PROVE  IInv'
  <1>1. PICK v \in RunState : /\ v = run[r] /\ RunIsOrdered(v)
                              /\ ~durable => RunCovers(v) /\ v.done \subseteq ran
    BY RunTyped
  <1>2. v.pc = "loop" /\ v.queue \in Seq(Nodes) /\ v.queue # <<>>
    BY <1>1 DEF TakeBlocked, At, RunState
  <1>3. /\ Head(v.queue) \in Nodes /\ Tail(v.queue) \in Seq(Nodes)
        /\ Range(v.queue) = {Head(v.queue)} \cup Range(Tail(v.queue))
    BY <1>2, RangeOfQueue
  <1>4. PICK q \in Seq(Nodes) : q = Append(Tail(v.queue), Head(v.queue)) /\ Range(q) = Range(v.queue)
    <2>1. PICK h \in Nodes, t \in Seq(Nodes) : h = Head(v.queue) /\ t = Tail(v.queue)
      BY <1>3
    <2>2. Append(t, h) \in Seq(Nodes) /\ Range(Append(t, h)) = Range(t) \cup {h}
      BY RangeOfAppend
    <2>. QED  BY <1>3, <2>1, <2>2
  <1>5. PICK w \in RunState : w = [v EXCEPT !.queue = q]
    BY DEF RunState
  <1>6. w.pc = "loop" /\ w.queue = q /\ w.done = v.done
    BY <1>2, <1>5 DEF RunState
  <1>7. run' = [run EXCEPT ![r] = w]
    BY <1>1, <1>4, <1>5 DEF TakeBlocked, IInv
  <1>8. RunIsOrdered(w) /\ (RunCovers(v) => RunCovers(w))
    BY <1>1, <1>2, <1>4, <1>6 DEF RunIsOrdered, RunCovers, Pending
  <1>. QED  BY <1>1, <1>6, <1>7, <1>8, LocalKeeps DEF TakeBlocked, RowMoves

\* The node taken from the queue is pending until it is executed.
LEMMA TakeReadyKeeps ==
  ASSUME IInv, NEW r \in Runs, TakeReady(r)
  PROVE  IInv'
  <1>1. PICK v \in RunState : /\ v = run[r] /\ RunIsOrdered(v)
                              /\ ~durable => RunCovers(v) /\ v.done \subseteq ran
    BY RunTyped
  <1>2. /\ v.pc = "loop" /\ v.queue \in Seq(Nodes) /\ v.queue # <<>>
        /\ Sources(Head(v.queue)) \subseteq v.done
    BY <1>1 DEF TakeReady, At, RunState, DependenciesMet
  <1>3. /\ Head(v.queue) \in Nodes /\ Tail(v.queue) \in Seq(Nodes)
        /\ Range(v.queue) = {Head(v.queue)} \cup Range(Tail(v.queue))
    BY <1>2, RangeOfQueue
  <1>4. PICK q \in Seq(Nodes), n \in Nodes : q = Tail(v.queue) /\ n = Head(v.queue)
    BY <1>3
  <1>5. PICK w \in RunState : w = [v EXCEPT !.pc = "node", !.queue = q, !.node = n]
    BY DEF RunState, RunPCs
  <1>6. w.pc = "node" /\ w.queue = q /\ w.node = n /\ w.done = v.done
    BY <1>5 DEF RunState
  <1>7. run' = [run EXCEPT ![r] = w]
    BY <1>1, <1>4, <1>5 DEF TakeReady, IInv
  <1>8. Pending(w) = Pending(v)
    BY <1>2, <1>3, <1>4, <1>6 DEF Pending
  <1>9. RunIsOrdered(w) /\ (RunCovers(v) => RunCovers(w))
    BY <1>1, <1>2, <1>4, <1>6, <1>8 DEF RunIsOrdered, RunCovers
  <1>. QED  BY <1>1, <1>6, <1>7, <1>9, LocalKeeps DEF TakeReady, RowMoves

LEMMA ExecuteNodeKeeps ==
  ASSUME IInv, NEW r \in Runs, ExecuteNode(r)
  PROVE  IInv'
  <1>1. PICK v \in RunState : /\ v = run[r] /\ RunIsOrdered(v)
                              /\ ~durable => RunCovers(v) /\ v.done \subseteq ran
    BY RunTyped
  <1>2. v.pc = "node" /\ v.node \in Nodes /\ Sources(v.node) \subseteq v.done
        /\ v.done \subseteq Nodes
    BY <1>1 DEF ExecuteNode, At, RunIsOrdered, RunState
  <1>3. PICK d \in SUBSET Nodes : d = v.done \cup {v.node}
    BY <1>2
  <1>4. PICK w \in RunState : w = [v EXCEPT !.pc = "save", !.done = d]
    BY DEF RunState, RunPCs
  <1>5. w.pc = "save" /\ w.queue = v.queue /\ w.node = v.node /\ w.done = d
    BY <1>4 DEF RunState
  <1>6. run' = [run EXCEPT ![r] = w]
    BY <1>1, <1>3, <1>4 DEF ExecuteNode, IInv
  <1>7. RunIsOrdered(w)
    BY <1>1, <1>2, <1>3, <1>5 DEF RunIsOrdered
  <1>8. w.done \cup Pending(w) = v.done \cup Pending(v)
    BY <1>2, <1>3, <1>5 DEF Pending
  <1>9. RunCovers(v) => RunCovers(w)
    BY <1>2, <1>3, <1>5, <1>8 DEF RunCovers
  <1>10. ran' = ran \cup {v.node} /\ ran' \subseteq Nodes
    BY <1>1, <1>2 DEF ExecuteNode, IInv
  <1>11. CheckpointIsOrdered' /\ durable' = durable /\ RowMoves
    BY DEF ExecuteNode, IInv, CheckpointIsOrdered, RowMoves
  <1>. QED  BY <1>1, <1>3, <1>5, <1>6, <1>7, <1>9, <1>10, <1>11, RunKeeps

\* What the run has executed becomes the checkpoint, and the queue gains the nodes
\* that follow the last one.
LEMMA SaveCheckpointKeeps ==
  ASSUME IInv, NEW r \in Runs, SaveCheckpoint(r)
  PROVE  IInv'
  <1>1. PICK v \in RunState : /\ v = run[r] /\ RunIsOrdered(v)
                              /\ ~durable => RunCovers(v) /\ v.done \subseteq ran
    BY RunTyped
  <1>2. v.pc = "save" /\ v.node \in v.done /\ v.done \subseteq Nodes /\ v.queue \in Seq(Nodes)
    BY <1>1 DEF SaveCheckpoint, At, RunIsOrdered, RunState
  <1>3. PICK more \in Seq(Nodes) : /\ more = SetToSeq(Targets(v.node) \ v.done)
                                   /\ Range(more) = Targets(v.node) \ v.done
    <2>1. Targets(v.node) \ v.done \subseteq Nodes /\ IsFiniteSet(Targets(v.node) \ v.done)
      BY <1>2, GraphTyped
    <2>. QED  BY <2>1, RangeOfEnumeration, SeqMonotonic
  <1>4. PICK old \in Seq(Nodes) : old = v.queue
    BY <1>2
  <1>5. Range(old \o more) = Range(old) \cup Range(more) /\ old \o more \in Seq(Nodes)
    BY RangeConcatenation, ConcatProperties
  <1>6. PICK q \in Seq(Nodes) : q = old \o more
    BY <1>5
  <1>7. PICK w \in RunState : w = [v EXCEPT !.pc = "loop", !.node = "none", !.queue = q]
    BY DEF RunState, RunPCs
  <1>8. w.pc = "loop" /\ w.queue = q /\ w.done = v.done
    BY <1>7 DEF RunState
  <1>9. run' = [run EXCEPT ![r] = w]
    BY <1>1, <1>3, <1>4, <1>6, <1>7 DEF SaveCheckpoint, IInv
  <1>10. RunIsOrdered(w)
    BY <1>1, <1>8 DEF RunIsOrdered
  <1>11. Pending(v) = Range(v.queue) /\ Pending(w) = Range(v.queue) \cup (Targets(v.node) \ v.done)
    BY <1>2, <1>3, <1>4, <1>5, <1>6, <1>8 DEF Pending
  <1>12. RunCovers(v) => RunCovers(w)
    BY <1>2, <1>8, <1>11 DEF RunCovers
  <1>13. CheckpointIsOrdered'
    BY <1>1, <1>2 DEF SaveCheckpoint, RunIsOrdered, IInv, CheckpointIsOrdered
  <1>14. ran' = ran /\ ran \subseteq Nodes /\ durable' = durable /\ RowMoves
    BY DEF SaveCheckpoint, RowMoves, IInv
  <1>. QED  BY <1>1, <1>8, <1>9, <1>10, <1>12, <1>13, <1>14, RunKeeps

LEMMA FailNodeKeeps ==
  ASSUME IInv, NEW r \in Runs, FailNode(r)
  PROVE  IInv'
  <1>1. PICK v \in RunState : /\ v = run[r] /\ RunIsOrdered(v)
                              /\ ~durable => RunCovers(v) /\ v.done \subseteq ran
    BY RunTyped
  <1>2. PICK w \in RunState : w = [v EXCEPT !.pc = "report", !.outcome = "error"]
    BY DEF RunState, RunPCs
  <1>3. w.pc = "report" /\ w.outcome = "error" /\ w.done = v.done
    BY <1>2 DEF RunState
  <1>4. run' = [run EXCEPT ![r] = w]
    BY <1>1, <1>2 DEF FailNode, IInv
  <1>5. RunIsOrdered(w) /\ RunCovers(w)
    BY <1>1, <1>3 DEF RunIsOrdered, RunCovers
  <1>. QED  BY <1>1, <1>3, <1>4, <1>5, LocalKeeps DEF FailNode, RowMoves

\* An empty queue: what is executed is all that can be reached.
LEMMA FinishKeeps ==
  ASSUME IInv, NEW r \in Runs, Finish(r)
  PROVE  IInv'
  <1>1. PICK v \in RunState : /\ v = run[r] /\ RunIsOrdered(v)
                              /\ ~durable => RunCovers(v) /\ v.done \subseteq ran
    BY RunTyped
  <1>2. v.pc = "loop" /\ v.queue = <<>>
    BY <1>1 DEF Finish, At
  <1>3. PICK w \in RunState : w = [v EXCEPT !.pc = "report", !.outcome = "completed"]
    BY DEF RunState, RunPCs
  <1>4. w.pc = "report" /\ w.done = v.done
    BY <1>3 DEF RunState
  <1>5. run' = [run EXCEPT ![r] = w]
    BY <1>1, <1>3 DEF Finish, IInv
  <1>6. RunIsOrdered(w)
    BY <1>1, <1>4 DEF RunIsOrdered
  <1>7. Pending(v) = {}
    BY <1>2 DEF Pending, Range
  <1>8. RunCovers(v) => RunCovers(w)
    BY <1>2, <1>4, <1>7 DEF RunCovers, Exhausted
  <1>9. CheckpointIsOrdered'
    BY DEF Finish, IInv, CheckpointIsOrdered
  <1>10. ran' = ran /\ ran \subseteq Nodes /\ durable' = durable /\ RowMoves
    BY DEF Finish, RowMoves, IInv
  <1>. QED  BY <1>1, <1>4, <1>5, <1>6, <1>8, <1>9, <1>10, RunKeeps

LEMMA TimeOutKeeps ==
  ASSUME IInv, NEW r \in Runs, TimeOut(r)
  PROVE  IInv'
  <1>1. PICK v \in RunState : /\ v = run[r] /\ RunIsOrdered(v)
                              /\ ~durable => RunCovers(v) /\ v.done \subseteq ran
    BY RunTyped
  <1>2. PICK w \in RunState : w = [v EXCEPT !.waiting = FALSE]
    BY DEF RunState
  <1>3. /\ w.pc = v.pc /\ w.done = v.done /\ w.queue = v.queue /\ w.node = v.node
        /\ w.outcome = v.outcome
    BY <1>2 DEF RunState
  <1>4. run' = [run EXCEPT ![r] = w]
    BY <1>1, <1>2 DEF TimeOut, IInv
  <1>5. RunIsOrdered(w) /\ (RunCovers(v) => RunCovers(w))
    BY <1>1, <1>3 DEF RunIsOrdered, RunCovers, Pending
  <1>6. RowMoves
    BY DEF TimeOut, Completed, RowMoves
  <1>. QED  BY <1>1, <1>3, <1>4, <1>5, <1>6, LocalKeeps DEF TimeOut

LEMMA ReportKeeps ==
  ASSUME IInv, NEW r \in Runs, Report(r)
  PROVE  IInv'
  <1>1. PICK v \in RunState : /\ v = run[r] /\ RunIsOrdered(v)
                              /\ ~durable => RunCovers(v) /\ v.done \subseteq ran
    BY RunTyped
  <1>2. v.pc = "report" /\ ran' = ran
    BY <1>1 DEF Report, At
  <1>3. RowMoves
    <2>. SUFFICES ASSUME row' = "completed", row # "completed", ~durable
                  PROVE  \E S \in SUBSET ran' : Exhausted(S)
      BY DEF RowMoves
    <2>1. v.outcome = "completed"
      BY <1>1 DEF Report, Completed
    <2>. QED  BY <1>1, <1>2, <2>1 DEF RunCovers
  <1>. QED  BY <1>3, ReturnKeeps DEF Report

LEMMA NextInv == IInv /\ [Next]_vars => IInv'
  <1>. SUFFICES ASSUME IInv, [Next]_vars PROVE IInv'
    OBVIOUS
  <1>1. CASE UNCHANGED vars
    BY <1>1, RowKeeps DEF vars, RowMoves
  <1>2. CASE DeleteWorkflow
    BY <1>2, RowKeeps DEF DeleteWorkflow, RowMoves
  <1>3. CASE DeleteExecutions
    BY <1>3, RowKeeps DEF DeleteExecutions, RowMoves
  <1>4. ASSUME NEW r \in Runs, Crash(r) PROVE IInv'
    BY <1>4, ReturnKeeps DEF Crash, RowMoves
  <1>5. ASSUME NEW r \in Runs, Step(r) PROVE IInv'
    BY <1>5, LoadKeeps, TakeDoneKeeps, TakeBlockedKeeps, TakeReadyKeeps, ExecuteNodeKeeps,
       SaveCheckpointKeeps, FinishKeeps, ReportKeeps DEF Step
  <1>. QED
    BY <1>1, <1>2, <1>3, <1>4, <1>5, ReceiveKeeps, FailNodeKeeps, TimeOutKeeps DEF Next

LEMMA Invariance == Spec => []IInv
  BY InitInv, NextInv, PTL DEF Spec

-----------------------------------------------------------------------------
(* Theorems *)

\* No node starts before its predecessors have been executed, and every checkpoint
\* can be trusted, in any graph and whichever runs race, crash and resume.
THEOREM DependenciesFirst == Spec => []NodesFollowDependencies
  <1>1. IInv => NodesFollowDependencies
    BY DEF IInv, RunIsOrdered, CheckpointIsOrdered, NodesFollowDependencies, At
  <1>. QED  BY <1>1, Invariance, PTL

\* Every set of nodes has one without a predecessor in the set: what the
\* authoring of a workflow demands of its graph.
Acyclic == \A S \in SUBSET Nodes : S # {} => \E n \in S : Sources(n) \cap S = {}

LEMMA ExhaustedIsAll ==
  ASSUME Acyclic, NEW S \in SUBSET Nodes, Exhausted(S)
  PROVE  S = Nodes
  <1>. SUFFICES ASSUME Nodes \ S # {} PROVE FALSE
    OBVIOUS
  <1>1. PICK n \in Nodes \ S : Sources(n) \cap (Nodes \ S) = {}
    BY DEF Acyclic
  <1>2. Sources(n) \subseteq S
    BY <1>1, GraphTyped
  <1>3. CASE Sources(n) = {}
    BY <1>1, <1>3 DEF StartNodes, Exhausted
  <1>4. ASSUME NEW m \in Sources(n) PROVE FALSE
    <2>1. n \in Targets(m)
      BY <1>1, <1>4 DEF Sources, Targets
    <2>. QED  BY <1>1, <1>2, <1>4, <2>1 DEF Exhausted
  <1>. QED  BY <1>3, <1>4

\* Without a durable checkpoint store "completed" means that every node of the
\* graph, if it has no cycle, has been executed.
THEOREM CompletedRanAll ==
  ASSUME Acyclic
  PROVE  Spec => []CompletedMeansAllRan
  <1>1. IInv => CompletedMeansAllRan
    <2>. SUFFICES ASSUME IInv, row = "completed", ~durable PROVE ran = Nodes
      BY DEF CompletedMeansAllRan
    <2>1. PICK S \in SUBSET ran : Exhausted(S)
      BY DEF IInv, ResultIsTrue
    <2>2. S = Nodes
      BY <2>1, ExhaustedIsAll DEF IInv
    <2>. QED  BY <2>2 DEF IInv
  <1>. QED  BY <1>1, Invariance, PTL
=============================================================================

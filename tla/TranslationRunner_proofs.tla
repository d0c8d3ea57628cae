---------------------- MODULE TranslationRunner_proofs ----------------------
(***************************************************************************)
(* Proofs about translation jobs: their queue (TranslationJobs), what they *)
(* may cost (TranslationAccounting) and the workers that run them          *)
(* (TranslationRunner). Each of the three parts rests on the one before,   *)
(* as its system does: accounts constrain the queue, workers use both. A   *)
(* part uses the assumptions on constants of its own module and of those   *)
(* below it, never of those above.                                         *)
(***************************************************************************)
EXTENDS TranslationRunner, TranslationStore_proofs, FiniteSetTheorems

-----------------------------------------------------------------------------
(***************************************************************************)
(* THE QUEUE                                                               *)
(*                                                                         *)
(* Proofs about the job queue, for any number of jobs, attempts, units and *)
(* clients with any epoch: types, the record of dispatches, that ends are  *)
(* final, the protection of human edits, and that jobs write the ledger in *)
(* fully checked steps only.                                               *)
(*                                                                         *)
(* The argument: the lease version only grows, and by one a lease; a job   *)
(* was dispatched only under versions up to its current one, and under the *)
(* current one exactly when it says so.                                    *)
(***************************************************************************)

(* The inductive invariant of the queue *)

\* What a job row says about its own past.
RowIsTrue(j) ==
  /\ job[j].leaseVersion = job[j].attempt
  /\ IF job[j].status = "absent" THEN job[j] = Absent ELSE job[j].intent \in Intent
  /\ sent[j] \subseteq 1..job[j].leaseVersion
  /\ job[j].dispatched <=> (job[j].status = "leased" /\ job[j].leaseVersion \in sent[j])

\* EveryDispatchAccountedFor, of one job.
DispatchesAccounted(j) ==
  Cardinality(sent[j]) = job[j].uncertain + (IF job[j].dispatched THEN 1 ELSE 0)
                                          + (IF job[j].status = "completed" THEN 1 ELSE 0)

QueueInv == \A j \in Jobs : RowIsTrue(j) /\ DispatchesAccounted(j)

StoreInv == HeadsExist /\ PredecessorsExist /\ HumanEditsStand

JobsInv == JobsTypeOK /\ QueueInv /\ CompletedMeansStored /\ StoreInv

LEMMA JobsInitInv == JobsInit => JobsInv
  <1>. SUFFICES ASSUME JobsInit PROVE JobsInv
    OBVIOUS
  <1>1. JobsTypeOK
    BY JobsAssumption DEF JobsInit, StoreInit, JobsTypeOK, StoreTypeOK, Job, Absent, Statuses, Targets
  <1>2. QueueInv
    BY FS_EmptySet DEF JobsInit, QueueInv, RowIsTrue, DispatchesAccounted, Absent
  <1>3. CompletedMeansStored
    BY DEF JobsInit, CompletedMeansStored, Absent
  <1>4. StoreInv
    BY DEF JobsInit, StoreInit, StoreInv, HeadsExist, PredecessorsExist, HumanEditsStand, Targets
  <1>. QED  BY <1>1, <1>2, <1>3, <1>4 DEF JobsInv

-----------------------------------------------------------------------------
(* One job moves at a time *)

\* What every queue action on j keeps, and what it does not touch.
JobStep(j) ==
  /\ job'  = [job EXCEPT ![j] = job'[j]]
  /\ sent' = [sent EXCEPT ![j] = sent'[j]]
  /\ job'[j] \in Job
  /\ sent'[j] \in SUBSET (1..MaxAttempts)
  /\ RowIsTrue(j)' /\ DispatchesAccounted(j)'
  /\ job[j].status \in Terminal => job'[j] = job[j]
  /\ (job'[j].dispatched /\ ~job[j].dispatched) => job'[j].leaseVersion \notin sent[j]

LEMMA RowTyped ==
  ASSUME JobsInv, NEW j \in Jobs
  PROVE  /\ job[j] \in Job
         /\ sent[j] \in SUBSET (1..MaxAttempts)
         /\ IsFiniteSet(sent[j])
         /\ RowIsTrue(j) /\ DispatchesAccounted(j)
  <1>1. job[j] \in Job /\ sent[j] \in SUBSET (1..MaxAttempts)
    BY DEF JobsInv, JobsTypeOK
  <1>2. MaxAttempts \in Nat
    BY JobsAssumption
  <1>3. IsFiniteSet(1..MaxAttempts)
    BY <1>2, FS_Interval
  <1>4. IsFiniteSet(sent[j])
    BY <1>1, <1>3, FS_Subset
  <1>. QED  BY <1>1, <1>4 DEF JobsInv, QueueInv

LEMMA EnqueueSteps ==
  ASSUME JobsInv, NEW j \in Jobs, EnqueueJob(j)
  PROVE  JobStep(j)
  <1>. DEFINE u == Slot[j][1]  l == Slot[j][2]
              intent == [unit |-> u, locale |-> l, id |-> Slot[j][3], provenance |-> "ai",
                         sourceVersion |-> SourceVersion(u), wording |-> Wording(u),
                         expectedHead |-> head[<<u, l>>]]
  <1>1. u \in Units /\ l \in Locales /\ Slot[j][3] \in Ids
    BY JobsAssumption
  <1>2. StoreTypeOK /\ SourceVersion(u) > 0
    BY DEF EnqueueJob, JobsInv, JobsTypeOK
  <1>3. SourceVersion(u) \in Nat /\ Wording(u) \in Wordings
    BY <1>1, <1>2 DEF StoreTypeOK, SourceVersion, Wording
  <1>4. head[<<u, l>>] \in Ids \cup {NoHead}
    BY <1>1, <1>2 DEF StoreTypeOK, Targets
  <1>5. intent \in Intent
    BY <1>1, <1>3, <1>4 DEF Intent
  <1>6. /\ job[j].status = "absent"
        /\ job' = [job EXCEPT ![j] = [Absent EXCEPT !.status = "queued", !.due = TRUE,
                                                    !.intent = intent]]
        /\ sent' = sent
    BY DEF EnqueueJob
  <1>7. job'[j] = [status |-> "queued", intent |-> intent, leaseVersion |-> 0, attempt |-> 0,
                   due |-> TRUE, dispatched |-> FALSE, uncertain |-> 0, lastError |-> "none"]
    BY <1>6 DEF JobsInv, JobsTypeOK, Absent
  <1>8. job'[j] \in Job
    BY <1>5, <1>7, JobsAssumption DEF Job, Statuses
  <1>9. RowIsTrue(j)' /\ DispatchesAccounted(j)'
    <2>1. job[j] = Absent /\ RowIsTrue(j) /\ DispatchesAccounted(j)
      BY <1>6, RowTyped DEF RowIsTrue
    <2>2. sent[j] = {} /\ Cardinality(sent[j]) = 0
      BY <2>1, FS_EmptySet DEF RowIsTrue, Absent
    <2>3. sent'[j] = {} /\ Cardinality(sent'[j]) = 0
      BY <1>6, <2>2
    <2>. HIDE DEF intent
    <2>4. RowIsTrue(j)'
      BY <1>5, <1>7, <2>3 DEF RowIsTrue
    <2>5. DispatchesAccounted(j)'
      BY <1>7, <2>3 DEF DispatchesAccounted
    <2>. QED  BY <2>4, <2>5
  <1>. HIDE DEF intent
  <1>. QED
    BY <1>6, <1>7, <1>8, <1>9, RowTyped DEF JobStep, Terminal, JobsInv, JobsTypeOK

\* Abandon: the dispatch of a job that moves on without an outcome is uncertain.
LEMMA AbandonKeepsRecord ==
  ASSUME NEW r \in Job
  PROVE  /\ Abandon(r) \in Job
         /\ ~Abandon(r).dispatched
         /\ Abandon(r).uncertain = r.uncertain + (IF r.dispatched THEN 1 ELSE 0)
         /\ Abandon(r).intent = r.intent
         /\ Abandon(r).leaseVersion = r.leaseVersion
         /\ Abandon(r).attempt = r.attempt
  <1>. DEFINE count == IF r.dispatched THEN r.uncertain + 1 ELSE r.uncertain
  <1>1. count \in Nat /\ count = r.uncertain + (IF r.dispatched THEN 1 ELSE 0)
    BY DEF Job
  <1>2. Abandon(r) = [r EXCEPT !.uncertain = count, !.dispatched = FALSE]
    BY DEF Abandon
  <1>. HIDE DEF count
  <1>. QED  BY <1>1, <1>2 DEF Job

\* A job that ends or waits again under the lease it had.
LEMMA MovesOn ==
  ASSUME JobsInv, NEW j \in Jobs, NEW new \in Job,
         job[j].status \in Open, new.status \in {"queued", "failed", "cancelled"},
         new.intent = job[j].intent, new.leaseVersion = job[j].leaseVersion,
         new.attempt = job[j].attempt, ~new.dispatched,
         new.uncertain = job[j].uncertain + (IF job[j].dispatched THEN 1 ELSE 0),
         job' = [job EXCEPT ![j] = new], sent' = sent
  PROVE  JobStep(j)
  <1>1. job'[j] = new /\ sent'[j] = sent[j]
    BY DEF JobsInv, JobsTypeOK
  <1>2. RowIsTrue(j) /\ DispatchesAccounted(j) /\ job[j] \in Job
    BY RowTyped
  <1>3. RowIsTrue(j)'
    BY <1>1, <1>2 DEF RowIsTrue, Open
  <1>4. job[j].status # "completed" /\ new.status # "completed"
    BY DEF Open
  <1>5. DispatchesAccounted(j)'
    <2>1. new.uncertain \in Nat /\ job[j].uncertain \in Nat
      BY <1>2 DEF Job
    <2>. QED  BY <1>1, <1>2, <1>4, <2>1 DEF DispatchesAccounted
  <1>6. job' = [job EXCEPT ![j] = job'[j]] /\ sent' = [sent EXCEPT ![j] = sent'[j]]
    BY <1>1 DEF JobsInv, JobsTypeOK
  <1>7. job[j].status \notin Terminal /\ ~job'[j].dispatched
    BY <1>1 DEF Open, Terminal
  <1>. QED  BY <1>1, <1>3, <1>5, <1>6, <1>7, RowTyped DEF JobStep

LEMMA ExhaustSteps ==
  ASSUME JobsInv, NEW j \in Jobs, ExhaustJob(j)
  PROVE  JobStep(j)
  <1>. DEFINE new == [Abandon(job[j]) EXCEPT !.status = "failed", !.due = FALSE,
                                             !.lastError = "attempt-limit"]
  <1>1. job[j] \in Job /\ Abandon(job[j]) \in Job
    BY RowTyped, AbandonKeepsRecord
  <1>2. /\ job[j].status \in Open
        /\ job' = [job EXCEPT ![j] = new]
        /\ sent' = sent
    BY DEF ExhaustJob, Claimable
  <1>3. new \in Job /\ new.status = "failed" /\ ~new.dispatched
    BY <1>1, AbandonKeepsRecord DEF Job, Statuses, JobErrors
  <1>4. /\ new.intent = job[j].intent /\ new.leaseVersion = job[j].leaseVersion
        /\ new.attempt = job[j].attempt
        /\ new.uncertain = job[j].uncertain + (IF job[j].dispatched THEN 1 ELSE 0)
    BY <1>1, AbandonKeepsRecord DEF Job
  <1>. HIDE DEF new
  <1>. QED  BY <1>2, <1>3, <1>4, MovesOn

LEMMA CancelSteps ==
  ASSUME JobsInv, NEW j \in Jobs, CancelJob(j)
  PROVE  JobStep(j)
  <1>. DEFINE new == [Abandon(job[j]) EXCEPT !.status = "cancelled", !.due = FALSE]
  <1>1. job[j] \in Job /\ Abandon(job[j]) \in Job
    BY RowTyped, AbandonKeepsRecord
  <1>2. /\ job[j].status \in Open
        /\ job' = [job EXCEPT ![j] = new]
        /\ sent' = sent
    BY DEF CancelJob
  <1>3. new \in Job /\ new.status = "cancelled" /\ ~new.dispatched
    BY <1>1, AbandonKeepsRecord DEF Job, Statuses
  <1>4. /\ new.intent = job[j].intent /\ new.leaseVersion = job[j].leaseVersion
        /\ new.attempt = job[j].attempt
        /\ new.uncertain = job[j].uncertain + (IF job[j].dispatched THEN 1 ELSE 0)
    BY <1>1, AbandonKeepsRecord DEF Job
  <1>. HIDE DEF new
  <1>. QED  BY <1>2, <1>3, <1>4, MovesOn

LEMMA FailSteps ==
  ASSUME JobsInv, NEW j \in Jobs, NEW e, NEW code \in FailureCodes,
         NEW retryable \in BOOLEAN, NEW due \in BOOLEAN, FailJob(j, e, code, retryable, due)
  PROVE  JobStep(j)
  <1>. DEFINE again == retryable /\ job[j].attempt < MaxAttempts
              new == [Abandon(job[j]) EXCEPT !.lastError = code,
                        !.status = IF again THEN "queued" ELSE "failed", !.due = again /\ due]
  <1>1. job[j] \in Job /\ Abandon(job[j]) \in Job /\ code \in JobErrors
    BY RowTyped, AbandonKeepsRecord, JobsAssumption
  <1>2. /\ job[j].status \in Open
        /\ job' = [job EXCEPT ![j] = new]
        /\ sent' = sent
    BY DEF FailJob, Live, Open
  <1>3. again \in BOOLEAN
    OBVIOUS
  <1>4. new.status \in {"queued", "failed"} /\ (again /\ due) \in BOOLEAN
    BY <1>1 DEF Job
  <1>5. new \in Job /\ ~new.dispatched
    <2>. HIDE DEF again
    <2>. QED  BY <1>1, <1>3, <1>4, AbandonKeepsRecord DEF Job, Statuses
  <1>6. /\ new.intent = job[j].intent /\ new.leaseVersion = job[j].leaseVersion
        /\ new.attempt = job[j].attempt
        /\ new.uncertain = job[j].uncertain + (IF job[j].dispatched THEN 1 ELSE 0)
    BY <1>1, AbandonKeepsRecord DEF Job
  <1>. HIDE DEF new
  <1>. QED  BY <1>2, <1>4, <1>5, <1>6, MovesOn

LEMMA ElapseSteps ==
  ASSUME JobsInv, NEW j \in Jobs, Elapse(j)
  PROVE  JobStep(j)
  <1>. DEFINE new == [job[j] EXCEPT !.due = TRUE]
  <1>1. job[j] \in Job /\ RowIsTrue(j) /\ DispatchesAccounted(j)
    BY RowTyped
  <1>2. job' = [job EXCEPT ![j] = new] /\ sent' = sent /\ job[j].status \in Open
    BY DEF Elapse
  <1>3. /\ new \in Job
        /\ new.status = job[j].status /\ new.intent = job[j].intent
        /\ new.leaseVersion = job[j].leaseVersion /\ new.attempt = job[j].attempt
        /\ new.dispatched = job[j].dispatched /\ new.uncertain = job[j].uncertain
    BY <1>1 DEF Job
  <1>. HIDE DEF new
  <1>4. job'[j] = new /\ sent'[j] = sent[j]
    BY <1>2 DEF JobsInv, JobsTypeOK
  <1>5. job' = [job EXCEPT ![j] = job'[j]] /\ sent' = [sent EXCEPT ![j] = sent'[j]]
    BY <1>2, <1>4 DEF JobsInv, JobsTypeOK
  <1>6. RowIsTrue(j)'
    BY <1>1, <1>2, <1>3, <1>4 DEF RowIsTrue, Open
  <1>7. DispatchesAccounted(j)'
    BY <1>1, <1>3, <1>4 DEF DispatchesAccounted
  <1>8. job[j].status \notin Terminal
    BY <1>2 DEF Open, Terminal
  <1>. QED  BY <1>3, <1>4, <1>5, <1>6, <1>7, <1>8, RowTyped DEF JobStep

\* A new lease has a version under which the job was never dispatched.
LEMMA LeaseSteps ==
  ASSUME JobsInv, NEW j \in Jobs, LeaseJob(j)
  PROVE  JobStep(j)
  <1>. DEFINE new == Leased(job[j])
  <1>1. /\ job[j] \in Job /\ Abandon(job[j]) \in Job
        /\ RowIsTrue(j) /\ DispatchesAccounted(j) /\ IsFiniteSet(sent[j])
    BY RowTyped, AbandonKeepsRecord
  <1>2. /\ job[j].status \in Open /\ job[j].attempt < MaxAttempts
        /\ job' = [job EXCEPT ![j] = new]
        /\ sent' = sent
    BY DEF LeaseJob, Claimable
  <1>3. /\ new \in Job /\ new.status = "leased" /\ ~new.dispatched
        /\ new.intent = job[j].intent
        /\ new.leaseVersion = job[j].leaseVersion + 1 /\ new.attempt = job[j].attempt + 1
        /\ new.uncertain = job[j].uncertain + (IF job[j].dispatched THEN 1 ELSE 0)
    <2>1. Abandon(job[j]).attempt = job[j].attempt /\ MaxAttempts \in Nat
      BY <1>1, AbandonKeepsRecord, JobsAssumption
    <2>2. Abandon(job[j]).attempt + 1 \in 0..MaxAttempts
      BY <1>1, <1>2, <2>1 DEF Job
    <2>3. job[j].leaseVersion + 1 \in Nat /\ job[j].attempt + 1 \in 0..MaxAttempts
      BY <1>1, <2>1, <2>2 DEF Job
    <2>. QED  BY <1>1, <2>3, AbandonKeepsRecord DEF Leased, Job, Statuses
  <1>. HIDE DEF new
  <1>4. job'[j] = new /\ sent'[j] = sent[j]
    BY <1>2 DEF JobsInv, JobsTypeOK
  <1>5. job' = [job EXCEPT ![j] = job'[j]] /\ sent' = [sent EXCEPT ![j] = sent'[j]]
    BY <1>2, <1>4 DEF JobsInv, JobsTypeOK
  <1>6. job[j].leaseVersion \in Nat
    BY <1>1 DEF Job
  <1>7. RowIsTrue(j)'
    BY <1>1, <1>2, <1>3, <1>4, <1>6 DEF RowIsTrue, Open
  <1>8. DispatchesAccounted(j)'
    <2>1. job[j].status # "completed" /\ job[j].uncertain \in Nat
      BY <1>1, <1>2 DEF Open, Job
    <2>. QED  BY <1>1, <1>3, <1>4, <2>1 DEF DispatchesAccounted
  <1>9. job[j].status \notin Terminal
    BY <1>2 DEF Open, Terminal
  <1>. QED  BY <1>3, <1>4, <1>5, <1>7, <1>8, <1>9, RowTyped DEF JobStep

\* A live lease that has not been dispatched adds its version to the record.
LEMMA DispatchSteps ==
  ASSUME JobsInv, NEW j \in Jobs, NEW e \in 1..MaxAttempts, Live(j, e), ~job[j].dispatched, Dispatch(j)
  PROVE  JobStep(j)
  <1>. DEFINE new == [job[j] EXCEPT !.dispatched = TRUE]
              v   == job[j].leaseVersion
  <1>1. job[j] \in Job /\ RowIsTrue(j) /\ DispatchesAccounted(j) /\ IsFiniteSet(sent[j])
    BY RowTyped
  <1>2. /\ job' = [job EXCEPT ![j] = new] /\ sent' = [sent EXCEPT ![j] = @ \cup {v}]
        /\ job[j].status = "leased"
    BY DEF Dispatch, Live
  <1>3. /\ new \in Job
        /\ new.status = "leased" /\ new.intent = job[j].intent
        /\ new.leaseVersion = v /\ new.attempt = job[j].attempt
        /\ new.dispatched /\ new.uncertain = job[j].uncertain
    BY <1>1, <1>2 DEF Job
  <1>. HIDE DEF new
  <1>4. job'[j] = new /\ sent'[j] = sent[j] \cup {v}
    BY <1>2 DEF JobsInv, JobsTypeOK
  <1>5. job' = [job EXCEPT ![j] = job'[j]] /\ sent' = [sent EXCEPT ![j] = sent'[j]]
    BY <1>2, <1>4 DEF JobsInv, JobsTypeOK
  <1>6. v \notin sent[j]
    BY <1>1, <1>2 DEF RowIsTrue
  <1>7. v \in 1..MaxAttempts /\ v \in Nat
    BY JobsAssumption DEF Live
  <1>8. RowIsTrue(j)'
    BY <1>1, <1>2, <1>3, <1>4, <1>7 DEF RowIsTrue
  <1>9. DispatchesAccounted(j)'
    <2>1. Cardinality(sent'[j]) = Cardinality(sent[j]) + 1
      BY <1>1, <1>4, <1>6, FS_AddElement
    <2>2. job[j].uncertain \in Nat
      BY <1>1 DEF Job
    <2>. QED  BY <1>1, <1>2, <1>3, <1>4, <2>1, <2>2 DEF DispatchesAccounted
  <1>10. job[j].status \notin Terminal /\ sent'[j] \in SUBSET (1..MaxAttempts)
    BY <1>2, <1>4, <1>7, RowTyped DEF Terminal
  <1>. QED  BY <1>3, <1>4, <1>5, <1>6, <1>8, <1>9, <1>10, RowTyped DEF JobStep

LEMMA MarkSteps ==
  ASSUME JobsInv, NEW j \in Jobs, NEW e \in 1..MaxAttempts, MarkJobDispatched(j, e)
  PROVE  JobStep(j)
  <1>1. Live(j, e) /\ ~job[j].dispatched
    BY DEF MarkJobDispatched
  <1>2. CASE ~InputProblem(j)
    BY <1>1, <1>2, DispatchSteps DEF MarkJobDispatched
  <1>3. CASE InputProblem(j)
    <2>. DEFINE new == [job[j] EXCEPT !.status = "failed", !.lastError = ProblemCode(j)]
    <2>1. job[j] \in Job /\ job[j].status \in Open
      BY <1>1, RowTyped DEF Live, Open
    <2>2. job' = [job EXCEPT ![j] = new] /\ sent' = sent
      BY <1>3 DEF MarkJobDispatched
    <2>3. PICK code \in JobErrors : code = ProblemCode(j)
      BY DEF ProblemCode, JobErrors
    <2>4. /\ new \in Job /\ new.status = "failed" /\ ~new.dispatched
          /\ new.intent = job[j].intent /\ new.leaseVersion = job[j].leaseVersion
          /\ new.attempt = job[j].attempt
          /\ new.uncertain = job[j].uncertain + (IF job[j].dispatched THEN 1 ELSE 0)
      <3>1. new = [job[j] EXCEPT !.status = "failed", !.lastError = code]
        BY <2>3
      <3>2. job[j].uncertain \in Nat /\ job[j].uncertain = job[j].uncertain + 0
        BY <2>1 DEF Job
      <3>. HIDE DEF new
      <3>. QED  BY <1>1, <2>1, <3>1, <3>2 DEF Job, Statuses
    <2>. HIDE DEF new
    <2>. QED  BY <2>1, <2>2, <2>4, MovesOn
  <1>. QED  BY <1>2, <1>3

\* A fenced completion turns the pending dispatch into the completing one.
LEMMA CompleteSteps ==
  ASSUME JobsInv, NEW j \in Jobs, NEW e, NEW x \in Texts, Fenced(j, e), Complete(j, x)
  PROVE  JobStep(j)
  <1>. DEFINE new == [job[j] EXCEPT !.status = "completed", !.dispatched = FALSE,
                                    !.lastError = "none"]
  <1>1. /\ job[j] \in Job /\ RowIsTrue(j) /\ DispatchesAccounted(j)
        /\ job[j].status = "leased" /\ job[j].dispatched
    BY RowTyped DEF Fenced, Live
  <1>2. job' = [job EXCEPT ![j] = new] /\ sent' = sent
    BY DEF Complete
  <1>3. /\ new \in Job /\ new.status = "completed" /\ ~new.dispatched
        /\ new.intent = job[j].intent /\ new.leaseVersion = job[j].leaseVersion
        /\ new.attempt = job[j].attempt /\ new.uncertain = job[j].uncertain
    BY <1>1 DEF Job, Statuses
  <1>. HIDE DEF new
  <1>4. job'[j] = new /\ sent'[j] = sent[j]
    BY <1>2 DEF JobsInv, JobsTypeOK
  <1>5. job' = [job EXCEPT ![j] = job'[j]] /\ sent' = [sent EXCEPT ![j] = sent'[j]]
    BY <1>2, <1>4 DEF JobsInv, JobsTypeOK
  <1>6. RowIsTrue(j)'
    BY <1>1, <1>3, <1>4 DEF RowIsTrue
  <1>7. DispatchesAccounted(j)'
    BY <1>1, <1>3, <1>4 DEF DispatchesAccounted, Job
  <1>8. job[j].status \notin Terminal
    BY <1>1 DEF Terminal
  <1>. QED  BY <1>3, <1>4, <1>5, <1>6, <1>7, <1>8, RowTyped DEF JobStep

-----------------------------------------------------------------------------
(* What a step does to the queue and to the store *)

\* The result of a fenced job is a well-formed revision.
LEMMA ResultTyped ==
  ASSUME JobsInv, NEW j \in Jobs, job[j].status # "absent", NEW x \in Texts
  PROVE  Result(j, x) \in Revision
  <1>1. job[j].intent \in Intent
    BY RowTyped DEF RowIsTrue
  <1>. QED  BY <1>1 DEF Intent, Revision, Result, Provenances

Written(rev) == Admissible(rev) /\ ~IdTaken(rev) /\ ApplyRevision(rev)

StoreStep == \/ UNCHANGED storeVars
             \/ \E rev \in Revision : Written(rev)
             \/ \E u \in Units, w \in Wordings :
                  (SourceVersion(u) > 0 => Wording(u) # w) /\ ApplySource(u, w)

\* One job at most moves, the store takes a checked step, and a job that becomes
\* completed has just written its result.
LEMMA JobsSteps ==
  ASSUME JobsInv, [JobsNext]_jobsVars
  PROVE  /\ UNCHANGED jobVars \/ \E j \in Jobs : JobStep(j)
         /\ StoreStep
         /\ \A j \in Jobs : job'[j].status = "completed" =>
              \/ job'[j] = job[j]
              \/ \E x \in Texts : Result(j, x) \in revisions' /\ job'[j].intent = job[j].intent
  <1>. DEFINE Ends(j) == \/ job'[j].status = "completed" => job'[j] = job[j]
                         \/ \E x \in Texts : /\ Result(j, x) \in revisions'
                                             /\ job'[j].intent = job[j].intent
              Goal == /\ UNCHANGED jobVars \/ \E j \in Jobs : JobStep(j)
                      /\ StoreStep
                      /\ \A j \in Jobs : Ends(j)
  <1>typed. job \in [Jobs -> Job]
    BY DEF JobsInv, JobsTypeOK
  <1>quiet. ASSUME NEW j \in Jobs, JobStep(j), UNCHANGED storeVars,
                   job'[j].status # "completed"
            PROVE  Goal
    <2>1. \A k \in Jobs \ {j} : job'[k] = job[k]
      BY <1>quiet, <1>typed DEF JobStep
    <2>. QED  BY <1>quiet, <2>1 DEF StoreStep
  <1>1. ASSUME NEW j \in Jobs, EnqueueJob(j) PROVE Goal
    <2>1. job'[j].status = "queued"
      BY <1>1, <1>typed DEF EnqueueJob, Absent
    <2>. QED  BY <1>1, <2>1, <1>quiet, EnqueueSteps DEF EnqueueJob
  <1>2. ASSUME NEW j \in Jobs, ExhaustJob(j) PROVE Goal
    <2>1. job'[j].status = "failed"
      BY <1>2, <1>typed, AbandonKeepsRecord DEF ExhaustJob, Job
    <2>. QED  BY <1>2, <2>1, <1>quiet, ExhaustSteps DEF ExhaustJob
  <1>3. ASSUME NEW j \in Jobs, LeaseJob(j) PROVE Goal
    <2>1. job'[j].status = "leased"
      BY <1>3, <1>typed, AbandonKeepsRecord DEF LeaseJob, Leased, Job
    <2>. QED  BY <1>3, <2>1, <1>quiet, LeaseSteps DEF LeaseJob
  <1>4. ASSUME NEW j \in Jobs, CancelJob(j) PROVE Goal
    <2>1. job'[j].status = "cancelled"
      BY <1>4, <1>typed, AbandonKeepsRecord DEF CancelJob, Job
    <2>. QED  BY <1>4, <2>1, <1>quiet, CancelSteps DEF CancelJob
  <1>5. ASSUME NEW j \in Jobs, Elapse(j) PROVE Goal
    <2>1. job'[j].status # "completed"
      BY <1>5, <1>typed DEF Elapse, Open, Job
    <2>. QED  BY <1>5, <2>1, <1>quiet, ElapseSteps DEF Elapse
  <1>6. ASSUME NEW j \in Jobs, NEW e \in 1..MaxAttempts, NEW code \in FailureCodes,
               NEW retryable \in BOOLEAN, NEW due \in BOOLEAN, FailJob(j, e, code, retryable, due)
        PROVE  Goal
    <2>1. job'[j].status \in {"queued", "failed"}
      BY <1>6, <1>typed, AbandonKeepsRecord DEF FailJob, Job
    <2>. QED  BY <1>6, <2>1, <1>quiet, FailSteps DEF FailJob
  <1>7. ASSUME NEW j \in Jobs, NEW e \in 1..MaxAttempts, MarkJobDispatched(j, e)
        PROVE  Goal
    <2>1. job'[j].status \in {"failed", "leased"}
      BY <1>7, <1>typed DEF MarkJobDispatched, Dispatch, Live, Job
    <2>. QED  BY <1>7, <2>1, <1>quiet, MarkSteps DEF MarkJobDispatched
  <1>8. ASSUME NEW j \in Jobs, NEW e \in 1..MaxAttempts, NEW x \in Texts, CommitJob(j, e, x)
        PROVE  Goal
    <2>1. JobStep(j)
      BY <1>8, CompleteSteps DEF CommitJob
    <2>2. job[j].status = "leased"
      BY <1>8 DEF CommitJob, Fenced, Live
    <2>3. Result(j, x) \in Revision
      BY <2>2, ResultTyped
    <2>4. Written(Result(j, x)) /\ Result(j, x) \in revisions'
      BY <1>8 DEF CommitJob, Complete, Written, ApplyRevision
    <2>5. job'[j].intent = job[j].intent /\ \A k \in Jobs \ {j} : job'[k] = job[k]
      BY <1>8, <1>typed DEF CommitJob, Complete, Job
    <2>6. StoreStep
      BY <2>3, <2>4 DEF StoreStep
    <2>7. \A k \in Jobs : Ends(k)
      BY <2>4, <2>5
    <2>. HIDE DEF Ends
    <2>. QED  BY <2>1, <2>6, <2>7
  <1>9. ASSUME NEW u \in Units, NEW l \in Locales, NEW id \in EditorIds, NEW offer \in Offers,
               EditorWrite(u, l, id, offer)
        PROVE  Goal
    <2>. DEFINE rev == [unit |-> u, locale |-> l, id |-> id, provenance |-> offer[1],
                        sourceVersion |-> SourceVersion(u), wording |-> Wording(u),
                        expectedHead |-> head[<<u, l>>], text |-> offer[2]]
    <2>1. offer[1] \in Provenances /\ offer[2] \in Texts /\ id \in Ids
      BY JobsAssumption
    <2>2. StoreTypeOK /\ SourceVersion(u) > 0
      BY <1>9 DEF EditorWrite, JobsInv, JobsTypeOK
    <2>3. rev \in Revision
      BY <2>1, <2>2, ComposedTyped
    <2>4. Written(rev) /\ UNCHANGED jobVars
      BY <1>9 DEF EditorWrite, Written
    <2>. HIDE DEF rev
    <2>. QED  BY <2>3, <2>4 DEF StoreStep, jobVars
  <1>10. ASSUME NEW u \in Units, NEW w \in Wordings, SyncSource(u, w) PROVE Goal
    BY <1>10 DEF SyncSource, StoreStep, jobVars
  <1>11. ASSUME UNCHANGED jobsVars PROVE Goal
    BY <1>11 DEF jobsVars, jobVars, StoreStep
  <1>12. Goal
    <2>. HIDE DEF Goal
    <2>1. CASE StoreNext
      BY <1>9, <1>10, <2>1 DEF StoreNext
    <2>2. CASE QueueNext
      <3>1. PICK j \in Jobs :
              \/ EnqueueJob(j) \/ ExhaustJob(j) \/ LeaseJob(j) \/ CancelJob(j) \/ Elapse(j)
              \/ \E e \in 1..MaxAttempts, code \in FailureCodes, retryable, due \in BOOLEAN :
                   FailJob(j, e, code, retryable, due)
              \/ \E e \in 1..MaxAttempts, x \in Texts : CommitJob(j, e, x)
        BY <2>2, Zenon DEF QueueNext
      <3>2. CASE EnqueueJob(j) \/ ExhaustJob(j) \/ LeaseJob(j) \/ CancelJob(j) \/ Elapse(j)
        BY <3>2, <1>1, <1>2, <1>3, <1>4, <1>5
      <3>3. CASE \E e \in 1..MaxAttempts, code \in FailureCodes, retryable, due \in BOOLEAN :
                   FailJob(j, e, code, retryable, due)
        BY <3>3, <1>6, Zenon
      <3>4. CASE \E e \in 1..MaxAttempts, x \in Texts : CommitJob(j, e, x)
        BY <3>4, <1>8
      <3>. QED  BY <3>1, <3>2, <3>3, <3>4
    <2>3. CASE \E j \in Jobs, e \in 1..MaxAttempts : MarkJobDispatched(j, e)
      BY <1>7, <2>3
    <2>. QED  BY <1>11, <2>1, <2>2, <2>3 DEF JobsNext
  <1>. QED  BY <1>12

-----------------------------------------------------------------------------
(* The invariant is kept *)

\* A checked write puts no machine text on a human one, now or later: its id is
\* new, so that no stored revision was put on top of it.
LEMMA HumanEditsKept ==
  ASSUME JobsInv, NEW rev \in Revision, Written(rev)
  PROVE  HumanEditsStand'
  <1>. SUFFICES ASSUME NEW r \in revisions', NEW q \in revisions', r.provenance # "manual",
                       q.unit = r.unit, q.locale = r.locale, q.id = r.expectedHead
                PROVE  q.provenance # "manual"
    BY DEF HumanEditsStand
  <1>1. /\ revisions' = revisions \cup {rev}
        /\ rev.expectedHead = head[<<rev.unit, rev.locale>>]
        /\ ManualHead(rev.unit, rev.locale) => rev.provenance = "manual"
        /\ ~Stored(rev.unit, rev.locale, rev.id)
    BY DEF Written, ApplyRevision, Admissible, MayReplace, IdTaken
  <1>2. /\ HeadsExist /\ PredecessorsExist /\ HumanEditsStand
        /\ rev.unit \in Units /\ rev.locale \in Locales /\ rev.id # NoHead
        /\ \A s \in revisions : s.id # NoHead
    BY StoreAssumption DEF JobsInv, StoreInv, JobsTypeOK, StoreTypeOK, Revision
  <1>3. CASE r = rev /\ q = rev
    BY <1>1, <1>2, <1>3 DEF HeadsExist
  <1>4. CASE r = rev /\ q \in revisions
    BY <1>1, <1>4 DEF ManualHead
  <1>5. CASE r \in revisions /\ q = rev
    BY <1>1, <1>2, <1>5 DEF PredecessorsExist
  <1>6. CASE r \in revisions /\ q \in revisions
    BY <1>2, <1>6 DEF HumanEditsStand
  <1>. QED  BY <1>1, <1>3, <1>4, <1>5, <1>6

LEMMA StoreStepKeeps ==
  ASSUME JobsInv, StoreStep
  PROVE  StoreTypeOK' /\ StoreInv' /\ revisions \subseteq revisions'
  <1>typed. StoreTypeOK /\ HeadsExist /\ PredecessorsExist /\ HumanEditsStand
    BY DEF JobsInv, JobsTypeOK, StoreInv
  <1>1. CASE UNCHANGED storeVars
    BY <1>1, <1>typed DEF storeVars, StoreTypeOK, StoreInv, HeadsExist, PredecessorsExist,
                          HumanEditsStand, Stored
  <1>2. ASSUME NEW rev \in Revision, Written(rev)
        PROVE  StoreTypeOK' /\ StoreInv' /\ revisions \subseteq revisions'
    <2>1. Admissible(rev) /\ ~IdTaken(rev) /\ ApplyRevision(rev)
      BY <1>2 DEF Written
    <2>2. StoreTypeOK'
      BY <2>1, <1>typed, ApplyRevisionTyped
    <2>3. HeadsExist' /\ PredecessorsExist'
      BY <2>1, <1>typed, LinksGrow
    <2>4. HumanEditsStand'
      BY <1>2, HumanEditsKept
    <2>. QED  BY <2>1, <2>2, <2>3, <2>4 DEF StoreInv, ApplyRevision
  <1>3. ASSUME NEW u \in Units, NEW w \in Wordings, ApplySource(u, w)
        PROVE  StoreTypeOK' /\ StoreInv' /\ revisions \subseteq revisions'
    <2>1. StoreTypeOK'
      BY <1>3, <1>typed, ApplySourceTyped
    <2>2. revisions' = revisions /\ head' = head
      BY <1>3 DEF ApplySource
    <2>. QED  BY <2>1, <2>2, <1>typed DEF StoreInv, HeadsExist, PredecessorsExist,
                                         HumanEditsStand, Stored
  <1>. QED  BY <1>1, <1>2, <1>3 DEF StoreStep

LEMMA JobsNextInv == JobsInv /\ [JobsNext]_jobsVars => JobsInv'
  <1>. SUFFICES ASSUME JobsInv, [JobsNext]_jobsVars PROVE JobsInv'
    OBVIOUS
  <1>typed. job \in [Jobs -> Job] /\ sent \in [Jobs -> SUBSET (1..MaxAttempts)]
    BY DEF JobsInv, JobsTypeOK
  <1>1. StoreTypeOK' /\ StoreInv' /\ revisions \subseteq revisions'
    BY JobsSteps, StoreStepKeeps
  <1>2. CASE UNCHANGED jobVars
    <2>1. job' = job /\ sent' = sent
      BY <1>2 DEF jobVars
    <2>2. JobsTypeOK'
      BY <1>1, <1>typed, <2>1 DEF JobsTypeOK
    <2>3. QueueInv'
      BY <2>1 DEF JobsInv, QueueInv, RowIsTrue, DispatchesAccounted
    <2>4. CompletedMeansStored'
      BY <1>1, <2>1 DEF JobsInv, CompletedMeansStored, Result
    <2>. QED  BY <1>1, <2>2, <2>3, <2>4 DEF JobsInv
  <1>3. ASSUME NEW j \in Jobs, JobStep(j) PROVE JobsInv'
    <2>1. \A k \in Jobs \ {j} : job'[k] = job[k] /\ sent'[k] = sent[k]
      BY <1>3, <1>typed DEF JobStep
    <2>2. JobsTypeOK'
      BY <1>1, <1>3, <1>typed DEF JobsTypeOK, JobStep
    <2>3. QueueInv'
      <3>1. ASSUME NEW k \in Jobs \ {j} PROVE (RowIsTrue(k) /\ DispatchesAccounted(k))'
        BY <2>1, RowTyped DEF RowIsTrue, DispatchesAccounted
      <3>2. (RowIsTrue(j) /\ DispatchesAccounted(j))'
        BY <1>3 DEF JobStep
      <3>. QED  BY <3>1, <3>2 DEF QueueInv
    <2>4. CompletedMeansStored'
      <3>. SUFFICES ASSUME NEW k \in Jobs, job'[k].status = "completed"
                    PROVE  \E x \in Texts : Result(k, x)' \in revisions'
        BY DEF CompletedMeansStored
      <3>1. job'[k].intent = job[k].intent => \A x : Result(k, x)' = Result(k, x)
        BY DEF Result
      <3>2. job'[k] = job[k] => \E x \in Texts : Result(k, x) \in revisions
        BY DEF JobsInv, CompletedMeansStored
      <3>. QED  BY <1>1, <3>1, <3>2, JobsSteps
    <2>. QED  BY <1>1, <2>2, <2>3, <2>4 DEF JobsInv
  <1>. QED  BY <1>2, <1>3, JobsSteps

LEMMA JobsInvariance == JobsSpec => []JobsInv
  BY JobsInitInv, JobsNextInv, PTL DEF JobsSpec

-----------------------------------------------------------------------------
(* Theorems *)

\* Every reachable state of queue and store is well-formed.
THEOREM JobsTyped == JobsSpec => []JobsTypeOK
  BY JobsInvariance, PTL DEF JobsInv

\* Each dispatch is on record exactly once, whatever leases, retries, failures and
\* cancellations interleave, for any number of attempts.
THEOREM DispatchesOnRecord == JobsSpec => []EveryDispatchAccountedFor
  <1>1. JobsInv => EveryDispatchAccountedFor
    BY DEF JobsInv, QueueInv, DispatchesAccounted, EveryDispatchAccountedFor
  <1>. QED  BY <1>1, JobsInvariance, PTL

\* A completed job's revision is in the ledger.
THEOREM CompletionsAreStored == JobsSpec => []CompletedMeansStored
  BY JobsInvariance, PTL DEF JobsInv

\* No machine translation or import is ever put on top of a human edit.
THEOREM HumanEditsAreSafe == JobsSpec => []HumanEditsStand
  BY JobsInvariance, PTL DEF JobsInv, StoreInv

LEMMA OneDispatchStep ==
  ASSUME JobsInv, [JobsNext]_jobsVars
  PROVE  [\A j \in Jobs : (job'[j].dispatched /\ ~job[j].dispatched)
                            => job'[j].leaseVersion \notin sent[j]]_jobVars
  <1>1. ASSUME NEW k \in Jobs, JobStep(k), NEW j \in Jobs, job'[j].dispatched, ~job[j].dispatched
        PROVE  job'[j].leaseVersion \notin sent[j]
    BY <1>1 DEF JobStep, JobsInv, JobsTypeOK
  <1>. QED  BY <1>1, JobsSteps

\* Under one lease a job is dispatched at most once, whoever asks and how often.
THEOREM DispatchedOncePerLease == JobsSpec => OneDispatchPerLease
  BY JobsInvariance, OneDispatchStep, PTL DEF JobsSpec, OneDispatchPerLease

LEMMA FinalStep ==
  ASSUME JobsInv, [JobsNext]_jobsVars
  PROVE  [\A j \in Jobs : job[j].status \in Terminal => job'[j] = job[j]]_job
  <1>1. ASSUME NEW k \in Jobs, JobStep(k), NEW j \in Jobs, job[j].status \in Terminal
        PROVE  job'[j] = job[j]
    BY <1>1 DEF JobStep, JobsInv, JobsTypeOK
  <1>. QED  BY <1>1, JobsSteps DEF jobVars

\* A job that has ended never changes again, whatever epoch stale workers use.
THEOREM EndsAreFinal == JobsSpec => TerminalIsFinal
  BY JobsInvariance, FinalStep, PTL DEF JobsSpec, TerminalIsFinal

LEMMA JobsInitRefines == JobsInit => Ledger!Init
  BY DEF JobsInit, StoreInit, Targets, Ledger!Init

LEMMA JobsNextRefines ==
  ASSUME JobsInv, [JobsNext]_jobsVars
  PROVE  [Ledger!Next]_(Ledger!vars)
  <1>1. StoreTypeOK /\ StoreStep
    BY JobsSteps DEF JobsInv, JobsTypeOK
  <1>2. UNCHANGED storeVars => UNCHANGED Ledger!vars
    BY DEF storeVars, Ledger!vars
  <1>3. ASSUME NEW rev \in Revision, Written(rev) PROVE Ledger!Next
    BY <1>1, <1>3, RevisionIsLedgerStep DEF Written
  <1>. QED  BY <1>1, <1>2, <1>3, SourceIsLedgerStep DEF StoreStep

\* Jobs write the ledger in atomic, fully checked steps: a result is stored only
\* if its wording and its head are current at that moment.
THEOREM JobsRefineLedger == JobsSpec => JobsImplementLedger
  BY JobsInvariance, JobsInitRefines, JobsNextRefines, PTL
     DEF JobsSpec, JobsImplementLedger, Ledger!Spec

-----------------------------------------------------------------------------
(***************************************************************************)
(* THE ACCOUNTS                                                            *)
(*                                                                         *)
(* Proofs about cost accounting, for any number of jobs, attempts and      *)
(* allowances, any limits, holds and charges, and clients with any epoch:  *)
(* that no allowance is overdrawn or admits too many calls, that an unknown*)
(* cost blocks the retry, that spent holds are final, and that accounting  *)
(* is a client of the job queue like any other.                            *)
(*                                                                         *)
(* The argument: an attempt exists only under lease versions the job has   *)
(* had, and is spent exactly when the job was dispatched under its lease   *)
(* version; a reservation adds one member, within the limits, to the set   *)
(* an allowance's totals are taken over, and no other step adds a member   *)
(* or raises a cost. The totals are sums over finite sets: what such a sum *)
(* is comes first, by induction on the subsets of the set.                 *)
(***************************************************************************)

(* Sums over finite sets *)

\* Induction on the subsets of a finite set, with the property as a set.
LEMMA SubsetInduction ==
  ASSUME NEW S, IsFiniteSet(S), NEW Good,
         \A T \in SUBSET S : (\A x \in T : T \ {x} \in Good) => T \in Good
  PROVE  \A T \in SUBSET S : T \in Good
  <1>. DEFINE Bad == {T \in SUBSET S : T \notin Good}
  <1>1. IsWellFoundedOn(StrictSubsetOrdering(S), SUBSET S)
    BY FS_StrictSubsetOrderingWellFounded, FS_FiniteSubsetsOfFinite
  <1>2. SUFFICES ASSUME Bad # {} PROVE FALSE
    OBVIOUS
  <1>3. PICK T \in Bad : \A U \in Bad : <<U, T>> \notin StrictSubsetOrdering(S)
    <2>. HIDE DEF Bad
    <2>1. Bad \subseteq SUBSET S
      BY DEF Bad
    <2>. QED  BY <1>1, <1>2, <2>1, WFMin
  <1>4. ASSUME NEW x \in T PROVE T \ {x} \in Good
    <2>1. T \ {x} \in SUBSET S /\ T \ {x} # T
      OBVIOUS
    <2>2. <<T \ {x}, T>> \in StrictSubsetOrdering(S)
      BY <2>1 DEF StrictSubsetOrdering
    <2>. QED  BY <1>3, <2>1, <2>2
  <1>5. T \in SUBSET S /\ T \notin Good
    OBVIOUS
  <1>6. T \in Good
    BY <1>4, <1>5
  <1>. QED  BY <1>5, <1>6

Some(s) == CHOOSE x \in s : TRUE

\* g is the fold of the community modules: of a sum, by its recursion equation.
SumsUp(c, S, g) == g = [s \in SUBSET S |-> IF s = {} THEN 0
                                           ELSE c[Some(s)] + g[s \ {Some(s)}]]

SumOf(c, S) == (CHOOSE g : SumsUp(c, S, g))[S]

LEMMA SomeIsMember == \A s : s # {} => Some(s) \in s
  BY DEF Some

\* The equation has one solution at most ...
LEMMA SumsAgree ==
  ASSUME NEW c, NEW A, IsFiniteSet(A), NEW B, NEW g, NEW h, SumsUp(c, A, g), SumsUp(c, B, h),
         NEW s \in SUBSET A, s \subseteq B
  PROVE  g[s] = h[s]
  <1>. DEFINE Good == {t \in SUBSET A : t \subseteq B => g[t] = h[t]}
  <1>1. ASSUME NEW T \in SUBSET A, \A x \in T : T \ {x} \in Good
        PROVE  T \in Good
    <2>. SUFFICES ASSUME T \subseteq B PROVE g[T] = h[T]
      OBVIOUS
    <2>1. /\ g[T] = IF T = {} THEN 0 ELSE c[Some(T)] + g[T \ {Some(T)}]
          /\ h[T] = IF T = {} THEN 0 ELSE c[Some(T)] + h[T \ {Some(T)}]
      BY DEF SumsUp
    <2>2. CASE T = {}
      BY <2>1, <2>2
    <2>3. CASE T # {}
      <3>1. T \ {Some(T)} \in Good
        BY <1>1, <2>3, SomeIsMember
      <3>. QED  BY <2>1, <2>3, <3>1
    <2>. QED  BY <2>2, <2>3
  <1>. HIDE DEF Good
  <1>2. s \in Good
    BY <1>1, SubsetInduction
  <1>. QED  BY <1>2 DEF Good

\* ... and one at least.
LEMMA SumsExist ==
  ASSUME NEW c, NEW S, IsFiniteSet(S)
  PROVE  \E g : SumsUp(c, S, g)
  <1>. DEFINE Good == {t \in SUBSET S : \A u \in SUBSET t : \E g : SumsUp(c, u, g)}
              G(u) == CHOOSE g : SumsUp(c, u, g)
  <1>1. ASSUME NEW T \in SUBSET S, \A x \in T : T \ {x} \in Good
        PROVE  T \in Good
    <2>0. ASSUME NEW u \in SUBSET T, u # T PROVE SumsUp(c, u, G(u)) /\ IsFiniteSet(u)
      <3>1. PICK x \in T : x \notin u
        BY <2>0
      <3>2. u \in SUBSET (T \ {x}) /\ T \ {x} \in Good
        BY <1>1, <3>1
      <3>3. \E g : SumsUp(c, u, g)
        BY <3>2
      <3>4. IsFiniteSet(u)
        BY FS_Subset
      <3>. QED  BY <3>3, <3>4
    <2>. DEFINE h == [s \in SUBSET T |-> IF s = {} THEN 0
                                         ELSE c[Some(s)] + G(s \ {Some(s)})[s \ {Some(s)}]]
    <2>1. ASSUME NEW u \in SUBSET T, u # T PROVE h[u] = G(u)[u]
      <3>. DEFINE w == u \ {Some(u)}
      <3>1. G(u)[u] = IF u = {} THEN 0 ELSE c[Some(u)] + G(u)[w]
        <4>. HIDE DEF G
        <4>. QED  BY <2>0, <2>1 DEF SumsUp
      <3>2. h[u] = IF u = {} THEN 0 ELSE c[Some(u)] + G(w)[w]
        OBVIOUS
      <3>3. ASSUME u # {} PROVE G(u)[w] = G(w)[w]
        <4>1. w \in SUBSET u /\ w \in SUBSET T /\ w # T
          BY <2>1
        <4>2. SumsUp(c, u, G(u)) /\ SumsUp(c, w, G(w)) /\ IsFiniteSet(u) /\ IsFiniteSet(w)
          BY <2>0, <2>1, <4>1
        <4>. HIDE DEF G, w
        <4>. QED  BY <4>1, <4>2, SumsAgree
      <3>. HIDE DEF G, h, w
      <3>. QED  BY <3>1, <3>2, <3>3
    <2>2. SumsUp(c, T, h)
      <3>1. ASSUME NEW s \in SUBSET T, s # {}
            PROVE  h[s] = c[Some(s)] + h[s \ {Some(s)}]
        <4>1. Some(s) \in s
          BY <3>1, SomeIsMember
        <4>2. s \ {Some(s)} \in SUBSET T /\ s \ {Some(s)} # T
          BY <4>1
        <4>3. h[s] = c[Some(s)] + G(s \ {Some(s)})[s \ {Some(s)}]
          BY <3>1
        <4>. HIDE DEF h, G
        <4>. QED  BY <2>1, <4>2, <4>3
      <3>2. h[{}] = 0
        OBVIOUS
      <3>3. h = [s \in SUBSET T |-> h[s]]
        OBVIOUS
      <3>. HIDE DEF h
      <3>. QED  BY <3>1, <3>2, <3>3 DEF SumsUp
    <2>. HIDE DEF G, h
    <2>3. ASSUME NEW u \in SUBSET T PROVE \E g : SumsUp(c, u, g)
      BY <2>0, <2>2
    <2>. QED  BY <2>3
  <1>. HIDE DEF Good
  <1>2. S \in Good
    BY <1>1, SubsetInduction
  <1>. QED  BY <1>2 DEF Good

LEMMA SumOfSums ==
  ASSUME NEW c, NEW S, IsFiniteSet(S)
  PROVE  \E g : SumsUp(c, S, g) /\ SumOf(c, S) = g[S]
  BY SumsExist DEF SumOf

LEMMA SumOfNothing == \A c : SumOf(c, {}) = 0
  <1>. SUFFICES ASSUME NEW c PROVE SumOf(c, {}) = 0
    OBVIOUS
  <1>1. PICK g : SumsUp(c, {}, g) /\ SumOf(c, {}) = g[{}]
    BY SumOfSums, FS_EmptySet
  <1>. QED  BY <1>1 DEF SumsUp

LEMMA SumOfSome ==
  ASSUME NEW c, NEW S, IsFiniteSet(S), S # {}
  PROVE  SumOf(c, S) = c[Some(S)] + SumOf(c, S \ {Some(S)})
  <1>. DEFINE T == S \ {Some(S)}
  <1>1. IsFiniteSet(T)
    BY FS_Subset
  <1>2. PICK g : SumsUp(c, S, g) /\ SumOf(c, S) = g[S]
    BY SumOfSums
  <1>3. PICK h : SumsUp(c, T, h) /\ SumOf(c, T) = h[T]
    BY <1>1, SumOfSums
  <1>4. g[S] = c[Some(S)] + g[T]
    BY <1>2 DEF SumsUp
  <1>5. g[T] = h[T]
    BY <1>1, <1>2, <1>3, SumsAgree
  <1>. QED  BY <1>2, <1>3, <1>4, <1>5

LEMMA SumOfNat ==
  ASSUME NEW S, IsFiniteSet(S), NEW c, \A k \in S : c[k] \in Nat
  PROVE  \A T \in SUBSET S : SumOf(c, T) \in Nat
  <1>. DEFINE Good == {T \in SUBSET S : SumOf(c, T) \in Nat}
  <1>1. ASSUME NEW T \in SUBSET S, \A x \in T : T \ {x} \in Good
        PROVE  T \in Good
    <2>1. CASE T = {}
      BY <2>1, SumOfNothing
    <2>2. CASE T # {}
      <3>1. Some(T) \in T /\ IsFiniteSet(T)
        BY <2>2, SomeIsMember, FS_Subset
      <3>2. SumOf(c, T \ {Some(T)}) \in Nat /\ c[Some(T)] \in Nat
        BY <1>1, <3>1
      <3>. QED  BY <2>2, <3>1, <3>2, SumOfSome
    <2>. QED  BY <2>1, <2>2
  <1>. HIDE DEF Good
  <1>2. \A T \in SUBSET S : T \in Good
    BY <1>1, SubsetInduction
  <1>. QED  BY <1>2 DEF Good

\* A sum does not depend on the order: any member can be taken out of it.
LEMMA SumOfMember ==
  ASSUME NEW S, IsFiniteSet(S), NEW c, \A k \in S : c[k] \in Nat
  PROVE  \A k \in S : SumOf(c, S) = c[k] + SumOf(c, S \ {k})
  <1>. DEFINE Takes(T) == \A k \in T : SumOf(c, T) = c[k] + SumOf(c, T \ {k})
              Good     == {T \in SUBSET S : Takes(T)}
  <1>1. ASSUME NEW T \in SUBSET S, \A x \in T : T \ {x} \in Good
        PROVE  Takes(T)
    <2>. SUFFICES ASSUME NEW k \in T PROVE SumOf(c, T) = c[k] + SumOf(c, T \ {k})
      OBVIOUS
    <2>. DEFINE x == Some(T)
    <2>1. x \in T /\ IsFiniteSet(T)
      BY SomeIsMember, FS_Subset
    <2>2. SumOf(c, T) = c[x] + SumOf(c, T \ {x})
      BY <2>1, SumOfSome
    <2>. HIDE DEF x
    <2>3. CASE k = x
      BY <2>2, <2>3
    <2>4. CASE k # x
      <3>. DEFINE U == T \ {x, k}
      <3>1. SumOf(c, T \ {x}) = c[k] + SumOf(c, U)
        <4>1. Takes(T \ {x}) /\ k \in T \ {x} /\ (T \ {x}) \ {k} = U
          BY <1>1, <2>1, <2>4
        <4>. QED  BY <4>1
      <3>2. SumOf(c, T \ {k}) = c[x] + SumOf(c, U)
        <4>1. Takes(T \ {k}) /\ x \in T \ {k} /\ (T \ {k}) \ {x} = U
          BY <1>1, <2>1, <2>4
        <4>. QED  BY <4>1
      <3>3. c[k] \in Nat /\ c[x] \in Nat /\ SumOf(c, U) \in Nat
        BY <2>1, SumOfNat
      <3>. QED  BY <2>2, <3>1, <3>2, <3>3
    <2>. QED  BY <2>3, <2>4
  <1>2. ASSUME NEW T \in SUBSET S, \A x \in T : T \ {x} \in Good
        PROVE  T \in Good
    BY <1>1, <1>2
  <1>. HIDE DEF Good
  <1>3. \A T \in SUBSET S : T \in Good
    BY <1>2, SubsetInduction
  <1>4. S \in Good
    BY <1>3
  <1>. QED  BY <1>4 DEF Good

\* A sum over less, of less, is at most as large.
LEMMA SumOfLess ==
  ASSUME NEW S, IsFiniteSet(S), NEW c, \A k \in S : c[k] \in Nat,
         NEW d, \A k \in S : d[k] \in Nat /\ d[k] <= c[k]
  PROVE  SumOf(d, S) <= SumOf(c, S)
  <1>. DEFINE Good == {T \in SUBSET S : SumOf(d, T) <= SumOf(c, T)}
  <1>1. ASSUME NEW T \in SUBSET S, \A x \in T : T \ {x} \in Good
        PROVE  T \in Good
    <2>1. CASE T = {}
      BY <2>1, SumOfNothing
    <2>2. CASE T # {}
      <3>. DEFINE x == Some(T)
      <3>1. x \in T /\ IsFiniteSet(T)
        BY <2>2, SomeIsMember, FS_Subset
      <3>2. SumOf(c, T) = c[x] + SumOf(c, T \ {x}) /\ SumOf(d, T) = d[x] + SumOf(d, T \ {x})
        BY <2>2, <3>1, SumOfSome
      <3>. HIDE DEF x
      <3>3. SumOf(d, T \ {x}) <= SumOf(c, T \ {x})
        BY <1>1, <3>1
      <3>4. SumOf(c, T \ {x}) \in Nat /\ SumOf(d, T \ {x}) \in Nat
        BY SumOfNat
      <3>5. c[x] \in Nat /\ d[x] \in Nat /\ d[x] <= c[x]
        BY <3>1
      <3>. QED  BY <3>2, <3>3, <3>4, <3>5
    <2>. QED  BY <2>1, <2>2
  <1>. HIDE DEF Good
  <1>2. \A T \in SUBSET S : T \in Good
    BY <1>1, SubsetInduction
  <1>3. S \in Good
    BY <1>2
  <1>. QED  BY <1>3 DEF Good


\* ... and a sum over fewer.
LEMMA SumOfFewer ==
  ASSUME NEW S, IsFiniteSet(S), NEW c, \A k \in S : c[k] \in Nat, NEW T \in SUBSET S
  PROVE  SumOf(c, T) <= SumOf(c, S)
  <1>. DEFINE Good == {U \in SUBSET S : T \subseteq U => SumOf(c, T) <= SumOf(c, U)}
  <1>0. \A U \in SUBSET S : SumOf(c, U) \in Nat
    BY SumOfNat
  <1>1. ASSUME NEW U \in SUBSET S, \A x \in U : U \ {x} \in Good
        PROVE  U \in Good
    <2>. SUFFICES ASSUME T \subseteq U PROVE SumOf(c, T) <= SumOf(c, U)
      OBVIOUS
    <2>1. CASE T = U
      BY <1>0, <2>1
    <2>2. CASE T # U
      <3>1. PICK x \in U : x \notin T
        BY <2>2
      <3>2. SumOf(c, T) <= SumOf(c, U \ {x})
        BY <1>1, <3>1
      <3>3. IsFiniteSet(U) /\ \A k \in U : c[k] \in Nat
        BY FS_Subset
      <3>4. SumOf(c, U) = c[x] + SumOf(c, U \ {x}) /\ c[x] \in Nat
        BY <3>1, <3>3, SumOfMember
      <3>5. SumOf(c, T) \in Nat /\ SumOf(c, U \ {x}) \in Nat
        BY <1>0
      <3>. QED  BY <3>2, <3>4, <3>5
    <2>. QED  BY <2>1, <2>2
  <1>. HIDE DEF Good
  <1>2. \A U \in SUBSET S : U \in Good
    BY <1>1, SubsetInduction
  <1>3. S \in Good
    BY <1>2
  <1>. QED  BY <1>3 DEF Good

LEMMA KeysFinite == IsFiniteSet(Keys)
  <1>1. MaxAttempts \in Nat /\ IsFiniteSet(Jobs)
    BY JobsAssumption, AccountingAssumption
  <1>2. IsFiniteSet(1..MaxAttempts)
    BY <1>1, FS_Interval
  <1>. QED  BY <1>1, <1>2, FS_Product DEF Keys

Costs == [k \in Keys |-> Cost(k)]

\* What an allowance has used is the sum of the costs of its attempts.
UsedIsTheSum == \A a : Used(a) = SumOf(Costs, Charged(a))

LEMMA UsedIsSum == UsedIsTheSum
  <1>. SUFFICES ASSUME NEW a PROVE Used(a) = SumOf(Costs, Charged(a))
    BY DEF UsedIsTheSum
  <1>. DEFINE S == Charged(a)
              Fold(g) == g = [s \in SUBSET S |->
                               IF s = {} THEN 0
                               ELSE Cost(CHOOSE x \in s : TRUE)
                                      + g[s \ {CHOOSE x \in s : TRUE}]]
  <1>1. S \subseteq Keys /\ IsFiniteSet(S)
    BY KeysFinite, FS_Subset DEF Charged
  <1>2. Used(a) = (CHOOSE g : Fold(g))[S]
    BY DEF Used, MapThenSumSet, MapThenFoldSet
  <1>3. ASSUME NEW g PROVE Fold(g) <=> SumsUp(Costs, S, g)
    <2>1. \A s \in SUBSET S : s # {} => Costs[Some(s)] = Cost(Some(s))
      BY <1>1, SomeIsMember DEF Costs
    <2>. QED  BY <2>1 DEF SumsUp, Some
  <1>. HIDE DEF Fold, S
  <1>4. PICK g : SumsUp(Costs, S, g)
    BY <1>1, SumsExist
  <1>5. SumsUp(Costs, S, CHOOSE h : Fold(h))
    BY <1>3, <1>4
  <1>6. PICK f : SumsUp(Costs, S, f) /\ SumOf(Costs, S) = f[S]
    BY <1>1, SumOfSums
  <1>. QED  BY <1>1, <1>2, <1>5, <1>6, SumsAgree DEF S

-----------------------------------------------------------------------------
(* The inductive invariant of the accounts *)

\* What an attempt row says about its job and its own past.
AttemptsAgree ==
  \A j \in Jobs, e \in 1..MaxAttempts :
    /\ attempt[<<j, e>>].state # "none" => e <= job[j].leaseVersion
    /\ attempt[<<j, e>>].state \in Spent <=> e \in sent[j]
    /\ attempt[<<j, e>>].state = "settled" => attempt[<<j, e>>].charged \in Nat

AccountsInv == /\ JobsInv
               /\ AccountingTypeOK
               /\ AttemptsAgree
               /\ UnknownBlocksRetry
               /\ WithinCounts
               /\ WithinLimit

LEMMA KeyOf == \A j \in Jobs, e \in 1..MaxAttempts : <<j, e>> \in Keys
  BY DEF Keys

CostsTyped == \A k \in Keys : Cost(k) \in Nat /\ Costs[k] = Cost(k)

LEMMA CostTyped == AccountingTypeOK /\ AttemptsAgree => CostsTyped
  <1>. SUFFICES ASSUME AccountingTypeOK, AttemptsAgree, NEW k \in Keys
                PROVE  Cost(k) \in Nat /\ Costs[k] = Cost(k)
    BY DEF CostsTyped
  <1>1. PICK j \in Jobs, e \in 1..MaxAttempts : k = <<j, e>>
    BY DEF Keys
  <1>2. attempt[k] \in Attempt /\ (attempt[k].state = "settled" => attempt[k].charged \in Nat)
    BY <1>1 DEF AccountingTypeOK, AttemptsAgree
  <1>. QED  BY <1>2 DEF Cost, Costs, Attempt

LEMMA ChargedFinite ==
  ASSUME NEW a
  PROVE  /\ IsFiniteSet(Charged(a)) /\ Charged(a) \subseteq Keys
         /\ IsFiniteSet({k \in Charged(a) : attempt[k].state # "settled"})
         /\ Requests(a) \in Nat /\ Concurrent(a) \in Nat
  <1>1. Charged(a) \subseteq Keys
    BY DEF Charged
  <1>2. IsFiniteSet(Charged(a))
    BY <1>1, KeysFinite, FS_Subset
  <1>3. IsFiniteSet({k \in Charged(a) : attempt[k].state # "settled"})
    BY <1>2, FS_Subset
  <1>. QED  BY <1>1, <1>2, <1>3, FS_CardinalityType DEF Requests, Concurrent

LEMMA UsedTyped ==
  ASSUME AccountingTypeOK, AttemptsAgree, NEW a
  PROVE  Used(a) \in Nat
  <1>1. \A k \in Charged(a) : Costs[k] \in Nat
    BY ChargedFinite, CostTyped DEF CostsTyped
  <1>. QED  BY <1>1, ChargedFinite, UsedIsSum, SumOfNat DEF UsedIsTheSum

LEMMA AccountsInitInv == AccountingInit => AccountsInv
  <1>. SUFFICES ASSUME AccountingInit PROVE AccountsInv
    OBVIOUS
  <1>1. JobsInv
    BY JobsInitInv DEF AccountingInit
  <1>2. AccountingTypeOK
    BY <1>1 DEF AccountingInit, AccountingTypeOK, JobsInv, NoAttempt, Attempt, AttemptStates
  <1>3. \A k \in Keys : attempt[k] = NoAttempt
    BY DEF AccountingInit
  <1>4. AttemptsAgree
    BY <1>3, KeyOf DEF AccountingInit, JobsInit, AttemptsAgree, NoAttempt, Spent
  <1>5. UnknownBlocksRetry
    BY <1>3, KeyOf DEF UnknownBlocksRetry, NoAttempt
  <1>6. ASSUME NEW a \in Allowances
        PROVE  Requests(a) = 0 /\ Concurrent(a) = 0 /\ Used(a) = 0
    <2>1. Charged(a) = {} /\ {k \in Charged(a) : attempt[k].state # "settled"} = {}
      BY <1>3 DEF Charged, NoAttempt
    <2>. QED  BY <2>1, FS_EmptySet, UsedIsSum, SumOfNothing DEF UsedIsTheSum, Requests, Concurrent
  <1>7. WithinCounts /\ WithinLimit
    BY <1>6, AccountingAssumption DEF WithinCounts, WithinLimit
  <1>. QED  BY <1>1, <1>2, <1>4, <1>5, <1>7 DEF AccountsInv

-----------------------------------------------------------------------------
(* Accounting is a client of the queue *)

LEMMA AccountingIsJobsStep == [AccountingNext]_accountingVars => [JobsNext]_jobsVars
  <1>1. ASSUME NEW j \in Jobs, NEW e \in 1..MaxAttempts, DispatchAttempt(j, e)
        PROVE  JobsNext
    BY <1>1 DEF DispatchAttempt, MayDispatch, MarkJobDispatched, JobsNext
  <1>2. ASSUME AccountNext PROVE [JobsNext]_jobsVars
    BY <1>1, <1>2 DEF AccountNext, CreateAllowance, ReserveAttempt, SettleAttempt, ReleaseAttempt
  <1>3. (StoreNext \/ QueueNext) => JobsNext
    BY DEF JobsNext
  <1>. QED  BY <1>2, <1>3 DEF AccountingNext, accountingVars

\* What no queue transaction takes back.
RowGrows(j) ==
  /\ sent[j] \subseteq sent'[j]
  /\ job[j].leaseVersion <= job'[j].leaseVersion
  /\ job[j].status # "absent" => job'[j].status # "absent" /\ job'[j].intent = job[j].intent

LEMMA RowsGrow ==
  ASSUME JobsInv, [JobsNext]_jobsVars
  PROVE  /\ \A j \in Jobs : RowGrows(j)
         /\ (StoreNext \/ QueueNext) => sent' = sent
  <1>. DEFINE Goal == \A j \in Jobs : RowGrows(j)
  <1>typed. job \in [Jobs -> Job] /\ sent \in [Jobs -> SUBSET (1..MaxAttempts)]
    BY DEF JobsInv, JobsTypeOK
  <1>one. ASSUME NEW j \in Jobs, NEW r,
                 job' = [job EXCEPT ![j] = r], sent' = sent,
                 job[j].leaseVersion <= r.leaseVersion,
                 job[j].status # "absent" => r.status # "absent" /\ r.intent = job[j].intent
          PROVE  Goal
    <2>1. \A k \in Jobs : job[k].leaseVersion <= job[k].leaseVersion
      BY <1>typed DEF Job
    <2>. QED  BY <1>one, <1>typed, <2>1 DEF RowGrows
  <1>same. ASSUME UNCHANGED jobVars PROVE Goal
    BY <1>same, <1>typed DEF jobVars, RowGrows, Job
  <1>row. ASSUME NEW j \in Jobs
          PROVE  /\ job[j] \in Job /\ job[j].leaseVersion <= job[j].leaseVersion
                 /\ job[j].status = "absent" => job[j].leaseVersion = 0
    BY <1>typed, RowTyped DEF Job, RowIsTrue, Absent
  <1>1. ASSUME NEW j \in Jobs, EnqueueJob(j) PROVE Goal
    <2>. DEFINE u == Slot[j][1]  l == Slot[j][2]
                r == [Absent EXCEPT !.status = "queued", !.due = TRUE, !.intent =
                        [unit |-> u, locale |-> l, id |-> Slot[j][3], provenance |-> "ai",
                         sourceVersion |-> SourceVersion(u), wording |-> Wording(u),
                         expectedHead |-> head[<<u, l>>]]]
    <2>1. job' = [job EXCEPT ![j] = r] /\ sent' = sent
      BY <1>1 DEF EnqueueJob
    <2>2. job[j].leaseVersion = 0 /\ job[j].status = "absent"
      BY <1>1, <1>row DEF EnqueueJob
    <2>3. job[j].leaseVersion <= r.leaseVersion
      BY <2>2 DEF Absent
    <2>. HIDE DEF Goal, r
    <2>. QED  BY <1>one, <2>1, <2>2, <2>3
  <1>2. ASSUME NEW j \in Jobs, ExhaustJob(j) PROVE Goal
    <2>. DEFINE r == [Abandon(job[j]) EXCEPT !.status = "failed", !.due = FALSE, !.lastError = "attempt-limit"]
    <2>1. job' = [job EXCEPT ![j] = r] /\ sent' = sent
      BY <1>2 DEF ExhaustJob
    <2>2. /\ r.status # "absent" /\ r.intent = job[j].intent
          /\ r.leaseVersion = job[j].leaseVersion
      BY <1>row, AbandonKeepsRecord DEF Job
    <2>. HIDE DEF Goal, r
    <2>. QED  BY <1>one, <1>row, <2>1, <2>2
  <1>3. ASSUME NEW j \in Jobs, LeaseJob(j) PROVE Goal
    <2>1. job[j].status # "absent"
      BY <1>3 DEF LeaseJob, Claimable, Open
    <2>2. /\ Leased(job[j]).leaseVersion = job[j].leaseVersion + 1
          /\ Leased(job[j]).status = "leased"
          /\ Leased(job[j]).intent = job[j].intent
          /\ job[j].leaseVersion <= job[j].leaseVersion + 1
      BY <1>row, AbandonKeepsRecord DEF Leased, Job
    <2>. HIDE DEF Goal
    <2>. QED  BY <1>3, <1>one, <2>1, <2>2 DEF LeaseJob
  <1>4. ASSUME NEW j \in Jobs, CancelJob(j) PROVE Goal
    <2>. DEFINE r == [Abandon(job[j]) EXCEPT !.status = "cancelled", !.due = FALSE]
    <2>1. job' = [job EXCEPT ![j] = r] /\ sent' = sent
      BY <1>4 DEF CancelJob
    <2>2. /\ r.status # "absent" /\ r.intent = job[j].intent
          /\ r.leaseVersion = job[j].leaseVersion
      BY <1>row, AbandonKeepsRecord DEF Job
    <2>. HIDE DEF Goal, r
    <2>. QED  BY <1>one, <1>row, <2>1, <2>2
  <1>5. ASSUME NEW j \in Jobs, Elapse(j) PROVE Goal
    <2>1. job' = [job EXCEPT ![j] = [job[j] EXCEPT !.due = TRUE]] /\ sent' = sent
      BY <1>5, <1>typed DEF Elapse
    <2>2. job[j].status # "absent"
      BY <1>5 DEF Elapse, Open
    <2>. DEFINE r == [job[j] EXCEPT !.due = TRUE]
    <2>3. r.status = job[j].status /\ r.intent = job[j].intent
          /\ r.leaseVersion = job[j].leaseVersion
      BY <1>row DEF Job
    <2>. HIDE DEF Goal, r
    <2>. QED  BY <1>one, <1>row, <2>1, <2>2, <2>3 DEF r
  <1>6. ASSUME NEW j \in Jobs, NEW e \in 1..MaxAttempts, NEW code \in FailureCodes,
               NEW retryable \in BOOLEAN, NEW due \in BOOLEAN, FailJob(j, e, code, retryable, due)
        PROVE  Goal
    <2>. DEFINE again == retryable /\ job[j].attempt < MaxAttempts
                r == [Abandon(job[j]) EXCEPT !.lastError = code,
                                             !.status = IF again THEN "queued" ELSE "failed",
                                             !.due = again /\ due]
    <2>1. job' = [job EXCEPT ![j] = r] /\ sent' = sent
      BY <1>6 DEF FailJob
    <2>2. /\ r.status # "absent" /\ r.intent = job[j].intent
          /\ r.leaseVersion = job[j].leaseVersion
      BY <1>row, AbandonKeepsRecord DEF Job
    <2>. HIDE DEF Goal, r
    <2>. QED  BY <1>one, <1>row, <2>1, <2>2
  <1>7. ASSUME NEW j \in Jobs, NEW e \in 1..MaxAttempts, MarkJobDispatched(j, e)
        PROVE  Goal
    <2>1. CASE InputProblem(j)
      <3>. DEFINE r == [job[j] EXCEPT !.status = "failed", !.lastError = ProblemCode(j)]
      <3>1. job' = [job EXCEPT ![j] = r] /\ sent' = sent
        BY <1>7, <1>typed, <2>1 DEF MarkJobDispatched
      <3>2. /\ r.status # "absent" /\ r.intent = job[j].intent
            /\ r.leaseVersion = job[j].leaseVersion
        BY <1>row DEF Job
      <3>. HIDE DEF Goal, r
      <3>. QED  BY <1>one, <1>row, <3>1, <3>2
    <2>2. CASE ~InputProblem(j)
      <3>1. Dispatch(j)
        BY <1>7, <2>2 DEF MarkJobDispatched
      <3>. QED  BY <1>typed, <1>row, <3>1 DEF Dispatch, RowGrows, Job
    <2>. QED  BY <2>1, <2>2
  <1>8. ASSUME NEW j \in Jobs, NEW e \in 1..MaxAttempts, NEW x \in Texts, CommitJob(j, e, x)
        PROVE  Goal
    <2>. DEFINE r == [job[j] EXCEPT !.status = "completed", !.dispatched = FALSE,
                                    !.lastError = "none"]
    <2>1. job' = [job EXCEPT ![j] = r] /\ sent' = sent
      BY <1>8, <1>typed DEF CommitJob, Complete
    <2>2. /\ r.status # "absent" /\ r.intent = job[j].intent
          /\ r.leaseVersion = job[j].leaseVersion
      BY <1>row DEF Job
    <2>. HIDE DEF Goal, r
    <2>. QED  BY <1>one, <1>row, <2>1, <2>2
  <1>9. StoreNext => UNCHANGED jobVars
    BY DEF StoreNext, EditorWrite, SyncSource
  <1>10. QueueNext => sent' = sent /\ Goal
    <2>. HIDE DEF Goal
    <2>. SUFFICES ASSUME QueueNext PROVE sent' = sent /\ Goal
      OBVIOUS
    <2>1. PICK j \in Jobs :
            \/ EnqueueJob(j) \/ ExhaustJob(j) \/ LeaseJob(j) \/ CancelJob(j) \/ Elapse(j)
            \/ \E e \in 1..MaxAttempts, code \in FailureCodes, retryable, due \in BOOLEAN :
                 FailJob(j, e, code, retryable, due)
            \/ \E e \in 1..MaxAttempts, x \in Texts : CommitJob(j, e, x)
      BY Zenon DEF QueueNext
    <2>2. CASE EnqueueJob(j) \/ ExhaustJob(j) \/ LeaseJob(j) \/ CancelJob(j) \/ Elapse(j)
      BY <2>2, <1>1, <1>2, <1>3, <1>4, <1>5
         DEF EnqueueJob, ExhaustJob, LeaseJob, CancelJob, Elapse
    <2>3. CASE \E e \in 1..MaxAttempts, code \in FailureCodes, retryable, due \in BOOLEAN :
                 FailJob(j, e, code, retryable, due)
      <3>1. Goal
        BY <2>3, <1>6, Zenon
      <3>. QED  BY <2>3, <3>1 DEF FailJob
    <2>4. CASE \E e \in 1..MaxAttempts, x \in Texts : CommitJob(j, e, x)
      <3>1. Goal
        BY <2>4, <1>8
      <3>. QED  BY <2>4, <3>1 DEF CommitJob, Complete
    <2>. QED  BY <2>1, <2>2, <2>3, <2>4
  <1>11. UNCHANGED jobsVars => UNCHANGED jobVars
    BY DEF jobsVars, jobVars
  <1>12. Goal
    <2>. HIDE DEF Goal
    <2>. QED  BY <1>7, <1>9, <1>10, <1>11, <1>same DEF JobsNext
  <1>. QED  BY <1>9, <1>10, <1>12 DEF jobVars

-----------------------------------------------------------------------------
(* One attempt moves at a time *)

\* The row r is what the attempt <<j, e>> becomes.
Becomes(j, e, r) == /\ attempt' = [attempt EXCEPT ![<<j, e>>] = r]
                    /\ r \in Attempt

LEMMA OthersStay ==
  ASSUME AccountingTypeOK, NEW j \in Jobs, NEW e \in 1..MaxAttempts, NEW r, Becomes(j, e, r)
  PROVE  /\ attempt'[<<j, e>>] = r
         /\ \A k \in Keys : k # <<j, e>> => attempt'[k] = attempt[k]
         /\ attempt' \in [Keys -> Attempt]
  BY KeyOf DEF Becomes, AccountingTypeOK

\* The attempts still agree with their jobs if the one that moved does.
LEMMA AttemptsStillAgree ==
  ASSUME AccountsInv, NEW j \in Jobs, NEW e \in 1..MaxAttempts, NEW r, Becomes(j, e, r),
         \A i \in Jobs : job[i].leaseVersion <= job'[i].leaseVersion,
         \A i \in Jobs, f \in 1..MaxAttempts :
           <<i, f>> # <<j, e>> => (f \in sent'[i] <=> f \in sent[i]),
         r.state # "none" => e <= job'[j].leaseVersion,
         r.state \in Spent <=> e \in sent'[j],
         r.state = "settled" => r.charged \in Nat,
         \A i \in Jobs : job[i].leaseVersion \in Nat /\ job'[i].leaseVersion \in Nat
  PROVE  AttemptsAgree'
  <1>. SUFFICES ASSUME NEW i \in Jobs, NEW f \in 1..MaxAttempts
                PROVE  /\ attempt'[<<i, f>>].state # "none" => f <= job'[i].leaseVersion
                       /\ attempt'[<<i, f>>].state \in Spent <=> f \in sent'[i]
                       /\ attempt'[<<i, f>>].state = "settled" => attempt'[<<i, f>>].charged \in Nat
    BY DEF AttemptsAgree, Spent
  <1>1. CASE <<i, f>> = <<j, e>>
    <2>1. i = j /\ f = e /\ attempt'[<<i, f>>] = r
      BY <1>1, OthersStay DEF AccountsInv
    <2>. QED  BY <2>1
  <1>2. CASE <<i, f>> # <<j, e>>
    <2>1. attempt'[<<i, f>>] = attempt[<<i, f>>]
      BY <1>2, OthersStay, KeyOf DEF AccountsInv
    <2>2. attempt[<<i, f>>].state # "none" => f <= job[i].leaseVersion
      BY DEF AccountsInv, AttemptsAgree
    <2>3. f \in Nat /\ job[i].leaseVersion <= job'[i].leaseVersion
      BY JobsAssumption
    <2>. QED  BY <1>2, <2>1, <2>2, <2>3 DEF AccountsInv, AttemptsAgree
  <1>. QED  BY <1>1, <1>2

\* An attempt may become unknown under the current lease only, and come into being
\* only if no cost of the job is unknown.
LEMMA RetryStillBlocked ==
  ASSUME AccountsInv, NEW j \in Jobs, NEW e \in 1..MaxAttempts, NEW r, Becomes(j, e, r),
         r.state \in Unknown => \/ attempt[<<j, e>>].state \in Unknown
                                \/ e = job[j].leaseVersion,
         attempt[<<j, e>>].state = "none" =>
           \A f \in 1..MaxAttempts : attempt[<<j, f>>].state \notin Unknown
  PROVE  UnknownBlocksRetry'
  <1>. SUFFICES ASSUME NEW i \in Jobs, NEW f \in 1..MaxAttempts, NEW g \in 1..MaxAttempts,
                       attempt'[<<i, f>>].state \in Unknown, g > f
                PROVE  attempt'[<<i, g>>].state = "none"
    BY DEF UnknownBlocksRetry, Unknown
  <1>0. f \in Nat /\ g \in Nat /\ f # g
    BY JobsAssumption
  <1>kept. ASSUME NEW h \in 1..MaxAttempts, <<i, h>> # <<j, e>>
           PROVE  attempt'[<<i, h>>] = attempt[<<i, h>>]
    BY <1>kept, OthersStay, KeyOf DEF AccountsInv
  <1>1. CASE i = j /\ f = e
    <2>1. attempt'[<<j, e>>] = r
      BY OthersStay DEF AccountsInv
    <2>2. attempt'[<<i, g>>] = attempt[<<i, g>>]
      BY <1>0, <1>1, <1>kept
    <2>3. CASE attempt[<<j, e>>].state \in Unknown
      BY <1>1, <2>2, <2>3 DEF AccountsInv, UnknownBlocksRetry
    <2>4. CASE e = job[j].leaseVersion
      BY <1>0, <1>1, <2>2, <2>4 DEF AccountsInv, AttemptsAgree
    <2>. QED  BY <1>1, <2>1, <2>3, <2>4
  <1>2. CASE i = j /\ g = e
    <2>1. attempt[<<j, f>>].state \in Unknown
      BY <1>0, <1>2, <1>kept
    <2>2. attempt[<<j, e>>].state = "none"
      BY <1>2, <2>1 DEF AccountsInv, UnknownBlocksRetry
    <2>. QED  BY <2>1, <2>2
  <1>3. CASE i # j \/ (f # e /\ g # e)
    <2>1. attempt'[<<i, f>>] = attempt[<<i, f>>] /\ attempt'[<<i, g>>] = attempt[<<i, g>>]
      BY <1>3, <1>kept
    <2>. QED  BY <2>1 DEF AccountsInv, UnknownBlocksRetry
  <1>. QED  BY <1>1, <1>2, <1>3

-----------------------------------------------------------------------------
(* The totals of an allowance *)

\* Nothing is added to an allowance, and nothing in it costs more.
Relaxes(a) ==
  /\ Charged(a)' \subseteq Charged(a)
  /\ \A k \in Charged(a)' :
       /\ attempt[k].state = "settled" => attempt'[k].state = "settled"
       /\ Cost(k)' <= Cost(k)

TotalsWithin(a) == /\ Requests(a) <= MaxRequests[a]
                   /\ Concurrent(a) <= MaxConcurrent[a]
                   /\ Used(a) <= Limit[a]

LEMMA CostsTypedTwice ==
  ASSUME AccountsInv, AccountingTypeOK', AttemptsAgree'
  PROVE  CostsTyped /\ CostsTyped'
  <1>1. (AccountingTypeOK /\ AttemptsAgree => CostsTyped)'
    BY CostTyped, PTL
  <1>. QED  BY <1>1, CostTyped DEF AccountsInv

LEMMA RelaxedTotals ==
  ASSUME AccountsInv, AccountingTypeOK', AttemptsAgree', NEW a \in Allowances, Relaxes(a)
  PROVE  TotalsWithin(a)'
  <1>. DEFINE S == Charged(a)  T == Charged(a)'
              Open1 == {k \in S : attempt[k].state # "settled"}
              Open2 == {k \in T : attempt'[k].state # "settled"}
  <1>1. /\ IsFiniteSet(S) /\ S \subseteq Keys /\ IsFiniteSet(Open1)
        /\ Requests(a) = Cardinality(S) /\ Concurrent(a) = Cardinality(Open1)
    BY ChargedFinite DEF Requests, Concurrent
  <1>2. Requests(a)' = Cardinality(T) /\ Concurrent(a)' = Cardinality(Open2)
    BY DEF Requests, Concurrent
  <1>3. T \subseteq S /\ Open2 \subseteq Open1
    BY DEF Relaxes
  <1>4. /\ Cardinality(S) \in Nat /\ Cardinality(T) \in Nat /\ Cardinality(T) <= Cardinality(S)
        /\ Cardinality(Open1) \in Nat /\ Cardinality(Open2) \in Nat
        /\ Cardinality(Open2) <= Cardinality(Open1)
    <2>. HIDE DEF S, T, Open1, Open2
    <2>1. IsFiniteSet(T) /\ IsFiniteSet(Open2)
      BY <1>1, <1>3, FS_Subset
    <2>. QED  BY <1>1, <1>3, <2>1, FS_Subset, FS_CardinalityType
  <1>5. /\ \A k \in S : Costs[k] \in Nat /\ Costs[k] = Cost(k)
        /\ \A k \in T : Costs'[k] \in Nat /\ Costs'[k] = Cost(k)'
    <2>1. CostsTyped /\ CostsTyped'
      BY CostsTypedTwice
    <2>. QED  BY <1>1, <1>3, <2>1 DEF CostsTyped
  <1>6. Used(a) = SumOf(Costs, S) /\ Used(a)' = SumOf(Costs', T)
    <2>1. UsedIsTheSum'
      BY UsedIsSum, PTL
    <2>. QED  BY <2>1, UsedIsSum DEF UsedIsTheSum
  <1>7. SumOf(Costs', T) <= SumOf(Costs, S) /\ SumOf(Costs', T) \in Nat /\ SumOf(Costs, S) \in Nat
    <2>0. \A k \in T : Costs'[k] <= Costs[k]
      BY <1>3, <1>5 DEF Relaxes
    <2>. HIDE DEF S, T
    <2>1. SumOf(Costs, T) <= SumOf(Costs, S)
      BY <1>1, <1>3, <1>5, SumOfFewer
    <2>2. IsFiniteSet(T) /\ \A k \in T : Costs[k] \in Nat
      BY <1>1, <1>3, <1>5, FS_Subset
    <2>3. SumOf(Costs', T) <= SumOf(Costs, T)
      BY <1>5, <2>0, <2>2, SumOfLess
    <2>4. SumOf(Costs', T) \in Nat /\ SumOf(Costs, T) \in Nat /\ SumOf(Costs, S) \in Nat
      BY <1>1, <1>5, <2>2, SumOfNat
    <2>. QED  BY <2>1, <2>3, <2>4
  <1>8. /\ MaxRequests[a] \in Nat /\ MaxConcurrent[a] \in Nat /\ Limit[a] \in Nat
        /\ TotalsWithin(a)
    BY AccountingAssumption DEF AccountsInv, WithinCounts, WithinLimit, TotalsWithin
  <1>. HIDE DEF S, T, Open1, Open2
  <1>. QED  BY <1>1, <1>2, <1>4, <1>6, <1>7, <1>8 DEF TotalsWithin

\* A reservation adds one request, one open call and its amount.
LEMMA ReservedTotals ==
  ASSUME AccountsInv, AccountingTypeOK', AttemptsAgree',
         NEW j \in Jobs, NEW e \in 1..MaxAttempts, NEW a \in Allowances, NEW amount \in Amounts,
         ReserveAttempt(j, e, a, amount)
  PROVE  TotalsWithin(a)'
  <1>. DEFINE k == <<j, e>>
              S == Charged(a)  T == Charged(a)'
              Open1 == {x \in S : attempt[x].state # "settled"}
              Open2 == {x \in T : attempt'[x].state # "settled"}
              r == [state |-> "reserved", allowance |-> a, reserved |-> amount,
                    charged |-> NoCharge]
  <1>1. /\ attempt[k].state = "none" /\ k \in Keys
        /\ Used(a) + amount <= Limit[a]
        /\ Requests(a) < MaxRequests[a] /\ Concurrent(a) < MaxConcurrent[a]
    BY KeyOf DEF ReserveAttempt, MayReserve
  <1>2. attempt'[k] = r /\ \A x \in Keys : x # k => attempt'[x] = attempt[x]
    BY <1>1 DEF ReserveAttempt, AccountsInv, AccountingTypeOK
  <1>3. /\ IsFiniteSet(S) /\ S \subseteq Keys /\ IsFiniteSet(Open1)
        /\ Requests(a) = Cardinality(S) /\ Concurrent(a) = Cardinality(Open1)
        /\ Requests(a)' = Cardinality(T) /\ Concurrent(a)' = Cardinality(Open2)
    BY ChargedFinite DEF Requests, Concurrent
  <1>4. T = S \cup {k} /\ Open2 = Open1 \cup {k} /\ k \notin S
    BY <1>1, <1>2 DEF Charged
  <1>5. /\ \A x \in S : Costs[x] \in Nat /\ Costs'[x] = Costs[x]
        /\ Costs'[k] = amount
    <2>1. CostsTyped /\ CostsTyped'
      BY CostsTypedTwice
    <2>2. \A x \in S : x \in Keys /\ x # k /\ Cost(x)' = Cost(x)
      BY <1>2, <1>3, <1>4 DEF Cost
    <2>3. Cost(k)' = amount
      BY <1>2 DEF Cost
    <2>. QED  BY <1>1, <2>1, <2>2, <2>3 DEF CostsTyped
  <1>6. Used(a) = SumOf(Costs, S) /\ Used(a)' = SumOf(Costs', T)
    <2>1. UsedIsTheSum'
      BY UsedIsSum, PTL
    <2>. QED  BY <2>1, UsedIsSum DEF UsedIsTheSum
  <1>. HIDE DEF S, T, Open1, Open2, k, r
  <1>7. /\ Cardinality(T) = Cardinality(S) + 1 /\ Cardinality(S) \in Nat
        /\ Cardinality(Open2) = Cardinality(Open1) + 1 /\ Cardinality(Open1) \in Nat
    <2>1. k \notin Open1
      BY <1>4 DEF Open1
    <2>2. Cardinality(S) \in Nat /\ Cardinality(Open1) \in Nat
      BY <1>3, FS_CardinalityType
    <2>3. Cardinality(S \cup {k}) = Cardinality(S) + 1
      BY <1>3, <1>4, FS_AddElement
    <2>4. Cardinality(Open1 \cup {k}) = Cardinality(Open1) + 1
      BY <1>3, <2>1, FS_AddElement
    <2>. QED  BY <1>4, <2>2, <2>3, <2>4
  <1>8. /\ SumOf(Costs', T) <= SumOf(Costs, S) + amount
        /\ SumOf(Costs', T) \in Nat /\ SumOf(Costs, S) \in Nat /\ amount \in Nat
    <2>1. IsFiniteSet(T) /\ amount \in Nat
      BY <1>3, <1>4, FS_AddElement, AccountingAssumption
    <2>2. \A x \in T : Costs'[x] \in Nat
      BY <1>4, <1>5, <2>1
    <2>3. SumOf(Costs', T) = Costs'[k] + SumOf(Costs', T \ {k})
      BY <1>4, <2>1, <2>2, SumOfMember
    <2>4. T \ {k} = S
      BY <1>4
    <2>5. SumOf(Costs', S) <= SumOf(Costs, S)
      <3>1. \A x \in S : Costs'[x] \in Nat /\ Costs'[x] <= Costs[x]
        BY <1>5
      <3>. QED  BY <1>3, <1>5, <3>1, SumOfLess
    <2>6. SumOf(Costs', S) \in Nat /\ SumOf(Costs, S) \in Nat
      BY <1>3, <1>5, SumOfNat
    <2>. QED  BY <1>5, <2>1, <2>3, <2>4, <2>5, <2>6
  <1>9. MaxRequests[a] \in Nat /\ MaxConcurrent[a] \in Nat /\ Limit[a] \in Nat
    BY AccountingAssumption
  <1>. QED  BY <1>1, <1>3, <1>6, <1>7, <1>8, <1>9 DEF TotalsWithin

-----------------------------------------------------------------------------
(* The invariant is kept *)

\* What is left to show of a step once the queue is known to be well.
AccountsKept == /\ AccountingTypeOK'
                /\ AttemptsAgree'
                /\ UnknownBlocksRetry'
                /\ \A a \in Allowances : TotalsWithin(a)'

LEMMA QueueKeepsAccounts ==
  ASSUME AccountsInv, JobsTypeOK', \A j \in Jobs : RowGrows(j), sent' = sent, attempt' = attempt,
         allowed' \subseteq Allowances
  PROVE  AccountsKept
  <1>1. AccountingTypeOK'
    BY DEF AccountsInv, AccountingTypeOK
  <1>2. AttemptsAgree'
    <2>. SUFFICES ASSUME NEW j \in Jobs, NEW e \in 1..MaxAttempts
                  PROVE  /\ attempt'[<<j, e>>].state # "none" => e <= job'[j].leaseVersion
                         /\ attempt'[<<j, e>>].state \in Spent <=> e \in sent'[j]
                         /\ attempt'[<<j, e>>].state = "settled" => attempt'[<<j, e>>].charged \in Nat
      BY DEF AttemptsAgree, Spent
    <2>1. /\ job[j].leaseVersion \in Nat /\ job'[j].leaseVersion \in Nat /\ e \in Nat
          /\ job[j].leaseVersion <= job'[j].leaseVersion
      BY JobsAssumption DEF AccountsInv, JobsInv, JobsTypeOK, Job, RowGrows
    <2>. QED  BY <2>1 DEF AccountsInv, AttemptsAgree
  <1>3. UnknownBlocksRetry'
    BY DEF AccountsInv, UnknownBlocksRetry
  <1>4. ASSUME NEW a \in Allowances PROVE TotalsWithin(a)'
    <2>1. CostsTyped
      BY CostTyped DEF AccountsInv
    <2>2. Charged(a)' = Charged(a) /\ Charged(a) \subseteq Keys
          /\ \A k \in Keys : Cost(k)' = Cost(k)
      BY DEF Charged, Cost
    <2>3. Relaxes(a)
      BY <2>1, <2>2 DEF Relaxes, CostsTyped
    <2>. QED  BY <1>1, <1>2, <2>3, RelaxedTotals
  <1>. QED  BY <1>1, <1>2, <1>3, <1>4 DEF AccountsKept

\* A step that only moves one attempt on, at no higher cost.
LEMMA MovedAttempt ==
  ASSUME AccountsInv, AccountingTypeOK', AttemptsAgree',
         NEW j \in Jobs, NEW e \in 1..MaxAttempts, NEW r, Becomes(j, e, r),
         r.allowance = attempt[<<j, e>>].allowance,
         attempt[<<j, e>>].state \in {"reserved", "dispatched"},
         Cost(<<j, e>>)' <= Cost(<<j, e>>),
         NEW a \in Allowances
  PROVE  TotalsWithin(a)'
  <1>1. /\ attempt'[<<j, e>>] = r
        /\ \A k \in Keys : k # <<j, e>> => attempt'[k] = attempt[k]
    BY OthersStay DEF AccountsInv
  <1>2. \A k \in Keys : Cost(k)' <= Cost(k)
    <2>1. \A k \in Keys : k # <<j, e>> => Cost(k)' = Cost(k)
      BY <1>1 DEF Cost
    <2>2. \A k \in Keys : Cost(k) \in Nat
      BY CostTyped DEF AccountsInv, CostsTyped
    <2>. QED  BY <2>1, <2>2
  <1>3. Charged(a)' \subseteq Charged(a)
    BY <1>1 DEF Charged
  <1>4. \A k \in Charged(a)' : attempt[k].state = "settled" => attempt'[k].state = "settled"
    BY <1>1, <1>3, ChargedFinite
  <1>5. Relaxes(a)
    BY <1>2, <1>3, <1>4, ChargedFinite DEF Relaxes
  <1>. QED  BY <1>5, RelaxedTotals

LEMMA ReserveKeeps ==
  ASSUME AccountsInv, JobsTypeOK', NEW j \in Jobs, NEW e \in 1..MaxAttempts,
         NEW a \in Allowances, NEW amount \in Amounts, ReserveAttempt(j, e, a, amount)
  PROVE  AccountsKept
  <1>. DEFINE k == <<j, e>>
              r == [state |-> "reserved", allowance |-> a, reserved |-> amount,
                    charged |-> NoCharge]
  <1>1. /\ attempt[k].state = "none" /\ k \in Keys /\ e = job[j].leaseVersion
        /\ \A f \in 1..MaxAttempts : attempt[<<j, f>>].state \notin Unknown
        /\ job' = job /\ sent' = sent /\ allowed' = allowed
    BY KeyOf DEF ReserveAttempt, MayReserve, Live, jobsVars, jobVars
  <1>2. Becomes(j, e, r)
    BY AccountingAssumption DEF Becomes, ReserveAttempt, Attempt, AttemptStates
  <1>3. AccountingTypeOK'
    BY <1>1, <1>2, OthersStay DEF AccountsInv, AccountingTypeOK
  <1>lease. \A i \in Jobs : job[i].leaseVersion \in Nat
    BY DEF AccountsInv, JobsInv, JobsTypeOK, Job
  <1>4. AttemptsAgree'
    <2>1. e \notin sent[j]
      BY <1>1 DEF AccountsInv, AttemptsAgree, Spent
    <2>2. r.state = "reserved" /\ "reserved" \notin Spent
      BY DEF Spent
    <2>3. e <= job'[j].leaseVersion /\ \A i \in Jobs : job[i].leaseVersion <= job'[i].leaseVersion
      BY <1>1, <1>lease
    <2>. HIDE DEF r
    <2>. QED  BY <1>1, <1>2, <1>lease, <2>1, <2>2, <2>3, AttemptsStillAgree
  <1>5. UnknownBlocksRetry'
    <2>1. r.state \notin Unknown
      BY DEF Unknown
    <2>. HIDE DEF r
    <2>. QED  BY <1>1, <1>2, <2>1, RetryStillBlocked
  <1>6. ASSUME NEW b \in Allowances PROVE TotalsWithin(b)'
    <2>1. CASE b = a
      BY <1>3, <1>4, <2>1, ReservedTotals
    <2>2. CASE b # a
      <3>1. attempt'[k] = r /\ \A x \in Keys : x # k => attempt'[x] = attempt[x]
        BY <1>2, OthersStay DEF AccountsInv
      <3>2. \A x \in Charged(b)' : x \in Keys /\ x # k
        BY <2>2, <3>1 DEF Charged
      <3>3. Charged(b)' \subseteq Charged(b)
        BY <3>1, <3>2 DEF Charged
      <3>4. \A x \in Charged(b)' : attempt'[x] = attempt[x] /\ Cost(x)' = Cost(x) /\ Cost(x) \in Nat
        BY <3>1, <3>2, CostTyped DEF Cost, CostsTyped, AccountsInv
      <3>5. Relaxes(b)
        BY <3>3, <3>4 DEF Relaxes
      <3>. QED  BY <1>3, <1>4, <3>5, RelaxedTotals
    <2>. QED  BY <2>1, <2>2
  <1>. QED  BY <1>3, <1>4, <1>5, <1>6 DEF AccountsKept

LEMMA DispatchKeeps ==
  ASSUME AccountsInv, JobsTypeOK', NEW j \in Jobs, NEW e \in 1..MaxAttempts, DispatchAttempt(j, e)
  PROVE  AccountsKept
  <1>. DEFINE k == <<j, e>>
              r == [attempt[k] EXCEPT !.state = "dispatched"]
  <1>typed. /\ job \in [Jobs -> Job] /\ sent \in [Jobs -> SUBSET (1..MaxAttempts)]
            /\ attempt[k] \in Attempt
    BY KeyOf DEF AccountsInv, JobsInv, JobsTypeOK, AccountingTypeOK
  <1>1. /\ attempt[k].state = "reserved" /\ e = job[j].leaseVersion
        /\ sent' = [sent EXCEPT ![j] = @ \cup {e}] /\ allowed' = allowed
        /\ \A i \in Jobs : job'[i].leaseVersion = job[i].leaseVersion
                           /\ job[i].leaseVersion \in Nat
    BY <1>typed DEF DispatchAttempt, MayDispatch, Live, Dispatch, Job
  <1>2. Becomes(j, e, r) /\ r.state = "dispatched" /\ r.allowance = attempt[k].allowance
        /\ r.reserved = attempt[k].reserved
    BY <1>typed, KeyOf DEF Becomes, DispatchAttempt, AccountsInv, AccountingTypeOK, Attempt,
                           AttemptStates
  <1>. HIDE DEF r
  <1>3. AccountingTypeOK'
    BY <1>1, <1>2, OthersStay DEF AccountsInv, AccountingTypeOK
  <1>4. AttemptsAgree'
    <2>1. e \in sent'[j] /\ "dispatched" \in Spent
      BY <1>1, <1>typed DEF Spent
    <2>2. \A i \in Jobs, f \in 1..MaxAttempts :
            <<i, f>> # <<j, e>> => (f \in sent'[i] <=> f \in sent[i])
      BY <1>1, <1>typed
    <2>3. e <= job'[j].leaseVersion /\ \A i \in Jobs : job[i].leaseVersion <= job'[i].leaseVersion
      BY <1>1
    <2>. QED  BY <1>1, <1>2, <2>1, <2>2, <2>3, AttemptsStillAgree
  <1>5. UnknownBlocksRetry'
    BY <1>1, <1>2, RetryStillBlocked
  <1>6. ASSUME NEW b \in Allowances PROVE TotalsWithin(b)'
    <2>1. Cost(k)' = Cost(k) /\ Cost(k) \in Nat
      BY <1>1, <1>2, OthersStay, CostTyped, KeyOf DEF Cost, CostsTyped, AccountsInv
    <2>2. Cost(k)' <= Cost(k)
      BY <2>1
    <2>. QED  BY <1>1, <1>2, <1>3, <1>4, <2>2, MovedAttempt
  <1>. QED  BY <1>3, <1>4, <1>5, <1>6 DEF AccountsKept

LEMMA SettleKeeps ==
  ASSUME AccountsInv, JobsTypeOK', NEW j \in Jobs, NEW e \in 1..MaxAttempts,
         NEW charge \in Charges \cup {NoCharge}, SettleAttempt(j, e, charge)
  PROVE  AccountsKept
  <1>. DEFINE k == <<j, e>>
              known == charge # NoCharge /\ charge <= attempt[k].reserved
              state == IF known THEN "settled" ELSE "uncertain"
              charged == IF known THEN charge ELSE NoCharge
              r == [attempt[k] EXCEPT !.state = state, !.charged = charged]
  <1>typed. attempt[k] \in Attempt /\ \A i \in Jobs : job[i].leaseVersion \in Nat
    BY KeyOf DEF AccountsInv, JobsInv, JobsTypeOK, AccountingTypeOK, Job
  <1>1. /\ attempt[k].state = "dispatched" /\ job' = job /\ sent' = sent /\ allowed' = allowed
        /\ attempt' = [attempt EXCEPT ![k] = r]
    BY KeyOf DEF SettleAttempt, jobsVars, jobVars, AccountsInv, AccountingTypeOK
  <1>0. known => charge \in Nat
    BY AccountingAssumption
  <1>2. /\ r \in Attempt /\ r.allowance = attempt[k].allowance
        /\ r.reserved = attempt[k].reserved
        /\ r.state \in {"settled", "uncertain"}
        /\ r.state = "settled" => r.charged \in Nat /\ r.charged <= r.reserved
    <2>1. state \in AttemptStates /\ charged \in Nat \cup {NoCharge}
      BY <1>0 DEF AttemptStates
    <2>2. state \in {"settled", "uncertain"}
          /\ (state = "settled" => charged \in Nat /\ charged <= attempt[k].reserved)
      BY <1>0
    <2>. HIDE DEF state, charged
    <2>. QED  BY <1>typed, <2>1, <2>2 DEF Attempt
  <1>. HIDE DEF r
  <1>3. Becomes(j, e, r)
    BY <1>1, <1>2 DEF Becomes
  <1>4. AccountingTypeOK'
    BY <1>1, <1>3, OthersStay DEF AccountsInv, AccountingTypeOK
  <1>5. e \in sent[j] /\ e <= job[j].leaseVersion
    BY <1>1 DEF AccountsInv, AttemptsAgree, Spent
  <1>6. AttemptsAgree'
    <2>1. r.state \in Spent
      BY <1>2 DEF Spent
    <2>2. \A i \in Jobs : job[i].leaseVersion <= job'[i].leaseVersion
      BY <1>1, <1>typed
    <2>. QED  BY <1>1, <1>2, <1>3, <1>5, <1>typed, <2>1, <2>2, AttemptsStillAgree
  <1>7. UnknownBlocksRetry'
    <2>1. attempt[k].state \in Unknown /\ attempt[k].state # "none"
      BY <1>1 DEF Unknown
    <2>. QED  BY <1>3, <2>1, RetryStillBlocked
  <1>8. ASSUME NEW b \in Allowances PROVE TotalsWithin(b)'
    <2>1. attempt'[k] = r
      BY <1>3, OthersStay DEF AccountsInv
    <2>2. Cost(k) = attempt[k].reserved /\ attempt[k].reserved \in Nat
      BY <1>1, <1>typed DEF Cost, Attempt
    <2>3. Cost(k)' = IF r.state = "settled" THEN r.charged ELSE r.reserved
      BY <2>1 DEF Cost
    <2>4. Cost(k)' <= Cost(k)
      BY <1>2, <2>2, <2>3
    <2>. QED  BY <1>1, <1>2, <1>3, <1>4, <1>6, <2>4, MovedAttempt
  <1>. QED  BY <1>4, <1>6, <1>7, <1>8 DEF AccountsKept

LEMMA ReleaseKeeps ==
  ASSUME AccountsInv, JobsTypeOK', NEW j \in Jobs, NEW e \in 1..MaxAttempts, ReleaseAttempt(j, e)
  PROVE  AccountsKept
  <1>. DEFINE k == <<j, e>>
              r == [attempt[k] EXCEPT !.state = "released", !.charged = 0]
  <1>typed. attempt[k] \in Attempt /\ \A i \in Jobs : job[i].leaseVersion \in Nat
    BY KeyOf DEF AccountsInv, JobsInv, JobsTypeOK, AccountingTypeOK, Job
  <1>1. /\ attempt[k].state = "reserved" /\ job' = job /\ sent' = sent /\ allowed' = allowed
        /\ attempt' = [attempt EXCEPT ![k] = r]
    BY KeyOf DEF ReleaseAttempt, jobsVars, jobVars, AccountsInv, AccountingTypeOK
  <1>2. /\ r \in Attempt /\ r.allowance = attempt[k].allowance
        /\ r.reserved = attempt[k].reserved /\ r.state = "released"
    BY <1>typed DEF Attempt, AttemptStates
  <1>. HIDE DEF r
  <1>3. Becomes(j, e, r)
    BY <1>1, <1>2 DEF Becomes
  <1>4. AccountingTypeOK'
    BY <1>1, <1>3, OthersStay DEF AccountsInv, AccountingTypeOK
  <1>5. e \notin sent[j] /\ e <= job[j].leaseVersion
    BY <1>1 DEF AccountsInv, AttemptsAgree, Spent
  <1>6. AttemptsAgree'
    <2>1. r.state \notin Spent
      BY <1>2 DEF Spent
    <2>2. \A i \in Jobs : job[i].leaseVersion <= job'[i].leaseVersion
      BY <1>1, <1>typed
    <2>. QED  BY <1>1, <1>2, <1>3, <1>5, <1>typed, <2>1, <2>2, AttemptsStillAgree
  <1>7. UnknownBlocksRetry'
    <2>1. r.state \notin Unknown /\ attempt[k].state # "none"
      BY <1>1, <1>2 DEF Unknown
    <2>. QED  BY <1>3, <2>1, RetryStillBlocked
  <1>8. ASSUME NEW b \in Allowances PROVE TotalsWithin(b)'
    <2>1. attempt'[k] = r
      BY <1>3, OthersStay DEF AccountsInv
    <2>2. Cost(k)' = Cost(k) /\ Cost(k) \in Nat
      BY <1>1, <1>2, <1>typed, <2>1 DEF Cost, Attempt
    <2>3. Cost(k)' <= Cost(k)
      BY <2>2
    <2>. QED  BY <1>1, <1>2, <1>3, <1>4, <1>6, <2>3, MovedAttempt
  <1>. QED  BY <1>4, <1>6, <1>7, <1>8 DEF AccountsKept

LEMMA AccountsNextInv == AccountsInv /\ [AccountingNext]_accountingVars => AccountsInv'
  <1>. SUFFICES ASSUME AccountsInv, [AccountingNext]_accountingVars PROVE AccountsInv'
    OBVIOUS
  <1>1. JobsInv /\ [JobsNext]_jobsVars
    BY AccountingIsJobsStep DEF AccountsInv
  <1>2. JobsInv' /\ JobsTypeOK'
    BY <1>1, JobsNextInv DEF JobsInv
  <1>3. \A j \in Jobs : RowGrows(j)
    BY <1>1, RowsGrow
  <1>4. AccountsKept
    <2>1. CASE (StoreNext \/ QueueNext) /\ UNCHANGED accountVars
      <3>1. sent' = sent /\ attempt' = attempt /\ allowed' = allowed
        BY <1>1, <2>1, RowsGrow DEF accountVars
      <3>. QED  BY <1>2, <1>3, <3>1, QueueKeepsAccounts DEF AccountsInv, AccountingTypeOK
    <2>2. CASE UNCHANGED accountingVars
      BY <1>2, <1>3, <2>2, QueueKeepsAccounts
         DEF accountingVars, accountVars, jobsVars, jobVars, AccountsInv, AccountingTypeOK
    <2>3. ASSUME NEW a \in Allowances, CreateAllowance(a) PROVE AccountsKept
      BY <1>2, <1>3, <2>3, QueueKeepsAccounts
         DEF CreateAllowance, jobsVars, jobVars, AccountsInv, AccountingTypeOK
    <2>4. ASSUME AccountNext PROVE AccountsKept
      BY <1>2, <2>3, <2>4, ReserveKeeps, DispatchKeeps, SettleKeeps, ReleaseKeeps DEF AccountNext
    <2>. QED  BY <2>1, <2>2, <2>4 DEF AccountingNext
  <1>. QED  BY <1>2, <1>4 DEF AccountsKept, AccountsInv, TotalsWithin, WithinCounts, WithinLimit

LEMMA AccountsInvariance == AccountingSpec => []AccountsInv
  BY AccountsInitInv, AccountsNextInv, PTL DEF AccountingSpec

-----------------------------------------------------------------------------
(* Theorems *)

\* Every reachable state of store, queue and accounts is well-formed.
THEOREM AccountsTyped == AccountingSpec => []AccountingTypeOK
  BY AccountsInvariance, PTL DEF AccountsInv

\* No provider call without a hold, no hold spent without a dispatch: attempt and
\* job are marked together, and no later step separates them.
THEOREM HoldsMatchDispatches == AccountingSpec => []SpentMeansDispatched
  <1>1. AccountsInv => SpentMeansDispatched
    BY DEF AccountsInv, AttemptsAgree, SpentMeansDispatched
  <1>. QED  BY <1>1, AccountsInvariance, PTL

\* Once the cost of a call is unknown, the job never reserves again.
THEOREM UnknownCostsBlock == AccountingSpec => []UnknownBlocksRetry
  BY AccountsInvariance, PTL DEF AccountsInv

\* No allowance ever admits more requests, or more calls at a time, than it says.
THEOREM CountsAreKept == AccountingSpec => []WithinCounts
  BY AccountsInvariance, PTL DEF AccountsInv

\* No allowance is ever overdrawn, for any number of jobs drawing on it.
THEOREM LimitsAreKept == AccountingSpec => []WithinLimit
  BY AccountsInvariance, PTL DEF AccountsInv

LEMMA SpentFinalStep ==
  ASSUME AccountsInv, [AccountingNext]_accountingVars
  PROVE  [\A k \in Keys :
            attempt[k].state \in Spent =>
              /\ attempt'[k].state \in Spent
              /\ attempt'[k].allowance = attempt[k].allowance
              /\ attempt'[k].reserved = attempt[k].reserved
              /\ attempt[k].state # "dispatched" => attempt'[k] = attempt[k]]_attempt
  <1>. SUFFICES ASSUME attempt' # attempt, NEW k \in Keys, attempt[k].state \in Spent
                PROVE  /\ attempt'[k].state \in Spent
                       /\ attempt'[k].allowance = attempt[k].allowance
                       /\ attempt'[k].reserved = attempt[k].reserved
                       /\ attempt[k].state # "dispatched" => attempt'[k] = attempt[k]
    OBVIOUS
  <1>typed. attempt \in [Keys -> Attempt]
    BY DEF AccountsInv, AccountingTypeOK
  <1>1. PICK j \in Jobs, e \in 1..MaxAttempts :
          \/ \E a \in Allowances, amount \in Amounts : ReserveAttempt(j, e, a, amount)
          \/ DispatchAttempt(j, e)
          \/ \E charge \in Charges \cup {NoCharge} : SettleAttempt(j, e, charge)
          \/ ReleaseAttempt(j, e)
    BY DEF AccountingNext, AccountNext, accountingVars, accountVars, CreateAllowance
  <1>2. /\ \A x \in Keys : x # <<j, e>> => attempt'[x] = attempt[x]
        /\ attempt[<<j, e>>].state \in {"none", "reserved", "dispatched"}
    <2>1. PICK r : attempt' = [attempt EXCEPT ![<<j, e>>] = r]
      BY <1>1, <1>typed, KeyOf DEF ReserveAttempt, DispatchAttempt, SettleAttempt, ReleaseAttempt
    <2>2. attempt[<<j, e>>].state \in {"none", "reserved", "dispatched"}
      BY <1>1 DEF ReserveAttempt, MayReserve, DispatchAttempt, MayDispatch, SettleAttempt,
                  ReleaseAttempt
    <2>. QED  BY <1>typed, <2>1, <2>2
  <1>3. CASE k # <<j, e>>
    BY <1>2, <1>3
  <1>4. CASE k = <<j, e>>
    <2>1. attempt[k].state = "dispatched"
      BY <1>2, <1>4 DEF Spent
    <2>2. PICK charge \in Charges \cup {NoCharge} : SettleAttempt(j, e, charge)
      BY <1>1, <1>4, <2>1 DEF ReserveAttempt, MayReserve, DispatchAttempt, MayDispatch,
                              ReleaseAttempt
    <2>. QED  BY <1>4, <1>typed, <2>1, <2>2 DEF SettleAttempt, Spent, Attempt
  <1>. QED  BY <1>3, <1>4

\* A spent hold is never freed, resized, moved or settled twice.
THEOREM SpentStaysSpent == AccountingSpec => SpentIsFinal
  BY AccountsInvariance, SpentFinalStep, PTL DEF AccountingSpec, SpentIsFinal

\* Accounting is a client of the job queue: what is proved of every job holds with it.
THEOREM AccountingRefinesJobs == AccountingSpec => ImplementsJobs
  <1>1. AccountingInit => JobsInit
    BY DEF AccountingInit
  <1>. QED  BY <1>1, AccountingIsJobsStep, PTL DEF AccountingSpec, JobsSpec, ImplementsJobs

-----------------------------------------------------------------------------
(***************************************************************************)
(* THE WORKERS                                                             *)
(*                                                                         *)
(* Proofs about the job runner, for any number of workers that crash, lose *)
(* replies and are overtaken, with and without accounting: that every call *)
(* is on record before it is made, that no call is repeated blindly, that  *)
(* no worker publishes an answer it got under a lease it has lost, that no *)
(* two workers hold the same lease, and that all the workers do to the     *)
(* store are its own transactions.                                         *)
(*                                                                         *)
(* The argument: what a worker remembers (its job, its lease version, that *)
(* it dispatched, the answer it was given) stays true whatever the others  *)
(* do, because the store never takes it back; and the check a worker made  *)
(* on its snapshot still holds as long as the unit's version has not moved.*)
(***************************************************************************)

(* The inductive invariant of the workers *)

\* What the local variables of a worker say about the store.
RecordAgrees(w) ==
  /\ w.pc # "idle" => /\ w.job \in Jobs /\ w.epoch \in 1..MaxAttempts
                      /\ job[w.job].status # "absent"
                      /\ w.epoch <= job[w.job].leaseVersion
  /\ w.pc \in {"release", "settle"} => Accounted
  /\ w.pc \in {"call", "calling", "settle", "write", "swap"} => w.epoch \in sent[w.job]
  /\ (w.pc \in {"write", "swap"} \/ (w.pc = "settle" /\ w.code = "none"))
       => <<w.job, w.epoch, w.text>> \in answers
  /\ w.pc = "fail" => w.code \in JobErrors
  /\ w.pc = "swap" =>
       /\ w.version <= version[job[w.job].intent.unit]
       /\ version[job[w.job].intent.unit] = w.version => Admissible(Result(w.job, w.text))

Answered == answers \subseteq (Jobs \X (1..MaxAttempts) \X Texts)

CallsSent == \A k \in calls : k[2] \in sent[k[1]]

RunnersInv == /\ JobsInv
              /\ AccountingTypeOK
              /\ Accounted => AccountsInv
              /\ runner \in [Runners -> Runner]
              /\ \A r \in Runners : RecordAgrees(runner[r])
              /\ calls \subseteq Keys
              /\ Answered
              /\ CallsSent
              /\ CompletedFromLastLease
              /\ LeasesAreExclusive

LEMMA IdleTyped == Idle \in Runner
  BY RunnerAssumption, JobsAssumption DEF Idle, Runner, PCs

LEMMA RunnersInitInv == Init => RunnersInv
  <1>. SUFFICES ASSUME Init PROVE RunnersInv
    OBVIOUS
  <1>1. AccountsInv
    BY AccountsInitInv DEF Init
  <1>2. runner \in [Runners -> Runner] /\ \A r \in Runners : runner[r].pc = "idle"
    BY IdleTyped DEF Init, Idle
  <1>3. \A r \in Runners : RecordAgrees(runner[r])
    BY <1>2 DEF RecordAgrees
  <1>4. calls \subseteq Keys /\ Answered /\ CallsSent
    BY DEF Init, Answered, CallsSent
  <1>5. CompletedFromLastLease
    BY DEF Init, AccountingInit, JobsInit, CompletedFromLastLease, Absent
  <1>6. LeasesAreExclusive
    BY <1>2 DEF LeasesAreExclusive, At
  <1>. QED  BY <1>1, <1>2, <1>3, <1>4, <1>5, <1>6 DEF RunnersInv, AccountsInv

-----------------------------------------------------------------------------
(* What the store never takes back *)

\* A step of the store as the workers make it.
StoreMoves == IF Accounted THEN [AccountingNext]_accountingVars
              ELSE [JobsNext]_jobsVars /\ UNCHANGED accountVars

LEMMA MovesAreJobsSteps == StoreMoves => [JobsNext]_jobsVars
  BY AccountingIsJobsStep DEF StoreMoves

\* A check made at some version of the unit holds while that is its version.
CheckHolds(rev) ==
  /\ version[rev.unit] <= version'[rev.unit]
  /\ (version'[rev.unit] = version[rev.unit] /\ Admissible(rev)) => Admissible(rev)'

LEMMA ChecksHold ==
  ASSUME StoreTypeOK, StoreStep, NEW rev \in Revision
  PROVE  CheckHolds(rev)
  <1>typed. rev.unit \in Units /\ \A u \in Units : version[u] \in Nat
    BY DEF StoreTypeOK, Revision
  <1>1. CASE UNCHANGED storeVars
    BY <1>1, <1>typed, CheckSurvivesReads DEF CheckHolds, storeVars
  <1>2. ASSUME NEW new \in Revision, Written(new) PROVE CheckHolds(rev)
    <2>1. ApplyRevision(new) /\ new.unit \in Units
      BY <1>2 DEF Written, Revision
    <2>2. version' = [version EXCEPT ![new.unit] = @ + 1]
      BY <2>1 DEF ApplyRevision
    <2>3. CASE rev.unit = new.unit
      BY <1>typed, <2>2, <2>3 DEF CheckHolds, StoreTypeOK
    <2>4. CASE rev.unit # new.unit
      BY <1>typed, <2>1, <2>2, <2>4, CheckSurvivesRevision DEF CheckHolds, StoreTypeOK
    <2>. QED  BY <2>3, <2>4
  <1>3. ASSUME NEW u \in Units, NEW w \in Wordings, ApplySource(u, w) PROVE CheckHolds(rev)
    <2>1. version' = [version EXCEPT ![u] = @ + 1]
      BY <1>3 DEF ApplySource
    <2>2. CASE rev.unit = u
      BY <1>typed, <2>1, <2>2 DEF CheckHolds, StoreTypeOK
    <2>3. CASE rev.unit # u
      BY <1>3, <1>typed, <2>1, <2>3, CheckSurvivesSource DEF CheckHolds, StoreTypeOK
    <2>. QED  BY <2>2, <2>3
  <1>. QED  BY <1>1, <1>2, <1>3 DEF StoreStep

\* Everything a worker's variables say stays true while it does nothing.
LEMMA RecordStillAgrees ==
  ASSUME RunnersInv, StoreMoves, answers \subseteq answers', NEW w \in Runner, RecordAgrees(w)
  PROVE  RecordAgrees(w)'
  <1>0. JobsInv /\ [JobsNext]_jobsVars
    BY MovesAreJobsSteps DEF RunnersInv
  <1>1. CASE w.pc = "idle"
    BY <1>1 DEF RecordAgrees
  <1>2. CASE w.pc # "idle"
    <2>1. /\ w.job \in Jobs /\ w.epoch \in 1..MaxAttempts
          /\ job[w.job].status # "absent" /\ w.epoch <= job[w.job].leaseVersion
      BY <1>2 DEF RecordAgrees
    <2>2. /\ sent[w.job] \subseteq sent'[w.job]
          /\ job[w.job].leaseVersion <= job'[w.job].leaseVersion
          /\ job'[w.job].status # "absent" /\ job'[w.job].intent = job[w.job].intent
      BY <1>0, <2>1, RowsGrow DEF RowGrows
    <2>3. w.epoch <= job'[w.job].leaseVersion
      <3>1. job[w.job].leaseVersion \in Nat /\ job'[w.job].leaseVersion \in Nat /\ w.epoch \in Nat
        <4>1. JobsTypeOK /\ JobsTypeOK'
          BY <1>0, JobsNextInv DEF JobsInv
        <4>. QED  BY <2>1, <4>1, JobsAssumption DEF JobsTypeOK, Job
      <3>. QED  BY <2>1, <2>2, <3>1
    <2>4. ASSUME w.pc = "swap"
          PROVE  /\ w.version <= version'[job'[w.job].intent.unit]
                 /\ version'[job'[w.job].intent.unit] = w.version
                      => Admissible(Result(w.job, w.text))'
      <3>1. w.text \in Texts
        BY <2>4 DEF RecordAgrees, RunnersInv, Answered
      <3>2. Result(w.job, w.text) \in Revision
        BY <1>0, <2>1, <3>1, ResultTyped
      <3>3. PICK rev \in Revision : rev = Result(w.job, w.text)
        BY <3>2
      <3>4. rev.unit = job[w.job].intent.unit /\ Result(w.job, w.text)' = rev
        BY <2>2, <3>3 DEF Result
      <3>5. /\ w.version <= version[rev.unit]
            /\ version[rev.unit] = w.version => Admissible(rev)
        BY <2>4, <3>3, <3>4 DEF RecordAgrees
      <3>6. CheckHolds(rev)
        BY <1>0, JobsSteps, ChecksHold DEF JobsInv, JobsTypeOK
      <3>7. /\ version[rev.unit] \in Nat /\ version'[rev.unit] \in Nat /\ w.version \in Nat
        <4>1. StoreTypeOK /\ StoreTypeOK'
          BY <1>0, JobsNextInv DEF JobsInv, JobsTypeOK
        <4>. QED  BY <4>1 DEF StoreTypeOK, Revision, Runner
      <3>8. /\ w.version <= version'[rev.unit]
            /\ version'[rev.unit] = w.version => Admissible(rev)'
        BY <3>5, <3>6, <3>7 DEF CheckHolds
      <3>9. Admissible(rev)' => Admissible(Result(w.job, w.text))'
        BY <3>4 DEF Admissible, InputCurrent, MayReplace
      <3>. QED  BY <2>2, <3>4, <3>8, <3>9
    <2>. QED  BY <2>1, <2>2, <2>3, <2>4 DEF RecordAgrees
  <1>. QED  BY <1>1, <1>2

-----------------------------------------------------------------------------
(* What a step must do to keep the invariant *)

\* No job becomes completed.
NoEnds == \A j \in Jobs : job'[j].status = "completed" => job'[j] = job[j]

\* A job that becomes completed has the answer given under its last lease.
TrueEnds ==
  \A j \in Jobs : job'[j].status = "completed" =>
    \/ job'[j] = job[j]
    \/ \E x \in Texts : Result(j, x)' \in revisions' /\ <<j, job'[j].leaseVersion, x>> \in answers'

CallsGrow == /\ calls' \subseteq Keys
             /\ \A k \in calls' : k \in calls \/ k[2] \in sent'[k[1]]

AnswersGrow == answers \subseteq answers' /\ Answered'

\* What every step does: transactions of the store, and the invariant again.
Kept == StoreMoves /\ RunnersInv'

LEMMA StepKeeps ==
  ASSUME RunnersInv, StoreMoves, TrueEnds, CallsGrow, AnswersGrow,
         runner' \in [Runners -> Runner],
         \A s \in Runners : runner'[s] = runner[s] \/ RecordAgrees(runner[s])',
         LeasesAreExclusive'
  PROVE  Kept
  <1>0. JobsInv /\ [JobsNext]_jobsVars
    BY MovesAreJobsSteps DEF RunnersInv
  <1>1. JobsInv'
    BY <1>0, JobsNextInv
  <1>2. (Accounted => AccountsInv)' /\ AccountingTypeOK'
    <2>1. CASE Accounted
      BY <2>1, AccountsNextInv DEF RunnersInv, StoreMoves, AccountsInv
    <2>2. CASE ~Accounted
      BY <1>1, <2>2 DEF RunnersInv, StoreMoves, AccountingTypeOK, accountVars, JobsInv
    <2>. QED  BY <2>1, <2>2
  <1>3. ASSUME NEW s \in Runners, runner'[s] = runner[s] PROVE RecordAgrees(runner[s])'
    <2>1. PICK v \in Runner : v = runner[s]
      BY DEF RunnersInv
    <2>2. RecordAgrees(v)
      BY <2>1 DEF RunnersInv
    <2>3. RecordAgrees(v)'
      BY <2>2, RecordStillAgrees DEF AnswersGrow
    <2>. QED  BY <1>3, <2>1, <2>3 DEF RecordAgrees
  <1>4. CallsSent'
    <2>1. ASSUME NEW k \in calls' PROVE k[2] \in sent'[k[1]]
      <3>1. k[1] \in Jobs
        BY DEF CallsGrow, Keys
      <3>2. sent[k[1]] \subseteq sent'[k[1]]
        BY <1>0, <3>1, RowsGrow DEF RowGrows
      <3>. QED  BY <3>2 DEF CallsGrow, RunnersInv, CallsSent
    <2>. QED  BY <2>1 DEF CallsSent
  <1>5. CompletedFromLastLease'
    <2>. SUFFICES ASSUME NEW j \in Jobs, job'[j].status = "completed"
                  PROVE  \E x \in Texts : /\ Result(j, x)' \in revisions'
                                          /\ <<j, job'[j].leaseVersion, x>> \in answers'
      BY DEF CompletedFromLastLease
    <2>1. CASE job'[j] = job[j]
      <3>1. \A x : Result(j, x)' = Result(j, x)
        BY <2>1 DEF Result
      <3>2. revisions \subseteq revisions' /\ answers \subseteq answers'
        BY <1>0, JobsSteps, StoreStepKeeps DEF AnswersGrow
      <3>3. PICK x \in Texts : Result(j, x) \in revisions /\ <<j, job[j].leaseVersion, x>> \in answers
        BY <2>1 DEF RunnersInv, CompletedFromLastLease
      <3>. QED  BY <2>1, <3>1, <3>2, <3>3
    <2>. QED  BY <2>1 DEF TrueEnds
  <1>. QED  BY <1>1, <1>2, <1>3, <1>4, <1>5 DEF Kept, RunnersInv, CallsGrow, AnswersGrow

\* Worker r goes on as w: with no lease, the lease it had, or a new one.
KeepsItsLease(r, w) ==
  \/ w.pc = "idle"
  \/ runner[r].pc # "idle" /\ w.job = runner[r].job /\ w.epoch = runner[r].epoch
  \/ w.job \in Jobs /\ job[w.job].leaseVersion < w.epoch

LEMMA WorkerKeeps ==
  ASSUME RunnersInv, StoreMoves, TrueEnds, CallsGrow, AnswersGrow,
         NEW r \in Runners, NEW w \in Runner,
         runner' = [runner EXCEPT ![r] = w], RecordAgrees(w)', KeepsItsLease(r, w)
  PROVE  Kept
  <1>1. /\ runner' \in [Runners -> Runner] /\ runner'[r] = w
        /\ \A s \in Runners : s # r => runner'[s] = runner[s]
    BY DEF RunnersInv
  <1>2. RecordAgrees(runner[r])'
    BY <1>1 DEF RecordAgrees
  <1>3. LeasesAreExclusive'
    <2>1. ASSUME NEW s \in Runners, s # r, w.pc # "idle", runner[s].pc # "idle"
          PROVE  <<w.job, w.epoch>> # <<runner[s].job, runner[s].epoch>>
      <3>1. CASE runner[r].pc # "idle" /\ w.job = runner[r].job /\ w.epoch = runner[r].epoch
        BY <2>1, <3>1 DEF RunnersInv, LeasesAreExclusive, At
      <3>2. CASE w.job \in Jobs /\ job[w.job].leaseVersion < w.epoch
        <4>1. /\ runner[s].job \in Jobs /\ runner[s].epoch \in Nat
              /\ runner[s].epoch <= job[runner[s].job].leaseVersion
          <5>1. RecordAgrees(runner[s])
            BY DEF RunnersInv
          <5>. QED  BY <2>1, <5>1, JobsAssumption DEF RecordAgrees
        <4>2. job[w.job].leaseVersion \in Nat /\ w.epoch \in Nat
          BY <3>2, JobsAssumption DEF RunnersInv, JobsInv, JobsTypeOK, Job, Runner
        <4>. QED  BY <3>2, <4>1, <4>2
      <3>. QED  BY <2>1, <3>1, <3>2 DEF KeepsItsLease
    <2>2. ASSUME NEW s \in Runners, NEW t \in Runners, s # t, runner'[s].pc # "idle",
                 runner'[t].pc # "idle"
          PROVE  <<runner'[s].job, runner'[s].epoch>> # <<runner'[t].job, runner'[t].epoch>>
      <3>1. CASE s # r /\ t # r
        BY <1>1, <2>2, <3>1 DEF RunnersInv, LeasesAreExclusive, At
      <3>2. CASE s = r
        BY <1>1, <2>1, <2>2, <3>2
      <3>3. CASE t = r
        BY <1>1, <2>1, <2>2, <3>3
      <3>. QED  BY <3>1, <3>2, <3>3
    <2>. QED  BY <2>2 DEF LeasesAreExclusive, At
  <1>. QED  BY <1>1, <1>2, <1>3, StepKeeps

-----------------------------------------------------------------------------
(* Which transactions complete a job *)

LEMMA OneRowQuiet ==
  ASSUME JobsInv, NEW j \in Jobs, NEW row, job' = [job EXCEPT ![j] = row],
         row.status # "completed"
  PROVE  NoEnds
  BY DEF JobsInv, JobsTypeOK, NoEnds

LEMMA SameRowsQuiet == job' = job => NoEnds
  BY DEF NoEnds

LEMMA QuietQueue ==
  ASSUME JobsInv, NEW j \in Jobs
  PROVE  (EnqueueJob(j) \/ ExhaustJob(j) \/ LeaseJob(j) \/ CancelJob(j) \/ Elapse(j)) => NoEnds
  <1>row. job[j] \in Job /\ Abandon(job[j]) \in Job
    BY RowTyped, AbandonKeepsRecord
  <1>1. ASSUME EnqueueJob(j) PROVE NoEnds
    <2>. DEFINE row == [Absent EXCEPT !.status = "queued", !.due = TRUE, !.intent =
             [unit |-> Slot[j][1], locale |-> Slot[j][2], id |-> Slot[j][3], provenance |-> "ai",
              sourceVersion |-> SourceVersion(Slot[j][1]), wording |-> Wording(Slot[j][1]),
              expectedHead |-> head[<<Slot[j][1], Slot[j][2]>>]]]
    <2>1. job' = [job EXCEPT ![j] = row]
      BY <1>1 DEF EnqueueJob
    <2>2. row.status = "queued"
      BY DEF Absent
    <2>. HIDE DEF row
    <2>. QED  BY <2>1, <2>2, OneRowQuiet
  <1>2. ASSUME ExhaustJob(j) PROVE NoEnds
    <2>. DEFINE row == [Abandon(job[j]) EXCEPT !.status = "failed", !.due = FALSE,
                                               !.lastError = "attempt-limit"]
    <2>1. job' = [job EXCEPT ![j] = row]
      BY <1>2 DEF ExhaustJob
    <2>2. row.status = "failed"
      BY <1>row DEF Job
    <2>. HIDE DEF row
    <2>. QED  BY <2>1, <2>2, OneRowQuiet
  <1>3. ASSUME LeaseJob(j) PROVE NoEnds
    <2>. DEFINE row == Leased(job[j])
    <2>1. job' = [job EXCEPT ![j] = row]
      BY <1>3 DEF LeaseJob
    <2>2. row.status = "leased"
      BY <1>row DEF Job, Leased
    <2>. HIDE DEF row
    <2>. QED  BY <2>1, <2>2, OneRowQuiet
  <1>4. ASSUME CancelJob(j) PROVE NoEnds
    <2>. DEFINE row == [Abandon(job[j]) EXCEPT !.status = "cancelled", !.due = FALSE]
    <2>1. job' = [job EXCEPT ![j] = row]
      BY <1>4 DEF CancelJob
    <2>2. row.status = "cancelled"
      BY <1>row DEF Job
    <2>. HIDE DEF row
    <2>. QED  BY <2>1, <2>2, OneRowQuiet
  <1>5. ASSUME Elapse(j) PROVE NoEnds
    <2>. DEFINE row == [job[j] EXCEPT !.due = TRUE]
    <2>1. job' = [job EXCEPT ![j] = row]
      BY <1>5 DEF Elapse
    <2>2. row.status # "completed"
      BY <1>5, <1>row DEF Elapse, Open, Job
    <2>. HIDE DEF row
    <2>. QED  BY <2>1, <2>2, OneRowQuiet
  <1>. QED  BY <1>1, <1>2, <1>3, <1>4, <1>5

LEMMA QuietDispatch ==
  ASSUME JobsInv, NEW j \in Jobs, NEW e \in 1..MaxAttempts
  PROVE  (MarkJobDispatched(j, e) \/ DispatchAttempt(j, e)) => NoEnds
  <1>row. job[j] \in Job
    BY RowTyped
  <1>1. ASSUME Live(j, e), Dispatch(j) PROVE NoEnds
    <2>. DEFINE row == [job[j] EXCEPT !.dispatched = TRUE]
    <2>1. job' = [job EXCEPT ![j] = row]
      BY <1>1 DEF Dispatch
    <2>2. row.status # "completed"
      BY <1>1, <1>row DEF Live, Job
    <2>. HIDE DEF row
    <2>. QED  BY <2>1, <2>2, OneRowQuiet
  <1>2. ASSUME MarkJobDispatched(j, e), InputProblem(j) PROVE NoEnds
    <2>. DEFINE row == [job[j] EXCEPT !.status = "failed", !.lastError = ProblemCode(j)]
    <2>1. job' = [job EXCEPT ![j] = row]
      BY <1>2 DEF MarkJobDispatched
    <2>2. row.status # "completed"
      BY <1>row DEF Job
    <2>. HIDE DEF row
    <2>. QED  BY <2>1, <2>2, OneRowQuiet
  <1>. QED  BY <1>1, <1>2 DEF MarkJobDispatched, DispatchAttempt, MayDispatch

LEMMA QuietFail ==
  ASSUME JobsInv, NEW j \in Jobs, NEW e, NEW code, NEW retryable \in BOOLEAN, NEW due \in BOOLEAN,
         FailJob(j, e, code, retryable, due)
  PROVE  NoEnds
  <1>. DEFINE again == retryable /\ job[j].attempt < MaxAttempts
              row == [Abandon(job[j]) EXCEPT !.lastError = code,
                         !.status = IF again THEN "queued" ELSE "failed", !.due = again /\ due]
  <1>1. job' = [job EXCEPT ![j] = row]
    BY DEF FailJob
  <1>2. Abandon(job[j]) \in Job
    BY RowTyped, AbandonKeepsRecord
  <1>3. row.status # "completed"
    <2>. HIDE DEF again
    <2>. QED  BY <1>2 DEF Job
  <1>. HIDE DEF row
  <1>. QED  BY <1>1, <1>3, OneRowQuiet

-----------------------------------------------------------------------------
(* The ways a worker goes on *)

\* The step leaves the external record of calls and answers alone and ends no job.
Quiet == NoCall /\ NoEnds

LEMMA QuietIsTrue ==
  ASSUME RunnersInv, Quiet
  PROVE  TrueEnds /\ CallsGrow /\ AnswersGrow
  BY DEF RunnersInv, Quiet, NoCall, NoEnds, TrueEnds, CallsGrow, AnswersGrow, Answered

LEMMA ReadsMove == UNCHANGED accountingVars => StoreMoves /\ NoEnds
  BY SameRowsQuiet DEF StoreMoves, accountingVars, jobsVars, jobVars

LEMMA Returns ==
  ASSUME RunnersInv, NEW r \in Runners, StoreMoves, TrueEnds, CallsGrow, AnswersGrow, Return(r)
  PROVE  Kept
  <1>1. PICK w \in Runner : w = Idle
    BY IdleTyped
  <1>2. w.pc = "idle" /\ runner' = [runner EXCEPT ![r] = w]
    BY <1>1 DEF Idle, Return
  <1>3. RecordAgrees(w)' /\ KeepsItsLease(r, w)
    BY <1>2 DEF RecordAgrees, KeepsItsLease
  <1>. QED  BY <1>2, <1>3, WorkerKeeps

\* What a busy worker remembers is still true after the step.
LEMMA Remembers ==
  ASSUME RunnersInv, StoreMoves, answers \subseteq answers', NEW r \in Runners, ~At(r, "idle")
  PROVE  \E v \in Runner : /\ v = runner[r] /\ v.pc # "idle"
                           /\ RecordAgrees(v) /\ RecordAgrees(v)'
  <1>1. PICK v \in Runner : v = runner[r]
    BY DEF RunnersInv
  <1>2. RecordAgrees(v)
    BY <1>1 DEF RunnersInv
  <1>3. RecordAgrees(v)'
    BY <1>2, RecordStillAgrees
  <1>4. v.pc # "idle"
    BY <1>1 DEF At
  <1>. QED  BY <1>1, <1>2, <1>3, <1>4

LEMMA Fails ==
  ASSUME RunnersInv, NEW r \in Runners, ~At(r, "idle"), StoreMoves, Quiet,
         NEW code \in JobErrors, NEW retryable \in BOOLEAN, ToFail(r, code, retryable)
  PROVE  Kept
  <1>0. TrueEnds /\ CallsGrow /\ AnswersGrow
    BY QuietIsTrue
  <1>1. PICK v \in Runner : v = runner[r] /\ v.pc # "idle" /\ RecordAgrees(v) /\ RecordAgrees(v)'
    BY <1>0, Remembers DEF AnswersGrow
  <1>. DEFINE fails == [Idle EXCEPT !.pc = "fail", !.job = v.job, !.epoch = v.epoch,
                                    !.code = code, !.retryable = retryable]
  <1>2. fails \in Runner
    BY IdleTyped DEF Runner, PCs
  <1>3. fails.pc = "fail" /\ fails.job = v.job /\ fails.epoch = v.epoch /\ fails.code = code
    BY DEF Idle
  <1>4. runner' = [runner EXCEPT ![r] = fails]
    BY <1>1 DEF ToFail
  <1>. HIDE DEF fails
  <1>5. PICK w \in Runner : w = fails
    BY <1>2
  <1>6. RecordAgrees(w)'
    BY <1>1, <1>3, <1>5 DEF RecordAgrees
  <1>7. KeepsItsLease(r, w)
    BY <1>1, <1>3, <1>5 DEF KeepsItsLease
  <1>. QED  BY <1>0, <1>4, <1>5, <1>6, <1>7, WorkerKeeps

\* The worker keeps its job and lease and moves on to pc, with what it knows.
LEMMA Goes ==
  ASSUME RunnersInv, NEW r \in Runners, ~At(r, "idle"), StoreMoves, TrueEnds, CallsGrow,
         AnswersGrow, NEW w \in Runner, runner' = [runner EXCEPT ![r] = w],
         w.job = runner[r].job, w.epoch = runner[r].epoch, w.pc \notin {"idle", "fail", "swap"},
         w.pc \in {"release", "settle"} => Accounted,
         w.pc \in {"call", "calling", "settle", "write"} => w.epoch \in sent'[w.job],
         (w.pc = "write" \/ (w.pc = "settle" /\ w.code = "none"))
           => <<w.job, w.epoch, w.text>> \in answers'
  PROVE  Kept
  <1>1. PICK v \in Runner : v = runner[r] /\ v.pc # "idle" /\ RecordAgrees(v) /\ RecordAgrees(v)'
    BY Remembers DEF AnswersGrow
  <1>2. RecordAgrees(w)'
    BY <1>1 DEF RecordAgrees
  <1>3. KeepsItsLease(r, w)
    BY <1>1 DEF KeepsItsLease
  <1>. QED  BY <1>2, <1>3, WorkerKeeps

LEMMA GoesTo ==
  ASSUME RunnersInv, NEW r \in Runners, ~At(r, "idle"), StoreMoves, TrueEnds, CallsGrow,
         AnswersGrow, NEW pc \in PCs \ {"idle", "fail", "settle", "swap"}, Goto(r, pc),
         pc = "release" => Accounted,
         pc \in {"call", "calling", "write"} => runner[r].epoch \in sent'[runner[r].job],
         pc = "write" => <<runner[r].job, runner[r].epoch, runner[r].text>> \in answers'
  PROVE  Kept
  <1>1. PICK v \in Runner : v = runner[r]
    BY DEF RunnersInv
  <1>2. PICK w \in Runner : w = [v EXCEPT !.pc = pc]
    BY DEF Runner
  <1>3. w.pc = pc /\ w.job = v.job /\ w.epoch = v.epoch /\ w.text = v.text
    BY <1>2 DEF Runner
  <1>4. runner' = [runner EXCEPT ![r] = w]
    BY <1>1, <1>2 DEF Goto, RunnersInv
  <1>5. w.pc \in {"call", "calling", "settle", "write"} => w.epoch \in sent'[w.job]
    BY <1>1, <1>3
  <1>6. (w.pc = "write" \/ (w.pc = "settle" /\ w.code = "none"))
          => <<w.job, w.epoch, w.text>> \in answers'
    BY <1>1, <1>3
  <1>7. w.pc \in {"release", "settle"} => Accounted
    BY <1>3
  <1>8. w.job = runner[r].job /\ w.epoch = runner[r].epoch /\ w.pc \notin {"idle", "fail", "swap"}
    BY <1>1, <1>3
  <1>. QED  BY <1>4, <1>5, <1>6, <1>7, <1>8, Goes

\* What the store does for the workers are its own transactions.
LEMMA QueueMoves == (StoreNext \/ QueueNext) /\ UNCHANGED accountVars => StoreMoves
  BY DEF StoreMoves, AccountingNext, JobsNext

LEMMA AccountMoves == Accounted /\ AccountNext => StoreMoves
  BY DEF StoreMoves, AccountingNext

\* The local variables of a busy worker name a lease.
LEMMA BusyRecord ==
  ASSUME RunnersInv, NEW r \in Runners, ~At(r, "idle")
  PROVE  \E v \in Runner : /\ v = runner[r] /\ v.pc # "idle" /\ RecordAgrees(v)
                           /\ v.job \in Jobs /\ v.epoch \in 1..MaxAttempts
  BY DEF RunnersInv, RecordAgrees, At

-----------------------------------------------------------------------------
(* One lemma per step of a worker *)

LEMMA ReadingKeeps ==
  ASSUME RunnersInv, NEW r \in Runners, UNCHANGED accountingVars, NoCall, ~At(r, "idle"),
         \/ Return(r)
         \/ \E code \in JobErrors, retryable \in BOOLEAN : ToFail(r, code, retryable)
  PROVE  Kept
  <1>1. StoreMoves /\ Quiet
    BY ReadsMove DEF Quiet
  <1>2. TrueEnds /\ CallsGrow /\ AnswersGrow
    BY <1>1, QuietIsTrue
  <1>3. CASE Return(r)
    BY <1>1, <1>2, <1>3, Returns
  <1>4. ASSUME NEW code \in JobErrors, NEW retryable \in BOOLEAN, ToFail(r, code, retryable)
        PROVE  Kept
    BY <1>1, <1>4, Fails
  <1>. QED  BY <1>3, <1>4

LEMMA RefuseKeeps ==
  ASSUME RunnersInv, NEW r \in Runners, Refuse(r)
  PROVE  Kept
  BY ReadingKeeps DEF Refuse, At, JobErrors

LEMMA LoseCallKeeps ==
  ASSUME RunnersInv, NEW r \in Runners, LoseCall(r)
  PROVE  Kept
  BY ReadingKeeps DEF LoseCall, At, JobErrors

LEMMA CrashKeeps ==
  ASSUME RunnersInv, NEW r \in Runners, Crash(r)
  PROVE  Kept
  BY ReadingKeeps DEF Crash

LEMMA AuthorizeKeeps ==
  ASSUME RunnersInv, NEW r \in Runners, Authorize(r)
  PROVE  Kept
  <1>1. StoreMoves /\ Quiet /\ ~At(r, "idle")
    BY ReadsMove DEF Authorize, Quiet, At
  <1>2. TrueEnds /\ CallsGrow /\ AnswersGrow
    BY <1>1, QuietIsTrue
  <1>3. Goto(r, "dispatch") /\ "dispatch" \in PCs \ {"idle", "fail", "settle", "swap"}
    BY DEF Authorize, PCs
  <1>. QED  BY <1>1, <1>2, <1>3, GoesTo

LEMMA ClaimKeeps ==
  ASSUME RunnersInv, NEW r \in Runners, NEW j \in Jobs, Claim(r, j)
  PROVE  Kept
  <1>typed. JobsInv /\ job[j] \in Job /\ RowIsTrue(j) /\ job \in [Jobs -> Job]
    BY RowTyped DEF RunnersInv, JobsInv, JobsTypeOK
  <1>0. LeaseJob(j) \/ ExhaustJob(j)
    BY DEF Claim
  <1>1. StoreMoves
    BY <1>0, QueueMoves DEF Claim, QueueNext
  <1>2. Quiet
    BY <1>0, <1>typed, QuietQueue DEF Quiet, Claim
  <1>3. TrueEnds /\ CallsGrow /\ AnswersGrow
    BY <1>2, QuietIsTrue
  <1>4. CASE UNCHANGED runner
    BY <1>1, <1>3, <1>4, StepKeeps DEF RunnersInv, LeasesAreExclusive, At
  <1>5. CASE /\ LeaseJob(j)
             /\ runner' = [runner EXCEPT ![r] = [Idle EXCEPT !.pc = "claimed", !.job = j,
                                                   !.epoch = job'[j].leaseVersion]]
    <2>1. job[j].status # "absent" /\ job[j].attempt < MaxAttempts /\ job'[j] = Leased(job[j])
      BY <1>5, <1>typed DEF LeaseJob, Claimable, Open
    <2>2. Leased(job[j]).leaseVersion = job[j].leaseVersion + 1 /\ Leased(job[j]).status = "leased"
      BY <1>typed, AbandonKeepsRecord DEF Leased, Job
    <2>3. job[j].leaseVersion = job[j].attempt /\ job[j].attempt \in Nat
      BY <1>typed, JobsAssumption DEF RowIsTrue, Job
    <2>4. PICK e \in 1..MaxAttempts : e = job[j].leaseVersion + 1
      BY <2>1, <2>3, JobsAssumption
    <2>. DEFINE claimed == [Idle EXCEPT !.pc = "claimed", !.job = j, !.epoch = e]
    <2>5. claimed \in Runner
      <3>1. e \in 0..MaxAttempts
        OBVIOUS
      <3>2. Idle \in Runner /\ "claimed" \in PCs
        BY IdleTyped DEF PCs
      <3>. QED  BY <3>1, <3>2 DEF Runner
    <2>6. claimed.pc = "claimed" /\ claimed.job = j /\ claimed.epoch = e
      BY DEF Idle
    <2>7. runner' = [runner EXCEPT ![r] = claimed]
      BY <1>5, <2>1, <2>2, <2>4
    <2>. HIDE DEF claimed
    <2>8. PICK w \in Runner : w = claimed
      BY <2>5
    <2>9. RecordAgrees(w)'
      BY <2>1, <2>2, <2>4, <2>6, <2>8 DEF RecordAgrees
    <2>10. KeepsItsLease(r, w)
      BY <2>3, <2>4, <2>6, <2>8 DEF KeepsItsLease
    <2>. QED  BY <1>1, <1>3, <2>7, <2>8, <2>9, <2>10, WorkerKeeps
  <1>. QED  BY <1>4, <1>5 DEF Claim

LEMMA ReserveKeepsRunners ==
  ASSUME RunnersInv, NEW r \in Runners, Reserve(r)
  PROVE  Kept
  <1>busy. ~At(r, "idle") /\ NoCall /\ Accounted
    BY DEF Reserve, At
  <1>1. PICK v \in Runner : v = runner[r] /\ v.job \in Jobs /\ v.epoch \in 1..MaxAttempts
    BY <1>busy, BusyRecord
  <1>2. Policy[v.job][1] \in Allowances /\ Policy[v.job][2] \in Amounts
    BY <1>1, RunnerAssumption
  <1>3. CASE UNCHANGED accountingVars /\ ToFail(r, "denied", FALSE)
    BY <1>busy, <1>3, ReadingKeeps DEF JobErrors
  <1>4. CASE /\ ReserveAttempt(v.job, v.epoch, Policy[v.job][1], Policy[v.job][2])
             /\ Goto(r, "dispatch") \/ ToFail(r, "denied", FALSE)
    <2>1. StoreMoves
      BY <1>busy, <1>1, <1>2, <1>4, AccountMoves DEF AccountNext
    <2>2. Quiet
      BY <1>busy, <1>4, SameRowsQuiet DEF ReserveAttempt, jobsVars, jobVars, Quiet
    <2>3. TrueEnds /\ CallsGrow /\ AnswersGrow
      BY <2>2, QuietIsTrue
    <2>4. CASE Goto(r, "dispatch")
      <3>1. "dispatch" \in PCs \ {"idle", "fail", "settle", "swap"}
        BY DEF PCs
      <3>. QED  BY <1>busy, <2>1, <2>3, <2>4, <3>1, GoesTo
    <2>5. CASE ToFail(r, "denied", FALSE)
      BY <1>busy, <2>1, <2>2, <2>5, Fails DEF JobErrors
    <2>. QED  BY <1>4, <2>4, <2>5
  <1>. QED  BY <1>1, <1>3, <1>4 DEF Reserve

LEMMA DispatchAccountedKeeps ==
  ASSUME RunnersInv, NEW r \in Runners, DispatchAccounted(r)
  PROVE  Kept
  <1>busy. ~At(r, "idle") /\ NoCall /\ Accounted
    BY DEF DispatchAccounted, At
  <1>1. PICK v \in Runner : v = runner[r] /\ v.job \in Jobs /\ v.epoch \in 1..MaxAttempts
    BY <1>busy, BusyRecord
  <1>2. CASE UNCHANGED accountingVars /\ Goto(r, "release")
    <2>1. StoreMoves /\ Quiet
      BY <1>busy, <1>2, ReadsMove DEF Quiet
    <2>2. TrueEnds /\ CallsGrow /\ AnswersGrow
      BY <2>1, QuietIsTrue
    <2>3. "release" \in PCs \ {"idle", "fail", "settle", "swap"}
      BY DEF PCs
    <2>. QED  BY <1>busy, <1>2, <2>1, <2>2, <2>3, GoesTo
  <1>3. CASE /\ DispatchAttempt(v.job, v.epoch)
             /\ Goto(r, "call") \/ ToFail(r, "denied", FALSE)
    <2>1. StoreMoves
      BY <1>busy, <1>1, <1>3, AccountMoves DEF AccountNext
    <2>2. Quiet
      BY <1>busy, <1>1, <1>3, QuietDispatch DEF Quiet, RunnersInv
    <2>3. TrueEnds /\ CallsGrow /\ AnswersGrow
      BY <2>2, QuietIsTrue
    <2>4. v.epoch \in sent'[v.job]
      BY <1>1, <1>3 DEF DispatchAttempt, MayDispatch, Dispatch, Live, RunnersInv, JobsInv, JobsTypeOK
    <2>5. CASE Goto(r, "call")
      <3>1. "call" \in PCs \ {"idle", "fail", "settle", "swap"}
        BY DEF PCs
      <3>. QED  BY <1>busy, <1>1, <2>1, <2>3, <2>4, <2>5, <3>1, GoesTo
    <2>6. CASE ToFail(r, "denied", FALSE)
      BY <1>busy, <2>1, <2>2, <2>6, Fails DEF JobErrors
    <2>. QED  BY <1>3, <2>5, <2>6
  <1>. QED  BY <1>1, <1>2, <1>3 DEF DispatchAccounted

LEMMA DispatchPlainKeeps ==
  ASSUME RunnersInv, NEW r \in Runners, DispatchPlain(r)
  PROVE  Kept
  <1>busy. ~At(r, "idle") /\ NoCall /\ ~Accounted /\ UNCHANGED accountVars
    BY DEF DispatchPlain, At
  <1>1. PICK v \in Runner : v = runner[r] /\ v.job \in Jobs /\ v.epoch \in 1..MaxAttempts
    BY <1>busy, BusyRecord
  <1>2. CASE UNCHANGED jobsVars /\ Return(r)
    BY <1>busy, <1>2, ReadingKeeps DEF accountingVars
  <1>3. CASE /\ MarkJobDispatched(v.job, v.epoch)
             /\ IF InputProblem(v.job) THEN Return(r)
                ELSE Goto(r, "call") \/ ToFail(r, "denied", FALSE)
    <2>1. StoreMoves
      BY <1>busy, <1>1, <1>3 DEF StoreMoves, JobsNext
    <2>2. Quiet
      BY <1>busy, <1>1, <1>3, QuietDispatch DEF Quiet, RunnersInv
    <2>3. TrueEnds /\ CallsGrow /\ AnswersGrow
      BY <2>2, QuietIsTrue
    <2>4. CASE Return(r)
      BY <2>1, <2>3, <2>4, Returns
    <2>5. CASE ~InputProblem(v.job) /\ Goto(r, "call")
      <3>1. v.epoch \in sent'[v.job]
        BY <1>1, <1>3, <2>5 DEF MarkJobDispatched, Dispatch, Live, RunnersInv, JobsInv, JobsTypeOK
      <3>2. "call" \in PCs \ {"idle", "fail", "settle", "swap"}
        BY DEF PCs
      <3>. QED  BY <1>busy, <1>1, <2>1, <2>3, <2>5, <3>1, <3>2, GoesTo
    <2>6. CASE ToFail(r, "denied", FALSE)
      BY <1>busy, <2>1, <2>2, <2>6, Fails DEF JobErrors
    <2>. QED  BY <1>3, <2>4, <2>5, <2>6
  <1>. QED  BY <1>1, <1>2, <1>3 DEF DispatchPlain

LEMMA ReleaseKeepsRunners ==
  ASSUME RunnersInv, NEW r \in Runners, Release(r)
  PROVE  Kept
  <1>busy. ~At(r, "idle") /\ NoCall
    BY DEF Release, At
  <1>1. PICK v \in Runner : v = runner[r] /\ v.job \in Jobs /\ v.epoch \in 1..MaxAttempts
                             /\ RecordAgrees(v)
    BY <1>busy, BusyRecord
  <1>2. Accounted /\ ReleaseAttempt(v.job, v.epoch)
    BY <1>1 DEF Release, RecordAgrees, At
  <1>3. StoreMoves
    BY <1>1, <1>2, AccountMoves DEF AccountNext
  <1>4. Quiet
    BY <1>busy, <1>2, SameRowsQuiet DEF ReleaseAttempt, jobsVars, jobVars, Quiet
  <1>5. TrueEnds /\ CallsGrow /\ AnswersGrow
    BY <1>4, QuietIsTrue
  <1>6. CASE Return(r)
    BY <1>3, <1>5, <1>6, Returns
  <1>7. CASE ToFail(r, "denied", FALSE)
    BY <1>busy, <1>3, <1>4, <1>7, Fails DEF JobErrors
  <1>. QED  BY <1>6, <1>7 DEF Release

LEMMA CallKeeps ==
  ASSUME RunnersInv, NEW r \in Runners, Call(r)
  PROVE  Kept
  <1>1. ~At(r, "idle") /\ UNCHANGED accountingVars /\ answers' = answers /\ Goto(r, "calling")
    BY DEF Call, At
  <1>2. StoreMoves /\ NoEnds
    BY <1>1, ReadsMove
  <1>3. PICK v \in Runner : /\ v = runner[r] /\ v.job \in Jobs /\ v.epoch \in 1..MaxAttempts
                            /\ RecordAgrees(v)
    BY <1>1, BusyRecord
  <1>4. v.epoch \in sent'[v.job]
    BY <1>1, <1>3 DEF Call, At, RecordAgrees, accountingVars, jobsVars, jobVars
  <1>5. CallsGrow
    <2>1. calls' = calls \cup {<<v.job, v.epoch>>} /\ calls \subseteq Keys
      BY <1>3 DEF Call, RunnersInv
    <2>. QED  BY <1>3, <1>4, <2>1 DEF CallsGrow, Keys
  <1>6. TrueEnds /\ AnswersGrow
    BY <1>1, <1>2 DEF NoEnds, TrueEnds, AnswersGrow, RunnersInv, Answered
  <1>7. "calling" \in PCs \ {"idle", "fail", "settle", "swap"}
    BY DEF PCs
  <1>. QED  BY <1>1, <1>2, <1>3, <1>4, <1>5, <1>6, <1>7, GoesTo

LEMMA AnswerKeeps ==
  ASSUME RunnersInv, NEW r \in Runners, NEW text \in Texts,
         NEW charge \in Charges \cup {NoCharge}, Answer(r, text, charge)
  PROVE  Kept
  <1>1. ~At(r, "idle") /\ UNCHANGED accountingVars /\ calls' = calls
    BY DEF Answer, At
  <1>2. StoreMoves /\ NoEnds
    BY <1>1, ReadsMove
  <1>3. PICK v \in Runner : /\ v = runner[r] /\ v.job \in Jobs /\ v.epoch \in 1..MaxAttempts
                            /\ RecordAgrees(v)
    BY <1>1, BusyRecord
  <1>4. v.epoch \in sent'[v.job]
    BY <1>1, <1>3 DEF Answer, At, RecordAgrees, accountingVars, jobsVars, jobVars
  <1>5. <<v.job, v.epoch, text>> \in answers' /\ AnswersGrow
    BY <1>3 DEF Answer, AnswersGrow, RunnersInv, Answered
  <1>6. TrueEnds /\ CallsGrow
    BY <1>1, <1>2 DEF NoEnds, TrueEnds, CallsGrow, RunnersInv
  <1>. DEFINE pc == IF Accounted THEN "settle" ELSE "write"
              c  == IF Accounted THEN charge ELSE NoCharge
              answered == [v EXCEPT !.pc = pc, !.text = text, !.charge = c]
  <1>7. pc \in PCs /\ c \in Charges \cup {NoCharge} /\ (pc = "settle" => Accounted)
        /\ pc \in {"settle", "write"}
    BY DEF PCs
  <1>8. runner' = [runner EXCEPT ![r].pc = pc, ![r].text = text, ![r].charge = c]
    BY DEF Answer
  <1>. HIDE DEF pc, c
  <1>9. answered \in Runner
    BY <1>7 DEF Runner
  <1>10. /\ answered.pc = pc /\ answered.job = v.job /\ answered.epoch = v.epoch
         /\ answered.text = text
    BY DEF Runner
  <1>11. runner' = [runner EXCEPT ![r] = answered]
    BY <1>3, <1>8 DEF RunnersInv
  <1>. HIDE DEF answered
  <1>12. PICK w \in Runner : w = answered
    BY <1>9
  <1>13. /\ w.job = runner[r].job /\ w.epoch = runner[r].epoch
         /\ w.pc \notin {"idle", "fail", "swap"}
         /\ w.pc \in {"release", "settle"} => Accounted
         /\ w.epoch \in sent'[w.job] /\ <<w.job, w.epoch, w.text>> \in answers'
    BY <1>3, <1>4, <1>5, <1>7, <1>10, <1>12
  <1>. QED  BY <1>1, <1>2, <1>5, <1>6, <1>11, <1>12, <1>13, Goes

LEMMA ProviderFailsKeeps ==
  ASSUME RunnersInv, NEW r \in Runners, NEW code \in ProviderCodes, NEW permanent \in BOOLEAN,
         ProviderFails(r, code, permanent)
  PROVE  Kept
  <1>1. ~At(r, "idle") /\ UNCHANGED accountingVars /\ NoCall
    BY DEF ProviderFails, At
  <1>2. code \in JobErrors /\ code # "none"
    BY DEF ProviderCodes, JobErrors
  <1>3. CASE ~Accounted
    BY <1>1, <1>2, <1>3, ReadingKeeps DEF ProviderFails
  <1>4. CASE Accounted
    <2>1. StoreMoves /\ Quiet
      BY <1>1, ReadsMove DEF Quiet
    <2>2. TrueEnds /\ CallsGrow /\ AnswersGrow
      BY <2>1, QuietIsTrue
    <2>3. PICK v \in Runner : /\ v = runner[r] /\ v.job \in Jobs /\ v.epoch \in 1..MaxAttempts
                              /\ RecordAgrees(v)
      BY <1>1, BusyRecord
    <2>4. v.epoch \in sent'[v.job]
      BY <1>1, <2>3 DEF ProviderFails, At, RecordAgrees, accountingVars, jobsVars, jobVars
    <2>. DEFINE failed == [v EXCEPT !.pc = "settle", !.code = code]
    <2>5. failed \in Runner
      BY <1>2 DEF Runner, PCs
    <2>6. failed.pc = "settle" /\ failed.job = v.job /\ failed.epoch = v.epoch /\ failed.code = code
      BY DEF Runner
    <2>7. runner' = [runner EXCEPT ![r] = failed]
      BY <1>4, <2>3 DEF ProviderFails, RunnersInv
    <2>. HIDE DEF failed
    <2>8. PICK w \in Runner : w = failed
      BY <2>5
    <2>9. /\ w.job = runner[r].job /\ w.epoch = runner[r].epoch /\ w.pc = "settle"
          /\ w.epoch \in sent'[w.job] /\ w.code # "none"
      BY <1>2, <2>3, <2>4, <2>6, <2>8
    <2>. QED  BY <1>1, <1>4, <2>1, <2>2, <2>7, <2>8, <2>9, Goes
  <1>. QED  BY <1>3, <1>4

LEMMA SettleKeepsRunners ==
  ASSUME RunnersInv, NEW r \in Runners, Settle(r)
  PROVE  Kept
  <1>busy. ~At(r, "idle") /\ NoCall
    BY DEF Settle, At
  <1>1. PICK v \in Runner : /\ v = runner[r] /\ v.job \in Jobs /\ v.epoch \in 1..MaxAttempts
                            /\ RecordAgrees(v)
    BY <1>busy, BusyRecord
  <1>2. Accounted /\ v.pc = "settle" /\ v.epoch \in sent[v.job]
        /\ (v.code = "none" => <<v.job, v.epoch, v.text>> \in answers)
    BY <1>1 DEF Settle, At, RecordAgrees
  <1>3. v.charge \in Charges \cup {NoCharge} /\ v.code \in JobErrors \cup {"none"}
    BY DEF Runner
  <1>4. ASSUME NotSettled(r) PROVE \E code \in JobErrors : ToFail(r, code, FALSE)
    <2>1. PICK code \in JobErrors :
            code = IF v.code \in {"provider-error", "provider-timeout"} THEN v.code ELSE "denied"
      BY DEF JobErrors
    <2>2. ToFail(r, code, FALSE)
      BY <1>1, <1>4, <2>1 DEF NotSettled, ToFail
    <2>. QED  BY <2>2
  <1>5. CASE NotSettled(r) /\ UNCHANGED accountingVars
    BY <1>busy, <1>4, <1>5, ReadingKeeps
  <1>6. CASE SettleAttempt(v.job, v.epoch, v.charge) /\ (Settled(r) \/ NotSettled(r))
    <2>1. StoreMoves
      BY <1>1, <1>2, <1>3, <1>6, AccountMoves DEF AccountNext
    <2>2. Quiet
      BY <1>busy, <1>6, SameRowsQuiet DEF SettleAttempt, jobsVars, jobVars, Quiet
    <2>3. TrueEnds /\ CallsGrow /\ AnswersGrow
      BY <2>2, QuietIsTrue
    <2>4. CASE NotSettled(r)
      BY <1>busy, <1>4, <2>1, <2>2, <2>4, Fails
    <2>5. CASE Settled(r) /\ v.code # "none"
      <3>1. PICK code \in JobErrors : code = v.code
        BY <1>3, <2>5
      <3>2. ToFail(r, code, FALSE)
        BY <1>1, <2>5, <3>1 DEF Settled, ToFail
      <3>. QED  BY <1>busy, <2>1, <2>2, <3>2, Fails
    <2>6. CASE Settled(r) /\ v.code = "none"
      <3>1. Goto(r, "write") /\ "write" \in PCs \ {"idle", "fail", "settle", "swap"}
        BY <1>1, <2>6 DEF Settled, PCs
      <3>2. v.epoch \in sent'[v.job] /\ <<v.job, v.epoch, v.text>> \in answers'
        BY <1>2, <1>6, <2>2, <2>6 DEF SettleAttempt, jobsVars, jobVars, Quiet, NoCall
      <3>. QED  BY <1>busy, <1>1, <2>1, <2>3, <3>1, <3>2, GoesTo
    <2>. QED  BY <1>6, <2>4, <2>5, <2>6
  <1>. QED  BY <1>1, <1>5, <1>6 DEF Settle

\* The check is made on the state whose version the worker remembers.
LEMMA SnapshotKeeps ==
  ASSUME RunnersInv, NEW r \in Runners, Snapshot(r)
  PROVE  Kept
  <1>1. ~At(r, "idle") /\ UNCHANGED accountingVars /\ NoCall
    BY DEF Snapshot, At
  <1>2. PICK v \in Runner : /\ v = runner[r] /\ v.job \in Jobs /\ v.epoch \in 1..MaxAttempts
                            /\ RecordAgrees(v)
    BY <1>1, BusyRecord
  <1>3. CASE ~Admissible(Result(v.job, v.text))
    <2>1. PICK code \in JobErrors :
            code = IF InputProblem(v.job) THEN ProblemCode(v.job) ELSE "invalid-result"
      BY DEF JobErrors, ProblemCode
    <2>2. ToFail(r, code, FALSE)
      BY <1>2, <1>3, <2>1 DEF Snapshot, ToFail
    <2>. QED  BY <1>1, <2>2, ReadingKeeps
  <1>4. CASE Admissible(Result(v.job, v.text))
    <2>1. StoreMoves /\ Quiet
      BY <1>1, ReadsMove DEF Quiet
    <2>2. TrueEnds /\ CallsGrow /\ AnswersGrow
      BY <2>1, QuietIsTrue
    <2>3. v.pc = "write" /\ v.pc # "idle" /\ job[v.job].intent \in Intent
      <3>1. job[v.job].status # "absent" /\ v.pc = "write"
        BY <1>2 DEF RecordAgrees, Snapshot, At
      <3>. QED  BY <1>2, <3>1, RowTyped DEF RunnersInv, RowIsTrue
    <2>4. version[job[v.job].intent.unit] \in Nat
      BY <2>3 DEF RunnersInv, JobsInv, JobsTypeOK, StoreTypeOK, Intent
    <2>5. PICK n \in Nat : n = version[job[v.job].intent.unit]
      BY <2>4
    <2>. DEFINE checked == [v EXCEPT !.pc = "swap", !.version = n]
    <2>6. checked \in Runner
      BY DEF Runner, PCs
    <2>7. /\ checked.pc = "swap" /\ checked.job = v.job /\ checked.epoch = v.epoch
          /\ checked.text = v.text /\ checked.version = n
      BY DEF Runner
    <2>8. runner' = [runner EXCEPT ![r] = checked]
      BY <1>2, <1>4, <2>5 DEF Snapshot, RunnersInv
    <2>. HIDE DEF checked
    <2>9. PICK w \in Runner : w = checked
      BY <2>6
    <2>10. RecordAgrees(w)
      BY <1>2, <1>4, <2>3, <2>5, <2>7, <2>9 DEF RecordAgrees
    <2>11. RecordAgrees(w)'
      BY <2>2, <2>1, <2>10, RecordStillAgrees DEF AnswersGrow
    <2>12. KeepsItsLease(r, w)
      BY <1>2, <2>3, <2>7, <2>9 DEF KeepsItsLease
    <2>. QED  BY <2>1, <2>2, <2>8, <2>9, <2>11, <2>12, WorkerKeeps
  <1>. QED  BY <1>3, <1>4

\* As long as the version has not moved, the check made earlier still holds, so the
\* swap of a fenced job is CommitJob.
LEMMA SwapKeeps ==
  ASSUME RunnersInv, NEW r \in Runners, Swap(r)
  PROVE  Kept
  <1>busy. ~At(r, "idle") /\ NoCall /\ UNCHANGED accountVars
    BY DEF Swap, At
  <1>1. PICK v \in Runner : /\ v = runner[r] /\ v.job \in Jobs /\ v.epoch \in 1..MaxAttempts
                            /\ RecordAgrees(v)
    BY <1>busy, BusyRecord
  <1>2. /\ v.pc = "swap" /\ v.epoch \in sent[v.job] /\ v.text \in Texts
        /\ <<v.job, v.epoch, v.text>> \in answers
    BY <1>1 DEF Swap, At, RecordAgrees, RunnersInv, Answered
  <1>3. CASE UNCHANGED jobsVars /\ (Return(r) \/ ToFail(r, "write-conflict", FALSE)
                                              \/ ToFail(r, "head-changed", FALSE))
    <2>1. UNCHANGED accountingVars
      BY <1>busy, <1>3 DEF accountingVars
    <2>. QED  BY <1>busy, <1>3, <2>1, ReadingKeeps DEF JobErrors
  <1>4. CASE /\ UNCHANGED jobsVars
             /\ runner' = [runner EXCEPT ![r].pc = "write", ![r].tries = 1, ![r].version = 0]
    <2>1. StoreMoves /\ Quiet
      BY <1>busy, <1>4, ReadsMove DEF Quiet, accountingVars
    <2>2. TrueEnds /\ CallsGrow /\ AnswersGrow
      BY <2>1, QuietIsTrue
    <2>. DEFINE again == [v EXCEPT !.pc = "write", !.tries = 1, !.version = 0]
    <2>3. again \in Runner
      <3>1. "write" \in PCs /\ 1 \in 0..2 /\ 0 \in Nat
        BY DEF PCs
      <3>. QED  BY <3>1 DEF Runner
    <2>4. /\ again.pc = "write" /\ again.job = v.job /\ again.epoch = v.epoch
          /\ again.text = v.text
      BY DEF Runner
    <2>5. runner' = [runner EXCEPT ![r] = again]
      BY <1>1, <1>4 DEF RunnersInv
    <2>. HIDE DEF again
    <2>6. PICK w \in Runner : w = again
      BY <2>3
    <2>7. /\ w.job = runner[r].job /\ w.epoch = runner[r].epoch /\ w.pc = "write"
          /\ w.epoch \in sent'[w.job] /\ <<w.job, w.epoch, w.text>> \in answers'
      BY <1>busy, <1>1, <1>2, <1>4, <2>4, <2>6 DEF jobsVars, jobVars, NoCall
    <2>. QED  BY <1>busy, <2>1, <2>2, <2>5, <2>6, <2>7, Goes
  <1>5. CASE /\ ~SwapConflict(Result(v.job, v.text).unit, v.version)
             /\ Fenced(v.job, v.epoch) /\ ~IdTaken(Result(v.job, v.text))
             /\ Return(r) /\ Complete(v.job, v.text)
    <2>1. version[job[v.job].intent.unit] = v.version
      BY <1>5 DEF SwapConflict, Result
    <2>2. Admissible(Result(v.job, v.text))
      BY <1>1, <1>2, <2>1 DEF RecordAgrees
    <2>3. CommitJob(v.job, v.epoch, v.text)
      BY <1>5, <2>2 DEF CommitJob
    <2>4. StoreMoves
      BY <1>busy, <1>1, <1>2, <2>3, QueueMoves DEF QueueNext
    <2>5. CallsGrow /\ AnswersGrow
      BY <1>busy DEF NoCall, CallsGrow, AnswersGrow, RunnersInv, Answered
    <2>6. /\ \A k \in Jobs : k # v.job => job'[k] = job[k]
          /\ job'[v.job].intent = job[v.job].intent
          /\ job'[v.job].leaseVersion = v.epoch
      BY <1>1, <1>5 DEF Complete, Fenced, Live, RunnersInv, JobsInv, JobsTypeOK, Job
    <2>7. Result(v.job, v.text)' = Result(v.job, v.text)
      BY <2>6 DEF Result
    <2>8. Result(v.job, v.text) \in revisions'
      BY <1>5 DEF Complete, ApplyRevision
    <2>9. TrueEnds
      BY <1>busy, <1>2, <2>6, <2>7, <2>8 DEF TrueEnds, NoCall
    <2>. QED  BY <1>5, <2>4, <2>5, <2>9, Returns
  <1>. QED  BY <1>1, <1>3, <1>4, <1>5 DEF Swap

LEMMA FailKeeps ==
  ASSUME RunnersInv, NEW r \in Runners, Fail(r)
  PROVE  Kept
  <1>busy. ~At(r, "idle") /\ NoCall /\ UNCHANGED accountVars /\ Return(r)
    BY DEF Fail, At
  <1>1. PICK v \in Runner : /\ v = runner[r] /\ v.job \in Jobs /\ v.epoch \in 1..MaxAttempts
                            /\ RecordAgrees(v)
    BY <1>busy, BusyRecord
  <1>2. v.code \in FailureCodes /\ v.retryable \in BOOLEAN
    BY <1>1, RunnerAssumption DEF Fail, At, RecordAgrees, Runner
  <1>3. CASE UNCHANGED jobsVars
    BY <1>busy, <1>3, ReadingKeeps DEF accountingVars
  <1>4. CASE FailJob(v.job, v.epoch, v.code, v.retryable, FALSE)
    <2>1. QueueNext
      BY <1>1, <1>2, <1>4 DEF QueueNext
    <2>2. StoreMoves
      BY <1>busy, <2>1, QueueMoves
    <2>3. Quiet
      BY <1>busy, <1>1, <1>2, <1>4, QuietFail DEF Quiet, RunnersInv
    <2>. QED  BY <1>busy, <2>2, <2>3, QuietIsTrue, Returns
  <1>. QED  BY <1>1, <1>3, <1>4 DEF Fail

-----------------------------------------------------------------------------
(* The invariant is kept *)

LEMMA BystandersKeep ==
  ASSUME RunnersInv, StoreMoves, NoEnds, UNCHANGED runnerVars
  PROVE  Kept
  <1>1. Quiet /\ runner' = runner
    BY DEF Quiet, NoCall, runnerVars
  <1>. QED  BY <1>1, QuietIsTrue, StepKeeps DEF RunnersInv, LeasesAreExclusive, At

LEMMA EnvironmentKeeps ==
  ASSUME RunnersInv, Environment
  PROVE  Kept
  <1>1. CASE StoreNext /\ UNCHANGED accountVars
    <2>1. job' = job
      BY <1>1 DEF StoreNext, EditorWrite, SyncSource, jobVars
    <2>. QED  BY <1>1, <2>1, QueueMoves, SameRowsQuiet, BystandersKeep DEF Environment
  <1>2. ASSUME NEW j \in Jobs, EnqueueJob(j) \/ CancelJob(j) \/ Elapse(j), UNCHANGED accountVars
        PROVE  Kept
    <2>1. QueueNext
      BY <1>2 DEF QueueNext
    <2>2. NoEnds
      BY <1>2, QuietQueue DEF RunnersInv
    <2>. QED  BY <1>2, <2>1, <2>2, QueueMoves, BystandersKeep DEF Environment
  <1>3. ASSUME Accounted, NEW a \in Allowances, CreateAllowance(a) PROVE Kept
    <2>1. AccountNext /\ job' = job
      BY <1>3 DEF AccountNext, CreateAllowance, jobsVars, jobVars
    <2>. QED  BY <1>3, <2>1, AccountMoves, SameRowsQuiet, BystandersKeep DEF Environment
  <1>. QED  BY <1>1, <1>2, <1>3 DEF Environment

LEMMA RunnersStep == RunnersInv /\ [Next]_vars => Kept
  <1>. SUFFICES ASSUME RunnersInv, [Next]_vars PROVE Kept
    OBVIOUS
  <1>1. CASE UNCHANGED vars
    BY <1>1, ReadsMove, BystandersKeep DEF vars
  <1>2. ASSUME NEW r \in Runners, Step(r) PROVE Kept
    BY <1>2, RefuseKeeps, AuthorizeKeeps, ReserveKeepsRunners, DispatchAccountedKeeps,
       DispatchPlainKeeps, ReleaseKeepsRunners, LoseCallKeeps, CallKeeps, AnswerKeeps,
       ProviderFailsKeeps, SettleKeepsRunners, SnapshotKeeps, SwapKeeps, FailKeeps
       DEF Step
  <1>. QED  BY <1>1, <1>2, EnvironmentKeeps, CrashKeeps, ClaimKeeps DEF Next

LEMMA RunnersInvariance == Spec => []RunnersInv
  <1>1. RunnersInv /\ [Next]_vars => RunnersInv'
    BY RunnersStep DEF Kept
  <1>. QED  BY <1>1, RunnersInitInv, PTL DEF Spec

-----------------------------------------------------------------------------
(* Theorems *)

\* Every reachable state of store, accounts and workers is well-formed.
THEOREM RunnersTyped == Spec => []RunnerTypeOK
  <1>1. RunnersInv => RunnerTypeOK
    BY DEF RunnersInv, RunnerTypeOK, Answered
  <1>. QED  BY <1>1, RunnersInvariance, PTL

\* Before a provider is called the dispatch is in the store, and with accounting
\* the hold, for any number of workers that crash and lose replies.
THEOREM CallsHaveRecords == Spec => []CallsAreOnRecord
  <1>1. RunnersInv => CallsAreOnRecord
    <2>. SUFFICES ASSUME RunnersInv, NEW k \in calls
                  PROVE  k[2] \in sent[k[1]] /\ (Accounted => attempt[k].state \in Spent)
      BY DEF CallsAreOnRecord
    <2>1. PICK j \in Jobs, e \in 1..MaxAttempts : k = <<j, e>>
      BY DEF RunnersInv, Keys
    <2>2. e \in sent[j]
      BY <2>1 DEF RunnersInv, CallsSent
    <2>. QED  BY <2>1, <2>2 DEF RunnersInv, AccountsInv, AttemptsAgree
  <1>. QED  BY <1>1, RunnersInvariance, PTL

\* With accounting, no provider is called again for a job while the cost of an
\* earlier call is open: the later reservation would have been refused.
THEOREM NoCallsRepeatedBlindly == Spec => []NoBlindRetry
  <1>1. RunnersInv => NoBlindRetry
    <2>. SUFFICES ASSUME RunnersInv, Accounted, NEW k \in calls, NEW m \in calls,
                         k[1] = m[1], k[2] < m[2]
                  PROVE  attempt[k].state = "settled"
      BY DEF NoBlindRetry
    <2>1. PICK j \in Jobs, e \in 1..MaxAttempts : k = <<j, e>>
      BY DEF RunnersInv, Keys
    <2>2. PICK f \in 1..MaxAttempts : m = <<j, f>> /\ e < f
      BY <2>1 DEF RunnersInv, Keys
    <2>3. attempt[<<j, e>>].state \in Spent /\ attempt[<<j, f>>].state \in Spent
      BY <2>1, <2>2 DEF RunnersInv, CallsSent, AccountsInv, AttemptsAgree
    <2>4. attempt[<<j, e>>].state \notin Unknown
      BY <2>2, <2>3, JobsAssumption DEF RunnersInv, AccountsInv, UnknownBlocksRetry, Spent
    <2>. QED  BY <2>1, <2>3, <2>4 DEF Spent, Unknown
  <1>. QED  BY <1>1, RunnersInvariance, PTL

\* A completed job carries the answer given under its last lease, never that of a
\* worker that was overtaken.
THEOREM AnswersOfLastLease == Spec => []CompletedFromLastLease
  BY RunnersInvariance, PTL DEF RunnersInv

\* No two workers ever act under the same lease.
THEOREM LeasesHeldByOne == Spec => []LeasesAreExclusive
  BY RunnersInvariance, PTL DEF RunnersInv

\* All that the workers do to the store are transactions of the accounting store.
THEOREM RunnersRefineAccounting ==
  ASSUME Accounted
  PROVE  Spec => ImplementsAccounting
  <1>1. Init => AccountingInit
    BY DEF Init
  <1>2. RunnersInv /\ [Next]_vars => [AccountingNext]_accountingVars
    BY RunnersStep DEF Kept, StoreMoves
  <1>. QED  BY <1>1, <1>2, RunnersInvariance, PTL DEF Spec, AccountingSpec, ImplementsAccounting

\* With or without accounting, they are transactions of the job queue, so that what
\* is proved of every job holds whatever the workers do.
THEOREM RunnersRefineJobs == Spec => ImplementsQueue
  <1>1. Init => JobsInit
    BY DEF Init, AccountingInit
  <1>2. RunnersInv /\ [Next]_vars => [JobsNext]_jobsVars
    BY RunnersStep, MovesAreJobsSteps DEF Kept
  <1>. QED  BY <1>1, <1>2, RunnersInvariance, PTL DEF Spec, JobsSpec, ImplementsQueue
=============================================================================

-------------------------- MODULE TranslationJobs ---------------------------
(***************************************************************************)
(* The durable job queue of @frontbase/translation (adapters/sqlite-jobs.ts*)
(* and its PostgREST twin): one row per requested translation, claimed     *)
(* under a lease epoch, marked dispatched before the provider is called,   *)
(* and completed in the very transaction that commits the revision.        *)
(*                                                                         *)
(* Every action is one transaction of the adapter, requested by any client *)
(* at any time with any epoch: a worker that lost its lease keeps calling. *)
(* Editors and source syncs share the store; RevisionLifecycle shows that  *)
(* their multi-step calls amount to the atomic steps used here.            *)
(*                                                                         *)
(* Abstraction of time: "due" says that availableAt (queued) or leaseUntil *)
(* (leased) has passed. Any wait may end at any moment (Elapse), which     *)
(* covers every lease length, backoff delay and clock; renewJob prolongs a *)
(* live lease and so is part of Elapse not having happened yet.            *)
(***************************************************************************)
EXTENDS TranslationStore

CONSTANTS
  Jobs,         \* job ids
  Slot,         \* job -> <<unit, locale, revision id>> of its intent
  MaxAttempts,  \* intent.maxAttempts
  FailureCodes, \* the fixed classifications callers give to failJob
  EditorIds,    \* revision ids that editors and imports choose
  Offers,       \* <<provenance, text>> pairs that editors and imports write
  MaxSources,   \* bound: source versions of one unit
  NoIntent      \* a job id nobody has enqueued

JobErrors == {"denied", "provider-error", "provider-timeout", "invalid-result",
              "input-changed", "head-changed", "job-fenced", "write-conflict",
              "attempt-limit", "provider-unavailable", "source-history-missing"}

ASSUME JobsAssumption ==
  /\ Slot \in [Jobs -> Units \X Locales \X Ids]
  /\ MaxAttempts \in 1..8
  /\ FailureCodes \subseteq JobErrors
  /\ EditorIds \subseteq Ids
  /\ Offers \subseteq Provenances \X Texts
  /\ MaxSources \in Nat

VARIABLES
  job,   \* the jobs table
  sent   \* history: the lease versions under which each job was dispatched

jobVars  == <<job, sent>>
jobsVars == <<storeVars, jobVars>>

Intent == [unit : Units, locale : Locales, id : Ids, provenance : {"ai"},
           sourceVersion : Nat, wording : Wordings, expectedHead : Ids \cup {NoHead}]

Statuses == {"absent", "queued", "leased", "completed", "failed", "cancelled"}
Open     == {"queued", "leased"}
Terminal == {"completed", "failed", "cancelled"}

Job == [status : Statuses, intent : Intent \cup {NoIntent}, leaseVersion : Nat,
        attempt : 0..MaxAttempts, due : BOOLEAN, dispatched : BOOLEAN, uncertain : Nat,
        lastError : JobErrors \cup {"none"}]

JobsTypeOK == /\ StoreTypeOK
              /\ job \in [Jobs -> Job]
              /\ sent \in [Jobs -> SUBSET (1..MaxAttempts)]

Absent == [status |-> "absent", intent |-> NoIntent, leaseVersion |-> 0, attempt |-> 0,
           due |-> FALSE, dispatched |-> FALSE, uncertain |-> 0, lastError |-> "none"]

JobsInit == /\ StoreInit
            /\ job  = [j \in Jobs |-> Absent]
            /\ sent = [j \in Jobs |-> {}]

-----------------------------------------------------------------------------
(* Reads inside a transaction *)

\* The epoch of a job that has ended still counts: not what the code does.
LiveWhateverStatus(j, e) == /\ job[j].leaseVersion = e
                            /\ ~job[j].due

Live(j, e) == /\ job[j].status = "leased"
              /\ job[j].leaseVersion = e
              /\ ~job[j].due

\* inputProblem: the intent no longer matches what the store shows.
InputProblem(j) == ~ /\ InputCurrent(job[j].intent)
                     /\ Plain(job[j].intent.wording)
                     /\ MayReplace(job[j].intent)

ProblemCode(j) == IF ~InputCurrent(job[j].intent) THEN "input-changed"
                  ELSE IF ~Plain(job[j].intent.wording) THEN "invalid-result"
                  ELSE "head-changed"

\* A dispatch without a committed outcome goes on record when the job moves on.
Abandon(r) == [r EXCEPT !.uncertain = IF r.dispatched THEN @ + 1 ELSE @,
                        !.dispatched = FALSE]

\* The revision that completes the job with this text.
Result(j, text) ==
  [unit |-> job[j].intent.unit, locale |-> job[j].intent.locale, id |-> job[j].intent.id,
   provenance |-> "ai", sourceVersion |-> job[j].intent.sourceVersion,
   wording |-> job[j].intent.wording, expectedHead |-> job[j].intent.expectedHead,
   text |-> text]

-----------------------------------------------------------------------------
(* Queue transactions *)

\* The caller describes what the store shows; any other intent is refused.
EnqueueJob(j) ==
  LET u == Slot[j][1]  l == Slot[j][2]
  IN /\ job[j].status = "absent"
     /\ SourceVersion(u) > 0
     /\ Plain(Wording(u))
     /\ ~ManualHead(u, l)
     /\ ~Stored(u, l, Slot[j][3])
     /\ \A k \in Jobs : job[k].status # "absent" => Slot[k] # Slot[j]
     /\ job' = [job EXCEPT ![j] =
          [Absent EXCEPT !.status = "queued", !.due = TRUE, !.intent =
             [unit |-> u, locale |-> l, id |-> Slot[j][3], provenance |-> "ai",
              sourceVersion |-> SourceVersion(u), wording |-> Wording(u),
              expectedHead |-> head[<<u, l>>]]]]
     /\ UNCHANGED <<storeVars, sent>>

Claimable(j) == job[j].status \in Open /\ job[j].due

\* An expired last lease is left alone: not what the code does.
ExhaustQueuedJob(j) ==
  /\ Claimable(j)
  /\ job[j].status = "queued"
  /\ job[j].attempt >= MaxAttempts
  /\ job' = [job EXCEPT ![j] = [Abandon(@) EXCEPT !.status = "failed", !.due = FALSE,
                                                  !.lastError = "attempt-limit"]]
  /\ UNCHANGED <<storeVars, sent>>

\* claimJob, attempts used up.
ExhaustJob(j) ==
  /\ Claimable(j)
  /\ job[j].attempt >= MaxAttempts
  /\ job' = [job EXCEPT ![j] = [Abandon(@) EXCEPT !.status = "failed", !.due = FALSE,
                                                  !.lastError = "attempt-limit"]]
  /\ UNCHANGED <<storeVars, sent>>

\* The row under its next lease.
Leased(r) == [Abandon(r) EXCEPT !.status = "leased", !.due = FALSE,
                                !.leaseVersion = r.leaseVersion + 1, !.attempt = r.attempt + 1]

\* The expired lease is handed on under its old epoch: not what the code does.
LeaseJobSameEpoch(j) ==
  /\ Claimable(j)
  /\ job[j].attempt < MaxAttempts
  /\ job' = [job EXCEPT ![j] = [Abandon(@) EXCEPT !.status = "leased", !.due = FALSE,
                                  !.leaseVersion = IF @ = 0 THEN 1 ELSE @, !.attempt = @ + 1]]
  /\ UNCHANGED <<storeVars, sent>>

\* One lease too many: not what the code does.
LeaseJobOnceMore(j) ==
  /\ Claimable(j)
  /\ job[j].attempt <= MaxAttempts
  /\ job' = [job EXCEPT ![j] = Leased(@)]
  /\ UNCHANGED <<storeVars, sent>>

\* claimJob, a new lease.
LeaseJob(j) ==
  /\ Claimable(j)
  /\ job[j].attempt < MaxAttempts
  /\ job' = [job EXCEPT ![j] = Leased(@)]
  /\ UNCHANGED <<storeVars, sent>>

Dispatch(j) == /\ job'  = [job EXCEPT ![j].dispatched = TRUE]
               /\ sent' = [sent EXCEPT ![j] = @ \cup {job[j].leaseVersion}]

\* markJobDispatched: a job whose input changed fails instead.
MarkJobDispatched(j, e) ==
  /\ Live(j, e)
  /\ ~job[j].dispatched
  /\ IF InputProblem(j)
     THEN /\ job' = [job EXCEPT ![j].status = "failed", ![j].lastError = ProblemCode(j)]
          /\ UNCHANGED sent
     ELSE Dispatch(j)
  /\ UNCHANGED storeVars

\* The dispatch is not put on record: not what the code does.
FailJobForgetting(j, e, code, retryable, due) ==
  LET again == retryable /\ job[j].attempt < MaxAttempts
  IN /\ Live(j, e)
     /\ job' = [job EXCEPT ![j] = [@ EXCEPT !.dispatched = FALSE, !.lastError = code,
                                            !.status = IF again THEN "queued" ELSE "failed",
                                            !.due = again /\ due]]
     /\ UNCHANGED <<storeVars, sent>>

\* failJob; "due" says that the delay asked for is zero.
FailJob(j, e, code, retryable, due) ==
  LET again == retryable /\ job[j].attempt < MaxAttempts
  IN /\ Live(j, e)
     /\ job' = [job EXCEPT ![j] = [Abandon(@) EXCEPT !.lastError = code,
                                     !.status = IF again THEN "queued" ELSE "failed",
                                     !.due = again /\ due]]
     /\ UNCHANGED <<storeVars, sent>>

CancelJob(j) ==
  /\ job[j].status \in Open
  /\ job' = [job EXCEPT ![j] = [Abandon(@) EXCEPT !.status = "cancelled", !.due = FALSE]]
  /\ UNCHANGED <<storeVars, sent>>

\* The clock passes availableAt or leaseUntil.
Elapse(j) ==
  /\ job[j].status \in Open
  /\ ~job[j].due
  /\ job' = [job EXCEPT ![j].due = TRUE]
  /\ UNCHANGED <<storeVars, sent>>

\* validateJobFence
Fenced(j, e) == Live(j, e) /\ job[j].dispatched

\* The revision of the transaction is lost: not what the code does.
CompleteWithoutRevision(j, text) ==
  /\ job' = [job EXCEPT ![j].status = "completed", ![j].dispatched = FALSE,
                        ![j].lastError = "none"]
  /\ UNCHANGED <<storeVars, sent>>

\* compareAndSwap with a job fence: finishJobFence is in the same transaction.
Complete(j, text) ==
  /\ ApplyRevision(Result(j, text))
  /\ job' = [job EXCEPT ![j].status = "completed", ![j].dispatched = FALSE,
                        ![j].lastError = "none"]
  /\ UNCHANGED sent

\* The check made before the dispatch is taken as enough: not what the code does.
CommitJobUnchecked(j, e, text) ==
  /\ Fenced(j, e)
  /\ ~IdTaken(Result(j, text))
  /\ Complete(j, text)

\* writeJobResult: check the snapshot, then swap under the job's epoch.
CommitJob(j, e, text) ==
  /\ Fenced(j, e)
  /\ Admissible(Result(j, text))
  /\ ~IdTaken(Result(j, text))
  /\ Complete(j, text)

-----------------------------------------------------------------------------
(* Everybody else *)

EditorWrite(u, l, id, offer) ==
  LET rev == [unit |-> u, locale |-> l, id |-> id, provenance |-> offer[1],
              sourceVersion |-> SourceVersion(u), wording |-> Wording(u),
              expectedHead |-> head[<<u, l>>], text |-> offer[2]]
  IN /\ SourceVersion(u) > 0
     /\ Admissible(rev)
     /\ ~IdTaken(rev)
     /\ ApplyRevision(rev)
     /\ UNCHANGED jobVars

SyncSource(u, w) ==
  /\ SourceVersion(u) < MaxSources
  /\ SourceVersion(u) > 0 => Wording(u) # w
  /\ ApplySource(u, w)
  /\ UNCHANGED jobVars

StoreNext ==
  \/ \E u \in Units, l \in Locales, id \in EditorIds, offer \in Offers :
       EditorWrite(u, l, id, offer)
  \/ \E u \in Units, w \in Wordings : SyncSource(u, w)

QueueNext ==
  \E j \in Jobs :
    \/ EnqueueJob(j) \/ ExhaustJob(j) \/ LeaseJob(j) \/ CancelJob(j) \/ Elapse(j)
    \/ \E e \in 1..MaxAttempts, code \in FailureCodes, retryable, due \in BOOLEAN :
         FailJob(j, e, code, retryable, due)
    \/ \E e \in 1..MaxAttempts, x \in Texts : CommitJob(j, e, x)

\* A host without cost accounting dispatches with markJobDispatched.
JobsNext == \/ StoreNext
            \/ QueueNext
            \/ \E j \in Jobs, e \in 1..MaxAttempts : MarkJobDispatched(j, e)

JobsSpec == JobsInit /\ [][JobsNext]_jobsVars

-----------------------------------------------------------------------------
(* Properties *)

\* "uncertainAttempts is conservative evidence of dispatched attempts without
\* a committed outcome": each dispatch is on record exactly once, as pending, as
\* uncertain or as the one that completed the job, however leases, retries,
\* failures and cancellations interleave.
EveryDispatchAccountedFor ==
  \A j \in Jobs :
    Cardinality(sent[j]) = job[j].uncertain + (IF job[j].dispatched THEN 1 ELSE 0)
                                            + (IF job[j].status = "completed" THEN 1 ELSE 0)

\* Dispatch happens at most once in a lease: repeated delivery of a job never
\* yields a second provider call under the same epoch.
OneDispatchPerLease ==
  [][\A j \in Jobs : (job'[j].dispatched /\ ~job[j].dispatched)
                       => job'[j].leaseVersion \notin sent[j]]_jobVars

\* Completed, failed and cancelled are final, and the intent is immutable: a
\* worker that lost its lease changes nothing ("stale workers cannot renew, fail
\* or commit another epoch"; cancellation fences later completion).
TerminalIsFinal ==
  [][\A j \in Jobs : job[j].status \in Terminal => job'[j] = job[j]]_job

\* Job and revision are committed together: a completed job's revision is in the
\* ledger with the job's own provenance, source version and expected head.
CompletedMeansStored ==
  \A j \in Jobs : job[j].status = "completed"
                    => \E r \in revisions : \E x \in Texts : r = Result(j, x)

\* "Non-manual writes cannot replace a manual head": no machine translation or
\* import was ever put on top of a human edit, even one made while the provider
\* was working.
HumanEditsStand ==
  \A r \in revisions : r.provenance # "manual" =>
    \A q \in revisions : (q.unit = r.unit /\ q.locale = r.locale /\ q.id = r.expectedHead)
                           => q.provenance # "manual"

\* Jobs write the ledger only in fully checked steps.
JobsImplementLedger == Ledger!Spec
=============================================================================

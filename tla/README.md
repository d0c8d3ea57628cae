# TLA+ models and proofs for Frontbase

Frontbase is a TypeScript monorepo: a visual builder, a control-plane backend
with its own database, a compiler that turns layouts into pages, an edge runtime
that serves pages and executes workflows, and small durable protocols that sit
between them. This directory specifies those protocols in TLA+, checks them with
TLC and proves the central results with TLAPS. Paths below are relative to
`src/packages/`.

## 1. Inventory

The parts that carry protocol state, in the order of how much can go wrong in
them. "Modelled" says whether a module of this directory covers the part now.

### 1.1 Translation (`translation/`) - modelled

Human and machine translations of the texts of a project.

| part | state | operations | modelled |
|---|---|---|---|
| Revision ledger (`revisions.ts`, `adapters/sqlite.ts`) | `units` (with a `version` counter), `source_history`, `revisions`, `heads` | `syncSource`, `writeManual`, `writeImported`, `writeJobResult`, `compareAndSwap` | yes |
| Job queue (`adapters/sqlite-jobs.ts`) | `jobs`: status, `leaseVersion`, `leaseUntil`/`availableAt`, `attempt`, `dispatched`, `uncertainAttempts` | enqueue, list ready, claim, renew, mark dispatched, fail, cancel, fenced completion | yes |
| Accounting (`accounting.ts`, `adapters/sqlite-accounting.ts`) | `allowances`, `attempts` by (job, lease version) | create allowance, reserve, dispatch, settle, release | yes |
| Runner (`jobs.ts`) | one `runOnce` per worker, nothing durable of its own | claim, authorize, reserve, dispatch, call, settle, write, fail | yes |
| PostgREST adapters (`adapters/postgrest*.ts`, `sql/`) | the same tables behind RPC functions | the same ports | through the port |
| Identity, rich text, sitemap comparison | none (pure) | fingerprints, token checks, comparisons | abstracted |

*Interaction.* A host enqueues jobs, a scheduler offers ready jobs to workers,
a worker drives one job through queue, accounting, provider and ledger. Every
store call is one transaction (`BEGIN IMMEDIATE`, or a scope advisory lock in
Postgres); nothing is locked between two calls. Human editors and source syncs
write the same ledger all the time.

*Hard.* Everything a worker learned may be stale at its next call: the lease may
have expired and been given away, the source or the head may have changed (even
changed back), the job may have been cancelled, the process may die, the reply
of an applied call may be lost, and the money a provider call cost may never be
known.

*Correct means.* No update of a head is lost or undone by a retry; no machine text
replaces a human one; a revision records the wording it was made from; a call
is on record before it is made and never made twice under a lease; a job's end is
final; an allowance is never overdrawn and an unknown cost blocks a second call;
every queued job ends.

### 1.2 Host protocols on the backend (`backend/src/compat/`) - modelled, except the last two rows

The control plane keeps its protocol state in rows of one `settings` table and of
`compat_pages`, without transactions over several requests. Every protocol below
is built from single guarded statements: `INSERT ... ON CONFLICT DO NOTHING`,
`UPDATE ... WHERE value = <as read>`, `INSERT ... WHERE EXISTS`, and one atomic
batch.

| part | state | operations | hard | modelled |
|---|---|---|---|---|
| Translation allowances (`translation-allowance.ts`) | recorded plan, archive, one lifecycle row per allowance with stage and cursor | prepare; close in passes: cancel every job, reconcile every attempt, review, closed; permit and fence around the runner | delayed enqueues and dispatches during closing, a crash between remote steps and the row swap | yes |
| Reviewed batches (`translation-batches.ts`) | one settings row per batch: phase, cursor, policy | plan, start, allocate, continue, retry, cancel | all of them racing on one row between remote calls | start, allocate, continue, cancel |
| Page changes (`page-change-store.ts`) | one operation slot per owner, receipts, the page row with its marker | begin, execute, status | a crash between the slot swap and the page update, ordinary edits in between | yes |
| Template installation (`template-install-store.ts`) | one receipt per owner, pages, configuration, menus | review, install, status | an edit between review and batch, a refused or lost batch | yes |
| Site publication (`site-publication-*.ts`, `site-configuration-store.ts`) | configuration, immutable captures, reviews, the live pointer | save, prepare, review, activate, roll back | two activations, a request sent again after a lost reply | yes, without chunks and catalogue rows |
| Editorial approval (`editorial-approval-store.ts`) | approvals per document and configuration revision | approve | the configuration changes in between | yes |
| Rate limits (`rate-limit-store.ts`) | fixed window counters | hit | three statements, no transaction | no |
| Sync, backup and restore (`sync-store.ts`, `backup-restore.ts`) | page and tombstone rows | push, pull, restore | tombstones against later edits | no |

*Correct means.* A change or an installation happens at most once and only on
exactly what its author reviewed; an answer given once stays true; nothing goes
live that was not approved in the form it goes live; a closed allowance tells
truly what was spent and nothing is spent afterwards; a cancellation ends and
leaves no allowance open; a row of a batch is never taken back by a late call.

### 1.3 Workflows - modelled

`edge-core/src/workflow/runtime.ts` executes a node graph from checkpoints, with a
timeout that races the execution; `backend/src/routes/phase2.ts` and
`backend/src/compat/routes/system-queue.ts` start executions and take deliveries
that may be repeated; a recovery sweep replays rows that are still running.
`backend/src/db/phase2-store.ts` keeps the workflow rows, which editors save,
publish and roll back (`compat/routes/actions.ts`).

*Hard.* Several runs of one execution alive at once; a run that timed out but
goes on; checkpoints that outlive a run; saves that read a version and then write
the next one. *Correct means.* A node runs after its predecessors; a completed
execution has run all nodes; every execution ends; a publication activates what
it captured.

### 1.4 Everything else - not modelled

Accounts and sessions, provider OAuth, the deployment bootstrap
(`edge-core/src/deployment-bootstrap.ts` over `edge-infra/src/bootstrap-journal.ts`),
the compiler and hydration (pure functions with golden files), server rendering
(request scoped), the browser interfaces, and the generated API clients and
schemas, which are most of the lines of the repository. `PROJECT.json` lists each
part with the reason.

## 2. Modules

```
RevisionLedger            what the revision layer promises: atomic checked writes
   ^ implements
TranslationStore          tables, checks and the two writes of compareAndSwap
   ^ extends        ^ extends
RevisionLifecycle   TranslationJobs          the queue, one action per transaction
                       ^ extends, implements
                    TranslationAccounting    allowances and attempts beside it
                       ^ extends, implements
                    TranslationRunner        workers, await point by await point

                    TranslationBatch         host rows over the promised ledger

CheckedChange  <- implements -  PageChange
AtomicInstall  <- implements -  TemplateInstall
SitePublication       WorkflowRuntime       WorkflowDrafts
```

| module | models |
|---|---|
| `RevisionLedger` | abstract: `Register` a wording, `Commit` a revision, each one step |
| `TranslationStore` | `adapters/sqlite.ts` tables; `Admissible` is the check of `TranslationLifecycle.write`, `ApplyRevision` and `ApplySource` the writes of `compareAndSwap` |
| `RevisionLifecycle` | `write()` and `syncSource()` as concurrent await chains: replay lookup, snapshot and check, swap, replay lookup again; resent intents, lost callers |
| `TranslationJobs` | `sqlite-jobs.ts` transactions requested by anybody with any epoch, plus editors and syncs |
| `TranslationAccounting` | `sqlite-accounting.ts` transactions; `Used`, `Requests`, `Concurrent` are the SQL aggregates |
| `TranslationRunner` | `TranslationJobRunner.runOnce` with `Accounted` TRUE or FALSE; crashes, lost calls and replies, provider failures and timeouts |
| `TranslationBatch` | the rows of `translation-batches.ts` and `translation-allowance.ts` and the calls start, continue and cancel, statement by statement, against a remote ledger that behaves as `TranslationAccounting` |
| `CheckedChange` | abstract: a reviewed change is applied or refused, once |
| `PageChange` | `begin`, `execute`, `status` of `page-change-store.ts` over slot, receipts and page row; implements `CheckedChange` |
| `AtomicInstall` | abstract: a template replaces a reviewed, untouched site in one step |
| `TemplateInstall` | `review` and `install` of `template-install-store.ts` with the writers of `pages-store.ts`, `site-configuration-store.ts` and `menus-store.ts`; implements `AtomicInstall` |
| `SitePublication` | save, approve, capture, review, activate: one chain from document to live pointer |
| `WorkflowRuntime` | the executor loop, its timeout and its reports, by several runs of one execution |
| `WorkflowDrafts` | one workflow row under saves, switches, deletion, publication and rollback |
| `MC*` | small instances for TLC |
| `TranslationStore_proofs`, `RevisionLifecycle_proofs`, `TranslationRunner_proofs`, `TranslationBatch_proofs`, `PageChange_proofs`, `TemplateInstall_proofs`, `SitePublication_proofs`, `WorkflowRuntime_proofs` | TLAPS proofs; `TranslationRunner_proofs` is about the queue, the accounts and the workers, in this order |

Definitions keep the names of the code. `PROJECT.json` maps each to its lines.
A definition whose comment ends in "not what the code does" is a deliberate
fault: substituting it for the real one must break the property it belongs to,
which shows that the property notices that kind of bug.

### Abstractions

- **Text.** A wording is a model value for source text plus context, i.e. for
  what both fingerprints identify; `Renders` says which texts pass the token and
  format checks for which wording. Collisions of fingerprints are out of scope.
- **Source history.** The `units` row repeats the newest `source_history` row, so
  only the history is kept; its length is the source version. The history is
  never deleted, which makes `source-history-missing` unreachable.
- **Time.** `due` says that `availableAt` (queued) or `leaseUntil` (leased) has
  passed; it may become true at any moment. This covers every lease length,
  backoff and clock skew. `renewJob` only postpones that moment.
- **Refusals.** A call that the code refuses, or answers without a write
  (repeated settle, repeated enqueue, policy hash mismatch), changes no state and
  is no action in the transaction modules; the runner, whose control depends on the
  answer, has the refusal as a disjunct.
- **Runner.** The fence is checked twice inside one `compareAndSwap`
  (`validateJobFence`, `finishJobFence`) and a difference rolls back: one step. An
  exception that leaves `runOnce` is a `Crash`: the worker forgets, the store
  stays. A provider answer after the timeout is ignored by the code and has no
  action. An epoch is the lease version.
- **Editors in the job modules** write in one atomic step. `RevisionLifecycle`
  justifies that: its `ImplementsLedger` says the multi-step calls cannot be told
  from atomic ones.

- **Settings rows.** A row is its value; a compare-and-swap on the raw JSON text is
  a comparison of values. Hashes of plans, reviews and captures are the thing
  hashed. A page row, in `PageChange`, is an edit count, a state and the
  `last_write_operation` marker: every ordinary edit writes `updated_at` and makes a
  row that never was before.
- **Lost replies and crashes** of host calls are one action each (`Crash`, `Stop`):
  the call is over and what it wrote stays. The client may send the request again.
- **Reads that are repeated** by a later statement (the snapshot of a template
  review) are one step; reads that are only used (the version in `upsertWorkflow`, the
  row in a batch call) are steps of their own.
- **Batches** run jobs with one attempt of one unit each, as `planTranslationBatch`
  makes them (`maxAttempts: 1`). A refusal by the remote ledger because a source or
  a head changed is a choice.
- **Workflows** have no data: a node is executed or fails. Between two awaits the
  loop of the executor is synchronous, so no timer fires there.

## 3. Runs

All run with two workers in well under the five minutes allowed; numbers are
distinct states.

| run | states | question |
|---|---|---|
| `lifecycle` | 384,931 | are concurrent writes and syncs equivalent to the ledger? |
| `jobs` | 943,829 | does the queue keep dispatches on record, ends final and humans protected, whatever stale clients do? |
| `accounting` | 837,216 | is an allowance ever overdrawn, an unknown cost forgotten? |
| `runner_accounted` | 97,364 | do crashing workers stay within the accounting protocol, and does every job end? |
| `runner_plain` | 186,141 | the same without accounting, with retries and a changing source |
| `batch` | 647,215 | does a cancelled batch end, with true totals and no allowance left, whatever starts and continuations are under way? |
| `page_change` | 246,898 | is a reviewed change made at most once, and are all answers about it true? |
| `template_install` | 63,072 | is the template installed in one step, once, over nothing but the reviewed site? |
| `site_publication` | 164,772 | is the live pointer one chain of approved and reviewed captures? |
| `workflow` | 93,853 | do repeated, overtaken and crashed runs keep order, tell the truth and end? |
| `workflow_resume` | violation | does a run that resumes from a checkpoint run the rest? |
| `workflow_drafts` | violation | does a publication activate the graph it captured? |

What the properties say:

- `NoFork`, `HeadNeverRestored`, `AckedMeansStored`, `RecordedWordingIsTrue`,
  `ImplementsLedger` (lifecycle): no lost update, no old head restored by a
  retry, no false acknowledgement, no rewritten history, and altogether the
  ledger - including a source that goes A, B, A between snapshot and swap.
- `EveryDispatchAccountedFor`, `OneDispatchPerLease`, `TerminalIsFinal`,
  `CompletedMeansStored`, `HumanEditsStand`, `JobsImplementLedger` (jobs): see the
  statements in the module; the quotes are from `translation/README.md` and `jobs.ts`.
- `SpentMeansDispatched`, `UnknownBlocksRetry`, `WithinCounts`, `WithinLimit`,
  `SpentIsFinal`, `ImplementsJobs` (accounting). The last one is the refinement
  that makes the queue's properties hold with accounting.
- `CallsAreOnRecord`, `NoBlindRetry`, `CompletedFromLastLease`, `EveryJobEnds`, `ImplementsAccounting` or
  `ImplementsQueue` (runner). The refinement makes everything above hold of the
  real workers.

- `ClosedTotalsAreTrue`, `NoOrphanAllowance`, `ProgressIsKept`, `CancelEnds` (batch):
  "All jobs are fenced before release" and "a late Start cannot mint an orphan
  allowance" of the comments in the code, made precise. The totals of a closed
  allowance are final, so their truth says that nothing is spent afterwards.
- `ImplementsCheckedChanges`, `AnswersAreTrue`, `StuckOnlyByCrashOrEdit` (page
  changes). The last one says when the slot of an owner can be left `applying`,
  after which every later change is refused: only when a caller died on it, or an
  edit came between the update and its check. That it can happen at all is how the
  code is meant ("uncertain"): nothing but a person resolves it.
- `ImplementsAtomicInstall` (template): an edit between review and batch is never
  overwritten, although menus are not locked while a receipt is applying.
- `OneOwnerPerGeneration`, `OnlyApprovedGoesLive`, `ApprovedInForce` (publication).
- `NodesFollowDependencies`, `CompletedMeansAllRan`, `EveryExecutionEnds`
  (workflow).

### Two disagreements

- `workflow_resume`: a test says that a resumed execution "skips completed node, runs
  the rest". With two finished nodes in a row, the one behind them is never queued,
  because a finished node queues its unfinished targets only (`runtime.ts:120-124`).
  The row then says `completed`. Only deployments whose checkpoint store outlives a
  run are concerned; `CompletedMeansAllRan` and `EveryExecutionEnds` state what holds
  for the others.
- `workflow_drafts`: `upsertWorkflow` reads the version in one statement and writes
  its successor in another. Two saves can write the same version, and a publication
  that captured the first activates the second, contrary to the comment above
  `publishWorkflowIfVersion`. `UPDATE ... SET version = version + 1` in the statement itself,
  as `restoreWorkflowIfVersion` does, would be enough while a draft is not deleted.

`EveryExecutionEnds` takes a graph without cycles. The authoring routes refuse cycles
(`authoringGraph`); `PUT /automations/:id` does not, and the loop of the executor
would put the nodes of a cycle back at the end of its queue for ever.

### Bounds and why they are enough

- Two writers, two revision ids, one unit, one locale (lifecycle): every conflict
  in the code is between two calls on one unit; a second unit or locale only
  shares the counter (`version` is per unit), which makes swaps fail more often,
  never succeed more often. Three source versions are the shortest A, B, A. The proofs
  remove these bounds.
- Two jobs on one locale plus an editor's id (jobs, accounting): two jobs can be
  alive for one head, one must lose; the editor can overtake either and, in `jobs`,
  take job 2's id.
- `MaxAttempts = 2`: first lease, expiry or retry, last lease, exhaustion. Every
  stale epoch is epoch 1 used during lease 2, or an ended job's last one.
- Two allowances with the limits arranged so that each of units, requests and
  concurrency is the binding one somewhere.
- Runner: two workers on one job, so that one always can be the stale one.
- `MaxSources` bounds how often a source changes; only `SyncSource` and
  `SwapSource` consult it.

- Batch: an earlier batch whose allowance is on hold, so that the record of the plan
  has to be archived and replaced, and a batch of two items, so that a cursor can be
  in the middle; `MaxJobs = 2` is less than the two passes need, so closing takes
  several calls; `MaxStops = 1` lost call, expired lease or retarget anywhere. Two
  calls, since every race of the code is between two of them on one row.
- Page changes: three operations of one page, as a third one is needed to replace a
  receipt another caller still holds. `MaxEdits = 1` keeps it small; a second edit
  makes one more row that nobody reviewed.
- Template: two operations and two calls, two edits of the welcome page.
- Publication: two configurations and texts at revisions 0 and 1, three
  generations: activation, rollback and one more on top.
- Workflow: a chain of three with a shortcut to a fourth node, so that a node waits
  for two others; two runs and one crash.

Deadlock is checked in `lifecycle` and `site_publication`, where a caller can always begin a call. In the
other runs the system really stops: when every job has ended and every revision
id is used, nothing is left to do.

### Fairness

**Runner** (`EveryJobEnds`). Assumed: time passes (weak
fairness of `Elapse`: `availableAt` and `leaseUntil` are finite timestamps); a
scheduler keeps offering a claimable job to some worker (`listReadyJobs`); a worker
that does not crash goes on (`runOnce` awaits store calls and a provider call
with a timeout, so it is never stuck). Crashes are not restricted at all: a
worker may crash at every step for ever. Jobs end nevertheless because a crash
uses up an attempt and attempts are bounded. Cancellation, editors and the
choice of provider answers get no fairness.

**Workflow** (`EveryExecutionEnds`). Weak fairness of `Step`, what an isolate that is
alive runs without further input, and of `Receive`: the queue delivers again and the
sweep of the backend replays rows that are still running. Failing nodes, timeouts and
deletions get no fairness. Isolates die finitely often (`MaxCrashes`): an execution
whose every run is evicted never ends, and the code cannot help it.

**Batch** (`CancelEnds`). Weak fairness of a call that is under way, and strong
fairness of an administrator who asks again while a batch is cancelling, and finally
counts unknown outcomes as consumed: nothing closes by itself, "per explicit
administrator request" (`translation-batches.ts:275`). Strong, because other calls may
occupy the two slots in between. The exception `Unfunded` is real: a start that dies
after recording its plan and before creating the remote allowance leaves a record that
only a later start repairs, and a cancelled batch has none.

## 4. Proofs

Every safety property of the passing runs, and every refinement, is a theorem here,
for every value of the constants that meets the named assumptions; the liveness
properties are not (see the end of this section).

`RevisionLifecycle_proofs` proves, for all sets of units, locales, ids, writers
and syncers, and from the named assumptions on constants only (the null head is
no id; `Renders` relates wordings and texts; offers are well-formed):

| theorem | property |
|---|---|
| `TypeCorrect` | `TypeOK` |
| `NeverForks` | `NoFork` |
| `WordingsAreTrue` | `RecordedWordingIsTrue` |
| `AcksAreTrue` | `AckedMeansStored` |
| `HeadsMoveForward` | `HeadNeverRestored` |
| `RefinesLedger` | `ImplementsLedger` |

*Argument.* None of the properties is inductive: whether a swap preserves them
depends on a check made two steps earlier. The inductive invariant `IInv` adds

- `SnapshotsHold`: a writer's snapshot version is at most the current one, and if
  it is the current one, its intent is still `Admissible`;
- `ReadsHold`: the same for a sync and the wording it compared;
- `HeadsExist`, `PredecessorsExist`: heads and the heads that revisions were put on
  are stored revisions, so a new id closes no cycle and opens no fork.

`WritesOutdateChecks` is the heart: every write that changes what `Admissible` of a
unit looks at advances that unit's version, so every snapshot that was true of it
becomes outdated and every snapshot of another unit stays true
(`CheckSurvivesRevision`, `CheckSurvivesSource`). Hence `SwapIsChecked`: a swap that
succeeds applies a revision admissible at that very moment, which is a
`Ledger!Commit` (`RevisionIsCommit`). The lemmas about the store itself are in
`TranslationStore_proofs`, since all callers share them.

`TranslationRunner_proofs`, *the queue*, proves, for all jobs, attempts, texts, units
and clients, from `StoreAssumption` and `JobsAssumption` (slots are units, locales and ids;
`maxAttempts` is 1 to 8; failure codes are job errors):

| theorem | property |
|---|---|
| `JobsTyped` | `JobsTypeOK` |
| `DispatchesOnRecord` | `EveryDispatchAccountedFor` |
| `CompletionsAreStored` | `CompletedMeansStored` |
| `HumanEditsAreSafe` | `HumanEditsStand` |
| `DispatchedOncePerLease` | `OneDispatchPerLease` |
| `EndsAreFinal` | `TerminalIsFinal` |
| `JobsRefineLedger` | `JobsImplementLedger` |

*Argument.* Counting dispatches is not inductive without knowing which versions have
been used. `RowIsTrue` says it: a job has been dispatched only under versions up to
its current one, and under the current one exactly when `dispatched` is set. So a
new lease has an unused version, a dispatch adds exactly one element to `sent`, and
`Abandon` or the completion moves exactly one dispatch from "pending" to
"uncertain" or "completing". `JobStep` states what one transaction does to one job;
there is one lemma per transaction (`EnqueueSteps` ... `CompleteSteps`, with `MovesOn`
for the ways to leave a lease without an outcome), and `JobsSteps` puts
them together with the step of the store. `HumanEditsKept` needs
`PredecessorsExist`: a fresh id has never been the expected head of anything.

`TranslationRunner_proofs`, *the accounts*, proves, for all finite sets of jobs and all
allowances, limits, holds and charges, from `AccountingAssumption` (limits are natural
numbers, counts and holds positive ones):

| theorem | property |
|---|---|
| `HoldsMatchDispatches` | `SpentMeansDispatched` |
| `UnknownCostsBlock` | `UnknownBlocksRetry` |
| `CountsAreKept` | `WithinCounts` |
| `LimitsAreKept` | `WithinLimit` |
| `SpentStaysSpent` | `SpentIsFinal` |
| `AccountingRefinesJobs` | `ImplementsJobs` |

*Argument.* `AttemptsAgree` ties the attempts to the queue: an attempt exists only under
lease versions its job has had, it is spent exactly if the job was dispatched under its
version, and a settled one has a charge. So a reservation is always for an attempt that
was not counted before, and `Reserve`, whose guard is the only place where the code
compares totals, is the only step that adds to them (`ReservedTotals`); every other step
moves an attempt to a state that counts for at most as much (`RelaxedTotals`).
`Used` is a fold over a finite set. The library's induction rules take an operator
as a parameter, which the provers cannot instantiate; `SubsetInduction` states the one
that is needed with a *set* in its place, from the well-foundedness of strict
inclusion, and the lemmas `SumOf...` derive from it what a sum over a
finite set does when one member is added, leaves or gets smaller.
`AccountingIsJobsStep` maps each accounting transaction to one of the queue.

`TranslationRunner_proofs`, *the workers*, proves, for any set of workers that crash,
stall and lose calls and replies anywhere, from the assumptions above and
`RunnerAssumption` (each job has a policy; the runner reports only job errors):

| theorem | property |
|---|---|
| `CallsHaveRecords` | `CallsAreOnRecord` |
| `NoCallsRepeatedBlindly` | `NoBlindRetry` |
| `AnswersOfLastLease` | `CompletedFromLastLease` |
| `LeasesHeldByOne` | `LeasesAreExclusive` (in no run: a part of the invariant the others need) |
| `RunnersRefineAccounting` | `ImplementsAccounting`, when `Accounted` |
| `RunnersRefineJobs` | `ImplementsQueue`, accounted or not |

*Argument.* The store is another component's, and changes between any two steps of a
worker. `RecordAgrees` says what the local variables of `runOnce` still mean then: its
lease version was given out, its dispatch is on record, the text it is about to write is the
answer given under that version, and its snapshot is checked as long as the
unit's version has not moved - the runner's form of `SnapshotsHold`. The queue's own
theorems say that none of that is ever taken back (`RecordStillAgrees`), so `StepKeeps`
reduces each action to the worker that takes it. That the leases are exclusive is part of
the invariant: a version is handed out once. `NoBlindRetry` then follows from
`UnknownBlocksRetry`: a second call has a spent attempt under a later version. Each
worker step is a transaction of the store or leaves it alone, which is the refinement; with
the two refinements below it, workers implement the revision ledger.

`TranslationBatch_proofs` proves, for all batches, sizes, calls and bounds on the jobs of
a pass, from `BatchAssumption` (a batch has an item, as `items` of the plan request does,
`translation-batches.ts:22`; the null value is no batch and no record):

| theorem | property |
|---|---|
| `ClosedTotalsHold` | `ClosedTotalsAreTrue` |
| `NoAllowanceIsOrphaned` | `NoOrphanAllowance` |
| `BatchesMoveOn` | `ProgressIsKept` |

*Argument.* Closing counts item after item, over several calls, while other calls may
still be at work on the same items. The count is right because of `Settled`: once a batch
has a lifecycle row nobody picks an item of it again (the remote ledger refuses), so an item
that the pass finds neither leased nor on hold, with nobody left who could claim it
(`Unclaimable`), keeps its state. `AreTrue` says this of all items before the saved cursor,
and `LifeIsTrue` of the record at each stage. `ClosingAgrees` says the same of the record
that a call has read and of the one it is about to save, so that a stale save is as true
as a fresh one. `RowAgrees` and `CloseAgrees` say what a row read some statements ago
still implies: it can be swapped only while the stored row is that row, and
a cancellation of the row in between outdates it. `AllowancesAgree` and
`FundingAgrees` are the orphan's side: whoever replaces the record of an allowance holds
one that is closed. `StepKeeps` reduces each action to its own call, given that
lifecycle, jobs and attempts only move forward (`LifeMoves`, `JobMoves`, `AttemptMoves`).

`PageChange_proofs` proves, for all pages, operations, callers and edits, from
`PageChangeAssumption` (the null operation is no operation and no page):

| theorem | property |
|---|---|
| `RefinesCheckedChange` | `ImplementsCheckedChanges` |
| `Answers` | `AnswersAreTrue` |
| `StuckSlots` | `StuckOnlyByCrashOrEdit` |

*Argument.* Slot, receipts and row are read and written in separate statements, so
what a caller read may be long gone. `IInv` says why it may act on it all the same:

- `SlotAgrees`: slot and archive never contradict each other, so `Phase` is well
  defined whichever a caller finds first;
- `RowsAgree`: an operation whose mark is on any row, or in any reviewed row, has the
  verdict "applied", and an ended change never meets its reviewed row again;
- `Replaces`: whoever is about to replace a record holds one that is in the slot or in
  the archive, and its own operation has no receipt as long as the slot holds it;
- `Works`: at most one caller is between claim and update, and nothing it will do is
  visible yet; `Looks`: a caller that looks for a result knows of its operation.

`Kept` lists what no step takes back (requests, verdicts, receipts, the difference
to the reviewed row). `OthersKeep` derives from it that a step leaves the invariant of
all other callers alone, so each action's lemma is about one caller only; `SwapStep`
does the same for the four steps that swap the slot. `Update` is the abstract
`Apply`, `MarkConflict` the abstract `Refuse` - that the row differs then is
exactly what `Works` remembers from the failed update. `StuckSlots` needs one more
invariant, `InHand`: whoever has yet to check will find the result.

`TemplateInstall_proofs` proves, for all calls, operations and edits, from
`TemplateAssumption` (`None` is no site, page or receipt; `MaxEdits` is a natural
number): `RefinesAtomicInstall`, i.e. `ImplementsAtomicInstall`. The claim looks at
nothing but the receipt, steps after the site was compared; the invariant needs only
that calls and receipts are about reviewed operations (`Begun`), because the batch
compares receipt and site again. The proof shows which of the three comparisons the
promise rests on: the last one.

`SitePublication_proofs` proves, for all calls, configurations, texts and bounds,
from `PublicationAssumption` (the null pointer is no pointer):

| theorem | property |
|---|---|
| `OneOwner` | `OneOwnerPerGeneration` |
| `ApprovedLive` | `OnlyApprovedGoesLive` |
| `ApprovalsPinned` | `ApprovedInForce` |

*Argument.* Each call works with what it read steps before. `CallsRemember` states
what of that stays true: approvals, captures and reviews never go away, and a revision
or generation never comes back. `OnRecord` carries it to the pointer and to the log,
and `Chain` (every activation replaced a smaller generation by the next one) makes
`OneOwnerPerGeneration` inductive: a swap that succeeds read the newest generation.

`WorkflowRuntime_proofs` proves, for all finite graphs, any number of runs and
crashes, from `WorkflowAssumption` (the nodes are finitely many, the edges join nodes):

| theorem | property |
|---|---|
| `DependenciesFirst` | `NodesFollowDependencies` |
| `CompletedRanAll` | `CompletedMeansAllRan`, for a graph without cycles |

*Argument.* What a run has done, and every checkpoint, is closed under predecessors
(`RunIsOrdered`, `CheckpointIsOrdered`), so whichever checkpoint a run loads, the nodes it
finds executed in it come with their dependencies. For completion `RunCovers` says that a run which
started from nothing forgets nothing: what starts the graph or follows an executed node
is executed or pending, hence everything reachable has been executed when the queue is
empty (`Exhausted`). Only in a graph without cycles is that every node (`ExhaustedIsAll`);
`Acyclic` is a hypothesis of this theorem alone, and what `authoringGraph` demands of
a graph (`workflow-authoring.ts`, `workflow_cycle`). The order in which the executor
queues several targets at once is left open by the proof: it holds for any.

*Only model-checked:* `EveryJobEnds`, `CancelEnds` and `EveryExecutionEnds`, since liveness
under fairness and `ENABLED` are outside what these provers do; and the two
disagreements of section 3, which are counterexamples. `WorkflowDrafts` is only
the model of one of them and has no theorem.

## 5. Not modelled, and what is left

1. Proofs: what would hold of `WorkflowDrafts` with the version advanced inside the
   statement, and that the batch's remote ledger is one `TranslationAccounting` allows
   (today they share their rules, not a refinement).
2. The deployment bootstrap: review, apply, reconcile, one compare-and-swap each.
3. Rate limits and the switch of the default edge resource: several statements without
   a guard, where no document says what concurrent calls may expect.
4. Not planned: row mapping (sync, backup), pure translation (compiler, hydration, rich
   text), rendering, user interfaces and generated code. They hold nearly all lines of
   the repository and no protocol state; golden files and unit tests fit them better.
   The PostgREST adapters run in SQL functions outside the modelled code path and are
   covered through the port only.

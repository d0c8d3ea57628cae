------------------------- MODULE TranslationRunner --------------------------
(***************************************************************************)
(* TranslationJobRunner.runOnce (jobs.ts): several workers drive the same  *)
(* jobs through claim, reserve, dispatch, the provider call, settlement    *)
(* and the fenced commit, one store transaction per step, with editors,    *)
(* source syncs, cancellations and other workers in between. A worker may  *)
(* stop at any step and never come back; the reply to a transaction may be *)
(* lost after it was applied; the provider may answer, fail, report no     *)
(* usage, answer nonsense or exceed its timeout.                           *)
(*                                                                         *)
(* With Accounted the worker has options.accounting (reserve, dispatch,    *)
(* settle, release); without it, markJobDispatched and retries.            *)
(***************************************************************************)
EXTENDS TranslationAccounting

CONSTANTS
  Runners,     \* worker processes, each in one runOnce at a time
  Accounted,   \* options.accounting is given
  Policy,      \* job -> <<allowance, units>> the host pinned for it
  NoText       \* no answer, or one that is not a translation result

ASSUME RunnerAssumption == /\ Accounted \in BOOLEAN
                           /\ Policy \in [Jobs -> Allowances \X Amounts]
                           /\ NoText \notin Texts
                           /\ FailureCodes = JobErrors

VARIABLES
  runner,   \* worker -> its program counter and local variables
  calls,    \* external: <<job, lease version>> of the provider calls made
  answers   \* external: <<job, lease version, text>> of the answers delivered

runnerVars == <<runner, calls, answers>>
vars       == <<accountingVars, runnerVars>>

PCs == {"idle", "claimed", "dispatch", "release", "call", "calling", "settle",
        "write", "swap", "fail"}

Runner == [pc : PCs, job : Jobs \cup {NoIntent}, epoch : 0..MaxAttempts,
           text : Texts \cup {NoText}, charge : Charges \cup {NoCharge},
           version : Nat, tries : 0..2,
           code : JobErrors \cup {"none"}, retryable : BOOLEAN]

Idle == [pc |-> "idle", job |-> NoIntent, epoch |-> 0, text |-> NoText,
         charge |-> NoCharge, version |-> 0, tries |-> 0, code |-> "none",
         retryable |-> FALSE]

RunnerTypeOK == /\ AccountingTypeOK
                /\ runner \in [Runners -> Runner]
                /\ calls \subseteq Keys
                /\ answers \subseteq (Jobs \X (1..MaxAttempts) \X Texts)

Init == /\ AccountingInit
        /\ runner  = [r \in Runners |-> Idle]
        /\ calls   = {}
        /\ answers = {}

-----------------------------------------------------------------------------
At(r, pc)   == runner[r].pc = pc
Goto(r, pc) == runner' = [runner EXCEPT ![r].pc = pc]
Return(r)   == runner' = [runner EXCEPT ![r] = Idle]

\* fail(code, retryable): the failJob call is still to be made.
ToFail(r, code, retryable) ==
  runner' = [runner EXCEPT ![r] = [Idle EXCEPT !.pc = "fail", !.job = runner[r].job,
               !.epoch = runner[r].epoch, !.code = code, !.retryable = retryable]]

NoCall == UNCHANGED <<calls, answers>>

\* claimJob; runOnce goes on only when it got the lease.
Claim(r, j) ==
  /\ At(r, "idle")
  /\ \/ /\ LeaseJob(j)
        /\ runner' = [runner EXCEPT ![r] = [Idle EXCEPT !.pc = "claimed", !.job = j,
                                              !.epoch = job'[j].leaseVersion]]
     \/ ExhaustJob(j) /\ UNCHANGED runner
  /\ UNCHANGED accountVars
  /\ NoCall

\* Another provider is configured, or the host's policy says no (or throws).
Refuse(r) ==
  /\ At(r, "claimed")
  /\ \E code \in {"provider-unavailable", "denied"} : ToFail(r, code, FALSE)
  /\ UNCHANGED accountingVars
  /\ NoCall

Authorize(r) ==
  /\ At(r, "claimed")
  /\ ~Accounted
  /\ Goto(r, "dispatch")
  /\ UNCHANGED accountingVars
  /\ NoCall

\* accounting.reserve; an applied reservation whose reply is lost ends in denied.
Reserve(r) ==
  LET j == runner[r].job  e == runner[r].epoch  p == Policy[j]
  IN /\ At(r, "claimed")
     /\ Accounted
     /\ \/ ReserveAttempt(j, e, p[1], p[2]) /\ (Goto(r, "dispatch") \/ ToFail(r, "denied", FALSE))
        \/ /\ ~MayReserve(j, e, p[1], p[2])
           /\ ToFail(r, "denied", FALSE)
           /\ UNCHANGED accountingVars
     /\ NoCall

\* accounting.dispatch
DispatchAccounted(r) ==
  LET j == runner[r].job  e == runner[r].epoch
  IN /\ At(r, "dispatch")
     /\ Accounted
     /\ \/ DispatchAttempt(j, e) /\ (Goto(r, "call") \/ ToFail(r, "denied", FALSE))
        \/ /\ ~MayDispatch(j, e)
           /\ Goto(r, "release")
           /\ UNCHANGED accountingVars
     /\ NoCall

\* store.markJobDispatched; a refusal may have failed the job.
DispatchPlain(r) ==
  LET j == runner[r].job  e == runner[r].epoch
  IN /\ At(r, "dispatch")
     /\ ~Accounted
     /\ \/ /\ MarkJobDispatched(j, e)
           /\ IF InputProblem(j) THEN Return(r)
              ELSE Goto(r, "call") \/ ToFail(r, "denied", FALSE)
        \/ /\ ~Live(j, e)
           /\ Return(r)
           /\ UNCHANGED jobsVars
     /\ UNCHANGED accountVars
     /\ NoCall

\* accounting.release, after the dispatch was refused. Its reply may be lost too.
Release(r) ==
  LET j == runner[r].job  e == runner[r].epoch
  IN /\ At(r, "release")
     /\ ReleaseAttempt(j, e)
     /\ Return(r) \/ ToFail(r, "denied", FALSE)
     /\ NoCall

\* The worker goes on when the call fails: not what the code does.
LoseCallAndGoOn(r) ==
  /\ \/ At(r, "claimed") /\ Accounted /\ Goto(r, "dispatch")
     \/ At(r, "dispatch") /\ Goto(r, "call")
     \/ At(r, "release") /\ ToFail(r, "denied", FALSE)
  /\ UNCHANGED accountingVars
  /\ NoCall

\* A store call of the accounting prologue does not reach the store.
LoseCall(r) ==
  /\ \/ At(r, "claimed") /\ Accounted
     \/ At(r, "dispatch")
     \/ At(r, "release")
  /\ ToFail(r, "denied", FALSE)
  /\ UNCHANGED accountingVars
  /\ NoCall

\* provider.generate is called.
Call(r) ==
  /\ At(r, "call")
  /\ calls' = calls \cup {<<runner[r].job, runner[r].epoch>>}
  /\ Goto(r, "calling")
  /\ UNCHANGED <<accountingVars, answers>>

\* The provider answers in time: a text, with or without usage.
Answer(r, text, charge) ==
  /\ At(r, "calling")
  /\ answers' = answers \cup {<<runner[r].job, runner[r].epoch, text>>}
  /\ runner' = [runner EXCEPT ![r].pc = IF Accounted THEN "settle" ELSE "write",
                              ![r].text = text,
                              ![r].charge = IF Accounted THEN charge ELSE NoCharge]
  /\ UNCHANGED <<accountingVars, calls>>

\* It times out, fails (for good or not), or answers nonsense. Without
\* accounting only nonsense and a refusal by the provider end the job.
ProviderFails(r, code, permanent) ==
  /\ At(r, "calling")
  /\ code = "provider-timeout" => ~permanent
  /\ code = "invalid-result" => permanent
  /\ IF Accounted
     THEN runner' = [runner EXCEPT ![r].pc = "settle", ![r].code = code]
     ELSE ToFail(r, code, ~permanent)
  /\ UNCHANGED accountingVars
  /\ NoCall

\* What runOnce does once accounting.settle has returned true.
Settled(r) == IF runner[r].code = "none" THEN Goto(r, "write")
              ELSE ToFail(r, runner[r].code, FALSE)

\* ... or false, or thrown: a provider failure stays what it was.
NotSettled(r) ==
  ToFail(r, IF runner[r].code \in {"provider-error", "provider-timeout"}
            THEN runner[r].code ELSE "denied", FALSE)

\* accounting.settle, with its reply delivered, lost, or the call itself lost.
Settle(r) ==
  LET j == runner[r].job  e == runner[r].epoch
  IN /\ At(r, "settle")
     /\ \/ SettleAttempt(j, e, runner[r].charge) /\ (Settled(r) \/ NotSettled(r))
        \/ NotSettled(r) /\ UNCHANGED accountingVars
     /\ NoCall

\* The check made before the dispatch is taken as enough: not what the code does.
SnapshotUnchecked(r) ==
  /\ At(r, "write")
  /\ runner' = [runner EXCEPT ![r].pc = "swap",
                              ![r].version = version[job[runner[r].job].intent.unit]]
  /\ UNCHANGED accountingVars
  /\ NoCall

\* TranslationLifecycle.write: read the snapshot and check the intent against it.
Snapshot(r) ==
  LET j == runner[r].job
  IN /\ At(r, "write")
     /\ IF Admissible(Result(j, runner[r].text))
        THEN runner' = [runner EXCEPT ![r].pc = "swap",
                                      ![r].version = version[job[j].intent.unit]]
        ELSE \* a problem with the input, or with the tokens of the text
             ToFail(r, IF InputProblem(j) THEN ProblemCode(j) ELSE "invalid-result", FALSE)
     /\ UNCHANGED accountingVars
     /\ NoCall

\* The swap does not look at the fence: not what the code does.
SwapUnfenced(r) ==
  LET j == runner[r].job  res == Result(j, runner[r].text)
  IN /\ At(r, "swap")
     /\ IF SwapConflict(res.unit, runner[r].version)
        THEN ToFail(r, "write-conflict", FALSE) /\ UNCHANGED jobsVars
        ELSE IF IdTaken(res) THEN ToFail(r, "head-changed", FALSE) /\ UNCHANGED jobsVars
        ELSE Return(r) /\ Complete(j, runner[r].text)
     /\ UNCHANGED accountVars
     /\ NoCall

\* compareAndSwap with the job fence: version, fence, revision id, in that order.
\* A collision is retried once with the same text, never with a second call.
Swap(r) ==
  LET j == runner[r].job  e == runner[r].epoch  res == Result(j, runner[r].text)
      conflict == SwapConflict(res.unit, runner[r].version)
  IN /\ At(r, "swap")
     /\ \/ /\ conflict
           /\ IF runner[r].tries = 0
              THEN runner' = [runner EXCEPT ![r].pc = "write", ![r].tries = 1, ![r].version = 0]
              ELSE ToFail(r, "write-conflict", FALSE)
           /\ UNCHANGED jobsVars
        \/ ~conflict /\ ~Fenced(j, e) /\ Return(r) /\ UNCHANGED jobsVars
        \/ /\ ~conflict /\ Fenced(j, e) /\ IdTaken(res)
           /\ ToFail(r, "head-changed", FALSE)
           /\ UNCHANGED jobsVars
        \/ /\ ~conflict /\ Fenced(j, e) /\ ~IdTaken(res)
           /\ Return(r)
           /\ Complete(j, runner[r].text)
     /\ UNCHANGED accountVars
     /\ NoCall

\* failJob, with a backoff of at least a second.
Fail(r) ==
  LET j == runner[r].job  e == runner[r].epoch
  IN /\ At(r, "fail")
     /\ Return(r)
     /\ \/ FailJob(j, e, runner[r].code, runner[r].retryable, FALSE)
        \/ ~Live(j, e) /\ UNCHANGED jobsVars
     /\ UNCHANGED accountVars
     /\ NoCall

\* The process dies, or a store call throws out of runOnce.
Crash(r) ==
  /\ ~At(r, "idle")
  /\ Return(r)
  /\ UNCHANGED accountingVars
  /\ NoCall

ProviderCodes == {"provider-timeout", "provider-error", "invalid-result"}

Step(r) ==
  \/ Refuse(r) \/ Authorize(r) \/ Reserve(r)
  \/ DispatchAccounted(r) \/ DispatchPlain(r) \/ Release(r) \/ LoseCall(r)
  \/ Call(r)
  \/ \E x \in Texts, charge \in Charges \cup {NoCharge} : Answer(r, x, charge)
  \/ \E code \in ProviderCodes, permanent \in BOOLEAN : ProviderFails(r, code, permanent)
  \/ Settle(r) \/ Snapshot(r) \/ Swap(r) \/ Fail(r)

\* Hosts, editors and the clock.
Environment ==
  /\ \/ StoreNext /\ UNCHANGED accountVars
     \/ \E j \in Jobs : (EnqueueJob(j) \/ CancelJob(j) \/ Elapse(j)) /\ UNCHANGED accountVars
     \/ Accounted /\ \E a \in Allowances : CreateAllowance(a)
  /\ UNCHANGED runnerVars

Next == \/ Environment
        \/ \E r \in Runners : Step(r) \/ Crash(r) \/ \E j \in Jobs : Claim(r, j)

Spec == Init /\ [][Next]_vars

\* Time passes, workers that do not crash make progress, and a scheduler keeps
\* offering ready jobs (listReadyJobs) to workers. Crashes are not bounded.
Fairness ==
  /\ \A j \in Jobs : WF_vars(Elapse(j) /\ UNCHANGED <<accountVars, runnerVars>>)
  /\ \A j \in Jobs : WF_vars(\E r \in Runners : Claim(r, j))
  /\ \A r \in Runners : WF_vars(Step(r))

FairSpec == Spec /\ Fairness

-----------------------------------------------------------------------------
(* Properties *)

\* Two workers never hold the same lease: everything they do under a (job, lease
\* version) is done by one of them.
LeasesAreExclusive ==
  \A r, s \in Runners :
    (r # s /\ ~At(r, "idle") /\ ~At(s, "idle"))
      => <<runner[r].job, runner[r].epoch>> # <<runner[s].job, runner[s].epoch>>

\* "Persist before calling a provider": every call made has its dispatch on
\* record, and with accounting its hold, even if the worker then vanished.
CallsAreOnRecord ==
  \A k \in calls : /\ k[2] \in sent[k[1]]
                   /\ Accounted => attempt[k].state \in Spent

\* With accounting, a job's provider is called again only when the cost of every
\* earlier call is known and booked.
NoBlindRetry ==
  Accounted => \A k, m \in calls :
    (k[1] = m[1] /\ k[2] < m[2]) => attempt[k].state = "settled"

\* A completed job carries the text the provider gave under its last lease: a
\* worker that was overtaken never publishes its own late answer.
CompletedFromLastLease ==
  \A j \in Jobs : job[j].status = "completed" =>
    \E x \in Texts : /\ Result(j, x) \in revisions
                     /\ <<j, job[j].leaseVersion, x>> \in answers

\* Every queued job ends, however often workers crash and leases expire.
EveryJobEnds == \A j \in Jobs : job[j].status = "queued" ~> job[j].status \in Terminal

\* The workers' many steps are transactions of the accounting store and nothing
\* else: what holds of that store holds whatever the workers do.
ImplementsAccounting == AccountingSpec

\* The same without accounting.
ImplementsQueue == JobsSpec
=============================================================================

-------------------------- MODULE TranslationBatch --------------------------
(***************************************************************************)
(* A reviewed batch of translation jobs (translation-batches.ts) and the   *)
(* request allowance it runs on (translation-allowance.ts). Rows of the    *)
(* host's settings are changed by compare-and-swap; jobs and attempts live *)
(* in a remote ledger, one transaction per call, and no transaction spans  *)
(* the two. Administrators' calls start, continue and cancel batches       *)
(* concurrently; a call may stop between any two statements.               *)
(*                                                                         *)
(* Abstractions: the remote ledger is what TranslationAccounting promises, *)
(* for jobs with one attempt of one unit; a job that was cancelled, failed *)
(* or completed has "ended"; a source edit, a retarget and a lost reply    *)
(* make a call stop, and a retarget lasts; a lease may expire at any time; *)
(* of an allowance's limits only the concurrent calls are kept.            *)
(***************************************************************************)
EXTENDS Naturals, FiniteSets

CONSTANTS
  Calls,          \* concurrent administrator requests
  Batches,
  Size,           \* batch -> its number of items
  Earlier,        \* a batch of one item that is on hold when the run begins
  MaxConcurrent,  \* of every allowance
  MaxJobs,        \* job steps of one closing call
  None,           \* no row, no batch
  MaxStops        \* bound: calls that stop half-way, expired leases, retargets

VARIABLES
  batch,      \* rows translation_batch:v1:<id>
  current,    \* translation_allowance:v1: the batch whose plan is recorded
  archive,    \* rows translation_allowance_archive:v1:<id>
  life,       \* rows translation_allowance_lifecycle:v1:<hash>
  pinned,     \* the host is still configured as reviewed
  allowed,    \* remote: allowances
  job,        \* remote: status of <<batch, item>>
  attempt,    \* remote: state of the attempt of <<batch, item>>
  call,       \* program counter and local variables of each call
  stops       \* history: how many there were

host   == <<batch, current, archive, life, pinned>>
remote == <<allowed, job, attempt>>
vars   == <<host, remote, call, stops>>

Items == UNION {{b} \X (0..Size[b]-1) : b \in Batches}

Phases == {"planned", "preparing", "queued", "done", "cancelling", "closed"}
Row    == [phase : Phases, cursor : Nat, policy : BOOLEAN]
Life   == [stage : {"cancel", "reconcile", "review", "closed"}, cursor : Nat,
           consumed : Nat, unknown : Nat, released : Nat]

\* A batch has at least one item; the earlier one has exactly one.
ASSUME BatchAssumption == /\ Size \in [Batches -> Nat \ {0}] /\ MaxJobs \in Nat
                          /\ None \notin Batches /\ None \notin Life
                          /\ Earlier \in Batches \cup {None}
                          /\ Earlier \in Batches => Size[Earlier] = 1

Spent  == {"dispatched", "settled", "uncertain"}

Idle == [pc |-> "idle", batch |-> None, row |-> None, item |-> 0, prior |-> None,
         next |-> None, left |-> 0, count |-> FALSE]

TypeOK == /\ batch \in [Batches -> Row]
          /\ current \in Batches \cup {None} /\ archive \subseteq Batches
          /\ life \in [Batches -> Life \cup {None}] /\ pinned \in BOOLEAN
          /\ allowed \subseteq Batches
          /\ job \in [Items -> {"none", "queued", "leased", "ended"}]
          /\ attempt \in [Items -> {"none", "reserved", "released"} \cup Spent]

NewRow  == [phase |-> "planned", cursor |-> 0, policy |-> FALSE]
NewLife == [stage |-> "cancel", cursor |-> 0, consumed |-> 0, unknown |-> 0, released |-> 0]

\* The earlier batch was cancelled with hold: its one request went out, what it
\* cost is not known, and its allowance waits in review for an administrator.
Init == /\ batch = [b \in Batches |-> IF b = Earlier
                     THEN [phase |-> "cancelling", cursor |-> 1, policy |-> TRUE] ELSE NewRow]
        /\ current = Earlier /\ archive = {}
        /\ life = [b \in Batches |-> IF b = Earlier
                     THEN [NewLife EXCEPT !.stage = "review", !.cursor = 1, !.unknown = 1] ELSE None]
        /\ pinned = TRUE
        /\ allowed = {Earlier} \ {None}
        /\ job = [k \in Items |-> IF k[1] = Earlier THEN "ended" ELSE "none"]
        /\ attempt = [k \in Items |-> IF k[1] = Earlier THEN "uncertain" ELSE "none"]
        /\ call = [c \in Calls |-> Idle] /\ stops = 0

-----------------------------------------------------------------------------
At(c, pc)      == call[c].pc = pc
Goto(c, pc)    == call' = [call EXCEPT ![c].pc = pc]
GoOn(c, pc, r) == call' = [call EXCEPT ![c].pc = pc, ![c].row = r]
Return(c)      == call' = [call EXCEPT ![c] = Idle]
Key(c)         == <<call[c].batch, call[c].item>>
Closed(b)      == life[b] # None /\ life[b].stage = "closed"

\* The row is written whatever it holds by now: not what the code does.
SaveBlindly(b, seen, new) == batch' = [batch EXCEPT ![b] = new]

\* save: compare-and-swap of the whole row. The caller goes on with what it
\* then reads, batch'[b], swapped or not.
Save(b, seen, new) == batch' = [batch EXCEPT ![b] = IF @ = seen THEN new ELSE @]

\* A closing allowance is not noticed: not what the code does.
UnchangedHost(b) == current = b /\ pinned

\* unchanged: the allowance is recorded, never closing, and the host as pinned.
Unchanged(b) == current = b /\ life[b] = None /\ pinned

\* ... with the permit of the batch: each provider step asks again.
Guard(b) == Unchanged(b) /\ batch[b].phase = "queued"

-----------------------------------------------------------------------------
(* startTranslationBatch and continueTranslationBatch, up to the allowance *)

BeginStart(c, b) ==
  /\ At(c, "idle") /\ pinned
  /\ batch[b].phase \in {"planned", "preparing"}
  /\ call' = [call EXCEPT ![c] = [Idle EXCEPT !.pc = IF batch[b].phase = "planned"
                 THEN "approve" ELSE "allocate", !.batch = b, !.row = batch[b]]]
  /\ UNCHANGED <<host, remote, stops>>

Approve(c) ==
  LET b == call[c].batch
  IN /\ At(c, "approve")
     /\ Save(b, call[c].row, [call[c].row EXCEPT !.phase = "preparing"])
     /\ IF batch'[b].phase = "preparing" THEN GoOn(c, "allocate", batch'[b]) ELSE Return(c)
     /\ UNCHANGED <<current, archive, life, pinned, remote, stops>>

BeginContinue(c, b) ==
  LET row == batch[b]
  IN /\ At(c, "idle") /\ pinned
     /\ row.phase \in {"preparing", "queued"}
     /\ call' = [call EXCEPT ![c] = [Idle EXCEPT !.batch = b, !.row = row,
                    !.pc = IF ~row.policy THEN "allocate"
                           ELSE IF row.phase = "preparing" THEN "enqueue" ELSE "pick"]]
     /\ UNCHANGED <<host, remote, stops>>

\* allocate, and the checks of prepareTranslationAllowance.
Allocate(c) ==
  LET b == call[c].batch
  IN /\ At(c, "allocate")
     /\ IF ~call[c].row.policy /\ pinned /\ batch[b] = call[c].row /\ b \notin archive
        THEN Goto(c, "record") ELSE Return(c)
     /\ UNCHANGED <<host, remote, stops>>

\* INSERT of the plan, if the row is still as read; then the record is read.
Record(c) ==
  LET b == call[c].batch
  IN /\ At(c, "record")
     /\ current' = IF current = None /\ batch[b] = call[c].row THEN b ELSE current
     /\ IF current' = b THEN Goto(c, "fund")
        ELSE IF current' # None /\ Closed(current')
        THEN call' = [call EXCEPT ![c].pc = "archive", ![c].prior = current']
        ELSE Return(c)
     /\ UNCHANGED <<batch, archive, life, pinned, remote, stops>>

Archive(c) ==
  /\ At(c, "archive") /\ current # None
  /\ IF current = call[c].prior
     THEN archive' = archive \cup {current} /\ Goto(c, "replace")
     ELSE Return(c) /\ UNCHANGED archive
  /\ UNCHANGED <<batch, current, life, pinned, remote, stops>>

\* The batch may have been cancelled meanwhile: not what the code does.
ReplaceAnyway(c) ==
  LET b == call[c].batch
  IN /\ At(c, "replace")
     /\ current' = IF current = call[c].prior THEN b ELSE current
     /\ IF current' = b THEN call' = [call EXCEPT ![c].pc = "fund", ![c].prior = None]
        ELSE Return(c)
     /\ UNCHANGED <<batch, archive, life, pinned, remote, stops>>

\* The closed predecessor is replaced by compare-and-swap.
Replace(c) ==
  LET b == call[c].batch
  IN /\ At(c, "replace")
     /\ current' = IF current = call[c].prior /\ batch[b] = call[c].row THEN b ELSE current
     /\ IF current' = b THEN call' = [call EXCEPT ![c].pc = "fund", ![c].prior = None]
        ELSE Return(c)
     /\ UNCHANGED <<batch, archive, life, pinned, remote, stops>>

Confirm(c) ==
  /\ At(c, "fund")
  /\ IF Unchanged(call[c].batch) THEN Goto(c, "create") ELSE Return(c)
  /\ UNCHANGED <<host, remote, stops>>

CreateAllowance(c) ==
  /\ At(c, "create")
  /\ allowed' = allowed \cup {call[c].batch}
  /\ Goto(c, "created")
  /\ UNCHANGED <<host, job, attempt, stops>>

Created(c) ==
  /\ At(c, "created")
  /\ IF Unchanged(call[c].batch) THEN Goto(c, "funded") ELSE Return(c)
  /\ UNCHANGED <<host, remote, stops>>

SavePolicy(c) ==
  /\ At(c, "funded")
  /\ Save(call[c].batch, call[c].row, [call[c].row EXCEPT !.policy = TRUE])
  /\ Return(c)
  /\ UNCHANGED <<current, archive, life, pinned, remote, stops>>

-----------------------------------------------------------------------------
(* continueTranslationBatch: one item prepared, or one job run *)

Enqueue(c) ==
  LET k == <<call[c].batch, call[c].row.cursor>>
  IN /\ At(c, "enqueue")
     /\ job' = [job EXCEPT ![k] = IF @ = "none" THEN "queued" ELSE @]
     /\ Goto(c, "progress")
     /\ UNCHANGED <<host, allowed, attempt, stops>>

SaveProgress(c) ==
  LET b == call[c].batch  next == call[c].row.cursor + 1
  IN /\ At(c, "progress")
     /\ Save(b, call[c].row, [call[c].row EXCEPT !.cursor = next,
                !.phase = IF next = Size[b] THEN "queued" ELSE "preparing"])
     /\ Return(c)
     /\ UNCHANGED <<current, archive, life, pinned, remote, stops>>

\* The runner is built and the first item that has not ended is chosen.
Pick(c) ==
  LET b    == call[c].batch
      open == {i \in 0..Size[b]-1 : job[<<b, i>>] \in {"queued", "leased"}}
  IN /\ At(c, "pick")
     /\ IF ~Unchanged(b) \/ b \notin allowed THEN Return(c)
        ELSE IF open = {} THEN Goto(c, "finish")
        ELSE call' = [call EXCEPT ![c].pc = "claim",
                        ![c].item = CHOOSE i \in open : \A o \in open : i <= o]
     /\ UNCHANGED <<host, remote, stops>>

SaveDone(c) ==
  /\ At(c, "finish")
  /\ Save(call[c].batch, call[c].row, [call[c].row EXCEPT !.phase = "done"])
  /\ Return(c)
  /\ UNCHANGED <<current, archive, life, pinned, remote, stops>>

\* claimJob: a lease that expired was the only one.
Claim(c) ==
  LET k == Key(c)
  IN /\ At(c, "claim")
     /\ \/ job[k] = "queued" /\ job' = [job EXCEPT ![k] = "leased"] /\ Goto(c, "claimed") /\ UNCHANGED stops
        \/ /\ job[k] = "leased" /\ stops < MaxStops
           /\ job' = [job EXCEPT ![k] = "ended"] /\ stops' = stops + 1 /\ Return(c)
        \/ job[k] # "queued" /\ UNCHANGED <<job, stops>> /\ Return(c)
     /\ UNCHANGED <<host, allowed, attempt>>

\* The guard before reserve, dispatch and generate, asked in a step of its own.
Ask(c) ==
  /\ \/ At(c, "claimed")  /\ Goto(c, IF Guard(call[c].batch) THEN "reserve" ELSE "end")
     \/ At(c, "reserved") /\ Goto(c, IF Guard(call[c].batch) THEN "dispatch" ELSE "release")
     \/ At(c, "sent")     /\ Goto(c, IF Guard(call[c].batch) THEN "calling" ELSE "unknown")
  /\ UNCHANGED <<host, remote, stops>>

Held(b) == {k \in Items : k[1] = b /\ attempt[k] \in {"reserved", "dispatched", "uncertain"}}

Reserve(c) ==
  LET k == Key(c)
  IN /\ At(c, "reserve")
     /\ IF job[k] = "leased" /\ attempt[k] = "none" /\ Cardinality(Held(k[1])) < MaxConcurrent
        THEN attempt' = [attempt EXCEPT ![k] = "reserved"] /\ Goto(c, "reserved")
        ELSE Goto(c, "end") /\ UNCHANGED attempt
     /\ UNCHANGED <<host, allowed, job, stops>>

\* dispatchAttempt, refused also when the source or the head has changed.
Dispatch(c) ==
  LET k == Key(c)
  IN /\ At(c, "dispatch")
     /\ \/ /\ job[k] = "leased" /\ attempt[k] = "reserved"
           /\ attempt' = [attempt EXCEPT ![k] = "dispatched"]
           /\ Goto(c, "sent")
        \/ Goto(c, "release") /\ UNCHANGED attempt
     /\ UNCHANGED <<host, allowed, job, stops>>

Released(k) == [attempt EXCEPT ![k] = IF @ = "reserved" THEN "released" ELSE @]

\* The job keeps its lease until that expires.
Release(c) ==
  /\ At(c, "release")
  /\ attempt' = Released(Key(c))
  /\ Return(c)
  /\ UNCHANGED <<host, allowed, job, stops>>

\* The provider answers, after which the guard is asked again, or fails.
Answer(c) ==
  /\ At(c, "calling")
  /\ Goto(c, IF Guard(call[c].batch) THEN "settle" ELSE "fence") \/ Goto(c, "unknown")
  /\ UNCHANGED <<host, remote, stops>>

\* cancelJob: a queued or leased job ends.
Cancelled(k) == [job EXCEPT ![k] = IF @ \in {"queued", "leased"} THEN "ended" ELSE @]

Fence(c) ==
  /\ At(c, "fence")
  /\ job' = Cancelled(Key(c))
  /\ Goto(c, "settle")
  /\ UNCHANGED <<host, allowed, attempt, stops>>

Settle(c) ==
  LET k == Key(c)
  IN /\ call[c].pc \in {"settle", "unknown"}
     /\ attempt' = [attempt EXCEPT ![k] = IF @ # "dispatched" THEN @
                      ELSE IF At(c, "settle") THEN "settled" ELSE "uncertain"]
     /\ Goto(c, "end")
     /\ UNCHANGED <<host, allowed, job, stops>>

\* The fenced commit, or failJob.
EndJob(c) ==
  /\ At(c, "end")
  /\ job' = [job EXCEPT ![Key(c)] = IF @ = "leased" THEN "ended" ELSE @]
  /\ Return(c)
  /\ UNCHANGED <<host, allowed, attempt, stops>>

-----------------------------------------------------------------------------
(* cancelTranslationBatch and closeTranslationAllowance *)

BeginCancel(c, b, count) ==
  LET row == batch[b]
  IN /\ At(c, "idle")
     /\ row.phase # "closed"
     /\ call' = [call EXCEPT ![c] = [Idle EXCEPT !.batch = b, !.row = row, !.count = count,
                    !.next = IF row.phase = "planned" THEN [row EXCEPT !.phase = "closed"] ELSE None,
                    !.pc = CASE row.phase = "planned" -> "close"
                             [] row.phase = "cancelling" -> "refer"
                             [] OTHER -> "cancel"]]
     /\ UNCHANGED <<host, remote, stops>>

SaveCancelling(c) ==
  LET b == call[c].batch
  IN /\ At(c, "cancel")
     /\ Save(b, call[c].row, [call[c].row EXCEPT !.phase = "cancelling"])
     /\ IF batch'[b].phase = "closed" THEN Return(c) ELSE GoOn(c, "refer", batch'[b])
     /\ UNCHANGED <<current, archive, life, pinned, remote, stops>>

ToClose(c, new) == call' = [call EXCEPT ![c].pc = "close", ![c].next = new]

\* The closing calls end here too: what the row says of a closed allowance.
RowAfter(c, closed) ==
  [call[c].row EXCEPT !.policy = TRUE, !.phase = IF closed THEN "closed" ELSE "cancelling"]

\* Which allowance the batch has, and whether it is closed already.
Refer(c) ==
  LET b == call[c].batch
  IN /\ At(c, "refer")
     /\ IF ~call[c].row.policy /\ current # b
        THEN ToClose(c, [call[c].row EXCEPT !.phase = "closed"])
        ELSE IF Closed(b) THEN ToClose(c, RowAfter(c, TRUE))
        ELSE IF current = b THEN Goto(c, "freeze")
        ELSE Return(c)
     /\ UNCHANGED <<host, remote, stops>>

\* INSERT of the lifecycle row; what is read back is where the call goes on.
Freeze(c) ==
  LET b == call[c].batch
  IN /\ At(c, "freeze")
     /\ life' = [life EXCEPT ![b] = IF @ = None THEN NewLife ELSE @]
     /\ IF Closed(b) THEN ToClose(c, RowAfter(c, TRUE))
        ELSE call' = [call EXCEPT ![c].pc = "frozen", ![c].prior = life'[b]]
     /\ UNCHANGED <<batch, current, archive, pinned, remote, stops>>

\* readAllowance: without a remote allowance there is nothing to reconcile with.
Resolve(c) ==
  /\ At(c, "frozen")
  /\ IF call[c].batch \in allowed
     THEN call' = [call EXCEPT ![c].pc = "pass", ![c].next = call[c].prior, ![c].left = MaxJobs]
     ELSE Return(c)
  /\ UNCHANGED <<host, remote, stops>>

\* A job of the pass may be handled now.
Passing(c, stage) ==
  LET p == call[c].next
  IN At(c, "pass") /\ p.stage = stage /\ p.cursor < Size[call[c].batch] /\ call[c].left > 0

Pass(c, p, left) ==
  call' = [call EXCEPT ![c].next = IF p.stage = "cancel" /\ p.cursor = Size[call[c].batch]
                                   THEN [p EXCEPT !.stage = "reconcile", !.cursor = 0] ELSE p,
                       ![c].left = left]

\* The first pass looks at the jobs only: not what the code does.
LookAtJob(c) ==
  LET p == call[c].next
  IN /\ Passing(c, "cancel")
     /\ Pass(c, [p EXCEPT !.cursor = @ + 1], call[c].left - 1)
     /\ UNCHANGED <<host, remote, stops>>

\* First pass: the job is fenced.
FenceJob(c) ==
  LET p == call[c].next  k == <<call[c].batch, p.cursor>>
  IN /\ Passing(c, "cancel")
     /\ job' = Cancelled(k)
     /\ Pass(c, [p EXCEPT !.cursor = @ + 1], call[c].left - 1)
     /\ UNCHANGED <<host, allowed, attempt, stops>>

Counted(p, state) ==
  [p EXCEPT !.cursor   = @ + 1,
            !.consumed = @ + IF state = "settled" THEN 1 ELSE 0,
            !.unknown  = @ + IF state \in {"dispatched", "uncertain"} THEN 1 ELSE 0,
            !.released = @ + IF state = "released" THEN 1 ELSE 0]

\* Second pass: a job enqueued late starts the passes again; otherwise a hold
\* that was not spent is released and the attempt is counted.
Reconcile(c) ==
  LET p == call[c].next  k == <<call[c].batch, p.cursor>>
  IN /\ Passing(c, "reconcile")
     /\ IF job[k] \in {"queued", "leased"}
        THEN Pass(c, NewLife, 0) /\ UNCHANGED attempt
        ELSE attempt' = Released(k) /\ Pass(c, Counted(p, attempt'[k]), call[c].left - 1)
     /\ UNCHANGED <<host, allowed, job, stops>>

\* What a closing call leaves in the lifecycle row.
After(p, n, count) ==
  IF p.stage = "review" \/ (p.stage = "reconcile" /\ p.cursor = n)
  THEN IF p.unknown = 0 \/ count
       THEN [p EXCEPT !.stage = "closed", !.cursor = 0, !.consumed = @ + p.unknown]
       ELSE [p EXCEPT !.stage = "review"]
  ELSE p

SaveLife(c) ==
  LET b == call[c].batch
  IN /\ At(c, "pass")
     /\ ~Passing(c, "cancel") /\ ~Passing(c, "reconcile")
     /\ life' = [life EXCEPT ![b] = IF @ = call[c].prior
                                    THEN After(call[c].next, Size[b], call[c].count) ELSE @]
     /\ ToClose(c, RowAfter(c, life'[b].stage = "closed"))
     /\ UNCHANGED <<batch, current, archive, pinned, remote, stops>>

SaveClosed(c) ==
  /\ At(c, "close")
  /\ Save(call[c].batch, call[c].row, call[c].next)
  /\ Return(c)
  /\ UNCHANGED <<current, archive, life, pinned, remote, stops>>

-----------------------------------------------------------------------------
\* The caller goes away, a reply is lost, a page or a credential changed.
Stop(c) ==
  /\ ~At(c, "idle") /\ stops < MaxStops
  /\ stops' = stops + 1
  /\ Return(c)
  /\ UNCHANGED <<host, remote>>

\* The host's translation storage or generation settings are changed.
Retarget ==
  /\ pinned /\ stops < MaxStops
  /\ pinned' = FALSE /\ stops' = stops + 1
  /\ UNCHANGED <<batch, current, archive, life, remote, call>>

Advance(c) ==
  \/ Approve(c) \/ Allocate(c) \/ Record(c) \/ Archive(c) \/ Replace(c) \/ Confirm(c)
  \/ CreateAllowance(c) \/ Created(c) \/ SavePolicy(c)
  \/ Enqueue(c) \/ SaveProgress(c) \/ Pick(c) \/ SaveDone(c)
  \/ Claim(c) \/ Ask(c) \/ Reserve(c) \/ Dispatch(c) \/ Release(c) \/ Answer(c)
  \/ Fence(c) \/ Settle(c) \/ EndJob(c)
  \/ SaveCancelling(c) \/ Refer(c) \/ Freeze(c) \/ Resolve(c)
  \/ FenceJob(c) \/ Reconcile(c) \/ SaveLife(c) \/ SaveClosed(c)

Next ==
  \/ \E c \in Calls :
       \/ \E b \in Batches : \/ BeginStart(c, b) \/ BeginContinue(c, b)
                             \/ \E count \in BOOLEAN : BeginCancel(c, b, count)
       \/ Advance(c)
       \/ Stop(c)
  \/ Retarget

\* A call runs on until it returns; an administrator who cancelled a batch asks
\* again until it is closed, and takes unknown outcomes as consumed in the end;
\* the earlier batch may stay on hold.
CancelAgain(b) == batch[b].phase = "cancelling" /\ \E c \in Calls : BeginCancel(c, b, TRUE)

Fairness == /\ \A c \in Calls : WF_vars(Advance(c))
            /\ \A b \in Batches \ {Earlier} : SF_vars(CancelAgain(b))

Spec == Init /\ [][Next]_vars /\ Fairness

-----------------------------------------------------------------------------
(* Properties *)

Of(b, states) == {k \in Items : k[1] = b /\ attempt[k] \in states}

\* A closed allowance reports every request that went out, or may have, as
\* consumed, every other hold as released, and leaves none: whatever runs and
\* enqueues were under way while it was closed, and however often the passes
\* were repeated from a saved cursor. As the totals are final, nothing is spent
\* afterwards ("All jobs are fenced before release").
ClosedTotalsAreTrue ==
  \A b \in Batches : Closed(b) =>
    /\ life[b].consumed = Cardinality(Of(b, Spent))
    /\ life[b].released = Cardinality(Of(b, {"released"}))
    /\ Of(b, {"reserved"}) = {}

\* A remote allowance can still be closed: it is the recorded one, or it is
\* closed; and a batch closed by its administrator leaves none open behind it
\* ("Cancel changes that row first, so a late Start cannot mint an orphan
\* allowance").
NoOrphanAllowance ==
  \A b \in allowed \cup ({current} \ {None}) :
    (current # b \/ batch[b].phase = "closed") => Closed(b)

Rank(phase) == CASE phase = "planned" -> 0 [] phase = "preparing" -> 1 [] phase = "queued" -> 2
                 [] phase = "done" -> 3 [] phase = "cancelling" -> 4 [] phase = "closed" -> 5

\* A batch only moves on: a call that read the row before a cancellation, or
\* before another call prepared an item, does not take it back.
ProgressIsKept ==
  [][\A b \in Batches : /\ Rank(batch'[b].phase) >= Rank(batch[b].phase)
                        /\ batch'[b].cursor >= batch[b].cursor
                        /\ batch[b].policy => batch'[b].policy]_batch

\* A cancelled batch is closed in the end, with its allowance settled, even if
\* the host was retargeted meanwhile and calls stopped half-way. The exception
\* is a start that stopped after recording its plan and before creating the
\* allowance: nothing repairs that record once the batch is cancelled.
Unfunded(b) == current = b /\ b \notin allowed

CancelEnds ==
  \A b \in Batches \ {Earlier} :
    batch[b].phase = "cancelling" ~> (batch[b].phase = "closed" \/ Unfunded(b))
=============================================================================

----------------------- MODULE TranslationAccounting ------------------------
(***************************************************************************)
(* Cost accounting beside the job queue (adapters/sqlite-accounting.ts and *)
(* postgrest-accounting-v1.sql): an allowance limits the units, requests   *)
(* and concurrent calls of many jobs; an attempt row per (job, lease       *)
(* version) holds units before the provider is called and is settled from  *)
(* the reported usage. As in TranslationJobs, every action is a transaction*)
(* anyone may request at any time with any epoch; calls that the code      *)
(* refuses, or answers without writing (a repeated settle), change nothing *)
(* and are not actions.                                                    *)
(***************************************************************************)
EXTENDS TranslationJobs, FiniteSetsExt

CONSTANTS
  Allowances,   \* allowance ids
  Limit,        \* allowance -> limitUnits
  MaxRequests,  \* allowance -> maxRequests
  MaxConcurrent,\* allowance -> maxConcurrent
  Amounts,      \* reservedUnits a policy may pin
  Charges,      \* units a provider's usage may cost
  NoAllowance,  \* an attempt that was never reserved
  NoCharge      \* chargedUnits = null: usage unknown

ASSUME AccountingAssumption ==
  /\ IsFiniteSet(Jobs)
  /\ Limit \in [Allowances -> Nat]
  /\ MaxRequests \in [Allowances -> Nat \ {0}]
  /\ MaxConcurrent \in [Allowances -> Nat \ {0}]
  /\ Amounts \subseteq Nat \ {0}
  /\ Charges \subseteq Nat
  /\ NoAllowance \notin Allowances
  /\ NoCharge \notin Nat

VARIABLES
  allowed,  \* the allowances table: ids whose row exists
  attempt   \* the attempts table, by <<job, lease version>>

accountVars == <<allowed, attempt>>
accountingVars == <<jobsVars, accountVars>>

Keys == Jobs \X (1..MaxAttempts)

AttemptStates == {"none", "reserved", "dispatched", "settled", "uncertain", "released"}
Attempt == [state : AttemptStates, allowance : Allowances \cup {NoAllowance},
            reserved : Nat, charged : Nat \cup {NoCharge}]

\* The provider may have been called under this attempt.
Spent   == {"dispatched", "settled", "uncertain"}
\* ... and what it cost is not known.
Unknown == {"dispatched", "uncertain"}

AccountingTypeOK == /\ JobsTypeOK
                    /\ allowed \subseteq Allowances
                    /\ attempt \in [Keys -> Attempt]

NoAttempt == [state |-> "none", allowance |-> NoAllowance, reserved |-> 0,
              charged |-> NoCharge]

AccountingInit == /\ JobsInit
                  /\ allowed = {}
                  /\ attempt = [k \in Keys |-> NoAttempt]

-----------------------------------------------------------------------------
(* Totals of an allowance, from the attempts that were not released *)

Charged(a) == {k \in Keys : attempt[k].allowance = a
                              /\ attempt[k].state \notin {"none", "released"}}

Requests(a)   == Cardinality(Charged(a))
Concurrent(a) == Cardinality({k \in Charged(a) : attempt[k].state # "settled"})

Cost(k) == IF attempt[k].state = "settled" THEN attempt[k].charged ELSE attempt[k].reserved
Used(a) == MapThenSumSet(Cost, Charged(a))

-----------------------------------------------------------------------------
(* Transactions *)

CreateAllowance(a) ==
  /\ a \notin allowed
  /\ allowed' = allowed \cup {a}
  /\ UNCHANGED <<jobsVars, attempt>>

\* A job with an unknown outcome may reserve again: not what the code does.
MayReserveAgain(j, e, a, amount) ==
  /\ a \in allowed
  /\ Live(j, e)
  /\ ~job[j].dispatched
  /\ ~InputProblem(j)
  /\ attempt[<<j, e>>].state = "none"
  /\ Used(a) + amount <= Limit[a]
  /\ Requests(a) < MaxRequests[a]
  /\ Concurrent(a) < MaxConcurrent[a]

\* Each limit is passed by one: not what the code does.
MayReserveOneMore(j, e, a, amount) ==
  /\ a \in allowed
  /\ Live(j, e)
  /\ ~job[j].dispatched
  /\ ~InputProblem(j)
  /\ attempt[<<j, e>>].state = "none"
  /\ \A f \in 1..MaxAttempts : attempt[<<j, f>>].state \notin Unknown
  /\ Used(a) + amount <= Limit[a]
  /\ Requests(a) <= MaxRequests[a]
  /\ Concurrent(a) <= MaxConcurrent[a]

MayReserve(j, e, a, amount) ==
  /\ a \in allowed
  /\ Live(j, e)
  /\ ~job[j].dispatched
  /\ ~InputProblem(j)
  /\ attempt[<<j, e>>].state = "none"
  /\ \A f \in 1..MaxAttempts : attempt[<<j, f>>].state \notin Unknown
  /\ Used(a) + amount <= Limit[a]
  /\ Requests(a) < MaxRequests[a]
  /\ Concurrent(a) < MaxConcurrent[a]

ReserveAttempt(j, e, a, amount) ==
  /\ MayReserve(j, e, a, amount)
  /\ attempt' = [attempt EXCEPT ![<<j, e>>] =
       [state |-> "reserved", allowance |-> a, reserved |-> amount, charged |-> NoCharge]]
  /\ UNCHANGED <<jobsVars, allowed>>

\* Whether the input is still current is not looked at: not what the code does.
MayDispatchStale(j, e) ==
  /\ attempt[<<j, e>>].state = "reserved"
  /\ Live(j, e)
  /\ ~job[j].dispatched

MayDispatch(j, e) ==
  /\ attempt[<<j, e>>].state = "reserved"
  /\ Live(j, e)
  /\ ~job[j].dispatched
  /\ ~InputProblem(j)

\* The attempt row is forgotten: not what the code does.
DispatchJobOnly(j, e) ==
  /\ MayDispatch(j, e)
  /\ Dispatch(j)
  /\ UNCHANGED <<storeVars, allowed, attempt>>

\* dispatchAttempt marks the attempt and the job in one transaction.
DispatchAttempt(j, e) ==
  /\ MayDispatch(j, e)
  /\ Dispatch(j)
  /\ attempt' = [attempt EXCEPT ![<<j, e>>].state = "dispatched"]
  /\ UNCHANGED <<storeVars, allowed>>

\* A cost above the reservation is booked: not what the code does.
SettleAtCost(j, e, charge) ==
  LET k     == <<j, e>>
      known == charge # NoCharge
  IN /\ attempt[k].state = "dispatched"
     /\ attempt' = [attempt EXCEPT ![k].state   = IF known THEN "settled" ELSE "uncertain",
                                   ![k].charged = charge]
     /\ UNCHANGED <<jobsVars, allowed>>

\* settleAttempt: an unknown cost, or one above the reservation, stays on hold.
SettleAttempt(j, e, charge) ==
  LET k     == <<j, e>>
      known == charge # NoCharge /\ charge <= attempt[k].reserved
  IN /\ attempt[k].state = "dispatched"
     /\ attempt' = [attempt EXCEPT ![k].state   = IF known THEN "settled" ELSE "uncertain",
                                   ![k].charged = IF known THEN charge ELSE NoCharge]
     /\ UNCHANGED <<jobsVars, allowed>>

\* A dispatched hold can be released too: not what the code does.
ReleaseSpentToo(j, e) ==
  /\ attempt[<<j, e>>].state \in {"reserved", "dispatched"}
  /\ attempt' = [attempt EXCEPT ![<<j, e>>].state = "released", ![<<j, e>>].charged = 0]
  /\ UNCHANGED <<jobsVars, allowed>>

ReleaseAttempt(j, e) ==
  /\ attempt[<<j, e>>].state = "reserved"
  /\ attempt' = [attempt EXCEPT ![<<j, e>>].state = "released", ![<<j, e>>].charged = 0]
  /\ UNCHANGED <<jobsVars, allowed>>

AccountNext ==
  \/ \E a \in Allowances : CreateAllowance(a)
  \/ \E j \in Jobs, e \in 1..MaxAttempts :
       \/ \E a \in Allowances, amount \in Amounts : ReserveAttempt(j, e, a, amount)
       \/ DispatchAttempt(j, e)
       \/ \E charge \in Charges \cup {NoCharge} : SettleAttempt(j, e, charge)
       \/ ReleaseAttempt(j, e)

\* A host with cost accounting dispatches with dispatchAttempt only.
AccountingNext == \/ (StoreNext \/ QueueNext) /\ UNCHANGED accountVars
                  \/ AccountNext

AccountingSpec == AccountingInit /\ [][AccountingNext]_accountingVars

-----------------------------------------------------------------------------
(* Properties *)

\* An attempt is spent exactly when its job was dispatched under its lease
\* version: no provider call without a hold, no hold spent without a dispatch
\* ("Atomically marks BOTH the attempt and existing job dispatched").
SpentMeansDispatched ==
  \A j \in Jobs, e \in 1..MaxAttempts : attempt[<<j, e>>].state \in Spent <=> e \in sent[j]

\* "Unknown usage remains fully reserved and blocks retry": once the cost of a
\* call is unknown, no later lease of that job reserves anything, not even from
\* another allowance.
UnknownBlocksRetry ==
  \A j \in Jobs, e \in 1..MaxAttempts, f \in 1..MaxAttempts :
    (attempt[<<j, e>>].state \in Unknown /\ f > e) => attempt[<<j, f>>].state = "none"

\* An allowance never admits more requests, or more calls at a time, than it
\* says, whatever the jobs that share it race on and however many attempts are
\* left behind by workers that died.
WithinCounts ==
  \A a \in Allowances : /\ Requests(a) <= MaxRequests[a]
                        /\ Concurrent(a) <= MaxConcurrent[a]

\* An allowance is never overdrawn: holds count in full until they are settled
\* at or below their size or released ("An invalid/over-reservation cost never
\* frees money or hides an overrun").
WithinLimit == \A a \in Allowances : Used(a) <= Limit[a]

\* "No release after dispatch": a spent hold is never freed, its size and its
\* allowance never change, and a settlement is never rewritten by a late or
\* repeated one.
SpentIsFinal ==
  [][\A k \in Keys :
       attempt[k].state \in Spent =>
         /\ attempt'[k].state \in Spent
         /\ attempt'[k].allowance = attempt[k].allowance
         /\ attempt'[k].reserved = attempt[k].reserved
         /\ attempt[k].state # "dispatched" => attempt'[k] = attempt[k]]_attempt

\* Accounting only restricts when a job is dispatched: to the queue it is a
\* client like any other, and what holds of every job holds with accounting.
ImplementsJobs == JobsSpec
=============================================================================

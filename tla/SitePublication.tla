-------------------------- MODULE SitePublication ---------------------------
(***************************************************************************)
(* From an editorial document to the live site of one owner: saves of the  *)
(* configuration (site-configuration-store.ts), approvals of a document    *)
(* (editorial-approval-store.ts), captures (site-publication-prepare.ts),  *)
(* reviews (site-publication-review-store.ts) and activation of the live   *)
(* pointer (site-publication-store.ts, site-publication-controls.ts), by   *)
(* concurrent calls that interleave between any two statements.            *)
(*                                                                         *)
(* Abstractions: a capture holds one article, so that it is the approval   *)
(* record it was made from; its hash is the capture itself; templates and  *)
(* catalogue rows are left out. Lost replies and retries: a call may stop  *)
(* after any statement and its client may send it again.                   *)
(***************************************************************************)
EXTENDS Naturals

CONSTANTS
  Calls,            \* concurrent calls of any kind
  Configurations, Texts,
  None,             \* no pointer, nothing remembered
  MaxRevision,      \* bound: revisions of the configuration and of the document
  MaxGeneration     \* bound: generations of the pointer

VARIABLES
  config,           \* site_configuration:v1: revision and configuration
  document,         \* the editorial document: revision and text
  approvals,        \* rows editorial_approval:v1:<id>:<revision>:<configuration revision>
  captures,         \* rows site_publication:v1:<hash>
  reviews,          \* hashes with a row site_publication:review:v1:<hash>
  pointer,          \* site_publication:active:v1
  call,             \* what each call is about to do, and what it read
  log               \* history: <<expected, next>> of every activation

vars == <<config, document, approvals, captures, reviews, pointer, call, log>>

Config   == [revision : Nat, value : Configurations]
Approval == [revision : Nat, text : Texts, config : Config]
Pointer  == [generation : Nat, hash : Approval]
Idle     == [pc |-> "idle", seen |-> None]

ASSUME PublicationAssumption == None \notin Pointer

CallState ==
  [pc : {"idle"}, seen : {None}]
    \cup [pc : {"save"}, seen : Config, value : Configurations]
    \cup [pc : {"approve", "confirm", "store"}, seen : Approval]
    \cup [pc : {"expect"}, seen : Pointer \cup {None}]
    \cup [pc : {"prior", "swap"}, seen : Pointer \cup {None}, hash : Approval]

TypeOK == /\ config \in Config
          /\ document \in [revision : Nat, text : Texts]
          /\ approvals \subseteq Approval /\ captures \subseteq Approval /\ reviews \subseteq Approval
          /\ pointer \in Pointer \cup {None}
          /\ call \in [Calls -> CallState]
          /\ log \subseteq (Pointer \cup {None}) \X Pointer

Init == /\ config \in [revision : {0}, value : Configurations]
        /\ document \in [revision : {0}, text : Texts]
        /\ approvals = {} /\ captures = {} /\ reviews = {}
        /\ pointer = None
        /\ call = [c \in Calls |-> Idle]
        /\ log = {}

Remember(c, record) == call' = [call EXCEPT ![c] = record]
At(c, pc)  == call[c].pc = pc
Goto(c, pc) == call' = [call EXCEPT ![c].pc = pc]

-----------------------------------------------------------------------------
(* Configuration and document *)

\* save(): read, compare with the expected revision, then swap on the raw value.
BeginSave(c, value) ==
  /\ At(c, "idle") /\ config.revision < MaxRevision
  /\ Remember(c, [pc |-> "save", seen |-> config, value |-> value])
  /\ UNCHANGED <<config, document, approvals, captures, reviews, pointer, log>>

Save(c) ==
  /\ At(c, "save")
  /\ config' = IF config = call[c].seen
               THEN [revision |-> config.revision + 1, value |-> call[c].value] ELSE config
  /\ Remember(c, Idle)
  /\ UNCHANGED <<document, approvals, captures, reviews, pointer, log>>

\* The editor's store: a new revision for every change of the document.
EditDocument(text) ==
  /\ document.revision < MaxRevision
  /\ document' = [revision |-> document.revision + 1, text |-> text]
  /\ UNCHANGED <<config, approvals, captures, reviews, pointer, call, log>>

-----------------------------------------------------------------------------
(* approve() *)

\* The document and the configuration captured at line 53.
BeginApproval(c) ==
  /\ At(c, "idle")
  /\ Remember(c, [pc |-> "approve",
                  seen |-> [revision |-> document.revision, text |-> document.text, config |-> config]])
  /\ UNCHANGED <<config, document, approvals, captures, reviews, pointer, log>>

Approved(revision, configRevision) ==
  \E a \in approvals : a.revision = revision /\ a.config.revision = configRevision

\* INSERT without WHERE EXISTS: not what the code does.
ApproveUnpinned(c) ==
  /\ At(c, "approve")
  /\ approvals' = IF Approved(call[c].seen.revision, call[c].seen.config.revision)
                  THEN approvals ELSE approvals \cup {call[c].seen}
  /\ Remember(c, Idle)
  /\ UNCHANGED <<config, document, captures, reviews, pointer, log>>

\* INSERT ... WHERE EXISTS the captured configuration ... DO NOTHING.
Approve(c) ==
  LET a == call[c].seen IN
  /\ At(c, "approve")
  /\ approvals' = IF config = a.config /\ ~Approved(a.revision, a.config.revision)
                  THEN approvals \cup {a} ELSE approvals
  /\ Remember(c, Idle)
  /\ UNCHANGED <<config, document, captures, reviews, pointer, log>>

-----------------------------------------------------------------------------
(* prepare, review, activate *)

\* The draft the request expects, and the exact approval under it.
BeginCapture(c, a) ==
  /\ At(c, "idle") /\ a \in approvals /\ a.config = config
  /\ Remember(c, [pc |-> "confirm", seen |-> a])
  /\ UNCHANGED <<config, document, approvals, captures, reviews, pointer, log>>

\* The configuration is read again before the capture is stored.
ConfirmCapture(c) ==
  /\ At(c, "confirm")
  /\ IF config.revision = call[c].seen.config.revision THEN Goto(c, "store") ELSE Remember(c, Idle)
  /\ UNCHANGED <<config, document, approvals, captures, reviews, pointer, log>>

StoreCapture(c) ==
  /\ At(c, "store")
  /\ captures' = captures \cup {call[c].seen}
  /\ Remember(c, Idle)
  /\ UNCHANGED <<config, document, approvals, reviews, pointer, log>>

\* SitePublicationReviewStore.approve(): one review of a stored capture.
Review(hash) ==
  /\ hash \in captures \ reviews
  /\ reviews' = reviews \cup {hash}
  /\ UNCHANGED <<config, document, approvals, captures, pointer, call, log>>

\* GET publication/state/: the pointer a request will expect.
ReadState(c) ==
  /\ At(c, "idle")
  /\ Remember(c, [pc |-> "expect", seen |-> pointer])
  /\ UNCHANGED <<config, document, approvals, captures, reviews, pointer, log>>

\* The target needs no review: not what the code does.
SubmitUnreviewed(c, hash) ==
  /\ At(c, "expect") /\ pointer = call[c].seen /\ hash \in captures
  /\ Remember(c, [pc |-> "prior", seen |-> pointer, hash |-> hash])
  /\ UNCHANGED <<config, document, approvals, captures, reviews, pointer, log>>

\* POST publication/activate/: the expected pointer, a reviewed target, and
\* not the one that is live already.
Submit(c, hash) ==
  /\ At(c, "expect") /\ pointer = call[c].seen /\ hash \in reviews
  /\ pointer # None => pointer.hash # hash
  /\ Remember(c, [pc |-> "prior", seen |-> pointer, hash |-> hash])
  /\ UNCHANGED <<config, document, approvals, captures, reviews, pointer, log>>

ReadPrior(c) ==
  /\ At(c, "prior")
  /\ IF pointer = call[c].seen THEN Goto(c, "swap") ELSE Remember(c, Idle)
  /\ UNCHANGED <<config, document, approvals, captures, reviews, pointer, log>>

NextPointer(prior, hash) ==
  [generation |-> IF prior = None THEN 1 ELSE prior.generation + 1, hash |-> hash]

\* UPDATE by key alone: not what the code does.
ActivateBlindly(c) ==
  LET next == NextPointer(call[c].seen, call[c].hash) IN
  /\ At(c, "swap") /\ next.generation <= MaxGeneration
  /\ pointer' = next /\ log' = log \cup {<<call[c].seen, next>>}
  /\ Remember(c, [pc |-> "expect", seen |-> call[c].seen])
  /\ UNCHANGED <<config, document, approvals, captures, reviews>>

\* INSERT ... DO NOTHING, or UPDATE ... WHERE value = prior. The reply may be
\* lost and the client submit again with the same expectation.
Activate(c) ==
  LET next == NextPointer(call[c].seen, call[c].hash) IN
  /\ At(c, "swap") /\ next.generation <= MaxGeneration
  /\ IF pointer = call[c].seen
     THEN pointer' = next /\ log' = log \cup {<<pointer, next>>}
     ELSE UNCHANGED <<pointer, log>>
  /\ Remember(c, [pc |-> "expect", seen |-> call[c].seen])
  /\ UNCHANGED <<config, document, approvals, captures, reviews>>

\* A refusal, a crash or a lost reply: the call is over.
Stop(c) ==
  /\ ~At(c, "idle")
  /\ Remember(c, Idle)
  /\ UNCHANGED <<config, document, approvals, captures, reviews, pointer, log>>

Next == \/ \E text \in Texts : EditDocument(text)
        \/ \E hash \in captures : Review(hash)
        \/ \E c \in Calls :
             \/ Save(c) \/ BeginApproval(c) \/ Approve(c) \/ ConfirmCapture(c) \/ StoreCapture(c)
             \/ ReadState(c) \/ ReadPrior(c) \/ Activate(c) \/ Stop(c)
             \/ \E value \in Configurations : BeginSave(c, value)
             \/ \E a \in approvals : BeginCapture(c, a)
             \/ \E hash \in captures : Submit(c, hash)

Spec == Init /\ [][Next]_vars

-----------------------------------------------------------------------------
(* Properties *)

\* Activations and rollbacks form one chain: each replaced exactly the
\* pointer its client had seen, no generation has two owners, and no request,
\* sent again after a lost reply, takes effect twice.
OneOwnerPerGeneration ==
  /\ \A a, b \in log : a # b => a[1] # b[1] /\ a[2].generation # b[2].generation
  /\ \A a \in log : a[2] # pointer => \E b \in log : b[1] = a[2]
  /\ pointer # None => \E a \in log : a[2] = pointer

\* Whatever was live at any time is a stored and reviewed capture whose
\* article is approved with exactly that text and configuration, and no other
\* configuration ever had the revision it was approved under.
OnlyApprovedGoesLive ==
  \A a \in log :
    /\ a[2].hash \in captures \cap reviews \cap approvals
    /\ a[2].hash.config.revision <= config.revision
    /\ a[2].hash.config.revision = config.revision => a[2].hash.config = config
    /\ \A b \in approvals : b.config.revision = a[2].hash.config.revision => b.config = a[2].hash.config

\* An approval is only recorded while the configuration it names is in force,
\* although both were read earlier.
ApprovedInForce == [][\A a \in approvals' \ approvals : a.config = config]_vars
=============================================================================

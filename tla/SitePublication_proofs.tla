----------------------- MODULE SitePublication_proofs -----------------------
(***************************************************************************)
(* Proofs about SitePublication, for any number of calls, configurations,  *)
(* texts, revisions and generations.                                       *)
(*                                                                         *)
(* Every write is guarded by what an earlier statement read. The inductive *)
(* invariant says what such a read is still good for when it is used: an   *)
(* approval, a capture and a review never go away, and neither a revision  *)
(* nor a generation comes back.                                            *)
(***************************************************************************)
EXTENDS SitePublication, TLAPS

Generation(p) == IF p = None THEN 0 ELSE p.generation

\* What a call remembers is on record.
CallsRemember ==
  \A c \in Calls : /\ call[c].pc \in {"confirm", "store"} => call[c].seen \in approvals
                   /\ call[c].pc \in {"prior", "swap"} => call[c].hash \in reviews

\* Reviewed captures of approvals; the approvals of one revision agree.
OnRecord ==
  /\ reviews \subseteq captures /\ captures \subseteq approvals
  /\ \A a \in log : a[2].hash \in reviews
  /\ \A a \in approvals : /\ a.config.revision <= config.revision
                          /\ a.config.revision = config.revision => a.config = config
  /\ \A a, b \in approvals : a.config.revision = b.config.revision => a.config = b.config

\* Every activation replaced an older generation by the next one.
Chain ==
  /\ \A a \in log : /\ a[2].generation = Generation(a[1]) + 1
                    /\ a[2].generation <= Generation(pointer)
  /\ OneOwnerPerGeneration

IInv == TypeOK /\ CallsRemember /\ OnRecord /\ Chain

-----------------------------------------------------------------------------
(* Types *)

LEMMA CallTyped ==
  ASSUME TypeOK, NEW c \in Calls
  PROVE  /\ call[c] \in CallState
         /\ call[c].pc = "save" => call[c].value \in Configurations
         /\ call[c].pc \in {"approve", "confirm", "store"} => call[c].seen \in Approval
         /\ call[c].pc \in {"expect", "prior", "swap"} => call[c].seen \in Pointer \cup {None}
         /\ call[c].pc \in {"prior", "swap"} => call[c].hash \in Approval
  BY DEF TypeOK, CallState

LEMMA RememberTyped ==
  ASSUME TypeOK, NEW c \in Calls, NEW r \in CallState, Remember(c, r)
  PROVE  call' \in [Calls -> CallState]
  BY DEF TypeOK, Remember

LEMMA GotoTyped ==
  ASSUME TypeOK, NEW c \in Calls, NEW from, NEW to, At(c, from), Goto(c, to),
         \/ from = "confirm" /\ to = "store"
         \/ from = "prior" /\ to = "swap"
  PROVE  call' \in [Calls -> CallState]
  <1>1. [call[c] EXCEPT !.pc = to] \in CallState
    <2>1. CASE from = "confirm" /\ to = "store"
      <3>1. call[c] \in [pc : {"approve", "confirm", "store"}, seen : Approval]
        BY <2>1 DEF TypeOK, CallState, At
      <3>. QED  BY <2>1, <3>1 DEF CallState
    <2>2. CASE from = "prior" /\ to = "swap"
      <3>1. call[c] \in [pc : {"prior", "swap"}, seen : Pointer \cup {None}, hash : Approval]
        BY <2>2 DEF TypeOK, CallState, At
      <3>. QED  BY <2>2, <3>1 DEF CallState
    <2>. QED  BY <2>1, <2>2
  <1>. QED  BY <1>1 DEF TypeOK, Goto

LEMMA IdleTyped == Idle \in CallState
  BY DEF Idle, CallState

LEMMA NextPointerTyped ==
  ASSUME NEW p \in Pointer \cup {None}, NEW h \in Approval
  PROVE  /\ NextPointer(p, h) \in Pointer
         /\ NextPointer(p, h).hash = h
         /\ NextPointer(p, h).generation = Generation(p) + 1
         /\ Generation(p) \in Nat
  BY PublicationAssumption DEF NextPointer, Pointer, Generation

LEMMA TypeStep == TypeOK /\ [Next]_vars => TypeOK'
  <1>. SUFFICES ASSUME TypeOK, [Next]_vars PROVE TypeOK'
    OBVIOUS
  <1>. USE DEF TypeOK
  <1>1. CASE \E text \in Texts : EditDocument(text)
    BY <1>1 DEF EditDocument
  <1>2. CASE \E hash \in captures : Review(hash)
    BY <1>2 DEF Review
  <1>3. ASSUME NEW c \in Calls PROVE
      /\ \A v \in Configurations : BeginSave(c, v) => TypeOK'
      /\ Save(c) => TypeOK'
    <2>1. ASSUME NEW v \in Configurations, BeginSave(c, v) PROVE TypeOK'
      <3>1. [pc |-> "save", seen |-> config, value |-> v] \in CallState
        BY DEF CallState
      <3>. QED  BY <2>1, <3>1, RememberTyped DEF BeginSave
    <2>2. ASSUME Save(c) PROVE TypeOK'
      <3>1. call[c].value \in Configurations
        BY <2>2, CallTyped DEF Save, At
      <3>2. config' \in Config
        BY <2>2, <3>1 DEF Save, Config
      <3>. QED  BY <2>2, <3>2, IdleTyped, RememberTyped DEF Save
    <2>. QED  BY <2>1, <2>2
  <1>4. ASSUME NEW c \in Calls PROVE
      /\ BeginApproval(c) => TypeOK'
      /\ Approve(c) => TypeOK'
    <2>1. ASSUME BeginApproval(c) PROVE TypeOK'
      <3>1. [pc |-> "approve", seen |-> [revision |-> document.revision,
               text |-> document.text, config |-> config]] \in CallState
        BY DEF CallState, Approval
      <3>. QED  BY <2>1, <3>1, RememberTyped DEF BeginApproval
    <2>2. ASSUME Approve(c) PROVE TypeOK'
      <3>1. call[c].seen \in Approval
        BY <2>2, CallTyped DEF Approve, At
      <3>. QED  BY <2>2, <3>1, IdleTyped, RememberTyped DEF Approve
    <2>. QED  BY <2>1, <2>2
  <1>5. ASSUME NEW c \in Calls PROVE
      /\ \A a \in approvals : BeginCapture(c, a) => TypeOK'
      /\ ConfirmCapture(c) => TypeOK'
      /\ StoreCapture(c) => TypeOK'
    <2>1. ASSUME NEW a \in approvals, BeginCapture(c, a) PROVE TypeOK'
      <3>1. [pc |-> "confirm", seen |-> a] \in CallState
        BY DEF CallState
      <3>. QED  BY <2>1, <3>1, RememberTyped DEF BeginCapture
    <2>2. ASSUME ConfirmCapture(c) PROVE TypeOK'
      <3>1. call' \in [Calls -> CallState]
        BY <2>2, GotoTyped, IdleTyped, RememberTyped DEF ConfirmCapture
      <3>. QED  BY <2>2, <3>1 DEF ConfirmCapture
    <2>3. ASSUME StoreCapture(c) PROVE TypeOK'
      <3>1. call[c].seen \in Approval
        BY <2>3, CallTyped DEF StoreCapture, At
      <3>. QED  BY <2>3, <3>1, IdleTyped, RememberTyped DEF StoreCapture
    <2>. QED  BY <2>1, <2>2, <2>3
  <1>6. ASSUME NEW c \in Calls PROVE
      /\ ReadState(c) => TypeOK'
      /\ \A h \in captures : Submit(c, h) => TypeOK'
      /\ ReadPrior(c) => TypeOK'
      /\ Activate(c) => TypeOK'
      /\ Stop(c) => TypeOK'
    <2>1. ASSUME ReadState(c) PROVE TypeOK'
      <3>1. [pc |-> "expect", seen |-> pointer] \in CallState
        BY DEF CallState
      <3>. QED  BY <2>1, <3>1, RememberTyped DEF ReadState
    <2>2. ASSUME NEW h \in captures, Submit(c, h) PROVE TypeOK'
      <3>1. [pc |-> "prior", seen |-> pointer, hash |-> h] \in CallState
        BY DEF CallState
      <3>. QED  BY <2>2, <3>1, RememberTyped DEF Submit
    <2>3. ASSUME ReadPrior(c) PROVE TypeOK'
      <3>1. call' \in [Calls -> CallState]
        BY <2>3, GotoTyped, IdleTyped, RememberTyped DEF ReadPrior
      <3>. QED  BY <2>3, <3>1 DEF ReadPrior
    <2>4. ASSUME Activate(c) PROVE TypeOK'
      <3>1. call[c].seen \in Pointer \cup {None} /\ call[c].hash \in Approval
        BY <2>4, CallTyped DEF Activate, At
      <3>2. NextPointer(call[c].seen, call[c].hash) \in Pointer
        BY <3>1, NextPointerTyped
      <3>3. [pc |-> "expect", seen |-> call[c].seen] \in CallState
        BY <3>1 DEF CallState
      <3>4. call' \in [Calls -> CallState]
        BY <2>4, <3>3, RememberTyped DEF Activate
      <3>. QED  BY <2>4, <3>2, <3>4 DEF Activate
    <2>5. ASSUME Stop(c) PROVE TypeOK'
      BY <2>5, IdleTyped, RememberTyped DEF Stop
    <2>. QED  BY <2>1, <2>2, <2>3, <2>4, <2>5
  <1>7. CASE UNCHANGED vars
    BY <1>7 DEF vars
  <1>. QED  BY <1>1, <1>2, <1>3, <1>4, <1>5, <1>6, <1>7 DEF Next

-----------------------------------------------------------------------------
(* What calls remember, and what is on record *)

LEMMA RememberStep == TypeOK /\ CallsRemember /\ [Next]_vars => CallsRemember'
  <1>. SUFFICES ASSUME TypeOK, CallsRemember, [Next]_vars PROVE CallsRemember'
    OBVIOUS
  <1>. USE DEF CallsRemember
  <1>1. approvals \subseteq approvals' /\ reviews \subseteq reviews'
    BY DEF Next, vars, EditDocument, Review, Save, BeginApproval, Approve, ConfirmCapture,
           StoreCapture, ReadState, ReadPrior, Activate, Stop, BeginSave, BeginCapture, Submit
  <1>2. CASE UNCHANGED call
    BY <1>1, <1>2
  <1>3. ASSUME NEW c \in Calls, NEW r, Remember(c, r),
               r.pc \in {"confirm", "store"} => r.seen \in approvals,
               r.pc \in {"prior", "swap"} => r.hash \in reviews
        PROVE  CallsRemember'
    BY <1>1, <1>3 DEF Remember, TypeOK
  <1>4. ASSUME NEW c \in Calls,
               \/ At(c, "confirm") /\ Goto(c, "store")
               \/ At(c, "prior") /\ Goto(c, "swap")
        PROVE  CallsRemember'
    <2>1. call[c] \in CallState
      BY DEF TypeOK
    <2>2. CASE At(c, "confirm") /\ Goto(c, "store")
      <3>1. call[c].seen \in approvals
        BY <2>2 DEF At
      <3>2. call[c] \in [pc : {"approve", "confirm", "store"}, seen : Approval]
        BY <2>1, <2>2 DEF At, CallState
      <3>3. call'[c].pc = "store" /\ call'[c].seen = call[c].seen
        BY <2>2, <3>2 DEF Goto, TypeOK
      <3>. QED  BY <1>1, <2>2, <3>1, <3>3 DEF Goto, TypeOK
    <2>3. CASE At(c, "prior") /\ Goto(c, "swap")
      <3>1. call[c].hash \in reviews
        BY <2>3 DEF At
      <3>2. call[c] \in [pc : {"prior", "swap"}, seen : Pointer \cup {None}, hash : Approval]
        BY <2>1, <2>3 DEF At, CallState
      <3>3. call'[c].pc = "swap" /\ call'[c].hash = call[c].hash
        BY <2>3, <3>2 DEF Goto, TypeOK
      <3>. QED  BY <1>1, <2>3, <3>1, <3>3 DEF Goto, TypeOK
    <2>. QED  BY <1>4, <2>2, <2>3
  <1>5. ASSUME NEW c \in Calls,
               \/ Save(c) \/ BeginApproval(c) \/ Approve(c) \/ ConfirmCapture(c)
               \/ StoreCapture(c) \/ ReadState(c) \/ ReadPrior(c) \/ Activate(c) \/ Stop(c)
               \/ \E value \in Configurations : BeginSave(c, value)
               \/ \E a \in approvals : BeginCapture(c, a)
               \/ \E hash \in captures : Submit(c, hash)
        PROVE  CallsRemember'
    BY <1>3, <1>4, <1>5 DEF Save, BeginApproval, Approve, ConfirmCapture, StoreCapture,
         ReadState, ReadPrior, Activate, Stop, BeginSave, BeginCapture, Submit, Idle
  <1>. QED  BY <1>2, <1>5 DEF Next, vars, EditDocument, Review

\* A step leaves the configuration as it is, or makes the next revision; it adds
\* no approval, or one of the configuration in force.
LEMMA ConfigStep ==
  ASSUME TypeOK, [Next]_vars
  PROVE  /\ \/ config' = config
            \/ config'.revision = config.revision + 1 /\ approvals' = approvals
         /\ \/ approvals' = approvals
            \/ \E a : approvals' = approvals \cup {a} /\ a.config = config
  <1>1. CASE \E c \in Calls : Save(c)
    BY <1>1 DEF Save, TypeOK
  <1>2. CASE \E c \in Calls : Approve(c)
    BY <1>2 DEF Approve
  <1>3. CASE UNCHANGED <<config, approvals>>
    BY <1>3
  <1>. QED
    BY <1>1, <1>2, <1>3 DEF Next, vars, EditDocument, Review, BeginApproval, ConfirmCapture,
       StoreCapture, ReadState, ReadPrior, Activate, Stop, BeginSave, BeginCapture, Submit

LEMMA RecordStep == TypeOK /\ CallsRemember /\ OnRecord /\ [Next]_vars => OnRecord'
  <1>. SUFFICES ASSUME TypeOK, CallsRemember, OnRecord, [Next]_vars PROVE OnRecord'
    OBVIOUS
  <1>1. /\ reviews \subseteq reviews'
        /\ reviews' \subseteq captures' /\ captures' \subseteq approvals'
    <2>1. ASSUME NEW c \in Calls, StoreCapture(c) PROVE captures' \subseteq approvals'
      BY <2>1 DEF StoreCapture, At, CallsRemember, OnRecord
    <2>. QED
      BY <2>1 DEF OnRecord, Next, vars, EditDocument, Review, Save, BeginApproval, Approve,
         ConfirmCapture, StoreCapture, ReadState, ReadPrior, Activate, Stop, BeginSave,
         BeginCapture, Submit
  <1>2. \A a \in log' : a[2].hash \in reviews'
    <2>1. ASSUME NEW c \in Calls, Activate(c) PROVE \A a \in log' : a[2].hash \in reviews'
      <3>1. call[c].hash \in reviews
        BY <2>1 DEF Activate, At, CallsRemember
      <3>2. NextPointer(call[c].seen, call[c].hash).hash = call[c].hash
        BY DEF NextPointer
      <3>. QED  BY <2>1, <3>1, <3>2 DEF Activate, OnRecord
    <2>. QED
      BY <1>1, <2>1 DEF OnRecord, Next, vars, EditDocument, Review, Save, BeginApproval, Approve,
         ConfirmCapture, StoreCapture, ReadState, ReadPrior, Stop, BeginSave, BeginCapture, Submit
  <1>3. \A a \in approvals : a.config.revision \in Nat
    BY DEF TypeOK, Approval, Config
  <1>4. config.revision \in Nat
    BY DEF TypeOK, Config
  <1>. DEFINE Agreed ==
         /\ \A a \in approvals' : /\ a.config.revision <= config'.revision
                                  /\ a.config.revision = config'.revision => a.config = config'
         /\ \A a, b \in approvals' : a.config.revision = b.config.revision => a.config = b.config
  <1>5. Agreed
    <2>1. CASE config'.revision = config.revision + 1 /\ approvals' = approvals
      BY <1>3, <1>4, <2>1 DEF OnRecord
    <2>2. CASE config' = config /\ approvals' = approvals
      BY <2>2 DEF OnRecord
    <2>3. ASSUME config' = config, NEW a, approvals' = approvals \cup {a}, a.config = config
          PROVE  Agreed
      BY <1>4, <2>3 DEF OnRecord
    <2>. QED  BY <2>1, <2>2, <2>3, ConfigStep
  <1>. QED  BY <1>1, <1>2, <1>5 DEF OnRecord

-----------------------------------------------------------------------------
(* The chain of activations *)

LEMMA ChainStep == TypeOK /\ Chain /\ [Next]_vars => Chain'
  <1>. SUFFICES ASSUME TypeOK, Chain, [Next]_vars PROVE Chain'
    OBVIOUS
  <1>1. CASE UNCHANGED <<pointer, log>>
    BY <1>1 DEF Chain, OneOwnerPerGeneration
  <1>2. ASSUME NEW next, pointer' = next, log' = log \cup {<<pointer, next>>},
               next \in Pointer, next.generation = Generation(pointer) + 1
        PROVE  Chain'
    <2>1. /\ Generation(pointer) \in Nat /\ Generation(next) = next.generation
          /\ \A a \in log : Generation(a[1]) \in Nat /\ a[2].generation \in Nat
      BY <1>2, PublicationAssumption DEF TypeOK, Pointer, Generation
    <2>2. \A a \in log' : /\ a[2].generation = Generation(a[1]) + 1
                          /\ a[2].generation <= next.generation
      BY <1>2, <2>1 DEF Chain
    <2>3. \A a \in log : a[1] # pointer /\ a[2].generation # next.generation
      BY <1>2, <2>1 DEF Chain
    <2>4. \A a, b \in log' : a # b => a[1] # b[1] /\ a[2].generation # b[2].generation
      BY <1>2, <2>3 DEF Chain, OneOwnerPerGeneration
    <2>5. \A a \in log' : a[2] # next => \E b \in log' : b[1] = a[2]
      <3>. SUFFICES ASSUME NEW a \in log', a[2] # next PROVE \E b \in log' : b[1] = a[2]
        OBVIOUS
      <3>1. a \in log
        BY <1>2
      <3>2. CASE a[2] = pointer
        <4>1. <<pointer, next>> \in log' /\ <<pointer, next>>[1] = a[2]
          BY <1>2, <3>2
        <4>. QED  BY <4>1
      <3>3. CASE a[2] # pointer
        BY <1>2, <3>1, <3>3 DEF Chain, OneOwnerPerGeneration
      <3>. QED  BY <3>2, <3>3
    <2>6. \E a \in log' : a[2] = next
      <3>1. <<pointer, next>> \in log' /\ <<pointer, next>>[2] = next
        BY <1>2
      <3>. QED  BY <3>1
    <2>7. /\ \A a \in log' : a[2].generation = Generation(a[1]) + 1
          /\ OneOwnerPerGeneration'
      BY <1>2, <2>2, <2>4, <2>5, <2>6 DEF OneOwnerPerGeneration
    <2>. QED  BY <1>2, <2>1, <2>2, <2>7 DEF Chain, Generation
  <1>3. ASSUME NEW c \in Calls, Activate(c) PROVE Chain'
    <2>1. call[c].seen \in Pointer \cup {None} /\ call[c].hash \in Approval
      BY <1>3, CallTyped DEF Activate, At
    <2>. QED  BY <1>1, <1>2, <1>3, <2>1, NextPointerTyped DEF Activate
  <1>. QED
    BY <1>1, <1>3 DEF Next, vars, EditDocument, Review, Save, BeginApproval, Approve,
       ConfirmCapture, StoreCapture, ReadState, ReadPrior, Stop, BeginSave, BeginCapture, Submit

-----------------------------------------------------------------------------
(* Theorems *)

LEMMA InitInvariant == Init => IInv
  BY DEF Init, IInv, TypeOK, CallsRemember, OnRecord, Chain, OneOwnerPerGeneration,
         Config, CallState, Idle

LEMMA Invariance == Spec => []IInv
  <1>1. IInv /\ [Next]_vars => IInv'
    BY TypeStep, RememberStep, RecordStep, ChainStep DEF IInv
  <1>. QED  BY InitInvariant, <1>1, PTL DEF Spec

\* Every reachable state is well-typed.
THEOREM PublicationTyped == Spec => []TypeOK
  BY Invariance, PTL DEF IInv

\* However many administrators activate and roll back, and however often their
\* requests are repeated, the live pointers form one chain.
THEOREM OneOwner == Spec => []OneOwnerPerGeneration
  <1>1. IInv => OneOwnerPerGeneration
    BY DEF IInv, Chain
  <1>. QED  BY Invariance, <1>1, PTL

\* Nothing was ever live that is not stored, reviewed and approved with exactly
\* that text under a configuration whose revision stands for no other one.
THEOREM ApprovedLive == Spec => []OnlyApprovedGoesLive
  <1>1. IInv => OnlyApprovedGoesLive
    BY DEF IInv, OnRecord, OnlyApprovedGoesLive
  <1>. QED  BY Invariance, <1>1, PTL

\* An approval enters the record only under the configuration in force.
THEOREM ApprovalsPinned == Spec => ApprovedInForce
  <1>1. IInv /\ [Next]_vars => [\A a \in approvals' \ approvals : a.config = config]_vars
    BY ConfigStep DEF IInv
  <1>. QED  BY Invariance, <1>1, PTL DEF Spec, ApprovedInForce
=============================================================================

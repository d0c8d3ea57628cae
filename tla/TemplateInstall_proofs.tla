----------------------- MODULE TemplateInstall_proofs -----------------------
(***************************************************************************)
(* Proofs about TemplateInstall, for any number of calls, operations and   *)
(* edits.                                                                  *)
(*                                                                         *)
(* The claim is made by an insert that looks at nothing but the receipt,   *)
(* steps after the site was compared. What makes it safe is that the batch *)
(* compares again: of everything a call read before, only "this operation  *)
(* was reviewed, and its review does not change" has to survive.           *)
(***************************************************************************)
EXTENDS TemplateInstall, TLAPS

TypeOK ==
  /\ site \in Sites
  /\ slot \in Receipt \cup {None}
  /\ reviewed \in [Ops -> Sites \cup {None}]
  /\ call \in [Calls -> [pc : {"idle", "review", "snapshot", "claim", "batch"}, op : Ops \cup {None}]]

\* Calls and receipts are about operations whose clients reviewed a site.
Begun ==
  /\ \A c \in Calls : call[c].pc # "idle" => call[c].op \in Ops /\ reviewed[call[c].op] # None
  /\ slot # None => reviewed[slot.op] # None

IInv == TypeOK /\ Begun

-----------------------------------------------------------------------------
(* Types *)

LEMMA EditsTyped ==
  ASSUME NEW s \in Sites
  PROVE  Edited(s) \subseteq Sites /\ EditedWhileLocked(s) \subseteq Sites
  <1>1. /\ s.welcome \in Page \cup {None} /\ s.own \subseteq Kinds /\ s.template \in BOOLEAN
        /\ \A w \in Page \cup {None} : [s EXCEPT !.welcome = w] \in Sites
        /\ \A k \in SUBSET Kinds : [s EXCEPT !.own = k] \in Sites
    BY DEF Sites
  <1>2. Rewritten(s, {"welcome", "edited"}) \subseteq Sites /\ Rewritten(s, {"edited"}) \subseteq Sites
    <2>1. ASSUME s.welcome # None, s.welcome.stamp # MaxEdits, NEW t \in {"welcome", "edited"}
          PROVE  [s EXCEPT !.welcome = [text |-> t, stamp |-> s.welcome.stamp + 1]] \in Sites
      <3>1. s.welcome.stamp \in 0..MaxEdits /\ s.welcome.stamp + 1 \in 0..MaxEdits
        BY <1>1, <2>1, TemplateAssumption DEF Page
      <3>2. [text |-> t, stamp |-> s.welcome.stamp + 1] \in Page
        BY <3>1 DEF Page
      <3>. QED  BY <1>1, <3>2
    <2>. QED  BY <2>1 DEF Rewritten
  <1>3. Seeded(s) \subseteq Sites
    <2>1. \A n \in 0..MaxEdits : [text |-> "welcome", stamp |-> n] \in Page
      BY DEF Page
    <2>. QED  BY <1>1, <2>1 DEF Seeded
  <1>4. \A kind \in Kinds : [s EXCEPT !.own = s.own \cup {kind}] \in Sites
    BY <1>1
  <1>5. [s EXCEPT !.own = s.own \ {"page"}] \in Sites /\ [s EXCEPT !.welcome = None] \in Sites
    BY <1>1
  <1>6. [s EXCEPT !.own = s.own \cup {"menus"}] \in Sites
    BY <1>4 DEF Kinds
  <1>. QED  BY <1>2, <1>3, <1>4, <1>5, <1>6 DEF Edited, EditedWhileLocked

LEMMA InitInvariant == Init => IInv
  <1>. SUFFICES ASSUME Init PROVE IInv
    OBVIOUS
  <1>1. site \in Sites
    <2>1. [text |-> "welcome", stamp |-> 0] \in Page
      BY TemplateAssumption DEF Page
    <2>2. PICK w \in {None, [text |-> "welcome", stamp |-> 0]} :
            site = [welcome |-> w, own |-> {}, template |-> FALSE]
      BY DEF Init
    <2>3. w \in Page \cup {None}
      BY <2>1, <2>2
    <2>. QED  BY <2>2, <2>3 DEF Sites
  <1>2. TypeOK
    BY <1>1 DEF Init, TypeOK, Idle
  <1>3. Begun
    BY DEF Init, Begun, Idle
  <1>. QED  BY <1>2, <1>3 DEF IInv

LEMMA NextInvariant == IInv /\ [Next]_vars => IInv'
  <1>. SUFFICES ASSUME IInv, [Next]_vars PROVE IInv'
    OBVIOUS
  <1>t. TypeOK /\ Begun
    BY DEF IInv
  <1>1. CASE Edit
    <2>1. site' \in Sites
      BY <1>t, <1>1, EditsTyped DEF Edit, TypeOK
    <2>. QED  BY <1>t, <1>1, <2>1 DEF Edit, IInv, TypeOK, Begun
  <1>2. ASSUME NEW o \in Ops, Review(o) PROVE IInv'
    BY <1>t, <1>2, TemplateAssumption DEF Review, IInv, TypeOK, Begun
  <1>3. ASSUME NEW c \in Calls, NEW o \in Ops, Begin(c, o) PROVE IInv'
    BY <1>t, <1>3 DEF Begin, IInv, TypeOK, Begun
  <1>4. ASSUME NEW c \in Calls, Return(c), UNCHANGED <<site, slot, reviewed>> PROVE IInv'
    BY <1>t, <1>4 DEF Return, Idle, IInv, TypeOK, Begun
  <1>5. ASSUME NEW c \in Calls, call[c].pc # "idle", NEW pc \in {"snapshot", "claim"},
               Goto(c, pc), UNCHANGED <<site, slot, reviewed>>
        PROVE  IInv'
    BY <1>t, <1>5 DEF Goto, IInv, TypeOK, Begun
  <1>6. ASSUME NEW c \in Calls, ReviewAgain(c) \/ SnapshotAgain(c) PROVE IInv'
    BY <1>4, <1>5, <1>6 DEF ReviewAgain, SnapshotAgain
  <1>7. ASSUME NEW c \in Calls, Claim(c) PROVE IInv'
    <2>1. CASE slot = None
      <3>1. call[c].op \in Ops /\ reviewed[call[c].op] # None
        BY <1>t, <1>7 DEF Claim, Begun
      <3>2. slot' = [op |-> call[c].op, phase |-> "applying"] /\ slot' \in Receipt
        BY <1>7, <2>1, <3>1 DEF Claim, Receipt
      <3>. QED  BY <1>t, <1>7, <2>1, <3>1, <3>2 DEF Claim, Goto, IInv, TypeOK, Begun
    <2>2. CASE slot # None
      BY <1>4, <1>7, <2>2 DEF Claim
    <2>. QED  BY <2>1, <2>2
  <1>8. ASSUME NEW c \in Calls, Batch(c) PROVE IInv'
    <2>1. CASE UNCHANGED <<site, slot>>
      BY <1>4, <1>8, <2>1 DEF Batch
    <2>2. CASE site' = Template /\ slot' = [slot EXCEPT !.phase = "installed"]
               /\ slot = [op |-> call[c].op, phase |-> "applying"]
      <3>1. call[c].op \in Ops /\ reviewed[call[c].op] # None
        BY <1>t, <1>8 DEF Batch, Begun
      <3>2. slot' = [op |-> call[c].op, phase |-> "installed"] /\ slot' \in Receipt
        BY <2>2, <3>1 DEF Receipt
      <3>3. site' \in Sites
        BY <2>2 DEF Template, Sites
      <3>. QED  BY <1>t, <1>8, <3>1, <3>2, <3>3 DEF Batch, Return, Idle, IInv, TypeOK, Begun
    <2>. QED  BY <1>8, <2>1, <2>2 DEF Batch
  <1>9. CASE UNCHANGED vars
    BY <1>t, <1>9 DEF vars, IInv, TypeOK, Begun
  <1>. QED
    BY <1>1, <1>2, <1>3, <1>4, <1>6, <1>7, <1>8, <1>9 DEF Next, Stop

LEMMA Invariance == Spec => []IInv
  BY InitInvariant, NextInvariant, PTL DEF Spec

-----------------------------------------------------------------------------
(* What is proved of the installation *)

LEMMA InitImplements == Init => Promise!Init
  <1>. SUFFICES ASSUME Init PROVE Promise!Init
    OBVIOUS
  <1>1. Untouched(site)
    BY DEF Init, Untouched
  <1>2. Phase = "none" /\ Seen = {}
    BY DEF Init, Phase, Seen
  <1>3. site \in Sites
    BY InitInvariant DEF IInv, TypeOK
  <1>. QED  BY <1>1, <1>2, <1>3 DEF Promise!Init

\* Receipt and reviews alone make up what the abstract specification sees.
LEMMA SameView ==
  ASSUME UNCHANGED <<slot, reviewed>>
  PROVE  Phase' = Phase /\ Seen' = Seen
  BY DEF Phase, Seen

LEMMA StepImplements == IInv /\ [Next]_vars => [Promise!Next]_(Promise!vars)
  <1>. SUFFICES ASSUME IInv, [Next]_vars PROVE [Promise!Next]_(Promise!vars)
    OBVIOUS
  <1>t. TypeOK /\ Begun
    BY DEF IInv
  <1>1. ASSUME Edit PROVE Promise!Next
    <2>1. UNCHANGED <<slot, reviewed>>
      BY <1>1 DEF Edit
    <2>2. Phase' = Phase /\ Seen' = Seen
      BY <2>1, SameView
    <2>3. Applying <=> Phase = "applying"
      BY DEF Applying, Phase
    <2>4. Promise!Edit
      BY <1>1, <2>2, <2>3 DEF Edit, Promise!Edit
    <2>. QED  BY <2>4 DEF Promise!Next
  <1>2. ASSUME NEW o \in Ops, Review(o) PROVE Promise!Next
    <2>1. /\ slot = None /\ slot' = None /\ UNCHANGED site /\ Untouched(site)
          /\ reviewed[o] = None /\ reviewed' = [reviewed EXCEPT ![o] = site]
      BY <1>2 DEF Review
    <2>2. site # None
      BY <1>t, TemplateAssumption DEF TypeOK
    <2>3. /\ reviewed'[o] = site
          /\ \A q \in Ops : q # o => reviewed'[q] = reviewed[q]
      BY <1>t, <2>1 DEF TypeOK
    <2>4. {reviewed'[q] : q \in Ops} \ {None} = ({reviewed[q] : q \in Ops} \ {None}) \cup {site}
      BY <2>1, <2>2, <2>3
    <2>5. Seen' = Seen \cup {site} /\ Phase = "none" /\ Phase' = "none"
      BY <2>1, <2>4 DEF Seen, Phase
    <2>6. Promise!Review
      BY <2>1, <2>5 DEF Promise!Review
    <2>. QED  BY <2>6 DEF Promise!Next
  <1>3. ASSUME UNCHANGED <<site, slot, reviewed>> PROVE UNCHANGED Promise!vars
    BY <1>3, SameView DEF Promise!vars
  <1>4. ASSUME NEW c \in Calls, Claim(c) PROVE [Promise!Next]_(Promise!vars)
    <2>1. CASE slot # None
      BY <1>3, <1>4, <2>1 DEF Claim
    <2>2. CASE slot = None
      <3>1. PICK o \in Ops : o = call[c].op /\ reviewed[o] # None
        BY <1>t, <1>4 DEF Claim, Begun
      <3>2. slot' = [op |-> o, phase |-> "applying"] /\ UNCHANGED <<site, reviewed>>
        BY <1>4, <2>2, <3>1 DEF Claim
      <3>3. slot' # None
        BY <3>2, TemplateAssumption DEF Receipt
      <3>4. Phase = "none" /\ Phase' = "applying"
        BY <2>2, <3>2, <3>3 DEF Phase
      <3>5. reviewed[o] \in Seen /\ Seen' = {reviewed[o]}
        BY <2>2, <3>1, <3>2, <3>3 DEF Seen
      <3>6. Promise!Claim
        BY <3>2, <3>4, <3>5 DEF Promise!Claim
      <3>. QED  BY <3>6 DEF Promise!Next
    <2>. QED  BY <2>1, <2>2
  <1>5. ASSUME NEW c \in Calls, Batch(c) PROVE [Promise!Next]_(Promise!vars)
    <2>1. CASE UNCHANGED <<site, slot>>
      BY <1>3, <1>5, <2>1 DEF Batch
    <2>2. CASE ~UNCHANGED <<site, slot>>
      <3>1. PICK o \in Ops : o = call[c].op
        BY <1>t, <1>5 DEF Batch, Begun
      <3>2. /\ slot = [op |-> o, phase |-> "applying"] /\ site = reviewed[o]
            /\ site' = Template /\ slot' = [op |-> o, phase |-> "installed"]
            /\ UNCHANGED reviewed
        BY <1>5, <2>2, <3>1 DEF Batch
      <3>3. slot # None /\ slot' # None
        BY <3>2, TemplateAssumption DEF Receipt
      <3>4. /\ Phase = "applying" /\ Phase' = "installed"
            /\ Seen = {site} /\ Seen' = Seen
        BY <3>2, <3>3 DEF Phase, Seen
      <3>5. Promise!Install
        BY <3>2, <3>4 DEF Promise!Install
      <3>. QED  BY <3>5 DEF Promise!Next
    <2>. QED  BY <2>1, <2>2
  <1>. QED
    BY <1>1, <1>2, <1>3, <1>4, <1>5 DEF Next, Begin, ReviewAgain, SnapshotAgain, Stop, vars

\* Whatever calls race, stop half-way or are sent again, the site changes to
\* the template in one step, once, and only from exactly the reviewed site.
THEOREM RefinesAtomicInstall == Spec => ImplementsAtomicInstall
  BY InitImplements, StepImplements, Invariance, PTL DEF Spec, ImplementsAtomicInstall, Promise!Spec
=============================================================================

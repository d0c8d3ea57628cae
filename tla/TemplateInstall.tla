-------------------------- MODULE TemplateInstall ---------------------------
(***************************************************************************)
(* Installation of the booking template on one owner's new site            *)
(* (template-install-store.ts): review of an untouched site, claim of the  *)
(* owner's one receipt, and one guarded atomic batch, by concurrent calls  *)
(* that may stop anywhere and be sent again, while the owner edits pages,  *)
(* configuration and menus (pages-store.ts, site-configuration-store.ts,   *)
(* menus-store.ts).                                                        *)
(*                                                                         *)
(* Abstractions: a site is its welcome page, the kinds of things its owner *)
(* made, and whether the template is on it; the reads of one snapshot are  *)
(* one step, as the batch repeats them; one template configuration.        *)
(***************************************************************************)
EXTENDS Naturals

CONSTANTS
  Calls,      \* concurrent install calls
  Ops,        \* operation ids of clients
  None,       \* no page, no receipt, nothing reviewed
  MaxEdits    \* bound: edits of the welcome page

VARIABLES
  site,       \* compat_pages, site_configuration:v1, app_menus:v1, page versions
  slot,       \* template_install:booking-for-x:v1
  reviewed,   \* operation -> the site its client reviewed
  call        \* what each call is about to do

vars == <<site, slot, reviewed, call>>

Kinds == {"page", "version", "configuration", "menus"}
Page  == [text : {"welcome", "edited"}, stamp : 0..MaxEdits]
Sites == [welcome : Page \cup {None}, own : SUBSET Kinds, template : BOOLEAN]
Idle  == [pc |-> "idle", op |-> None]
Receipt == [op : Ops, phase : {"applying", "installed"}]

ASSUME TemplateAssumption == None \notin Sites \cup Page \cup Receipt /\ MaxEdits \in Nat

Init == /\ site \in {[welcome |-> w, own |-> {}, template |-> FALSE] :
                        w \in {None, [text |-> "welcome", stamp |-> 0]}}
        /\ slot = None
        /\ reviewed = [o \in Ops |-> None]
        /\ call = [c \in Calls |-> Idle]

-----------------------------------------------------------------------------
(* The owner *)

Applying == slot # None /\ slot.phase = "applying"

Rewritten(s, texts) ==
  IF s.welcome = None \/ s.welcome.stamp = MaxEdits THEN {}
  ELSE {[s EXCEPT !.welcome = [text |-> t, stamp |-> s.welcome.stamp + 1]] : t \in texts}

\* Menus and the sign-in form of a page do not look at the receipt.
EditedWhileLocked(s) == {[s EXCEPT !.own = @ \cup {"menus"}]} \cup Rewritten(s, {"edited"})

\* ensureHomepage() of a cold start; other home pages are not told apart here.
Seeded(s) == IF s.welcome # None THEN {}
             ELSE {[s EXCEPT !.welcome = [text |-> "welcome", stamp |-> n]] : n \in 0..MaxEdits}

\* Every writer of pages, versions and configuration does: an edit, also back
\* to the generated layout, a deletion, a new page, a snapshot, a saved form.
Edited(s) == {[s EXCEPT !.own = @ \cup {kind}] : kind \in Kinds}
               \cup Rewritten(s, {"welcome", "edited"}) \cup Seeded(s)
               \cup {[s EXCEPT !.welcome = None], [s EXCEPT !.own = @ \ {"page"}]}

Edit == /\ site' \in IF Applying THEN EditedWhileLocked(site) ELSE Edited(site)
        /\ site' # site
        /\ UNCHANGED <<slot, reviewed, call>>

-----------------------------------------------------------------------------
(* review() and install() *)

\* snapshot(): nothing but the generated welcome page, or no page at all.
Untouched(s) == /\ s.own = {} /\ ~s.template
                /\ s.welcome # None => s.welcome.text = "welcome"

Review(o) ==
  /\ reviewed[o] = None /\ slot = None /\ Untouched(site)
  /\ reviewed' = [reviewed EXCEPT ![o] = site]
  /\ UNCHANGED <<site, slot, call>>

Goto(c, pc) == call' = [call EXCEPT ![c].pc = pc]
Return(c)   == call' = [call EXCEPT ![c] = Idle]

\* status(): an operation that has a receipt is answered from it.
Begin(c, o) ==
  /\ call[c] = Idle /\ reviewed[o] # None /\ slot = None
  /\ call' = [call EXCEPT ![c] = [pc |-> "review", op |-> o]]
  /\ UNCHANGED <<site, slot, reviewed>>

\* The review is made again, with its own look at the receipt ...
ReviewAgain(c) ==
  /\ call[c].pc = "review"
  /\ IF slot = None /\ site = reviewed[call[c].op] THEN Goto(c, "snapshot") ELSE Return(c)
  /\ UNCHANGED <<site, slot, reviewed>>

\* ... and then its snapshot once more.
SnapshotAgain(c) ==
  /\ call[c].pc = "snapshot"
  /\ IF site = reviewed[call[c].op] THEN Goto(c, "claim") ELSE Return(c)
  /\ UNCHANGED <<site, slot, reviewed>>

\* INSERT ... DO NOTHING: only the claimant runs the batch.
Claim(c) ==
  /\ call[c].pc = "claim"
  /\ IF slot = None
     THEN slot' = [op |-> call[c].op, phase |-> "applying"] /\ Goto(c, "batch")
     ELSE Return(c) /\ UNCHANGED slot
  /\ UNCHANGED <<site, reviewed>>

Template == [welcome |-> None, own |-> {}, template |-> TRUE]

\* The batch looks at its receipt and at the number of things only: not what
\* the code does.
BatchByCount(c) ==
  LET seed == reviewed[call[c].op]
  IN /\ call[c].pc = "batch"
     /\ IF slot = [op |-> call[c].op, phase |-> "applying"]
           /\ site.own = {} /\ (site.welcome = None) = (seed.welcome = None)
        THEN site' = Template /\ slot' = [slot EXCEPT !.phase = "installed"]
        ELSE UNCHANGED <<site, slot>>
     /\ Return(c)
     /\ UNCHANGED reviewed

\* One atomic batch behind a guard over the receipt and every field reviewed;
\* when the guard fails nothing is written and the receipt stays.
Batch(c) ==
  LET seed == reviewed[call[c].op]
  IN /\ call[c].pc = "batch"
     /\ IF slot = [op |-> call[c].op, phase |-> "applying"] /\ site = seed
        THEN site' = Template /\ slot' = [slot EXCEPT !.phase = "installed"]
        ELSE UNCHANGED <<site, slot>>
     /\ Return(c)
     /\ UNCHANGED reviewed

\* The call dies, or the state store does not answer.
Stop(c) == call[c] # Idle /\ Return(c) /\ UNCHANGED <<site, slot, reviewed>>

Next == \/ Edit
        \/ \E o \in Ops : Review(o)
        \/ \E c \in Calls : \/ \E o \in Ops : Begin(c, o)
                            \/ ReviewAgain(c) \/ SnapshotAgain(c) \/ Claim(c) \/ Batch(c) \/ Stop(c)

Spec == Init /\ [][Next]_vars

-----------------------------------------------------------------------------
(* Properties *)

Phase == IF slot = None THEN "none" ELSE slot.phase
Seen  == IF slot = None THEN {reviewed[o] : o \in Ops} \ {None} ELSE {reviewed[slot.op]}

Promise == INSTANCE AtomicInstall WITH phase <- Phase, seen <- Seen

\* Whatever calls race, stop half-way or are sent again, and whatever the owner
\* does in between, the site changes to the template in one step, once, and
\* only from exactly the site that the claiming operation's client reviewed: an
\* edit made between the review and the batch is never overwritten, and a batch
\* that was refused or lost leaves the site to its owner and is never repeated
\* ("A competing writer never runs another batch").
ImplementsAtomicInstall == Promise!Spec
=============================================================================

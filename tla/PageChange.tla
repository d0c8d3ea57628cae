----------------------------- MODULE PageChange -----------------------------
(***************************************************************************)
(* PageChangeStore (page-change-store.ts): begin() and execute() of        *)
(* reviewed page changes over the one operation slot of an owner, step by  *)
(* step, with ordinary edits of pages-store.ts, other callers, and crashes *)
(* or lost replies between any two statements.                             *)
(*                                                                         *)
(* Abstractions: a row is its edit count, its state and its                *)
(* last_write_operation marker; every ordinary edit makes a row that never *)
(* was before (it writes updated_at), and keeps the marker. An operation   *)
(* id stands for one request (planHash comparisons refuse any other), so a *)
(* record is its id and phase: its before and after rows follow from the   *)
(* request.                                                                *)
(***************************************************************************)
EXTENDS Naturals

CONSTANTS
  Pages, Ops, NoOp,
  Callers,      \* concurrent begin() and execute() calls
  MaxEdits      \* bound: ordinary edits of one page

ASSUME PageChangeAssumption == NoOp \notin Ops \cup Pages /\ MaxEdits \in Nat

VARIABLES
  page,         \* rows of compat_pages
  asked,        \* operation -> reviewed page and row (expectedStateHash), from its client
  slot,         \* settings row page_change:active:v1
  archive,      \* settings rows page_change:receipt:v1:<id>
  caller,       \* program counters: pc, operation, slot record read
  told,         \* history: <<operation, terminal phase>> reported to a client
  crashed       \* history: operations a caller died or lost a reply on

vars == <<page, asked, slot, archive, caller, told, crashed>>

Row     == [rev : Nat, state : {"draft", "published", "deleted", "gone"}, op : Ops \cup {NoOp}]
Unasked == [page |-> NoOp]
Ended   == {"applied", "conflict"}
Phases  == {"none", "prepared", "applying"} \cup Ended
Record  == [op : Ops \cup {NoOp}, phase : Phases]
NoRecord == [op |-> NoOp, phase |-> "none"]
Idle    == [pc |-> "idle", op |-> NoOp, seen |-> NoRecord]

TypeOK ==
  /\ page \in [Pages -> Row]
  /\ asked \in [Ops -> [page : Pages, row : Row] \cup {Unasked}]
  /\ slot \in Record
  /\ archive \in [Ops -> {"none"} \cup Ended]
  /\ caller \in [Callers -> [pc : {"idle", "slot", "page", "save", "install", "claim",
                                   "update", "refuse", "check", "finish"},
                             op : Ops \cup {NoOp}, seen : Record]]
  /\ told \subseteq Ops \X Ended
  /\ crashed \subseteq Ops

Init == /\ page    = [p \in Pages |-> [rev |-> 0, state |-> "draft", op |-> NoOp]]
        /\ asked   = [o \in Ops |-> Unasked]
        /\ slot    = NoRecord
        /\ archive = [o \in Ops |-> "none"]
        /\ caller  = [c \in Callers |-> Idle]
        /\ told    = {}
        /\ crashed = {}

-----------------------------------------------------------------------------
Before(o)  == asked[o].row
After(o)   == [Before(o) EXCEPT !.op = o]
Current(o) == page[asked[o].page]

\* The record of an operation: the slot first, then the archive.
Phase(o) == IF slot.op = o THEN slot.phase ELSE archive[o]

Goto(c, pc)  == caller' = [caller EXCEPT ![c].pc = pc]
Return(c)    == caller' = [caller EXCEPT ![c] = Idle]
Tell(o, phase) == told' = told \cup {<<o, phase>>}
Swap(prior, next) == slot' = IF slot = prior THEN next ELSE slot

\* update, setLayout, publish, unpublish, softDelete, restore, permanentDelete.
Edit(p, s) ==
  /\ page[p].state # "gone" /\ page[p].rev < MaxEdits
  /\ page' = [page EXCEPT ![p].rev = @ + 1, ![p].state = s]
  /\ UNCHANGED <<asked, slot, archive, caller, told, crashed>>

\* A client reads state() and makes its request under a fresh operation id.
Review(o, p) ==
  /\ asked[o] = Unasked /\ page[p].state # "gone"
  /\ asked' = [asked EXCEPT ![o] = [page |-> p, row |-> page[p]]]
  /\ UNCHANGED <<page, slot, archive, caller, told, crashed>>

-----------------------------------------------------------------------------
(* begin() *)

\* The archive lookup; a terminal receipt is returned as it is.
Begin(c, o) ==
  /\ caller[c] = Idle /\ asked[o] # Unasked
  /\ IF archive[o] = "none"
     THEN caller' = [caller EXCEPT ![c] = [pc |-> "slot", op |-> o, seen |-> NoRecord]] /\ UNCHANGED told
     ELSE Tell(o, archive[o]) /\ UNCHANGED caller
  /\ UNCHANGED <<page, asked, slot, archive, crashed>>

ReadSlot(c) ==
  /\ caller[c].pc = "slot"
  /\ IF slot.op = caller[c].op \/ slot.phase \notin Ended \cup {"none"}
     THEN Return(c)                      \* known, or operation_in_progress
     ELSE caller' = [caller EXCEPT ![c].pc = "page", ![c].seen = slot]
  /\ told' = IF slot.op = caller[c].op /\ slot.phase \in Ended
             THEN told \cup {<<slot.op, slot.phase>>} ELSE told
  /\ UNCHANGED <<page, asked, slot, archive, crashed>>

ReadPage(c) ==
  LET o == caller[c].op IN
  /\ caller[c].pc = "page"
  /\ IF Current(o) = Before(o) /\ Before(o).state = "draft"
     THEN Goto(c, IF caller[c].seen = NoRecord THEN "install" ELSE "save")
     ELSE Return(c)
  /\ UNCHANGED <<page, asked, slot, archive, told, crashed>>

\* INSERT ... DO NOTHING of the ended receipt, then read it back.
SaveReceipt(c) ==
  LET ended == caller[c].seen IN
  /\ caller[c].pc = "save"
  /\ archive' = [archive EXCEPT ![ended.op] = IF @ = "none" THEN ended.phase ELSE @]
  /\ IF archive'[ended.op] = ended.phase THEN Goto(c, "install") ELSE Return(c)
  /\ UNCHANGED <<page, asked, slot, told, crashed>>

Install(c) ==
  /\ caller[c].pc = "install"
  /\ Swap(caller[c].seen, [op |-> caller[c].op, phase |-> "prepared"])
  /\ Return(c)
  /\ UNCHANGED <<page, asked, archive, told, crashed>>

-----------------------------------------------------------------------------
(* execute() *)

Execute(c, o) ==
  /\ caller[c] = Idle /\ Phase(o) # "none"
  /\ IF Phase(o) = "conflict"
     THEN Tell(o, "conflict") /\ UNCHANGED caller
     ELSE /\ caller' = [caller EXCEPT ![c] =
               [pc |-> IF Phase(o) = "prepared" THEN "claim" ELSE "check",
                op |-> o, seen |-> [op |-> o, phase |-> Phase(o)]]]
          /\ UNCHANGED told
  /\ UNCHANGED <<page, asked, slot, archive, crashed>>

\* Both of two executors go on: not what the code does.
ClaimAnyway(c) ==
  /\ caller[c].pc = "claim"
  /\ slot' = [op |-> caller[c].op, phase |-> "applying"]
  /\ caller' = [caller EXCEPT ![c].pc = "update", ![c].seen = slot']
  /\ UNCHANGED <<page, asked, archive, told, crashed>>

\* Prepared becomes applying in one swap; whoever loses it answers uncertain.
Claim(c) ==
  LET intent == [op |-> caller[c].op, phase |-> "applying"] IN
  /\ caller[c].pc = "claim"
  /\ Swap(caller[c].seen, intent)
  /\ IF slot = caller[c].seen
     THEN caller' = [caller EXCEPT ![c].pc = "update", ![c].seen = intent]
     ELSE Return(c)
  /\ UNCHANGED <<page, asked, archive, told, crashed>>

\* UPDATE by id and marker only: not what the code does.
UpdateById(c) ==
  LET o == caller[c].op IN
  /\ caller[c].pc = "update"
  /\ IF Current(o).state = "draft"
     THEN page' = [page EXCEPT ![asked[o].page].op = o] /\ Goto(c, "check")
     ELSE Goto(c, "refuse") /\ UNCHANGED page
  /\ UNCHANGED <<asked, slot, archive, told, crashed>>

\* UPDATE under the full-row predicate.
Update(c) ==
  LET o == caller[c].op IN
  /\ caller[c].pc = "update"
  /\ IF Current(o) = Before(o) /\ Before(o).state = "draft"
     THEN page' = [page EXCEPT ![asked[o].page] = After(o)] /\ Goto(c, "check")
     ELSE Goto(c, "refuse") /\ UNCHANGED page
  /\ UNCHANGED <<asked, slot, archive, told, crashed>>

MarkConflict(c) ==
  LET o == caller[c].op IN
  /\ caller[c].pc = "refuse"
  /\ Swap(caller[c].seen, [op |-> o, phase |-> "conflict"])
  /\ Tell(o, "conflict")
  /\ Return(c)
  /\ UNCHANGED <<page, asked, archive, crashed>>

\* Marker and hash of the page; anything else is answered uncertain.
Check(c) ==
  /\ caller[c].pc = "check"
  /\ IF Current(caller[c].op) = After(caller[c].op) THEN Goto(c, "finish") ELSE Return(c)
  /\ UNCHANGED <<page, asked, slot, archive, told, crashed>>

\* The client hears applied, the slot does not: not what the code does.
FinishUnrecorded(c) ==
  /\ caller[c].pc = "finish"
  /\ Tell(caller[c].op, "applied")
  /\ Return(c)
  /\ UNCHANGED <<page, asked, slot, archive, crashed>>

Finish(c) ==
  LET o == caller[c].op IN
  /\ caller[c].pc = "finish"
  /\ IF caller[c].seen.phase = "applied" THEN UNCHANGED slot
     ELSE Swap(caller[c].seen, [op |-> o, phase |-> "applied"])
  /\ Tell(o, "applied")
  /\ Return(c)
  /\ UNCHANGED <<page, asked, archive, crashed>>

\* The process dies, or the reply of a statement never reaches it.
Crash(c) ==
  /\ caller[c] # Idle
  /\ crashed' = crashed \cup {caller[c].op}
  /\ Return(c)
  /\ UNCHANGED <<page, asked, slot, archive, told>>

\* status(): slot or archive, then the page.
Status(o) ==
  /\ \/ Phase(o) = "conflict" /\ Tell(o, "conflict")
     \/ Phase(o) \in {"applying", "applied"} /\ Current(o) = After(o) /\ Tell(o, "applied")
  /\ UNCHANGED <<page, asked, slot, archive, caller, crashed>>

Step(c) == \/ ReadSlot(c) \/ ReadPage(c) \/ SaveReceipt(c) \/ Install(c)
           \/ Claim(c) \/ Update(c) \/ MarkConflict(c) \/ Check(c) \/ Finish(c) \/ Crash(c)

Next == \/ \E p \in Pages, s \in {"draft", "published", "deleted", "gone"} : Edit(p, s)
        \/ \E o \in Ops : Status(o) \/ \E p \in Pages : Review(o, p)
        \/ \E c \in Callers : Step(c) \/ \E o \in Ops : Begin(c, o) \/ Execute(c, o)

Spec == Init /\ [][Next]_vars

-----------------------------------------------------------------------------
(* Properties *)

Verdict(o) == IF Phase(o) \in Ended THEN Phase(o)
              ELSE IF Phase(o) = "applying" /\ Current(o).op = o THEN "applied" ELSE "open"

Promise == INSTANCE CheckedChange WITH verdict <- [o \in Ops |-> Verdict(o)]

\* Slot, archive and the chain of swaps implement the checked change: no
\* interleaving of begin(), execute(), edits and crashes applies a change
\* twice, applies it to a row that was not reviewed, refuses it without
\* cause, or loses or reverses a verdict.
ImplementsCheckedChanges == Promise!Spec

\* Whatever begin(), execute() or status() told any client about an end
\* agrees with the page and with what every later call will say.
AnswersAreTrue == \A a \in told : Verdict(a[1]) = a[2]

\* The owner's slot is only left applying, which refuses every later change,
\* when a caller died on it or its result was edited over before the check;
\* otherwise some caller is still at work on it.
StuckOnlyByCrashOrEdit ==
  slot.phase = "applying" =>
     \/ \E c \in Callers : caller[c].op = slot.op /\ caller[c].pc \in {"update", "refuse", "check", "finish"}
     \/ slot.op \in crashed
     \/ Current(slot.op).rev > Before(slot.op).rev
=============================================================================

------------------------- MODULE PageChange_proofs --------------------------
(***************************************************************************)
(* Proofs about PageChange, for any number of pages, operations, callers   *)
(* and edits.                                                              *)
(*                                                                         *)
(* Slot, receipts and page row are read and written in separate steps. The *)
(* inductive invariant says why a caller may still trust what it read: a   *)
(* slot record that was replaced is in the archive, a row that is no       *)
(* longer as reviewed never is again, and an operation that left its mark  *)
(* anywhere has been applied.                                              *)
(***************************************************************************)
EXTENDS PageChange, TLAPS

IsAsked(o)    == asked[o] # Unasked
AsReviewed(o) == Current(o) = Before(o)
Marked(o)     == \/ \E p \in Pages : page[p].op = o
                 \/ \E q \in Ops : IsAsked(q) /\ Before(q).op = o

\* The slot goes before the archive and agrees with it.
SlotAgrees ==
  /\ slot = NoRecord \/ (slot.op \in Ops /\ slot.phase # "none")
  /\ slot.phase \in {"prepared", "applying"} => archive[slot.op] = "none"
  /\ slot.phase \in Ended => archive[slot.op] \in {"none", slot.phase}

\* What a phase and a verdict say about the rows.
RowsAgree ==
  \A o \in Ops :
    /\ IsAsked(o) => /\ Before(o).rev <= Current(o).rev
                     /\ Before(o).rev = Current(o).rev => Before(o).state = Current(o).state
    /\ Phase(o) # "none" => IsAsked(o) /\ Before(o).state = "draft"
    /\ Marked(o) => Verdict(o) = "applied"
    /\ Verdict(o) \in Ended => ~AsReviewed(o)

\* Who replaces a record has it archived, and its own operation has not begun.
Replaces(c) ==
  LET o == caller[c].op  seen == caller[c].seen  pc == caller[c].pc IN
  /\ pc \in {"page", "save", "install"} =>
       /\ seen.op # o
       /\ seen = NoRecord \/ /\ seen.op \in Ops /\ seen.phase \in Ended
                             /\ slot = seen \/ archive[seen.op] = seen.phase
  /\ pc \in {"save", "install"} => /\ Before(o).state = "draft"
                                   /\ slot = seen => archive[o] = "none"
  /\ pc = "save" => seen # NoRecord
  /\ pc = "install" => seen = NoRecord \/ archive[seen.op] = seen.phase

\* Who works on a page owns the applying slot, and nothing of it is visible yet.
Works(c) ==
  LET o == caller[c].op  seen == caller[c].seen  pc == caller[c].pc IN
  /\ pc = "claim" => seen = [op |-> o, phase |-> "prepared"]
  /\ pc \in {"update", "refuse"} => /\ seen = slot /\ slot = [op |-> o, phase |-> "applying"]
                                    /\ ~Marked(o)
                                    /\ \A d \in Callers : caller[d].pc \in {"update", "refuse"} => d = c
  /\ pc = "refuse" => ~AsReviewed(o)

\* Who looks for a result knows of its operation.
Looks(c) ==
  LET o == caller[c].op  seen == caller[c].seen  pc == caller[c].pc IN
  /\ pc \in {"check", "finish"} => /\ seen.op = o /\ seen.phase \in {"applying", "applied"}
                                   /\ seen.phase = "applied" => Phase(o) = "applied"
  /\ pc \in {"claim", "check", "finish"} => Phase(o) # "none"
  /\ pc = "finish" => Verdict(o) = "applied"

CallerAgrees(c) ==
  /\ caller[c].pc = "idle" => caller[c] = Idle
  /\ caller[c].pc # "idle" => caller[c].op \in Ops /\ IsAsked(caller[c].op)
  /\ Replaces(c) /\ Works(c) /\ Looks(c)

CallersAgree == \A c \in Callers : CallerAgrees(c)

IInv == TypeOK /\ SlotAgrees /\ RowsAgree /\ CallersAgree

\* An applying slot is in some caller's hand, and whoever has yet to look for
\* the result will find it, unless the row was edited since.
InHand ==
  slot.phase = "applying" =>
    \/ slot.op \in crashed
    \/ Before(slot.op).rev < Current(slot.op).rev
    \/ \E c \in Callers : caller[c].op = slot.op /\ caller[c].pc \in {"update", "refuse"}
    \/ /\ Current(slot.op) = After(slot.op)
       /\ \E c \in Callers : caller[c].op = slot.op /\ caller[c].pc \in {"check", "finish"}

-----------------------------------------------------------------------------
(* Types *)

LEMMA RowTyped ==
  ASSUME TypeOK, NEW o \in Ops, IsAsked(o)
  PROVE  /\ Before(o) \in Row /\ asked[o].page \in Pages
         /\ Current(o) \in Row /\ After(o) \in Row
         /\ After(o).op = o /\ After(o).rev = Before(o).rev /\ After(o).state = Before(o).state
  <1>1. asked[o] \in [page : Pages, row : Row]
    BY DEF TypeOK, IsAsked
  <1>2. Before(o) \in Row /\ asked[o].page \in Pages /\ Current(o) \in Row
    BY <1>1 DEF TypeOK, Before, Current
  <1>. QED  BY <1>1, <1>2 DEF After, Row

LEMMA PhaseTyped ==
  ASSUME TypeOK, NEW o \in Ops
  PROVE  Phase(o) \in Phases
  BY DEF TypeOK, Phase, Phases, Record

LEMMA TypeStep == IInv /\ [Next]_vars => TypeOK'
  <1>. SUFFICES ASSUME IInv, [Next]_vars PROVE TypeOK'
    OBVIOUS
  <1>t. TypeOK
    BY DEF IInv
  <1>1. ASSUME NEW p \in Pages, NEW s \in {"draft", "published", "deleted", "gone"}, Edit(p, s)
        PROVE  TypeOK'
    <2>1. page[p] \in Row
      BY <1>t DEF TypeOK
    <2>2. page'[p] = [rev |-> page[p].rev + 1, state |-> s, op |-> page[p].op]
      BY <1>t, <1>1, <2>1 DEF TypeOK, Edit, Row
    <2>3. page'[p] \in Row
      BY <2>1, <2>2 DEF Row
    <2>4. page' \in [Pages -> Row]
      BY <1>t, <1>1, <2>3 DEF TypeOK, Edit
    <2>. QED  BY <1>t, <1>1, <2>4 DEF TypeOK, Edit
  <1>2. ASSUME NEW o \in Ops, NEW p \in Pages, Review(o, p) PROVE TypeOK'
    BY <1>t, <1>2 DEF TypeOK, Review
  <1>3. ASSUME NEW o \in Ops, Status(o) PROVE TypeOK'
    <2>1. told' \subseteq Ops \X Ended
      BY <1>t, <1>3 DEF TypeOK, Status, Tell, Ended
    <2>. QED  BY <1>t, <1>3, <2>1 DEF TypeOK, Status
  <1>4. ASSUME NEW c \in Callers, NEW o \in Ops, Begin(c, o) PROVE TypeOK'
    <2>1. told' \subseteq Ops \X Ended
      BY <1>t, <1>4 DEF TypeOK, Begin, Tell, Ended
    <2>. QED  BY <1>t, <1>4, <2>1 DEF TypeOK, Begin, Ended, NoRecord, Record, Phases
  <1>5. ASSUME NEW c \in Callers, NEW o \in Ops, Execute(c, o) PROVE TypeOK'
    <2>1. told' \subseteq Ops \X Ended
      BY <1>t, <1>5 DEF TypeOK, Execute, Tell, Ended
    <2>2. Phase(o) \in Phases
      BY <1>t, PhaseTyped
    <2>. QED  BY <1>t, <1>5, <2>1, <2>2 DEF TypeOK, Execute, Record
  <1>6. ASSUME NEW c \in Callers, ReadSlot(c) \/ ReadPage(c) \/ Check(c) \/ Crash(c) PROVE TypeOK'
    <2>1. caller[c] # Idle => caller[c].op \in Ops
      BY DEF IInv, CallersAgree, CallerAgrees
    <2>2. CASE ReadSlot(c)
      <3>1. told' \subseteq Ops \X Ended
        BY <1>t, <2>1, <2>2 DEF TypeOK, ReadSlot, Ended, Idle
      <3>2. \/ caller' = [caller EXCEPT ![c] = Idle]
            \/ caller' = [caller EXCEPT ![c].pc = "page", ![c].seen = slot]
        BY <2>2 DEF ReadSlot, Return
      <3>3. caller' \in [Callers -> [pc : {"idle", "slot", "page", "save", "install", "claim",
                                         "update", "refuse", "check", "finish"},
                                   op : Ops \cup {NoOp}, seen : Record]]
        BY <1>t, <3>2 DEF TypeOK, Idle, NoRecord, Record, Phases
      <3>. QED  BY <1>t, <2>2, <3>1, <3>3 DEF TypeOK, ReadSlot
    <2>3. CASE ReadPage(c)
      BY <1>t, <2>3 DEF TypeOK, ReadPage, Return, Goto, Idle, NoRecord, Record, Phases
    <2>4. CASE Check(c)
      BY <1>t, <2>4 DEF TypeOK, Check, Return, Goto, Idle, NoRecord, Record, Phases
    <2>5. CASE Crash(c)
      BY <1>t, <2>1, <2>5 DEF TypeOK, Crash, Return, Idle, NoRecord, Record, Phases
    <2>. QED  BY <1>6, <2>2, <2>3, <2>4, <2>5
  <1>7. ASSUME NEW c \in Callers, SaveReceipt(c) PROVE TypeOK'
    <2>1. caller[c].seen.op \in Ops /\ caller[c].seen.phase \in Ended
      BY <1>7 DEF SaveReceipt, IInv, CallersAgree, CallerAgrees, Replaces
    <2>2. archive' \in [Ops -> {"none"} \cup Ended]
      BY <1>t, <1>7, <2>1 DEF TypeOK, SaveReceipt
    <2>3. caller' = [caller EXCEPT ![c].pc = "install"] \/ caller' = [caller EXCEPT ![c] = Idle]
      BY <1>7 DEF SaveReceipt, Goto, Return
    <2>4. UNCHANGED <<page, asked, slot, told, crashed>>
      BY <1>7 DEF SaveReceipt
    <2>5. caller' \in [Callers -> [pc : {"idle", "slot", "page", "save", "install", "claim",
                                       "update", "refuse", "check", "finish"},
                                 op : Ops \cup {NoOp}, seen : Record]]
      BY <1>t, <2>3 DEF TypeOK, Idle, NoRecord, Record, Phases
    <2>. QED  BY <1>t, <2>2, <2>4, <2>5 DEF TypeOK
  <1>8. ASSUME NEW c \in Callers, Install(c) \/ Claim(c) PROVE TypeOK'
    BY <1>t, <1>8 DEF TypeOK, Install, Claim, Swap, Return, Idle, NoRecord, Record, Phases, Ended
  <1>9. ASSUME NEW c \in Callers, Update(c) PROVE TypeOK'
    <2>1. caller[c].op \in Ops /\ IsAsked(caller[c].op)
      BY <1>9 DEF Update, IInv, CallersAgree, CallerAgrees
    <2>2. After(caller[c].op) \in Row
      BY <1>t, <2>1, RowTyped
    <2>. QED  BY <1>t, <1>9, <2>1, <2>2 DEF TypeOK, Update, Goto
  <1>10. ASSUME NEW c \in Callers, MarkConflict(c) \/ Finish(c) PROVE TypeOK'
    <2>1. caller[c].op \in Ops
      BY <1>10 DEF MarkConflict, Finish, IInv, CallersAgree, CallerAgrees
    <2>2. told' \subseteq Ops \X Ended
      BY <1>t, <1>10, <2>1 DEF TypeOK, MarkConflict, Finish, Tell, Ended
    <2>. QED  BY <1>t, <1>10, <2>1, <2>2 DEF TypeOK, MarkConflict, Finish, Swap, Return, Idle,
              NoRecord, Record, Phases, Ended
  <1>11. CASE UNCHANGED vars
    BY <1>t, <1>11 DEF TypeOK, vars
  <1>. QED
    BY <1>1, <1>2, <1>3, <1>4, <1>5, <1>6, <1>7, <1>8, <1>9, <1>10, <1>11 DEF Next, Step

-----------------------------------------------------------------------------
(* What no step takes back *)

\* Requests, ends and archived receipts stay, and a row that was edited or
\* changed since its review stays different from the reviewed one.
Kept ==
  \A o \in Ops :
    /\ IsAsked(o) => asked'[o] = asked[o] /\ (~AsReviewed(o) => ~AsReviewed(o)')
    /\ Phase(o) # "none" => Phase(o)' # "none"
    /\ Phase(o) = "applied" => Phase(o)' = "applied"
    /\ Verdict(o) \in Ended => Verdict(o)' = Verdict(o)
    /\ archive[o] # "none" => archive'[o] = archive[o]

\* The part of the invariant that is not about callers.
Shared == SlotAgrees /\ RowsAgree

Silent == UNCHANGED <<page, asked, slot, archive>>

\* What the abstract specification does not see.
Same == UNCHANGED <<page, asked>> /\ \A o \in Ops : Verdict(o)' = Verdict(o)

LEMMA SilentKeeps ==
  ASSUME Shared, Silent
  PROVE  Shared' /\ Kept /\ Same /\ \A o \in Ops : Marked(o)' = Marked(o)
  <1>1. SlotAgrees'
    BY DEF Shared, Silent, SlotAgrees
  <1>2. ASSUME NEW o \in Ops
        PROVE  /\ Phase(o)' = Phase(o) /\ IsAsked(o)' = IsAsked(o) /\ Before(o)' = Before(o)
               /\ Current(o)' = Current(o) /\ AsReviewed(o)' = AsReviewed(o)
    BY DEF Silent, Phase, IsAsked, Before, Current, AsReviewed
  <1>3. ASSUME NEW o \in Ops PROVE Verdict(o)' = Verdict(o)
    BY <1>2 DEF Verdict
  <1>4. ASSUME NEW o \in Ops PROVE Marked(o)' = Marked(o)
    BY <1>2 DEF Marked, Silent
  <1>5. RowsAgree'
    BY <1>2, <1>3, <1>4 DEF Shared, RowsAgree
  <1>6. Kept
    BY <1>2, <1>3 DEF Kept, Silent
  <1>7. Same
    BY <1>3 DEF Same, Silent
  <1>. QED  BY <1>1, <1>4, <1>5, <1>6, <1>7 DEF Shared

\* A caller that does nothing keeps its part of the invariant over any step
\* that leaves slot and receipts alone, marks nothing and starts no work.
LEMMA OthersKeep ==
  ASSUME IInv, Kept, slot' = slot, archive' = archive,
         \A o \in Ops : Marked(o)' => Marked(o),
         \A e \in Callers : caller'[e].pc \in {"update", "refuse"} => caller[e].pc \in {"update", "refuse"},
         NEW d \in Callers, caller'[d] = caller[d]
  PROVE  CallerAgrees(d)'
  <1>1. CallerAgrees(d)
    BY DEF IInv, CallersAgree
  <1>2. caller[d].pc # "idle" =>
           /\ caller[d].op \in Ops /\ IsAsked(caller[d].op) /\ IsAsked(caller[d].op)'
           /\ Before(caller[d].op)' = Before(caller[d].op)
    BY <1>1 DEF CallerAgrees, Kept, IsAsked, Before
  <1>3. Replaces(d)'
    BY <1>1, <1>2 DEF CallerAgrees, Replaces
  <1>4. Works(d)'
    BY <1>1, <1>2 DEF CallerAgrees, Works, Kept
  <1>5. Looks(d)'
    BY <1>1, <1>2 DEF CallerAgrees, Looks, Kept, Ended
  <1>. QED  BY <1>1, <1>2, <1>3, <1>4, <1>5 DEF CallerAgrees

-----------------------------------------------------------------------------
(* Steps that only move one caller on *)

LEMMA SilentStep ==
  ASSUME IInv, Silent, NEW c \in Callers,
         \A d \in Callers \ {c} : caller'[d] = caller[d],
         caller'[c].pc \in {"update", "refuse"} => caller[c].pc \in {"update", "refuse"},
         CallerAgrees(c)'
  PROVE  Shared' /\ CallersAgree' /\ Kept /\ Same
  <1>1. Shared' /\ Kept /\ Same /\ \A o \in Ops : Marked(o)' = Marked(o)
    BY SilentKeeps DEF IInv, Shared
  <1>2. ASSUME NEW d \in Callers \ {c} PROVE CallerAgrees(d)'
    BY <1>1, <1>2, OthersKeep DEF Silent
  <1>. QED  BY <1>1, <1>2 DEF CallersAgree

LEMMA ReturnAgrees ==
  ASSUME TypeOK, NEW c \in Callers, Return(c)
  PROVE  CallerAgrees(c)' /\ caller'[c].pc = "idle" /\ \A d \in Callers \ {c} : caller'[d] = caller[d]
  <1>1. caller'[c] = Idle /\ \A d \in Callers \ {c} : caller'[d] = caller[d]
    BY DEF TypeOK, Return
  <1>. QED  BY <1>1 DEF CallerAgrees, Replaces, Works, Looks, Idle

LEMMA ReturnStep ==
  ASSUME IInv, Silent, NEW c \in Callers, Return(c)
  PROVE  Shared' /\ CallersAgree' /\ Kept /\ Same
  BY ReturnAgrees, SilentStep DEF IInv

\* Begin() starts with a request that is on record.
LEMMA BeginStep ==
  ASSUME IInv, NEW c \in Callers, NEW o \in Ops, Begin(c, o)
  PROVE  Shared' /\ CallersAgree' /\ Kept /\ Same
  <1>s. Silent
    BY DEF Begin, Silent
  <1>1. CASE UNCHANGED caller
    <2>1. CallerAgrees(c)'
      BY <1>1, <1>s, SilentKeeps, OthersKeep DEF Silent, IInv, Shared
    <2>. QED  BY <1>1, <1>s, <2>1, SilentStep
  <1>2. CASE caller' = [caller EXCEPT ![c] = [pc |-> "slot", op |-> o, seen |-> NoRecord]]
    <2>1. /\ caller'[c] = [pc |-> "slot", op |-> o, seen |-> NoRecord]
          /\ \A d \in Callers \ {c} : caller'[d] = caller[d]
      BY <1>2 DEF IInv, TypeOK
    <2>2. IsAsked(o)'
      BY DEF Begin, IsAsked
    <2>3. CallerAgrees(c)'
      BY <2>1, <2>2 DEF CallerAgrees, Replaces, Works, Looks
    <2>. QED  BY <1>s, <2>1, <2>3, SilentStep
  <1>. QED  BY <1>1, <1>2 DEF Begin

LEMMA ReadSlotStep ==
  ASSUME IInv, NEW c \in Callers, ReadSlot(c)
  PROVE  Shared' /\ CallersAgree' /\ Kept /\ Same
  <1>s. Silent
    BY DEF ReadSlot, Silent
  <1>1. CASE Return(c)
    BY <1>s, <1>1, ReturnStep
  <1>2. CASE ~Return(c)
    <2>1. /\ caller' = [caller EXCEPT ![c].pc = "page", ![c].seen = slot]
          /\ slot.op # caller[c].op /\ slot.phase \in Ended \cup {"none"}
      BY <1>2 DEF ReadSlot
    <2>2. /\ caller'[c].pc = "page" /\ caller'[c].op = caller[c].op /\ caller'[c].seen = slot
          /\ \A d \in Callers \ {c} : caller'[d] = caller[d]
      BY <2>1 DEF IInv, TypeOK
    <2>3. caller[c].op \in Ops /\ IsAsked(caller[c].op)'
      BY <1>s, <2>2 DEF ReadSlot, IInv, CallersAgree, CallerAgrees, Silent, IsAsked
    <2>4. slot = NoRecord \/ (slot.op \in Ops /\ slot.phase \in Ended)
      BY <2>1 DEF IInv, SlotAgrees
    <2>5. CallerAgrees(c)'
      BY <1>s, <2>1, <2>2, <2>3, <2>4 DEF CallerAgrees, Replaces, Works, Looks, Silent
    <2>. QED  BY <1>s, <2>2, <2>5, SilentStep
  <1>. QED  BY <1>1, <1>2

\* The row is as reviewed, so its change has not ended and has no receipt.
LEMMA ReadPageStep ==
  ASSUME IInv, NEW c \in Callers, ReadPage(c)
  PROVE  Shared' /\ CallersAgree' /\ Kept /\ Same
  <1>s. Silent
    BY DEF ReadPage, Silent
  <1>1. CASE Return(c)
    BY <1>s, <1>1, ReturnStep
  <1>2. CASE ~Return(c)
    <2> DEFINE o == caller[c].op
    <2>1. /\ Goto(c, IF caller[c].seen = NoRecord THEN "install" ELSE "save")
          /\ AsReviewed(o) /\ Before(o).state = "draft"
      BY <1>2 DEF ReadPage, AsReviewed
    <2>2. /\ caller'[c].pc = (IF caller[c].seen = NoRecord THEN "install" ELSE "save")
          /\ caller'[c].op = o /\ caller'[c].seen = caller[c].seen
          /\ \A d \in Callers \ {c} : caller'[d] = caller[d]
      BY <2>1 DEF IInv, TypeOK, Goto
    <2>3. o \in Ops /\ IsAsked(o) /\ Replaces(c)
      BY DEF ReadPage, IInv, CallersAgree, CallerAgrees
    <2>4. archive[o] \in {"none"} \cup Ended
      BY <2>3 DEF IInv, TypeOK
    <2>5. caller[c].seen = slot => archive[o] = "none"
      <3>. SUFFICES ASSUME caller[c].seen = slot, archive[o] \in Ended PROVE FALSE
        BY <2>4
      <3>1. Phase(o) = archive[o]
        BY <2>3 DEF Phase, Replaces, ReadPage
      <3>2. Verdict(o) \in Ended
        BY <3>1 DEF Verdict
      <3>. QED  BY <2>1, <2>3, <3>2 DEF IInv, RowsAgree
    <2>6. Before(o)' = Before(o) /\ IsAsked(o)'
      BY <1>s, <2>2, <2>3 DEF Before, IsAsked, Silent
    <2>7. Replaces(c)'
      BY <1>s, <2>1, <2>2, <2>3, <2>5, <2>6 DEF ReadPage, Replaces, Silent
    <2>8. CallerAgrees(c)'
      BY <2>2, <2>3, <2>6, <2>7 DEF CallerAgrees, Works, Looks
    <2>. QED  BY <1>s, <2>2, <2>8, SilentStep
  <1>. QED  BY <1>1, <1>2

\* Execute() starts from the record of a change that was begun.
LEMMA ExecuteStep ==
  ASSUME IInv, NEW c \in Callers, NEW o \in Ops, Execute(c, o)
  PROVE  Shared' /\ CallersAgree' /\ Kept /\ Same
  <1>s. Silent
    BY DEF Execute, Silent
  <1>1. CASE UNCHANGED caller
    <2>1. CallerAgrees(c)'
      BY <1>1, <1>s, SilentKeeps, OthersKeep DEF Silent, IInv, Shared
    <2>. QED  BY <1>1, <1>s, <2>1, SilentStep
  <1>2. CASE ~UNCHANGED caller
    <2>1. caller' = [caller EXCEPT ![c] =
               [pc |-> IF Phase(o) = "prepared" THEN "claim" ELSE "check",
                op |-> o, seen |-> [op |-> o, phase |-> Phase(o)]]]
      BY <1>2 DEF Execute
    <2>2. /\ caller'[c] = [pc |-> IF Phase(o) = "prepared" THEN "claim" ELSE "check",
                           op |-> o, seen |-> [op |-> o, phase |-> Phase(o)]]
          /\ \A d \in Callers \ {c} : caller'[d] = caller[d]
      BY <2>1 DEF IInv, TypeOK
    <2>3. Phase(o) # "none" /\ Phase(o) # "conflict" /\ Phase(o) \in Phases
      BY <1>2, PhaseTyped DEF Execute, IInv
    <2>4. IsAsked(o)' /\ Phase(o)' = Phase(o)
      BY <1>s, <2>3 DEF IInv, RowsAgree, Silent, IsAsked, Phase
    <2>5. CallerAgrees(c)'
      BY <2>2, <2>3, <2>4 DEF CallerAgrees, Replaces, Works, Looks, Phases, Ended
    <2>. QED  BY <1>s, <2>2, <2>5, SilentStep
  <1>. QED  BY <1>1, <1>2

\* Whoever finds the mark of its operation may finish it.
LEMMA CheckStep ==
  ASSUME IInv, NEW c \in Callers, Check(c)
  PROVE  Shared' /\ CallersAgree' /\ Kept /\ Same
  <1>s. Silent
    BY DEF Check, Silent
  <1>1. CASE Return(c)
    BY <1>s, <1>1, ReturnStep
  <1>2. CASE ~Return(c)
    <2> DEFINE o == caller[c].op
    <2>1. Goto(c, "finish") /\ Current(o) = After(o)
      BY <1>2 DEF Check
    <2>2. /\ caller'[c].pc = "finish" /\ caller'[c].op = o /\ caller'[c].seen = caller[c].seen
          /\ \A d \in Callers \ {c} : caller'[d] = caller[d]
      BY <2>1 DEF IInv, TypeOK, Goto
    <2>3. o \in Ops /\ IsAsked(o) /\ Looks(c)
      BY DEF Check, IInv, CallersAgree, CallerAgrees
    <2>4. Verdict(o) = "applied"
      <3>1. Marked(o)
        BY <2>1, <2>3, RowTyped DEF IInv, Marked, Current
      <3>. QED  BY <2>3, <3>1 DEF IInv, RowsAgree
    <2>5. Verdict(o)' = "applied" /\ Phase(o)' = Phase(o) /\ IsAsked(o)'
      BY <1>s, <2>2, <2>3, <2>4 DEF Verdict, Phase, Current, IsAsked, Silent
    <2>6. CallerAgrees(c)'
      BY <2>2, <2>3, <2>5 DEF Check, CallerAgrees, Replaces, Works, Looks
    <2>. QED  BY <1>s, <2>2, <2>6, SilentStep
  <1>. QED  BY <1>1, <1>2

-----------------------------------------------------------------------------
(* Edits and requests *)

\* An edit makes a row later than every reviewed one and keeps the mark.
LEMMA EditStep ==
  ASSUME IInv, NEW p \in Pages, NEW s \in {"draft", "published", "deleted", "gone"}, Edit(p, s)
  PROVE  Shared' /\ CallersAgree' /\ Kept /\ \A q \in Ops : Verdict(q)' = Verdict(q)
  <1>1. /\ page'[p].op = page[p].op /\ page'[p].rev = page[p].rev + 1
        /\ page[p].rev \in Nat
        /\ \A q \in Pages \ {p} : page'[q] = page[q]
        /\ UNCHANGED <<asked, slot, archive, caller>>
    BY DEF Edit, IInv, TypeOK, Row
  <1>2. \A q \in Pages : page'[q].op = page[q].op /\ page[q].rev <= page'[q].rev
                         /\ (page'[q].rev = page[q].rev => page'[q] = page[q])
    <2>. SUFFICES ASSUME NEW q \in Pages
                  PROVE  page'[q].op = page[q].op /\ page[q].rev <= page'[q].rev
                         /\ (page'[q].rev = page[q].rev => page'[q] = page[q])
      OBVIOUS
    <2>1. page[q].rev \in Nat
      BY DEF IInv, TypeOK, Row
    <2>. QED  BY <1>1, <2>1
  <1>3. \A o \in Ops : /\ IsAsked(o)' = IsAsked(o) /\ Before(o)' = Before(o)
                       /\ Phase(o)' = Phase(o)
    BY <1>1 DEF IsAsked, Before, Phase
  <1>4. \A o \in Ops : Marked(o)' = Marked(o)
    BY <1>2, <1>3 DEF Marked
  <1>5. \A o \in Ops : Phase(o) # "none" => IsAsked(o)
    BY DEF IInv, RowsAgree
  <1>6. ASSUME NEW o \in Ops, IsAsked(o)
        PROVE  /\ Current(o)'.op = Current(o).op /\ Current(o).rev <= Current(o)'.rev
               /\ Current(o)'.rev = Current(o).rev => Current(o)' = Current(o)
               /\ Current(o).rev \in Nat /\ Current(o)'.rev \in Nat /\ Before(o).rev \in Nat
    <2>1. asked[o].page \in Pages /\ Before(o) \in Row /\ Current(o) \in Row
      BY <1>6, RowTyped DEF IInv
    <2>2. Current(o)' = page'[asked[o].page]
      BY <1>1 DEF Current
    <2>3. Current(o).rev \in Nat /\ Before(o).rev \in Nat
      BY <2>1 DEF Row
    <2>4. page'[asked[o].page].rev \in Nat
      BY <1>1, <2>1, <2>3 DEF Current
    <2>. QED  BY <1>2, <2>1, <2>2, <2>3, <2>4 DEF Current
  <1>7. \A o \in Ops : Verdict(o)' = Verdict(o)
    BY <1>3, <1>5, <1>6 DEF Verdict
  <1>8. ASSUME NEW o \in Ops, IsAsked(o)
        PROVE  /\ Before(o)'.rev <= Current(o)'.rev
               /\ Before(o)'.rev = Current(o)'.rev => Before(o)'.state = Current(o)'.state
               /\ ~AsReviewed(o) => ~AsReviewed(o)'
    <2>1. /\ Before(o).rev <= Current(o).rev
          /\ Before(o).rev = Current(o).rev => Before(o).state = Current(o).state
      BY <1>8 DEF IInv, RowsAgree
    <2>. QED  BY <1>3, <1>6, <1>8, <2>1 DEF AsReviewed
  <1>9. SlotAgrees'
    BY <1>1 DEF IInv, SlotAgrees
  <1>10. RowsAgree'
    <2>. SUFFICES ASSUME NEW o \in Ops
         PROVE  /\ IsAsked(o)' => /\ Before(o)'.rev <= Current(o)'.rev
                                  /\ Before(o)'.rev = Current(o)'.rev => Before(o)'.state = Current(o)'.state
                /\ Phase(o)' # "none" => IsAsked(o)' /\ Before(o)'.state = "draft"
                /\ Marked(o)' => Verdict(o)' = "applied"
                /\ Verdict(o)' \in Ended => ~AsReviewed(o)'
      BY DEF RowsAgree
    <2>1. Verdict(o) \in Ended => Phase(o) # "none"
      BY DEF Verdict, Ended
    <2>2. /\ Phase(o) # "none" => IsAsked(o) /\ Before(o).state = "draft"
          /\ Marked(o) => Verdict(o) = "applied"
          /\ Verdict(o) \in Ended => ~AsReviewed(o)
      BY DEF IInv, RowsAgree
    <2>. QED  BY <1>3, <1>4, <1>7, <1>8, <2>1, <2>2
  <1>11. Kept
    BY <1>1, <1>3, <1>7, <1>8 DEF Kept
  <1>12. \A d \in Callers : CallerAgrees(d)'
    BY <1>1, <1>4, <1>11, OthersKeep
  <1>. QED  BY <1>7, <1>9, <1>10, <1>11, <1>12 DEF Shared, CallersAgree

\* A request reviews rows that exist; nothing of its operation exists yet.
LEMMA ReviewStep ==
  ASSUME IInv, NEW o \in Ops, NEW p \in Pages, Review(o, p)
  PROVE  Shared' /\ CallersAgree' /\ Kept /\ \A q \in Ops : Verdict(q)' = Verdict(q)
  <1>1. /\ ~IsAsked(o) /\ asked' = [asked EXCEPT ![o] = [page |-> p, row |-> page[p]]]
        /\ UNCHANGED <<page, slot, archive, caller>>
    BY DEF Review, IsAsked
  <1>2. /\ asked'[o] = [page |-> p, row |-> page[p]]
        /\ \A q \in Ops \ {o} : asked'[q] = asked[q]
    BY <1>1 DEF IInv, TypeOK
  <1>3. ASSUME NEW q \in Ops, q # o
        PROVE  /\ IsAsked(q)' = IsAsked(q) /\ Before(q)' = Before(q) /\ Current(q)' = Current(q)
    BY <1>1, <1>2, <1>3 DEF IsAsked, Before, Current
  <1>4. \A q \in Ops : Phase(q)' = Phase(q)
    BY <1>1 DEF Phase
  <1>5. IsAsked(o) \/ Phase(o) = "none"
    BY DEF IInv, RowsAgree
  <1>6. Before(o)' = page[p] /\ Current(o)' = page[p]
    BY <1>1, <1>2 DEF Before, Current
  <1>7. IsAsked(o)'
    BY <1>2 DEF IsAsked, Unasked
  <1>8. Verdict(o)' = "open" /\ Verdict(o) = "open"
    BY <1>1, <1>4, <1>5 DEF Verdict, Ended
  <1>9. \A q \in Ops : Verdict(q)' = Verdict(q)
    BY <1>3, <1>4, <1>8 DEF Verdict
  <1>10. ASSUME NEW q \in Ops PROVE Marked(q)' => Marked(q)
    <2>. SUFFICES ASSUME Marked(q)' PROVE Marked(q)
      OBVIOUS
    <2>1. CASE \E r \in Pages : page'[r].op = q
      BY <1>1, <2>1 DEF Marked
    <2>2. CASE \E r \in Ops : IsAsked(r)' /\ Before(r)'.op = q
      <3>1. PICK r \in Ops : IsAsked(r)' /\ Before(r)'.op = q
        BY <2>2
      <3>2. CASE r = o
        BY <3>1, <3>2, <1>6 DEF Marked
      <3>3. CASE r # o
        BY <3>1, <3>3, <1>3 DEF Marked
      <3>. QED  BY <3>2, <3>3
    <2>. QED  BY <2>1, <2>2 DEF Marked
  <1>11. SlotAgrees'
    BY <1>1 DEF IInv, SlotAgrees
  <1>12. RowsAgree'
    <2>. SUFFICES ASSUME NEW q \in Ops
         PROVE  /\ IsAsked(q)' => /\ Before(q)'.rev <= Current(q)'.rev
                                  /\ Before(q)'.rev = Current(q)'.rev => Before(q)'.state = Current(q)'.state
                /\ Phase(q)' # "none" => IsAsked(q)' /\ Before(q)'.state = "draft"
                /\ Marked(q)' => Verdict(q)' = "applied"
                /\ Verdict(q)' \in Ended => ~AsReviewed(q)'
      BY DEF RowsAgree
    <2>1. Marked(q)' => Verdict(q)' = "applied"
      BY <1>9, <1>10 DEF IInv, RowsAgree
    <2>2. CASE q = o
      <3>1. page[p].rev <= page[p].rev
        BY DEF IInv, TypeOK, Row
      <3>. QED  BY <1>1, <1>4, <1>5, <1>6, <1>8, <2>1, <2>2, <3>1 DEF Ended
    <2>3. CASE q # o
      BY <1>3, <1>4, <1>9, <2>1, <2>3 DEF IInv, RowsAgree, AsReviewed
    <2>. QED  BY <2>2, <2>3
  <1>13. Kept
    BY <1>1, <1>2, <1>3, <1>4, <1>9 DEF Kept, AsReviewed
  <1>14. \A d \in Callers : CallerAgrees(d)'
    BY <1>1, <1>10, <1>13, OthersKeep
  <1>. QED  BY <1>9, <1>11, <1>12, <1>13, <1>14 DEF Shared, CallersAgree

-----------------------------------------------------------------------------
(* Steps that write slot, receipts or the page *)

\* The receipt that is saved is the one the slot holds, or is there already.
LEMMA SaveReceiptStep ==
  ASSUME IInv, NEW c \in Callers, SaveReceipt(c)
  PROVE  Shared' /\ CallersAgree' /\ Kept /\ Same
  <1> DEFINE ended == caller[c].seen
  <1>1. /\ caller[c].pc = "save" /\ ended.op \in Ops /\ ended.phase \in Ended
        /\ slot = ended \/ archive[ended.op] = ended.phase
        /\ ended.op # caller[c].op
    BY DEF SaveReceipt, IInv, CallersAgree, CallerAgrees, Replaces
  <1>2. archive[ended.op] \in {"none", ended.phase}
    BY <1>1 DEF IInv, SlotAgrees
  <1>3. /\ archive' = [archive EXCEPT ![ended.op] = ended.phase]
        /\ Goto(c, "install") /\ UNCHANGED <<page, asked, slot>>
    <2>1. archive' = [archive EXCEPT ![ended.op] = ended.phase]
      BY <1>1, <1>2 DEF SaveReceipt, IInv, TypeOK
    <2>2. archive'[ended.op] = ended.phase
      BY <1>1, <2>1 DEF IInv, TypeOK
    <2>. QED  BY <2>1, <2>2 DEF SaveReceipt
  <1>4. \A q \in Ops : archive'[q] = IF q = ended.op THEN ended.phase ELSE archive[q]
    BY <1>1, <1>3 DEF IInv, TypeOK
  <1>5. \A q \in Ops : archive[q] # "none" => archive'[q] = archive[q]
    BY <1>2, <1>4
  <1>6. \A q \in Ops : /\ IsAsked(q)' = IsAsked(q) /\ Before(q)' = Before(q)
                       /\ Current(q)' = Current(q) /\ AsReviewed(q)' = AsReviewed(q)
                       /\ Phase(q)' = Phase(q)
    BY <1>1, <1>3, <1>4 DEF IsAsked, Before, Current, AsReviewed, Phase
  <1>7. \A q \in Ops : Verdict(q)' = Verdict(q)
    BY <1>6 DEF Verdict
  <1>8. \A q \in Ops : Marked(q)' = Marked(q)
    BY <1>3, <1>6 DEF Marked
  <1>9. SlotAgrees'
    <2>1. slot \in Record /\ SlotAgrees
      BY DEF IInv, TypeOK
    <2>2. slot.phase \in {"prepared", "applying"} => slot.op # ended.op
      BY <1>1, <2>1 DEF SlotAgrees, Ended
    <2>3. slot.op = ended.op /\ slot.phase \in Ended => slot.phase = ended.phase
      <3>1. slot = ended \/ (slot.op = ended.op /\ slot.phase \in Ended => archive[slot.op] = slot.phase)
        BY <1>1, <2>1 DEF SlotAgrees, Ended
      <3>. QED  BY <1>1, <3>1
    <2>4. slot.op \in Ops \/ slot = NoRecord
      BY <2>1 DEF SlotAgrees
    <2>. QED  BY <1>3, <1>4, <2>1, <2>2, <2>3, <2>4 DEF SlotAgrees, NoRecord, Ended
  <1>10. RowsAgree'
    BY <1>6, <1>7, <1>8 DEF IInv, RowsAgree
  <1>11. Kept
    BY <1>3, <1>5, <1>6, <1>7 DEF Kept
  <1>12. /\ caller'[c].pc = "install" /\ caller'[c].op = caller[c].op /\ caller'[c].seen = ended
         /\ \A d \in Callers \ {c} : caller'[d] = caller[d]
    BY <1>3 DEF IInv, TypeOK, Goto
  <1>13. ASSUME NEW d \in Callers PROVE CallerAgrees(d)'
    <2>1. CallerAgrees(d) /\ caller'[d].op = caller[d].op /\ caller'[d].seen = caller[d].seen
      BY <1>12 DEF IInv, CallersAgree
    <2>2. caller'[d].pc # "idle" => /\ caller[d].op \in Ops /\ IsAsked(caller[d].op)
      BY <1>1, <1>12, <2>1 DEF CallerAgrees
    <2>3. d # c => caller'[d] = caller[d]
      BY <1>12
    <2>4. Replaces(d)'
      <3>1. Replaces(d)
        BY <2>1 DEF CallerAgrees
      <3>2. caller[d].seen.op \in Ops /\ archive[caller[d].seen.op] = caller[d].seen.phase
               /\ caller[d].seen.phase \in Ended
            => archive'[caller[d].seen.op] = caller[d].seen.phase
        BY <1>5 DEF Ended
      <3>3. ASSUME caller[d].pc \in {"save", "install"}, slot = caller[d].seen
            PROVE  archive'[caller[d].op] = "none"
        <4>1. archive[caller[d].op] = "none" /\ caller[d].seen.op # caller[d].op /\ caller[d].op \in Ops
          BY <3>1, <3>3, <2>1 DEF Replaces, CallerAgrees
        <4>2. caller[d].op # ended.op
          BY <1>1, <3>3, <4>1 DEF Ended
        <4>. QED  BY <1>4, <4>1, <4>2
      <3>4. CASE d = c
        BY <1>1, <1>3, <1>4, <1>6, <1>12, <2>1, <2>2, <3>1, <3>3, <3>4 DEF Replaces, CallerAgrees
      <3>5. CASE d # c
        BY <1>3, <1>6, <2>1, <2>2, <2>3, <3>1, <3>2, <3>3, <3>5 DEF Replaces
      <3>. QED  BY <3>4, <3>5
    <2>5. Works(d)' /\ Looks(d)'
      <3>1. CASE d = c
        BY <1>12, <3>1 DEF Works, Looks
      <3>2. CASE d # c
        BY <1>3, <1>6, <1>7, <1>8, <1>12, <2>1, <2>2, <2>3, <3>2 DEF Works, Looks, CallerAgrees
      <3>. QED  BY <3>1, <3>2
    <2>. QED  BY <1>6, <1>12, <2>1, <2>2, <2>3, <2>4, <2>5 DEF CallerAgrees
  <1>. QED  BY <1>3, <1>7, <1>9, <1>10, <1>11, <1>13 DEF Shared, CallersAgree, Same

\* A record is put into the slot when the one it replaces is archived or of
\* the same operation, and no other caller is at work.
LEMMA SwapStep ==
  ASSUME IInv, NEW c \in Callers, NEW o \in Ops, NEW ph \in Phases \ {"none"},
         UNCHANGED <<page, asked, archive>>, slot' = [op |-> o, phase |-> ph],
         IsAsked(o), Before(o).state = "draft", archive[o] = "none",
         slot.op = o => slot.phase \in {"prepared", "applying"},
         slot.op = o \/ slot = NoRecord \/ archive[slot.op] = slot.phase,
         \/ Verdict(o)' = Verdict(o)
         \/ ~AsReviewed(o) /\ ~Marked(o) /\ Verdict(o) = "open",
         \A d \in Callers \ {c} : /\ caller'[d] = caller[d]
                                  /\ caller[d].pc \notin {"update", "refuse"}
  PROVE  /\ Shared' /\ Kept /\ \A q \in Ops : Marked(q)' = Marked(q)
         /\ \A q \in Ops \ {o} : Verdict(q)' = Verdict(q)
         /\ \A d \in Callers \ {c} : CallerAgrees(d)'
  <1>0. /\ slot \in Record /\ SlotAgrees /\ TypeOK
        /\ slot = NoRecord \/ (slot.op \in Ops /\ slot.phase # "none")
    BY DEF IInv, TypeOK, SlotAgrees
  <1>1. \A q \in Ops : /\ IsAsked(q)' = IsAsked(q) /\ Before(q)' = Before(q)
                       /\ Current(q)' = Current(q) /\ AsReviewed(q)' = AsReviewed(q)
    BY DEF IsAsked, Before, Current, AsReviewed
  <1>2. \A q \in Ops : Marked(q)' = Marked(q)
    BY <1>1 DEF Marked
  <1>3. Phase(o)' = ph /\ Phase(o) \in {"none", "prepared", "applying"}
    BY DEF Phase
  <1>4. ASSUME NEW q \in Ops, q # o PROVE Phase(q)' = Phase(q)
    BY <1>4, PageChangeAssumption DEF Phase, NoRecord
  <1>5. ASSUME NEW q \in Ops, q # o PROVE Verdict(q)' = Verdict(q)
    BY <1>1, <1>4, <1>5 DEF Verdict
  <1>6. SlotAgrees'
    BY <1>0, PageChangeAssumption DEF SlotAgrees, Phases, Ended
  <1>7. RowsAgree'
    <2>. SUFFICES ASSUME NEW q \in Ops
         PROVE  /\ IsAsked(q)' => /\ Before(q)'.rev <= Current(q)'.rev
                                  /\ Before(q)'.rev = Current(q)'.rev => Before(q)'.state = Current(q)'.state
                /\ Phase(q)' # "none" => IsAsked(q)' /\ Before(q)'.state = "draft"
                /\ Marked(q)' => Verdict(q)' = "applied"
                /\ Verdict(q)' \in Ended => ~AsReviewed(q)'
      BY DEF RowsAgree
    <2>1. /\ IsAsked(q) => /\ Before(q).rev <= Current(q).rev
                           /\ Before(q).rev = Current(q).rev => Before(q).state = Current(q).state
          /\ Phase(q) # "none" => IsAsked(q) /\ Before(q).state = "draft"
          /\ Marked(q) => Verdict(q) = "applied"
          /\ Verdict(q) \in Ended => ~AsReviewed(q)
      BY DEF IInv, RowsAgree
    <2>2. CASE q = o
      BY <1>1, <1>2, <2>1, <2>2
    <2>3. CASE q # o
      BY <1>1, <1>2, <1>4, <1>5, <2>1, <2>3
    <2>. QED  BY <2>2, <2>3
  <1>8. Kept
    <2>. SUFFICES ASSUME NEW q \in Ops
         PROVE  /\ IsAsked(q) => asked'[q] = asked[q] /\ (~AsReviewed(q) => ~AsReviewed(q)')
                /\ Phase(q) # "none" => Phase(q)' # "none"
                /\ Phase(q) = "applied" => Phase(q)' = "applied"
                /\ Verdict(q) \in Ended => Verdict(q)' = Verdict(q)
                /\ archive[q] # "none" => archive'[q] = archive[q]
      BY DEF Kept
    <2>2. CASE q = o
      BY <1>1, <1>3, <2>2 DEF Ended
    <2>3. CASE q # o
      BY <1>1, <1>4, <1>5, <2>3
    <2>. QED  BY <2>2, <2>3
  <1>9. ASSUME NEW d \in Callers \ {c} PROVE CallerAgrees(d)'
    <2>1. CallerAgrees(d) /\ caller'[d] = caller[d] /\ caller[d].pc \notin {"update", "refuse"}
      BY DEF IInv, CallersAgree
    <2>2. caller[d].pc # "idle" => caller[d].op \in Ops /\ IsAsked(caller[d].op)
      BY <2>1 DEF CallerAgrees
    <2>3. Replaces(d)'
      <3>1. Replaces(d)
        BY <2>1 DEF CallerAgrees
      <3>2. caller[d].pc \in {"page", "save", "install"} =>
              \/ caller[d].seen = NoRecord
              \/ /\ caller[d].seen.op \in Ops /\ caller[d].seen.phase \in Ended
                 /\ archive[caller[d].seen.op] = caller[d].seen.phase
        BY <3>1, PageChangeAssumption DEF Replaces, NoRecord, Ended
      <3>3. caller[d].pc \in {"page", "save", "install"} => slot' # caller[d].seen
        BY <3>2, PageChangeAssumption DEF NoRecord, Ended
      <3>. QED  BY <1>1, <2>1, <2>2, <3>1, <3>2, <3>3 DEF Replaces
    <2>4. Works(d)'
      BY <2>1 DEF Works, CallerAgrees
    <2>5. Looks(d)'
      BY <1>8, <2>1, <2>2 DEF Looks, CallerAgrees, Kept, Ended
    <2>. QED  BY <1>1, <2>1, <2>2, <2>3, <2>4, <2>5 DEF CallerAgrees
  <1>. QED  BY <1>2, <1>5, <1>6, <1>7, <1>8, <1>9 DEF Shared

LEMMA InstallStep ==
  ASSUME IInv, NEW c \in Callers, Install(c)
  PROVE  Shared' /\ CallersAgree' /\ Kept /\ Same
  <1>0. PICK o \in Ops : o = caller[c].op /\ IsAsked(o)
    BY DEF Install, IInv, CallersAgree, CallerAgrees
  <1>1. /\ caller[c].pc = "install" /\ Return(c) /\ UNCHANGED <<page, asked, archive>>
        /\ slot' = IF slot = caller[c].seen THEN [op |-> o, phase |-> "prepared"] ELSE slot
    BY <1>0 DEF Install, Swap
  <1>2. CASE slot # caller[c].seen
    BY <1>1, <1>2, ReturnStep DEF Silent
  <1>3. CASE slot = caller[c].seen
    <2>1. /\ Before(o).state = "draft" /\ archive[o] = "none" /\ slot.op # o
          /\ slot = NoRecord \/ archive[slot.op] = slot.phase
          /\ slot = NoRecord \/ slot.phase \in Ended
      BY <1>0, <1>1, <1>3 DEF IInv, CallersAgree, CallerAgrees, Replaces
    <2>2. slot' = [op |-> o, phase |-> "prepared"] /\ "prepared" \in Phases \ {"none"}
      BY <1>1, <1>3 DEF Phases
    <2>3. Phase(o) = "none" /\ Phase(o)' = "prepared"
      BY <2>1, <2>2 DEF Phase
    <2>4. Verdict(o)' = Verdict(o)
      BY <2>3 DEF Verdict, Ended
    <2>5. ASSUME NEW d \in Callers \ {c}
          PROVE  caller'[d] = caller[d] /\ caller[d].pc \notin {"update", "refuse"}
      <3>1. slot.phase # "applying"
        BY <2>1 DEF NoRecord, Ended
      <3>2. Works(d)
        BY DEF IInv, CallersAgree, CallerAgrees
      <3>3. caller[d].pc \notin {"update", "refuse"}
        BY <3>1, <3>2 DEF Works
      <3>. QED  BY <1>1, <3>3, ReturnAgrees DEF IInv
    <2>6. /\ Shared' /\ Kept /\ \A d \in Callers \ {c} : CallerAgrees(d)'
          /\ \A q \in Ops \ {o} : Verdict(q)' = Verdict(q)
      BY <1>0, <1>1, <2>1, <2>2, <2>4, <2>5, SwapStep
    <2>. QED  BY <1>1, <2>4, <2>6, ReturnAgrees DEF CallersAgree, IInv, Same
  <1>. QED  BY <1>2, <1>3

\* Nothing of a prepared change is visible, and nobody else is at work.
LEMMA ClaimStep ==
  ASSUME IInv, NEW c \in Callers, Claim(c)
  PROVE  Shared' /\ CallersAgree' /\ Kept /\ Same
  <1>0. PICK o \in Ops : o = caller[c].op /\ IsAsked(o)
    BY DEF Claim, IInv, CallersAgree, CallerAgrees
  <1>1. /\ caller[c].pc = "claim" /\ UNCHANGED <<page, asked, archive>>
        /\ slot' = IF slot = caller[c].seen THEN [op |-> o, phase |-> "applying"] ELSE slot
    BY <1>0 DEF Claim, Swap
  <1>2. CASE slot # caller[c].seen
    BY <1>1, <1>2, ReturnStep DEF Silent, Claim
  <1>3. CASE slot = caller[c].seen
    <2>1. slot = [op |-> o, phase |-> "prepared"]
      BY <1>0, <1>1, <1>3 DEF IInv, CallersAgree, CallerAgrees, Works
    <2>2. Phase(o) = "prepared" /\ archive[o] = "none" /\ Before(o).state = "draft"
      BY <1>0, <2>1 DEF Phase, IInv, SlotAgrees, RowsAgree
    <2>3. Verdict(o) = "open" /\ ~Marked(o)
      BY <1>0, <2>2 DEF Verdict, Ended, IInv, RowsAgree
    <2>4. /\ caller' = [caller EXCEPT ![c].pc = "update", ![c].seen = [op |-> o, phase |-> "applying"]]
          /\ slot' = [op |-> o, phase |-> "applying"] /\ "applying" \in Phases \ {"none"}
      BY <1>0, <1>1, <1>3 DEF Claim, Phases
    <2>5. /\ caller'[c] = [pc |-> "update", op |-> o, seen |-> [op |-> o, phase |-> "applying"]]
          /\ \A d \in Callers \ {c} : caller'[d] = caller[d]
      BY <1>0, <2>4 DEF IInv, TypeOK
    <2>6. Current(o).op # o
      BY <1>0, <2>3, RowTyped DEF Current, Marked, IInv
    <2>7. Verdict(o)' = Verdict(o)
      <3>1. Phase(o)' = "applying" /\ Current(o)' = Current(o)
        BY <1>1, <2>4 DEF Phase, Current
      <3>. QED  BY <2>3, <2>6, <3>1 DEF Verdict, Ended
    <2>8. \A d \in Callers \ {c} : caller'[d] = caller[d] /\ caller[d].pc \notin {"update", "refuse"}
      BY <2>1, <2>5 DEF IInv, CallersAgree, CallerAgrees, Works
    <2>9. /\ Shared' /\ Kept /\ \A d \in Callers \ {c} : CallerAgrees(d)'
          /\ \A q \in Ops : Marked(q)' = Marked(q)
          /\ \A q \in Ops \ {o} : Verdict(q)' = Verdict(q)
      BY <1>0, <1>1, <2>1, <2>2, <2>4, <2>7, <2>8, SwapStep
    <2>10. CallerAgrees(c)'
      <3>1. IsAsked(o)' /\ ~Marked(o)'
        BY <1>0, <1>1, <2>3, <2>9 DEF IsAsked
      <3>2. caller'[c].op = o
        BY <2>5
      <3>3. IsAsked(caller[c].op)' /\ ~Marked(caller[c].op)'
        BY <3>1, <3>2 DEF IsAsked, Marked
      <3>4. Works(c)'
        <4>1. caller'[c].pc = "update" /\ caller'[c].seen = slot'
          BY <2>4, <2>5
        <4>2. \A d \in Callers : caller'[d].pc \in {"update", "refuse"} => d = c
          BY <2>8
        <4>. QED  BY <2>4, <3>2, <3>3, <4>1, <4>2 DEF Works
      <3>. QED  BY <1>0, <2>5, <3>2, <3>3, <3>4 DEF CallerAgrees, Replaces, Looks
    <2>. QED  BY <1>1, <2>7, <2>9, <2>10 DEF CallersAgree, Same
  <1>. QED  BY <1>2, <1>3

\* Whoever was refused the update marked nothing and meets no other row.
LEMMA MarkConflictStep ==
  ASSUME IInv, NEW c \in Callers, MarkConflict(c)
  PROVE  /\ Shared' /\ CallersAgree' /\ Kept
         /\ \E o \in Ops :
               /\ o = caller[c].op /\ IsAsked(o) /\ UNCHANGED <<page, asked>>
               /\ Before(o).state = "draft" /\ ~AsReviewed(o)
               /\ slot' = [op |-> o, phase |-> "conflict"]
               /\ Verdict(o) = "open" /\ Verdict(o)' = "conflict"
               /\ \A q \in Ops \ {o} : Verdict(q)' = Verdict(q)
  <1>0. PICK o \in Ops : o = caller[c].op /\ IsAsked(o)
    BY DEF MarkConflict, IInv, CallersAgree, CallerAgrees
  <1>1. /\ caller[c].pc = "refuse" /\ UNCHANGED <<page, asked, archive>> /\ Return(c)
        /\ slot' = IF slot = caller[c].seen THEN [op |-> o, phase |-> "conflict"] ELSE slot
    BY <1>0 DEF MarkConflict, Swap
  <1>2. /\ slot = caller[c].seen /\ slot = [op |-> o, phase |-> "applying"]
        /\ ~Marked(o) /\ ~AsReviewed(o)
        /\ \A d \in Callers : caller[d].pc \in {"update", "refuse"} => d = c
    BY <1>0, <1>1 DEF IInv, CallersAgree, CallerAgrees, Works
  <1>3. Phase(o) = "applying" /\ archive[o] = "none" /\ Before(o).state = "draft"
    BY <1>0, <1>2 DEF Phase, IInv, SlotAgrees, RowsAgree
  <1>4. Verdict(o) = "open"
    BY <1>0, <1>2, <1>3, RowTyped DEF Verdict, Ended, Marked, Current, IInv
  <1>5. \A d \in Callers \ {c} : caller'[d] = caller[d] /\ caller[d].pc \notin {"update", "refuse"}
    BY <1>1, <1>2, ReturnAgrees DEF IInv
  <1>6. /\ Shared' /\ Kept /\ \A d \in Callers \ {c} : CallerAgrees(d)'
        /\ \A q \in Ops \ {o} : Verdict(q)' = Verdict(q)
    <2>1. slot' = [op |-> o, phase |-> "conflict"] /\ "conflict" \in Phases \ {"none"}
      BY <1>1, <1>2 DEF Phases, Ended
    <2>. QED  BY <1>0, <1>1, <1>2, <1>3, <1>4, <1>5, <2>1, SwapStep
  <1>7. Verdict(o)' = "conflict"
    BY <1>1, <1>2 DEF Verdict, Phase, Ended
  <1>. QED  BY <1>0, <1>1, <1>2, <1>3, <1>4, <1>6, <1>7, ReturnAgrees DEF CallersAgree, IInv

LEMMA FinishStep ==
  ASSUME IInv, NEW c \in Callers, Finish(c)
  PROVE  /\ Shared' /\ CallersAgree' /\ Kept /\ Same
         /\ slot'.phase = "applying" => slot.op # caller[c].op /\ slot' = slot
         /\ \E o \in Ops : o = caller[c].op /\ Verdict(o) = "applied"
  <1>0. PICK o \in Ops : o = caller[c].op /\ IsAsked(o)
    BY DEF Finish, IInv, CallersAgree, CallerAgrees
  <1>1. /\ caller[c].pc = "finish" /\ UNCHANGED <<page, asked, archive>> /\ Return(c)
        /\ \/ slot' = slot
           \/ /\ caller[c].seen.phase # "applied" /\ slot = caller[c].seen
              /\ slot' = [op |-> o, phase |-> "applied"]
    BY <1>0 DEF Finish, Swap
  <1>2. /\ Verdict(o) = "applied" /\ Phase(o) # "none"
        /\ caller[c].seen.op = o /\ caller[c].seen.phase \in {"applying", "applied"}
    BY <1>0, <1>1 DEF IInv, CallersAgree, CallerAgrees, Looks
  <1>3. CASE slot' = slot
    <2>1. Shared' /\ CallersAgree' /\ Kept /\ Same
      BY <1>1, <1>3, ReturnStep DEF Silent
    <2>2. slot.phase = "applying" => slot.op # o
      <3>. SUFFICES ASSUME slot.phase = "applying", slot.op = o PROVE FALSE
        OBVIOUS
      <3>1. Phase(o) = "applying"
        BY DEF Phase
      <3>2. caller[c].seen.phase = "applying"
        BY <1>1, <1>2, <3>1 DEF IInv, CallersAgree, CallerAgrees, Looks
      <3>3. slot = caller[c].seen
        BY <1>2, <3>2 DEF IInv, TypeOK, Record
      <3>. QED  BY <1>0, <1>1, <1>3, <3>2, <3>3 DEF Finish, Swap
    <2>. QED  BY <1>0, <1>2, <1>3, <2>1, <2>2
  <1>4. CASE /\ caller[c].seen.phase # "applied" /\ slot = caller[c].seen
             /\ slot' = [op |-> o, phase |-> "applied"]
    <2>1. slot.op = o /\ slot.phase = "applying"
      BY <1>2, <1>4
    <2>2. Phase(o) = "applying" /\ archive[o] = "none" /\ Before(o).state = "draft"
      BY <1>0, <1>2, <2>1 DEF Phase, IInv, SlotAgrees, RowsAgree
    <2>3. Current(o).op = o
      BY <1>2, <2>2 DEF Verdict, Ended
    <2>4. Marked(o)
      BY <1>0, <2>3, RowTyped DEF IInv, Marked, Current
    <2>5. Verdict(o)' = Verdict(o)
      BY <1>2, <1>4 DEF Verdict, Phase, Ended
    <2>6. ASSUME NEW d \in Callers \ {c}
          PROVE  caller'[d] = caller[d] /\ caller[d].pc \notin {"update", "refuse"}
      <3>1. Works(d)
        BY DEF IInv, CallersAgree, CallerAgrees
      <3>2. caller[d].pc \in {"update", "refuse"} => caller[d].op = o
        BY <2>1, <3>1 DEF Works
      <3>3. caller[d].pc \notin {"update", "refuse"}
        BY <2>4, <3>1, <3>2 DEF Works
      <3>. QED  BY <1>1, <3>3, ReturnAgrees DEF IInv
    <2>7. /\ Shared' /\ Kept /\ \A d \in Callers \ {c} : CallerAgrees(d)'
          /\ \A q \in Ops \ {o} : Verdict(q)' = Verdict(q)
      <3>1. "applied" \in Phases \ {"none"}
        BY DEF Phases, Ended
      <3>. QED  BY <1>0, <1>1, <1>4, <2>1, <2>2, <2>5, <2>6, <3>1, SwapStep
    <2>. QED  BY <1>0, <1>1, <1>2, <1>4, <2>5, <2>7, ReturnAgrees DEF CallersAgree, IInv, Same
  <1>. QED  BY <1>1, <1>3, <1>4

\* The row is exactly as reviewed and nobody else is at work: the mark is new.
LEMMA UpdateStep ==
  ASSUME IInv, NEW c \in Callers, Update(c)
  PROVE  /\ Shared' /\ CallersAgree' /\ Kept
         /\ \/ Silent
            \/ \E o \in Ops : /\ IsAsked(o) /\ Before(o).state = "draft" /\ AsReviewed(o)
                              /\ Verdict(o) = "open" /\ Verdict(o)' = "applied"
                              /\ page' = [page EXCEPT ![asked[o].page] = After(o)]
                              /\ UNCHANGED <<asked, slot, archive>>
                              /\ \A q \in Ops \ {o} : Verdict(q)' = Verdict(q)
  <1>0. PICK o \in Ops : o = caller[c].op /\ IsAsked(o)
    BY DEF Update, IInv, CallersAgree, CallerAgrees
  <1>1. /\ caller[c].pc = "update" /\ UNCHANGED <<asked, slot, archive>>
        /\ slot = caller[c].seen /\ slot = [op |-> o, phase |-> "applying"] /\ ~Marked(o)
        /\ \A d \in Callers : caller[d].pc \in {"update", "refuse"} => d = c
    BY <1>0 DEF Update, IInv, CallersAgree, CallerAgrees, Works
  <1>2. Phase(o) = "applying" /\ Before(o).state = "draft"
    BY <1>0, <1>1 DEF Phase, IInv, RowsAgree
  <1>3. Verdict(o) = "open"
    BY <1>0, <1>1, <1>2, RowTyped DEF Verdict, Ended, Marked, Current, IInv
  <1>4. CASE ~AsReviewed(o)
    <2>1. Goto(c, "refuse") /\ UNCHANGED page
      BY <1>0, <1>4 DEF Update, AsReviewed
    <2>2. /\ caller'[c].pc = "refuse" /\ caller'[c].op = o /\ caller'[c].seen = caller[c].seen
          /\ \A d \in Callers \ {c} : caller'[d] = caller[d]
      BY <1>0, <2>1 DEF IInv, TypeOK, Goto
    <2>3. Silent
      BY <1>1, <2>1 DEF Silent
    <2>4. IsAsked(o)' /\ ~Marked(o)' /\ ~AsReviewed(o)'
      BY <1>0, <1>1, <1>4, <2>3, SilentKeeps DEF IInv, Shared, Kept, IsAsked
    <2>5. IsAsked(caller[c].op)' /\ ~Marked(caller[c].op)' /\ ~AsReviewed(caller[c].op)'
      BY <2>2, <2>4 DEF IsAsked, Marked, AsReviewed, Current, Before
    <2>6. Works(c)'
      <3>1. \A d \in Callers : caller'[d].pc \in {"update", "refuse"} => d = c
        BY <1>1, <2>2
      <3>2. caller'[c].seen = slot' /\ slot' = [op |-> o, phase |-> "applying"]
        BY <1>1, <2>2
      <3>. QED  BY <2>2, <2>5, <3>1, <3>2 DEF Works
    <2>7. CallerAgrees(c)'
      BY <2>2, <2>5, <2>6 DEF CallerAgrees, Replaces, Looks
    <2>. QED  BY <1>1, <2>2, <2>3, <2>7, SilentStep
  <1>5. CASE AsReviewed(o)
    <2>1. Goto(c, "check") /\ page' = [page EXCEPT ![asked[o].page] = After(o)]
      BY <1>0, <1>2, <1>5 DEF Update, AsReviewed
    <2>2. /\ caller'[c].pc = "check" /\ caller'[c].op = o /\ caller'[c].seen = caller[c].seen
          /\ \A d \in Callers \ {c} : caller'[d] = caller[d]
      BY <1>0, <2>1 DEF IInv, TypeOK, Goto
    <2>3. /\ asked[o].page \in Pages /\ page[asked[o].page] = Before(o)
          /\ After(o).op = o /\ After(o).rev = Before(o).rev /\ After(o).state = Before(o).state
      BY <1>0, <1>5, RowTyped DEF IInv, AsReviewed, Current
    <2>4. /\ page'[asked[o].page] = After(o)
          /\ \A p \in Pages : p # asked[o].page => page'[p] = page[p]
      BY <2>1, <2>3 DEF IInv, TypeOK
    <2>5. \A q \in Ops : /\ IsAsked(q)' = IsAsked(q) /\ Before(q)' = Before(q) /\ Phase(q)' = Phase(q)
      BY <1>1 DEF IsAsked, Before, Phase
    <2>6. ASSUME NEW q \in Ops, IsAsked(q)
          PROVE  /\ Current(q)'.rev = Current(q).rev /\ Current(q)'.state = Current(q).state
                 /\ Current(q)' = Current(q) \/ Current(q)'.op = o
      <3>1. Current(q)' = page'[asked[q].page] /\ asked[q].page \in Pages
        BY <1>1, <2>6, RowTyped DEF IInv, Current
      <3>. QED  BY <2>3, <2>4, <3>1 DEF Current
    <2>7. ASSUME NEW q \in Ops, q # o PROVE Marked(q)' => Marked(q)
      <3>1. ASSUME NEW p \in Pages, page'[p].op = q PROVE page[p].op = q
        BY <2>3, <2>4, <2>7, <3>1
      <3>. QED  BY <2>5, <3>1 DEF Marked
    <2>8. ASSUME NEW q \in Ops, q # o PROVE Verdict(q)' = Verdict(q)
      <3>1. Phase(q) # "applying"
        BY <1>1, <2>8 DEF IInv, TypeOK, Phase, Ended
      <3>. QED  BY <2>5, <3>1 DEF Verdict
    <2>9. Verdict(o)' = "applied"
      <3>1. Current(o)'.op = o
        BY <1>1, <2>3, <2>4 DEF Current
      <3>. QED  BY <1>2, <2>5, <3>1 DEF Verdict, Ended
    <2>10. ASSUME NEW q \in Ops, IsAsked(q) PROVE AsReviewed(q)' => AsReviewed(q) /\ q # o
      <3>. SUFFICES ASSUME AsReviewed(q)' PROVE AsReviewed(q) /\ q # o
        OBVIOUS
      <3>1. Before(q).op # o
        BY <1>1, <2>10 DEF Marked
      <3>2. Current(q)' = Before(q)
        BY <2>5 DEF AsReviewed
      <3>3. Current(o)'.op = o
        BY <1>1, <2>3, <2>4 DEF Current
      <3>. QED  BY <2>6, <2>10, <3>1, <3>2, <3>3 DEF AsReviewed
    <2>11. SlotAgrees'
      BY <1>1 DEF IInv, SlotAgrees
    <2>12. RowsAgree'
      <3>. SUFFICES ASSUME NEW q \in Ops
           PROVE  /\ IsAsked(q)' => /\ Before(q)'.rev <= Current(q)'.rev
                                    /\ Before(q)'.rev = Current(q)'.rev => Before(q)'.state = Current(q)'.state
                  /\ Phase(q)' # "none" => IsAsked(q)' /\ Before(q)'.state = "draft"
                  /\ Marked(q)' => Verdict(q)' = "applied"
                  /\ Verdict(q)' \in Ended => ~AsReviewed(q)'
        BY DEF RowsAgree
      <3>1. /\ IsAsked(q) => /\ Before(q).rev <= Current(q).rev
                             /\ Before(q).rev = Current(q).rev => Before(q).state = Current(q).state
            /\ Phase(q) # "none" => IsAsked(q) /\ Before(q).state = "draft"
            /\ Marked(q) => Verdict(q) = "applied"
            /\ Verdict(q) \in Ended => ~AsReviewed(q)
        BY DEF IInv, RowsAgree
      <3>2. Verdict(q) \in Ended => IsAsked(q)
        BY <3>1 DEF Verdict, Ended
      <3>3. Marked(q)' => Verdict(q)' = "applied"
        BY <2>7, <2>8, <2>9, <3>1
      <3>4. Verdict(q)' \in Ended => ~AsReviewed(q)'
        BY <1>0, <2>8, <2>10, <3>1, <3>2
      <3>. QED  BY <2>5, <2>6, <3>1, <3>3, <3>4
    <2>13. Kept
      BY <1>1, <1>3, <2>5, <2>8, <2>10 DEF Kept, Ended
    <2>14. ASSUME NEW d \in Callers PROVE CallerAgrees(d)'
      <3>1. /\ CallerAgrees(d) /\ caller'[d].op = caller[d].op /\ caller'[d].seen = caller[d].seen
            /\ d # c => caller'[d] = caller[d] /\ caller[d].pc \notin {"update", "refuse"}
        BY <1>0, <1>1, <2>2 DEF IInv, CallersAgree
      <3>2. caller'[d].pc # "idle" => caller[d].op \in Ops /\ IsAsked(caller[d].op)
        BY <1>0, <2>2, <3>1 DEF CallerAgrees
      <3>3. Replaces(d)' /\ Works(d)'
        <4>1. CASE d = c
          BY <2>2, <4>1 DEF Replaces, Works
        <4>2. CASE d # c
          BY <1>1, <2>5, <3>1, <3>2, <4>2 DEF Replaces, Works, CallerAgrees
        <4>. QED  BY <4>1, <4>2
      <3>4. Looks(d)'
        <4>1. CASE d = c
          BY <1>0, <1>1, <1>2, <2>2, <2>5, <4>1 DEF Looks
        <4>2. CASE d # c
          BY <2>13, <3>1, <3>2, <4>2 DEF Looks, CallerAgrees, Kept, Ended
        <4>. QED  BY <4>1, <4>2
      <3>. QED  BY <2>5, <2>2, <3>1, <3>2, <3>3, <3>4 DEF CallerAgrees
    <2>. QED  BY <1>0, <1>1, <1>2, <1>3, <1>5, <2>1, <2>8, <2>9, <2>11, <2>12, <2>13, <2>14
              DEF Shared, CallersAgree
  <1>. QED  BY <1>4, <1>5

-----------------------------------------------------------------------------
(* All steps together *)

LEMMA InitInvariant == Init => IInv /\ AnswersAreTrue /\ InHand
  <1>. SUFFICES ASSUME Init PROVE IInv /\ AnswersAreTrue /\ InHand
    OBVIOUS
  <1>1. TypeOK
    BY DEF Init, TypeOK, Row, Unasked, NoRecord, Record, Phases, Idle
  <1>2. SlotAgrees
    BY DEF Init, SlotAgrees, NoRecord, Ended
  <1>3. \A o \in Ops : ~IsAsked(o) /\ Phase(o) = "none" /\ ~Marked(o) /\ Verdict(o) = "open"
    <2>. TAKE o \in Ops
    <2>1. ~IsAsked(o) /\ Phase(o) = "none"
      BY DEF Init, IsAsked, Phase, NoRecord
    <2>2. ~Marked(o)
      BY PageChangeAssumption DEF Init, IsAsked, Marked
    <2>. QED  BY <2>1, <2>2 DEF Verdict, Ended
  <1>4. RowsAgree
    BY <1>3 DEF RowsAgree, Ended
  <1>5. CallersAgree
    BY DEF Init, CallersAgree, CallerAgrees, Replaces, Works, Looks, Idle
  <1>6. AnswersAreTrue /\ InHand
    BY DEF Init, AnswersAreTrue, InHand, NoRecord
  <1>. QED  BY <1>1, <1>2, <1>4, <1>5, <1>6 DEF IInv

LEMMA CrashStep ==
  ASSUME IInv, NEW c \in Callers, Crash(c)
  PROVE  Shared' /\ CallersAgree' /\ Kept /\ Same
  BY ReturnStep DEF Crash, Silent

\* Status() and stuttering change nothing but what clients know.
LEMMA TellStep ==
  ASSUME IInv, Silent, UNCHANGED caller
  PROVE  Shared' /\ CallersAgree' /\ Kept /\ Same
  <1>1. Shared' /\ Kept /\ Same /\ \A o \in Ops : Marked(o)' = Marked(o)
    BY SilentKeeps DEF IInv, Shared
  <1>2. ASSUME NEW d \in Callers PROVE CallerAgrees(d)'
    BY <1>1, OthersKeep DEF Silent
  <1>. QED  BY <1>1, <1>2 DEF CallersAgree

LEMMA NextStep ==
  ASSUME IInv, [Next]_vars
  PROVE  IInv' /\ Kept
  <1>t. TypeOK'
    BY TypeStep
  <1>. SUFFICES Shared' /\ CallersAgree' /\ Kept
    BY <1>t DEF IInv, Shared
  <1>1. ASSUME NEW c \in Callers, Step(c) PROVE Shared' /\ CallersAgree' /\ Kept
    BY <1>1, ReadSlotStep, ReadPageStep, SaveReceiptStep, InstallStep, ClaimStep, UpdateStep,
       MarkConflictStep, CheckStep, FinishStep, CrashStep DEF Step
  <1>2. ASSUME NEW o \in Ops, Status(o) PROVE Shared' /\ CallersAgree' /\ Kept
    BY <1>2, TellStep DEF Status, Silent
  <1>3. CASE UNCHANGED vars
    BY <1>3, TellStep DEF vars, Silent
  <1>. QED
    BY <1>1, <1>2, <1>3, EditStep, ReviewStep, BeginStep, ExecuteStep DEF Next

LEMMA Invariance == Spec => []IInv
  <1>1. IInv /\ [Next]_vars => IInv'
    BY NextStep
  <1>. QED  BY InitInvariant, <1>1, PTL DEF Spec

-----------------------------------------------------------------------------
(* What is proved of the page change *)

LEMMA InitImplements == Init => Promise!Init
  <1>. SUFFICES ASSUME Init PROVE Promise!Init
    OBVIOUS
  <1>1. ASSUME NEW o \in Ops PROVE Verdict(o) = "open"
    <2>1. Phase(o) = "none"
      BY DEF Init, Phase, NoRecord
    <2>. QED  BY <2>1 DEF Verdict, Ended
  <1>. QED  BY <1>1 DEF Init, Promise!Init, Unasked, Promise!Unasked

\* A step that changes no row, request or verdict is a stutter.
LEMMA SameStutters == Same => UNCHANGED Promise!vars
  <1>. SUFFICES ASSUME Same PROVE UNCHANGED Promise!vars
    OBVIOUS
  <1>1. [o \in Ops |-> Verdict(o)]' = [o \in Ops |-> Verdict(o)]
    BY DEF Same
  <1>. QED  BY <1>1 DEF Same, Promise!vars

LEMMA VerdictsMove ==
  ASSUME NEW o \in Ops, NEW v, Verdict(o)' = v, \A q \in Ops \ {o} : Verdict(q)' = Verdict(q)
  PROVE  [q \in Ops |-> Verdict(q)]' = [[q \in Ops |-> Verdict(q)] EXCEPT ![o] = v]
  OBVIOUS

LEMMA StepImplements == IInv /\ [Next]_vars => [Promise!Next]_(Promise!vars)
  <1>. SUFFICES ASSUME IInv, [Next]_vars PROVE [Promise!Next]_(Promise!vars)
    OBVIOUS
  <1>1. ASSUME NEW p \in Pages, NEW s \in {"draft", "published", "deleted", "gone"}, Edit(p, s)
        PROVE  Promise!Next
    <2>1. [q \in Ops |-> Verdict(q)]' = [q \in Ops |-> Verdict(q)]
      BY <1>1, EditStep
    <2>2. Promise!Edit(p, s)
      BY <1>1, <2>1 DEF Edit, Promise!Edit
    <2>. QED  BY <2>2 DEF Promise!Next
  <1>2. ASSUME NEW o \in Ops, NEW p \in Pages, Review(o, p) PROVE Promise!Next
    <2>1. [q \in Ops |-> Verdict(q)]' = [q \in Ops |-> Verdict(q)]
      BY <1>2, ReviewStep
    <2>2. Promise!Review(o, p)
      BY <1>2, <2>1 DEF Review, Promise!Review, Unasked, Promise!Unasked
    <2>. QED  BY <2>2 DEF Promise!Next
  <1>3. ASSUME NEW c \in Callers, Update(c) PROVE [Promise!Next]_(Promise!vars)
    <2>1. CASE Silent
      <3>1. Same
        BY <2>1, SilentKeeps DEF IInv, Shared
      <3>. QED  BY <3>1, SameStutters
    <2>2. CASE ~Silent
      <3>1. PICK o \in Ops :
              /\ IsAsked(o) /\ Before(o).state = "draft" /\ AsReviewed(o)
              /\ Verdict(o) = "open" /\ Verdict(o)' = "applied"
              /\ page' = [page EXCEPT ![asked[o].page] = After(o)]
              /\ UNCHANGED <<asked, slot, archive>>
              /\ \A q \in Ops \ {o} : Verdict(q)' = Verdict(q)
        BY <1>3, <2>2, UpdateStep
      <3>2. page' = [page EXCEPT ![asked[o].page].op = o]
        BY <3>1 DEF AsReviewed, Current, After
      <3>3. [q \in Ops |-> Verdict(q)]' = [[q \in Ops |-> Verdict(q)] EXCEPT ![o] = "applied"]
        BY <3>1, VerdictsMove
      <3>4. Promise!Reviewed(o) /\ Promise!AsReviewed(o)
        BY <3>1 DEF IsAsked, Before, AsReviewed, Current, Unasked, Promise!Reviewed, Promise!AsReviewed,
                    Promise!Unasked
      <3>5. Promise!Apply(o)
        BY <3>1, <3>2, <3>3, <3>4 DEF Promise!Apply
      <3>. QED  BY <3>5 DEF Promise!Next
    <2>. QED  BY <2>1, <2>2
  <1>4. ASSUME NEW c \in Callers, MarkConflict(c) PROVE Promise!Next
    <2>1. PICK o \in Ops :
            /\ o = caller[c].op /\ IsAsked(o) /\ UNCHANGED <<page, asked>>
            /\ Before(o).state = "draft" /\ ~AsReviewed(o)
            /\ slot' = [op |-> o, phase |-> "conflict"]
            /\ Verdict(o) = "open" /\ Verdict(o)' = "conflict"
            /\ \A q \in Ops \ {o} : Verdict(q)' = Verdict(q)
      BY <1>4, MarkConflictStep
    <2>2. [q \in Ops |-> Verdict(q)]' = [[q \in Ops |-> Verdict(q)] EXCEPT ![o] = "conflict"]
      BY <2>1, VerdictsMove
    <2>3. Promise!Reviewed(o) /\ ~Promise!AsReviewed(o)
      BY <2>1 DEF IsAsked, Before, AsReviewed, Current, Unasked, Promise!Reviewed, Promise!AsReviewed,
                  Promise!Unasked
    <2>4. Promise!Refuse(o)
      BY <2>1, <2>2, <2>3 DEF Promise!Refuse
    <2>. QED  BY <2>4 DEF Promise!Next
  <1>5. ASSUME NEW c \in Callers, NEW o \in Ops, Begin(c, o) \/ Execute(c, o) PROVE Same
    BY <1>5, BeginStep, ExecuteStep
  <1>6. ASSUME NEW c \in Callers,
               ReadSlot(c) \/ ReadPage(c) \/ SaveReceipt(c) \/ Install(c) \/ Claim(c) \/ Check(c)
               \/ Finish(c) \/ Crash(c)
        PROVE  Same
    BY <1>6, ReadSlotStep, ReadPageStep, SaveReceiptStep, InstallStep, ClaimStep, CheckStep,
       FinishStep, CrashStep
  <1>7. ASSUME NEW o \in Ops, Status(o) PROVE Same
    BY <1>7, TellStep DEF Status, Silent
  <1>8. CASE UNCHANGED vars
    BY <1>8, TellStep, SameStutters DEF vars, Silent
  <1>. QED
    BY <1>1, <1>2, <1>3, <1>4, <1>5, <1>6, <1>7, <1>8, SameStutters DEF Next, Step

\* Slot, archive and swaps implement the checked change: no interleaving of
\* begin(), execute(), edits and crashes applies a change twice or to a row
\* that was not reviewed, refuses it without cause, or reverses a verdict.
THEOREM RefinesCheckedChange == Spec => ImplementsCheckedChanges
  BY InitImplements, StepImplements, Invariance, PTL DEF Spec, ImplementsCheckedChanges, Promise!Spec

\* What was said stays true; what is said now must be true after the step.
LEMMA AnswersKept ==
  ASSUME IInv, Kept, AnswersAreTrue,
         \A a \in told' : a \in told \/ (\E o \in Ops, v \in Ended : a = <<o, v>> /\ Verdict(o)' = v)
  PROVE  AnswersAreTrue'
  <1>. SUFFICES ASSUME NEW a \in told' PROVE Verdict(a[1])' = a[2]
    BY DEF AnswersAreTrue
  <1>1. CASE a \in told
    <2>1. PICK o \in Ops, v \in Ended : a = <<o, v>>
      BY <1>1 DEF IInv, TypeOK
    <2>2. Verdict(o) = v
      BY <1>1, <2>1 DEF AnswersAreTrue
    <2>3. Verdict(o)' = v
      BY <2>1, <2>2 DEF Kept
    <2>. QED  BY <2>1, <2>3
  <1>2. CASE \E o \in Ops, v \in Ended : a = <<o, v>> /\ Verdict(o)' = v
    BY <1>2
  <1>. QED  BY <1>1, <1>2

LEMMA AnswersStep == IInv /\ AnswersAreTrue /\ [Next]_vars => AnswersAreTrue'
  <1>. SUFFICES ASSUME IInv, AnswersAreTrue, [Next]_vars PROVE AnswersAreTrue'
    OBVIOUS
  <1>k. Kept
    BY NextStep
  <1> DEFINE True(o, v) == v \in Ended /\ Verdict(o)' = v
  <1>a. ASSUME NEW o \in Ops, NEW v, told' = told \cup {<<o, v>>}, True(o, v) PROVE AnswersAreTrue'
    <2>1. \A a \in told' : a \in told \/ (\E q \in Ops, w \in Ended : a = <<q, w>> /\ Verdict(q)' = w)
      <3>. SUFFICES ASSUME NEW a \in told', a \notin told
                    PROVE  \E q \in Ops, w \in Ended : a = <<q, w>> /\ Verdict(q)' = w
        OBVIOUS
      <3>1. a = <<o, v>> /\ v \in Ended /\ Verdict(o)' = v
        BY <1>a
      <3>. QED  BY <3>1
    <2>. QED  BY <1>k, <2>1, AnswersKept
  <1>b. ASSUME UNCHANGED told PROVE AnswersAreTrue'
    <2>1. \A a \in told' : a \in told
      BY <1>b
    <2>. QED  BY <1>k, <2>1, AnswersKept
  <1>c. \A o \in Ops : Verdict(o) \in Ended => Verdict(o)' = Verdict(o)
    BY <1>k DEF Kept
  <1>1. ASSUME NEW c \in Callers, NEW o \in Ops, Begin(c, o) PROVE AnswersAreTrue'
    <2>1. CASE UNCHANGED told
      BY <2>1, <1>b
    <2>2. CASE ~UNCHANGED told
      <3>1. told' = told \cup {<<o, archive[o]>>} /\ archive[o] # "none"
        BY <1>1, <2>2 DEF Begin, Tell
      <3>2. archive[o] \in Ended
        BY <3>1 DEF IInv, TypeOK
      <3>3. slot.op = o => slot.phase = archive[o]
        BY <3>1, PageChangeAssumption DEF IInv, TypeOK, SlotAgrees, Record, Phases, NoRecord
      <3>4. Verdict(o) = archive[o]
        BY <3>2, <3>3 DEF Verdict, Phase
      <3>5. True(o, archive[o])
        BY <1>c, <3>2, <3>4
      <3>. QED  BY <1>a, <3>1, <3>5
    <2>. QED  BY <2>1, <2>2
  <1>2. ASSUME NEW c \in Callers, ReadSlot(c) PROVE AnswersAreTrue'
    <2>1. CASE UNCHANGED told
      BY <2>1, <1>b
    <2>2. CASE ~UNCHANGED told
      <3>1. /\ told' = told \cup {<<slot.op, slot.phase>>}
            /\ slot.op = caller[c].op /\ slot.phase \in Ended
        BY <1>2, <2>2 DEF ReadSlot
      <3>2. slot.op \in Ops
        BY <1>2, <3>1 DEF ReadSlot, IInv, CallersAgree, CallerAgrees
      <3>3. PICK o \in Ops : o = slot.op
        BY <3>2
      <3>4. Verdict(o) = slot.phase
        BY <3>1, <3>3 DEF Verdict, Phase
      <3>5. True(o, slot.phase)
        BY <1>c, <3>1, <3>4
      <3>. QED  BY <1>a, <3>1, <3>3, <3>5
    <2>. QED  BY <2>1, <2>2
  <1>3. ASSUME NEW c \in Callers, NEW o \in Ops, Execute(c, o) PROVE AnswersAreTrue'
    <2>1. CASE UNCHANGED told
      BY <2>1, <1>b
    <2>2. CASE ~UNCHANGED told
      <3>1. told' = told \cup {<<o, "conflict">>} /\ Phase(o) = "conflict"
        BY <1>3, <2>2 DEF Execute, Tell
      <3>2. Verdict(o) = "conflict" /\ "conflict" \in Ended
        BY <3>1 DEF Verdict, Ended
      <3>3. True(o, "conflict")
        BY <1>c, <3>2
      <3>. QED  BY <1>a, <3>1, <3>3
    <2>. QED  BY <2>1, <2>2
  <1>4. ASSUME NEW c \in Callers, MarkConflict(c) PROVE AnswersAreTrue'
    <2>1. PICK o \in Ops : o = caller[c].op /\ Verdict(o)' = "conflict"
      BY <1>4, MarkConflictStep
    <2>2. told' = told \cup {<<o, "conflict">>}
      BY <1>4, <2>1 DEF MarkConflict, Tell
    <2>3. True(o, "conflict")
      BY <2>1 DEF Ended
    <2>. QED  BY <1>a, <2>2, <2>3
  <1>5. ASSUME NEW c \in Callers, Finish(c) PROVE AnswersAreTrue'
    <2>1. PICK o \in Ops : o = caller[c].op /\ Verdict(o) = "applied"
      BY <1>5, FinishStep
    <2>2. told' = told \cup {<<o, "applied">>}
      BY <1>5, <2>1 DEF Finish, Tell
    <2>3. True(o, "applied")
      BY <1>c, <2>1 DEF Ended
    <2>. QED  BY <1>a, <2>2, <2>3
  <1>6. ASSUME NEW o \in Ops, Status(o) PROVE AnswersAreTrue'
    <2>1. CASE Phase(o) = "conflict" /\ Tell(o, "conflict")
      <3>1. Verdict(o) = "conflict" /\ "conflict" \in Ended
        BY <2>1 DEF Verdict, Ended
      <3>2. True(o, "conflict")
        BY <1>c, <3>1
      <3>. QED  BY <1>a, <2>1, <3>2 DEF Tell
    <2>2. CASE Phase(o) \in {"applying", "applied"} /\ Current(o) = After(o) /\ Tell(o, "applied")
      <3>1. IsAsked(o)
        BY <2>2 DEF IInv, RowsAgree
      <3>2. Current(o).op = o
        BY <2>2, <3>1, RowTyped DEF IInv
      <3>3. Verdict(o) = "applied" /\ "applied" \in Ended
        BY <2>2, <3>2 DEF Verdict, Ended
      <3>4. True(o, "applied")
        BY <1>c, <3>3
      <3>. QED  BY <1>a, <2>2, <3>4 DEF Tell
    <2>. QED  BY <1>6, <2>1, <2>2 DEF Status
  <1>7. ASSUME \/ \E p \in Pages, s \in {"draft", "published", "deleted", "gone"} : Edit(p, s)
               \/ \E o \in Ops, p \in Pages : Review(o, p)
               \/ \E c \in Callers : ReadPage(c) \/ SaveReceipt(c) \/ Install(c) \/ Claim(c)
                                     \/ Update(c) \/ Check(c) \/ Crash(c)
               \/ UNCHANGED vars
        PROVE  AnswersAreTrue'
    <2>1. UNCHANGED told
      BY <1>7 DEF Edit, Review, ReadPage, SaveReceipt, Install, Claim, Update, Check, Crash, vars
    <2>. QED  BY <1>b, <2>1
  <1>. QED
    BY <1>1, <1>2, <1>3, <1>4, <1>5, <1>6, <1>7 DEF Next, Step

\* Whatever any caller was told about the end of a change agrees with the page
\* and with every later answer.
THEOREM Answers == Spec => []AnswersAreTrue
  <1>1. IInv /\ AnswersAreTrue /\ [Next]_vars => (AnswersAreTrue)'
    BY AnswersStep
  <1>. QED  BY InitInvariant, Invariance, <1>1, PTL DEF Spec

\* Only the caller that has the slot in hand can let it go.
LEMMA HandKept ==
  ASSUME IInv, InHand, Kept, UNCHANGED <<page, slot>>, crashed \subseteq crashed',
         NEW c \in Callers, \A d \in Callers \ {c} : caller'[d] = caller[d],
         slot.phase = "applying" /\ caller[c].op = slot.op /\ slot.op \notin crashed' =>
           /\ caller[c].pc \in {"update", "refuse"} =>
                caller'[c].op = slot.op /\ caller'[c].pc \in {"update", "refuse"}
           /\ caller[c].pc \in {"check", "finish"} /\ Current(slot.op) = After(slot.op) =>
                caller'[c].op = slot.op /\ caller'[c].pc \in {"check", "finish"}
  PROVE  InHand'
  <1>. SUFFICES ASSUME slot.phase = "applying", slot.op \notin crashed' PROVE InHand'
    BY DEF InHand
  <1>1. slot.op \in Ops /\ IsAsked(slot.op)
    <2>1. slot.op \in Ops
      BY DEF IInv, SlotAgrees, NoRecord
    <2>2. Phase(slot.op) = "applying"
      BY DEF Phase
    <2>. QED  BY <2>1, <2>2 DEF IInv, RowsAgree
  <1>2. asked'[slot.op] = asked[slot.op]
    BY <1>1 DEF Kept
  <1>3. PICK o \in Ops : o = slot.op /\ o = slot'.op
    BY <1>1
  <1>4. Before(o)' = Before(o) /\ Current(o)' = Current(o) /\ After(o)' = After(o)
    BY <1>2, <1>3 DEF Before, Current, After
  <1>5. CASE Before(o).rev < Current(o).rev
    BY <1>3, <1>4, <1>5 DEF InHand
  <1>6. CASE \E d \in Callers : caller[d].op = o /\ caller[d].pc \in {"update", "refuse"}
    <2>1. \E d \in Callers : caller'[d].op = o /\ caller'[d].pc \in {"update", "refuse"}
      BY <1>3, <1>6
    <2>. QED  BY <1>3, <2>1 DEF InHand
  <1>7. CASE /\ Current(o) = After(o)
             /\ \E d \in Callers : caller[d].op = o /\ caller[d].pc \in {"check", "finish"}
    <2>1. \E d \in Callers : caller'[d].op = o /\ caller'[d].pc \in {"check", "finish"}
      BY <1>3, <1>7
    <2>. QED  BY <1>3, <1>4, <1>7, <2>1 DEF InHand
  <1>8. o \notin crashed
    BY <1>3
  <1>. QED  BY <1>3, <1>5, <1>6, <1>7, <1>8 DEF InHand

LEMMA InHandStep == IInv /\ InHand /\ [Next]_vars => InHand'
  <1>. SUFFICES ASSUME IInv, InHand, [Next]_vars PROVE InHand'
    OBVIOUS
  <1>k. Kept
    BY NextStep
  <1>o. slot.phase = "applying" => slot.op \in Ops /\ IsAsked(slot.op)
    <2>1. slot.phase = "applying" => slot.op \in Ops
      BY DEF IInv, SlotAgrees, NoRecord
    <2>2. slot.phase = "applying" => Phase(slot.op) = "applying"
      BY DEF Phase
    <2>. QED  BY <2>1, <2>2 DEF IInv, RowsAgree
  <1>1. ASSUME NEW p \in Pages, NEW s \in {"draft", "published", "deleted", "gone"}, Edit(p, s)
        PROVE  InHand'
    <2>. SUFFICES ASSUME slot.phase = "applying" PROVE InHand'
      BY <1>1 DEF InHand, Edit
    <2>1. PICK o \in Ops : o = slot.op /\ o = slot'.op /\ IsAsked(o)
      BY <1>1, <1>o DEF Edit
    <2>2. /\ asked[o].page \in Pages /\ Before(o).rev \in Nat /\ Current(o).rev \in Nat
          /\ Before(o).rev <= Current(o).rev
      BY <2>1, RowTyped DEF IInv, RowsAgree, Row
    <2>3. Before(o)' = Before(o) /\ After(o)' = After(o) /\ Current(o)' = page'[asked[o].page]
      BY <1>1 DEF Edit, Before, After, Current
    <2>4. CASE asked[o].page = p
      <3>1. Current(o)'.rev = Current(o).rev + 1
        BY <1>1, <2>2, <2>3, <2>4 DEF Edit, Current, IInv, TypeOK, Row
      <3>2. Before(o)'.rev < Current(o)'.rev
        BY <2>2, <2>3, <3>1
      <3>. QED  BY <2>1, <3>2 DEF InHand
    <2>5. CASE asked[o].page # p
      <3>1. Current(o)' = Current(o)
        BY <1>1, <2>2, <2>3, <2>5 DEF Edit, Current, IInv, TypeOK
      <3>2. UNCHANGED <<slot, caller, crashed>>
        BY <1>1 DEF Edit
      <3>3. Current(slot.op)' = Current(slot.op) /\ Before(slot.op)' = Before(slot.op)
            /\ After(slot.op)' = After(slot.op)
        BY <2>1, <2>3, <3>1
      <3>. QED  BY <3>2, <3>3 DEF InHand
    <2>. QED  BY <2>4, <2>5
  <1>2. ASSUME UNCHANGED <<page, slot, caller, crashed>> PROVE InHand'
    <2>. SUFFICES ASSUME slot.phase = "applying" PROVE InHand'
      BY <1>2 DEF InHand
    <2>1. asked'[slot.op] = asked[slot.op]
      BY <1>k, <1>o DEF Kept
    <2>2. Current(slot.op)' = Current(slot.op) /\ Before(slot.op)' = Before(slot.op)
          /\ After(slot.op)' = After(slot.op)
      BY <1>2, <2>1 DEF Current, Before, After
    <2>. QED  BY <1>2, <2>2 DEF InHand
  <1>3. ASSUME NEW c \in Callers, NEW o \in Ops, Begin(c, o) \/ Execute(c, o) PROVE InHand'
    <2>1. /\ caller[c] = Idle /\ UNCHANGED <<page, slot, crashed>>
          /\ \A d \in Callers \ {c} : caller'[d] = caller[d]
      BY <1>3 DEF Begin, Execute, IInv, TypeOK
    <2>. QED  BY <1>k, <2>1, HandKept DEF Idle
  <1>4. ASSUME NEW c \in Callers, ReadSlot(c) \/ ReadPage(c) \/ SaveReceipt(c) PROVE InHand'
    <2>1. /\ caller[c].pc \in {"slot", "page", "save"} /\ UNCHANGED <<page, slot, crashed>>
          /\ \A d \in Callers \ {c} : caller'[d] = caller[d]
      BY <1>4 DEF ReadSlot, ReadPage, SaveReceipt, Goto, Return, IInv, TypeOK
    <2>. QED  BY <1>k, <2>1, HandKept
  <1>5. ASSUME NEW c \in Callers, Install(c) \/ Claim(c) PROVE InHand'
    <2>1. /\ caller[c].pc \in {"install", "claim"} /\ UNCHANGED <<page, crashed>>
          /\ \A d \in Callers \ {c} : caller'[d] = caller[d]
      BY <1>5 DEF Install, Claim, Return, IInv, TypeOK
    <2>2. CASE slot' = slot
      BY <1>k, <2>1, <2>2, HandKept
    <2>3. CASE slot' # slot /\ Install(c)
      BY <2>3 DEF Install, Swap, InHand
    <2>4. CASE slot' # slot /\ Claim(c)
      <3>1. slot'.op = caller[c].op
            /\ caller' = [caller EXCEPT ![c].pc = "update", ![c].seen = [op |-> caller[c].op, phase |-> "applying"]]
        BY <2>4 DEF Claim, Swap
      <3>2. caller'[c].pc = "update" /\ caller'[c].op = slot'.op
        BY <3>1 DEF IInv, TypeOK
      <3>. QED  BY <3>2 DEF InHand
    <2>. QED  BY <1>5, <2>2, <2>3, <2>4
  <1>6. ASSUME NEW c \in Callers, Update(c) PROVE InHand'
    <2>1. PICK o \in Ops : o = caller[c].op /\ IsAsked(o)
      BY <1>6 DEF Update, IInv, CallersAgree, CallerAgrees
    <2>2. caller[c].pc = "update" /\ slot.op = o /\ slot.phase = "applying"
      <3>1. caller[c].pc = "update" /\ Works(c)
        BY <1>6 DEF Update, IInv, CallersAgree, CallerAgrees
      <3>2. slot = [op |-> o, phase |-> "applying"]
        BY <2>1, <3>1 DEF Works
      <3>. QED  BY <3>1, <3>2
    <2>3. CASE UNCHANGED page /\ Goto(c, "refuse")
      <3>1. /\ caller'[c].op = o /\ caller'[c].pc = "refuse"
            /\ \A d \in Callers \ {c} : caller'[d] = caller[d]
        BY <2>1, <2>3 DEF Goto, IInv, TypeOK
      <3>. QED  BY <1>6, <1>k, <2>2, <2>3, <3>1, HandKept DEF Update
    <2>4. CASE page' = [page EXCEPT ![asked[o].page] = After(o)] /\ Goto(c, "check")
      <3>1. caller'[c].op = o /\ caller'[c].pc = "check"
        BY <2>1, <2>4 DEF Goto, IInv, TypeOK
      <3>2. Current(o)' = After(o) /\ After(o)' = After(o)
        BY <1>6, <2>1, <2>4, RowTyped DEF Update, Current, After, Before, IInv, TypeOK
      <3>3. slot'.op = o
        BY <1>6, <2>2 DEF Update
      <3>. QED  BY <3>1, <3>2, <3>3 DEF InHand
    <2>. QED  BY <1>6, <2>1, <2>3, <2>4 DEF Update
  <1>7. ASSUME NEW c \in Callers, MarkConflict(c) PROVE InHand'
    BY <1>7, MarkConflictStep DEF InHand
  <1>8. ASSUME NEW c \in Callers, Check(c) PROVE InHand'
    <2>1. /\ caller[c].pc = "check" /\ UNCHANGED <<page, slot, crashed>>
          /\ \A d \in Callers \ {c} : caller'[d] = caller[d]
          /\ Current(caller[c].op) = After(caller[c].op) =>
               caller'[c].pc = "finish" /\ caller'[c].op = caller[c].op
      BY <1>8 DEF Check, Goto, Return, IInv, TypeOK
    <2>. QED  BY <1>k, <2>1, HandKept
  <1>9. ASSUME NEW c \in Callers, Finish(c) PROVE InHand'
    <2>1. slot'.phase = "applying" => slot.op # caller[c].op /\ slot' = slot
      BY <1>9, FinishStep
    <2>2. UNCHANGED <<page, crashed>> /\ \A d \in Callers \ {c} : caller'[d] = caller[d]
      BY <1>9 DEF Finish, Return, IInv, TypeOK
    <2>3. CASE slot'.phase = "applying"
      BY <1>k, <2>1, <2>2, <2>3, HandKept
    <2>4. CASE slot'.phase # "applying"
      BY <2>4 DEF InHand
    <2>. QED  BY <2>3, <2>4
  <1>10. ASSUME NEW c \in Callers, Crash(c) PROVE InHand'
    <2>1. /\ crashed' = crashed \cup {caller[c].op} /\ UNCHANGED <<page, slot>>
          /\ \A d \in Callers \ {c} : caller'[d] = caller[d]
      BY <1>10 DEF Crash, Return, IInv, TypeOK
    <2>. QED  BY <1>k, <2>1, HandKept
  <1>11. ASSUME \/ \E o \in Ops : Status(o) \/ \E p \in Pages : Review(o, p)
                \/ UNCHANGED vars
         PROVE  InHand'
    <2>1. UNCHANGED <<page, slot, caller, crashed>>
      BY <1>11 DEF Status, Review, vars
    <2>. QED  BY <1>2, <2>1
  <1>. QED
    BY <1>1, <1>3, <1>4, <1>5, <1>6, <1>7, <1>8, <1>9, <1>10, <1>11 DEF Next, Step

\* The owner's slot is only left applying when a caller died on it or its
\* result was edited over before the check.
THEOREM StuckSlots == Spec => []StuckOnlyByCrashOrEdit
  <1>1. IInv /\ InHand /\ [Next]_vars => (InHand)'
    BY InHandStep
  <1>2. IInv /\ InHand => StuckOnlyByCrashOrEdit
    BY DEF InHand, StuckOnlyByCrashOrEdit
  <1>. QED  BY InitInvariant, Invariance, <1>1, <1>2, PTL DEF Spec
=============================================================================

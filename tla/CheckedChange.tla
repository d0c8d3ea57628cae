--------------------------- MODULE CheckedChange ----------------------------
(***************************************************************************)
(* What PageChangeStore (page-change-store.ts) promises, without slot,     *)
(* archive or callers: a reviewed change of a page happens at most once,   *)
(* only on exactly the draft row that was reviewed, and its verdict stays. *)
(***************************************************************************)
EXTENDS Naturals

CONSTANTS Pages, Ops, NoOp

VARIABLES
  page,      \* page -> its row
  asked,     \* change -> the page and row its author reviewed
  verdict    \* change -> "open", "applied" or "conflict"

vars == <<page, asked, verdict>>

Row     == [rev : Nat, state : {"draft", "published", "deleted", "gone"}, op : Ops \cup {NoOp}]
Asked   == [page : Pages, row : Row]
Unasked == [page |-> NoOp]

Init == /\ page    = [p \in Pages |-> [rev |-> 0, state |-> "draft", op |-> NoOp]]
        /\ asked   = [o \in Ops |-> Unasked]
        /\ verdict = [o \in Ops |-> "open"]

\* Anybody edits, publishes, deletes or restores a page: the row is a new one.
Edit(p, s) ==
  /\ page[p].state # "gone"
  /\ page' = [page EXCEPT ![p].rev = @ + 1, ![p].state = s]
  /\ UNCHANGED <<asked, verdict>>

Review(o, p) ==
  /\ asked[o] = Unasked
  /\ page[p].state # "gone"
  /\ asked' = [asked EXCEPT ![o] = [page |-> p, row |-> page[p]]]
  /\ UNCHANGED <<page, verdict>>

Reviewed(o) == asked[o] # Unasked /\ asked[o].row.state = "draft"
AsReviewed(o) == page[asked[o].page] = asked[o].row

Apply(o) ==
  /\ Reviewed(o) /\ verdict[o] = "open" /\ AsReviewed(o)
  /\ page' = [page EXCEPT ![asked[o].page].op = o]
  /\ verdict' = [verdict EXCEPT ![o] = "applied"]
  /\ UNCHANGED asked

\* A change is only refused when the reviewed row is no longer there.
Refuse(o) ==
  /\ Reviewed(o) /\ verdict[o] = "open" /\ ~AsReviewed(o)
  /\ verdict' = [verdict EXCEPT ![o] = "conflict"]
  /\ UNCHANGED <<page, asked>>

Next == \/ \E p \in Pages, s \in {"draft", "published", "deleted", "gone"} : Edit(p, s)
        \/ \E o \in Ops : Apply(o) \/ Refuse(o) \/ \E p \in Pages : Review(o, p)

Spec == Init /\ [][Next]_vars
=============================================================================

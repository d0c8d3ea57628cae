--------------------------- MODULE RevisionLedger ---------------------------
(***************************************************************************)
(* What the revision layer of @frontbase/translation promises its callers: *)
(* a ledger in which every write is one indivisible, fully checked step.   *)
(* A unit's source wording has a version that only grows; each (unit,      *)
(* locale) has an immutable set of revisions and one head.                 *)
(*                                                                         *)
(* RevisionLifecycle and TranslationRunner implement this with optimistic  *)
(* reads, a version compare-and-swap and no lock held between the two.     *)
(***************************************************************************)
EXTENDS Naturals, Sequences

CONSTANTS
  Units,      \* translation unit ids of one tenant/project scope
  Locales,    \* target locales (never the source locale)
  Ids,        \* revision ids
  NoHead,     \* "no revision yet": the null head
  Wordings,   \* source text + context, up to their fingerprints
  Texts,      \* translated texts
  Renders     \* <<wording, text>> pairs that pass the token and format checks

VARIABLES
  sources,    \* unit -> its source wordings, oldest first (source_history)
  revisions,  \* every stored revision
  head        \* <<unit, locale>> -> id of the current revision

vars == <<sources, revisions, head>>

Provenances == {"ai", "manual", "import"}

Init == /\ sources   = [u \in Units |-> <<>>]
        /\ revisions = {}
        /\ head      = [t \in Units \X Locales |-> NoHead]

\* A new wording becomes the next source version; an unchanged one does not.
Register(u, w) ==
  /\ sources[u] # <<>> => sources[u][Len(sources[u])] # w
  /\ sources' = [sources EXCEPT ![u] = Append(@, w)]
  /\ UNCHANGED <<revisions, head>>

\* A revision enters the ledger translated from the source wording current at
\* that moment and on top of the head current at that moment.
Commit(u, l, id, provenance, text) ==
  LET current == sources[u][Len(sources[u])]
      rev     == [unit |-> u, locale |-> l, id |-> id, provenance |-> provenance,
                  sourceVersion |-> Len(sources[u]), wording |-> current,
                  expectedHead |-> head[<<u, l>>], text |-> text]
  IN /\ sources[u] # <<>>
     /\ <<current, text>> \in Renders
     /\ \A r \in revisions : <<r.unit, r.locale, r.id>> # <<u, l, id>>
     /\ \A r \in revisions :
          (<<r.unit, r.locale, r.id>> = <<u, l, head[<<u, l>>]>> /\ r.provenance = "manual")
            => provenance = "manual"
     /\ revisions' = revisions \cup {rev}
     /\ head' = [head EXCEPT ![<<u, l>>] = id]
     /\ UNCHANGED sources

Next == \/ \E u \in Units, w \in Wordings : Register(u, w)
        \/ \E u \in Units, l \in Locales, id \in Ids, p \in Provenances, x \in Texts :
             Commit(u, l, id, p, x)

Spec == Init /\ [][Next]_vars
=============================================================================

-------------------------- MODULE TranslationStore --------------------------
(***************************************************************************)
(* The persisted revision state of one tenant/project scope and the two    *)
(* ways compareAndSwap changes it (adapters/sqlite.ts), with the checks    *)
(* TranslationLifecycle makes on a snapshot before it swaps                *)
(* (revisions.ts). The actions of this module are transactions: the SQLite *)
(* adapter runs each in BEGIN IMMEDIATE, the PostgREST one under a scope   *)
(* lock. Modules that extend this one say who runs them and when.          *)
(*                                                                         *)
(* Abstractions: a source fingerprint and a context fingerprint together   *)
(* are the wording itself (collisions are out of scope); the units row     *)
(* repeats the newest source_history row, so only the history is kept.     *)
(***************************************************************************)
EXTENDS Naturals, Sequences, FiniteSets

CONSTANTS Units, Locales, Ids, NoHead, Wordings, Texts, Renders

ASSUME StoreAssumption == /\ NoHead \notin Ids
                          /\ Renders \subseteq Wordings \X Texts

VARIABLES
  version,    \* unit -> units.version, the compare-and-swap counter
  sources,    \* unit -> source_history wordings; source version = position
  revisions,  \* rows of the revisions table
  head        \* <<unit, locale>> -> heads.revision_id

storeVars == <<version, sources, revisions, head>>

Targets     == Units \X Locales
Provenances == {"ai", "manual", "import"}
Revision == [unit : Units, locale : Locales, id : Ids, provenance : Provenances,
             sourceVersion : Nat, wording : Wordings,
             expectedHead : Ids \cup {NoHead}, text : Texts]

StoreTypeOK == /\ version \in [Units -> Nat]
               /\ sources \in [Units -> Seq(Wordings)]
               /\ revisions \subseteq Revision
               /\ head \in [Targets -> Ids \cup {NoHead}]

StoreInit == /\ version   = [u \in Units |-> 0]
             /\ sources   = [u \in Units |-> <<>>]
             /\ revisions = {}
             /\ head      = [t \in Targets |-> NoHead]

-----------------------------------------------------------------------------
(* Reads *)

SourceVersion(u) == Len(sources[u])
Wording(u)       == sources[u][SourceVersion(u)]

\* readRevision / the primary-key probe of compareAndSwap.
Stored(u, l, id) == \E r \in revisions : r.unit = u /\ r.locale = l /\ r.id = id

\* The joined head row is a human edit.
ManualHead(u, l) == \E r \in revisions : /\ r.unit = u /\ r.locale = l
                                         /\ r.id = head[<<u, l>>]
                                         /\ r.provenance = "manual"

\* validatePlainRevision(unit, unit.text): the wording can be translated at all.
Plain(w) == \E x \in Texts : <<w, x>> \in Renders

-----------------------------------------------------------------------------
(* The checks of TranslationLifecycle.write on the snapshot it read *)

InputCurrent(rev) == /\ SourceVersion(rev.unit) > 0
                     /\ rev.sourceVersion = SourceVersion(rev.unit)
                     /\ rev.wording = Wording(rev.unit)

\* A human edit is not protected: not what the code does.
MayReplaceAnything(rev) == rev.expectedHead = head[<<rev.unit, rev.locale>>]

MayReplace(rev) == /\ rev.expectedHead = head[<<rev.unit, rev.locale>>]
                   /\ ManualHead(rev.unit, rev.locale) => rev.provenance = "manual"

Admissible(rev) == /\ InputCurrent(rev)
                   /\ MayReplace(rev)
                   /\ <<rev.wording, rev.text>> \in Renders

-----------------------------------------------------------------------------
(* compareAndSwap *)

\* The history row of the current version is rewritten: not what the code does.
ApplySourceInPlace(u, w) ==
  /\ sources' = [sources EXCEPT ![u] = IF @ = <<>> THEN <<w>> ELSE [@ EXCEPT ![Len(@)] = w]]
  /\ version' = [version EXCEPT ![u] = @ + 1]
  /\ UNCHANGED <<revisions, head>>

ApplySource(u, w) == /\ sources' = [sources EXCEPT ![u] = Append(@, w)]
                     /\ version' = [version EXCEPT ![u] = @ + 1]
                     /\ UNCHANGED <<revisions, head>>

\* A revision does not advance the counter: not what the code does.
ApplyRevisionUnversioned(rev) ==
  /\ revisions' = revisions \cup {rev}
  /\ head' = [head EXCEPT ![<<rev.unit, rev.locale>>] = rev.id]
  /\ UNCHANGED <<version, sources>>

ApplyRevision(rev) ==
  /\ revisions' = revisions \cup {rev}
  /\ head' = [head EXCEPT ![<<rev.unit, rev.locale>>] = rev.id]
  /\ version' = [version EXCEPT ![rev.unit] = @ + 1]
  /\ UNCHANGED sources

\* The two refusals of a revision swap that do not depend on a job fence.
SwapConflict(u, v) == version[u] # v

\* The probe compares the row instead of its key: not what the code does.
RowTaken(rev) == rev \in revisions

IdTaken(rev) == Stored(rev.unit, rev.locale, rev.id)

-----------------------------------------------------------------------------
(* What the modules that extend this one implement *)

Ledger == INSTANCE RevisionLedger
=============================================================================

---------------------- MODULE TranslationStore_proofs -----------------------
(***************************************************************************)
(* What the two writes of compareAndSwap keep, whoever makes them: lemmas  *)
(* shared by the proofs about the callers of the store.                    *)
(***************************************************************************)
EXTENDS TranslationStore, TLAPS

\* Heads, and the heads revisions were put on, are revisions of that locale.
HeadsExist == \A u \in Units, l \in Locales :
                head[<<u, l>>] # NoHead => Stored(u, l, head[<<u, l>>])
PredecessorsExist == \A r \in revisions :
                       r.expectedHead # NoHead => Stored(r.unit, r.locale, r.expectedHead)

-----------------------------------------------------------------------------
(* Types and links *)

\* What a caller composes from the store is a well-formed revision.
LEMMA ComposedTyped ==
  ASSUME StoreTypeOK, NEW u \in Units, NEW l \in Locales, NEW id \in Ids,
         NEW p \in Provenances, NEW x \in Texts, SourceVersion(u) > 0
  PROVE  [unit |-> u, locale |-> l, id |-> id, provenance |-> p,
          sourceVersion |-> SourceVersion(u), wording |-> Wording(u),
          expectedHead |-> head[<<u, l>>], text |-> x] \in Revision
  <1>1. SourceVersion(u) \in Nat /\ Wording(u) \in Wordings
    BY DEF StoreTypeOK, SourceVersion, Wording
  <1>2. head[<<u, l>>] \in Ids \cup {NoHead}
    BY DEF StoreTypeOK, Targets
  <1>. QED  BY <1>1, <1>2 DEF Revision

\* The two ways compareAndSwap writes keep the store well-formed.
LEMMA ApplyRevisionTyped ==
  ASSUME StoreTypeOK, NEW rev \in Revision, ApplyRevision(rev)
  PROVE  StoreTypeOK'
  BY DEF StoreTypeOK, ApplyRevision, Revision, Targets

LEMMA ApplySourceTyped ==
  ASSUME StoreTypeOK, NEW u \in Units, NEW w \in Wordings, ApplySource(u, w)
  PROVE  StoreTypeOK'
  BY DEF StoreTypeOK, ApplySource

\* A checked revision with a fresh id is linked to the head it replaces.
LEMMA LinksGrow ==
  ASSUME StoreTypeOK, HeadsExist, PredecessorsExist,
         NEW rev \in Revision, Admissible(rev), ~IdTaken(rev), ApplyRevision(rev)
  PROVE  HeadsExist' /\ PredecessorsExist'
  <1>. DEFINE u == rev.unit  l == rev.locale  old == head[<<u, l>>]
  <1>0. u \in Units /\ l \in Locales /\ \A r \in revisions : r \in Revision
    BY DEF StoreTypeOK, Revision
  <1>1. /\ revisions' = revisions \cup {rev}
        /\ head'[<<u, l>>] = rev.id
        /\ \A v \in Units, m \in Locales :
              <<v, m>> # <<u, l>> => head'[<<v, m>>] = head[<<v, m>>]
    BY <1>0 DEF ApplyRevision, StoreTypeOK, Targets
  <1>2. rev.expectedHead = old
    BY DEF Admissible, MayReplace
  <1>3. HeadsExist'
    <2>. SUFFICES ASSUME NEW v \in Units, NEW m \in Locales, (head[<<v, m>>] # NoHead)'
                  PROVE  Stored(v, m, head[<<v, m>>])'
      BY DEF HeadsExist
    <2>1. CASE <<v, m>> = <<u, l>>
      BY <1>1, <2>1 DEF Stored
    <2>2. CASE <<v, m>> # <<u, l>>
      BY <1>0, <1>1, <2>2 DEF HeadsExist, Stored
    <2>. QED  BY <2>1, <2>2
  <1>4. old # NoHead => Stored(u, l, old)
    BY <1>0 DEF HeadsExist
  <1>5. PredecessorsExist'
    <2>. SUFFICES ASSUME NEW r \in revisions', r.expectedHead # NoHead
                  PROVE  Stored(r.unit, r.locale, r.expectedHead)'
      BY DEF PredecessorsExist
    <2>1. CASE r = rev
      BY <1>1, <1>2, <1>4, <2>1 DEF Stored
    <2>2. CASE r \in revisions
      BY <1>0, <1>1, <2>2 DEF PredecessorsExist, Stored
    <2>. QED  BY <1>1, <2>1, <2>2
  <1>. QED  BY <1>3, <1>5

-----------------------------------------------------------------------------
(* What a write leaves alone *)

\* A check made on one unit survives a write to another.
LEMMA CheckSurvivesRevision ==
  ASSUME StoreTypeOK, NEW rev \in Revision, NEW new \in Revision, ApplyRevision(new),
         rev.unit # new.unit, Admissible(rev)
  PROVE  Admissible(rev)'
  <1>1. sources' = sources /\ head'[<<rev.unit, rev.locale>>] = head[<<rev.unit, rev.locale>>]
    BY DEF ApplyRevision, StoreTypeOK, Targets, Revision
  <1>2. InputCurrent(rev)'
    BY <1>1 DEF Admissible, InputCurrent, SourceVersion, Wording
  <1>3. ManualHead(rev.unit, rev.locale)' => ManualHead(rev.unit, rev.locale)
    BY <1>1 DEF ManualHead, ApplyRevision
  <1>. QED  BY <1>1, <1>2, <1>3 DEF Admissible, MayReplace

LEMMA CheckSurvivesSource ==
  ASSUME StoreTypeOK, NEW rev \in Revision, NEW u \in Units, NEW w, ApplySource(u, w),
         rev.unit # u, Admissible(rev)
  PROVE  Admissible(rev)'
  <1>1. revisions' = revisions /\ head' = head
    BY DEF ApplySource
  <1>2. sources'[rev.unit] = sources[rev.unit]
    BY DEF ApplySource, StoreTypeOK, Revision
  <1>3. InputCurrent(rev)'
    BY <1>2 DEF Admissible, InputCurrent, SourceVersion, Wording
  <1>4. ManualHead(rev.unit, rev.locale)' <=> ManualHead(rev.unit, rev.locale)
    BY <1>1 DEF ManualHead
  <1>. QED  BY <1>1, <1>3, <1>4 DEF Admissible, MayReplace

LEMMA CheckSurvivesReads ==
  ASSUME NEW rev, UNCHANGED storeVars, Admissible(rev)
  PROVE  Admissible(rev)'
  BY DEF storeVars, Admissible, InputCurrent, MayReplace, SourceVersion, Wording, ManualHead

-----------------------------------------------------------------------------
(* The ledger *)

\* A checked revision with a fresh id is a step of the ledger.
LEMMA RevisionIsCommit ==
  ASSUME StoreTypeOK, NEW rev \in Revision, Admissible(rev), ~IdTaken(rev), ApplyRevision(rev)
  PROVE  Ledger!Commit(rev.unit, rev.locale, rev.id, rev.provenance, rev.text)
  <1>1. /\ sources[rev.unit] \in Seq(Wordings)
        /\ rev.sourceVersion = Len(sources[rev.unit])
        /\ rev.wording = sources[rev.unit][Len(sources[rev.unit])]
        /\ rev.expectedHead = head[<<rev.unit, rev.locale>>]
        /\ <<rev.wording, rev.text>> \in Renders
        /\ Len(sources[rev.unit]) > 0
    BY DEF StoreTypeOK, Revision, Admissible, InputCurrent, MayReplace,
           SourceVersion, Wording
  <1>2. rev = [unit |-> rev.unit, locale |-> rev.locale, id |-> rev.id,
               provenance |-> rev.provenance, sourceVersion |-> Len(sources[rev.unit]),
               wording |-> sources[rev.unit][Len(sources[rev.unit])],
               expectedHead |-> head[<<rev.unit, rev.locale>>], text |-> rev.text]
    BY <1>1 DEF Revision
  <1>3. \A r \in revisions : <<r.unit, r.locale, r.id>> # <<rev.unit, rev.locale, rev.id>>
    BY DEF IdTaken, Stored
  <1>4. \A r \in revisions :
          (<<r.unit, r.locale, r.id>> = <<rev.unit, rev.locale, head[<<rev.unit, rev.locale>>]>>
             /\ r.provenance = "manual") => rev.provenance = "manual"
    BY DEF Admissible, MayReplace, ManualHead
  <1>5. sources[rev.unit] # <<>>
    BY <1>1
  <1>. HIDE DEF Revision
  <1>. QED  BY <1>1, <1>2, <1>3, <1>4, <1>5 DEF ApplyRevision, Ledger!Commit

LEMMA RevisionIsLedgerStep ==
  ASSUME StoreTypeOK, NEW rev \in Revision, Admissible(rev), ~IdTaken(rev), ApplyRevision(rev)
  PROVE  Ledger!Next
  <1>1. Ledger!Commit(rev.unit, rev.locale, rev.id, rev.provenance, rev.text)
    BY RevisionIsCommit
  <1>2. /\ rev.unit \in Units /\ rev.locale \in Locales /\ rev.id \in Ids
        /\ rev.provenance \in Ledger!Provenances /\ rev.text \in Texts
    BY DEF Revision, Provenances, Ledger!Provenances
  <1>. QED  BY <1>1, <1>2 DEF Ledger!Next

\* So is a new wording.
LEMMA SourceIsLedgerStep ==
  ASSUME StoreTypeOK, NEW u \in Units, NEW w \in Wordings,
         SourceVersion(u) > 0 => Wording(u) # w, ApplySource(u, w)
  PROVE  Ledger!Next
  <1>1. sources[u] # <<>> => SourceVersion(u) > 0
    BY DEF StoreTypeOK, SourceVersion
  <1>2. Ledger!Register(u, w)
    BY <1>1 DEF ApplySource, SourceVersion, Wording, Ledger!Register
  <1>. QED  BY <1>2 DEF Ledger!Next
=============================================================================

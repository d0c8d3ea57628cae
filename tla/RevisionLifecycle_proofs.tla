---------------------- MODULE RevisionLifecycle_proofs ----------------------
(***************************************************************************)
(* Proofs about RevisionLifecycle, for any number of writers, syncers,     *)
(* units, locales and ids: the types, the shape of the revision chain, and *)
(* that the read-check-swap protocol implements the atomic RevisionLedger. *)
(*                                                                         *)
(* The argument: version[u] only grows, and every change of what Admissible*)
(* looks at makes it grow. So a snapshot whose version is still current is *)
(* still true, and the check made on it holds again at the swap.           *)
(***************************************************************************)
EXTENDS RevisionLifecycle, TranslationStore_proofs

-----------------------------------------------------------------------------
(* The inductive invariant *)

\* A call in progress has an intent.
Composed == \A c \in Writers : writer[c].pc # "idle" => writer[c].rev \in Revision

\* A snapshot is of the past, and true for as long as its version is current.
SnapshotsHold ==
  \A c \in Writers : writer[c].pc = "swap" =>
    /\ writer[c].version <= version[writer[c].rev.unit]
    /\ writer[c].version = version[writer[c].rev.unit] => Admissible(writer[c].rev)

\* The same for what syncSource read.
ReadsHold ==
  \A s \in Syncers : syncer[s] # NoRequest =>
    /\ syncer[s].version <= version[syncer[s].unit]
    /\ (syncer[s].version = version[syncer[s].unit] /\ SourceVersion(syncer[s].unit) > 0)
         => Wording(syncer[s].unit) # syncer[s].wording

IInv == /\ TypeOK
        /\ Composed
        /\ SnapshotsHold
        /\ ReadsHold
        /\ HeadsExist
        /\ PredecessorsExist
        /\ NoFork
        /\ RecordedWordingIsTrue
-----------------------------------------------------------------------------
(* Types *)

LEMMA InitTyped == Init => TypeOK /\ Composed
  BY DEF Init, StoreInit, TypeOK, StoreTypeOK, Composed, WriterState, SyncerState, Targets,
         Answers

LEMMA NextTyped == TypeOK /\ Composed /\ [Next]_vars => (TypeOK /\ Composed)'
  <1>. SUFFICES ASSUME TypeOK, Composed, [Next]_vars
                PROVE  (TypeOK /\ Composed)'
    OBVIOUS
  <1>. USE DEF WriterState, Answers
  <1>store. StoreTypeOK /\ (UNCHANGED storeVars => StoreTypeOK')
    BY DEF TypeOK, StoreTypeOK, storeVars
  <1>begin. ASSUME NEW c \in Writers, NEW rev \in Revision, Begin(c, rev)
            PROVE  (TypeOK /\ Composed)'
    <2>. DEFINE new == IF IdTaken(rev)
                       THEN [pc |-> "idle", rev |-> rev, version |-> 0, answer |-> ReplayAnswer(rev)]
                       ELSE [pc |-> "snapshot", rev |-> rev, version |-> 0, answer |-> "none"]
    <2>1. new \in WriterState /\ new.rev = rev
      BY DEF ReplayAnswer
    <2>2. writer' = [writer EXCEPT ![c] = new] /\ UNCHANGED <<storeVars, syncer>>
      BY <1>begin DEF Begin
    <2>. HIDE DEF new, WriterState
    <2>3. /\ writer' \in [Writers -> WriterState]
          /\ \A d \in Writers : writer'[d] = IF d = c THEN new ELSE writer[d]
      BY <2>1, <2>2 DEF TypeOK
    <2>. QED  BY <2>1, <2>2, <2>3, <1>store DEF TypeOK, Composed
  <1>answer. ASSUME NEW c \in Writers, NEW answer \in Answers, Answer(c, answer),
                    StoreTypeOK', UNCHANGED syncer
             PROVE  (TypeOK /\ Composed)'
    <2>. DEFINE new == [writer[c] EXCEPT !.pc = "idle", !.version = 0, !.answer = answer]
    <2>1. new \in WriterState /\ new.pc = "idle"
      BY DEF TypeOK
    <2>2. writer' = [writer EXCEPT ![c] = new]
      BY <1>answer DEF Answer
    <2>. HIDE DEF new, WriterState
    <2>3. /\ writer' \in [Writers -> WriterState]
          /\ \A d \in Writers : writer'[d] = IF d = c THEN new ELSE writer[d]
      BY <2>1, <2>2 DEF TypeOK
    <2>. QED  BY <1>answer, <2>1, <2>3 DEF TypeOK, Composed
  <1>1. ASSUME NEW c \in Writers, NEW u \in Units, NEW l \in Locales, NEW id \in Ids,
               NEW offer \in Offers, NewWrite(c, u, l, id, offer)
        PROVE  (TypeOK /\ Composed)'
    <2>1. offer[1] \in Provenances /\ offer[2] \in Texts
      BY LifecycleAssumption
    <2>. QED  BY <1>1, <2>1, <1>store, <1>begin, ComposedTyped DEF NewWrite
  <1>2. ASSUME NEW c \in Writers, NEW d \in Writers, Resend(c, d)
        PROVE  (TypeOK /\ Composed)'
    BY <1>2, <1>begin DEF Resend, TypeOK
  <1>3. ASSUME NEW c \in Writers, Snapshot(c)
        PROVE  (TypeOK /\ Composed)'
    <2>. DEFINE rev == writer[c].rev
    <2>1. rev \in Revision /\ version[rev.unit] \in Nat
      BY <1>3, <1>store DEF Snapshot, Composed, StoreTypeOK, Revision
    <2>2. CASE Admissible(rev)
      BY <1>3, <2>1, <2>2, <1>store DEF Snapshot, TypeOK, Composed
    <2>3. CASE ~Admissible(rev)
      BY <1>3, <2>3, <1>store, <1>answer DEF Snapshot
    <2>. QED  BY <2>2, <2>3
  <1>4. ASSUME NEW c \in Writers, Swap(c)
        PROVE  (TypeOK /\ Composed)'
    <2>. DEFINE rev == writer[c].rev
    <2>1. rev \in Revision
      BY <1>4 DEF Swap, Composed
    <2>2. CASE SwapConflict(rev.unit, writer[c].version) \/ IdTaken(rev)
      BY <1>4, <2>1, <2>2, <1>store DEF Swap, TypeOK, Composed
    <2>3. CASE ~(SwapConflict(rev.unit, writer[c].version) \/ IdTaken(rev))
      BY <1>4, <2>1, <2>3, <1>store, <1>answer, ApplyRevisionTyped DEF Swap
    <2>. QED  BY <2>2, <2>3
  <1>5. ASSUME NEW c \in Writers, Replay(c) \/ LoseWriter(c)
        PROVE  (TypeOK /\ Composed)'
    BY <1>5, <1>store, <1>answer DEF Replay, ReplayAnswer, LoseWriter
  <1>6. ASSUME NEW s \in Syncers, NEW u \in Units, NEW w \in Wordings, ReadSource(s, u, w)
        PROVE  (TypeOK /\ Composed)'
    BY <1>6, <1>store DEF ReadSource, TypeOK, Composed, SyncerState, StoreTypeOK
  <1>7. ASSUME NEW s \in Syncers, SwapSource(s)
        PROVE  (TypeOK /\ Composed)'
    <2>1. syncer[s].unit \in Units /\ syncer[s].wording \in Wordings
      BY <1>7 DEF SwapSource, TypeOK, SyncerState
    <2>2. StoreTypeOK'
      BY <1>7, <2>1, <1>store, ApplySourceTyped DEF SwapSource
    <2>. QED  BY <1>7, <2>2 DEF SwapSource, TypeOK, Composed, SyncerState
  <1>8. CASE UNCHANGED vars
    BY <1>8, <1>store DEF vars, TypeOK, Composed
  <1>. QED
    BY <1>1, <1>2, <1>3, <1>4, <1>5, <1>6, <1>7, <1>8 DEF Next

\* Every reachable state of the callers and of the store is well-formed.
THEOREM TypeCorrect == Spec => []TypeOK
  BY InitTyped, NextTyped, PTL DEF Spec

-----------------------------------------------------------------------------
(* What a write leaves alone *)

\* The writers a step leaves alone keep a true snapshot when the store is unchanged.
LEMMA StoreUnchanged ==
  ASSUME IInv, UNCHANGED storeVars
  PROVE  HeadsExist' /\ PredecessorsExist' /\ NoFork' /\ RecordedWordingIsTrue'
  BY DEF IInv, storeVars, HeadsExist, PredecessorsExist, NoFork, RecordedWordingIsTrue, Stored

-----------------------------------------------------------------------------
(* The step that matters: an admissible revision enters the store *)

\* A swap that succeeds applies a revision that is admissible at that moment,
\* though it was checked earlier: nobody moved the version in between.
LEMMA SwapIsChecked ==
  ASSUME IInv, NEW c \in Writers, Swap(c),
         ~(SwapConflict(writer[c].rev.unit, writer[c].version) \/ IdTaken(writer[c].rev))
  PROVE  /\ writer[c].rev \in Revision
         /\ Admissible(writer[c].rev)
         /\ ~IdTaken(writer[c].rev)
         /\ ApplyRevision(writer[c].rev)
         /\ Answer(c, "committed")
         /\ UNCHANGED syncer
  BY DEF IInv, Composed, SnapshotsHold, Swap, SwapConflict

\* An admissible revision with a fresh id extends the chain of its locale.
LEMMA ChainGrows ==
  ASSUME IInv, NEW rev \in Revision, Admissible(rev), ~IdTaken(rev), ApplyRevision(rev)
  PROVE  HeadsExist' /\ PredecessorsExist' /\ NoFork' /\ RecordedWordingIsTrue'
  <1>. DEFINE u == rev.unit  l == rev.locale  old == head[<<u, l>>]
  <1>0. /\ StoreTypeOK
        /\ HeadsExist /\ PredecessorsExist /\ NoFork /\ RecordedWordingIsTrue
        /\ rev.id # NoHead
        /\ u \in Units /\ l \in Locales
        /\ \A r \in revisions : r \in Revision
    BY StoreAssumption DEF IInv, TypeOK, StoreTypeOK, Revision
  <1>1. /\ revisions' = revisions \cup {rev}
        /\ sources' = sources
        /\ head'[<<u, l>>] = rev.id
        /\ \A v \in Units, m \in Locales :
              <<v, m>> # <<u, l>> => head'[<<v, m>>] = head[<<v, m>>]
    BY <1>0 DEF ApplyRevision, StoreTypeOK, Targets
  <1>2. rev.expectedHead = old
    BY DEF Admissible, MayReplace
  <1>6. old # NoHead => Stored(u, l, old)
    BY <1>0 DEF HeadsExist
  <1>7. HeadsExist' /\ PredecessorsExist'
    BY <1>0, LinksGrow
  <1>8. NoFork'
    <2>1. \A r \in revisions : (r.unit = u /\ r.locale = l) =>
            r.expectedHead # rev.id /\ r.expectedHead # old
      BY <1>0 DEF PredecessorsExist, IdTaken, Stored, NoFork
    <2>2. rev.expectedHead # rev.id
      BY <1>0, <1>2, <1>6 DEF IdTaken, Stored
    <2>3. ASSUME NEW r \in revisions'
          PROVE  r.expectedHead # head'[<<r.unit, r.locale>>]
      <3>1. CASE r.unit = u /\ r.locale = l
        BY <1>1, <2>1, <2>2, <2>3, <3>1
      <3>2. CASE ~(r.unit = u /\ r.locale = l)
        <4>1. r \in revisions
          BY <1>1, <3>2
        <4>2. r.unit \in Units /\ r.locale \in Locales
          BY <1>0, <4>1 DEF Revision
        <4>3. head'[<<r.unit, r.locale>>] = head[<<r.unit, r.locale>>]
          BY <1>1, <3>2, <4>2
        <4>. QED  BY <1>0, <4>1, <4>3 DEF NoFork
      <3>. QED  BY <3>1, <3>2
    <2>4. ASSUME NEW r \in revisions', NEW q \in revisions',
                 q.unit = r.unit, q.locale = r.locale, q.expectedHead = r.expectedHead
          PROVE  q = r
      BY <1>0, <1>1, <1>2, <2>1, <2>4 DEF NoFork
    <2>. QED  BY <2>3, <2>4 DEF NoFork
  <1>9. RecordedWordingIsTrue'
    <2>1. rev.sourceVersion \in DOMAIN sources[u] /\ sources[u][rev.sourceVersion] = rev.wording
          /\ <<rev.wording, rev.text>> \in Renders
      BY <1>0 DEF Admissible, InputCurrent, SourceVersion, Wording, StoreTypeOK
    <2>. QED  BY <1>0, <1>1, <2>1 DEF RecordedWordingIsTrue
  <1>. QED  BY <1>7, <1>8, <1>9

\* A new source version leaves the chain and the recorded wordings as they were.
LEMMA HistoryGrows ==
  ASSUME IInv, NEW u \in Units, NEW w \in Wordings, ApplySource(u, w)
  PROVE  HeadsExist' /\ PredecessorsExist' /\ NoFork' /\ RecordedWordingIsTrue'
  <1>1. StoreTypeOK /\ RecordedWordingIsTrue
    BY DEF IInv, TypeOK
  <1>2. revisions' = revisions /\ head' = head
    BY DEF ApplySource
  <1>3. HeadsExist' /\ PredecessorsExist' /\ NoFork'
    BY <1>2 DEF IInv, HeadsExist, PredecessorsExist, NoFork, Stored
  <1>4. ASSUME NEW v \in Units, NEW i \in DOMAIN sources[v]
        PROVE  i \in DOMAIN sources'[v] /\ sources'[v][i] = sources[v][i]
    BY <1>1, <1>4 DEF ApplySource, StoreTypeOK
  <1>5. \A r \in revisions : r.unit \in Units
    BY <1>1 DEF StoreTypeOK, Revision
  <1>6. RecordedWordingIsTrue'
    BY <1>1, <1>2, <1>4, <1>5 DEF RecordedWordingIsTrue
  <1>. QED  BY <1>3, <1>6

-----------------------------------------------------------------------------
(* The invariant *)

LEMMA InitInv == Init => IInv
  <1>. SUFFICES ASSUME Init PROVE IInv
    OBVIOUS
  <1>1. TypeOK /\ Composed
    BY InitTyped
  <1>2. SnapshotsHold /\ ReadsHold
    BY DEF Init, SnapshotsHold, ReadsHold
  <1>3. HeadsExist /\ PredecessorsExist /\ NoFork /\ RecordedWordingIsTrue
    BY DEF Init, StoreInit, HeadsExist, PredecessorsExist, NoFork, RecordedWordingIsTrue,
           Targets
  <1>. QED  BY <1>1, <1>2, <1>3 DEF IInv

\* Steps of one writer that only read the store.
LEMMA ReadStepsKeepChecks ==
  ASSUME IInv, UNCHANGED <<storeVars, syncer>>, NEW c \in Writers,
         \A d \in Writers \ {c} : writer'[d] = writer[d],
         writer'[c].pc = "swap" => /\ writer'[c].rev = writer[c].rev
                                   /\ writer'[c].version = version[writer[c].rev.unit]
                                   /\ writer[c].rev \in Revision
                                   /\ Admissible(writer[c].rev)
  PROVE  SnapshotsHold' /\ ReadsHold'
  <1>1. version' = version /\ StoreTypeOK
    BY DEF IInv, TypeOK, storeVars
  <1>2. ASSUME NEW d \in Writers, writer'[d].pc = "swap"
        PROVE  /\ writer'[d].version <= version'[writer'[d].rev.unit]
               /\ writer'[d].version = version'[writer'[d].rev.unit]
                    => Admissible(writer[d].rev)'
    <2>1. PICK rev \in Revision : rev = writer[d].rev /\ rev = writer'[d].rev
      BY <1>2 DEF IInv, Composed
    <2>2. CASE d = c
      <3>1. Admissible(rev) /\ version[rev.unit] \in Nat
        BY <1>1, <1>2, <2>1, <2>2 DEF StoreTypeOK, Revision
      <3>2. Admissible(rev)'
        BY <3>1, CheckSurvivesReads
      <3>3. Admissible(writer[d].rev)'
        BY <2>1, <3>2
      <3>. QED  BY <1>1, <1>2, <2>1, <2>2, <3>1, <3>3
    <2>3. CASE d # c
      <3>1. writer'[d] = writer[d]
        BY <2>3
      <3>2. /\ writer[d].version <= version[rev.unit]
            /\ writer[d].version = version[rev.unit] => Admissible(rev)
        BY <1>2, <2>1, <3>1 DEF IInv, SnapshotsHold
      <3>3. Admissible(rev) => Admissible(rev)'
        BY CheckSurvivesReads
      <3>4. Admissible(writer[d].rev)' <=> Admissible(rev)'
        BY <2>1
      <3>. QED  BY <1>1, <2>1, <3>1, <3>2, <3>3, <3>4
    <2>. QED  BY <2>2, <2>3
  <1>3. SnapshotsHold'
    BY <1>2 DEF SnapshotsHold
  <1>4. ReadsHold'
    BY DEF IInv, ReadsHold, storeVars, SourceVersion, Wording
  <1>. QED  BY <1>3, <1>4

\* A write to unit u outdates every snapshot of u and spares the others.
LEMMA WritesOutdateChecks ==
  ASSUME IInv, NEW u \in Units, version' = [version EXCEPT ![u] = @ + 1],
         \A rev \in Revision : (rev.unit # u /\ Admissible(rev)) => Admissible(rev)',
         \A v \in Units \ {u} : sources'[v] = sources[v],
         \A d \in Writers : writer'[d].pc = "swap" => writer'[d] = writer[d],
         \A s \in Syncers : syncer'[s] # NoRequest => syncer'[s] = syncer[s]
  PROVE  SnapshotsHold' /\ ReadsHold'
  <1>1. /\ version \in [Units -> Nat]
        /\ version'[u] = version[u] + 1
        /\ \A v \in Units \ {u} : version'[v] = version[v]
    BY DEF IInv, TypeOK, StoreTypeOK
  <1>2. ASSUME NEW d \in Writers, writer'[d].pc = "swap"
        PROVE  /\ writer'[d].version <= version'[writer'[d].rev.unit]
               /\ writer'[d].version = version'[writer'[d].rev.unit]
                    => Admissible(writer[d].rev)'
    <2>1. PICK rev \in Revision : rev = writer[d].rev /\ rev = writer'[d].rev
      BY <1>2 DEF IInv, Composed
    <2>2. /\ writer'[d].version = writer[d].version
          /\ writer[d].version \in Nat
          /\ writer[d].version <= version[rev.unit]
          /\ writer[d].version = version[rev.unit] => Admissible(rev)
          /\ rev.unit \in Units
      BY <1>2, <2>1 DEF IInv, TypeOK, WriterState, SnapshotsHold, Revision
    <2>3. CASE rev.unit = u
      BY <1>1, <2>1, <2>2, <2>3
    <2>4. CASE rev.unit # u
      <3>1. Admissible(rev) => Admissible(rev)'
        BY <2>4
      <3>2. Admissible(writer[d].rev)' <=> Admissible(rev)'
        BY <2>1
      <3>. QED  BY <1>1, <2>1, <2>2, <2>4, <3>1, <3>2
    <2>. QED  BY <2>3, <2>4
  <1>3. SnapshotsHold'
    BY <1>2 DEF SnapshotsHold
  <1>4. ASSUME NEW s \in Syncers, syncer'[s] # NoRequest
        PROVE  /\ syncer'[s].version <= version'[syncer'[s].unit]
               /\ (syncer'[s].version = version'[syncer'[s].unit]
                     /\ SourceVersion(syncer[s].unit)' > 0)
                    => Wording(syncer[s].unit)' # syncer'[s].wording
    <2>1. PICK v \in Units : v = syncer[s].unit /\ v = syncer'[s].unit
      BY <1>4 DEF IInv, TypeOK, SyncerState
    <2>2. /\ syncer'[s] = syncer[s]
          /\ syncer[s].version \in Nat
          /\ syncer[s].version <= version[v]
          /\ (syncer[s].version = version[v] /\ SourceVersion(v) > 0)
               => Wording(v) # syncer[s].wording
      BY <1>4, <2>1 DEF IInv, TypeOK, SyncerState, ReadsHold
    <2>3. CASE v = u
      BY <1>1, <2>1, <2>2, <2>3
    <2>4. CASE v # u
      <3>1. SourceVersion(v)' = SourceVersion(v) /\ Wording(v)' = Wording(v)
        BY <2>4 DEF SourceVersion, Wording
      <3>. QED  BY <1>1, <2>1, <2>2, <2>4, <3>1
    <2>. QED  BY <2>3, <2>4
  <1>5. ReadsHold'
    BY <1>4 DEF ReadsHold
  <1>. QED  BY <1>3, <1>5

LEMMA NextInv == IInv /\ [Next]_vars => IInv'
  <1>. SUFFICES ASSUME IInv, [Next]_vars PROVE IInv'
    OBVIOUS
  <1>. DEFINE ChainOK == HeadsExist /\ PredecessorsExist /\ NoFork /\ RecordedWordingIsTrue
  <1>typed. TypeOK /\ Composed /\ (TypeOK /\ Composed)'
    BY NextTyped DEF IInv
  <1>writers. \A c \in Writers : writer[c] \in WriterState
    BY <1>typed DEF TypeOK
  <1>chain. UNCHANGED storeVars => ChainOK'
    BY StoreUnchanged
  <1>1. ASSUME NEW c \in Writers, NEW rev, Begin(c, rev)
        PROVE  ChainOK' /\ SnapshotsHold' /\ ReadsHold'
    BY <1>1, <1>chain, <1>typed, ReadStepsKeepChecks DEF Begin, TypeOK
  <1>2. ASSUME NEW c \in Writers, Snapshot(c)
        PROVE  ChainOK' /\ SnapshotsHold' /\ ReadsHold'
    <2>1. writer[c].rev \in Revision
      BY <1>2, <1>typed DEF Snapshot, Composed
    <2>. QED  BY <1>2, <2>1, <1>chain, <1>typed, ReadStepsKeepChecks
              DEF Snapshot, Answer, TypeOK, WriterState
  <1>3. ASSUME NEW c \in Writers, Replay(c) \/ LoseWriter(c)
        PROVE  ChainOK' /\ SnapshotsHold' /\ ReadsHold'
    BY <1>3, <1>chain, <1>typed, ReadStepsKeepChecks
       DEF Replay, LoseWriter, Answer, TypeOK, WriterState
  <1>4. ASSUME NEW c \in Writers, Swap(c)
        PROVE  ChainOK' /\ SnapshotsHold' /\ ReadsHold'
    <2>. DEFINE rev == writer[c].rev
                refused == SwapConflict(rev.unit, writer[c].version) \/ IdTaken(rev)
    <2>1. CASE refused
      BY <1>4, <2>1, <1>chain, <1>typed, ReadStepsKeepChecks DEF Swap, TypeOK, WriterState
    <2>2. CASE ~refused
      <3>1. PICK new \in Revision : /\ new = rev
                                     /\ Admissible(new)
                                     /\ ~IdTaken(new)
                                     /\ ApplyRevision(new)
                                     /\ Answer(c, "committed")
                                     /\ UNCHANGED syncer
        BY <1>4, <2>2, SwapIsChecked
      <3>2. ChainOK'
        BY <3>1, ChainGrows
      <3>3. new.unit \in Units
        BY DEF Revision
      <3>4. \A r \in Revision : (r.unit # new.unit /\ Admissible(r)) => Admissible(r)'
        BY <3>1, <1>typed, CheckSurvivesRevision DEF TypeOK
      <3>5. \A d \in Writers : writer'[d].pc = "swap" => writer'[d] = writer[d]
        BY <3>1, <1>typed DEF Answer, TypeOK, WriterState
      <3>6. version' = [version EXCEPT ![new.unit] = @ + 1] /\ sources' = sources
        BY <3>1 DEF ApplyRevision
      <3>7. SnapshotsHold' /\ ReadsHold'
        BY <3>1, <3>3, <3>4, <3>5, <3>6, WritesOutdateChecks
      <3>. QED  BY <3>2, <3>7
    <2>. QED  BY <2>1, <2>2
  <1>5. ASSUME NEW s \in Syncers, NEW u \in Units, NEW w \in Wordings, ReadSource(s, u, w)
        PROVE  ChainOK' /\ SnapshotsHold' /\ ReadsHold'
    <2>1. UNCHANGED <<storeVars, writer>>
      BY <1>5 DEF ReadSource
    <2>2. SnapshotsHold'
      BY <2>1 DEF IInv, SnapshotsHold, storeVars, Admissible, InputCurrent, MayReplace,
                  SourceVersion, Wording, ManualHead
    <2>3. ReadsHold'
      BY <1>5, <2>1, <1>typed DEF IInv, ReadsHold, ReadSource, storeVars, SourceVersion,
                                  Wording, TypeOK, StoreTypeOK, SyncerState
    <2>. QED  BY <2>1, <2>2, <2>3, <1>chain
  <1>6. ASSUME NEW s \in Syncers, SwapSource(s)
        PROVE  ChainOK' /\ SnapshotsHold' /\ ReadsHold'
    <2>1. PICK u \in Units, w \in Wordings : u = syncer[s].unit /\ w = syncer[s].wording
      BY <1>6, <1>typed DEF SwapSource, TypeOK, SyncerState
    <2>2. /\ writer' = writer
          /\ \A t \in Syncers : syncer'[t] # NoRequest => syncer'[t] = syncer[t]
      BY <1>6, <1>typed DEF SwapSource, TypeOK
    <2>3. CASE UNCHANGED storeVars
      <3>1. SnapshotsHold'
        BY <2>2, <2>3 DEF IInv, SnapshotsHold, storeVars, Admissible, InputCurrent, MayReplace,
                          SourceVersion, Wording, ManualHead
      <3>2. ReadsHold'
        BY <2>2, <2>3 DEF IInv, ReadsHold, storeVars, SourceVersion, Wording
      <3>. QED  BY <2>3, <3>1, <3>2, <1>chain
    <2>4. CASE ApplySource(u, w)
      <3>1. ChainOK'
        BY <2>4, HistoryGrows
      <3>2. \A r \in Revision : (r.unit # u /\ Admissible(r)) => Admissible(r)'
        BY <2>4, <1>typed, CheckSurvivesSource DEF TypeOK
      <3>3. /\ version' = [version EXCEPT ![u] = @ + 1]
            /\ \A v \in Units \ {u} : sources'[v] = sources[v]
        BY <2>4, <1>typed DEF ApplySource, TypeOK, StoreTypeOK
      <3>4. SnapshotsHold' /\ ReadsHold'
        BY <2>2, <3>2, <3>3, WritesOutdateChecks
      <3>. QED  BY <3>1, <3>4
    <2>. QED  BY <1>6, <2>1, <2>3, <2>4 DEF SwapSource
  <1>7. CASE UNCHANGED vars
    <2>1. SnapshotsHold' /\ ReadsHold'
      BY <1>7 DEF IInv, vars, SnapshotsHold, ReadsHold, storeVars, Admissible, InputCurrent,
                  MayReplace, SourceVersion, Wording, ManualHead
    <2>. QED  BY <1>7, <2>1, <1>typed, <1>chain DEF IInv, vars
  <1>. QED
    BY <1>1, <1>2, <1>3, <1>4, <1>5, <1>6, <1>7, <1>typed DEF Next, NewWrite, Resend, IInv

-----------------------------------------------------------------------------
(* Theorems *)

LEMMA Invariance == Spec => []IInv
  BY InitInv, NextInv, PTL DEF Spec

\* No lost update, for any number of concurrent writers: the revisions of a
\* locale form one chain ending in its head.
THEOREM NeverForks == Spec => []NoFork
  BY Invariance, PTL DEF IInv

\* Every stored revision records the wording it was really translated from.
THEOREM WordingsAreTrue == Spec => []RecordedWordingIsTrue
  BY Invariance, PTL DEF IInv

-----------------------------------------------------------------------------
(* Every step is a step of the ledger, or invisible in it *)

\* What a step does to the store: nothing, one checked revision or one new wording.
LEMMA StoreSteps ==
  ASSUME IInv, [Next]_vars
  PROVE  \/ UNCHANGED <<sources, revisions, head>>
         \/ \E rev \in Revision : Admissible(rev) /\ ~IdTaken(rev) /\ ApplyRevision(rev)
         \/ \E u \in Units, w \in Wordings :
              (SourceVersion(u) > 0 => Wording(u) # w) /\ ApplySource(u, w)
  <1>. DEFINE Goal ==
         \/ UNCHANGED <<sources, revisions, head>>
         \/ \E rev \in Revision : Admissible(rev) /\ ~IdTaken(rev) /\ ApplyRevision(rev)
         \/ \E u \in Units, w \in Wordings :
              (SourceVersion(u) > 0 => Wording(u) # w) /\ ApplySource(u, w)
  <1>1. ASSUME UNCHANGED storeVars PROVE Goal
    BY <1>1 DEF storeVars
  <1>2. ASSUME NEW c \in Writers, Swap(c) PROVE Goal
    <2>1. CASE SwapConflict(writer[c].rev.unit, writer[c].version) \/ IdTaken(writer[c].rev)
      BY <1>1, <1>2, <2>1 DEF Swap
    <2>2. CASE ~(SwapConflict(writer[c].rev.unit, writer[c].version) \/ IdTaken(writer[c].rev))
      BY <1>2, <2>2, SwapIsChecked
    <2>. QED  BY <2>1, <2>2
  <1>3. ASSUME NEW s \in Syncers, SwapSource(s) PROVE Goal
    <2>1. syncer[s].unit \in Units /\ syncer[s].wording \in Wordings
      BY <1>3 DEF IInv, TypeOK, SwapSource, SyncerState
    <2>2. CASE SwapConflict(syncer[s].unit, syncer[s].version)
      BY <1>1, <1>3, <2>2 DEF SwapSource
    <2>3. CASE ~SwapConflict(syncer[s].unit, syncer[s].version)
      <3>1. SourceVersion(syncer[s].unit) > 0 => Wording(syncer[s].unit) # syncer[s].wording
        BY <1>3, <2>3 DEF IInv, ReadsHold, SwapSource, SwapConflict
      <3>. QED  BY <1>3, <2>1, <2>3, <3>1 DEF SwapSource
    <2>. QED  BY <2>2, <2>3
  <1>4. UNCHANGED storeVars \/ (\E c \in Writers : Swap(c)) \/ (\E s \in Syncers : SwapSource(s))
    <2>1. ASSUME NEW c \in Writers, NEW rev, Begin(c, rev) PROVE UNCHANGED storeVars
      BY <2>1 DEF Begin
    <2>2. ASSUME NEW c \in Writers, Snapshot(c) \/ Replay(c) \/ LoseWriter(c)
          PROVE  UNCHANGED storeVars
      BY <2>2 DEF Snapshot, Replay, LoseWriter
    <2>3. ASSUME NEW s \in Syncers, NEW u \in Units, NEW w \in Wordings, ReadSource(s, u, w)
          PROVE  UNCHANGED storeVars
      BY <2>3 DEF ReadSource
    <2>4. CASE UNCHANGED vars
      BY <2>4 DEF vars
    <2>. HIDE DEF Goal
    <2>. QED  BY <2>1, <2>2, <2>3, <2>4 DEF Next, NewWrite, Resend
  <1>. HIDE DEF Goal
  <1>5. Goal
    BY <1>1, <1>2, <1>3, <1>4
  <1>. QED  BY <1>5 DEF Goal

LEMMA HeadStep ==
  ASSUME IInv, [Next]_vars
  PROVE  [\A t \in Targets : head'[t] # head[t] => ~Stored(t[1], t[2], head'[t])]_<<head, revisions>>
  <1>1. ASSUME NEW rev \in Revision, ~IdTaken(rev), ApplyRevision(rev),
               NEW t \in Targets, head'[t] # head[t]
        PROVE  ~Stored(t[1], t[2], head'[t])
    <2>1. t = <<rev.unit, rev.locale>> /\ head'[t] = rev.id
      BY <1>1 DEF ApplyRevision, IInv, TypeOK, StoreTypeOK
    <2>. QED  BY <1>1, <2>1 DEF IdTaken
  <1>. QED  BY <1>1, StoreSteps DEF ApplySource

\* A head only ever moves forward, to a revision that is new at that moment: a
\* retried write acknowledges history and never restores it.
THEOREM HeadsMoveForward == Spec => HeadNeverRestored
  BY Invariance, HeadStep, PTL DEF Spec, HeadNeverRestored

LEMMA AckStep ==
  ASSUME IInv, AckedMeansStored, [Next]_vars
  PROVE  AckedMeansStored'
  <1>. DEFINE Acked(c) == writer[c].answer \in {"committed", "already-committed"}
  <1>typed. \A c \in Writers : writer[c] \in WriterState
    BY DEF IInv, TypeOK
  <1>dom. writer \in [Writers -> WriterState]
    BY DEF IInv, TypeOK
  <1>kept. revisions \subseteq revisions'
    BY StoreSteps DEF ApplyRevision, ApplySource
  <1>same. ASSUME NEW c \in Writers, \A d \in Writers \ {c} : writer'[d] = writer[d],
                  Acked(c)' => writer'[c].rev \in revisions'
           PROVE  AckedMeansStored'
    BY <1>same, <1>kept DEF AckedMeansStored
  <1>begin. ASSUME NEW c \in Writers, NEW rev, Begin(c, rev)
            PROVE  AckedMeansStored'
    <2>1. /\ \A d \in Writers \ {c} : writer'[d] = writer[d]
          /\ writer'[c].rev = rev
          /\ Acked(c)' => rev \in revisions
      BY <1>begin, <1>dom DEF Begin, ReplayAnswer
    <2>. QED  BY <2>1, <1>kept, <1>same
  <1>answer. ASSUME NEW c \in Writers, NEW answer, Answer(c, answer),
                    answer \in {"committed", "already-committed"} => writer[c].rev \in revisions'
             PROVE  AckedMeansStored'
    <2>1. /\ \A d \in Writers \ {c} : writer'[d] = writer[d]
          /\ writer'[c].rev = writer[c].rev
          /\ writer'[c].answer = answer
      BY <1>answer, <1>dom, <1>typed DEF Answer, WriterState
    <2>. QED  BY <2>1, <1>answer, <1>same
  <1>1. ASSUME NEW c \in Writers, NEW u \in Units, NEW l \in Locales, NEW id \in Ids,
               NEW offer \in Offers, NewWrite(c, u, l, id, offer)
        PROVE  AckedMeansStored'
    BY <1>1, <1>begin DEF NewWrite
  <1>2. ASSUME NEW c \in Writers, NEW d \in Writers, Resend(c, d)
        PROVE  AckedMeansStored'
    BY <1>2, <1>begin DEF Resend
  <1>3. ASSUME NEW c \in Writers, Snapshot(c) \/ Swap(c) \/ Replay(c) \/ LoseWriter(c)
        PROVE  AckedMeansStored'
    <2>1. ASSUME NEW pc, NEW v, writer' = [writer EXCEPT ![c].pc = pc, ![c].version = v]
          PROVE  AckedMeansStored'
      <3>1. /\ \A d \in Writers \ {c} : writer'[d] = writer[d]
            /\ writer'[c].rev = writer[c].rev
            /\ writer'[c].answer = writer[c].answer
        BY <2>1, <1>dom, <1>typed DEF WriterState
      <3>. QED  BY <3>1, <1>kept, <1>same DEF AckedMeansStored
    <2>2. ASSUME NEW pc, writer' = [writer EXCEPT ![c].pc = pc]
          PROVE  AckedMeansStored'
      <3>1. /\ \A d \in Writers \ {c} : writer'[d] = writer[d]
            /\ writer'[c].rev = writer[c].rev
            /\ writer'[c].answer = writer[c].answer
        BY <2>2, <1>dom, <1>typed DEF WriterState
      <3>. QED  BY <3>1, <1>kept, <1>same DEF AckedMeansStored
    <2>3. CASE Snapshot(c)
      BY <2>1, <2>3, <1>answer DEF Snapshot
    <2>4. CASE Swap(c)
      BY <2>2, <2>4, <1>answer DEF Swap, ApplyRevision
    <2>5. CASE Replay(c)
      BY <2>5, <1>answer, <1>kept DEF Replay, ReplayAnswer
    <2>6. CASE LoseWriter(c)
      BY <2>6, <1>answer DEF LoseWriter
    <2>. QED  BY <1>3, <2>3, <2>4, <2>5, <2>6
  <1>4. CASE UNCHANGED writer
    BY <1>4, <1>kept DEF AckedMeansStored
  <1>. QED
    BY <1>1, <1>2, <1>3, <1>4 DEF Next, ReadSource, SwapSource, vars

\* A caller that is told its write is committed finds exactly its own revision.
THEOREM AcksAreTrue == Spec => []AckedMeansStored
  <1>1. Init => AckedMeansStored
    BY DEF Init, AckedMeansStored
  <1>. QED  BY <1>1, AckStep, Invariance, PTL DEF Spec

LEMMA InitRefines == Init => Ledger!Init
  BY DEF Init, StoreInit, Targets, Ledger!Init

LEMMA NextRefines ==
  ASSUME IInv, [Next]_vars
  PROVE  [Ledger!Next]_(Ledger!vars)
  <1>1. StoreTypeOK
    BY DEF IInv, TypeOK
  <1>. QED
    BY <1>1, StoreSteps, RevisionIsLedgerStep, SourceIsLedgerStep DEF Ledger!vars

\* Callers cannot tell the optimistic read-check-swap protocol from a ledger that
\* checks and writes in one step.
THEOREM RefinesLedger == Spec => ImplementsLedger
  BY Invariance, InitRefines, NextRefines, PTL DEF Spec, ImplementsLedger, Ledger!Spec
=============================================================================

------------------------- MODULE RevisionLifecycle --------------------------
(***************************************************************************)
(* TranslationLifecycle (revisions.ts) run by concurrent callers against   *)
(* one store. write() is an await chain: look for a replay, read a         *)
(* snapshot and check the intent against it, compare-and-swap, and on a    *)
(* conflict look for a replay again; other callers run between any two of  *)
(* those. syncSource() reads and then swaps. A caller whose reply is lost  *)
(* may send the same intent again, from the same or another process.       *)
(***************************************************************************)
EXTENDS TranslationStore

CONSTANTS
  Writers,     \* concurrent write() calls
  Syncers,     \* concurrent syncSource() calls
  Offers,      \* <<provenance, text>> pairs that callers write
  NoRequest,   \* a caller that has made no request yet
  MaxSources   \* bound: source versions of one unit

ASSUME LifecycleAssumption == /\ MaxSources \in Nat
                              /\ Offers \subseteq Provenances \X Texts

VARIABLES
  writer,      \* write() calls: pc, intent, snapshot version and answer
  syncer       \* syncSource() calls between their read and their swap

vars == <<storeVars, writer, syncer>>

Answers == {"none", "committed", "already-committed", "revision-id-conflict",
            "rejected", "concurrent-write"}

WriterState == [pc : {"idle", "snapshot", "swap", "replay"},
                rev : Revision \cup {NoRequest}, version : Nat, answer : Answers]
SyncerState == [unit : Units, wording : Wordings, version : Nat] \cup {NoRequest}

TypeOK == /\ StoreTypeOK
          /\ writer \in [Writers -> WriterState]
          /\ syncer \in [Syncers -> SyncerState]

Init == /\ StoreInit
        /\ writer = [c \in Writers |-> [pc |-> "idle", rev |-> NoRequest,
                                        version |-> 0, answer |-> "none"]]
        /\ syncer = [s \in Syncers |-> NoRequest]

-----------------------------------------------------------------------------
(* write() *)

\* The conflict of the swap leaks to the caller: not what the code does.
ReplayAnswerLeaksConflict(rev) == IF rev \in revisions THEN "already-committed" ELSE "conflict"

\* replay(): exactly the stored revision, something else under that id, or nothing.
ReplayAnswer(rev) == IF rev \in revisions THEN "already-committed" ELSE "revision-id-conflict"

Answer(c, answer) ==
  writer' = [writer EXCEPT ![c].pc = "idle", ![c].version = 0, ![c].answer = answer]

\* The replay lookup that opens write().
Begin(c, rev) ==
  /\ writer' = [writer EXCEPT ![c] =
       IF IdTaken(rev)
       THEN [pc |-> "idle", rev |-> rev, version |-> 0, answer |-> ReplayAnswer(rev)]
       ELSE [pc |-> "snapshot", rev |-> rev, version |-> 0, answer |-> "none"]]
  /\ UNCHANGED <<storeVars, syncer>>

\* A caller composes an intent from what the store shows it now.
NewWrite(c, u, l, id, offer) ==
  /\ writer[c].pc = "idle"
  /\ SourceVersion(u) > 0
  /\ Begin(c, [unit |-> u, locale |-> l, id |-> id, provenance |-> offer[1],
               sourceVersion |-> SourceVersion(u), wording |-> Wording(u),
               expectedHead |-> head[<<u, l>>], text |-> offer[2]])

\* An intent sent before is sent again, unchanged.
Resend(c, d) ==
  /\ writer[c].pc = "idle"
  /\ writer[d].rev # NoRequest
  /\ Begin(c, writer[d].rev)

Snapshot(c) ==
  /\ writer[c].pc = "snapshot"
  /\ IF Admissible(writer[c].rev)
     THEN writer' = [writer EXCEPT ![c].pc = "swap", ![c].version = version[writer[c].rev.unit]]
     ELSE Answer(c, "rejected")
  /\ UNCHANGED <<storeVars, syncer>>

\* The database probes the id but not the version: not what the code does.
SwapIgnoringVersion(c) ==
  LET rev == writer[c].rev
  IN /\ writer[c].pc = "swap"
     /\ IF IdTaken(rev)
        THEN writer' = [writer EXCEPT ![c].pc = "replay"] /\ UNCHANGED storeVars
        ELSE ApplyRevision(rev) /\ Answer(c, "committed")
     /\ UNCHANGED syncer

Swap(c) ==
  LET rev == writer[c].rev
  IN /\ writer[c].pc = "swap"
     /\ IF SwapConflict(rev.unit, writer[c].version) \/ IdTaken(rev)
        THEN writer' = [writer EXCEPT ![c].pc = "replay"] /\ UNCHANGED storeVars
        ELSE ApplyRevision(rev) /\ Answer(c, "committed")
     /\ UNCHANGED syncer

\* Any revision under the id passes for a replay: not what the code does.
ReplayAcksAnything(c) ==
  LET rev == writer[c].rev
  IN /\ writer[c].pc = "replay"
     /\ Answer(c, IF IdTaken(rev) THEN "already-committed" ELSE "concurrent-write")
     /\ UNCHANGED <<storeVars, syncer>>

Replay(c) ==
  LET rev == writer[c].rev
  IN /\ writer[c].pc = "replay"
     /\ Answer(c, IF IdTaken(rev) THEN ReplayAnswer(rev) ELSE "concurrent-write")
     /\ UNCHANGED <<storeVars, syncer>>

\* The caller dies or its reply is lost: it learns nothing.
LoseWriter(c) ==
  /\ writer[c].pc # "idle" \/ writer[c].answer # "none"
  /\ Answer(c, "none")
  /\ UNCHANGED <<storeVars, syncer>>

-----------------------------------------------------------------------------
(* syncSource() *)

\* The read: the expected source version is the stored one, the wording is new.
ReadSource(s, u, w) ==
  /\ syncer[s] = NoRequest
  /\ SourceVersion(u) < MaxSources
  /\ SourceVersion(u) > 0 => Wording(u) # w
  /\ syncer' = [syncer EXCEPT ![s] = [unit |-> u, wording |-> w, version |-> version[u]]]
  /\ UNCHANGED <<storeVars, writer>>

SwapSource(s) ==
  LET u == syncer[s].unit
  IN /\ syncer[s] # NoRequest
     /\ IF SwapConflict(u, syncer[s].version) THEN UNCHANGED storeVars
                                              ELSE ApplySource(u, syncer[s].wording)
     /\ syncer' = [syncer EXCEPT ![s] = NoRequest]
     /\ UNCHANGED writer

-----------------------------------------------------------------------------
Next ==
  \/ \E c \in Writers, u \in Units, l \in Locales, id \in Ids, offer \in Offers :
       NewWrite(c, u, l, id, offer)
  \/ \E c, d \in Writers : Resend(c, d)
  \/ \E c \in Writers : Snapshot(c) \/ Swap(c) \/ Replay(c) \/ LoseWriter(c)
  \/ \E s \in Syncers, u \in Units, w \in Wordings : ReadSource(s, u, w)
  \/ \E s \in Syncers : SwapSource(s)

Spec == Init /\ [][Next]_vars

-----------------------------------------------------------------------------
(* Properties *)

\* No lost update: the revisions of a locale form one chain. Two revisions of
\* it never replaced the same head, and nothing replaced the current head,
\* whatever the callers raced on (the version swap of compareAndSwap).
NoFork ==
  \A r \in revisions :
    /\ r.expectedHead # head[<<r.unit, r.locale>>]
    /\ \A q \in revisions : (q.unit = r.unit /\ q.locale = r.locale
                              /\ q.expectedHead = r.expectedHead) => q = r

\* A revision names the wording it was translated from: the fingerprint it
\* records is that of the source version it records, for ever, so translation
\* memory (findApprovedHead) matches on the truth.
RecordedWordingIsTrue ==
  \A r \in revisions : /\ r.sourceVersion \in DOMAIN sources[r.unit]
                       /\ sources[r.unit][r.sourceVersion] = r.wording
                       /\ <<r.wording, r.text>> \in Renders

\* An acknowledgement is about this very intent: a caller told "committed" or
\* "already-committed" finds its own revision, not another under the same id.
AckedMeansStored ==
  \A c \in Writers : writer[c].answer \in {"committed", "already-committed"}
                       => writer[c].rev \in revisions

\* "Retry acknowledges immutable history; it never restores an old head": a
\* head only ever moves to a revision that did not exist before.
HeadNeverRestored ==
  [][\A t \in Targets : head'[t] # head[t] => ~Stored(t[1], t[2], head'[t])]_<<head, revisions>>

\* The optimistic read-check-swap protocol is indistinguishable, for a reader
\* of the store, from a ledger that checks and writes in one step.
ImplementsLedger == Ledger!Spec
=============================================================================

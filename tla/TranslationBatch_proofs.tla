---------------------- MODULE TranslationBatch_proofs ----------------------
(***************************************************************************)
(* Proofs about reviewed batches, for any number of administrators' calls, *)
(* batches and items: what a closed allowance reports is what was spent,   *)
(* an allowance without a live batch is closed, and no call takes a batch  *)
(* back.                                                                   *)
(*                                                                         *)
(* The argument: from the moment its lifecycle row exists nobody picks an  *)
(* item of a batch again, so that an item which the second pass finds out  *)
(* of its lease stays as it was counted; and a row that a call has read    *)
(* can be swapped only while it says what it said, which is before the     *)
(* batch was funded, or after it was cancelled.                            *)
(***************************************************************************)
EXTENDS TranslationBatch, FiniteSetTheorems, WellFoundedInduction, TLAPS

-----------------------------------------------------------------------------
(* The inductive invariant *)

Ending(row)    == row.phase \in {"cancelling", "closed"}
Committed(row) == row.policy \/ Ending(row)

ClaimedPCs == {"claimed", "reserve", "reserved", "dispatch", "sent", "calling", "fence",
               "settle", "unknown", "release", "end"}
FundingPCs == {"allocate", "record", "archive", "replace", "fund", "create", "created", "funded"}
PCs == {"idle", "approve", "enqueue", "progress", "pick", "finish", "claim", "cancel",
        "refer", "freeze", "frozen", "pass", "close"} \cup ClaimedPCs \cup FundingPCs

CallState == [pc : PCs, batch : Batches \cup {None}, row : Row \cup {None}, item : Nat,
              prior : Batches \cup Life \cup {None}, next : Row \cup Life \cup {None},
              left : Int, count : BOOLEAN]

\* Nobody can claim the job any more, nobody holds its lease and nothing is on
\* hold for it: what its request has cost is decided.
Unclaimable(k) == job[k] = "ended" \/ \A c \in Calls : ~(At(c, "claim") /\ Key(c) = k)

Settled(k) == /\ life[k[1]] # None
              /\ job[k] # "leased" /\ attempt[k] # "reserved"
              /\ Unclaimable(k)

First(b, n) == {b} \X (0..(n-1))

TallyOf(f, b, n, states) == Cardinality({k \in First(b, n) : f[k] \in states})
Tally(b, n, states)      == TallyOf(attempt, b, n, states)

AreTrue(b, n, spent, released) ==
  /\ \A k \in First(b, n) : Settled(k)
  /\ spent = Tally(b, n, Spent)
  /\ released = Tally(b, n, {"released"})

\* What a lifecycle record says of the items before its cursor is settled, and right.
IsTrue(p, b) ==
  /\ p.stage = "cancel" => p.consumed = 0 /\ p.unknown = 0 /\ p.released = 0
  /\ p.stage = "reconcile" => /\ p.cursor <= Size[b]
                              /\ AreTrue(b, p.cursor, p.consumed + p.unknown, p.released)
  /\ p.stage = "review" => AreTrue(b, Size[b], p.consumed + p.unknown, p.released)
  /\ p.stage = "closed" => AreTrue(b, Size[b], p.consumed, p.released)

LifeIsTrue == \A b \in Batches : life[b] # None => IsTrue(life[b], b)

\* A batch with an allowance has been approved, and is closed only with it.
AllowancesAgree ==
  /\ \A b \in allowed : current = b \/ Closed(b)
  /\ \A b \in Batches : (current = b \/ b \in allowed) =>
       batch[b].phase # "planned" /\ (batch[b].phase = "closed" => Closed(b))

\* The row that a call has read, and how the batch went on since.
RowAgrees(w) ==
  /\ w.pc # "idle" => /\ w.batch \in Batches /\ w.row \in Row
                      /\ w.row.phase # "planned" => batch[w.batch].phase # "planned"
  /\ w.pc = "approve" => w.row.phase = "planned"
  /\ w.pc \in FundingPCs => w.row.phase \in {"preparing", "queued"}
  /\ w.pc \in {"enqueue", "progress"} => w.row.phase = "preparing" /\ w.row.policy
  /\ w.pc \in {"pick", "finish"} => w.row.phase = "queued" /\ w.row.policy
  /\ w.pc = "cancel" => /\ w.row.phase \in {"preparing", "queued", "done"}
                        /\ batch[w.batch] = w.row \/ Committed(batch[w.batch])
  /\ w.pc \in {"refer", "freeze", "frozen", "pass"} =>
       /\ w.row.phase \notin {"planned", "closed"}
       /\ ~w.row.policy => Ending(w.row) /\ Ending(batch[w.batch])

\* The row that a call is about to write when it closes a batch.
CloseAgrees(w) ==
  w.pc = "close" =>
    /\ w.next \in Row /\ Ending(w.next) /\ w.row.phase # "closed"
    /\ w.next.cursor = w.row.cursor /\ (w.row.policy => w.next.policy)
    /\ w.next.phase = "closed" =>
         \/ w.row.phase = "planned"
         \/ Closed(w.batch)
         \/ Ending(batch[w.batch]) /\ current # w.batch /\ w.batch \notin allowed

\* The allowance that a starting call creates, or replaces.
FundingAgrees(w) ==
  /\ w.pc \in {"fund", "create"} => current = w.batch \/ Closed(w.batch)
  /\ w.pc \in {"archive", "replace"} => w.prior \in Batches /\ Closed(w.prior)

\* The item a call works on was enqueued, and leased once the call has claimed it.
WorkAgrees(w) ==
  /\ w.pc \in {"claim"} \cup ClaimedPCs => <<w.batch, w.item>> \in Items
  /\ w.pc = "claim" => job[<<w.batch, w.item>>] # "none"
  /\ w.pc \in ClaimedPCs => job[<<w.batch, w.item>>] \in {"leased", "ended"}

\* What a closing call has read, and counted, of the lifecycle.
ClosingAgrees(w) ==
  /\ w.pc \in {"frozen", "pass"} => /\ w.prior \in Life /\ w.prior.stage # "closed"
                                    /\ life[w.batch] # None
                                    /\ IsTrue(w.prior, w.batch)
  /\ w.pc = "pass" => /\ w.next \in Life /\ w.next.stage # "closed"
                      /\ IsTrue(w.next, w.batch)

Agrees(w) == /\ RowAgrees(w) /\ CloseAgrees(w) /\ FundingAgrees(w)
             /\ WorkAgrees(w) /\ ClosingAgrees(w)

IInv == /\ TypeOK /\ call \in [Calls -> CallState]
        /\ LifeIsTrue
        /\ AllowancesAgree
        /\ \A c \in Calls : Agrees(call[c])

-----------------------------------------------------------------------------
(* Items and counts *)

LEMMA ItemsAre ==
  ASSUME NEW b \in Batches, NEW i
  PROVE  <<b, i>> \in Items <=> i \in 0..(Size[b]-1)
  BY DEF Items

LEMMA FirstAreItems ==
  ASSUME NEW b \in Batches, NEW n \in Nat, n <= Size[b]
  PROVE  First(b, n) \subseteq Items
  <1>1. Size[b] \in Nat
    BY BatchAssumption
  <1>2. 0..(n-1) \subseteq 0..(Size[b]-1)
    BY <1>1
  <1>. QED  BY <1>2 DEF First, Items

LEMMA ItemsOfBatch ==
  ASSUME NEW b \in Batches
  PROVE  {k \in Items : k[1] = b} = First(b, Size[b])
  <1>1. ASSUME NEW k \in Items, k[1] = b
        PROVE  k \in First(b, Size[b])
    <2>1. PICK a \in Batches : k \in {a} \X (0..Size[a]-1)
      BY <1>1 DEF Items
    <2>2. k[1] = a
      BY <2>1
    <2>. QED  BY <1>1, <2>1, <2>2 DEF First
  <1>2. ASSUME NEW k \in First(b, Size[b])
        PROVE  k \in Items /\ k[1] = b
    BY DEF First, Items
  <1>. QED  BY <1>1, <1>2

LEMMA FirstFinite ==
  ASSUME NEW b \in Batches, NEW n \in Nat
  PROVE  IsFiniteSet(First(b, n))
  <1>1. IsFiniteSet(0..(n-1))
    <2>1. 0 \in Int /\ n - 1 \in Int
      OBVIOUS
    <2>. QED  BY <2>1, FS_Interval
  <1>2. IsFiniteSet({b})
    BY FS_Singleton
  <1>. QED  BY <1>1, <1>2, FS_Product DEF First

\* Nothing is counted before the first item.
LEMMA CountsNothing ==
  ASSUME NEW b \in Batches
  PROVE  First(b, 0) = {} /\ \A f, states : TallyOf(f, b, 0, states) = 0
  <1>1. First(b, 0) = {}
    BY DEF First
  <1>. QED  BY <1>1, FS_EmptySet DEF TallyOf

\* One more item counts once.
LEMMA CountsOneMore ==
  ASSUME NEW b \in Batches, NEW n \in Nat, NEW f, NEW states
  PROVE  /\ TallyOf(f, b, n, states) \in Nat
         /\ TallyOf(f, b, n + 1, states) =
              TallyOf(f, b, n, states) + (IF f[<<b, n>>] \in states THEN 1 ELSE 0)
  <1>. DEFINE S == {k \in First(b, n) : f[k] \in states}
              T == {k \in First(b, n + 1) : f[k] \in states}
  <1>1. IsFiniteSet(S)
    BY FirstFinite, FS_Subset
  <1>2. First(b, n + 1) = First(b, n) \cup {<<b, n>>} /\ <<b, n>> \notin First(b, n)
    <2>1. 0..((n + 1) - 1) = 0..(n - 1) \cup {n} /\ n \notin 0..(n - 1)
      OBVIOUS
    <2>2. ASSUME NEW A
          PROVE  {b} \X (A \cup {n}) = ({b} \X A) \cup {<<b, n>>}
      OBVIOUS
    <2>. QED  BY <2>1, <2>2 DEF First
  <1>3. T = IF f[<<b, n>>] \in states THEN S \cup {<<b, n>>} ELSE S
    BY <1>2
  <1>4. <<b, n>> \notin S
    BY <1>2
  <1>5. Cardinality(S) \in Nat
    BY <1>1, FS_CardinalityType
  <1>6. Cardinality(S \cup {<<b, n>>}) = Cardinality(S) + 1
    BY <1>1, <1>4, FS_AddElement
  <1>7. TallyOf(f, b, n, states) = Cardinality(S) /\ TallyOf(f, b, n + 1, states) = Cardinality(T)
    BY DEF TallyOf
  <1>. HIDE DEF S, T
  <1>. QED  BY <1>3, <1>5, <1>6, <1>7

-----------------------------------------------------------------------------
(* What a step may do to the host and to the ledger *)

\* A row that was approved goes on, and then with its allowance or to its end.
RowMoves(old, new) ==
  /\ Rank(new.phase) >= Rank(old.phase)
  /\ new.cursor >= old.cursor /\ (old.policy => new.policy)
  /\ new = old \/ old.phase = "planned" \/ Committed(new)

HostMoves ==
  /\ \A b \in Batches : RowMoves(batch[b], batch'[b])
  /\ \A b \in Batches : batch'[b].phase = "closed" =>
       \/ batch[b].phase = "closed"
       \/ Closed(b)
       \/ current # b /\ b \notin allowed
  /\ current' # current => /\ current = None \/ Closed(current)
                           /\ batch[current'].phase \in {"preparing", "queued"}
  /\ \A b \in allowed' : \/ b \in allowed
                         \/ current = b
                         \/ Closed(b) /\ batch[b].phase # "planned"
  /\ batch' = batch \/ (current' = current /\ allowed' = allowed)

LifeMoves ==
  \A b \in Batches : \/ life'[b] = life[b]
                     \/ life'[b] # None /\ ~Closed(b) /\ IsTrue(life'[b], b)

JobMoves(k) ==
  \/ job'[k] = job[k]
  \/ job[k] = "none" /\ job'[k] = "queued"
  \/ job[k] \in {"queued", "leased"} /\ job'[k] = "ended"
  \/ job[k] = "queued" /\ job'[k] = "leased" /\ \E c \in Calls : At(c, "claim") /\ Key(c) = k

AttemptMoves(k) ==
  \/ attempt'[k] = attempt[k]
  \/ job[k] = "leased" /\ attempt[k] \in {"none", "reserved"}
  \/ attempt[k] = "reserved" /\ attempt'[k] = "released"
  \/ attempt[k] = "dispatched" /\ attempt'[k] \in {"settled", "uncertain"}

Moves == /\ TypeOK'
         /\ HostMoves /\ LifeMoves
         /\ \A k \in Items : JobMoves(k) /\ AttemptMoves(k)

\* Nobody picks an item of a batch that has a lifecycle row.
PicksOpen(v) == v.pc = "claim" => life[v.batch] = None

LEMMA PhasesMove ==
  ASSUME NEW old \in Row, NEW new \in Row, RowMoves(old, new)
  PROVE  /\ Ending(old) => Ending(new)
         /\ old.phase # "planned" => new.phase # "planned"
         /\ Committed(old) => Committed(new)
  <1>1. old.phase \in Phases /\ new.phase \in Phases
    BY DEF Row
  <1>2. Rank(new.phase) >= Rank(old.phase) /\ (old.policy => new.policy)
    BY DEF RowMoves
  <1>3. Ending(old) => Ending(new)
    BY <1>1, <1>2 DEF Ending, Phases, Rank
  <1>4. old.phase # "planned" => new.phase # "planned"
    BY <1>1, <1>2 DEF Phases, Rank
  <1>. QED  BY <1>2, <1>3, <1>4 DEF Committed

LEMMA ClosedStays ==
  ASSUME NEW b \in Batches, LifeMoves
  PROVE  /\ Closed(b) => Closed(b)'
         /\ life[b] # None => (life[b] # None)'
  BY DEF LifeMoves, Closed

\* A decided item stays decided, and counts for what it did.
LEMMA SettledStays ==
  ASSUME IInv, Moves,
         NEW c \in Calls, NEW v \in CallState, call' = [call EXCEPT ![c] = v], PicksOpen(v),
         NEW k \in Items, Settled(k)
  PROVE  /\ Settled(k)'
         /\ \A states \in {Spent, {"released"}} : attempt'[k] \in states <=> attempt[k] \in states
  <1>1. k[1] \in Batches
    BY DEF Items
  <1>2. life[k[1]] # None /\ job[k] # "leased" /\ attempt[k] # "reserved" /\ Unclaimable(k)
    BY DEF Settled
  <1>3. life'[k[1]] # None
    BY <1>1, <1>2, ClosedStays DEF Moves
  <1>4. JobMoves(k) /\ AttemptMoves(k)
    BY DEF Moves
  <1>5. job'[k] # "leased" /\ (job[k] = "ended" => job'[k] = "ended")
    BY <1>2, <1>4 DEF JobMoves, Unclaimable
  <1>6. Unclaimable(k)'
    <2>1. CASE job[k] = "ended"
      BY <1>5, <2>1 DEF Unclaimable
    <2>2. CASE job[k] # "ended"
      <3>1. SUFFICES ASSUME NEW o \in Calls, At(o, "claim")', (Key(o) = k)'
                     PROVE  FALSE
        BY DEF Unclaimable
      <3>2. CASE o = c
        <4>1. call'[o] = v
          BY <3>2 DEF IInv
        <4>2. v.pc = "claim" /\ v.batch = k[1]
          BY <3>1, <4>1 DEF At, Key
        <4>. QED  BY <1>2, <4>2 DEF PicksOpen
      <3>3. CASE o # c
        <4>1. call'[o] = call[o]
          BY <3>3 DEF IInv
        <4>. QED  BY <1>2, <2>2, <3>1, <4>1 DEF At, Key, Unclaimable
      <3>. QED  BY <3>2, <3>3
    <2>. QED  BY <2>1, <2>2
  <1>7. attempt'[k] # "reserved"
        /\ \A states \in {Spent, {"released"}} : attempt'[k] \in states <=> attempt[k] \in states
    BY <1>2, <1>4 DEF AttemptMoves, Spent
  <1>. QED  BY <1>3, <1>5, <1>6, <1>7 DEF Settled

LEMMA AreTrueStays ==
  ASSUME IInv, Moves,
         NEW c \in Calls, NEW v \in CallState, call' = [call EXCEPT ![c] = v], PicksOpen(v),
         NEW b \in Batches, NEW n \in Nat, n <= Size[b], NEW spent, NEW released,
         AreTrue(b, n, spent, released)
  PROVE  AreTrue(b, n, spent, released)'
  <1>1. First(b, n) \subseteq Items
    BY FirstAreItems
  <1>2. \A k \in First(b, n) : Settled(k)
    BY DEF AreTrue
  <1>3. \A k \in First(b, n) : /\ Settled(k)'
                               /\ attempt'[k] \in Spent <=> attempt[k] \in Spent
                               /\ attempt'[k] \in {"released"} <=> attempt[k] \in {"released"}
    BY <1>1, <1>2, SettledStays
  <1>4. {k \in First(b, n) : attempt'[k] \in Spent} = {k \in First(b, n) : attempt[k] \in Spent}
    BY <1>3
  <1>5. {k \in First(b, n) : attempt'[k] \in {"released"}}
          = {k \in First(b, n) : attempt[k] \in {"released"}}
    BY <1>3
  <1>6. Tally(b, n, Spent)' = Tally(b, n, Spent)
    BY <1>4 DEF Tally, TallyOf, First
  <1>7. Tally(b, n, {"released"})' = Tally(b, n, {"released"})
    BY <1>5 DEF Tally, TallyOf, First
  <1>8. \A k \in First(b, n)' : Settled(k)'
    BY <1>3 DEF First
  <1>. QED  BY <1>6, <1>7, <1>8 DEF AreTrue, Spent

LEMMA IsTrueStays ==
  ASSUME IInv, Moves,
         NEW c \in Calls, NEW v \in CallState, call' = [call EXCEPT ![c] = v], PicksOpen(v),
         NEW b \in Batches, NEW p \in Life, IsTrue(p, b)
  PROVE  IsTrue(p, b)'
  <1>1. Size[b] \in Nat /\ p.cursor \in Nat /\ Size[b] <= Size[b]
    BY BatchAssumption DEF Life
  <1>2. ASSUME p.stage = "reconcile"
        PROVE  p.cursor <= Size[b] /\ AreTrue(b, p.cursor, p.consumed + p.unknown, p.released)'
    BY <1>1, <1>2, AreTrueStays DEF IsTrue
  <1>3. ASSUME p.stage = "review"
        PROVE  AreTrue(b, Size[b], p.consumed + p.unknown, p.released)'
    BY <1>1, <1>3, AreTrueStays DEF IsTrue
  <1>4. ASSUME p.stage = "closed"
        PROVE  AreTrue(b, Size[b], p.consumed, p.released)'
    BY <1>1, <1>4, AreTrueStays DEF IsTrue
  <1>. QED  BY <1>2, <1>3, <1>4 DEF IsTrue

-----------------------------------------------------------------------------
(* What the calls remember stays true *)

LEMMA RowAgreesStays ==
  ASSUME IInv, Moves, NEW w \in CallState, RowAgrees(w)
  PROVE  RowAgrees(w)'
  <1>1. CASE w.pc = "idle"
    BY <1>1 DEF RowAgrees, FundingPCs
  <1>2. CASE w.pc # "idle"
    <2>1. w.batch \in Batches /\ w.row \in Row
      BY <1>2 DEF RowAgrees
    <2>2. batch[w.batch] \in Row /\ batch'[w.batch] \in Row
      BY <2>1 DEF IInv, Moves, TypeOK
    <2>3. RowMoves(batch[w.batch], batch'[w.batch])
      BY <2>1 DEF Moves, HostMoves
    <2>4. /\ Ending(batch[w.batch]) => Ending(batch'[w.batch])
          /\ Committed(batch[w.batch]) => Committed(batch'[w.batch])
          /\ batch[w.batch].phase # "planned" => batch'[w.batch].phase # "planned"
      BY <2>2, <2>3, PhasesMove
    <2>5. w.pc = "cancel" => batch'[w.batch] = w.row \/ Committed(batch'[w.batch])
      BY <2>3, <2>4 DEF RowAgrees, RowMoves
    <2>. QED  BY <2>1, <2>4, <2>5 DEF RowAgrees, Ending, Committed
  <1>. QED  BY <1>1, <1>2

LEMMA CloseAgreesStays ==
  ASSUME IInv, Moves, NEW w \in CallState, RowAgrees(w), CloseAgrees(w)
  PROVE  CloseAgrees(w)'
  <1>. SUFFICES ASSUME w.pc = "close"
                PROVE  CloseAgrees(w)'
    BY DEF CloseAgrees
  <1>1. w.batch \in Batches
    BY DEF RowAgrees
  <1>2. batch[w.batch] \in Row /\ batch'[w.batch] \in Row
    BY <1>1 DEF IInv, Moves, TypeOK
  <1>3. Ending(batch[w.batch]) => Ending(batch'[w.batch])
    BY <1>1, <1>2, PhasesMove DEF Moves, HostMoves
  <1>4. Closed(w.batch) => Closed(w.batch)'
    BY <1>1, ClosedStays DEF Moves
  <1>5. ASSUME Ending(batch[w.batch]), current # w.batch, w.batch \notin allowed
        PROVE  \/ Closed(w.batch)'
               \/ Ending(batch'[w.batch]) /\ current' # w.batch /\ w.batch \notin allowed'
    <2>1. current' # w.batch
      BY <1>5 DEF Moves, HostMoves, Ending
    <2>2. w.batch \notin allowed' \/ Closed(w.batch)
      BY <1>5 DEF Moves, HostMoves
    <2>. QED  BY <1>3, <1>4, <1>5, <2>1, <2>2
  <1>. QED  BY <1>4, <1>5 DEF CloseAgrees, Ending

LEMMA CurrentStays ==
  ASSUME IInv, Moves, NEW b \in Batches, current = b \/ Closed(b)
  PROVE  current' = b \/ Closed(b)'
  <1>1. Closed(b) => Closed(b)'
    BY ClosedStays DEF Moves
  <1>2. current = b => current # None
    BY BatchAssumption
  <1>. QED  BY <1>1, <1>2 DEF Moves, HostMoves

LEMMA FundingAgreesStays ==
  ASSUME IInv, Moves, NEW w \in CallState, RowAgrees(w), FundingAgrees(w)
  PROVE  FundingAgrees(w)'
  <1>1. w.pc \in {"fund", "create"} => (current' = w.batch \/ Closed(w.batch)')
    BY CurrentStays DEF RowAgrees, FundingAgrees
  <1>2. w.pc \in {"archive", "replace"} => w.prior \in Batches /\ Closed(w.prior)'
    BY ClosedStays DEF FundingAgrees, Moves
  <1>. QED  BY <1>1, <1>2 DEF FundingAgrees

LEMMA WorkAgreesStays ==
  ASSUME IInv, Moves, NEW w \in CallState, WorkAgrees(w)
  PROVE  WorkAgrees(w)'
  <1>1. \A k \in Items : JobMoves(k)
    BY DEF Moves
  <1>. QED  BY <1>1 DEF WorkAgrees, JobMoves, Items

LEMMA AgreesStays ==
  ASSUME IInv, Moves,
         NEW c \in Calls, NEW v \in CallState, call' = [call EXCEPT ![c] = v], PicksOpen(v),
         NEW w \in CallState, Agrees(w)
  PROVE  Agrees(w)'
  <1>1. RowAgrees(w)' /\ CloseAgrees(w)' /\ FundingAgrees(w)' /\ WorkAgrees(w)'
    BY RowAgreesStays, CloseAgreesStays, FundingAgreesStays, WorkAgreesStays DEF Agrees
  <1>2. ClosingAgrees(w)'
    <2>1. ASSUME w.pc \in {"frozen", "pass"}
          PROVE  life'[w.batch] # None /\ IsTrue(w.prior, w.batch)'
      <3>1. w.batch \in Batches
        BY <2>1 DEF Agrees, RowAgrees
      <3>2. life[w.batch] # None /\ w.prior \in Life /\ IsTrue(w.prior, w.batch)
        BY <2>1 DEF Agrees, ClosingAgrees
      <3>. QED  BY <3>1, <3>2, ClosedStays, IsTrueStays DEF Moves
    <2>2. ASSUME w.pc = "pass"
          PROVE  IsTrue(w.next, w.batch)'
      <3>1. w.batch \in Batches
        BY <2>2 DEF Agrees, RowAgrees
      <3>2. w.next \in Life /\ IsTrue(w.next, w.batch)
        BY <2>2 DEF Agrees, ClosingAgrees
      <3>. QED  BY <3>1, <3>2, IsTrueStays
    <2>. QED  BY <2>1, <2>2 DEF Agrees, ClosingAgrees
  <1>. QED  BY <1>1, <1>2 DEF Agrees

LEMMA AllowancesStay ==
  ASSUME IInv, Moves
  PROVE  AllowancesAgree'
  <1>1. ASSUME NEW b \in allowed'
        PROVE  current' = b \/ Closed(b)'
    <2>1. b \in Batches
      BY DEF Moves, TypeOK
    <2>2. current = b \/ Closed(b)
      BY DEF Moves, HostMoves, IInv, AllowancesAgree
    <2>. QED  BY <2>1, <2>2, CurrentStays
  <1>2. ASSUME NEW b \in Batches, current' = b \/ b \in allowed'
        PROVE  batch'[b].phase # "planned" /\ (batch'[b].phase = "closed" => Closed(b)')
    <2>1. batch[b] \in Row /\ batch'[b] \in Row /\ RowMoves(batch[b], batch'[b])
      BY DEF IInv, Moves, TypeOK, HostMoves
    <2>2. \/ current = b
          \/ b \in allowed
          \/ Closed(b) /\ batch[b].phase # "planned" /\ b \in allowed'
          \/ current' = b /\ batch[b].phase \in {"preparing", "queued"}
      BY <1>2 DEF Moves, HostMoves
    <2>3. Closed(b) => Closed(b)'
      BY ClosedStays DEF Moves
    <2>4. CASE current = b \/ b \in allowed
      <3>1. batch[b].phase # "planned" /\ (batch[b].phase = "closed" => Closed(b))
        BY <2>4 DEF IInv, AllowancesAgree
      <3>2. batch'[b].phase # "planned"
        BY <2>1, <3>1, PhasesMove
      <3>3. batch'[b].phase = "closed" => Closed(b)
        BY <2>4, <3>1 DEF Moves, HostMoves
      <3>. QED  BY <2>3, <3>2, <3>3
    <2>5. CASE ~(current = b \/ b \in allowed)
      <3>1. batch' = batch
        BY <1>2, <2>5 DEF Moves, HostMoves
      <3>. QED  BY <2>2, <2>3, <2>5, <3>1
    <2>. QED  BY <2>4, <2>5
  <1>. QED  BY <1>1, <1>2 DEF AllowancesAgree

\* A step is one call's: it moves host and ledger, and leaves it with a true memory.
LEMMA StepKeeps ==
  ASSUME IInv, Moves,
         NEW c \in Calls, NEW v \in CallState, call' = [call EXCEPT ![c] = v], PicksOpen(v),
         Agrees(v)'
  PROVE  IInv'
  <1>1. TypeOK' /\ AllowancesAgree'
    BY AllowancesStay DEF Moves
  <1>2. call' \in [Calls -> CallState]
    BY DEF IInv
  <1>3. LifeIsTrue'
    <2>1. SUFFICES ASSUME NEW b \in Batches, life'[b] # None
                   PROVE  IsTrue(life[b], b)'
      BY DEF LifeIsTrue
    <2>2. PICK p : p = life'[b]
      OBVIOUS
    <2>3. p \in Life
      BY <2>1, <2>2 DEF Moves, TypeOK
    <2>4. IsTrue(p, b)
      BY <2>1, <2>2 DEF Moves, LifeMoves, IInv, LifeIsTrue
    <2>5. IsTrue(p, b)'
      BY <2>3, <2>4, IsTrueStays
    <2>. QED  BY <2>2, <2>5
  <1>4. ASSUME NEW o \in Calls
        PROVE  Agrees(call[o])'
    <2>1. CASE o = c
      <3>1. call'[o] = v
        BY <2>1 DEF IInv
      <3>. QED  BY <3>1
    <2>2. CASE o # c
      <3>1. PICK w \in CallState : w = call[o]
        BY DEF IInv
      <3>2. call'[o] = w
        BY <2>2, <3>1 DEF IInv
      <3>3. Agrees(w)
        BY <3>1 DEF IInv
      <3>4. Agrees(w)'
        BY <3>3, AgreesStays
      <3>. QED  BY <3>2, <3>4
    <2>. QED  BY <2>1, <2>2
  <1>. QED  BY <1>1, <1>2, <1>3, <1>4 DEF IInv

Kept == Moves /\ IInv'

LEMMA IdleAgrees ==
  Idle \in CallState /\ PicksOpen(Idle) /\ Agrees(Idle) /\ Agrees(Idle)'
  BY DEF Idle, CallState, PCs, ClaimedPCs, FundingPCs, PicksOpen, Agrees, RowAgrees,
         CloseAgrees, FundingAgrees, WorkAgrees, ClosingAgrees

LEMMA Going ==
  ASSUME NEW w \in CallState, NEW pc \in PCs
  PROVE  /\ [w EXCEPT !.pc = pc] \in CallState
         /\ [w EXCEPT !.pc = pc].pc = pc
         /\ [w EXCEPT !.pc = pc].batch = w.batch /\ [w EXCEPT !.pc = pc].row = w.row
         /\ [w EXCEPT !.pc = pc].item = w.item /\ [w EXCEPT !.pc = pc].prior = w.prior
         /\ [w EXCEPT !.pc = pc].next = w.next
  BY DEF CallState

LEMMA RowStays ==
  ASSUME NEW r \in Row
  PROVE  RowMoves(r, r)
  BY DEF Row, Phases, RowMoves, Rank

\* A step of one call that touches neither the host nor the ledger.
LEMMA QuietMoves ==
  ASSUME IInv, UNCHANGED <<batch, current, archive, life, remote>>, pinned' \in BOOLEAN
  PROVE  Moves
  <1>1. TypeOK'
    BY DEF IInv, TypeOK, remote
  <1>2. HostMoves
    <2>1. \A b \in Batches : RowMoves(batch[b], batch'[b])
      BY RowStays DEF IInv, TypeOK
    <2>. QED  BY <2>1 DEF HostMoves, remote
  <1>3. LifeMoves
    BY DEF LifeMoves
  <1>4. \A k \in Items : JobMoves(k) /\ AttemptMoves(k)
    BY DEF JobMoves, AttemptMoves, remote
  <1>. QED  BY <1>1, <1>2, <1>3, <1>4 DEF Moves

LEMMA QuietStep ==
  ASSUME IInv, UNCHANGED <<host, remote>>,
         NEW c \in Calls, NEW v \in CallState, call' = [call EXCEPT ![c] = v], PicksOpen(v),
         Agrees(v)
  PROVE  Kept
  <1>1. UNCHANGED <<batch, current, archive, life, remote>> /\ pinned' \in BOOLEAN
    BY DEF host, remote, IInv, TypeOK
  <1>2. Moves
    BY <1>1, QuietMoves
  <1>. QED  BY <1>2, AgreesStays, StepKeeps DEF Kept

LEMMA QuietReturn ==
  ASSUME IInv, UNCHANGED <<host, remote>>, NEW c \in Calls, Return(c)
  PROVE  Kept
  BY IdleAgrees, QuietStep DEF Return

\* A step that writes the row of a batch by compare-and-swap.
LEMMA SaveMoves ==
  ASSUME IInv, NEW b \in Batches, NEW seen \in Row, NEW new \in Row,
         Save(b, seen, new), RowMoves(seen, new),
         new.phase = "closed" => \/ seen.phase \in {"planned", "closed"}
                                 \/ Closed(b)
                                 \/ current # b /\ b \notin allowed,
         UNCHANGED <<current, archive, life, pinned, remote>>
  PROVE  Moves
  <1>1. batch' = [batch EXCEPT ![b] = IF batch[b] = seen THEN new ELSE batch[b]]
    BY DEF Save
  <1>2. batch \in [Batches -> Row] /\ batch' \in [Batches -> Row]
    BY <1>1 DEF IInv, TypeOK
  <1>3. TypeOK'
    BY <1>2 DEF IInv, TypeOK, remote
  <1>4. HostMoves
    <2>1. ASSUME NEW a \in Batches
          PROVE  RowMoves(batch[a], batch'[a])
      <3>1. CASE a = b /\ batch[b] = seen
        BY <1>1, <1>2, <3>1
      <3>2. CASE ~(a = b /\ batch[b] = seen)
        <4>1. batch'[a] = batch[a] /\ batch[a] \in Row
          BY <1>1, <1>2, <3>2
        <4>. QED  BY <4>1, RowStays
      <3>. QED  BY <3>1, <3>2
    <2>2. ASSUME NEW a \in Batches, batch'[a].phase = "closed"
          PROVE  \/ batch[a].phase = "closed"
                 \/ Closed(a)
                 \/ current # a /\ a \notin allowed
      <3>1. CASE a = b /\ batch[b] = seen
        <4>1. batch'[a] = new
          BY <1>1, <1>2, <3>1
        <4>2. seen.phase = "planned" => current # b /\ b \notin allowed
          BY <3>1 DEF IInv, AllowancesAgree
        <4>. QED  BY <2>2, <3>1, <4>1, <4>2
      <3>2. CASE ~(a = b /\ batch[b] = seen)
        BY <1>1, <1>2, <2>2, <3>2
      <3>. QED  BY <3>1, <3>2
    <2>. QED  BY <2>1, <2>2 DEF HostMoves, remote
  <1>5. LifeMoves
    BY DEF LifeMoves
  <1>6. \A k \in Items : JobMoves(k) /\ AttemptMoves(k)
    BY DEF JobMoves, AttemptMoves, remote
  <1>. QED  BY <1>3, <1>4, <1>5, <1>6 DEF Moves

\* ... after which the call returns, or goes on with the row it then reads.
LEMMA SaveStep ==
  ASSUME IInv, Moves, NEW c \in Calls, Return(c)
  PROVE  Kept
  BY IdleAgrees, StepKeeps DEF Return, Kept

LEMMA Memory ==
  ASSUME IInv, NEW c \in Calls
  PROVE  \E w \in CallState : w = call[c] /\ Agrees(w)
  BY DEF IInv

-----------------------------------------------------------------------------
(* The steps of a call that only read *)

LEMMA KeepsBeginStart ==
  ASSUME IInv, NEW c \in Calls, NEW b \in Batches, BeginStart(c, b)
  PROVE  Kept
  <1>1. batch[b] \in Row /\ batch[b].phase \in {"planned", "preparing"}
    BY DEF IInv, TypeOK, BeginStart
  <1>. DEFINE pc == IF batch[b].phase = "planned" THEN "approve" ELSE "allocate"
              v == [Idle EXCEPT !.pc = pc, !.batch = b, !.row = batch[b]]
  <1>2. /\ v \in CallState
        /\ v.pc = pc /\ v.batch = b /\ v.row = batch[b]
    <2>1. pc \in PCs
      BY <1>1 DEF PCs, FundingPCs
    <2>. HIDE DEF pc
    <2>. QED  BY <1>1, <2>1, IdleAgrees DEF CallState
  <1>3. call' = [call EXCEPT ![c] = v] /\ UNCHANGED <<host, remote>>
    BY DEF BeginStart
  <1>. HIDE DEF v
  <1>4. Agrees(v) /\ PicksOpen(v)
    BY <1>1, <1>2 DEF Agrees, RowAgrees, CloseAgrees, FundingAgrees, WorkAgrees, ClosingAgrees,
                      PicksOpen, ClaimedPCs, FundingPCs
  <1>. QED  BY <1>2, <1>3, <1>4, QuietStep

LEMMA KeepsBeginContinue ==
  ASSUME IInv, NEW c \in Calls, NEW b \in Batches, BeginContinue(c, b)
  PROVE  Kept
  <1>1. batch[b] \in Row /\ batch[b].phase \in {"preparing", "queued"}
    BY DEF IInv, TypeOK, BeginContinue
  <1>. DEFINE pc == IF ~batch[b].policy THEN "allocate"
                    ELSE IF batch[b].phase = "preparing" THEN "enqueue" ELSE "pick"
              v == [Idle EXCEPT !.batch = b, !.row = batch[b], !.pc = pc]
  <1>2. /\ v \in CallState
        /\ v.pc = pc /\ v.batch = b /\ v.row = batch[b]
    <2>1. pc \in PCs
      BY <1>1 DEF PCs, FundingPCs
    <2>. HIDE DEF pc
    <2>. QED  BY <1>1, <2>1, IdleAgrees DEF CallState
  <1>3. call' = [call EXCEPT ![c] = v] /\ UNCHANGED <<host, remote>>
    BY DEF BeginContinue
  <1>. HIDE DEF v
  <1>4. Agrees(v) /\ PicksOpen(v)
    BY <1>1, <1>2 DEF Agrees, RowAgrees, CloseAgrees, FundingAgrees, WorkAgrees, ClosingAgrees,
                      PicksOpen, ClaimedPCs, FundingPCs
  <1>. QED  BY <1>2, <1>3, <1>4, QuietStep

LEMMA KeepsBeginCancel ==
  ASSUME IInv, NEW c \in Calls, NEW b \in Batches, NEW count \in BOOLEAN,
         BeginCancel(c, b, count)
  PROVE  Kept
  <1>1. PICK row \in Row : row = batch[b] /\ row.phase \in Phases /\ row.phase # "closed"
    BY DEF IInv, TypeOK, BeginCancel, Row
  <1>. DEFINE pc == CASE row.phase = "planned" -> "close"
                      [] row.phase = "cancelling" -> "refer"
                      [] OTHER -> "cancel"
              end == [row EXCEPT !.phase = "closed"]
              next == IF row.phase = "planned" THEN end ELSE None
              v == [Idle EXCEPT !.batch = b, !.row = row, !.count = count,
                                !.next = next, !.pc = pc]
  <1>2. end \in Row /\ end.phase = "closed" /\ end.cursor = row.cursor /\ end.policy = row.policy
    BY DEF Row, Phases
  <1>3. call' = [call EXCEPT ![c] = v] /\ UNCHANGED <<host, remote>>
    BY <1>1 DEF BeginCancel
  <1>. HIDE DEF end
  <1>4. /\ pc \in {"close", "refer", "cancel"}
        /\ pc = "close" <=> row.phase = "planned"
        /\ pc = "refer" => row.phase = "cancelling"
        /\ pc = "cancel" => row.phase \in {"preparing", "queued", "done"}
    BY <1>1 DEF Phases
  <1>. HIDE DEF pc
  <1>5. /\ v \in CallState
        /\ v.pc = pc /\ v.batch = b /\ v.row = row /\ v.next = next
    <2>1. pc \in PCs /\ next \in Row \cup {None}
      BY <1>2, <1>4 DEF PCs
    <2>. HIDE DEF next
    <2>. QED  BY <2>1, IdleAgrees DEF CallState
  <1>. HIDE DEF v
  <1>6. Agrees(v) /\ PicksOpen(v)
    BY <1>1, <1>2, <1>4, <1>5
       DEF Agrees, RowAgrees, CloseAgrees, FundingAgrees, WorkAgrees, ClosingAgrees,
           PicksOpen, ClaimedPCs, FundingPCs, Ending
  <1>. QED  BY <1>3, <1>5, <1>6, QuietStep

\* A call that goes on, with nothing changed, to where its memory suffices.
LEMMA QuietGoto ==
  ASSUME IInv, UNCHANGED <<host, remote>>, NEW c \in Calls, NEW pc \in PCs \ {"claim"},
         Goto(c, pc), Agrees([call[c] EXCEPT !.pc = pc])
  PROVE  Kept
  <1>1. PICK w \in CallState : w = call[c]
    BY DEF IInv
  <1>. DEFINE v == [w EXCEPT !.pc = pc]
  <1>2. v \in CallState /\ v.pc = pc
    BY Going
  <1>3. call' = [call EXCEPT ![c] = v]
    BY <1>1 DEF Goto, IInv
  <1>4. Agrees(v) /\ PicksOpen(v)
    BY <1>1, <1>2 DEF PicksOpen
  <1>. HIDE DEF v
  <1>. QED  BY <1>2, <1>3, <1>4, QuietStep

\* What a memory that goes on must say.
LEMMA GoesOn ==
  ASSUME NEW w \in CallState, Agrees(w), w.pc # "idle",
         NEW pc \in PCs \ {"idle", "approve", "claim", "cancel", "close", "pass", "frozen"},
         pc \in FundingPCs => w.row.phase \in {"preparing", "queued"},
         pc \in {"enqueue", "progress"} => w.row.phase = "preparing" /\ w.row.policy,
         pc \in {"pick", "finish"} => w.row.phase = "queued" /\ w.row.policy,
         pc \in {"refer", "freeze"} => w.pc = "refer",
         pc \in {"fund", "create"} => current = w.batch \/ Closed(w.batch),
         pc \in {"archive", "replace"} => w.prior \in Batches /\ Closed(w.prior),
         pc \in ClaimedPCs => w.pc \in ClaimedPCs
  PROVE  Agrees([w EXCEPT !.pc = pc])
  <1>. DEFINE v == [w EXCEPT !.pc = pc]
  <1>1. v.pc = pc /\ v.batch = w.batch /\ v.row = w.row /\ v.item = w.item /\ v.prior = w.prior
    BY Going
  <1>. HIDE DEF v
  <1>2. RowAgrees(v)
    BY <1>1 DEF Agrees, RowAgrees
  <1>3. CloseAgrees(v) /\ FundingAgrees(v) /\ ClosingAgrees(v)
    BY <1>1 DEF CloseAgrees, FundingAgrees, ClosingAgrees
  <1>4. WorkAgrees(v)
    BY <1>1 DEF Agrees, WorkAgrees
  <1>. QED  BY <1>2, <1>3, <1>4 DEF Agrees, v

LEMMA KeepsAllocate ==
  ASSUME IInv, NEW c \in Calls, Allocate(c)
  PROVE  Kept
  <1>1. PICK w \in CallState : w = call[c] /\ Agrees(w)
    BY Memory
  <1>2. UNCHANGED <<host, remote>> /\ w.pc = "allocate"
    BY <1>1 DEF Allocate, At
  <1>3. CASE Goto(c, "record")
    <2>1. Agrees([w EXCEPT !.pc = "record"])
      BY <1>1, <1>2, GoesOn DEF Agrees, RowAgrees, PCs, FundingPCs, ClaimedPCs
    <2>. QED  BY <1>1, <1>2, <1>3, <2>1, QuietGoto DEF PCs, FundingPCs
  <1>. QED  BY <1>2, <1>3, QuietReturn DEF Allocate

LEMMA KeepsConfirm ==
  ASSUME IInv, NEW c \in Calls, Confirm(c)
  PROVE  Kept
  <1>1. PICK w \in CallState : w = call[c] /\ Agrees(w)
    BY Memory
  <1>2. UNCHANGED <<host, remote>> /\ w.pc = "fund"
    BY <1>1 DEF Confirm, At
  <1>3. CASE Goto(c, "create")
    <2>1. Agrees([w EXCEPT !.pc = "create"])
      BY <1>1, <1>2, GoesOn DEF Agrees, RowAgrees, FundingAgrees, PCs, FundingPCs, ClaimedPCs
    <2>. QED  BY <1>1, <1>2, <1>3, <2>1, QuietGoto DEF PCs, FundingPCs
  <1>. QED  BY <1>2, <1>3, QuietReturn DEF Confirm

LEMMA KeepsCreated ==
  ASSUME IInv, NEW c \in Calls, Created(c)
  PROVE  Kept
  <1>1. PICK w \in CallState : w = call[c] /\ Agrees(w)
    BY Memory
  <1>2. UNCHANGED <<host, remote>> /\ w.pc = "created"
    BY <1>1 DEF Created, At
  <1>3. CASE Goto(c, "funded")
    <2>1. Agrees([w EXCEPT !.pc = "funded"])
      BY <1>1, <1>2, GoesOn DEF Agrees, RowAgrees, PCs, FundingPCs, ClaimedPCs
    <2>. QED  BY <1>1, <1>2, <1>3, <2>1, QuietGoto DEF PCs, FundingPCs
  <1>. QED  BY <1>2, <1>3, QuietReturn DEF Created

LEMMA HasLeast ==
  ASSUME NEW T, T \subseteq Nat, T # {}
  PROVE  \E i \in T : \A o \in T : i <= o
  <1>1. IsWellFoundedOn(OpToRel(<, Nat), Nat)
    BY NatLessThanWellFounded
  <1>2. PICK i \in T : \A o \in T : <<o, i>> \notin OpToRel(<, Nat)
    BY <1>1, WFMin
  <1>3. \A o \in T : ~(o < i)
    BY <1>2 DEF OpToRel
  <1>. QED  BY <1>3

LEMMA KeepsPick ==
  ASSUME IInv, NEW c \in Calls, Pick(c)
  PROVE  Kept
  <1>1. PICK w \in CallState : w = call[c] /\ Agrees(w)
    BY Memory
  <1>2. UNCHANGED <<host, remote>> /\ w.pc = "pick"
    BY <1>1 DEF Pick, At
  <1>3. w.batch \in Batches /\ w.row \in Row /\ w.row.phase = "queued" /\ w.row.policy
        /\ batch[w.batch].phase # "planned"
    BY <1>1, <1>2 DEF Agrees, RowAgrees
  <1>. DEFINE open == {i \in 0..Size[w.batch]-1 : job[<<w.batch, i>>] \in {"queued", "leased"}}
              least == CHOOSE i \in open : \A o \in open : i <= o
              v == [w EXCEPT !.pc = "claim", !.item = least]
  <1>4. CASE Return(c)
    BY <1>2, <1>4, QuietReturn
  <1>5. CASE Goto(c, "finish")
    <2>1. Agrees([w EXCEPT !.pc = "finish"])
      BY <1>1, <1>2, <1>3, GoesOn DEF PCs, FundingPCs, ClaimedPCs
    <2>. QED  BY <1>1, <1>2, <1>5, <2>1, QuietGoto DEF PCs
  <1>6. CASE Unchanged(w.batch) /\ open # {} /\ call' = [call EXCEPT ![c] = v]
    <2>1. Size[w.batch] \in Nat
      BY <1>3, BatchAssumption
    <2>2. open \subseteq Nat
      BY <2>1
    <2>3. least \in open
      <3>. HIDE DEF open
      <3>. QED  BY <1>6, <2>2, HasLeast
    <2>4. <<w.batch, least>> \in Items /\ job[<<w.batch, least>>] # "none" /\ least \in Nat
      <3>1. least \in 0..Size[w.batch]-1 /\ job[<<w.batch, least>>] \in {"queued", "leased"}
        BY <2>3
      <3>. HIDE DEF least
      <3>. QED  BY <1>3, <2>1, <3>1, ItemsAre
    <2>. HIDE DEF open, least
    <2>5. /\ v \in CallState
          /\ v.pc = "claim" /\ v.batch = w.batch /\ v.row = w.row /\ v.item = least
      BY <2>4 DEF CallState, PCs
    <2>6. PicksOpen(v)
      BY <1>6, <2>5 DEF PicksOpen, Unchanged
    <2>. HIDE DEF v
    <2>7. Agrees(v)
      BY <1>3, <2>4, <2>5 DEF Agrees, RowAgrees, CloseAgrees, FundingAgrees, WorkAgrees,
                              ClosingAgrees, ClaimedPCs, FundingPCs
    <2>. QED  BY <1>2, <1>6, <2>5, <2>6, <2>7, QuietStep
  <1>7. \/ Return(c)
        \/ Goto(c, "finish")
        \/ Unchanged(w.batch) /\ open # {} /\ call' = [call EXCEPT ![c] = v]
    BY <1>1 DEF Pick, IInv
  <1>. QED  BY <1>4, <1>5, <1>6, <1>7

\* The steps of a call that has claimed its item.
LEMMA QuietWork ==
  ASSUME IInv, UNCHANGED <<host, remote>>, NEW c \in Calls, call[c].pc \in ClaimedPCs,
         NEW pc \in ClaimedPCs, Goto(c, pc)
  PROVE  Kept
  <1>1. PICK w \in CallState : w = call[c] /\ Agrees(w)
    BY Memory
  <1>2. Agrees([w EXCEPT !.pc = pc])
    BY <1>1, GoesOn DEF PCs, FundingPCs, ClaimedPCs
  <1>. QED  BY <1>1, <1>2, QuietGoto DEF PCs, ClaimedPCs

LEMMA KeepsAsk ==
  ASSUME IInv, NEW c \in Calls, Ask(c)
  PROVE  Kept
  <1>1. UNCHANGED <<host, remote>>
    BY DEF Ask
  <1>2. call[c].pc \in ClaimedPCs /\ \E pc \in ClaimedPCs : Goto(c, pc)
    BY DEF Ask, At, ClaimedPCs
  <1>. QED  BY <1>1, <1>2, QuietWork

LEMMA KeepsAnswer ==
  ASSUME IInv, NEW c \in Calls, Answer(c)
  PROVE  Kept
  <1>1. UNCHANGED <<host, remote>>
    BY DEF Answer
  <1>2. call[c].pc \in ClaimedPCs /\ \E pc \in ClaimedPCs : Goto(c, pc)
    BY DEF Answer, At, ClaimedPCs
  <1>. QED  BY <1>1, <1>2, QuietWork

\* A closing call comes to what it writes into the row.
LEMMA ClosesWith ==
  ASSUME NEW w \in CallState, RowAgrees(w), w.pc # "idle", w.row.phase # "closed",
         NEW new \in Row, Ending(new), new.cursor = w.row.cursor, w.row.policy => new.policy,
         new.phase = "closed" =>
            \/ Closed(w.batch)
            \/ Ending(batch[w.batch]) /\ current # w.batch /\ w.batch \notin allowed,
         NEW v, v = [w EXCEPT !.pc = "close", !.next = new]
  PROVE  v \in CallState /\ PicksOpen(v) /\ Agrees(v)
  <1>1. /\ v \in CallState
        /\ v.pc = "close" /\ v.batch = w.batch /\ v.row = w.row /\ v.next = new
    BY DEF CallState, PCs
  <1>2. RowAgrees(v)
    BY <1>1 DEF RowAgrees, FundingPCs
  <1>3. CloseAgrees(v)
    BY <1>1 DEF CloseAgrees
  <1>. QED  BY <1>1, <1>2, <1>3 DEF Agrees, FundingAgrees, WorkAgrees, ClosingAgrees,
                                    PicksOpen, ClaimedPCs

LEMMA RowAfterTyped ==
  ASSUME NEW c \in Calls, NEW row \in Row, row = call[c].row, NEW closed \in BOOLEAN
  PROVE  /\ RowAfter(c, closed) \in Row /\ Ending(RowAfter(c, closed))
         /\ RowAfter(c, closed).cursor = row.cursor /\ RowAfter(c, closed).policy
         /\ RowAfter(c, closed).phase = "closed" => closed
  BY DEF RowAfter, Row, Phases, Ending

LEMMA KeepsRefer ==
  ASSUME IInv, NEW c \in Calls, Refer(c)
  PROVE  Kept
  <1>1. PICK w \in CallState : w = call[c] /\ Agrees(w)
    BY Memory
  <1>2. UNCHANGED <<host, remote>> /\ w.pc = "refer"
    BY <1>1 DEF Refer, At
  <1>3. /\ w.batch \in Batches /\ w.row \in Row /\ w.row.phase # "closed"
        /\ ~w.row.policy => Ending(batch[w.batch])
    BY <1>1, <1>2 DEF Agrees, RowAgrees
  <1>4. CASE Return(c)
    BY <1>2, <1>4, QuietReturn
  <1>5. CASE Goto(c, "freeze")
    <2>1. Agrees([w EXCEPT !.pc = "freeze"])
      BY <1>1, <1>2, GoesOn DEF PCs, FundingPCs, ClaimedPCs
    <2>. QED  BY <1>1, <1>2, <1>5, <2>1, QuietGoto DEF PCs
  <1>6. ASSUME NEW new, ToClose(c, new), new \in Row, Ending(new), new.cursor = w.row.cursor,
               w.row.policy => new.policy,
               \/ Closed(w.batch)
               \/ Ending(batch[w.batch]) /\ current # w.batch /\ w.batch \notin allowed
        PROVE  Kept
    <2>. DEFINE v == [w EXCEPT !.pc = "close", !.next = new]
    <2>1. call' = [call EXCEPT ![c] = v]
      BY <1>1, <1>6 DEF ToClose, IInv
    <2>. HIDE DEF v
    <2>2. v \in CallState /\ PicksOpen(v) /\ Agrees(v)
      BY <1>1, <1>2, <1>3, <1>6, ClosesWith DEF v, Agrees
    <2>. QED  BY <1>2, <2>1, <2>2, QuietStep
  <1>7. CASE ~w.row.policy /\ current # w.batch /\ ToClose(c, [w.row EXCEPT !.phase = "closed"])
    <2>. DEFINE new == [w.row EXCEPT !.phase = "closed"]
    <2>1. new \in Row /\ Ending(new) /\ new.cursor = w.row.cursor /\ new.policy = w.row.policy
      BY <1>3 DEF Row, Phases, Ending
    <2>2. \/ Closed(w.batch)
          \/ Ending(batch[w.batch]) /\ current # w.batch /\ w.batch \notin allowed
      BY <1>3, <1>7 DEF IInv, AllowancesAgree
    <2>. HIDE DEF new
    <2>. QED  BY <1>6, <1>7, <2>1, <2>2 DEF new
  <1>8. CASE Closed(w.batch) /\ ToClose(c, RowAfter(c, TRUE))
    BY <1>1, <1>3, <1>6, <1>8, RowAfterTyped
  <1>. QED  BY <1>1, <1>4, <1>5, <1>7, <1>8 DEF Refer

\* A closing call goes on with p, what it knows of the lifecycle.
LEMMA PassesWith ==
  ASSUME NEW w \in CallState, Agrees(w), w.pc \in {"frozen", "pass"}, NEW p \in Life,
         NEW left \in Int, NEW v, v = [w EXCEPT !.pc = "pass", !.next = p, !.left = left]
  PROVE  /\ v \in CallState /\ PicksOpen(v)
         /\ v.pc = "pass" /\ v.batch = w.batch /\ v.next = p
         /\ (p.stage # "closed" /\ IsTrue(p, w.batch)) => Agrees(v)
  <1>1. "pass" \in PCs
    BY DEF PCs
  <1>2. /\ v \in CallState
        /\ v.pc = "pass" /\ v.batch = w.batch /\ v.row = w.row
        /\ v.prior = w.prior /\ v.next = p
    BY <1>1 DEF CallState
  <1>3. RowAgrees(v)
    BY <1>2 DEF Agrees, RowAgrees, FundingPCs
  <1>4. CloseAgrees(v) /\ FundingAgrees(v) /\ WorkAgrees(v) /\ PicksOpen(v)
    BY <1>2 DEF CloseAgrees, FundingAgrees, WorkAgrees, ClaimedPCs, PicksOpen
  <1>5. (p.stage # "closed" /\ IsTrue(p, w.batch)) => ClosingAgrees(v)
    BY <1>2 DEF Agrees, ClosingAgrees
  <1>. QED  BY <1>2, <1>3, <1>4, <1>5 DEF Agrees

LEMMA KeepsResolve ==
  ASSUME IInv, NEW c \in Calls, Resolve(c)
  PROVE  Kept
  <1>1. PICK w \in CallState : w = call[c] /\ Agrees(w)
    BY Memory
  <1>2. UNCHANGED <<host, remote>> /\ w.pc = "frozen"
    BY <1>1 DEF Resolve, At
  <1>. DEFINE v == [w EXCEPT !.pc = "pass", !.next = w.prior, !.left = MaxJobs]
  <1>3. CASE call' = [call EXCEPT ![c] = v]
    <2>1. w.prior \in Life
      BY <1>1, <1>2 DEF Agrees, ClosingAgrees
    <2>2. w.prior.stage # "closed" /\ IsTrue(w.prior, w.batch)
      BY <1>1, <1>2 DEF Agrees, ClosingAgrees
    <2>3. MaxJobs \in Int
      BY BatchAssumption
    <2>4. v \in CallState /\ PicksOpen(v) /\ Agrees(v)
      <3>1. PICK p \in Life : p = w.prior
        BY <2>1
      <3>2. v = [w EXCEPT !.pc = "pass", !.next = p, !.left = MaxJobs]
        BY <3>1
      <3>. HIDE DEF v
      <3>3. Agrees(w) /\ w.pc \in {"frozen", "pass"} /\ p.stage # "closed" /\ IsTrue(p, w.batch)
        BY <1>1, <1>2, <2>2, <3>1
      <3>. QED  BY <2>3, <3>2, <3>3, PassesWith, Zenon
    <2>. HIDE DEF v
    <2>. QED  BY <1>2, <1>3, <2>4, QuietStep
  <1>. QED  BY <1>1, <1>2, <1>3, QuietReturn DEF Resolve, IInv

LEMMA KeepsStop ==
  ASSUME IInv, NEW c \in Calls, Stop(c)
  PROVE  Kept
  BY QuietReturn DEF Stop

\* A step of the surroundings: no call takes part in it.
LEMMA IdleKeeps ==
  ASSUME IInv, UNCHANGED <<batch, current, archive, life, remote, call>>, pinned' \in BOOLEAN
  PROVE  Kept
  <1>1. UNCHANGED <<batch, current, archive, life, remote, call>>
    OBVIOUS
  <1>2. Moves
    BY <1>1, QuietMoves
  <1>3. \A b \in Batches : Closed(b)' = Closed(b)
    BY <1>1 DEF Closed
  <1>4. AllowancesAgree'
    BY <1>2, AllowancesStay
  <1>5. \A k : Settled(k)' = Settled(k)
    BY <1>1 DEF Settled, Unclaimable, At, Key, remote
  <1>6. \A b, n, states : Tally(b, n, states)' = Tally(b, n, states)
    BY <1>1 DEF Tally, TallyOf, First, remote
  <1>7. \A p, b : IsTrue(p, b)' = IsTrue(p, b)
    BY <1>5, <1>6 DEF IsTrue, AreTrue, First, Spent
  <1>8. LifeIsTrue'
    BY <1>1, <1>7 DEF LifeIsTrue, IInv
  <1>9. ASSUME NEW c \in Calls
        PROVE  Agrees(call[c])'
    <2>1. PICK w \in CallState : w = call[c] /\ Agrees(w)
      BY Memory
    <2>2. RowAgrees(w)' /\ CloseAgrees(w)' /\ FundingAgrees(w)' /\ WorkAgrees(w)'
      BY <1>2, <2>1, RowAgreesStays, CloseAgreesStays, FundingAgreesStays, WorkAgreesStays
         DEF Agrees
    <2>3. ClosingAgrees(w)'
      BY <1>1, <1>7, <2>1 DEF Agrees, ClosingAgrees
    <2>4. call'[c] = w
      BY <1>1, <2>1
    <2>. QED  BY <2>2, <2>3, <2>4 DEF Agrees
  <1>. QED  BY <1>1, <1>2, <1>4, <1>8, <1>9 DEF Kept, Moves, IInv

LEMMA KeepsRetarget ==
  ASSUME IInv, Retarget
  PROVE  Kept
  BY IdleKeeps DEF Retarget

-----------------------------------------------------------------------------
(* The steps that write the row of a batch *)

\* A call that goes on with the row it read after its swap.
LEMMA GoesOnWith ==
  ASSUME IInv, Moves, NEW c \in Calls, NEW w \in CallState, w = call[c], w.batch \in Batches,
         NEW row \in Row, row = batch'[w.batch], NEW pc \in PCs, GoOn(c, pc, row),
         \/ pc = "allocate" /\ row.phase \in {"preparing", "queued"}
         \/ /\ pc = "refer" /\ row.phase \notin {"planned", "closed"}
            /\ ~row.policy => Ending(row)
  PROVE  Kept
  <1>. DEFINE v == [w EXCEPT !.pc = pc, !.row = row]
  <1>1. /\ v \in CallState
        /\ v.pc = pc /\ v.batch = w.batch /\ v.row = row
    BY DEF CallState
  <1>2. call' = [call EXCEPT ![c] = v]
    BY DEF GoOn, IInv
  <1>. HIDE DEF v
  <1>3. PicksOpen(v)
    BY <1>1 DEF PicksOpen
  <1>4. RowAgrees(v)'
    BY <1>1 DEF RowAgrees, FundingPCs
  <1>5. CloseAgrees(v)' /\ FundingAgrees(v)' /\ WorkAgrees(v)' /\ ClosingAgrees(v)'
    BY <1>1 DEF CloseAgrees, FundingAgrees, WorkAgrees, ClosingAgrees, ClaimedPCs
  <1>6. Agrees(v)'
    BY <1>4, <1>5 DEF Agrees
  <1>. QED  BY <1>1, <1>2, <1>3, <1>6, StepKeeps DEF Kept

LEMMA KeepsApprove ==
  ASSUME IInv, NEW c \in Calls, Approve(c)
  PROVE  Kept
  <1>1. PICK w \in CallState : w = call[c] /\ Agrees(w)
    BY Memory
  <1>2. w.batch \in Batches /\ w.row \in Row /\ w.row.phase = "planned"
    BY <1>1 DEF Agrees, RowAgrees, Approve, At
  <1>3. PICK new \in Row : /\ new = [w.row EXCEPT !.phase = "preparing"]
                           /\ new.phase = "preparing" /\ new.cursor = w.row.cursor
                           /\ new.policy = w.row.policy
    <2>1. PICK new : new = [w.row EXCEPT !.phase = "preparing"]
      OBVIOUS
    <2>2. /\ new \in Row
          /\ new.phase = "preparing" /\ new.cursor = w.row.cursor
          /\ new.policy = w.row.policy
      BY <2>1, <1>2 DEF Row, Phases
    <2>. QED  BY <2>1, <2>2
  <1>4. RowMoves(w.row, new)
    <2>1. w.row.cursor \in Nat
      BY <1>2 DEF Row
    <2>. QED  BY <1>2, <1>3, <2>1 DEF RowMoves, Rank
  <1>5. Save(w.batch, w.row, new) /\ UNCHANGED <<current, archive, life, pinned, remote>>
    BY <1>1, <1>3 DEF Approve
  <1>6. Moves
    BY <1>2, <1>3, <1>4, <1>5, SaveMoves
  <1>7. CASE Return(c)
    BY <1>6, <1>7, SaveStep
  <1>8. CASE batch'[w.batch].phase = "preparing" /\ GoOn(c, "allocate", batch'[w.batch])
    <2>1. PICK row \in Row : row = batch'[w.batch]
      BY <1>2, <1>6 DEF Moves, TypeOK
    <2>. QED  BY <1>1, <1>2, <1>6, <1>8, <2>1, GoesOnWith DEF PCs, FundingPCs
  <1>. QED  BY <1>1, <1>7, <1>8 DEF Approve

LEMMA KeepsSavePolicy ==
  ASSUME IInv, NEW c \in Calls, SavePolicy(c)
  PROVE  Kept
  <1>1. PICK w \in CallState : w = call[c] /\ Agrees(w)
    BY Memory
  <1>2. w.batch \in Batches /\ w.row \in Row /\ w.row.phase \in {"preparing", "queued"}
    BY <1>1 DEF Agrees, RowAgrees, SavePolicy, At, FundingPCs
  <1>3. PICK new \in Row : /\ new = [w.row EXCEPT !.policy = TRUE]
                           /\ new.phase = w.row.phase /\ new.cursor = w.row.cursor
                           /\ new.policy
    <2>1. PICK new : new = [w.row EXCEPT !.policy = TRUE]
      OBVIOUS
    <2>2. /\ new \in Row
          /\ new.phase = w.row.phase /\ new.cursor = w.row.cursor
          /\ new.policy
      BY <2>1, <1>2 DEF Row
    <2>. QED  BY <2>1, <2>2
  <1>4. RowMoves(w.row, new)
    <2>1. w.row.cursor \in Nat
      BY <1>2 DEF Row
    <2>. QED  BY <1>2, <1>3, <2>1 DEF RowMoves, Rank, Committed
  <1>5. Save(w.batch, w.row, new) /\ UNCHANGED <<current, archive, life, pinned, remote>>
    BY <1>1, <1>3 DEF SavePolicy
  <1>6. Moves
    BY <1>2, <1>3, <1>4, <1>5, SaveMoves
  <1>. QED  BY <1>6, SaveStep DEF SavePolicy

LEMMA KeepsSaveProgress ==
  ASSUME IInv, NEW c \in Calls, SaveProgress(c)
  PROVE  Kept
  <1>1. PICK w \in CallState : w = call[c] /\ Agrees(w)
    BY Memory
  <1>2. w.batch \in Batches /\ w.row \in Row /\ w.row.phase = "preparing" /\ w.row.policy
    BY <1>1 DEF Agrees, RowAgrees, SaveProgress, At
  <1>. DEFINE next == w.row.cursor + 1
              phase == IF next = Size[w.batch] THEN "queued" ELSE "preparing"
  <1>3. w.row.cursor \in Nat /\ next \in Nat /\ next >= w.row.cursor
    BY <1>2 DEF Row
  <1>4. phase \in {"queued", "preparing"}
    OBVIOUS
  <1>5. Save(w.batch, w.row, [w.row EXCEPT !.cursor = next, !.phase = phase])
        /\ UNCHANGED <<current, archive, life, pinned, remote>>
    BY <1>1 DEF SaveProgress
  <1>. HIDE DEF next, phase
  <1>6. PICK new \in Row : /\ new = [w.row EXCEPT !.cursor = next, !.phase = phase]
                           /\ new.phase = phase /\ new.cursor = next /\ new.policy
    <2>1. PICK new : new = [w.row EXCEPT !.cursor = next, !.phase = phase]
      OBVIOUS
    <2>2. /\ new \in Row
          /\ new.phase = phase /\ new.cursor = next /\ new.policy
      BY <2>1, <1>2, <1>3, <1>4 DEF Row, Phases
    <2>. QED  BY <2>1, <2>2
  <1>7. RowMoves(w.row, new)
    BY <1>2, <1>3, <1>4, <1>6 DEF RowMoves, Rank, Committed
  <1>8. Moves
    BY <1>2, <1>4, <1>5, <1>6, <1>7, SaveMoves
  <1>. QED  BY <1>8, SaveStep DEF SaveProgress

LEMMA KeepsSaveDone ==
  ASSUME IInv, NEW c \in Calls, SaveDone(c)
  PROVE  Kept
  <1>1. PICK w \in CallState : w = call[c] /\ Agrees(w)
    BY Memory
  <1>2. w.batch \in Batches /\ w.row \in Row /\ w.row.phase = "queued" /\ w.row.policy
    BY <1>1 DEF Agrees, RowAgrees, SaveDone, At
  <1>3. PICK new \in Row : /\ new = [w.row EXCEPT !.phase = "done"]
                           /\ new.phase = "done" /\ new.cursor = w.row.cursor /\ new.policy
    <2>1. PICK new : new = [w.row EXCEPT !.phase = "done"]
      OBVIOUS
    <2>2. /\ new \in Row
          /\ new.phase = "done" /\ new.cursor = w.row.cursor /\ new.policy
      BY <2>1, <1>2 DEF Row, Phases
    <2>. QED  BY <2>1, <2>2
  <1>4. RowMoves(w.row, new)
    <2>1. w.row.cursor \in Nat
      BY <1>2 DEF Row
    <2>. QED  BY <1>2, <1>3, <2>1 DEF RowMoves, Rank, Committed
  <1>5. Save(w.batch, w.row, new) /\ UNCHANGED <<current, archive, life, pinned, remote>>
    BY <1>1, <1>3 DEF SaveDone
  <1>6. Moves
    BY <1>2, <1>3, <1>4, <1>5, SaveMoves
  <1>. QED  BY <1>6, SaveStep DEF SaveDone

\* A cancelling call that lost the swap reads a batch that has its allowance
\* recorded, or is cancelled already.
LEMMA KeepsSaveCancelling ==
  ASSUME IInv, NEW c \in Calls, SaveCancelling(c)
  PROVE  Kept
  <1>1. PICK w \in CallState : w = call[c] /\ Agrees(w)
    BY Memory
  <1>2. /\ w.batch \in Batches /\ w.row \in Row
        /\ w.row.phase \in {"preparing", "queued", "done"}
        /\ batch[w.batch].phase # "planned"
        /\ batch[w.batch] = w.row \/ Committed(batch[w.batch])
    BY <1>1 DEF Agrees, RowAgrees, SaveCancelling, At
  <1>3. PICK new \in Row : /\ new = [w.row EXCEPT !.phase = "cancelling"]
                           /\ new.phase = "cancelling" /\ new.cursor = w.row.cursor
                           /\ new.policy = w.row.policy
    <2>1. PICK new : new = [w.row EXCEPT !.phase = "cancelling"]
      OBVIOUS
    <2>2. /\ new \in Row
          /\ new.phase = "cancelling" /\ new.cursor = w.row.cursor
          /\ new.policy = w.row.policy
      BY <2>1, <1>2 DEF Row, Phases
    <2>. QED  BY <2>1, <2>2
  <1>4. RowMoves(w.row, new)
    <2>1. w.row.cursor \in Nat
      BY <1>2 DEF Row
    <2>. QED  BY <1>2, <1>3, <2>1 DEF RowMoves, Rank, Committed, Ending
  <1>5. Save(w.batch, w.row, new) /\ UNCHANGED <<current, archive, life, pinned, remote>>
    BY <1>1, <1>3 DEF SaveCancelling
  <1>6. Moves
    BY <1>2, <1>3, <1>4, <1>5, SaveMoves
  <1>7. CASE Return(c)
    BY <1>6, <1>7, SaveStep
  <1>8. CASE batch'[w.batch].phase # "closed" /\ GoOn(c, "refer", batch'[w.batch])
    <2>1. PICK row \in Row : row = batch'[w.batch]
      BY <1>2, <1>6 DEF Moves, TypeOK
    <2>2. batch'[w.batch] = IF batch[w.batch] = w.row THEN new ELSE batch[w.batch]
      BY <1>2, <1>5 DEF Save, IInv, TypeOK
    <2>3. row.phase # "planned" /\ Committed(row)
      BY <1>2, <1>3, <2>1, <2>2 DEF Committed, Ending
    <2>. QED  BY <1>1, <1>2, <1>6, <1>8, <2>1, <2>3, GoesOnWith DEF PCs, Committed
  <1>. QED  BY <1>1, <1>7, <1>8 DEF SaveCancelling

LEMMA KeepsSaveClosed ==
  ASSUME IInv, NEW c \in Calls, SaveClosed(c)
  PROVE  Kept
  <1>1. PICK w \in CallState : w = call[c] /\ Agrees(w)
    BY Memory
  <1>2. /\ w.batch \in Batches /\ w.row \in Row /\ w.row.phase # "closed"
        /\ w.next \in Row /\ Ending(w.next)
        /\ w.next.cursor = w.row.cursor /\ (w.row.policy => w.next.policy)
        /\ w.next.phase = "closed" =>
             \/ w.row.phase \in {"planned", "closed"}
             \/ Closed(w.batch)
             \/ current # w.batch /\ w.batch \notin allowed
    BY <1>1 DEF Agrees, RowAgrees, CloseAgrees, SaveClosed, At
  <1>3. PICK row \in Row, new \in Row : row = w.row /\ new = w.next
    BY <1>2
  <1>4. RowMoves(row, new)
    <2>1. row.cursor \in Nat /\ row.phase \in Phases
      BY DEF Row
    <2>2. new.cursor = row.cursor /\ (row.policy => new.policy)
      BY <1>2, <1>3
    <2>3. row.phase # "closed" /\ new.phase \in {"cancelling", "closed"}
      BY <1>2, <1>3 DEF Ending
    <2>. QED  BY <2>1, <2>2, <2>3 DEF RowMoves, Rank, Committed, Ending, Phases
  <1>5. Save(w.batch, row, new) /\ UNCHANGED <<current, archive, life, pinned, remote>>
    BY <1>1, <1>3 DEF SaveClosed
  <1>6. Moves
    BY <1>2, <1>3, <1>4, <1>5, SaveMoves
  <1>. QED  BY <1>6, SaveStep DEF SaveClosed

-----------------------------------------------------------------------------
(* The steps on the record of the allowance *)

\* A batch is recorded while it is as it was read, and nothing is lost by it.
LEMMA RecordMoves ==
  ASSUME IInv, NEW b \in Batches, NEW row \in Row, row.phase \in {"preparing", "queued"},
         UNCHANGED <<batch, archive, life, pinned, remote>>,
         \/ current' = current
         \/ (current = None \/ Closed(current)) /\ batch[b] = row /\ current' = b
  PROVE  Moves
  <1>1. TypeOK'
    BY DEF IInv, TypeOK, remote
  <1>2. HostMoves
    <2>1. \A a \in Batches : RowMoves(batch[a], batch'[a])
      BY RowStays DEF IInv, TypeOK
    <2>. QED  BY <2>1 DEF HostMoves, remote
  <1>3. LifeMoves
    BY DEF LifeMoves
  <1>4. \A k \in Items : JobMoves(k) /\ AttemptMoves(k)
    BY DEF JobMoves, AttemptMoves, remote
  <1>. QED  BY <1>1, <1>2, <1>3, <1>4 DEF Moves

\* The call goes on in memory of what it finds recorded.
LEMMA FundingGoesOn ==
  ASSUME IInv, Moves, NEW c \in Calls, NEW w \in CallState, w = call[c], Agrees(w),
         w.pc \in FundingPCs,
         NEW pc \in {"archive", "replace", "fund", "create", "created"},
         NEW prior \in Batches \cup Life \cup {None},
         NEW v, v = [w EXCEPT !.pc = pc, !.prior = prior], call' = [call EXCEPT ![c] = v],
         pc \in {"fund", "create"} => current' = w.batch \/ Closed(w.batch)',
         pc \in {"archive", "replace"} => prior \in Batches /\ Closed(prior)'
  PROVE  Kept
  <1>1. pc \in PCs
    BY DEF PCs, FundingPCs
  <1>2. /\ v \in CallState
        /\ v.pc = pc /\ v.batch = w.batch /\ v.row = w.row /\ v.prior = prior
    BY <1>1 DEF CallState
  <1>3. PicksOpen(v)
    BY <1>2 DEF PicksOpen
  <1>4. RowAgrees(w)'
    BY RowAgreesStays DEF Agrees
  <1>5. RowAgrees(v)'
    BY <1>2, <1>4 DEF RowAgrees, FundingPCs
  <1>6. FundingAgrees(v)'
    BY <1>2 DEF FundingAgrees
  <1>7. CloseAgrees(v)' /\ WorkAgrees(v)' /\ ClosingAgrees(v)'
    BY <1>2 DEF CloseAgrees, WorkAgrees, ClosingAgrees, ClaimedPCs
  <1>8. Agrees(v)'
    BY <1>5, <1>6, <1>7 DEF Agrees
  <1>. QED  BY <1>2, <1>3, <1>8, StepKeeps DEF Kept

LEMMA KeepsRecord ==
  ASSUME IInv, NEW c \in Calls, Record(c)
  PROVE  Kept
  <1>1. PICK w \in CallState : w = call[c] /\ Agrees(w)
    BY Memory
  <1>2. /\ w.batch \in Batches /\ w.row \in Row /\ w.row.phase \in {"preparing", "queued"}
        /\ w.pc = "record"
    BY <1>1 DEF Agrees, RowAgrees, Record, At, FundingPCs
  <1>3. UNCHANGED <<batch, archive, life, pinned, remote>>
        /\ current' = IF current = None /\ batch[w.batch] = w.row THEN w.batch ELSE current
    BY <1>1 DEF Record
  <1>4. Moves
    BY <1>2, <1>3, RecordMoves
  <1>5. CASE Return(c)
    BY <1>4, <1>5, SaveStep
  <1>6. CASE current' = w.batch /\ Goto(c, "fund")
    <2>1. PICK prior \in Batches \cup Life \cup {None} : prior = w.prior
      BY DEF CallState
    <2>2. PICK v : v = [w EXCEPT !.pc = "fund", !.prior = prior]
      OBVIOUS
    <2>3. v = [w EXCEPT !.pc = "fund"]
      BY <2>1, <2>2 DEF CallState
    <2>4. call' = [call EXCEPT ![c] = v]
      BY <1>1, <1>6, <2>3 DEF Goto, IInv
    <2>5. w.pc \in FundingPCs
      BY <1>2 DEF FundingPCs
    <2>. QED  BY <1>1, <1>4, <1>6, <2>2, <2>4, <2>5, FundingGoesOn
  <1>7. CASE /\ current' # None /\ Closed(current')
             /\ call' = [call EXCEPT ![c].pc = "archive", ![c].prior = current']
    <2>1. PICK prior \in Batches : prior = current'
      BY <1>4, <1>7 DEF Moves, TypeOK
    <2>2. PICK v : v = [w EXCEPT !.pc = "archive", !.prior = prior]
      OBVIOUS
    <2>3. call' = [call EXCEPT ![c] = v]
      BY <1>1, <1>7, <2>1, <2>2 DEF IInv
    <2>4. Closed(prior)'
      <3>1. Closed(prior)
        BY <1>7, <2>1
      <3>. QED  BY <1>4, <3>1, ClosedStays DEF Moves
    <2>5. w.pc \in FundingPCs
      BY <1>2 DEF FundingPCs
    <2>. QED  BY <1>1, <1>4, <2>2, <2>3, <2>4, <2>5, FundingGoesOn
  <1>8. Closed(current') <=> (life[current'] # None /\ life[current'].stage = "closed")
    BY DEF Closed
  <1>. QED  BY <1>1, <1>5, <1>6, <1>7 DEF Record

LEMMA KeepsArchive ==
  ASSUME IInv, NEW c \in Calls, Archive(c)
  PROVE  Kept
  <1>1. PICK w \in CallState : w = call[c] /\ Agrees(w)
    BY Memory
  <1>2. /\ w.batch \in Batches /\ w.row \in Row /\ w.row.phase \in {"preparing", "queued"}
        /\ w.prior \in Batches /\ Closed(w.prior) /\ w.pc = "archive"
    BY <1>1 DEF Agrees, RowAgrees, FundingAgrees, Archive, At, FundingPCs
  <1>3. UNCHANGED <<batch, current, life, pinned, remote>> /\ archive' \subseteq Batches
    BY DEF Archive, IInv, TypeOK
  <1>4. Moves
    <2>1. TypeOK'
      BY <1>3 DEF IInv, TypeOK, remote
    <2>2. HostMoves
      <3>1. \A a \in Batches : RowMoves(batch[a], batch'[a])
        BY <1>3, RowStays DEF IInv, TypeOK
      <3>. QED  BY <1>3, <3>1 DEF HostMoves, remote
    <2>3. LifeMoves
      BY <1>3 DEF LifeMoves
    <2>4. \A k \in Items : JobMoves(k) /\ AttemptMoves(k)
      BY <1>3 DEF JobMoves, AttemptMoves, remote
    <2>. QED  BY <2>1, <2>2, <2>3, <2>4 DEF Moves
  <1>5. CASE Return(c)
    BY <1>4, <1>5, SaveStep
  <1>6. CASE Goto(c, "replace")
    <2>1. PICK prior \in Batches : prior = w.prior
      BY <1>2
    <2>2. PICK v : v = [w EXCEPT !.pc = "replace", !.prior = prior]
      OBVIOUS
    <2>3. v = [w EXCEPT !.pc = "replace"]
      BY <2>1, <2>2 DEF CallState
    <2>4. call' = [call EXCEPT ![c] = v]
      BY <1>1, <1>6, <2>3 DEF Goto, IInv
    <2>5. Closed(prior)'
      BY <1>2, <1>4, <2>1, ClosedStays DEF Moves
    <2>6. w.pc \in FundingPCs
      BY <1>2 DEF FundingPCs
    <2>. QED  BY <1>1, <1>4, <2>2, <2>4, <2>5, <2>6, FundingGoesOn
  <1>. QED  BY <1>5, <1>6 DEF Archive

LEMMA KeepsReplace ==
  ASSUME IInv, NEW c \in Calls, Replace(c)
  PROVE  Kept
  <1>1. PICK w \in CallState : w = call[c] /\ Agrees(w)
    BY Memory
  <1>2. /\ w.batch \in Batches /\ w.row \in Row /\ w.row.phase \in {"preparing", "queued"}
        /\ w.prior \in Batches /\ Closed(w.prior) /\ w.pc = "replace"
    BY <1>1 DEF Agrees, RowAgrees, FundingAgrees, Replace, At, FundingPCs
  <1>3. UNCHANGED <<batch, archive, life, pinned, remote>>
        /\ current' = IF current = w.prior /\ batch[w.batch] = w.row THEN w.batch ELSE current
    BY <1>1 DEF Replace
  <1>4. Moves
    BY <1>2, <1>3, RecordMoves
  <1>5. CASE Return(c)
    BY <1>4, <1>5, SaveStep
  <1>6. CASE /\ current' = w.batch
             /\ call' = [call EXCEPT ![c].pc = "fund", ![c].prior = None]
    <2>1. PICK v : v = [w EXCEPT !.pc = "fund", !.prior = None]
      OBVIOUS
    <2>2. call' = [call EXCEPT ![c] = v]
      BY <1>1, <1>6, <2>1 DEF IInv
    <2>3. w.pc \in FundingPCs
      BY <1>2 DEF FundingPCs
    <2>. QED  BY <1>1, <1>4, <1>6, <2>1, <2>2, <2>3, FundingGoesOn
  <1>. QED  BY <1>1, <1>5, <1>6 DEF Replace

LEMMA KeepsCreateAllowance ==
  ASSUME IInv, NEW c \in Calls, CreateAllowance(c)
  PROVE  Kept
  <1>1. PICK w \in CallState : w = call[c] /\ Agrees(w)
    BY Memory
  <1>2. /\ w.batch \in Batches /\ w.row \in Row /\ w.row.phase \in {"preparing", "queued"}
        /\ batch[w.batch].phase # "planned"
        /\ current = w.batch \/ Closed(w.batch)
        /\ w.pc = "create"
    BY <1>1 DEF Agrees, RowAgrees, FundingAgrees, CreateAllowance, At, FundingPCs
  <1>3. UNCHANGED <<host, job, attempt>> /\ allowed' = allowed \cup {w.batch}
    BY <1>1 DEF CreateAllowance
  <1>4. Moves
    <2>1. TypeOK'
      BY <1>2, <1>3 DEF IInv, TypeOK, host
    <2>2. HostMoves
      <3>1. \A a \in Batches : RowMoves(batch[a], batch'[a])
        BY <1>3, RowStays DEF IInv, TypeOK, host
      <3>. QED  BY <1>2, <1>3, <3>1 DEF HostMoves, host
    <2>3. LifeMoves
      BY <1>3 DEF LifeMoves, host
    <2>4. \A k \in Items : JobMoves(k) /\ AttemptMoves(k)
      BY <1>3 DEF JobMoves, AttemptMoves
    <2>. QED  BY <2>1, <2>2, <2>3, <2>4 DEF Moves
  <1>5. PICK prior \in Batches \cup Life \cup {None} : prior = w.prior
    BY DEF CallState
  <1>6. PICK v : v = [w EXCEPT !.pc = "created", !.prior = prior]
    OBVIOUS
  <1>7. v = [w EXCEPT !.pc = "created"]
    BY <1>5, <1>6 DEF CallState
  <1>8. call' = [call EXCEPT ![c] = v]
    BY <1>1, <1>7 DEF CreateAllowance, Goto, IInv
  <1>9. w.pc \in FundingPCs
    BY <1>2 DEF FundingPCs
  <1>. QED  BY <1>1, <1>4, <1>6, <1>8, <1>9, FundingGoesOn

-----------------------------------------------------------------------------
(* The steps on the ledger *)

LEMMA LedgerMoves ==
  ASSUME IInv, UNCHANGED <<host, allowed>>,
         \A k \in Items : JobMoves(k) /\ AttemptMoves(k),
         job' \in [Items -> {"none", "queued", "leased", "ended"}],
         attempt' \in [Items -> {"none", "reserved", "released"} \cup Spent]
  PROVE  Moves
  <1>1. TypeOK'
    BY DEF IInv, TypeOK, host, Spent
  <1>2. HostMoves
    <2>1. \A a \in Batches : RowMoves(batch[a], batch'[a])
      BY RowStays DEF IInv, TypeOK, host
    <2>. QED  BY <2>1 DEF HostMoves, host
  <1>3. LifeMoves
    BY DEF LifeMoves, host
  <1>. QED  BY <1>1, <1>2, <1>3 DEF Moves

LEMMA JobStep ==
  ASSUME IInv, UNCHANGED <<host, allowed, attempt>>, NEW k, NEW x \in {"queued", "leased", "ended"},
         job' = [job EXCEPT ![k] = x],
         k \in Items => \/ x = job[k]
                        \/ job[k] = "none" /\ x = "queued"
                        \/ job[k] \in {"queued", "leased"} /\ x = "ended"
                        \/ /\ job[k] = "queued" /\ x = "leased"
                           /\ \E c \in Calls : At(c, "claim") /\ Key(c) = k
  PROVE  Moves
  <1>1. job \in [Items -> {"none", "queued", "leased", "ended"}]
    BY DEF IInv, TypeOK
  <1>2. job' \in [Items -> {"none", "queued", "leased", "ended"}]
    BY <1>1
  <1>3. attempt' \in [Items -> {"none", "reserved", "released"} \cup Spent]
    BY DEF IInv, TypeOK
  <1>4. ASSUME NEW o \in Items
        PROVE  JobMoves(o) /\ AttemptMoves(o)
    <2>1. CASE o # k
      BY <1>1, <2>1 DEF JobMoves, AttemptMoves
    <2>2. CASE o = k
      <3>1. job'[o] = x /\ attempt' = attempt
        BY <1>1, <2>2
      <3>. QED  BY <2>2, <3>1 DEF JobMoves, AttemptMoves
    <2>. QED  BY <2>1, <2>2
  <1>. QED  BY <1>2, <1>3, <1>4, LedgerMoves

LEMMA AttemptStep ==
  ASSUME IInv, UNCHANGED <<host, allowed, job>>, NEW k,
         NEW x \in {"reserved", "released"} \cup Spent,
         attempt' = [attempt EXCEPT ![k] = x],
         k \in Items => \/ x = attempt[k]
                        \/ job[k] = "leased" /\ attempt[k] \in {"none", "reserved"}
                        \/ attempt[k] = "reserved" /\ x = "released"
                        \/ attempt[k] = "dispatched" /\ x \in {"settled", "uncertain"}
  PROVE  Moves
  <1>1. attempt \in [Items -> {"none", "reserved", "released"} \cup Spent]
    BY DEF IInv, TypeOK
  <1>2. attempt' \in [Items -> {"none", "reserved", "released"} \cup Spent]
    BY <1>1
  <1>3. job' \in [Items -> {"none", "queued", "leased", "ended"}]
    BY DEF IInv, TypeOK
  <1>4. ASSUME NEW o \in Items
        PROVE  JobMoves(o) /\ AttemptMoves(o)
    <2>1. CASE o # k
      BY <1>1, <2>1 DEF JobMoves, AttemptMoves
    <2>2. CASE o = k
      <3>1. attempt'[o] = x /\ job' = job
        BY <1>1, <2>2
      <3>. QED  BY <2>2, <3>1 DEF JobMoves, AttemptMoves
    <2>. QED  BY <2>1, <2>2
  <1>. QED  BY <1>2, <1>3, <1>4, LedgerMoves

LEMMA LedgerStays ==
  ASSUME IInv, UNCHANGED <<host, remote>>
  PROVE  Moves
  BY QuietMoves DEF host, remote, IInv, TypeOK

LEMMA MovingGoto ==
  ASSUME IInv, Moves, NEW c \in Calls, NEW pc \in PCs \ {"claim"},
         Goto(c, pc), Agrees([call[c] EXCEPT !.pc = pc])
  PROVE  Kept
  <1>1. PICK w \in CallState : w = call[c]
    BY DEF IInv
  <1>. DEFINE v == [w EXCEPT !.pc = pc]
  <1>2. v \in CallState /\ v.pc = pc
    BY Going
  <1>3. call' = [call EXCEPT ![c] = v]
    BY <1>1 DEF Goto, IInv
  <1>4. Agrees(v) /\ PicksOpen(v)
    BY <1>1, <1>2 DEF PicksOpen
  <1>. HIDE DEF v
  <1>5. Agrees(v)'
    BY <1>2, <1>3, <1>4, AgreesStays
  <1>. QED  BY <1>2, <1>3, <1>4, <1>5, StepKeeps DEF Kept

LEMMA MovingWork ==
  ASSUME IInv, Moves, NEW c \in Calls, call[c].pc \in ClaimedPCs,
         NEW pc \in ClaimedPCs, Goto(c, pc)
  PROVE  Kept
  <1>1. PICK w \in CallState : w = call[c] /\ Agrees(w)
    BY Memory
  <1>2. Agrees([w EXCEPT !.pc = pc])
    BY <1>1, GoesOn DEF PCs, FundingPCs, ClaimedPCs
  <1>. QED  BY <1>1, <1>2, MovingGoto DEF PCs, ClaimedPCs

LEMMA KeepsEnqueue ==
  ASSUME IInv, NEW c \in Calls, Enqueue(c)
  PROVE  Kept
  <1>1. PICK w \in CallState : w = call[c] /\ Agrees(w)
    BY Memory
  <1>2. w.pc = "enqueue" /\ w.row.phase = "preparing" /\ w.row.policy
    BY <1>1 DEF Enqueue, At, Agrees, RowAgrees
  <1>3. PICK k : k = <<w.batch, w.row.cursor>>
    OBVIOUS
  <1>4. /\ job' = [job EXCEPT ![k] = IF job[k] = "none" THEN "queued" ELSE job[k]]
        /\ UNCHANGED <<host, allowed, attempt>> /\ Goto(c, "progress")
    BY <1>1, <1>3 DEF Enqueue
  <1>5. Moves
    <2>1. CASE k \in Items /\ job[k] = "none"
      <3>1. job' = [job EXCEPT ![k] = "queued"]
        BY <1>4, <2>1
      <3>. QED  BY <1>4, <2>1, <3>1, JobStep
    <2>2. CASE ~(k \in Items /\ job[k] = "none")
      <3>1. job' = job
        BY <1>4, <2>2 DEF IInv, TypeOK
      <3>. QED  BY <1>4, <3>1, LedgerStays DEF remote
    <2>. QED  BY <2>1, <2>2
  <1>6. Agrees([w EXCEPT !.pc = "progress"])
    BY <1>1, <1>2, GoesOn DEF PCs, FundingPCs, ClaimedPCs
  <1>. QED  BY <1>1, <1>4, <1>5, <1>6, MovingGoto DEF PCs

LEMMA KeepsClaim ==
  ASSUME IInv, NEW c \in Calls, Claim(c)
  PROVE  Kept
  <1>1. PICK w \in CallState : w = call[c] /\ Agrees(w)
    BY Memory
  <1>2. PICK k : k = <<w.batch, w.item>> /\ k = Key(c)
    BY <1>1 DEF Key
  <1>3. /\ w.pc = "claim" /\ w.batch \in Batches /\ w.row \in Row /\ k \in Items
        /\ At(c, "claim") /\ Key(c) = k
        /\ UNCHANGED <<host, allowed, attempt>>
    BY <1>1, <1>2 DEF Claim, At, Agrees, RowAgrees, WorkAgrees
  <1>4. CASE job[k] = "queued" /\ job' = [job EXCEPT ![k] = "leased"] /\ Goto(c, "claimed")
    <2>1. Moves
      BY <1>3, <1>4, JobStep
    <2>. DEFINE v == [w EXCEPT !.pc = "claimed"]
    <2>2. /\ v \in CallState
          /\ v.pc = "claimed" /\ v.batch = w.batch /\ v.row = w.row /\ v.item = w.item
      BY Going DEF PCs, ClaimedPCs
    <2>3. call' = [call EXCEPT ![c] = v]
      BY <1>1, <1>4 DEF Goto, IInv
    <2>. HIDE DEF v
    <2>4. job'[k] = "leased"
      BY <1>3, <1>4 DEF IInv, TypeOK
    <2>5. RowAgrees(w)'
      BY <1>1, <2>1, RowAgreesStays DEF Agrees
    <2>6. RowAgrees(v)'
      BY <1>3, <2>2, <2>5 DEF RowAgrees, FundingPCs
    <2>7. WorkAgrees(v)'
      BY <1>2, <1>3, <2>2, <2>4 DEF WorkAgrees, Items
    <2>8. CloseAgrees(v)' /\ FundingAgrees(v)' /\ ClosingAgrees(v)' /\ PicksOpen(v)
      BY <2>2 DEF CloseAgrees, FundingAgrees, ClosingAgrees, PicksOpen
    <2>. QED  BY <2>1, <2>2, <2>3, <2>6, <2>7, <2>8, StepKeeps DEF Kept, Agrees
  <1>5. CASE job[k] = "leased" /\ job' = [job EXCEPT ![k] = "ended"] /\ Return(c)
    <2>1. Moves
      BY <1>3, <1>5, JobStep
    <2>. QED  BY <1>5, <2>1, SaveStep
  <1>6. CASE UNCHANGED job /\ Return(c)
    <2>1. Moves
      BY <1>3, <1>6, LedgerStays DEF remote
    <2>. QED  BY <1>6, <2>1, SaveStep
  <1>. QED  BY <1>2, <1>4, <1>5, <1>6 DEF Claim

\* A hold that was not spent is released.
LEMMA ReleasedMoves ==
  ASSUME IInv, UNCHANGED <<host, allowed, job>>, NEW k \in Items, attempt' = Released(k)
  PROVE  Moves
  <1>1. CASE attempt[k] = "reserved"
    <2>1. attempt' = [attempt EXCEPT ![k] = "released"]
      BY <1>1 DEF Released
    <2>. QED  BY <1>1, <2>1, AttemptStep
  <1>2. CASE attempt[k] # "reserved"
    <2>1. attempt' = attempt
      BY <1>2 DEF Released, IInv, TypeOK
    <2>. QED  BY <2>1, LedgerStays DEF remote
  <1>. QED  BY <1>1, <1>2

\* A job that has not ended is cancelled.
LEMMA CancelledMoves ==
  ASSUME IInv, UNCHANGED <<host, allowed, attempt>>, NEW k \in Items, job' = Cancelled(k)
  PROVE  Moves
  <1>1. CASE job[k] \in {"queued", "leased"}
    <2>1. job' = [job EXCEPT ![k] = "ended"]
      BY <1>1 DEF Cancelled
    <2>. QED  BY <1>1, <2>1, JobStep
  <1>2. CASE job[k] \notin {"queued", "leased"}
    <2>1. job' = job
      BY <1>2 DEF Cancelled, IInv, TypeOK
    <2>. QED  BY <2>1, LedgerStays DEF remote
  <1>. QED  BY <1>1, <1>2

LEMMA WorksOn ==
  ASSUME IInv, NEW c \in Calls, call[c].pc \in ClaimedPCs
  PROVE  Key(c) \in Items /\ job[Key(c)] \in {"leased", "ended"}
  BY DEF IInv, Agrees, WorkAgrees, Key

LEMMA KeepsReserve ==
  ASSUME IInv, NEW c \in Calls, Reserve(c)
  PROVE  Kept
  <1>1. PICK k : k = Key(c)
    OBVIOUS
  <1>2. call[c].pc \in ClaimedPCs /\ UNCHANGED <<host, allowed, job>>
    BY DEF Reserve, At, ClaimedPCs
  <1>3. CASE /\ job[k] = "leased" /\ attempt[k] = "none"
             /\ attempt' = [attempt EXCEPT ![k] = "reserved"] /\ Goto(c, "reserved")
    <2>1. Moves
      BY <1>2, <1>3, AttemptStep
    <2>. QED  BY <1>2, <1>3, <2>1, MovingWork DEF ClaimedPCs
  <1>4. CASE UNCHANGED attempt /\ Goto(c, "end")
    <2>1. Moves
      BY <1>2, <1>4, LedgerStays DEF remote
    <2>. QED  BY <1>2, <1>4, <2>1, MovingWork DEF ClaimedPCs
  <1>. QED  BY <1>1, <1>3, <1>4 DEF Reserve

LEMMA KeepsDispatch ==
  ASSUME IInv, NEW c \in Calls, Dispatch(c)
  PROVE  Kept
  <1>1. PICK k : k = Key(c)
    OBVIOUS
  <1>2. call[c].pc \in ClaimedPCs /\ UNCHANGED <<host, allowed, job>>
    BY DEF Dispatch, At, ClaimedPCs
  <1>3. CASE /\ job[k] = "leased" /\ attempt[k] = "reserved"
             /\ attempt' = [attempt EXCEPT ![k] = "dispatched"] /\ Goto(c, "sent")
    <2>1. Moves
      BY <1>2, <1>3, AttemptStep DEF Spent
    <2>. QED  BY <1>2, <1>3, <2>1, MovingWork DEF ClaimedPCs
  <1>4. CASE UNCHANGED attempt /\ Goto(c, "release")
    <2>1. Moves
      BY <1>2, <1>4, LedgerStays DEF remote
    <2>. QED  BY <1>2, <1>4, <2>1, MovingWork DEF ClaimedPCs
  <1>. QED  BY <1>1, <1>3, <1>4 DEF Dispatch

LEMMA KeepsRelease ==
  ASSUME IInv, NEW c \in Calls, Release(c)
  PROVE  Kept
  <1>1. call[c].pc \in ClaimedPCs
    BY DEF Release, At, ClaimedPCs
  <1>2. PICK k \in Items : k = Key(c)
    BY <1>1, WorksOn
  <1>3. UNCHANGED <<host, allowed, job>> /\ attempt' = Released(k) /\ Return(c)
    BY <1>2 DEF Release
  <1>4. Moves
    BY <1>3, ReleasedMoves
  <1>. QED  BY <1>3, <1>4, SaveStep

LEMMA KeepsFence ==
  ASSUME IInv, NEW c \in Calls, Fence(c)
  PROVE  Kept
  <1>1. call[c].pc \in ClaimedPCs
    BY DEF Fence, At, ClaimedPCs
  <1>2. PICK k \in Items : k = Key(c)
    BY <1>1, WorksOn
  <1>3. UNCHANGED <<host, allowed, attempt>> /\ job' = Cancelled(k) /\ Goto(c, "settle")
    BY <1>2 DEF Fence
  <1>4. Moves
    BY <1>3, CancelledMoves
  <1>. QED  BY <1>1, <1>3, <1>4, MovingWork DEF ClaimedPCs

LEMMA KeepsSettle ==
  ASSUME IInv, NEW c \in Calls, Settle(c)
  PROVE  Kept
  <1>1. call[c].pc \in ClaimedPCs
    BY DEF Settle, At, ClaimedPCs
  <1>2. PICK k \in Items : k = Key(c)
    BY <1>1, WorksOn
  <1>3. PICK x \in {"settled", "uncertain"} : x = IF At(c, "settle") THEN "settled" ELSE "uncertain"
    OBVIOUS
  <1>4. UNCHANGED <<host, allowed, job>> /\ Goto(c, "end")
        /\ attempt' = [attempt EXCEPT ![k] = IF attempt[k] # "dispatched" THEN attempt[k] ELSE x]
    BY <1>2, <1>3 DEF Settle
  <1>5. Moves
    <2>1. CASE attempt[k] = "dispatched"
      <3>1. attempt' = [attempt EXCEPT ![k] = x]
        BY <1>4, <2>1
      <3>. QED  BY <1>4, <2>1, <3>1, AttemptStep DEF Spent
    <2>2. CASE attempt[k] # "dispatched"
      <3>1. attempt' = attempt
        BY <1>4, <2>2 DEF IInv, TypeOK
      <3>. QED  BY <1>4, <3>1, LedgerStays DEF remote
    <2>. QED  BY <2>1, <2>2
  <1>. QED  BY <1>1, <1>4, <1>5, MovingWork DEF ClaimedPCs

LEMMA KeepsEndJob ==
  ASSUME IInv, NEW c \in Calls, EndJob(c)
  PROVE  Kept
  <1>1. call[c].pc \in ClaimedPCs
    BY DEF EndJob, At, ClaimedPCs
  <1>2. PICK k \in Items : k = Key(c) /\ job[k] \in {"leased", "ended"}
    BY <1>1, WorksOn
  <1>3. UNCHANGED <<host, allowed, attempt>> /\ Return(c)
        /\ job' = [job EXCEPT ![k] = IF job[k] = "leased" THEN "ended" ELSE job[k]]
    BY <1>2 DEF EndJob
  <1>4. job' = [job EXCEPT ![k] = "ended"]
    BY <1>2, <1>3
  <1>5. Moves
    BY <1>2, <1>3, <1>4, JobStep
  <1>. QED  BY <1>3, <1>5, SaveStep

-----------------------------------------------------------------------------
(* The passes of a closing call *)

LEMMA PassStep ==
  ASSUME IInv, Moves, NEW c \in Calls, NEW w \in CallState, w = call[c], w.pc = "pass",
         Agrees(w), NEW p \in Life, p.stage # "closed", NEW left \in Int,
         call' = [call EXCEPT ![c].next = p, ![c].left = left],
         IsTrue(p, w.batch)'
  PROVE  Kept
  <1>. DEFINE v == [w EXCEPT !.next = p, !.left = left]
  <1>1. /\ v \in CallState
        /\ v.pc = "pass" /\ v.batch = w.batch /\ v.row = w.row
        /\ v.prior = w.prior /\ v.next = p
    BY DEF CallState
  <1>2. call' = [call EXCEPT ![c] = v]
    BY DEF IInv
  <1>. HIDE DEF v
  <1>3. PicksOpen(v)
    BY <1>1 DEF PicksOpen
  <1>4. Agrees(w)'
    BY <1>1, <1>2, <1>3, AgreesStays
  <1>5. RowAgrees(v)'
    BY <1>1, <1>4 DEF Agrees, RowAgrees
  <1>6. CloseAgrees(v)' /\ FundingAgrees(v)' /\ WorkAgrees(v)'
    BY <1>1 DEF CloseAgrees, FundingAgrees, WorkAgrees, ClaimedPCs
  <1>7. ClosingAgrees(v)'
    BY <1>1, <1>4 DEF Agrees, ClosingAgrees
  <1>8. Agrees(v)'
    BY <1>5, <1>6, <1>7 DEF Agrees
  <1>. QED  BY <1>1, <1>2, <1>3, <1>8, StepKeeps DEF Kept

LEMMA NewLifeIsTrue ==
  ASSUME NEW b \in Batches
  PROVE  NewLife \in Life /\ NewLife.stage = "cancel" /\ IsTrue(NewLife, b) /\ IsTrue(NewLife, b)'
  BY DEF NewLife, Life, IsTrue

\* The passes start with nothing counted.
LEMMA StartsTrue ==
  ASSUME NEW b \in Batches, NEW p \in Life, p.consumed = 0, p.unknown = 0, p.released = 0,
         \/ p.stage = "cancel"
         \/ p.stage = "reconcile" /\ p.cursor = 0
  PROVE  IsTrue(p, b)'
  <1>1. Size[b] \in Nat
    BY BatchAssumption
  <1>2. Tally(b, 0, Spent)' = 0 /\ Tally(b, 0, {"released"})' = 0
    BY CountsNothing DEF Tally, TallyOf, First, Spent
  <1>3. AreTrue(b, 0, 0, 0)'
    BY <1>2, CountsNothing DEF AreTrue, First, Spent
  <1>. QED  BY <1>1, <1>3 DEF IsTrue

LEMMA KeepsFenceJob ==
  ASSUME IInv, NEW c \in Calls, FenceJob(c)
  PROVE  Kept
  <1>1. PICK w \in CallState : w = call[c] /\ Agrees(w)
    BY Memory
  <1>2. PICK p \in Life : p = w.next
    BY <1>1 DEF FenceJob, Passing, At, Agrees, ClosingAgrees
  <1>3. /\ w.pc = "pass" /\ w.batch \in Batches /\ p.stage = "cancel" /\ p.cursor < Size[w.batch]
        /\ p.consumed = 0 /\ p.unknown = 0 /\ p.released = 0 /\ p.cursor \in Nat
        /\ w.left \in Int
    BY <1>1, <1>2 DEF FenceJob, Passing, At, Agrees, RowAgrees, ClosingAgrees, IsTrue, Life, CallState
  <1>4. PICK k : k = <<w.batch, p.cursor>>
    OBVIOUS
  <1>5. k \in Items
    <2>1. Size[w.batch] \in Nat
      BY <1>3, BatchAssumption
    <2>. QED  BY <1>3, <1>4, <2>1, ItemsAre
  <1>6. /\ UNCHANGED <<host, allowed, attempt>> /\ job' = Cancelled(k)
        /\ Pass(c, [p EXCEPT !.cursor = @ + 1], w.left - 1)
    BY <1>1, <1>2, <1>4 DEF FenceJob
  <1>7. Moves
    BY <1>5, <1>6, CancelledMoves
  <1>. DEFINE q == [p EXCEPT !.cursor = p.cursor + 1]
              r == [q EXCEPT !.stage = "reconcile", !.cursor = 0]
  <1>8. /\ q \in Life /\ q.stage = "cancel"
        /\ q.consumed = 0 /\ q.unknown = 0 /\ q.released = 0
    BY <1>3 DEF Life
  <1>. HIDE DEF q
  <1>9. /\ r \in Life /\ r.stage = "reconcile" /\ r.cursor = 0
        /\ r.consumed = 0 /\ r.unknown = 0 /\ r.released = 0
    BY <1>8 DEF Life
  <1>. HIDE DEF r
  <1>10. PICK n \in {q, r} : call' = [call EXCEPT ![c].next = n, ![c].left = w.left - 1]
    BY <1>1, <1>6 DEF Pass, q, r
  <1>11. n \in Life /\ n.stage # "closed" /\ IsTrue(n, w.batch)'
    BY <1>3, <1>8, <1>9, StartsTrue
  <1>12. w.left - 1 \in Int
    BY <1>3
  <1>. QED  BY <1>1, <1>3, <1>7, <1>10, <1>11, <1>12, PassStep

\* An item that the second pass finds out of its lease is settled from then on.
LEMMA SettledNow ==
  ASSUME IInv, NEW c \in Calls, NEW v \in CallState, call' = [call EXCEPT ![c] = v],
         v.pc # "claim", UNCHANGED <<host, allowed, job>>,
         NEW k \in Items, life[k[1]] # None, job[k] \notin {"queued", "leased"},
         attempt'[k] # "reserved"
  PROVE  Settled(k)'
  <1>1. job[k] \in {"none", "ended"}
    BY DEF IInv, TypeOK
  <1>2. Unclaimable(k)'
    <2>1. CASE job[k] = "ended"
      BY <2>1 DEF Unclaimable
    <2>2. CASE job[k] = "none"
      <3>1. SUFFICES ASSUME NEW o \in Calls, At(o, "claim")', (Key(o) = k)'
                     PROVE  FALSE
        BY DEF Unclaimable
      <3>2. o # c /\ call'[o] = call[o]
        BY <3>1 DEF IInv, At
      <3>3. WorkAgrees(call[o])
        BY DEF IInv, Agrees
      <3>. QED  BY <2>2, <3>1, <3>2, <3>3 DEF At, Key, WorkAgrees
    <2>. QED  BY <1>1, <2>1, <2>2
  <1>. QED  BY <1>2 DEF Settled, host

LEMMA CountedIsTrue ==
  ASSUME IInv, Moves, UNCHANGED <<host, allowed, job>>,
         NEW c \in Calls, NEW v \in CallState, call' = [call EXCEPT ![c] = v], v.pc # "claim",
         NEW b \in Batches, life[b] # None,
         NEW p \in Life, p.stage = "reconcile", p.cursor < Size[b], IsTrue(p, b),
         NEW k, k = <<b, p.cursor>>, job[k] \notin {"queued", "leased"},
         NEW state, state = attempt'[k], state # "reserved"
  PROVE  /\ Counted(p, state) \in Life /\ Counted(p, state).stage = "reconcile"
         /\ IsTrue(Counted(p, state), b)'
  <1>. DEFINE n == p.cursor
              q == Counted(p, state)
              one(states) == IF state \in states THEN 1 ELSE 0
  <1>1. /\ n \in Nat /\ Size[b] \in Nat /\ n <= Size[b] /\ n + 1 <= Size[b]
        /\ p.consumed \in Nat /\ p.unknown \in Nat /\ p.released \in Nat
    BY BatchAssumption DEF Life
  <1>2. k \in Items
    BY <1>1, ItemsAre
  <1>3. state \in {"none", "released"} \cup Spent
    BY <1>2 DEF Moves, TypeOK, Spent
  <1>4. /\ q \in Life /\ q.stage = "reconcile" /\ q.cursor = n + 1
        /\ q.consumed + q.unknown = (p.consumed + p.unknown) + one(Spent)
        /\ q.released = p.released + one({"released"})
    <2>1. PICK x \in Nat : x = p.consumed + (IF state = "settled" THEN 1 ELSE 0)
      BY <1>1
    <2>2. PICK y \in Nat : y = p.unknown + (IF state \in {"dispatched", "uncertain"} THEN 1 ELSE 0)
      BY <1>1
    <2>3. PICK z \in Nat : z = p.released + (IF state = "released" THEN 1 ELSE 0)
      BY <1>1
    <2>4. q = [p EXCEPT !.cursor = n + 1, !.consumed = x, !.unknown = y, !.released = z]
      BY <2>1, <2>2, <2>3 DEF Counted
    <2>5. n + 1 \in Nat
      BY <1>1
    <2>. HIDE DEF q, n
    <2>6. /\ q \in Life /\ q.stage = "reconcile" /\ q.cursor = n + 1
          /\ q.consumed = x /\ q.unknown = y /\ q.released = z
      BY <2>4, <2>5 DEF Life
    <2>7. x + y = (p.consumed + p.unknown) + one(Spent)
      BY <1>1, <1>3, <2>1, <2>2 DEF Spent
    <2>8. z = p.released + one({"released"})
      BY <2>3
    <2>. QED  BY <2>6, <2>7, <2>8
  <1>5. AreTrue(b, n, p.consumed + p.unknown, p.released)
    BY DEF IsTrue
  <1>6. AreTrue(b, n, p.consumed + p.unknown, p.released)'
    <2>1. PicksOpen(v)
      BY DEF PicksOpen
    <2>2. PICK m \in Nat : m = n
      BY <1>1
    <2>3. PICK x : x = p.consumed + p.unknown
      OBVIOUS
    <2>4. PICK y : y = p.released
      OBVIOUS
    <2>5. AreTrue(b, m, x, y) /\ m <= Size[b]
      BY <1>1, <1>5, <2>2, <2>3, <2>4
    <2>6. AreTrue(b, m, x, y)'
      BY <2>1, <2>5, AreTrueStays
    <2>. QED  BY <2>2, <2>3, <2>4, <2>6
  <1>7. Settled(k)'
    <2>1. k[1] = b
      OBVIOUS
    <2>. QED  BY <1>2, <2>1, SettledNow
  <1>8. First(b, n + 1) = First(b, n) \cup {k}
    BY <1>1 DEF First
  <1>9. \A o \in First(b, n + 1)' : Settled(o)'
    BY <1>6, <1>7, <1>8 DEF AreTrue, First
  <1>10. ASSUME NEW states
         PROVE  TallyOf(attempt', b, n + 1, states) = TallyOf(attempt', b, n, states) + one(states)
    <2>. HIDE DEF n
    <2>. QED  BY <1>1, CountsOneMore DEF n
  <1>11. /\ p.consumed + p.unknown = TallyOf(attempt', b, n, Spent)
         /\ p.released = TallyOf(attempt', b, n, {"released"})
    BY <1>6 DEF AreTrue, Tally, TallyOf, First, Spent
  <1>12. /\ q.consumed + q.unknown = TallyOf(attempt', b, n + 1, Spent)
         /\ q.released = TallyOf(attempt', b, n + 1, {"released"})
    BY <1>4, <1>10, <1>11
  <1>13. AreTrue(b, n + 1, q.consumed + q.unknown, q.released)'
    BY <1>9, <1>12 DEF AreTrue, Tally, TallyOf, First, Spent
  <1>. HIDE DEF q
  <1>14. IsTrue(q, b)'
    BY <1>1, <1>4, <1>13 DEF IsTrue
  <1>. QED  BY <1>4, <1>14 DEF q

LEMMA KeepsReconcile ==
  ASSUME IInv, NEW c \in Calls, Reconcile(c)
  PROVE  Kept
  <1>1. PICK w \in CallState : w = call[c] /\ Agrees(w)
    BY Memory
  <1>2. PICK p \in Life : p = w.next
    BY <1>1 DEF Reconcile, Passing, At, Agrees, ClosingAgrees
  <1>3. /\ w.pc = "pass" /\ w.batch \in Batches /\ p.stage = "reconcile"
        /\ p.cursor < Size[w.batch] /\ p.cursor \in Nat
        /\ life[w.batch] # None /\ IsTrue(p, w.batch)
        /\ w.left \in Int
    BY <1>1, <1>2 DEF Reconcile, Passing, At, Agrees, RowAgrees, ClosingAgrees, Life, CallState
  <1>4. PICK k : k = <<w.batch, p.cursor>>
    OBVIOUS
  <1>5. k \in Items
    <2>1. Size[w.batch] \in Nat
      BY <1>3, BatchAssumption
    <2>. QED  BY <1>3, <1>4, <2>1, ItemsAre
  <1>6. UNCHANGED <<host, allowed, job>>
    BY DEF Reconcile
  <1>7. CASE job[k] \in {"queued", "leased"} /\ Pass(c, NewLife, 0) /\ UNCHANGED attempt
    <2>1. Moves
      BY <1>6, <1>7, LedgerStays DEF remote
    <2>2. NewLife.cursor = 0 /\ Size[w.batch] # 0
      BY <1>3, BatchAssumption DEF NewLife
    <2>3. PICK n \in Life : n = NewLife /\ n.stage = "cancel" /\ IsTrue(n, w.batch)'
      BY <1>3, NewLifeIsTrue
    <2>4. call' = [call EXCEPT ![c].next = n, ![c].left = 0]
      BY <1>1, <1>7, <2>2, <2>3 DEF Pass
    <2>5. 0 \in Int
      OBVIOUS
    <2>. QED  BY <1>1, <1>3, <2>1, <2>3, <2>4, <2>5, PassStep
  <1>8. CASE /\ job[k] \notin {"queued", "leased"} /\ attempt' = Released(k)
             /\ Pass(c, Counted(p, attempt'[k]), w.left - 1)
    <2>1. Moves
      BY <1>5, <1>6, <1>8, ReleasedMoves
    <2>2. PICK state : state = attempt'[k]
      OBVIOUS
    <2>3. state # "reserved"
      BY <1>5, <1>8, <2>2 DEF Released, IInv, TypeOK
    <2>4. Counted(p, state).stage = "reconcile"
      BY <1>3 DEF Counted, Life
    <2>5. call' = [call EXCEPT ![c].next = Counted(p, state), ![c].left = w.left - 1]
      BY <1>8, <2>2, <2>4 DEF Pass
    <2>. DEFINE v == [w EXCEPT !.next = Counted(p, state), !.left = w.left - 1]
    <2>6. call' = [call EXCEPT ![c] = v]
      BY <1>1, <2>5 DEF IInv
    <2>7. Counted(p, state) \in Life
      <3>1. PICK x \in Nat : x = p.consumed + (IF state = "settled" THEN 1 ELSE 0)
        BY DEF Life
      <3>2. PICK y \in Nat : y = p.unknown + (IF state \in {"dispatched", "uncertain"} THEN 1 ELSE 0)
        BY DEF Life
      <3>3. PICK z \in Nat : z = p.released + (IF state = "released" THEN 1 ELSE 0)
        BY DEF Life
      <3>4. PICK m \in Nat : m = p.cursor + 1
        BY <1>3
      <3>5. Counted(p, state) = [p EXCEPT !.cursor = m, !.consumed = x, !.unknown = y, !.released = z]
        BY <3>1, <3>2, <3>3, <3>4 DEF Counted
      <3>. QED  BY <3>5 DEF Life
    <2>8. w.left - 1 \in Int
      BY <1>3
    <2>9. v \in CallState /\ v.pc = "pass"
      <3>1. PICK n \in Life : n = Counted(p, state)
        BY <2>7
      <3>2. PICK l \in Int : l = w.left - 1
        BY <2>8
      <3>3. v = [w EXCEPT !.next = n, !.left = l]
        BY <3>1, <3>2
      <3>. HIDE DEF v
      <3>. QED  BY <1>3, <3>3 DEF CallState
    <2>. HIDE DEF v
    <2>10. IsTrue(Counted(p, state), w.batch)'
      <3>1. v.pc # "claim"
        BY <2>9
      <3>2. PICK b \in Batches : b = w.batch
        BY <1>3
      <3>3. /\ life[b] # None /\ p.stage = "reconcile" /\ p.cursor < Size[b] /\ IsTrue(p, b)
            /\ k = <<b, p.cursor>> /\ job[k] \notin {"queued", "leased"}
        BY <1>3, <1>4, <1>8, <3>2
      <3>4. IsTrue(Counted(p, state), b)'
        BY <1>6, <2>1, <2>2, <2>3, <2>6, <2>9, <3>1, <3>3, CountedIsTrue
      <3>. QED  BY <3>2, <3>4
    <2>11. PICK n \in Life : n = Counted(p, state)
      BY <2>7
    <2>. QED  BY <1>1, <1>3, <2>1, <2>4, <2>5, <2>8, <2>10, <2>11, PassStep
  <1>. QED  BY <1>1, <1>2, <1>4, <1>7, <1>8 DEF Reconcile

-----------------------------------------------------------------------------
(* The steps on the lifecycle row *)

\* The row of a batch that is not closed is replaced by a true one.
LEMMA LifeStepMoves ==
  ASSUME IInv, NEW b \in Batches, NEW p \in Life, ~Closed(b), IsTrue(p, b),
         life' = [life EXCEPT ![b] = p],
         UNCHANGED <<batch, current, archive, pinned, remote>>
  PROVE  Moves
  <1>1. life \in [Batches -> Life \cup {None}]
    BY DEF IInv, TypeOK
  <1>2. TypeOK'
    BY <1>1 DEF IInv, TypeOK, remote
  <1>3. HostMoves
    <2>1. \A a \in Batches : RowMoves(batch[a], batch'[a])
      BY RowStays DEF IInv, TypeOK
    <2>. QED  BY <2>1 DEF HostMoves, remote
  <1>4. LifeMoves
    <2>1. p # None
      BY BatchAssumption
    <2>2. SUFFICES ASSUME NEW a \in Batches
                   PROVE  \/ life'[a] = life[a]
                          \/ life'[a] # None /\ ~Closed(a) /\ IsTrue(life'[a], a)
      BY DEF LifeMoves
    <2>3. CASE a = b
      <3>1. life'[a] = p
        BY <1>1, <2>3
      <3>. QED  BY <2>1, <2>3, <3>1
    <2>4. CASE a # b
      BY <1>1, <2>4
    <2>. QED  BY <2>3, <2>4
  <1>5. \A k \in Items : JobMoves(k) /\ AttemptMoves(k)
    BY DEF JobMoves, AttemptMoves, remote
  <1>. QED  BY <1>2, <1>3, <1>4, <1>5 DEF Moves

LEMMA KeepsFreeze ==
  ASSUME IInv, NEW c \in Calls, Freeze(c)
  PROVE  Kept
  <1>1. PICK w \in CallState : w = call[c] /\ Agrees(w)
    BY Memory
  <1>2. PICK b \in Batches : b = w.batch
    BY <1>1 DEF Freeze, At, Agrees, RowAgrees
  <1>3. /\ w.pc = "freeze" /\ w.row \in Row /\ w.row.phase # "closed"
        /\ UNCHANGED <<batch, current, archive, pinned, remote>>
        /\ life' = [life EXCEPT ![b] = IF life[b] = None THEN NewLife ELSE life[b]]
    BY <1>1, <1>2 DEF Freeze, At, Agrees, RowAgrees
  <1>4. life \in [Batches -> Life \cup {None}]
    BY DEF IInv, TypeOK
  <1>5. CASE Closed(b) /\ ToClose(c, RowAfter(c, TRUE))
    <2>1. life' = life
      BY <1>3, <1>4, <1>5 DEF Closed
    <2>2. UNCHANGED <<host, remote>>
      BY <1>3, <2>1 DEF host
    <2>3. PICK new : new = RowAfter(c, TRUE)
      OBVIOUS
    <2>4. new \in Row /\ Ending(new) /\ new.cursor = w.row.cursor /\ new.policy
      BY <1>1, <1>3, <2>3, RowAfterTyped
    <2>5. PICK v : v = [w EXCEPT !.pc = "close", !.next = new]
      OBVIOUS
    <2>6. call' = [call EXCEPT ![c] = v]
      BY <1>1, <1>5, <2>3, <2>5 DEF ToClose, IInv
    <2>7. v \in CallState /\ PicksOpen(v) /\ Agrees(v)
      BY <1>1, <1>2, <1>3, <1>5, <2>4, <2>5, ClosesWith DEF Agrees
    <2>. QED  BY <2>2, <2>6, <2>7, QuietStep
  <1>6. CASE ~Closed(b) /\ call' = [call EXCEPT ![c].pc = "frozen", ![c].prior = life'[b]]
    <2>1. PICK p : p = IF life[b] = None THEN NewLife ELSE life[b]
      OBVIOUS
    <2>2. p \in Life /\ p.stage # "closed" /\ IsTrue(p, b)
      <3>1. CASE life[b] = None
        BY <2>1, <3>1, NewLifeIsTrue
      <3>2. CASE life[b] # None
        BY <1>4, <1>6, <2>1, <3>2 DEF Closed, IInv, LifeIsTrue
      <3>. QED  BY <3>1, <3>2
    <2>3. life' = [life EXCEPT ![b] = p] /\ life'[b] = p
      BY <1>3, <1>4, <2>1
    <2>4. Moves
      BY <1>3, <1>6, <2>2, <2>3, LifeStepMoves
    <2>. DEFINE v == [w EXCEPT !.pc = "frozen", !.prior = p]
    <2>5. /\ v \in CallState
          /\ v.pc = "frozen" /\ v.batch = w.batch /\ v.row = w.row /\ v.prior = p
      BY <2>2 DEF CallState, PCs
    <2>6. call' = [call EXCEPT ![c] = v]
      BY <1>1, <1>6, <2>3 DEF IInv
    <2>. HIDE DEF v
    <2>7. PicksOpen(v)
      BY <2>5 DEF PicksOpen
    <2>8. RowAgrees(w)'
      BY <1>1, <2>4, RowAgreesStays DEF Agrees
    <2>9. RowAgrees(v)'
      BY <1>3, <2>5, <2>8 DEF RowAgrees, FundingPCs
    <2>10. CloseAgrees(v)' /\ FundingAgrees(v)' /\ WorkAgrees(v)'
      BY <2>5 DEF CloseAgrees, FundingAgrees, WorkAgrees, ClaimedPCs
    <2>11. ClosingAgrees(v)'
      <3>1. IsTrue(p, b)'
        BY <2>2, <2>4, <2>5, <2>6, <2>7, IsTrueStays
      <3>2. life'[b] # None
        BY <2>2, <2>3, BatchAssumption
      <3>. QED  BY <1>2, <2>2, <2>5, <3>1, <3>2 DEF ClosingAgrees
    <2>. QED  BY <2>4, <2>5, <2>6, <2>7, <2>9, <2>10, <2>11, StepKeeps DEF Kept, Agrees
  <1>. QED  BY <1>1, <1>2, <1>5, <1>6 DEF Freeze

\* What a closing call leaves is true: it closes only what is counted to the end.
LEMMA AfterIsTrue ==
  ASSUME NEW b \in Batches, NEW p \in Life, p.stage # "closed", IsTrue(p, b),
         NEW n, n = Size[b], NEW count \in BOOLEAN
  PROVE  After(p, n, count) \in Life /\ IsTrue(After(p, n, count), b)
  <1>1. n \in Nat /\ p.consumed + p.unknown \in Nat
    BY BatchAssumption DEF Life
  <1>2. CASE ~(p.stage = "review" \/ (p.stage = "reconcile" /\ p.cursor = n))
    BY <1>2 DEF After
  <1>3. CASE p.stage = "review" \/ (p.stage = "reconcile" /\ p.cursor = n)
    <2>1. AreTrue(b, n, p.consumed + p.unknown, p.released)
      BY <1>3 DEF IsTrue
    <2>2. PICK sum \in Nat : sum = p.consumed + p.unknown
      BY <1>1
    <2>. DEFINE q == [p EXCEPT !.stage = "closed", !.cursor = 0, !.consumed = sum]
                r == [p EXCEPT !.stage = "review"]
    <2>3. /\ q \in Life /\ q.stage = "closed"
          /\ q.consumed = sum /\ q.released = p.released
      BY DEF Life
    <2>4. /\ r \in Life /\ r.stage = "review"
          /\ r.consumed = p.consumed /\ r.unknown = p.unknown /\ r.released = p.released
      BY DEF Life
    <2>5. After(p, n, count) \in {q, r}
      BY <1>3, <2>2 DEF After
    <2>. HIDE DEF q, r
    <2>6. IsTrue(q, b)
      BY <2>1, <2>2, <2>3 DEF IsTrue
    <2>7. IsTrue(r, b)
      BY <2>1, <2>4 DEF IsTrue
    <2>. QED  BY <2>3, <2>4, <2>5, <2>6, <2>7
  <1>. QED  BY <1>2, <1>3

LEMMA KeepsSaveLife ==
  ASSUME IInv, NEW c \in Calls, SaveLife(c)
  PROVE  Kept
  <1>1. PICK w \in CallState : w = call[c] /\ Agrees(w)
    BY Memory
  <1>2. PICK b \in Batches : b = w.batch
    BY <1>1 DEF SaveLife, At, Agrees, RowAgrees
  <1>3. w.pc = "pass" /\ w.row \in Row /\ w.row.phase # "closed" /\ w.count \in BOOLEAN
    BY <1>1 DEF SaveLife, At, Agrees, RowAgrees, CallState
  <1>4. /\ w.prior.stage # "closed" /\ life[b] # None
        /\ w.next \in Life /\ w.next.stage # "closed" /\ IsTrue(w.next, b)
    BY <1>1, <1>2, <1>3 DEF Agrees, ClosingAgrees
  <1>5. PICK p : p = After(w.next, Size[b], w.count)
    OBVIOUS
  <1>6. p \in Life /\ IsTrue(p, b)
    BY <1>3, <1>4, <1>5, AfterIsTrue
  <1>7. /\ UNCHANGED <<batch, current, archive, pinned, remote>>
        /\ life' = [life EXCEPT ![b] = IF life[b] = w.prior THEN p ELSE life[b]]
        /\ ToClose(c, RowAfter(c, life'[b].stage = "closed"))
    BY <1>1, <1>2, <1>5 DEF SaveLife
  <1>8. life \in [Batches -> Life \cup {None}]
    BY DEF IInv, TypeOK
  <1>9. Moves
    <2>1. CASE life[b] = w.prior
      <3>1. ~Closed(b)
        BY <1>4, <2>1 DEF Closed
      <3>2. life' = [life EXCEPT ![b] = p]
        BY <1>7, <2>1
      <3>. QED  BY <1>6, <1>7, <3>1, <3>2, LifeStepMoves
    <2>2. CASE life[b] # w.prior
      <3>1. life' = life
        BY <1>7, <1>8, <2>2
      <3>. QED  BY <1>7, <3>1, LedgerStays DEF host
    <2>. QED  BY <2>1, <2>2
  <1>10. life'[b] # None
    BY <1>4, <1>9, ClosedStays DEF Moves
  <1>11. PICK closed \in BOOLEAN : closed = (life'[b].stage = "closed")
    OBVIOUS
  <1>12. PICK new : new = RowAfter(c, closed)
    OBVIOUS
  <1>13. /\ new \in Row /\ Ending(new) /\ new.cursor = w.row.cursor /\ new.policy
         /\ new.phase = "closed" => closed
    BY <1>1, <1>3, <1>12, RowAfterTyped
  <1>14. closed => Closed(w.batch)'
    BY <1>2, <1>10, <1>11 DEF Closed
  <1>. DEFINE v == [w EXCEPT !.pc = "close", !.next = new]
  <1>15. /\ v \in CallState
         /\ v.pc = "close" /\ v.batch = w.batch /\ v.row = w.row /\ v.next = new
    BY <1>13 DEF CallState, PCs
  <1>16. call' = [call EXCEPT ![c] = v]
    BY <1>1, <1>7, <1>11, <1>12 DEF ToClose, IInv
  <1>. HIDE DEF v
  <1>17. RowAgrees(w)'
    BY <1>1, <1>9, RowAgreesStays DEF Agrees
  <1>18. RowAgrees(v)'
    BY <1>3, <1>15, <1>17 DEF RowAgrees, FundingPCs
  <1>19. CloseAgrees(v)'
    BY <1>3, <1>13, <1>14, <1>15 DEF CloseAgrees, Ending
  <1>20. FundingAgrees(v)' /\ WorkAgrees(v)' /\ ClosingAgrees(v)' /\ PicksOpen(v)
    BY <1>15 DEF FundingAgrees, WorkAgrees, ClosingAgrees, ClaimedPCs, PicksOpen
  <1>. QED  BY <1>9, <1>15, <1>16, <1>18, <1>19, <1>20, StepKeeps DEF Kept, Agrees

-----------------------------------------------------------------------------
(* The invariant is kept *)

LEMMA InitInv == Init => IInv
  <1>. SUFFICES ASSUME Init PROVE IInv
    OBVIOUS
  <1>. DEFINE held == [NewLife EXCEPT !.stage = "review", !.cursor = 1, !.unknown = 1]
  <1>1. /\ held \in Life /\ held.stage = "review"
        /\ held.consumed = 0 /\ held.unknown = 1 /\ held.released = 0
    BY DEF NewLife, Life
  <1>2. life = [b \in Batches |-> IF b = Earlier THEN held ELSE None]
    BY DEF Init
  <1>. HIDE DEF held
  <1>3. TypeOK
    <2>1. batch \in [Batches -> Row]
      BY DEF Init, NewRow, Row, Phases
    <2>2. life \in [Batches -> Life \cup {None}]
      BY <1>1, <1>2
    <2>3. job \in [Items -> {"none", "queued", "leased", "ended"}]
      BY DEF Init
    <2>4. attempt \in [Items -> {"none", "reserved", "released"} \cup Spent]
      BY DEF Init, Spent
    <2>. QED  BY <2>1, <2>2, <2>3, <2>4, BatchAssumption DEF Init, TypeOK
  <1>4. call \in [Calls -> CallState] /\ \A c \in Calls : Agrees(call[c])
    BY IdleAgrees DEF Init
  <1>5. AllowancesAgree
    <2>1. ASSUME NEW b \in Batches, current = b \/ b \in allowed
          PROVE  b = Earlier
      BY <2>1 DEF Init
    <2>2. \A b \in Batches : b = Earlier => batch[b].phase = "cancelling"
      BY DEF Init
    <2>3. \A b \in allowed : current = b
      BY DEF Init
    <2>. QED  BY <2>1, <2>2, <2>3 DEF AllowancesAgree
  <1>6. ASSUME NEW b \in Batches, life[b] # None
        PROVE  IsTrue(life[b], b)
    <2>1. b = Earlier /\ Size[b] = 1 /\ life[b] = held
      BY <1>2, <1>6, BatchAssumption
    <2>2. First(b, 1) = {<<b, 0>>} /\ <<b, 0>> \in Items
      <3>1. 0..(1-1) = {0}
        OBVIOUS
      <3>2. <<b, 0>> \in Items
        BY <2>1, ItemsAre
      <3>. QED  BY <3>1, <3>2 DEF First
    <2>3. job[<<b, 0>>] = "ended" /\ attempt[<<b, 0>>] = "uncertain"
      BY <2>1, <2>2 DEF Init
    <2>4. \A k \in First(b, 1) : Settled(k)
      BY <1>6, <2>2, <2>3 DEF Settled, Unclaimable
    <2>5. TallyOf(attempt, b, 0 + 1, Spent) = 1 /\ TallyOf(attempt, b, 0 + 1, {"released"}) = 0
      BY <2>3, CountsNothing, CountsOneMore DEF Spent
    <2>6. AreTrue(b, 1, 1, 0)
      BY <2>4, <2>5 DEF AreTrue, Tally
    <2>. QED  BY <1>1, <2>1, <2>6 DEF IsTrue
  <1>. QED  BY <1>3, <1>4, <1>5, <1>6 DEF IInv, LifeIsTrue

LEMMA AdvanceKeeps ==
  ASSUME IInv, NEW c \in Calls, Advance(c)
  PROVE  Kept
  BY KeepsApprove, KeepsAllocate, KeepsRecord, KeepsArchive, KeepsReplace, KeepsConfirm,
     KeepsCreateAllowance, KeepsCreated, KeepsSavePolicy, KeepsEnqueue, KeepsSaveProgress,
     KeepsPick, KeepsSaveDone, KeepsClaim, KeepsAsk, KeepsReserve, KeepsDispatch, KeepsRelease,
     KeepsAnswer, KeepsFence, KeepsSettle, KeepsEndJob, KeepsSaveCancelling, KeepsRefer,
     KeepsFreeze, KeepsResolve, KeepsFenceJob, KeepsReconcile, KeepsSaveLife, KeepsSaveClosed
  DEF Advance

LEMMA NextKeeps == IInv /\ Next => Kept
  BY KeepsBeginStart, KeepsBeginContinue, KeepsBeginCancel, AdvanceKeeps, KeepsStop,
     KeepsRetarget
  DEF Next

LEMMA StutterKeeps == IInv /\ UNCHANGED vars => IInv'
  <1>. SUFFICES ASSUME IInv, UNCHANGED vars PROVE IInv'
    OBVIOUS
  <1>1. UNCHANGED <<batch, current, archive, life, remote, call>> /\ pinned' = pinned
    BY DEF vars, host
  <1>2. pinned' \in BOOLEAN
    BY <1>1 DEF IInv, TypeOK
  <1>. QED  BY <1>1, <1>2, IdleKeeps DEF Kept

LEMMA NextInv == IInv /\ [Next]_vars => IInv'
  BY NextKeeps, StutterKeeps DEF Kept

-----------------------------------------------------------------------------
(* Theorems *)

\* Every row, every lifecycle record and every job and attempt of the ledger
\* has its type throughout.
THEOREM BatchesTyped == Spec => []TypeOK
  <1>1. IInv => TypeOK
    BY DEF IInv
  <1>. QED  BY <1>1, InitInv, NextInv, PTL DEF Spec

\* The totals of a closed allowance (closeTranslationAllowance) are those of the
\* ledger: all that went out, or may have, is consumed, every other hold is
\* released, and none is left.
THEOREM ClosedTotalsHold == Spec => []ClosedTotalsAreTrue
  <1>1. ASSUME IInv
        PROVE  ClosedTotalsAreTrue
    <2>1. SUFFICES ASSUME NEW b \in Batches, Closed(b)
                   PROVE  /\ life[b].consumed = Cardinality(Of(b, Spent))
                          /\ life[b].released = Cardinality(Of(b, {"released"}))
                          /\ Of(b, {"reserved"}) = {}
      BY DEF ClosedTotalsAreTrue
    <2>2. AreTrue(b, Size[b], life[b].consumed, life[b].released)
      BY <1>1, <2>1 DEF IInv, LifeIsTrue, Closed, IsTrue
    <2>3. ASSUME NEW states
          PROVE  Of(b, states) = {k \in First(b, Size[b]) : attempt[k] \in states}
      BY ItemsOfBatch DEF Of
    <2>4. \A k \in First(b, Size[b]) : attempt[k] # "reserved"
      BY <2>2 DEF AreTrue, Settled
    <2>. QED  BY <2>2, <2>3, <2>4 DEF AreTrue, Tally, TallyOf
  <1>. QED  BY <1>1, InitInv, NextInv, PTL DEF Spec

\* An allowance that exists without being the recorded one, or behind a batch
\* that its administrator closed, is closed: no late start leaves one behind.
THEOREM NoAllowanceIsOrphaned == Spec => []NoOrphanAllowance
  <1>1. ASSUME IInv
        PROVE  NoOrphanAllowance
    <2>1. current \in Batches \cup {None} /\ allowed \subseteq Batches
      BY <1>1 DEF IInv, TypeOK
    <2>. QED  BY <1>1, <2>1 DEF IInv, AllowancesAgree, NoOrphanAllowance
  <1>. QED  BY <1>1, InitInv, NextInv, PTL DEF Spec

\* No call takes a batch back to an earlier phase, undoes the preparation of an
\* item or forgets the policy of its allowance.
THEOREM BatchesMoveOn == Spec => ProgressIsKept
  <1>. DEFINE Onward == \A b \in Batches : /\ Rank(batch'[b].phase) >= Rank(batch[b].phase)
                                           /\ batch'[b].cursor >= batch[b].cursor
                                           /\ batch[b].policy => batch'[b].policy
  <1>1. IInv /\ [Next]_vars => [Onward]_batch
    <2>1. ASSUME IInv, Next
          PROVE  Onward
      BY <2>1, NextKeeps DEF Kept, Moves, HostMoves, RowMoves
    <2>2. UNCHANGED vars => UNCHANGED batch
      BY DEF vars, host
    <2>. QED  BY <2>1, <2>2
  <1>. QED  BY <1>1, InitInv, NextInv, PTL DEF Spec, ProgressIsKept
=============================================================================

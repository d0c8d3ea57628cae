--------------------------- MODULE WorkflowDrafts ---------------------------
(***************************************************************************)
(* One workflow row under concurrent editors, publishers and rollbacks:    *)
(* upsertWorkflow reads the version and then writes one more, publication  *)
(* and rollback act on the version they captured (phase2-store.ts,         *)
(* compat/routes/actions.ts, routes/phase2.ts, workflow-authoring.ts).     *)
(*                                                                         *)
(* Abstractions: a graph is name, nodes and edges of the row; a save       *)
(* brings any graph and switch, also those it read before.                 *)
(***************************************************************************)
EXTENDS Naturals

CONSTANTS
  Clients,
  Graphs,       \* contents of a draft
  Supported,    \* those that authoringGraph admits
  None,
  MaxVersion    \* bound: saves and rollbacks

VARIABLES
  draft,     \* the workflows row
  versions,  \* the workflow_authoring:version rows
  call       \* per client: what it is about to do, and what it read

vars == <<draft, versions, call>>

Draft == [graph : Graphs, active : BOOLEAN, published : BOOLEAN, version : 1..MaxVersion]
Idle  == [pc |-> "idle"]

Init == /\ draft = None /\ versions = {}
        /\ call = [c \in Clients |-> Idle]

At(c, pc)   == call[c].pc = pc
Goto(c, to) == call' = [call EXCEPT ![c] = to]

-----------------------------------------------------------------------------
(* Saves: PUT /automations/:id and PATCH /api/actions/drafts/:id *)

\* The version is read in a query of its own ...
ReadVersion(c, graph, active) ==
  LET version == IF draft = None THEN 1 ELSE draft.version + 1
  IN /\ At(c, "idle") /\ version <= MaxVersion
     /\ Goto(c, [pc |-> "save", graph |-> graph, active |-> active, version |-> version])
     /\ UNCHANGED <<draft, versions>>

\* ... and written whatever the row holds by then.
Save(c) ==
  /\ At(c, "save")
  /\ draft' = [graph     |-> call[c].graph,
               active    |-> call[c].active,
               version   |-> call[c].version,
               published |-> draft # None /\ draft.published]
  /\ Goto(c, Idle)
  /\ UNCHANGED versions

Toggle == /\ draft # None
          /\ draft' = [draft EXCEPT !.active = ~@]
          /\ UNCHANGED <<versions, call>>

Delete == draft # None /\ draft' = None /\ UNCHANGED <<versions, call>>

-----------------------------------------------------------------------------
(* Publication and rollback *)

\* The row is captured; a graph that authoringGraph refuses ends the call.
Capture(c) ==
  /\ At(c, "idle") /\ draft # None /\ draft.graph \in Supported
  /\ \/ Goto(c, [pc |-> "publish", seen |-> draft])
     \/ \E v \in versions : Goto(c, [pc |-> "restore", seen |-> draft, target |-> v])
  /\ versions' = versions \cup {draft.graph}     \* snapshotWorkflow
  /\ UNCHANGED draft

Unedited(c) == draft # None /\ draft.version = call[c].seen.version

\* publishWorkflowIfVersion
Publish(c) ==
  /\ At(c, "publish")
  /\ draft' = IF Unedited(c) THEN [draft EXCEPT !.published = TRUE, !.active = TRUE] ELSE draft
  /\ Goto(c, Idle)
  /\ UNCHANGED versions

\* restoreWorkflowIfVersion
Restore(c) ==
  /\ At(c, "restore") /\ (Unedited(c) => draft.version < MaxVersion)
  /\ draft' = IF Unedited(c)
              THEN [graph |-> call[c].target, active |-> FALSE, published |-> FALSE,
                    version |-> draft.version + 1]
              ELSE draft
  /\ Goto(c, Idle)
  /\ UNCHANGED versions

Next == \/ Toggle \/ Delete
        \/ \E c \in Clients : \/ \E g \in Graphs, a \in BOOLEAN : ReadVersion(c, g, a)
                              \/ Save(c) \/ Capture(c) \/ Publish(c) \/ Restore(c)

Spec == Init /\ [][Next]_vars

-----------------------------------------------------------------------------
(* Properties *)

TypeOK == /\ draft \in Draft \cup {None}
          /\ versions \subseteq Supported

\* "Authoring review never activates/overwrites a draft edited after capture"
\* (phase2-store.ts:120): when a publication or a rollback takes effect, the row
\* still holds the graph that the call captured, checked and put on record.
ActsOnCapturedGraph ==
  [][\A c \in Clients :
       /\ call[c].pc \in {"publish", "restore"}
       /\ call'[c] = Idle /\ draft' # draft
       => draft.graph = call[c].seen.graph]_vars
=============================================================================

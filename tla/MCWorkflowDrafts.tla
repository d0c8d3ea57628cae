------------------------- MODULE MCWorkflowDrafts ---------------------------
(* Small instance: three clients, so that two saves overlap around a third call. *)
EXTENDS WorkflowDrafts, TLC

MCSymmetry == Permutations(Clients)
=============================================================================

---------------------------- MODULE MCPageChange ----------------------------
(* Small instance: one page, three changes of it, two concurrent calls. *)
EXTENDS PageChange, TLC

MCSymmetry == Permutations(Ops) \cup Permutations(Callers)
=============================================================================

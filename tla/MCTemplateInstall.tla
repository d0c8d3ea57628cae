------------------------- MODULE MCTemplateInstall --------------------------
(* Small instance: two operations, two concurrent calls. *)
EXTENDS TemplateInstall, TLC

MCSymmetry == Permutations(Ops) \cup Permutations(Calls)
=============================================================================

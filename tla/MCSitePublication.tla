------------------------- MODULE MCSitePublication --------------------------
(* Small instance: two concurrent calls, two configurations, two texts. *)
EXTENDS SitePublication, TLC

MCSymmetry == Permutations(Calls) \cup Permutations(Configurations) \cup Permutations(Texts)
=============================================================================

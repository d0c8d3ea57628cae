------------------------ MODULE MCTranslationRunner -------------------------
(* Small instance: two workers on one job with up to three leases, an editor *)
(* who may overtake it with a manual revision or take its revision id, and a *)
(* source that goes from A to B.                                             *)
EXTENDS TranslationRunner, TLC

CONSTANTS u1, l1, i1, i3, j1, A, B, x1, x2, a1

MCUnits     == {u1}
MCLocales   == {l1}
MCIds       == {i1, i3}
MCJobs      == {j1}
MCSlot      == (j1 :> <<u1, l1, i1>>)
MCEditorIds == {i1, i3}
MCWordings  == {A, B}
MCTexts     == {x1, x2}
MCRenders   == {<<A, x1>>, <<B, x1>>}
MCOffers    == {<<"manual", x1>>}
MCFailureCodes  == JobErrors
MCAllowances    == {a1}
MCLimit         == (a1 :> 4)
MCMaxRequests   == (a1 :> 3)
MCMaxConcurrent == (a1 :> 2)
MCAmounts       == {2}
MCCharges       == {1}
MCPolicy        == (j1 :> <<a1, 2>>)
=============================================================================

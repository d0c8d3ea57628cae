---------------------- MODULE MCTranslationAccounting -----------------------
(* Small instance: two jobs with two leases each, for the same locale of a  *)
(* unit, draw on two allowances. a1 runs out of units first: two holds fit  *)
(* only if one has been settled below its size. a2 runs out of requests     *)
(* first, and admits one call at a time. A settlement may be cheaper than   *)
(* its hold, above it or unknown. An editor may overtake either job.        *)
EXTENDS TranslationAccounting, TLC

CONSTANTS u1, l1, i1, i2, i3, j1, j2, A, x1, a1, a2

MCUnits     == {u1}
MCLocales   == {l1}
MCIds       == {i1, i2, i3}
MCJobs      == {j1, j2}
MCSlot      == (j1 :> <<u1, l1, i1>>) @@ (j2 :> <<u1, l1, i2>>)
MCEditorIds == {i3}
MCWordings  == {A}
MCTexts     == {x1}
MCRenders   == {<<A, x1>>}
MCOffers    == {<<"manual", x1>>}
MCFailureCodes  == {"denied"}
MCAllowances    == {a1, a2}
MCLimit         == (a1 :> 3) @@ (a2 :> 9)
MCMaxRequests   == (a1 :> 3) @@ (a2 :> 2)
MCMaxConcurrent == (a1 :> 2) @@ (a2 :> 1)
MCAmounts       == {2}
MCCharges       == {1, 3}
=============================================================================

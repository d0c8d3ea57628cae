-------------------------- MODULE MCTranslationJobs -------------------------
(* Small instance: one unit with two target locales' worth of work on one   *)
(* locale: job j1 and job j2 race for it, an editor owns a third id, and     *)
(* the source goes from A to B (and back, within MaxSources).                *)
EXTENDS TranslationJobs, TLC

CONSTANTS u1, l1, i1, i2, i3, j1, j2, A, B, x1

MCUnits     == {u1}
MCLocales   == {l1}
MCIds       == {i1, i2, i3}
MCJobs      == {j1, j2}
MCSlot      == (j1 :> <<u1, l1, i1>>) @@ (j2 :> <<u1, l1, i2>>)
MCEditorIds == {i2, i3}
MCWordings  == {A, B}
MCTexts     == {x1}
MCRenders   == {<<A, x1>>, <<B, x1>>}
MCOffers    == {<<"manual", x1>>, <<"import", x1>>}
MCFailureCodes == {"provider-error"}
=============================================================================

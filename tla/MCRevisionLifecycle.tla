------------------------ MODULE MCRevisionLifecycle -------------------------
(* Small instance: one unit, two writers that may pick the same two ids, one *)
(* source editor going A, B, A. Text x2 drops a placeholder of wording B.    *)
EXTENDS RevisionLifecycle, TLC

CONSTANTS A, B, x1, x2

MCWordings == {A, B}
MCTexts    == {x1, x2}
MCOffers   == {<<"ai", x1>>, <<"manual", x2>>}
MCRenders  == {<<A, x1>>, <<A, x2>>, <<B, x1>>}
=============================================================================

------------------------ MODULE MCTranslationBatch -------------------------
EXTENDS TranslationBatch, TLC

CONSTANTS b0, b1, c1, c2

\* The earlier batch has one item, its successor two.
MCSize == (b0 :> 1) @@ (b1 :> 2)

Symmetry == Permutations(Calls)
=============================================================================

--------------------------- MODULE MCLexiconStore ---------------------------
(* LexiconStore on concurrent requests of every kind; the values are in    *)
(* the configuration.  Only safety is checked and requests are alike, so   *)
(* permuting them is sound.                                                *)
EXTENDS LexiconStore, TLC

Symmetry == Permutations(Requests)
=============================================================================

-------------------------- MODULE MCMweIndexCache --------------------------
(* MweIndexCache on two reader threads and one occurrence; the values are  *)
(* in the configuration.  Only safety is checked and the readers are       *)
(* alike, so permuting them is sound.                                      *)
EXTENDS MweIndexCache, TLC

Symmetry == Permutations(Readers)
=============================================================================

---------------------------- MODULE MCUnitStore ----------------------------
(* UnitStore on four requests that meet a store of up to two units; the    *)
(* values are in the configuration.  Only safety is checked and requests   *)
(* are alike, so permuting them is sound.                                  *)
EXTENDS UnitStore, TLC

Symmetry == Permutations(Requests)
=============================================================================

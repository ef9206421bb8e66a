---------------------------- MODULE MCEpochBoot ----------------------------
(***************************************************************************)
(* EpochBoot on small instances.                                           *)
(***************************************************************************)
EXTENDS EpochBoot, TLC

Symmetry == Permutations(Runs)
=============================================================================

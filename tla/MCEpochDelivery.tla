-------------------------- MODULE MCEpochDelivery --------------------------
(***************************************************************************)
(* EpochDelivery on small instances.                                       *)
(***************************************************************************)
EXTENDS EpochDelivery, TLC

Symmetry == Permutations(Symbols) \union Permutations(Instances)
=============================================================================

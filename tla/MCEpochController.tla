------------------------- MODULE MCEpochController -------------------------
(***************************************************************************)
(* EpochController on small instances.                                     *)
(***************************************************************************)
EXTENDS EpochController, TLC

Symmetry == Permutations(Runs)

\* A host on which no epoch was ever created.
FreshHost == {-1}
AnyHost == -1..4

\* Attempt 4 stopped with one symbol two minutes ahead of the others.
Ahead == CHOOSE s \in Symbols : TRUE
PartialAnchors == [s \in Symbols |-> IF s = Ahead THEN 3 ELSE 1]
=============================================================================

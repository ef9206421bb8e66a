------------------------- MODULE MCControlledPrimary -------------------------
(***************************************************************************)
(* ControlledPrimary on small instances.                                   *)
(***************************************************************************)
EXTENDS ControlledPrimary
=============================================================================

---------------------------- MODULE EpochSymbols ----------------------------
(***************************************************************************)
(* The symbols of a runtime epoch, shared by its modules.                  *)
(***************************************************************************)
EXTENDS Integers, FiniteSets

CONSTANT Symbols  \* SYMBOLS, fixed for the epoch

ASSUME SymbolsAssumption == IsFiniteSet(Symbols) /\ Symbols # {}
=============================================================================

-------------------------- MODULE MCCurrentBuild --------------------------
(* Two groups of tools that run on the same host and share nothing: the     *)
(* epochs after the accepted one, with two processes and two current        *)
(* owners, and the bounded builds, with one adapter and one direct          *)
(* qualifier.  Each part runs from every one of its initial states.         *)
EXTENDS CurrentEpoch, BoundedBuild, TLC

CONSTANTS c1, d1

VARIABLE part

partVars == <<part, currentVars, vars>>

(* The part that does not run rests in one of its initial states. *)
PartInit == /\ part \in {"current", "build"}
            /\ CurrentInit /\ Init
            /\ part = "build" => work[Prior] = "absent"

PartNext == \/ part = "current" /\ CurrentNext /\ UNCHANGED <<part, vars>>
            \/ part = "build" /\ Next /\ UNCHANGED <<part, currentVars>>

PartSpec == PartInit /\ [][PartNext]_partVars

Symmetry == Permutations(Procs) \union Permutations(Owners \ {Prior})
=============================================================================

---------------------------- MODULE MCEvidence ----------------------------
(* Three scripts that judge copies and only meet through their operator,    *)
(* each on its own from every one of its initial states: the cold Redis     *)
(* acceptance, the recovery of the append-only files, and the rehearsal of  *)
(* the controlled runtime on a clone of the primary.                        *)
EXTENDS ColdRedis, AofRecovery, ControlledClone, TLC

VARIABLE part

partVars == <<part, coldVars, aofVars, vars>>

(* A script that is not the part's rests in one of its initial states. *)
ColdRests == source = Volume(<<>>, <<>>, <<<<>>>>) /\ ~cold.historical
AofRests == original.log = (CHOOSE f \in Files : TRUE) /\ original.acl = "original"

PartInit == /\ Init
            /\ \/ part = "cold" /\ AofInit /\ AofRests /\ ColdInit
               \/ part = "aof" /\ ColdInit /\ ColdRests /\ AofInit
               \/ part = "clone" /\ ColdInit /\ ColdRests /\ AofInit /\ AofRests

PartNext == \/ part = "cold" /\ ColdNext /\ UNCHANGED <<part, aofVars, vars>>
            \/ part = "aof" /\ AofNext /\ UNCHANGED <<part, coldVars, vars>>
            \/ part = "clone" /\ Next /\ UNCHANGED <<part, coldVars, aofVars>>

PartSpec == PartInit /\ [][PartNext]_partVars

RunSymmetry == Permutations(CloneRuns)
============================================================================

---------------------------- MODULE MCEpochEnds ----------------------------
(***************************************************************************)
(* Liveness of the two tools that run an epoch, each on its own: the       *)
(* controller on any recorded host, and the guarded boot.                  *)
(***************************************************************************)
EXTENDS MCEpochController

CONSTANTS AdmitsPause, MaxCatchup, MaxBootMinute, MaxBootFaults

VARIABLES part,
          latch, bootPc, bootMem, up, live, volume, audit, queue, delivery,
          bootStatus, rewritten, receipts, reviewed, bootNow, bootFaults

Boot == INSTANCE EpochBoot WITH pc <- bootPc, mem <- bootMem, status <- bootStatus,
                                now <- bootNow, faults <- bootFaults,
                                MaxMinute <- MaxBootMinute, MaxFaults <- MaxBootFaults

bootVars == <<latch, bootPc, bootMem, up, live, volume, audit, queue, delivery,
              bootStatus, rewritten, receipts, reviewed, bootNow, bootFaults>>
partVars == <<part, vars, bootVars>>

\* The tool that does not run rests in one of its initial states.
PartInit == /\ part \in {"controller", "boot"}
            /\ Init /\ Boot!Init
            /\ part = "boot" => lease = NoRun /\ now = 1

InController == part = "controller" /\ UNCHANGED <<part, bootVars>>
InBoot == part = "boot" /\ UNCHANGED <<part, vars>>

PartNext == \/ InController /\ Next
            \/ InBoot /\ Boot!Next

PartSpec == /\ PartInit /\ [][PartNext]_partVars
            /\ \A r \in Runs : /\ WF_partVars(InController /\ RunStep(r))
                               /\ WF_partVars(InController /\ WorkerStep(r))
                               /\ WF_partVars(InBoot /\ Boot!RunStep(r))
                               /\ WF_partVars(InBoot /\ Boot!WorkerStep(r))

\* EpochBoot: the deadlines of the run bound every wait, and each run that took
\* the latch ends.
BootEnds == Boot!BootEnds
=============================================================================

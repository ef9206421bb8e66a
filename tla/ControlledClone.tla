--------------------------- MODULE ControlledClone ---------------------------
(***************************************************************************)
(* The accepted clone (fresh_runtime_recovery.py, extended by              *)
(* controlled_runtime_transition.py).  A supervisor starts one child; the  *)
(* child takes the create-only lease of its revision, copies the stopped   *)
(* primary cold, proves the copy equal before PostgreSQL may touch it,     *)
(* backs it up, restores it twice, proves the primary unchanged, rehearses *)
(* the runtime transition on a third restore with the worker of            *)
(* ControlledWorker, restores the result once more and proves the primary  *)
(* unchanged again.  Only a PASS frees the lease, and only a PASS lets an  *)
(* apply worker at the primary (the controller around that worker is       *)
(* module ControlledPrimary).                                              *)
(*                                                                         *)
(* The primary is shared: anybody may start it, write to it and stop it    *)
(* while a clone runs.  Its history is a version number; a dump that went  *)
(* wrong unnoticed has the history NoPlan.                                 *)
(***************************************************************************)
EXTENDS ControlledWorker

CONSTANTS CloneRuns,   \* supervised runs of one revision
          NoRun,       \* the lease is free
          MaxFaults,   \* commands that fail, dumps that are wrong
          MaxWrites    \* histories of the primary

ASSUME CloneAssumption ==
  NoRun \notin CloneRuns /\ MaxFaults \in Nat /\ MaxWrites \in Nat /\ NoPlan \notin Nat

\* One container per phase of run(), in this order.
Phases == <<"cold", "source", "first", "second", "verify",
            "current", "current_second", "current_verify">>

\* Phases that read the primary's volume, each after source().
ReadsPrimary == {"cold", "verify", "current_verify"}

VARIABLES primary,    \* state of the primary's container
          lease,      \* the run named in the lease file
          cl,         \* the lease holder's controller
          boxes,      \* containers with the owner's label
          cloneSup, child, verdict,  \* per run: supervisor, child, its result
          accepted,   \* plans of the runs with a PASS receipt
          writes, faults
vars == <<workerVars, primary, lease, cl, boxes, cloneSup, child, verdict,
          accepted, writes, faults>>

\* Controller.__init__ and what run() keeps in memory and in its directory.
Attributes == [pc |-> "admit", phase |-> 1, ok |-> TRUE, clean |-> TRUE,
               owned |-> {}, workers |-> {},
               cold |-> Legacy(NoPlan), copy |-> Legacy(NoPlan), baseline |-> NoPlan,
               dump |-> NoPlan, after |-> NoPlan, current |-> Legacy(NoPlan)]

Init ==
  /\ db = [t \in Targets |-> Legacy(IF t = "primary" THEN 0 ELSE NoPlan)]
  /\ w = NoWorker /\ server = NoTransaction
  /\ primary = "exited"
  /\ lease = NoRun
  /\ cl = [Attributes EXCEPT !.pc = "none"]
  /\ boxes = {}
  /\ cloneSup = [c \in CloneRuns |-> "idle"]
  /\ child = [c \in CloneRuns |-> "none"]
  /\ verdict = [c \in CloneRuns |-> "none"]
  /\ accepted = [c \in CloneRuns |-> NoPlan]
  /\ writes = 0 /\ faults = 0

-----------------------------------------------------------------------------
(* The primary's other users.                                              *)

Environment == <<lease, cl, boxes, cloneSup, child, verdict, accepted, faults>>

\* Somebody starts or stops the primary.  Bound: the runtime profile ends it.
PrimaryToggled ==
  /\ db["primary"].profile = "legacy"
  /\ primary' = IF primary = "exited" THEN "running" ELSE "exited"
  /\ server' = IF server.target = "primary" THEN NoTransaction ELSE server
  /\ UNCHANGED <<db, w, writes, Environment>>

\* A write needs the running server and waits for ACCESS EXCLUSIVE.
PrimaryWritten ==
  /\ primary = "running" /\ db["primary"].profile = "legacy"
  /\ server.state = "none" \/ server.target # "primary"
  /\ writes < MaxWrites
  /\ writes' = writes + 1
  /\ db' = [db EXCEPT !["primary"].hist = writes + 1]
  /\ UNCHANGED <<w, server, primary, Environment>>

-----------------------------------------------------------------------------
(* The lease holder's commands.                                            *)

Alive == lease # NoRun /\ child[lease] = "run"
At(p) == Alive /\ cl.pc = p
Phase == Phases[cl.phase]
FaultLeft == faults < MaxFaults
Faulty == FaultLeft /\ faults' = faults + 1

\* An exception leaves run() for finish(False).
Failing(m) == [m EXCEPT !.ok = FALSE, !.pc = "f.workers"]

Outside == <<primary, lease, cloneSup, child, verdict, accepted, writes>>

\* controlled_runtime_transition.Controller.admit: signed sources, and no
\* transition container of anybody is running.
Admit ==
  /\ At("admit")
  /\ cl' \in {Failing(cl)} \cup (IF boxes = {} THEN {[cl EXCEPT !.pc = "make"]} ELSE {})
  /\ UNCHANGED <<workerVars, boxes, Outside, faults>>

\* What the container of a restore phase serves.
Restored == CASE Phase = "current"        -> Legacy(cl.dump)
              [] Phase = "current_second" -> [cl.current EXCEPT !.roles = FALSE]
              [] OTHER                    -> db["clone"]

\* source() where the phase reads the primary; create() records the name
\* before docker create.
Make ==
  /\ At("make")
  /\ LET m == [cl EXCEPT !.owned = @ \cup {Phase}]
     IN \/ /\ Phase \in ReadsPrimary => primary = "exited"
           /\ cl' = [m EXCEPT !.pc = "use"]
           /\ boxes' = boxes \cup {Phase}
           /\ db' = [db EXCEPT !["clone"] = Restored]
           /\ UNCHANGED faults
        \/ /\ Phase \in ReadsPrimary /\ primary # "exited"
           /\ cl' = Failing(cl)
           /\ UNCHANGED <<boxes, db, faults>>
        \/ /\ Faulty
           /\ cl' = Failing(m)
           /\ boxes' \in {boxes, boxes \cup {Phase}}
           /\ UNCHANGED db
  /\ UNCHANGED <<w, server, Outside>>

\* One phase's work leads to the controller `next' when it is `right'.
Work(phase, right, next) ==
  /\ At("use") /\ Phase = phase
  /\ \/ right /\ cl' \in next /\ UNCHANGED faults
     \/ ~right /\ cl' = Failing(cl) /\ UNCHANGED faults
     \/ Faulty /\ cl' = Failing(cl)
  /\ UNCHANGED <<workerVars, boxes, Outside>>

\* pg_dump of a history: the right one or, while faults are left, a wrong one.
Dumps(h) == {h} \cup (IF FaultLeft THEN {NoPlan} ELSE {})

\* The fingerprint is taken first and the archive is written after it.
ColdFingerprint ==
  Work("cold", TRUE, {[cl EXCEPT !.cold = db["primary"], !.pc = "tar"]})
ColdCopy ==
  /\ At("tar")
  /\ \/ cl' = [cl EXCEPT !.copy = db["primary"], !.pc = "drop"] /\ UNCHANGED faults
     \/ Faulty /\ cl' = Failing(cl)
  /\ UNCHANGED <<workerVars, boxes, Outside>>

\* The copy's fingerprint is compared before PostgreSQL starts on it; then
\* the legacy snapshot and the official backup.
CopyIsFaithful == cl.copy = cl.cold /\ cl.copy.profile = "legacy"
SourceCopy ==
  Work("source", CopyIsFaithful,
       {[cl EXCEPT !.baseline = cl.copy.hist, !.dump = h, !.pc = "drop"] :
          h \in Dumps(cl.copy.hist)})

FirstRestore ==
  Work("first", cl.dump = cl.baseline,
       {[cl EXCEPT !.after = h, !.pc = "drop"] : h \in Dumps(cl.dump)})
SecondRestore ==
  Work("second", cl.after = cl.baseline, {[cl EXCEPT !.pc = "drop"]})

\* PRIMARY_UNCHANGED_VERIFICATION, after the second restore and at the end.
PrimaryUnchanged == db["primary"] = cl.cold
VerifyPrimary ==
  \/ Work("verify", PrimaryUnchanged, {[cl EXCEPT !.pc = "drop"]})
  \/ Work("current_verify", PrimaryUnchanged, {[cl EXCEPT !.pc = "drop"]})

\* The plan carries the baseline; worker(..., "rehearse") is recorded before
\* its container is created.
Rehearse ==
  /\ At("use") /\ Phase = "current"
  /\ LET m == [cl EXCEPT !.workers = {"worker"}]
     IN \/ /\ db["clone"] = Legacy(cl.baseline)
           /\ StartWorker("rehearse", "clone", cl.baseline)
           /\ cl' = [m EXCEPT !.pc = "collect"]
           /\ boxes' = boxes \cup {"worker"}
           /\ UNCHANGED faults
        \/ /\ db["clone"] # Legacy(cl.baseline)
           /\ cl' = Failing(cl) /\ UNCHANGED <<w, boxes, faults>>
        \/ /\ Faulty /\ cl' = Failing(m)
           /\ boxes' \in {boxes, boxes \cup {"worker"}} /\ UNCHANGED w
  /\ UNCHANGED <<db, server, Outside>>

\* docker wait, exit code, receipt PASS, docker rm.
CollectRehearsal ==
  /\ At("collect")
  /\ \/ /\ w.pc = "ok"
        /\ cl' = [cl EXCEPT !.pc = "fixture", !.workers = {}]
        /\ boxes' = boxes \ {"worker"}
        /\ WorkerGone /\ UNCHANGED faults
     \/ w.pc = "failed" /\ cl' = Failing(cl) /\ UNCHANGED <<boxes, w, faults>>
     \/ Faulty /\ cl' = Failing(cl) /\ UNCHANGED <<boxes, w>>
  /\ UNCHANGED <<db, server, Outside>>

\* The delivery fixture runs on an empty database and Redis of its own.
DeliveryFixture ==
  /\ At("fixture")
  /\ \/ cl' = [cl EXCEPT !.pc = "dump"] /\ UNCHANGED <<boxes, faults>>
     \/ /\ Faulty
        /\ cl' = [Failing(cl) EXCEPT !.workers = {"redis"}]
        /\ boxes' \in {boxes, boxes \cup {"redis"}}
  /\ UNCHANGED <<workerVars, Outside>>

BackupAfter ==
  /\ At("dump")
  /\ \/ cl' = [cl EXCEPT !.current = db["clone"], !.pc = "drop"] /\ UNCHANGED faults
     \/ Faulty /\ cl' \in {Failing(cl), [cl EXCEPT !.pc = "drop"]}
  /\ UNCHANGED <<workerVars, boxes, Outside>>

\* worker(..., "verify") on a restore without privileges: history only.
RestoredUnchecked == TRUE
RestoredIsCurrent == [db["clone"] EXCEPT !.roles = TRUE] = Runtime(cl.baseline)
VerifyRestored ==
  Work("current_second", RestoredIsCurrent, {[cl EXCEPT !.pc = "drop"]})

\* remove(name): its PostgreSQL goes with it.
ClonePg == {"current", "current_second"}
WithoutServer(removed) ==
  server' = IF server.target = "clone" /\ removed \cap ClonePg # {}
            THEN NoTransaction ELSE server

Drop ==
  /\ At("drop")
  /\ \/ /\ boxes' = boxes \ {Phase}
        /\ WithoutServer({Phase})
        /\ cl' = [cl EXCEPT !.owned = {},
                            !.phase = IF @ < Len(Phases) THEN @ + 1 ELSE @,
                            !.pc = IF cl.phase < Len(Phases) THEN "make" ELSE "f.workers"]
        /\ UNCHANGED faults
     \/ /\ Faulty /\ cl' = Failing(cl)
        /\ \E removed \in {{}, {Phase}} :
             boxes' = boxes \ removed /\ WithoutServer(removed)
  /\ UNCHANGED <<db, w, Outside>>

-----------------------------------------------------------------------------
(* finish().                                                               *)

\* A recorded worker that cannot be inspected and removed is uncertain.
FinishWorkers ==
  /\ At("f.workers")
  /\ \/ /\ cl.workers \subseteq boxes
        /\ boxes' = boxes \ cl.workers
        /\ w' = IF "worker" \in cl.workers THEN NoWorker ELSE w
        /\ cl' = [cl EXCEPT !.workers = {}, !.pc = "f.owned"]
        /\ UNCHANGED faults
     \/ /\ cl.workers # {}
        /\ Faulty \/ (~(cl.workers \subseteq boxes) /\ UNCHANGED faults)
        /\ cl' = [cl EXCEPT !.clean = FALSE, !.pc = "f.owned"]
        /\ UNCHANGED <<boxes, w>>
  /\ UNCHANGED <<db, server, Outside>>

FinishOwned ==
  /\ At("f.owned")
  /\ \/ /\ boxes' = boxes \ cl.owned
        /\ WithoutServer(cl.owned)
        /\ cl' = [cl EXCEPT !.owned = {}, !.pc = "f.receipt"]
        /\ UNCHANGED faults
     \/ /\ cl.owned # {} /\ Faulty
        /\ cl' = [cl EXCEPT !.clean = FALSE, !.pc = "f.receipt"]
        /\ UNCHANGED <<boxes, server>>
  /\ UNCHANGED <<db, w, Outside>>

\* The owner's inventory is empty and the receipt is written; only a PASS
\* frees the lease.
Passes == cl.ok /\ cl.clean /\ boxes = {}

FinishReceipt ==
  /\ At("f.receipt")
  /\ \E inventoried \in {TRUE} \cup (IF FaultLeft THEN {FALSE} ELSE {}) :
       LET pass == Passes /\ inventoried
       IN /\ faults' = IF inventoried THEN faults ELSE faults + 1
          /\ accepted' = IF pass THEN [accepted EXCEPT ![lease] = cl.baseline] ELSE accepted
          /\ child' = [child EXCEPT ![lease] = IF pass THEN "exit0" ELSE "exit1"]
          /\ lease' = IF pass THEN NoRun ELSE lease
          /\ cl' = [cl EXCEPT !.pc = "ended"]
  /\ UNCHANGED <<workerVars, primary, boxes, cloneSup, verdict, writes>>

-----------------------------------------------------------------------------
(* Supervisors, and the apply worker of an accepted run.                   *)

Inside == <<workerVars, primary, cl, boxes, accepted, writes, faults>>

Launch(c) ==
  /\ cloneSup[c] = "idle"
  /\ cloneSup' = [cloneSup EXCEPT ![c] = "watch"]
  /\ child' = [child EXCEPT ![c] = "create"]
  /\ UNCHANGED <<Inside, lease, verdict>>

\* The lease file is opened create-only: a run that did not PASS keeps it.
LeaseTaken == lease # NoRun /\ child[lease] = "run"
LeaseExists == lease # NoRun

CreateLease(c) ==
  /\ child[c] = "create"
  /\ IF LeaseExists
     THEN child' = [child EXCEPT ![c] = "exit1"] /\ UNCHANGED <<lease, cl>>
     ELSE /\ child' = [child EXCEPT ![c] = "run"]
          /\ lease' = c
          /\ cl' = Attributes
  /\ UNCHANGED <<workerVars, primary, boxes, cloneSup, verdict, accepted, writes, faults>>

\* The child dies, or its supervisor's bound ends its job.
ChildKilled(c) ==
  /\ child[c] \in {"create", "run"}
  /\ child' = [child EXCEPT ![c] = "killed"]
  /\ UNCHANGED <<Inside, lease, cloneSup, verdict>>

\* supervise: exit code zero and the receipt it names.
Judge(c) ==
  /\ cloneSup[c] = "watch" /\ child[c] \in {"exit0", "exit1", "killed"}
  /\ cloneSup' = [cloneSup EXCEPT ![c] = "done"]
  /\ verdict' = [verdict EXCEPT ![c] =
       IF child[c] = "exit0" /\ accepted[c] # NoPlan THEN "PASS" ELSE "FAILED_CLOSED"]
  /\ UNCHANGED <<Inside, lease, child>>

\* PrimaryController.run: the accepted plan with the primary's worker.
ApplyPrimary(c) ==
  /\ verdict[c] = "PASS"
  /\ primary = "running" /\ w.mode = "none" /\ server.state = "none"
  /\ StartWorker("apply", "primary", accepted[c])
  /\ UNCHANGED <<db, server, primary, Environment, writes>>

\* docker rm -f of the apply worker, at any of its steps.
ApplyWorkerRemoved ==
  /\ w.target = "primary" /\ w.mode = "apply"
  /\ WorkerGone
  /\ UNCHANGED <<db, server, primary, Environment, writes>>

Up == IF w.target = "primary" THEN primary = "running" ELSE boxes \cap ClonePg # {}

Workers ==
  /\ WorkerStep(Up) \/ ServerCommits \/ ServerAborts
  /\ UNCHANGED <<primary, Environment, writes>>

-----------------------------------------------------------------------------
ControllerStep ==
  \/ Admit \/ Make \/ ColdFingerprint \/ ColdCopy \/ SourceCopy \/ FirstRestore
  \/ SecondRestore \/ VerifyPrimary \/ Rehearse \/ CollectRehearsal
  \/ DeliveryFixture \/ BackupAfter \/ VerifyRestored \/ Drop
  \/ FinishWorkers \/ FinishOwned \/ FinishReceipt

Next ==
  \/ ControllerStep \/ Workers
  \/ PrimaryToggled \/ PrimaryWritten \/ ApplyWorkerRemoved
  \/ \E c \in CloneRuns : \/ Launch(c) \/ CreateLease(c) \/ ChildKilled(c)
                          \/ Judge(c) \/ ApplyPrimary(c)

Spec == Init /\ [][Next]_vars

-----------------------------------------------------------------------------
(* Properties.                                                             *)

\* A PASS receipt (finish: PASS_CURRENT_CONTROLLED_CLONE) is about one
\* history: the dump, both restores and the rehearsed result all have the
\* history that was in the primary's volume at the cold fingerprint, and
\* nothing labelled with the owner is left.
PassIsOneHistory ==
  [][\A c \in CloneRuns : accepted'[c] # accepted[c] =>
       /\ boxes = {} /\ lease' = NoRun
       /\ {cl.cold.hist, cl.dump, cl.after, cl.current.hist} = {accepted'[c]}
       /\ cl.current = Runtime(accepted'[c])]_vars

\* The primary gets the runtime profile only from a plan a clone accepted,
\* and only with exactly the history that was rehearsed, whoever used the
\* primary in between; schema, quarantine and roles change together
\* (_atomic_transition, _prepare_exact).
PrimaryIsRehearsed ==
  /\ \A t \in Targets : db[t].profile = "legacy" =>
       db[t] = Legacy(db[t].hist)
  /\ db["primary"].profile = "runtime" =>
       \E c \in CloneRuns : /\ verdict[c] = "PASS"
                            /\ db["primary"] = Runtime(accepted[c])

\* No container of a run is ever forgotten: the live lease holder has recorded
\* each one before it existed, and a run that died with containers, or with a
\* transaction open on its clone, blocks its revision (create, lease).
EveryBoxIsKnown ==
  /\ Alive => boxes \subseteq cl.owned \cup cl.workers
  /\ (boxes # {} \/ (server.state # "none" /\ server.target = "clone")) => lease # NoRun
=============================================================================

-------------------------- MODULE ControlledPrimary --------------------------
(***************************************************************************)
(* The guarded transition of the original PostgreSQL container             *)
(* (controlled_runtime_primary.py).  A supervisor starts one child, the    *)
(* primary controller, in a Windows job.  The child owns the create-only   *)
(* directory primary-run-<owner>, writes a start marker, starts the        *)
(* stopped primary, provisions a temporary login, lets a worker container  *)
(* apply the schema transition, drops the login, takes a backup, verifies  *)
(* it on a clone and stops the primary again.  Whatever happens to the     *)
(* child, its supervisor stops the primary when the marker exists.         *)
(*                                                                         *)
(* The owner is that of one accepted clone, so every supervisor here       *)
(* competes for the same directory.  Docker commands fail, with or without *)
(* their effect; a child is killed at any point; worker containers go on   *)
(* by themselves.                                                          *)
(***************************************************************************)
EXTENDS Naturals, FiniteSets

CONSTANTS Sup,        \* supervisors started for the same accepted clone
          NoSup,      \* the directory does not exist
          MaxFaults   \* Docker commands that fail

ASSUME PrimaryAssumption == NoSup \notin Sup /\ MaxFaults \in Nat

\* remote_artifact_specs: the files the run creates inside the primary.
Purposes == {"provision-sql", "cleanup-sql", "backup-after"}

\* The private files of the run directory that hold a credential.
Secrets == {"provision.sql", "cleanup-role.sql", "native-auth.json"}
LocalName == [p \in Purposes |-> IF p = "provision-sql" THEN "provision.sql"
                                 ELSE IF p = "cleanup-sql" THEN "cleanup-role.sql"
                                 ELSE "primary-after.dump"]

Workers == {"apply", "verify", "history"}
Boxes == Workers \cup {"clone"}
WorkerPc ==
  [apply   |-> [create |-> "a.create", wait |-> "a.wait", collect |-> "a.collect"],
   verify  |-> [create |-> "v.create", wait |-> "v.wait", collect |-> "v.collect"],
   history |-> [create |-> "h.create", wait |-> "h.wait", collect |-> "h.collect"]]

VARIABLES sup,      \* where each supervisor is
          verdict,  \* what its receipt says, "none" before
          note,     \* [err, stopped]: error_category set, original_primary_stopped
          proc,     \* its child process
          run,      \* the supervisor whose child made the run directory
          pc,       \* the next step of that child's controller
          mem,      \* the controller's attributes
          disk,     \* files of the run directory, and the lease
          world,    \* the primary, its database, the owned containers
          faults
vars == <<sup, verdict, note, proc, run, pc, mem, disk, world, faults>>

\* PrimaryController.__init__: nothing started, nothing owned.
Attributes == [ok |-> TRUE, clean |-> TRUE, started |-> FALSE,
               provisionAttempted |-> FALSE, applyInvoked |-> FALSE,
               workersClean |-> TRUE, uncertain |-> FALSE,
               workers |-> {}, owned |-> {}, intents |-> {}, acknowledged |-> {}]

Init ==
  /\ sup = [s \in Sup |-> "idle"]
  /\ verdict = [s \in Sup |-> "none"]
  /\ note = [s \in Sup |-> [err |-> FALSE, stopped |-> FALSE]]
  /\ proc = [s \in Sup |-> "none"]
  /\ run = NoSup
  /\ pc = "none"
  /\ mem = Attributes
  /\ disk = [lease |-> FALSE, marker |-> FALSE, secrets |-> {}, intent |-> {},
             removed |-> {}, applied |-> FALSE, receipt |-> <<>>]
  /\ world = [status |-> "exited", role |-> FALSE, schema |-> "old",
              tmp |-> [p \in Purposes |-> "absent"],
              box |-> [b \in Boxes |-> "none"]]
  /\ faults = 0

-----------------------------------------------------------------------------
(* The controller's commands.                                              *)

Running == world.status = "running"
Alive == run # NoSup /\ proc[run] = "run"
At(p) == Alive /\ pc = p
FaultLeft == faults < MaxFaults

\* An exception leaves run() for finish(False).
Fail == mem' = [mem EXCEPT !.ok = FALSE] /\ pc' = "f.workers"

Outside == <<sup, verdict, note, proc, run>>

\* A Docker command at step p that needs `ready' and brings the world to
\* `after': it works, or it is refused, or it fails in one of the worlds
\* `torn'.
Command(p, ready, after, torn, attributes, next) ==
  /\ At(p)
  /\ \/ /\ ready
        /\ world' = after
        /\ mem' = attributes
        /\ pc' = next
        /\ UNCHANGED faults
     \/ ~ready /\ Fail /\ UNCHANGED <<world, faults>>
     \/ /\ FaultLeft
        /\ faults' = faults + 1
        /\ world' \in torn \cup {world}
        /\ Fail
  /\ UNCHANGED Outside

Started(w) == [w EXCEPT !.status = "running"]
Stopped(w) == [w EXCEPT !.status = "exited",
                        !.box = [b \in Boxes |->
                           IF b \in {"apply", "verify"} /\ @[b] = "running"
                           THEN "bad" ELSE @[b]]]
Holds(w, p, v) == [w EXCEPT !.tmp[p] = v]
Box(w, b, v) == [w EXCEPT !.box[b] = v]

-----------------------------------------------------------------------------
(* run(): acceptance, admission and the private files.                     *)

\* _supervisor: a child that may not even own the directory.
Validate(s) ==
  /\ proc[s] = "validate"
  /\ \E verified \in BOOLEAN :
       proc' = [proc EXCEPT ![s] = IF verified THEN "create" ELSE "exit1"]
  /\ UNCHANGED <<sup, verdict, note, run, pc, mem, disk, world, faults>>

\* self.work.mkdir() without exist_ok.
MkdirCreates == run = NoSup

\* A lease left by an earlier run of this owner refuses the new one.
CreateRun(s) ==
  /\ proc[s] = "create"
  /\ IF MkdirCreates
     THEN /\ run' = s
          /\ proc' = [proc EXCEPT ![s] = "run"]
          /\ pc' = "admit"
          /\ mem' = Attributes
          /\ disk' = [disk EXCEPT !.lease = TRUE]
     ELSE /\ proc' = [proc EXCEPT ![s] = "exit1"]
          /\ UNCHANGED <<run, pc, mem, disk>>
  /\ UNCHANGED <<sup, verdict, note, world, faults>>

\* admit(), the script snapshot, source() and the cold fingerprint: the
\* primary is stopped and is the one the clone accepted.
Admit ==
  /\ At("admit")
  /\ \/ world.status = "exited" /\ pc' = "files" /\ UNCHANGED mem
     \/ Fail
  /\ UNCHANGED <<Outside, disk, world, faults>>

WriteFiles ==
  /\ At("files")
  /\ disk' = [disk EXCEPT !.secrets = Secrets]
  /\ pc' = "marker"
  /\ UNCHANGED <<Outside, mem, world, faults>>

\* The marker is durable before docker start.
Marked(d) == [d EXCEPT !.marker = TRUE]

WriteMarker ==
  /\ At("marker")
  /\ \/ /\ world.status = "exited"
        /\ disk' = Marked(disk)
        /\ mem' = [mem EXCEPT !.started = TRUE]
        /\ pc' = "start"
     \/ world.status # "exited" /\ Fail /\ UNCHANGED disk
  /\ UNCHANGED <<Outside, world, faults>>

StartPrimary ==
  /\ Command("start", TRUE, Started(world), {Started(world)}, mem, "target")
  /\ UNCHANGED disk

AssertTarget ==
  /\ Command("target", Running, world, {},
             [mem EXCEPT !.provisionAttempted = TRUE], "ready")
  /\ UNCHANGED disk

\* _wait_postgres_ready: three answers in a row, or its deadline.
AwaitReady ==
  /\ Command("ready", Running, world, {}, mem, "p.reserve")
  /\ UNCHANGED disk

-----------------------------------------------------------------------------
(* _run_sql_file: reserve, copy, psql, remove.                             *)

\* The durable create-only record, and a run that forgets to write it.
ReservedInMemory(d, p) == d
Reserved(d, p) == [d EXCEPT !.intent = @ \cup {p}]

\* _reserve_remote_file: refused for a path already reserved, for bytes
\* already there, and when the record exists.
Reserve(step, p, next) ==
  /\ At(step)
  /\ \/ /\ Running
        /\ p \notin mem.intents /\ p \notin disk.intent
        /\ world.tmp[p] = "absent"
        /\ disk' = Reserved(disk, p)
        /\ mem' = [mem EXCEPT !.intents = @ \cup {p}]
        /\ pc' = next
        /\ UNCHANGED faults
     \/ /\ ~Running \/ p \in mem.intents \/ p \in disk.intent
                    \/ world.tmp[p] # "absent"
        /\ Fail /\ UNCHANGED <<disk, faults>>
     \/ FaultLeft /\ faults' = faults + 1 /\ Fail /\ UNCHANGED disk
  /\ UNCHANGED <<Outside, world>>

\* docker cp may leave only a prefix; the hash check lets only the whole
\* file go on.
Copy(step, p, next) ==
  /\ Command(step, Running, Holds(world, p, "whole"),
             {Holds(world, p, "partial"), Holds(world, p, "whole")}, mem, next)
  /\ UNCHANGED disk

\* psql commits and is acknowledged, or commits unacknowledged.
Psql(step, after, label, next) ==
  /\ Command(step, Running, after, {after},
             [mem EXCEPT !.acknowledged = @ \cup {label}], next)
  /\ UNCHANGED disk

\* What the owner may remove: the bytes it wrote, or a prefix of a private
\* file it still has.
Removable(p) ==
  /\ p \in mem.intents /\ p \in disk.intent
  /\ world.tmp[p] = "partial" => p = "backup-after" \/ LocalName[p] \in disk.secrets

\* _remove_owned_container_file, when it works.
Removed(p) ==
  /\ world' = Holds(world, p, "absent")
  /\ disk' = [disk EXCEPT !.removed = @ \cup {p}]
  /\ mem' = [mem EXCEPT !.intents = @ \ {p}]

Remove(step, p, next) ==
  /\ At(step)
  /\ \/ Running /\ Removable(p) /\ Removed(p) /\ pc' = next /\ UNCHANGED faults
     \/ ~(Running /\ Removable(p)) /\ Fail /\ UNCHANGED <<disk, world, faults>>
     \/ /\ FaultLeft
        /\ faults' = faults + 1
        /\ world' \in {world, Holds(world, p, "absent")}
        /\ Fail
        /\ UNCHANGED disk
  /\ UNCHANGED Outside

Unlink(step, files, next) ==
  /\ At(step)
  /\ disk' = [disk EXCEPT !.secrets = @ \ files]
  /\ pc' = next
  /\ UNCHANGED <<Outside, mem, world, faults>>

RoleProvisioned(w) == [w EXCEPT !.role = TRUE]
RoleDropped(w) == [w EXCEPT !.role = FALSE]

Provision ==
  \/ Reserve("p.reserve", "provision-sql", "p.copy")
  \/ Copy("p.copy", "provision-sql", "p.psql")
  \/ Psql("p.psql", RoleProvisioned(world), "provision", "p.remove")
  \/ Remove("p.remove", "provision-sql", "p.unlink")
  \/ Unlink("p.unlink", {"provision.sql"}, "a.create")

DropRole ==
  \/ Reserve("d.reserve", "cleanup-sql", "d.copy")
  \/ Copy("d.copy", "cleanup-sql", "d.psql")
  \/ Psql("d.psql", RoleDropped(world), "drop", "d.remove")
  \/ Remove("d.remove", "cleanup-sql", "d.unlink")
  \/ Unlink("d.unlink", {"cleanup-role.sql", "native-auth.json"}, "b.reserve")

-----------------------------------------------------------------------------
(* Controller.worker: the container is recorded, created, waited for, its  *)
(* artifacts are copied and it is removed.                                 *)

\* self.workers[name] before docker create.
Recorded(m, b) == [m EXCEPT !.workers = @ \cup {b}]

CreateWorker(b) ==
  /\ LET called == [mem EXCEPT !.applyInvoked = @ \/ b = "apply"]
         m == Recorded(called, b)
         made == Box(world, b, "running")
         need == IF b = "history" THEN world.box["clone"] # "none" ELSE Running
     IN /\ At(WorkerPc[b].create)
        /\ \/ need /\ world' = made /\ mem' = m /\ pc' = WorkerPc[b].wait /\ UNCHANGED faults
           \/ /\ ~need
              /\ mem' = [called EXCEPT !.ok = FALSE]
              /\ pc' = "f.workers"
              /\ UNCHANGED <<world, faults>>
           \/ /\ FaultLeft
              /\ faults' = faults + 1
              /\ world' \in {world, made}
              /\ mem' = [m EXCEPT !.ok = FALSE]
              /\ pc' = "f.workers"
  /\ UNCHANGED <<Outside, disk>>

\* docker wait: the exit code, or a wait that fails while the worker runs on.
AwaitWorker(b) ==
  /\ At(WorkerPc[b].wait)
  /\ \/ world.box[b] = "ok" /\ pc' = WorkerPc[b].collect /\ UNCHANGED <<mem, faults>>
     \/ world.box[b] \in {"bad", "none"} /\ Fail /\ UNCHANGED faults
     \/ FaultLeft /\ faults' = faults + 1 /\ Fail
  /\ UNCHANGED <<Outside, disk, world>>

\* The artifacts are copied before the container is removed.
CollectWorker(b, next) ==
  /\ At(WorkerPc[b].collect)
  /\ \/ /\ world.box[b] = "ok"
        /\ world' = Box(world, b, "none")
        /\ mem' = [mem EXCEPT !.workers = @ \ {b}]
        /\ disk' = [disk EXCEPT !.applied = @ \/ b = "apply"]
        /\ pc' = next
        /\ UNCHANGED faults
     \/ world.box[b] # "ok" /\ Fail /\ UNCHANGED <<disk, world, faults>>
     \/ /\ FaultLeft
        /\ faults' = faults + 1
        /\ world' \in {world, Box(world, b, "none")}
        /\ disk' \in {disk, [disk EXCEPT !.applied = @ \/ b = "apply"]}
        /\ Fail
  /\ UNCHANGED Outside

RunWorker ==
  \/ \E b \in Workers : CreateWorker(b) \/ AwaitWorker(b)
  \/ CollectWorker("apply", "v.create")
  \/ CollectWorker("verify", "d.reserve")
  \/ CollectWorker("history", "amcheck")

\* The worker in its container: apply commits once, then reports; verify
\* logs in with the temporary role.  Either may also fail.
WorkerCommits ==
  /\ world.box["apply"] = "running" /\ Running /\ world.role
  /\ world.schema = "old"
  /\ world' = [world EXCEPT !.schema = "committed"]
  /\ UNCHANGED <<Outside, pc, mem, disk, faults>>

WorkerEnds(b) ==
  /\ world.box[b] = "running"
  /\ \/ /\ b # "history" => Running /\ world.role
        /\ b # "history" => world.schema = "committed"
        /\ world' = Box(world, b, "ok")
     \/ world' = Box(world, b, "bad")
  /\ UNCHANGED <<Outside, pc, mem, disk, faults>>

-----------------------------------------------------------------------------
(* The backup and its proof on a clone.                                    *)

Dump == Reserve("b.reserve", "backup-after", "b.dump")
        \/ Copy("b.dump", "backup-after", "restore")

\* owned[name] before docker create.
Restore ==
  /\ LET m == [mem EXCEPT !.owned = {"clone"}]
         made == Box(world, "clone", "running")
     IN /\ At("restore")
        /\ \/ world' = made /\ mem' = m /\ pc' = "h.create" /\ UNCHANGED faults
           \/ /\ FaultLeft
              /\ faults' = faults + 1
              /\ world' \in {world, made}
              /\ mem' = [m EXCEPT !.ok = FALSE]
              /\ pc' = "f.workers"
  /\ UNCHANGED <<Outside, disk>>

\* pg_amcheck, then remove(clone): the end of run().
CheckClone ==
  /\ Command("amcheck", world.box["clone"] # "none", Box(world, "clone", "none"),
             {Box(world, "clone", "none")}, [mem EXCEPT !.owned = {}], "f.workers")
  /\ UNCHANGED disk

-----------------------------------------------------------------------------
(* finish().                                                               *)

\* Each recorded worker is inspected and removed; one that cannot be is
\* unverified.
FinishWorkers ==
  /\ At("f.workers")
  /\ \/ /\ \A b \in mem.workers : world.box[b] # "none"
        /\ world' = [world EXCEPT !.box = [b \in Boxes |->
                       IF b \in mem.workers THEN "none" ELSE @[b]]]
        /\ mem' = [mem EXCEPT !.workers = {}]
        /\ UNCHANGED faults
     \/ /\ mem.workers # {}
        /\ \/ (\E b \in mem.workers : world.box[b] = "none") /\ UNCHANGED faults
           \/ FaultLeft /\ faults' = faults + 1
        /\ mem' = [mem EXCEPT !.clean = FALSE, !.workersClean = FALSE]
        /\ UNCHANGED world
  /\ pc' = "f.owned"
  /\ UNCHANGED <<Outside, disk>>

\* remove(): an absent clone is forgotten.
FinishOwned ==
  /\ At("f.owned")
  /\ \/ /\ world' = [world EXCEPT !.box["clone"] =
                       IF "clone" \in mem.owned THEN "none" ELSE @]
        /\ mem' = [mem EXCEPT !.owned = {}]
        /\ UNCHANGED faults
     \/ /\ mem.owned # {} /\ FaultLeft
        /\ faults' = faults + 1
        /\ mem' = [mem EXCEPT !.clean = FALSE]
        /\ UNCHANGED world
  /\ pc' = "f.primary"
  /\ UNCHANGED <<Outside, disk>>

\* The temporary login is dropped only when no worker can still use it.
MayDropUnverified == mem.provisionAttempted
           /\ "drop" \notin mem.acknowledged /\ "cleanup-role.sql" \in disk.secrets
MayDrop == mem.provisionAttempted /\ mem.workersClean
           /\ "drop" \notin mem.acknowledged /\ "cleanup-role.sql" \in disk.secrets

\* cleanup_primary: a primary that stopped by itself ends the cleanup.
CleanupPrimary ==
  /\ At("f.primary")
  /\ \/ ~mem.started /\ pc' = "f.evidence" /\ UNCHANGED mem
     \/ /\ mem.started /\ ~Running
        /\ mem' = [mem EXCEPT !.started = FALSE, !.uncertain = TRUE, !.ok = FALSE]
        /\ pc' = "f.evidence"
     \/ /\ mem.started /\ Running
        /\ pc' = IF MayDrop THEN "f.reserve" ELSE "f.files"
        /\ UNCHANGED mem
  /\ UNCHANGED <<Outside, disk, world, faults>>

\* A step of the cleanup that fails is remembered; the next one still runs.
Doubt == mem' = [mem EXCEPT !.uncertain = TRUE, !.ok = FALSE]

\* The second chance to drop the login, as one SQL file again.
FinishDrop ==
  \/ /\ At("f.reserve")
     /\ \/ /\ Running /\ "cleanup-sql" \notin mem.intents \cup disk.intent
           /\ disk' = Reserved(disk, "cleanup-sql")
           /\ mem' = [mem EXCEPT !.intents = @ \cup {"cleanup-sql"}]
           /\ pc' = "f.copy"
        \/ /\ ~Running \/ "cleanup-sql" \in mem.intents \cup disk.intent
           /\ Doubt /\ pc' = "f.files" /\ UNCHANGED disk
     /\ UNCHANGED <<Outside, world, faults>>
  \/ /\ At("f.copy")
     /\ \/ /\ Running
           /\ world' = RoleDropped(Holds(world, "cleanup-sql", "whole"))
           /\ mem' = [mem EXCEPT !.acknowledged = @ \cup {"drop"}]
           /\ disk' = [disk EXCEPT !.secrets = @ \ {"cleanup-role.sql"}]
           /\ UNCHANGED faults
        \/ /\ Running /\ FaultLeft
           /\ faults' = faults + 1
           /\ world' \in {world, Holds(world, "cleanup-sql", "partial"),
                          RoleDropped(Holds(world, "cleanup-sql", "whole"))}
           /\ Doubt /\ UNCHANGED disk
        \/ ~Running /\ Doubt /\ UNCHANGED <<disk, world, faults>>
     /\ pc' = "f.files"
     /\ UNCHANGED Outside

\* Every reserved path still open is tried: some removals fail, with the
\* file gone or not, the others are recorded.
FinishFiles ==
  /\ At("f.files")
  /\ \E failed \in SUBSET mem.intents, gone \in SUBSET mem.intents :
       LET refused == {p \in mem.intents : ~Running \/ ~Removable(p)}
           done == mem.intents \ failed
       IN /\ refused \subseteq failed /\ gone \subseteq failed \ refused
          /\ faults' = faults + Cardinality(failed \ refused)
          /\ faults' <= MaxFaults
          /\ world' = [world EXCEPT !.tmp = [p \in Purposes |->
                         IF p \in done \cup gone THEN "absent" ELSE @[p]]]
          /\ disk' = [disk EXCEPT !.removed = @ \cup done]
          /\ mem' = [mem EXCEPT !.intents = failed,
                                !.uncertain = @ \/ failed # {},
                                !.ok = @ /\ failed = {}]
  /\ pc' = "f.stop"
  /\ UNCHANGED Outside

FinishStop ==
  /\ At("f.stop")
  /\ \/ /\ world' = Stopped(world)
        /\ disk' = [disk EXCEPT !.secrets = {}]
        /\ mem' = [mem EXCEPT !.started = FALSE]
        /\ UNCHANGED faults
     \/ /\ FaultLeft
        /\ faults' = faults + 1
        /\ world' \in {world, Stopped(world)}
        /\ Doubt
        /\ UNCHANGED disk
  /\ pc' = "f.evidence"
  /\ UNCHANGED Outside

\* remote_artifact_cleanup_evidence: every intent has its removal.
Verified == disk.intent \subseteq disk.removed

FinishEvidence ==
  /\ At("f.evidence")
  /\ mem' = IF Verified /\ mem.intents = {} THEN mem
            ELSE [mem EXCEPT !.uncertain = TRUE, !.ok = FALSE, !.clean = FALSE]
  /\ pc' = "f.receipt"
  /\ UNCHANGED <<Outside, disk, world, faults>>

RoleState == IF "drop" \in mem.acknowledged THEN "CREATED_AND_DROPPED"
             ELSE IF "provision" \in mem.acknowledged THEN "CREATED"
             ELSE IF mem.provisionAttempted THEN "UNKNOWN" ELSE "NOT_ATTEMPTED"
SchemaStateGuessed == IF disk.applied THEN "COMMITTED" ELSE "NOT_ATTEMPTED"
SchemaState == IF disk.applied THEN "COMMITTED"
               ELSE IF mem.applyInvoked THEN "UNKNOWN" ELSE "NOT_ATTEMPTED"

\* The inventory by label is empty, and nothing before it was in doubt.
CleanNow == mem.clean /\ ~mem.started /\ ~mem.uncertain
            /\ \A b \in Boxes : world.box[b] = "none"

\* Only a PASS unlinks the lease.
LeaseKept(pass) == TRUE
LeaseAfter(pass) == ~pass

FinishReceipt ==
  /\ At("f.receipt")
  /\ \E inventoried \in {TRUE} \cup (IF FaultLeft THEN {FALSE} ELSE {}) :
       LET pass == mem.ok /\ CleanNow /\ inventoried
       IN /\ disk' = [disk EXCEPT !.receipt = <<[pass |-> pass, role |-> RoleState,
                                                 schema |-> SchemaState]>>,
                                  !.lease = LeaseAfter(pass)]
          /\ proc' = [proc EXCEPT ![run] = IF pass THEN "exit0" ELSE "exit1"]
          /\ faults' = IF inventoried THEN faults ELSE faults + 1
  /\ pc' = "ended"
  /\ UNCHANGED <<sup, verdict, note, run, mem, world>>

-----------------------------------------------------------------------------
(* supervise_primary.                                                      *)

Launch(s) ==
  /\ sup[s] = "idle"
  /\ sup' = [sup EXCEPT ![s] = "watch"]
  /\ proc' = [proc EXCEPT ![s] = "validate"]
  /\ UNCHANGED <<verdict, note, run, pc, mem, disk, world, faults>>

Live == {"validate", "create", "run"}

\* The deadline or the output bound: the whole job is ended.
NeverBounded(s) == FALSE
BoundExceeded(s) ==
  /\ sup[s] = "watch" /\ proc[s] \in Live
  /\ proc' = [proc EXCEPT ![s] = "killed"]
  /\ note' = [note EXCEPT ![s].err = TRUE]
  /\ sup' = [sup EXCEPT ![s] = "stop"]
  /\ UNCHANGED <<verdict, run, pc, mem, disk, world, faults>>

ChildEnded(s) ==
  /\ sup[s] = "watch" /\ proc[s] \notin Live
  /\ sup' = [sup EXCEPT ![s] = "stop"]
  /\ UNCHANGED <<verdict, note, proc, run, pc, mem, disk, world, faults>>

\* _supervisor_stop_if_started: the marker decides.
MustStop == disk.marker

SupervisorStop(s) ==
  /\ sup[s] = "stop"
  /\ \/ /\ ~MustStop
        /\ sup' = [sup EXCEPT ![s] = "evidence"]
        /\ note' = [note EXCEPT ![s].stopped = TRUE]
        /\ UNCHANGED <<world, faults>>
     \/ /\ MustStop
        /\ world' = Stopped(world)
        /\ sup' = [sup EXCEPT ![s] = "remove"]
        /\ UNCHANGED <<note, faults>>
     \/ /\ MustStop /\ FaultLeft
        /\ faults' = faults + 1
        /\ world' \in {world, Stopped(world)}
        /\ note' = [note EXCEPT ![s].err = TRUE]
        /\ sup' = [sup EXCEPT ![s] = "evidence"]
  /\ UNCHANGED <<verdict, proc, run, pc, mem, disk>>

\* Containers with the owner's label are removed and none may remain.
SupervisorRemove(s) ==
  /\ sup[s] = "remove"
  /\ \/ /\ world' = [world EXCEPT !.box = [b \in Boxes |-> "none"]]
        /\ note' = [note EXCEPT ![s].stopped = TRUE]
        /\ UNCHANGED faults
     \/ /\ FaultLeft
        /\ faults' = faults + 1
        /\ note' = [note EXCEPT ![s].err = TRUE]
        /\ UNCHANGED world
  /\ sup' = [sup EXCEPT ![s] = "evidence"]
  /\ UNCHANGED <<verdict, proc, run, pc, mem, disk>>

SupervisorEvidence(s) ==
  /\ sup[s] = "evidence"
  /\ note' = [note EXCEPT ![s].err = @ \/ (run # NoSup /\ ~Verified)]
  /\ sup' = [sup EXCEPT ![s] = "judge"]
  /\ UNCHANGED <<verdict, proc, run, pc, mem, disk, world, faults>>

\* The child's receipt is accepted as a whole or not at all.
ReceiptAccepted ==
  /\ disk.receipt # <<>>
  /\ disk.receipt[1] = [pass |-> TRUE, role |-> "CREATED_AND_DROPPED",
                        schema |-> "COMMITTED"]
  /\ disk.intent = Purposes /\ disk.removed = Purposes

Judge(s) ==
  /\ sup[s] = "judge"
  /\ verdict' = [verdict EXCEPT ![s] =
       IF ~note[s].err /\ note[s].stopped /\ proc[s] = "exit0" /\ ReceiptAccepted
       THEN "PASS" ELSE "FAILED_CLOSED"]
  /\ sup' = [sup EXCEPT ![s] = "done"]
  /\ UNCHANGED <<note, proc, run, pc, mem, disk, world, faults>>

\* The child dies outside its supervisor's will.
ChildKilled(s) ==
  /\ proc[s] \in Live
  /\ proc' = [proc EXCEPT ![s] = "killed"]
  /\ UNCHANGED <<sup, verdict, note, run, pc, mem, disk, world, faults>>

-----------------------------------------------------------------------------
ControllerStep ==
  \/ Admit \/ WriteFiles \/ WriteMarker \/ StartPrimary \/ AssertTarget \/ AwaitReady
  \/ Provision \/ RunWorker \/ DropRole \/ Dump \/ Restore \/ CheckClone
  \/ FinishWorkers \/ FinishOwned \/ CleanupPrimary \/ FinishDrop
  \/ FinishFiles \/ FinishStop \/ FinishEvidence \/ FinishReceipt

SupervisorStep(s) ==
  \/ BoundExceeded(s) \/ ChildEnded(s) \/ SupervisorStop(s)
  \/ SupervisorRemove(s) \/ SupervisorEvidence(s) \/ Judge(s)

Next ==
  \/ ControllerStep
  \/ WorkerCommits
  \/ \E b \in Workers : WorkerEnds(b)
  \/ \E s \in Sup : \/ Launch(s) \/ Validate(s) \/ CreateRun(s)
                    \/ ChildKilled(s) \/ SupervisorStep(s)

Spec == Init /\ [][Next]_vars

\* A launched supervisor is a running process; its poll loop, its Docker
\* calls and the wait of its child are all bounded.
FairSpec == Spec /\ \A s \in Sup : WF_vars(SupervisorStep(s))

-----------------------------------------------------------------------------
(* Properties.                                                             *)

\* A supervisor's PASS (supervise_primary: result) means the transition is
\* complete and nothing of it is left: the schema is committed, the primary
\* is stopped, the temporary login, its files in the container and in the
\* run directory and every owned container are gone, also when a second
\* supervisor interfered.
PassIsComplete ==
  (\E s \in Sup : verdict[s] = "PASS") =>
    /\ world.schema = "committed" /\ world.status = "exited" /\ ~world.role
    /\ \A p \in Purposes : world.tmp[p] = "absent"
    /\ \A b \in Boxes : world.box[b] = "none"
    /\ disk.secrets = {} /\ ~disk.lease

\* What is reported about the primary is never better than the truth,
\* wherever the child died: a supervisor that says original_primary_stopped
\* about its own run is right (_supervisor_stop_if_started); in the receipt a
\* login reported dropped is gone, a commit reported happened, and
\* NOT_ATTEMPTED means untouched (finish: mutation_state).
ReportsAreTrue ==
  /\ \A s \in Sup : sup[s] = "done" /\ run = s /\ note[s].stopped
                      => world.status = "exited"
  /\ disk.receipt # <<>> =>
       LET r == disk.receipt[1]
       IN /\ r.role \in {"CREATED_AND_DROPPED", "NOT_ATTEMPTED"} => ~world.role
          /\ r.schema = "COMMITTED" => world.schema = "committed"
          /\ r.schema = "NOT_ATTEMPTED" => world.schema = "old"
          /\ r.pass => world.status = "exited" /\ ~world.role

\* No byte of a temporary file exists in the primary before its durable
\* create record, and none after its removal record (_reserve_remote_file);
\* no removal is recorded without its creation.
NoForgottenFile ==
  /\ disk.removed \subseteq disk.intent
  /\ \A p \in Purposes : /\ world.tmp[p] # "absent" => p \in disk.intent
                         /\ p \in disk.removed => world.tmp[p] = "absent"

\* The stopped primary is started only as the accepted clone left it, never
\* a second time and never after an attempt that touched it (run directory);
\* and the temporary login is never dropped under a worker that may be
\* logged in with it (worker_cleanup_verified).
TouchedWithCare ==
  [][/\ world.status = "exited" /\ world'.status = "running" =>
          world.schema = "old" /\ ~world.role /\ disk.intent = {}
     /\ world.role /\ ~world'.role =>
          world.box["apply"] # "running" /\ world.box["verify"] # "running"]_vars

\* Once started, the primary is stopped again although its controller may
\* hang or die at any point, or a supervisor says that it could not stop it;
\* and every supervised run ends with a verdict (supervise_primary).
EndsStoppedOrReported ==
  /\ Running ~> \/ ~Running
                \/ \E s \in Sup : verdict[s] = "FAILED_CLOSED" /\ ~note[s].stopped
  /\ \A s \in Sup : sup[s] = "watch" ~> verdict[s] # "none"
=============================================================================

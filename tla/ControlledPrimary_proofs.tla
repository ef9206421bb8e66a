---------------------- MODULE ControlledPrimary_proofs ----------------------
(***************************************************************************)
(* The guarded transition of the primary, for every number of supervisors  *)
(* that compete for one run directory and every number of failed Docker    *)
(* commands.                                                               *)
(*                                                                         *)
(* None of the properties is inductive.  What a receipt may say depends on *)
(* how far the controller got and on which of its steps failed, so Careful *)
(* ties the step of the controller (pc) to what it has done by then: the   *)
(* untouched primary before the start, the files it reserved, the workers  *)
(* it recorded, the login it was told is gone.  The receipt is the last    *)
(* step of a child that is then dead, so what it was written from stays.   *)
(* Supervisors only stop the primary and remove containers, and one that   *)
(* reports a stop has outlived its child.                                  *)
(***************************************************************************)
EXTENDS ControlledPrimary, TLAPS

-----------------------------------------------------------------------------
(* The invariant.                                                          *)

SupSteps == {"idle", "watch", "stop", "remove", "evidence", "judge", "done"}
ProcSteps == Live \cup {"none", "exit0", "exit1", "killed"}

\* The steps of a controller, in its order.
Early == {"none", "admit", "files", "marker", "start"}
Provisioning == {"ready", "p.reserve", "p.copy", "p.psql"}
Provisioned == {"p.remove", "p.unlink"}
Applying == {"a.create", "a.wait", "a.collect"}
Verifying == {"v.create", "v.wait", "v.collect"}
Dropping == {"d.reserve", "d.copy", "d.psql"}
Dropped == {"d.remove", "d.unlink", "b.reserve", "b.dump", "restore",
            "h.create", "h.wait", "h.collect", "amcheck"}
Undropped == Early \cup {"target"} \cup Provisioning \cup Provisioned
               \cup Applying \cup Verifying \cup Dropping
Busy == {"start", "target"} \cup Provisioning \cup Provisioned \cup Applying
          \cup Verifying \cup Dropping \cup Dropped
Winding == {"f.workers", "f.owned", "f.primary", "f.reserve", "f.copy",
            "f.files", "f.stop"}
Closing == {"f.evidence", "f.receipt", "ended"}
AllSteps == Undropped \cup Dropped \cup Winding \cup Closing

Labels == {"provision", "drop"}
BoxStates == {"none", "running", "ok", "bad"}
Receipts == [pass : BOOLEAN,
             role : {"CREATED_AND_DROPPED", "CREATED", "UNKNOWN", "NOT_ATTEMPTED"},
             schema : {"COMMITTED", "UNKNOWN", "NOT_ATTEMPTED"}]

SupType ==
  /\ sup \in [Sup -> SupSteps]
  /\ verdict \in [Sup -> {"none", "PASS", "FAILED_CLOSED"}]
  /\ note \in [Sup -> [err : BOOLEAN, stopped : BOOLEAN]]
  /\ proc \in [Sup -> ProcSteps]
  /\ run \in Sup \cup {NoSup}

MemType ==
  mem \in [ok : BOOLEAN, clean : BOOLEAN, started : BOOLEAN,
           provisionAttempted : BOOLEAN, applyInvoked : BOOLEAN,
           workersClean : BOOLEAN, uncertain : BOOLEAN,
           workers : SUBSET Workers, owned : SUBSET {"clone"},
           intents : SUBSET Purposes, acknowledged : SUBSET Labels]

DiskType ==
  disk \in [lease : BOOLEAN, marker : BOOLEAN, secrets : SUBSET Secrets,
            intent : SUBSET Purposes, removed : SUBSET Purposes,
            applied : BOOLEAN, receipt : {<<>>} \cup {<<r>> : r \in Receipts}]

WorldType ==
  world \in [status : {"running", "exited"}, role : BOOLEAN,
             schema : {"old", "committed"},
             tmp : [Purposes -> {"absent", "partial", "whole"}],
             box : [Boxes -> BoxStates]]

Types == /\ SupType /\ MemType /\ DiskType /\ WorldType
         /\ pc \in AllSteps

\* What holds of the primary and of the attempt's own records wherever the
\* controller is, so also where a failure takes it.
\* A running primary has a marker and an attempt that remembers its start.
StartSound == Running => mem.started /\ disk.marker

\* A login was asked for, and one acknowledged as dropped is gone.
RoleSound == /\ world.role => mem.provisionAttempted
             /\ "drop" \in mem.acknowledged => ~world.role

\* A worker's container is recorded.
BoxSound == \A b \in Workers : world.box[b] # "none" => b \in mem.workers

\* Only a worker that was asked to has committed the schema.
SchemaSound ==
  /\ world.box["apply"] # "none" \/ world.schema = "committed" => mem.applyInvoked
  /\ world.box["apply"] = "ok" \/ disk.applied => world.schema = "committed"

\* A reserved file is still to be removed or is recorded as removed.
FileSound == /\ NoForgottenFile
             /\ disk.intent = mem.intents \cup disk.removed
             /\ mem.intents \cap disk.removed = {}

Sound == StartSound /\ RoleSound /\ BoxSound /\ SchemaSound /\ FileSound

\* What the controller has done by its next step.
Untouched ==
  pc \in Early =>
    /\ disk.intent = {} /\ ~disk.applied /\ disk.receipt = <<>>
    /\ world.status = "exited" /\ world.schema = "old" /\ ~world.role
    /\ \A b \in Boxes : world.box[b] = "none"

StartBy ==
  /\ pc = "start" => disk.marker
  /\ pc \in Busy => mem.started
  /\ pc \in Winding /\ mem.ok => mem.started
  /\ pc \in Closing /\ mem.ok => disk.secrets = {}

RoleBy ==
  /\ pc \in Provisioning => mem.provisionAttempted
  /\ pc \in Undropped => "drop" \notin mem.acknowledged
  /\ pc \in Dropped => "drop" \in mem.acknowledged
  /\ pc \in Winding \cup Closing /\ mem.ok => "drop" \in mem.acknowledged

WorkBy ==
  /\ pc \in Verifying \cup Dropping => "apply" \notin mem.workers
  /\ pc \in Dropping => "verify" \notin mem.workers
  /\ pc \in (Winding \ {"f.workers"}) \cup Closing /\ mem.workersClean
       => mem.workers = {}
  /\ pc \in {"f.reserve", "f.copy"} => mem.workersClean
  /\ pc = "a.collect" => world.schema = "committed"

FileBy ==
  /\ pc = "p.copy" => "provision-sql" \in mem.intents
  /\ pc \in {"d.copy", "f.copy"} => "cleanup-sql" \in mem.intents
  /\ pc = "b.dump" => "backup-after" \in mem.intents

Progress == Untouched /\ StartBy /\ RoleBy /\ WorkBy /\ FileBy

\* A receipt is the last word of a dead child.
ReceiptInv ==
  disk.receipt # <<>> =>
    /\ pc = "ended" /\ run # NoSup /\ proc[run] # "run"
    /\ disk.receipt[1].role = RoleState /\ disk.receipt[1].schema = SchemaState
    /\ disk.receipt[1].pass =>
         /\ mem.ok /\ ~mem.started /\ ~disk.lease
         /\ \A b \in Boxes : world.box[b] = "none"

\* A supervisor that goes on has a dead child, and what it says is so.
SupInv ==
  /\ run = NoSup => pc = "none"
  /\ \A s \in Sup :
       /\ proc[s] \in Live => sup[s] = "watch"
       /\ note[s].stopped => sup[s] \in {"evidence", "judge", "done"}
       /\ run = s /\ (sup[s] = "remove" \/ note[s].stopped)
            => world.status = "exited"
       /\ verdict[s] = "PASS" => ReceiptAccepted

Careful == Types /\ Sound /\ Progress /\ ReceiptInv /\ SupInv

\* The sets of labels and of values are plain sets below.
USE DEF SupSteps, ProcSteps, Live, Early, Provisioning, Provisioned, Applying,
        Verifying, Dropping, Dropped, Undropped, Busy, Winding, Closing,
        AllSteps, Labels, BoxStates, Workers, Boxes, Purposes

LEMMA InitCareful == Init => Careful
BY PrimaryAssumption
   DEF Init, Careful, Types, SupType, MemType, DiskType, WorldType, Sound,
       StartSound, RoleSound, BoxSound, SchemaSound, FileSound, Progress,
       Untouched, StartBy, RoleBy, WorkBy, FileBy, ReceiptInv, SupInv,
       NoForgottenFile, Attributes, Running

-----------------------------------------------------------------------------
(* Frames.                                                                 *)

\* A living child has written no receipt and its supervisor watches it, so a
\* step of the controller that writes none disturbs neither.
LEMMA AliveFrame ==
  ASSUME Careful, Alive, UNCHANGED Outside, disk'.receipt = disk.receipt
  PROVE  ReceiptInv' /\ SupInv' /\ SupType'
<1>1. disk.receipt = <<>> /\ run # NoSup /\ run \in Sup
  BY DEF Careful, ReceiptInv, Alive, Types, SupType
<1>2. \A s \in Sup : verdict[s] # "PASS"
  BY <1>1 DEF Careful, SupInv, ReceiptAccepted
<1>3. sup[run] = "watch" /\ ~ note[run].stopped
  BY <1>1 DEF Careful, SupInv, Alive, Types, SupType
<1>4. ReceiptInv'
  BY <1>1 DEF ReceiptInv
<1>5. SupInv'
  BY <1>1, <1>2, <1>3 DEF Outside, Careful, SupInv
<1>6. SupType'
  BY DEF Outside, Careful, Types, SupType
<1> QED BY <1>4, <1>5, <1>6

\* What the soundness of a world is read from, the world itself aside.
SameRecords ==
  /\ mem'.started = mem.started /\ mem'.provisionAttempted = mem.provisionAttempted
  /\ mem'.acknowledged = mem.acknowledged /\ mem'.applyInvoked = mem.applyInvoked
  /\ mem'.workers = mem.workers /\ mem'.intents = mem.intents
  /\ disk'.marker = disk.marker /\ disk'.applied = disk.applied
  /\ disk'.intent = disk.intent /\ disk'.removed = disk.removed

\* Stopping the primary and removing containers keeps a world sound.
LEMMA SoundFrame ==
  ASSUME Sound, SameRecords,
         world'.status \in {world.status, "exited"}, world'.role = world.role,
         world'.schema = world.schema, world'.tmp = world.tmp,
         \A b \in Workers : \/ world'.box[b] = world.box[b]
                            \/ world'.box[b] = "none"
                            \/ world.box[b] = "running" /\ world'.box[b] = "bad"
  PROVE  Sound'
BY DEF SameRecords, Sound, StartSound, RoleSound, BoxSound, SchemaSound,
       FileSound, NoForgottenFile, Running

\* A failure may leave any sound world behind.
LEMMA FailFrame ==
  ASSUME Careful, Alive, UNCHANGED Outside, disk'.receipt = disk.receipt,
         MemType', DiskType', WorldType', Sound',
         pc' = "f.workers", ~mem'.ok
  PROVE  Careful'
<1>1. Progress'
  BY DEF Progress, Untouched, StartBy, RoleBy, WorkBy, FileBy
<1> QED BY <1>1, AliveFrame DEF Careful, Types

\* The controller's Fail in the world it has.
LEMMA FailHere ==
  ASSUME Careful, Alive, UNCHANGED Outside, Fail, UNCHANGED <<disk, world>>
  PROVE  Careful'
<1>1. MemType' /\ DiskType' /\ WorldType' /\ ~mem'.ok /\ pc' = "f.workers"
  BY DEF Careful, Types, MemType, DiskType, WorldType, Fail
<1>2. Sound'
  BY DEF Careful, Types, MemType, Fail, Sound, StartSound, RoleSound, BoxSound,
         SchemaSound, FileSound, NoForgottenFile, Running
<1> QED BY <1>1, <1>2, FailFrame

\* A step that goes on: the parts that remain to be shown.
LEMMA GoFrame ==
  ASSUME Careful, Alive, UNCHANGED Outside, disk'.receipt = disk.receipt,
         MemType', DiskType', WorldType', pc' \in AllSteps, Sound', Progress'
  PROVE  Careful'
BY AliveFrame DEF Careful, Types

-----------------------------------------------------------------------------
(* run(): acceptance, admission, the private files and the start.          *)

LEMMA AdmitCareful == ASSUME Careful, Admit PROVE Careful'
<1>1. Alive /\ UNCHANGED <<Outside, disk, world>> /\ pc = "admit"
  BY DEF Admit, At, Outside
<1>2. CASE pc' = "files" /\ UNCHANGED mem
  <2>1. MemType' /\ DiskType' /\ WorldType' /\ pc' \in AllSteps
    BY <1>1, <1>2 DEF Careful, Types, MemType, DiskType, WorldType
  <2>2. Sound'
    BY <1>1, <1>2 DEF Careful, Sound, StartSound, RoleSound, BoxSound,
                      SchemaSound, FileSound, NoForgottenFile, Running
  <2>3. Progress'
    BY <1>1, <1>2 DEF Careful, Progress, Untouched, StartBy, RoleBy, WorkBy,
                      FileBy
  <2> QED BY <1>1, <2>1, <2>2, <2>3, GoFrame
<1>3. CASE Fail
  BY <1>1, <1>3, FailHere
<1> QED BY <1>2, <1>3 DEF Admit

LEMMA WriteFilesCareful == ASSUME Careful, WriteFiles PROVE Careful'
<1>1. /\ Alive /\ UNCHANGED <<Outside, mem, world>> /\ pc = "files"
      /\ pc' = "marker" /\ disk' = [disk EXCEPT !.secrets = Secrets]
  BY DEF WriteFiles, At, Outside
<1>2. MemType' /\ DiskType' /\ WorldType' /\ pc' \in AllSteps
      /\ disk'.receipt = disk.receipt
  BY <1>1 DEF Careful, Types, MemType, DiskType, WorldType
<1>3. Sound'
  BY <1>1 DEF Careful, Types, DiskType, Sound, StartSound, RoleSound, BoxSound,
              SchemaSound, FileSound, NoForgottenFile, Running
<1>4. Progress'
  BY <1>1 DEF Careful, Types, DiskType, Progress, Untouched, StartBy, RoleBy,
              WorkBy, FileBy
<1> QED BY <1>1, <1>2, <1>3, <1>4, GoFrame

LEMMA WriteMarkerCareful == ASSUME Careful, WriteMarker PROVE Careful'
<1>1. Alive /\ UNCHANGED <<Outside, world>> /\ pc = "marker"
  BY DEF WriteMarker, At, Outside
<1>2. CASE /\ disk' = Marked(disk) /\ pc' = "start"
           /\ mem' = [mem EXCEPT !.started = TRUE]
  <2>1. MemType' /\ DiskType' /\ WorldType' /\ pc' \in AllSteps
        /\ disk'.receipt = disk.receipt
    BY <1>1, <1>2 DEF Careful, Types, MemType, DiskType, WorldType, Marked
  <2>2. Sound'
    BY <1>1, <1>2 DEF Careful, Types, MemType, DiskType, Marked, Sound,
                      StartSound, RoleSound, BoxSound, SchemaSound, FileSound,
                      NoForgottenFile, Running
  <2>3. Progress'
    BY <1>1, <1>2 DEF Careful, Types, MemType, DiskType, Marked, Progress,
                      Untouched, StartBy, RoleBy, WorkBy, FileBy
  <2> QED BY <1>1, <2>1, <2>2, <2>3, GoFrame
<1>3. CASE Fail /\ UNCHANGED disk
  BY <1>1, <1>3, FailHere
<1> QED BY <1>2, <1>3 DEF WriteMarker

\* What is left to show of a Docker command: the world it brings about, and
\* the worlds it may fail in, are sound.
LEMMA CommandCareful ==
  ASSUME NEW p, NEW ready, NEW after, NEW torn, NEW attributes, NEW next,
         Careful, Command(p, ready, after, torn, attributes, next),
         UNCHANGED disk,
         world' = after /\ mem' = attributes /\ pc' = next => Careful',
         world' \in torn /\ Fail => WorldType' /\ Sound'
  PROVE  Careful'
<1>1. Alive /\ UNCHANGED Outside
  BY DEF Command, At, Outside
<1>2. CASE world' = after /\ mem' = attributes /\ pc' = next
  BY <1>2
<1>3. CASE Fail /\ world' = world
  BY <1>1, <1>3, FailHere
<1>4. CASE Fail /\ world' \in torn
  <2>1. MemType' /\ DiskType' /\ ~mem'.ok /\ pc' = "f.workers"
    BY <1>4 DEF Careful, Types, MemType, DiskType, Fail
  <2> QED BY <1>1, <1>4, <2>1, FailFrame
<1> QED BY <1>2, <1>3, <1>4 DEF Command

LEMMA StartPrimaryCareful == ASSUME Careful, StartPrimary PROVE Careful'
<1>1. /\ Command("start", TRUE, Started(world), {Started(world)}, mem, "target")
      /\ Alive /\ UNCHANGED <<Outside, disk>> /\ pc = "start"
  BY DEF StartPrimary, Command, At, Outside
<1>2. ASSUME world' = Started(world),
             mem' = mem \/ mem' = [mem EXCEPT !.ok = FALSE]
      PROVE  WorldType' /\ Sound'
  <2>1. WorldType'
    BY <1>2 DEF Careful, Types, WorldType, Started
  <2>2. StartSound'
    BY <1>1, <1>2 DEF Careful, Types, MemType, Progress, StartBy, StartSound
  <2>3. RoleSound' /\ BoxSound' /\ SchemaSound' /\ FileSound'
    BY <1>1, <1>2 DEF Careful, Types, MemType, WorldType, Started, Sound,
                RoleSound, BoxSound, SchemaSound, FileSound, NoForgottenFile
  <2> QED BY <2>1, <2>2, <2>3 DEF Sound
<1>3. ASSUME world' = Started(world), mem' = mem, pc' = "target"
      PROVE  Careful'
  <2>1. WorldType' /\ Sound'
    BY <1>2, <1>3
  <2>2. MemType' /\ DiskType' /\ pc' \in AllSteps
    BY <1>1, <1>3 DEF Careful, Types, MemType, DiskType
  <2>3. Progress'
    BY <1>1, <1>3 DEF Careful, Progress, Untouched, StartBy, RoleBy, WorkBy,
                      FileBy
  <2> QED BY <1>1, <2>1, <2>2, <2>3, GoFrame
<1> QED BY <1>1, <1>2, <1>3, CommandCareful DEF Fail

LEMMA AssertTargetCareful == ASSUME Careful, AssertTarget PROVE Careful'
<1> DEFINE m == [mem EXCEPT !.provisionAttempted = TRUE]
<1>1. /\ Command("target", Running, world, {}, m, "ready")
      /\ Alive /\ UNCHANGED <<Outside, disk>> /\ pc = "target"
  BY DEF AssertTarget, Command, At, Outside
<1>2. ASSUME world' = world, mem' = m, pc' = "ready" PROVE Careful'
  <2>1. MemType' /\ DiskType' /\ WorldType' /\ pc' \in AllSteps
    BY <1>1, <1>2 DEF Careful, Types, MemType, DiskType, WorldType
  <2>2. Sound'
    BY <1>1, <1>2 DEF Careful, Types, MemType, Sound, StartSound, RoleSound,
             BoxSound, SchemaSound, FileSound, NoForgottenFile, Running
  <2>3. Progress'
    BY <1>1, <1>2 DEF Careful, Types, MemType, Progress, Untouched, StartBy,
                      RoleBy, WorkBy, FileBy
  <2> QED BY <1>1, <2>1, <2>2, <2>3, GoFrame
<1> QED BY <1>1, <1>2, CommandCareful

LEMMA AwaitReadyCareful == ASSUME Careful, AwaitReady PROVE Careful'
<1>1. /\ Command("ready", Running, world, {}, mem, "p.reserve")
      /\ Alive /\ UNCHANGED <<Outside, disk>> /\ pc = "ready"
  BY DEF AwaitReady, Command, At, Outside
<1>2. ASSUME world' = world, mem' = mem, pc' = "p.reserve" PROVE Careful'
  <2>1. MemType' /\ DiskType' /\ WorldType' /\ pc' \in AllSteps
    BY <1>1, <1>2 DEF Careful, Types, MemType, DiskType, WorldType
  <2>2. Sound'
    BY <1>1, <1>2 DEF Careful, Sound, StartSound, RoleSound, BoxSound,
                      SchemaSound, FileSound, NoForgottenFile, Running
  <2>3. Progress'
    BY <1>1, <1>2 DEF Careful, Progress, Untouched, StartBy, RoleBy, WorkBy,
                      FileBy
  <2> QED BY <1>1, <2>1, <2>2, <2>3, GoFrame
<1> QED BY <1>1, <1>2, CommandCareful

-----------------------------------------------------------------------------
(* _run_sql_file and the backup: reserve, copy, psql, remove, unlink.      *)

Reservations == {<<"p.reserve", "provision-sql", "p.copy">>,
                 <<"d.reserve", "cleanup-sql", "d.copy">>,
                 <<"b.reserve", "backup-after", "b.dump">>}
Copies == {<<"p.copy", "provision-sql", "p.psql">>,
           <<"d.copy", "cleanup-sql", "d.psql">>,
           <<"b.dump", "backup-after", "restore">>}
Removals == {<<"p.remove", "provision-sql", "p.unlink">>,
             <<"d.remove", "cleanup-sql", "d.unlink">>}

LEMMA ReserveCareful ==
  ASSUME NEW step, NEW p, NEW next, <<step, p, next>> \in Reservations,
         Careful, Reserve(step, p, next)
  PROVE  Careful'
<1>1. Alive /\ UNCHANGED <<Outside, world>> /\ pc = step /\ p \in Purposes
  BY DEF Reserve, At, Outside, Reservations
<1>2. CASE /\ p \notin mem.intents /\ p \notin disk.intent
           /\ world.tmp[p] = "absent" /\ disk' = Reserved(disk, p)
           /\ mem' = [mem EXCEPT !.intents = @ \cup {p}]
           /\ pc' = next
  <2>1. MemType' /\ DiskType' /\ WorldType' /\ pc' \in AllSteps
        /\ disk'.receipt = disk.receipt
    BY <1>1, <1>2 DEF Careful, Types, MemType, DiskType, WorldType, Reserved,
                      Reservations
  <2>2. StartSound' /\ RoleSound' /\ BoxSound' /\ SchemaSound'
    BY <1>1, <1>2 DEF Careful, Types, MemType, DiskType, Reserved, Sound,
                      StartSound, RoleSound, BoxSound, SchemaSound, Running
  <2>3. FileSound'
    BY <1>1, <1>2 DEF Careful, Types, MemType, DiskType, Reserved, Sound,
                      FileSound, NoForgottenFile
  <2>4. Progress'
    BY <1>1, <1>2 DEF Careful, Types, MemType, DiskType, Reserved, Reservations,
                      Progress, Untouched, StartBy, RoleBy, WorkBy, FileBy
  <2> QED BY <1>1, <2>1, <2>2, <2>3, <2>4, GoFrame DEF Sound
<1>3. CASE Fail /\ UNCHANGED disk
  BY <1>1, <1>3, FailHere
<1> QED BY <1>2, <1>3 DEF Reserve

\* A reserved file may hold anything.
LEMMA HoldsSound ==
  ASSUME NEW p \in mem.intents, NEW v \in {"partial", "whole"},
         Careful, world' = Holds(world, p, v), UNCHANGED disk,
         mem' = mem \/ mem' = [mem EXCEPT !.ok = FALSE]
  PROVE  WorldType' /\ Sound'
<1>1. WorldType' /\ p \in Purposes
  BY DEF Careful, Types, MemType, WorldType, Holds
<1>2. StartSound' /\ RoleSound' /\ BoxSound' /\ SchemaSound'
  BY DEF Careful, Types, MemType, WorldType, Holds, Sound, StartSound, RoleSound,
         BoxSound, SchemaSound, Running
<1>3. FileSound'
  BY <1>1 DEF Careful, Types, MemType, DiskType, WorldType, Holds, Sound,
              FileSound, NoForgottenFile
<1> QED BY <1>1, <1>2, <1>3 DEF Sound

LEMMA CopyCareful ==
  ASSUME NEW step, NEW p, NEW next, <<step, p, next>> \in Copies,
         Careful, Copy(step, p, next)
  PROVE  Careful'
<1> DEFINE whole == Holds(world, p, "whole")
           partial == Holds(world, p, "partial")
<1>1. /\ Command(step, Running, whole, {partial, whole}, mem, next)
      /\ Alive /\ UNCHANGED <<Outside, disk>> /\ pc = step
  BY DEF Copy, Command, At, Outside
<1>2. p \in mem.intents
  BY <1>1 DEF Careful, Progress, FileBy, Copies
<1>3. ASSUME world' = whole, mem' = mem, pc' = next PROVE Careful'
  <2>1. WorldType' /\ Sound'
    BY <1>1, <1>2, <1>3, HoldsSound
  <2>2. MemType' /\ DiskType' /\ pc' \in AllSteps
    BY <1>1, <1>3 DEF Careful, Types, MemType, DiskType, Copies
  <2>3. Progress'
    BY <1>1, <1>3 DEF Careful, Progress, Untouched, StartBy, RoleBy, WorkBy,
                      FileBy, Copies
  <2> QED BY <1>1, <2>1, <2>2, <2>3, GoFrame
<1>4. ASSUME world' \in {partial, whole}, Fail PROVE WorldType' /\ Sound'
  BY <1>1, <1>2, <1>4, HoldsSound DEF Fail
<1> HIDE DEF whole, partial
<1> QED BY <1>1, <1>3, <1>4, CommandCareful

LEMMA ProvisionCareful ==
  ASSUME Careful,
         Psql("p.psql", RoleProvisioned(world), "provision", "p.remove")
  PROVE  Careful'
<1> DEFINE after == RoleProvisioned(world)
           m == [mem EXCEPT !.acknowledged = @ \cup {"provision"}]
<1>1. /\ Command("p.psql", Running, after, {after}, m, "p.remove")
      /\ Alive /\ UNCHANGED <<Outside, disk>> /\ pc = "p.psql"
  BY DEF Psql, Command, At, Outside
<1>2. mem.provisionAttempted /\ "drop" \notin mem.acknowledged
  BY <1>1 DEF Careful, Progress, RoleBy
<1>3. ASSUME world' = after, mem' = m \/ mem' = [mem EXCEPT !.ok = FALSE]
      PROVE  WorldType' /\ Sound' /\ MemType'
  <2>1. WorldType' /\ MemType'
    <3>1. WorldType'
      BY <1>3 DEF Careful, Types, WorldType, RoleProvisioned
    <3>2. CASE mem' = m
      BY <3>1, <3>2 DEF Careful, Types, MemType
    <3>3. CASE mem' = [mem EXCEPT !.ok = FALSE]
      BY <3>1, <3>3 DEF Careful, Types, MemType
    <3> QED BY <1>3, <3>1, <3>2, <3>3
  <2>2. StartSound' /\ BoxSound' /\ SchemaSound' /\ FileSound'
    BY <1>1, <1>3 DEF Careful, Types, MemType, WorldType, RoleProvisioned, Sound,
         StartSound, BoxSound, SchemaSound, FileSound, NoForgottenFile, Running
  <2>3. RoleSound'
    BY <1>2, <1>3 DEF Careful, Types, MemType, WorldType, RoleProvisioned,
                      RoleSound
  <2> QED BY <2>1, <2>2, <2>3 DEF Sound
<1>4. ASSUME world' = after, mem' = m, pc' = "p.remove" PROVE Careful'
  <2>1. WorldType' /\ Sound' /\ MemType'
    BY <1>3, <1>4
  <2>2. DiskType' /\ pc' \in AllSteps
    BY <1>1, <1>4 DEF Careful, Types, DiskType
  <2>3. Progress'
    BY <1>1, <1>4 DEF RoleProvisioned, Careful, Types, MemType, WorldType, Progress,
                      Untouched, StartBy, RoleBy, WorkBy, FileBy
  <2> QED BY <1>1, <2>1, <2>2, <2>3, GoFrame
<1>5. ASSUME world' \in {after}, Fail PROVE WorldType' /\ Sound'
  BY <1>3, <1>5 DEF Fail
<1> HIDE DEF after, m
<1> QED BY <1>1, <1>4, <1>5, CommandCareful

LEMMA DropCareful ==
  ASSUME Careful, Psql("d.psql", RoleDropped(world), "drop", "d.remove")
  PROVE  Careful'
<1> DEFINE after == RoleDropped(world)
           m == [mem EXCEPT !.acknowledged = @ \cup {"drop"}]
<1>1. /\ Command("d.psql", Running, after, {after}, m, "d.remove")
      /\ Alive /\ UNCHANGED <<Outside, disk>> /\ pc = "d.psql"
  BY DEF Psql, Command, At, Outside
<1>3. ASSUME world' = after, mem' = m \/ mem' = [mem EXCEPT !.ok = FALSE]
      PROVE  WorldType' /\ Sound' /\ MemType'
  <2>1. WorldType' /\ MemType'
    <3>1. WorldType'
      BY <1>3 DEF Careful, Types, WorldType, RoleDropped
    <3>2. CASE mem' = m
      BY <3>1, <3>2 DEF Careful, Types, MemType
    <3>3. CASE mem' = [mem EXCEPT !.ok = FALSE]
      BY <3>1, <3>3 DEF Careful, Types, MemType
    <3> QED BY <1>3, <3>1, <3>2, <3>3
  <2>2. StartSound' /\ BoxSound' /\ SchemaSound' /\ FileSound'
    BY <1>1, <1>3 DEF Careful, Types, MemType, WorldType, RoleDropped, Sound,
         StartSound, BoxSound, SchemaSound, FileSound, NoForgottenFile, Running
  <2>3. RoleSound'
    BY <1>3 DEF Careful, Types, MemType, WorldType, RoleDropped, RoleSound
  <2> QED BY <2>1, <2>2, <2>3 DEF Sound
<1>4. ASSUME world' = after, mem' = m, pc' = "d.remove" PROVE Careful'
  <2>1. WorldType' /\ Sound' /\ MemType'
    BY <1>3, <1>4
  <2>2. DiskType' /\ pc' \in AllSteps
    BY <1>1, <1>4 DEF Careful, Types, DiskType
  <2>3. Progress'
    BY <1>1, <1>4 DEF RoleDropped, Careful, Types, MemType, WorldType, Progress,
                      Untouched, StartBy, RoleBy, WorkBy, FileBy
  <2> QED BY <1>1, <2>1, <2>2, <2>3, GoFrame
<1>5. ASSUME world' \in {after}, Fail PROVE WorldType' /\ Sound'
  BY <1>3, <1>5 DEF Fail
<1> HIDE DEF after, m
<1> QED BY <1>1, <1>4, <1>5, CommandCareful

LEMMA RemoveCareful ==
  ASSUME NEW step, NEW p, NEW next, <<step, p, next>> \in Removals,
         Careful, Remove(step, p, next)
  PROVE  Careful'
<1>1. Alive /\ UNCHANGED Outside /\ pc = step /\ p \in Purposes
  BY DEF Remove, At, Outside, Removals
<1>2. CASE Removable(p) /\ Removed(p) /\ pc' = next
  <2>1. /\ p \in mem.intents /\ world' = Holds(world, p, "absent")
        /\ disk' = [disk EXCEPT !.removed = @ \cup {p}]
        /\ mem' = [mem EXCEPT !.intents = @ \ {p}]
    BY <1>2 DEF Removable, Removed
  <2>2. MemType' /\ DiskType' /\ WorldType' /\ pc' \in AllSteps
        /\ disk'.receipt = disk.receipt
    BY <1>1, <1>2, <2>1 DEF Careful, Types, MemType, DiskType, WorldType, Holds,
                            Removals
  <2>3. StartSound' /\ RoleSound' /\ BoxSound' /\ SchemaSound'
    BY <2>1 DEF Careful, Types, MemType, DiskType, WorldType, Holds, Sound,
                StartSound, RoleSound, BoxSound, SchemaSound, Running
  <2>4. FileSound'
    BY <1>1, <2>1 DEF Careful, Types, MemType, DiskType, WorldType, Holds, Sound,
                      FileSound, NoForgottenFile
  <2>5. Progress'
    BY <1>1, <1>2, <2>1 DEF Careful, Types, MemType, DiskType, WorldType, Holds,
         Removals, Progress, Untouched, StartBy, RoleBy, WorkBy, FileBy
  <2> QED BY <1>1, <2>2, <2>3, <2>4, <2>5, GoFrame DEF Sound
<1>3. CASE Fail /\ UNCHANGED <<disk, world>>
  BY <1>1, <1>3, FailHere
<1>4. CASE world' = Holds(world, p, "absent") /\ Fail /\ UNCHANGED disk
  <2>1. MemType' /\ DiskType' /\ WorldType' /\ ~mem'.ok /\ pc' = "f.workers"
    BY <1>1, <1>4 DEF Careful, Types, MemType, DiskType, WorldType, Holds, Fail
  <2>2. StartSound' /\ RoleSound' /\ BoxSound' /\ SchemaSound'
    BY <1>4 DEF Careful, Types, MemType, WorldType, Holds, Fail, Sound,
                StartSound, RoleSound, BoxSound, SchemaSound, Running
  <2>3. FileSound'
    BY <1>1, <1>4 DEF Careful, Types, MemType, WorldType, Holds, Fail, Sound,
                      FileSound, NoForgottenFile
  <2> QED BY <1>1, <1>4, <2>1, <2>2, <2>3, FailFrame DEF Sound
<1> QED BY <1>2, <1>3, <1>4 DEF Remove

LEMMA UnlinkCareful ==
  ASSUME NEW step, NEW files, NEW next, Careful, Unlink(step, files, next),
         <<step, next>> \in {<<"p.unlink", "a.create">>, <<"d.unlink", "b.reserve">>}
  PROVE  Careful'
<1>1. /\ Alive /\ UNCHANGED <<Outside, mem, world>> /\ pc = step /\ pc' = next
      /\ disk' = [disk EXCEPT !.secrets = @ \ files]
  BY DEF Unlink, At, Outside
<1>2. MemType' /\ DiskType' /\ WorldType' /\ pc' \in AllSteps
      /\ disk'.receipt = disk.receipt
  BY <1>1 DEF Careful, Types, MemType, DiskType, WorldType
<1>3. Sound'
  BY <1>1 DEF Careful, Types, DiskType, Sound, StartSound, RoleSound, BoxSound,
              SchemaSound, FileSound, NoForgottenFile, Running
<1>4. Progress'
  BY <1>1 DEF Careful, Types, DiskType, Progress, Untouched, StartBy, RoleBy,
              WorkBy, FileBy
<1> QED BY <1>1, <1>2, <1>3, <1>4, GoFrame

-----------------------------------------------------------------------------
(* Controller.worker, and the clone of the backup.                         *)

LEMMA WorkerSteps ==
  /\ WorkerPc["apply"].create = "a.create" /\ WorkerPc["apply"].wait = "a.wait"
  /\ WorkerPc["apply"].collect = "a.collect"
  /\ WorkerPc["verify"].create = "v.create" /\ WorkerPc["verify"].wait = "v.wait"
  /\ WorkerPc["verify"].collect = "v.collect"
  /\ WorkerPc["history"].create = "h.create" /\ WorkerPc["history"].wait = "h.wait"
  /\ WorkerPc["history"].collect = "h.collect"
BY DEF WorkerPc

LEMMA CreateWorkerCareful ==
  ASSUME NEW b \in Workers, Careful, CreateWorker(b) PROVE Careful'
<1> DEFINE called == [mem EXCEPT !.applyInvoked = @ \/ b = "apply"]
           m == Recorded(called, b)
           made == Box(world, b, "running")
<1>1. Alive /\ UNCHANGED <<Outside, disk>> /\ pc = WorkerPc[b].create
  BY DEF CreateWorker, At, Outside
<1>2. PICK i \in BOOLEAN : /\ called = [mem EXCEPT !.applyInvoked = i]
                           /\ mem.applyInvoked \/ b = "apply" => i
  <2>1. mem.applyInvoked \in BOOLEAN
    BY DEF Careful, Types, MemType
  <2>2. CASE mem.applyInvoked \/ b = "apply"
    <3>1. (mem.applyInvoked \/ b = "apply") = TRUE
      BY <2>1, <2>2
    <3> QED BY <3>1
  <2>3. CASE ~(mem.applyInvoked \/ b = "apply")
    <3>1. (mem.applyInvoked \/ b = "apply") = FALSE
      BY <2>1, <2>3
    <3> QED BY <2>3, <3>1
  <2> QED BY <2>2, <2>3
<1> HIDE DEF called
<1>m. m = [mem EXCEPT !.applyInvoked = i, !.workers = @ \cup {b}]
  BY <1>2 DEF Recorded, Careful, Types, MemType
<1>w. made = [world EXCEPT !.box[b] = "running"]
  BY DEF Box
<1> HIDE DEF m, made
<1>f. ASSUME \/ mem' = m \/ mem' = [m EXCEPT !.ok = FALSE]
             \/ mem' = [called EXCEPT !.ok = FALSE]
      PROVE  /\ MemType' /\ mem'.started = mem.started
             /\ mem'.provisionAttempted = mem.provisionAttempted
             /\ mem'.acknowledged = mem.acknowledged
             /\ mem'.intents = mem.intents /\ mem'.applyInvoked = i
             /\ mem.workers \subseteq mem'.workers
  <2>1. CASE mem' = m
    BY <1>m, <2>1 DEF Careful, Types, MemType
  <2>2. CASE mem' = [m EXCEPT !.ok = FALSE]
    BY <1>m, <2>2 DEF Careful, Types, MemType
  <2>3. CASE mem' = [called EXCEPT !.ok = FALSE]
    BY <1>2, <2>3 DEF Careful, Types, MemType
  <2> QED BY <1>f, <2>1, <2>2, <2>3
<1>3. ASSUME world' = made, mem' = m \/ mem' = [m EXCEPT !.ok = FALSE]
      PROVE  MemType' /\ WorldType' /\ Sound'
  <2>1. b \in mem'.workers
    <3>1. CASE mem' = m
      BY <1>m, <3>1 DEF Careful, Types, MemType
    <3>2. CASE mem' = [m EXCEPT !.ok = FALSE]
      BY <1>m, <3>2 DEF Careful, Types, MemType
    <3> QED BY <1>3, <3>1, <3>2
  <2>2. WorldType'
    BY <1>w, <1>3 DEF Careful, Types, WorldType
  <2>3. StartSound' /\ RoleSound' /\ FileSound'
    BY <1>1, <1>w, <1>f, <1>3 DEF Careful, Types, WorldType, Sound, StartSound,
                            RoleSound, FileSound, NoForgottenFile, Running
  <2>4. BoxSound' /\ SchemaSound'
    BY <1>1, <1>2, <1>w, <1>f, <1>3, <2>1 DEF Careful, Types, WorldType, Sound,
                            BoxSound, SchemaSound
  <2> QED BY <1>f, <1>3, <2>2, <2>3, <2>4 DEF Sound
<1>4. ASSUME world' = world, \/ mem' = [m EXCEPT !.ok = FALSE]
                             \/ mem' = [called EXCEPT !.ok = FALSE]
      PROVE  MemType' /\ WorldType' /\ Sound'
  <2>1. WorldType'
    BY <1>4 DEF Careful, Types, WorldType
  <2>2. StartSound' /\ RoleSound' /\ FileSound'
    BY <1>1, <1>f, <1>4 DEF Careful, Sound, StartSound, RoleSound, FileSound,
                            NoForgottenFile, Running
  <2>3. BoxSound' /\ SchemaSound'
    BY <1>1, <1>2, <1>f, <1>4 DEF Careful, Sound, BoxSound, SchemaSound
  <2> QED BY <1>f, <1>4, <2>1, <2>2, <2>3 DEF Sound
<1>5. CASE world' = made /\ mem' = m /\ pc' = WorkerPc[b].wait
  <2>1. DiskType' /\ pc' \in AllSteps
    BY <1>1, <1>5, WorkerSteps DEF Careful, Types, DiskType
  <2>2. Progress'
    BY <1>1, <1>m, <1>5, WorkerSteps DEF Careful, Types, MemType, Progress,
       Untouched, StartBy, RoleBy, WorkBy, FileBy
  <2> QED BY <1>1, <1>3, <1>5, <2>1, <2>2, GoFrame
<1>6. CASE /\ world' \in {world, made} /\ pc' = "f.workers"
           /\ \/ mem' = [m EXCEPT !.ok = FALSE]
              \/ world' = world /\ mem' = [called EXCEPT !.ok = FALSE]
  <2>1. MemType' /\ WorldType' /\ Sound'
    BY <1>3, <1>4, <1>6
  <2>2. DiskType' /\ ~mem'.ok
    BY <1>1, <1>2, <1>m, <1>6 DEF Careful, Types, MemType, DiskType
  <2> QED BY <1>1, <1>6, <2>1, <2>2, FailFrame
<1> QED BY <1>5, <1>6 DEF CreateWorker, called, m, made

LEMMA AwaitWorkerCareful ==
  ASSUME NEW b \in Workers, Careful, AwaitWorker(b) PROVE Careful'
<1>1. Alive /\ UNCHANGED <<Outside, disk, world>> /\ pc = WorkerPc[b].wait
  BY DEF AwaitWorker, At, Outside
<1>2. CASE world.box[b] = "ok" /\ pc' = WorkerPc[b].collect /\ UNCHANGED mem
  <2>1. MemType' /\ DiskType' /\ WorldType' /\ pc' \in AllSteps
    BY <1>1, <1>2, WorkerSteps DEF Careful, Types, MemType, DiskType, WorldType
  <2>2. Sound'
    BY <1>1, <1>2 DEF Careful, Sound, StartSound, RoleSound, BoxSound,
                      SchemaSound, FileSound, NoForgottenFile, Running
  <2>3. Progress'
    BY <1>1, <1>2, WorkerSteps DEF Careful, Sound, SchemaSound, Progress,
       Untouched, StartBy, RoleBy, WorkBy, FileBy
  <2> QED BY <1>1, <2>1, <2>2, <2>3, GoFrame
<1>3. CASE Fail
  BY <1>1, <1>3, FailHere
<1> QED BY <1>2, <1>3 DEF AwaitWorker

Collections == {<<"apply", "v.create">>, <<"verify", "d.reserve">>,
                <<"history", "amcheck">>}

LEMMA CollectWorkerCareful ==
  ASSUME NEW b \in Workers, NEW next, <<b, next>> \in Collections,
         Careful, CollectWorker(b, next)
  PROVE  Careful'
<1> DEFINE emptied == Box(world, b, "none")
           kept == [disk EXCEPT !.applied = @ \/ b = "apply"]
<1>1. Alive /\ UNCHANGED Outside /\ pc = WorkerPc[b].collect
  BY DEF CollectWorker, At, Outside
<1>2. b = "apply" => world.schema = "committed"
  BY <1>1, WorkerSteps DEF Careful, Progress, WorkBy
<1>3. emptied = [world EXCEPT !.box[b] = "none"]
  BY DEF Box
<1> HIDE DEF emptied
<1>4. ASSUME world' \in {world, emptied}, disk' \in {disk, kept},
             \/ mem' = [mem EXCEPT !.ok = FALSE]
             \/ world' = emptied /\ mem' = [mem EXCEPT !.workers = @ \ {b}]
      PROVE  /\ MemType' /\ DiskType' /\ WorldType' /\ Sound'
             /\ disk'.receipt = disk.receipt
  <2>1. MemType'
    <3>1. CASE mem' = [mem EXCEPT !.ok = FALSE]
      BY <3>1 DEF Careful, Types, MemType
    <3>2. CASE mem' = [mem EXCEPT !.workers = @ \ {b}]
      BY <3>2 DEF Careful, Types, MemType
    <3> QED BY <1>4, <3>1, <3>2
  <2>2. DiskType' /\ disk'.receipt = disk.receipt
    BY <1>4 DEF Careful, Types, DiskType
  <2>3. WorldType'
    BY <1>3, <1>4 DEF Careful, Types, WorldType
  <2>4. /\ world'.status = world.status /\ world'.role = world.role
        /\ world'.schema = world.schema /\ world'.tmp = world.tmp
        /\ \A c \in Boxes : world'.box[c] = world.box[c] \/ world'.box[c] = "none"
        /\ world' = emptied => world'.box[b] = "none"
    BY <1>3, <1>4 DEF Careful, Types, WorldType
  <2>5. StartSound' /\ RoleSound' /\ FileSound'
    BY <1>4, <2>4 DEF Careful, Types, MemType, DiskType, Sound, StartSound,
                      RoleSound, FileSound, NoForgottenFile, Running
  <2>6. BoxSound'
    BY <1>4, <2>4 DEF Careful, Types, MemType, Sound, BoxSound
  <2>7. SchemaSound'
    BY <1>2, <1>4, <2>4 DEF Careful, Types, MemType, DiskType, WorldType, Sound,
                            SchemaSound
  <2> QED BY <2>1, <2>2, <2>3, <2>5, <2>6, <2>7 DEF Sound
<1>5. CASE /\ world' = emptied /\ mem' = [mem EXCEPT !.workers = @ \ {b}]
           /\ disk' = kept /\ pc' = next
  <2>1. pc' \in AllSteps
    BY <1>5 DEF Collections
  <2>2. Progress'
    BY <1>1, <1>3, <1>5, WorkerSteps DEF Collections, Careful, Types, MemType,
       DiskType, WorldType, Progress, Untouched, StartBy, RoleBy, WorkBy, FileBy
  <2> QED BY <1>1, <1>4, <1>5, <2>1, <2>2, GoFrame
<1>6. CASE Fail /\ world' \in {world, emptied} /\ disk' \in {disk, kept}
  <2>1. ~mem'.ok
    BY <1>6 DEF Careful, Types, MemType, Fail
  <2> HIDE DEF kept
  <2> QED BY <1>1, <1>4, <1>6, <2>1, FailFrame DEF Fail
<1> QED BY <1>5, <1>6 DEF CollectWorker, emptied

LEMMA RestoreCareful == ASSUME Careful, Restore PROVE Careful'
<1> DEFINE m == [mem EXCEPT !.owned = {"clone"}]
           made == Box(world, "clone", "running")
<1>1. Alive /\ UNCHANGED <<Outside, disk>> /\ pc = "restore"
  BY DEF Restore, At, Outside
<1>2. made = [world EXCEPT !.box["clone"] = "running"]
  BY DEF Box
<1> HIDE DEF made
<1>3. ASSUME world' \in {world, made}, mem' = m \/ mem' = [m EXCEPT !.ok = FALSE]
      PROVE  MemType' /\ WorldType' /\ Sound'
  <2>1. MemType'
    BY <1>3 DEF Careful, Types, MemType
  <2>2. WorldType'
    BY <1>2, <1>3 DEF Careful, Types, WorldType
  <2>3. /\ world'.status = world.status /\ world'.role = world.role
        /\ world'.schema = world.schema /\ world'.tmp = world.tmp
        /\ \A b \in Workers : world'.box[b] = world.box[b]
    BY <1>2, <1>3 DEF Careful, Types, WorldType
  <2>4. SameRecords
    BY <1>1, <1>3 DEF SameRecords, Careful, Types, MemType
  <2>5. Sound'
    BY <2>3, <2>4, SoundFrame DEF Careful
  <2> QED BY <2>1, <2>2, <2>5
<1>4. CASE world' = made /\ mem' = m /\ pc' = "h.create"
  <2>1. DiskType' /\ pc' \in AllSteps
    BY <1>1, <1>4 DEF Careful, Types, DiskType
  <2>2. Progress'
    BY <1>1, <1>4 DEF Careful, Types, MemType, Progress, Untouched, StartBy,
                      RoleBy, WorkBy, FileBy
  <2> QED BY <1>1, <1>3, <1>4, <2>1, <2>2, GoFrame
<1>5. CASE /\ world' \in {world, made} /\ mem' = [m EXCEPT !.ok = FALSE]
           /\ pc' = "f.workers"
  <2>1. DiskType' /\ ~mem'.ok
    BY <1>1, <1>5 DEF Careful, Types, MemType, DiskType
  <2> QED BY <1>1, <1>3, <1>5, <2>1, FailFrame
<1> QED BY <1>4, <1>5 DEF Restore, made

LEMMA CheckCloneCareful == ASSUME Careful, CheckClone PROVE Careful'
<1> DEFINE after == Box(world, "clone", "none")
           m == [mem EXCEPT !.owned = {}]
<1>1. /\ Command("amcheck", world.box["clone"] # "none", after, {after}, m,
                 "f.workers")
      /\ Alive /\ UNCHANGED <<Outside, disk>> /\ pc = "amcheck"
  BY DEF CheckClone, Command, At, Outside
<1>2. after = [world EXCEPT !.box["clone"] = "none"]
  BY DEF Box
<1> HIDE DEF after
<1>3. ASSUME world' = after, mem' = m \/ mem' = [mem EXCEPT !.ok = FALSE]
      PROVE  MemType' /\ WorldType' /\ Sound'
  <2>1. MemType'
    BY <1>3 DEF Careful, Types, MemType
  <2>2. WorldType'
    BY <1>2, <1>3 DEF Careful, Types, WorldType
  <2>3. Sound'
    BY <1>1, <1>2, <1>3 DEF Careful, Types, MemType, WorldType, Sound, StartSound,
       RoleSound, BoxSound, SchemaSound, FileSound, NoForgottenFile, Running
  <2> QED BY <2>1, <2>2, <2>3
<1>4. ASSUME world' = after, mem' = m, pc' = "f.workers" PROVE Careful'
  <2>1. DiskType' /\ pc' \in AllSteps
    BY <1>1, <1>4 DEF Careful, Types, DiskType
  <2>2. Progress'
    BY <1>1, <1>4 DEF Careful, Types, MemType, Progress, Untouched, StartBy,
                      RoleBy, WorkBy, FileBy
  <2> QED BY <1>1, <1>3, <1>4, <2>1, <2>2, GoFrame
<1>5. ASSUME world' \in {after}, Fail PROVE WorldType' /\ Sound'
  BY <1>3, <1>5 DEF Fail
<1> HIDE DEF m
<1> QED BY <1>1, <1>4, <1>5, CommandCareful

-----------------------------------------------------------------------------
(* finish().                                                               *)

LEMMA FinishWorkersCareful == ASSUME Careful, FinishWorkers PROVE Careful'
<1>1. /\ Alive /\ UNCHANGED <<Outside, disk>> /\ pc = "f.workers"
      /\ pc' = "f.owned"
  BY DEF FinishWorkers, At, Outside
<1>2. DiskType' /\ pc' \in AllSteps
  BY <1>1 DEF Careful, Types, DiskType
<1>3. CASE /\ world' = [world EXCEPT !.box = [b \in Boxes |->
                          IF b \in mem.workers THEN "none" ELSE @[b]]]
           /\ mem' = [mem EXCEPT !.workers = {}]
  <2>1. MemType' /\ WorldType'
    BY <1>3 DEF Careful, Types, MemType, WorldType
  <2>2. /\ world'.status = world.status /\ world'.role = world.role
        /\ world'.schema = world.schema /\ world'.tmp = world.tmp
        /\ \A b \in Workers : world'.box[b] = "none"
    BY <1>3 DEF Careful, Types, WorldType, Sound, BoxSound
  <2>3. StartSound' /\ RoleSound' /\ BoxSound' /\ SchemaSound' /\ FileSound'
    BY <1>1, <1>3, <2>2 DEF Careful, Types, MemType, Sound, StartSound,
       RoleSound, BoxSound, SchemaSound, FileSound, NoForgottenFile, Running
  <2>4. Progress'
    BY <1>1, <1>3 DEF Careful, Types, MemType, Progress, Untouched, StartBy,
                      RoleBy, WorkBy, FileBy
  <2> QED BY <1>1, <1>2, <2>1, <2>3, <2>4, GoFrame DEF Sound
<1>4. CASE /\ mem' = [mem EXCEPT !.clean = FALSE, !.workersClean = FALSE]
           /\ UNCHANGED world
  <2>1. MemType' /\ WorldType' /\ SameRecords
    BY <1>1, <1>4 DEF Careful, Types, MemType, WorldType, SameRecords
  <2>2. Sound'
    BY <1>4, <2>1, SoundFrame DEF Careful
  <2>3. Progress'
    BY <1>1, <1>4 DEF Careful, Types, MemType, Progress, Untouched, StartBy,
                      RoleBy, WorkBy, FileBy
  <2> QED BY <1>1, <1>2, <2>1, <2>2, <2>3, GoFrame
<1> QED BY <1>3, <1>4 DEF FinishWorkers

LEMMA FinishOwnedCareful == ASSUME Careful, FinishOwned PROVE Careful'
<1>1. /\ Alive /\ UNCHANGED <<Outside, disk>> /\ pc = "f.owned"
      /\ pc' = "f.primary"
  BY DEF FinishOwned, At, Outside
<1>2. DiskType' /\ pc' \in AllSteps
  BY <1>1 DEF Careful, Types, DiskType
<1>3. ASSUME \/ mem' = [mem EXCEPT !.owned = {}]
             \/ mem' = [mem EXCEPT !.clean = FALSE]
      PROVE  MemType' /\ SameRecords /\ Progress'
  <2>1. CASE mem' = [mem EXCEPT !.owned = {}]
    <3>1. MemType' /\ SameRecords
      BY <1>1, <2>1 DEF Careful, Types, MemType, SameRecords
    <3>2. Progress'
      BY <1>1, <2>1 DEF Careful, Types, MemType, Progress, Untouched, StartBy,
                        RoleBy, WorkBy, FileBy
    <3> QED BY <3>1, <3>2
  <2>2. CASE mem' = [mem EXCEPT !.clean = FALSE]
    <3>1. MemType' /\ SameRecords
      BY <1>1, <2>2 DEF Careful, Types, MemType, SameRecords
    <3>2. Progress'
      BY <1>1, <2>2 DEF Careful, Types, MemType, Progress, Untouched, StartBy,
                        RoleBy, WorkBy, FileBy
    <3> QED BY <3>1, <3>2
  <2> QED BY <1>3, <2>1, <2>2
<1>4. CASE /\ world' = [world EXCEPT !.box["clone"] =
                          IF "clone" \in mem.owned THEN "none" ELSE @]
           /\ mem' = [mem EXCEPT !.owned = {}]
  <2>1. /\ WorldType' /\ world'.status = world.status /\ world'.role = world.role
        /\ world'.schema = world.schema /\ world'.tmp = world.tmp
        /\ \A b \in Workers : world'.box[b] = world.box[b]
    BY <1>4 DEF Careful, Types, WorldType
  <2>2. Sound'
    BY <1>3, <1>4, <2>1, SoundFrame DEF Careful
  <2> QED BY <1>1, <1>2, <1>3, <1>4, <2>1, <2>2, GoFrame
<1>5. CASE mem' = [mem EXCEPT !.clean = FALSE] /\ UNCHANGED world
  <2>1. WorldType' /\ Sound'
    BY <1>3, <1>5, SoundFrame DEF Careful, Types, WorldType
  <2> QED BY <1>1, <1>2, <1>3, <1>5, <2>1, GoFrame
<1> QED BY <1>4, <1>5 DEF FinishOwned

LEMMA CleanupPrimaryCareful == ASSUME Careful, CleanupPrimary PROVE Careful'
<1>1. /\ Alive /\ UNCHANGED <<Outside, disk, world>> /\ pc = "f.primary"
  BY DEF CleanupPrimary, At, Outside
<1>2. DiskType' /\ WorldType'
  BY <1>1 DEF Careful, Types, DiskType, WorldType
<1>3. CASE /\ ~Running /\ pc' = "f.evidence"
           /\ mem' = [mem EXCEPT !.started = FALSE, !.uncertain = TRUE,
                                 !.ok = FALSE]
  <2>1. MemType' /\ pc' \in AllSteps
    BY <1>3 DEF Careful, Types, MemType
  <2>2. Sound'
    BY <1>1, <1>3 DEF Careful, Types, MemType, Sound, StartSound,
       RoleSound, BoxSound, SchemaSound, FileSound, NoForgottenFile, Running
  <2>3. Progress'
    BY <1>1, <1>3 DEF Careful, Types, MemType, Progress, Untouched, StartBy,
                      RoleBy, WorkBy, FileBy
  <2> QED BY <1>1, <1>2, <2>1, <2>2, <2>3, GoFrame
<1>4. CASE /\ UNCHANGED mem
           /\ \/ ~mem.started /\ pc' = "f.evidence"
              \/ mem.started /\ pc' = IF MayDrop THEN "f.reserve" ELSE "f.files"
  <2>1. MemType' /\ pc' \in AllSteps
    BY <1>4 DEF Careful, Types, MemType
  <2>2. Sound'
    BY <1>1, <1>4 DEF Careful, Sound, StartSound, RoleSound, BoxSound,
                      SchemaSound, FileSound, NoForgottenFile, Running
  <2>3. Progress'
    BY <1>1, <1>4 DEF Careful, Progress, Untouched, StartBy, RoleBy, WorkBy,
                      FileBy, MayDrop
  <2> QED BY <1>1, <1>2, <2>1, <2>2, <2>3, GoFrame
<1> QED BY <1>3, <1>4 DEF CleanupPrimary

\* A step of the cleanup that only adds a doubt.
LEMMA DoubtCareful ==
  ASSUME Careful, Alive, UNCHANGED <<Outside, disk>>, WorldType',
         pc \in {"f.reserve", "f.copy"}, Doubt, pc' = "f.files",
         UNCHANGED world \/ Sound'
  PROVE  Careful'
<1>1. MemType' /\ DiskType' /\ pc' \in AllSteps /\ SameRecords
  BY DEF Careful, Types, MemType, DiskType, Doubt, SameRecords
<1>2. Sound'
  BY <1>1, SoundFrame DEF Careful
<1>3. Progress'
  BY DEF Careful, Types, MemType, Doubt, Progress, Untouched, StartBy, RoleBy,
         WorkBy, FileBy
<1> QED BY <1>1, <1>2, <1>3, GoFrame

LEMMA FinishReserveCareful ==
  ASSUME Careful, FinishDrop, pc = "f.reserve" PROVE Careful'
<1> DEFINE p == "cleanup-sql"
<1>1. Alive /\ UNCHANGED <<Outside, world>>
  BY DEF FinishDrop, At, Outside
<1>2. CASE /\ p \notin mem.intents \cup disk.intent
           /\ disk' = Reserved(disk, p)
           /\ mem' = [mem EXCEPT !.intents = @ \cup {p}]
           /\ pc' = "f.copy"
  <2>1. MemType' /\ DiskType' /\ WorldType' /\ pc' \in AllSteps
        /\ disk'.receipt = disk.receipt
    BY <1>1, <1>2 DEF Careful, Types, MemType, DiskType, WorldType, Reserved
  <2>2. StartSound' /\ RoleSound' /\ BoxSound' /\ SchemaSound'
    BY <1>1, <1>2 DEF Careful, Types, MemType, DiskType, Reserved, Sound,
                      StartSound, RoleSound, BoxSound, SchemaSound, Running
  <2>3. FileSound'
    BY <1>1, <1>2 DEF Careful, Types, MemType, DiskType, Reserved, Sound,
                      FileSound, NoForgottenFile
  <2>4. Progress'
    BY <1>1, <1>2 DEF Careful, Types, MemType, DiskType, Reserved,
                      Progress, Untouched, StartBy, RoleBy, WorkBy, FileBy
  <2> QED BY <1>1, <2>1, <2>2, <2>3, <2>4, GoFrame DEF Sound
<1>3. CASE Doubt /\ pc' = "f.files" /\ UNCHANGED disk
  BY <1>1, <1>3, DoubtCareful DEF Careful, Types, WorldType
<1> QED BY <1>2, <1>3 DEF FinishDrop, At

LEMMA FinishCopyCareful ==
  ASSUME Careful, FinishDrop, pc = "f.copy" PROVE Careful'
<1> DEFINE p == "cleanup-sql"
           dropped == RoleDropped(Holds(world, p, "whole"))
           partial == Holds(world, p, "partial")
<1>1. Alive /\ UNCHANGED Outside /\ pc' = "f.files" /\ p \in mem.intents
  BY DEF FinishDrop, At, Outside, Careful, Progress, FileBy
<1>2. /\ dropped = [world EXCEPT !.role = FALSE, !.tmp[p] = "whole"]
      /\ partial = [world EXCEPT !.tmp[p] = "partial"]
  BY DEF RoleDropped, Holds, Careful, Types, WorldType
<1> HIDE DEF dropped, partial
<1>3. CASE /\ world' = dropped
           /\ mem' = [mem EXCEPT !.acknowledged = @ \cup {"drop"}]
           /\ disk' = [disk EXCEPT !.secrets = @ \ {"cleanup-role.sql"}]
  <2>1. MemType' /\ DiskType' /\ pc' \in AllSteps /\ disk'.receipt = disk.receipt
    BY <1>1, <1>3 DEF Careful, Types, MemType, DiskType
  <2>2. WorldType'
    BY <1>2, <1>3 DEF Careful, Types, WorldType
  <2>3. StartSound' /\ RoleSound' /\ BoxSound' /\ SchemaSound'
    BY <1>2, <1>3 DEF Careful, Types, MemType, DiskType, WorldType, Sound,
                      StartSound, RoleSound, BoxSound, SchemaSound, Running
  <2>4. FileSound'
    BY <1>1, <1>2, <1>3 DEF Careful, Types, MemType, DiskType, WorldType, Sound,
                            FileSound, NoForgottenFile
  <2>5. Progress'
    BY <1>1, <1>3 DEF Careful, Types, MemType, DiskType, Progress, Untouched,
                      StartBy, RoleBy, WorkBy, FileBy
  <2> QED BY <1>1, <2>1, <2>2, <2>3, <2>4, <2>5, GoFrame DEF Sound
<1>4. CASE world' \in {world, partial, dropped} /\ Doubt /\ UNCHANGED disk
  <2>1. WorldType'
    <3>1. CASE world' = partial
      BY <1>2, <3>1 DEF Careful, Types, WorldType
    <3>2. CASE world' = dropped
      BY <1>2, <3>2 DEF Careful, Types, WorldType
    <3> QED BY <1>4, <3>1, <3>2 DEF Careful, Types, WorldType
  <2>2. ASSUME world' = dropped \/ world' = partial
        PROVE  Sound'
    <3>1. SameRecords
      BY <1>4 DEF Careful, Types, MemType, Doubt, SameRecords
    <3>2. /\ world'.status = world.status /\ world'.schema = world.schema
          /\ world'.role => world.role
          /\ world'.box = world.box
          /\ \A q \in Purposes \ {p} : world'.tmp[q] = world.tmp[q]
      <4>1. CASE world' = partial
        BY <1>2, <4>1 DEF Careful, Types, WorldType
      <4>2. CASE world' = dropped
        BY <1>2, <4>2 DEF Careful, Types, WorldType
      <4> QED BY <2>2, <4>1, <4>2
    <3>3. StartSound' /\ RoleSound' /\ BoxSound' /\ SchemaSound'
      BY <3>1, <3>2 DEF SameRecords, Careful, Sound, StartSound, RoleSound,
                        BoxSound, SchemaSound, Running
    <3>4. FileSound'
      BY <1>1, <3>1, <3>2 DEF SameRecords, Careful, Types, DiskType, Sound,
                              FileSound, NoForgottenFile
    <3> QED BY <3>3, <3>4 DEF Sound
  <2> QED BY <1>1, <1>4, <2>1, <2>2, DoubtCareful
<1> QED BY <1>3, <1>4 DEF FinishDrop, At, dropped, partial

LEMMA FinishFilesCareful == ASSUME Careful, FinishFiles PROVE Careful'
<1>1. Alive /\ UNCHANGED Outside /\ pc = "f.files" /\ pc' = "f.stop"
  BY DEF FinishFiles, At, Outside
<1>2. PICK failed \in SUBSET mem.intents, gone \in SUBSET mem.intents :
        /\ world' = [world EXCEPT !.tmp = [p \in Purposes |->
             IF p \in (mem.intents \ failed) \cup gone THEN "absent" ELSE @[p]]]
        /\ disk' = [disk EXCEPT !.removed = @ \cup (mem.intents \ failed)]
        /\ mem' = [mem EXCEPT !.intents = failed,
                              !.uncertain = @ \/ failed # {},
                              !.ok = @ /\ failed = {}]
  BY DEF FinishFiles
<1>3. MemType' /\ DiskType' /\ WorldType' /\ pc' \in AllSteps
      /\ disk'.receipt = disk.receipt
  <2>1. /\ mem.ok \in BOOLEAN /\ mem.uncertain \in BOOLEAN
        /\ failed \in SUBSET Purposes
    BY DEF Careful, Types, MemType
  <2>2. MemType'
    BY <1>2, <2>1 DEF Careful, Types, MemType
  <2>3. DiskType' /\ disk'.receipt = disk.receipt
    BY <1>2 DEF Careful, Types, MemType, DiskType
  <2>4. WorldType'
    BY <1>2 DEF Careful, Types, WorldType
  <2> QED BY <1>1, <2>2, <2>3, <2>4
<1>4. /\ mem'.started = mem.started /\ mem'.acknowledged = mem.acknowledged
      /\ mem'.provisionAttempted = mem.provisionAttempted
      /\ mem'.applyInvoked = mem.applyInvoked /\ mem'.workers = mem.workers
      /\ mem'.workersClean = mem.workersClean /\ mem'.intents = failed
      /\ mem'.ok => mem.ok
  BY <1>2 DEF Careful, Types, MemType
<1>5. /\ disk'.marker = disk.marker /\ disk'.applied = disk.applied
      /\ disk'.intent = disk.intent
      /\ disk'.removed = disk.removed \cup (mem.intents \ failed)
  BY <1>2 DEF Careful, Types, DiskType
<1>6. /\ world'.status = world.status /\ world'.role = world.role
      /\ world'.schema = world.schema /\ world'.box = world.box
      /\ \A p \in Purposes : /\ world'.tmp[p] # "absent" => world.tmp[p] # "absent"
                             /\ p \in mem.intents \ failed => world'.tmp[p] = "absent"
                             /\ world.tmp[p] = "absent" => world'.tmp[p] = "absent"
  BY <1>2 DEF Careful, Types, WorldType
<1>7. StartSound' /\ RoleSound' /\ BoxSound' /\ SchemaSound'
  BY <1>4, <1>5, <1>6 DEF Careful, Sound, StartSound, RoleSound, BoxSound,
                          SchemaSound, Running
<1>8. FileSound'
  BY <1>4, <1>5, <1>6 DEF Careful, Types, MemType, DiskType, Sound, FileSound,
                          NoForgottenFile
<1>9. Progress'
  BY <1>1, <1>4, <1>5 DEF Careful, Progress, Untouched, StartBy, RoleBy, WorkBy,
                          FileBy
<1> QED BY <1>1, <1>3, <1>7, <1>8, <1>9, GoFrame DEF Sound

LEMMA StoppedWorld ==
  ASSUME WorldType, world' = Stopped(world)
  PROVE  /\ WorldType' /\ world'.status = "exited" /\ world'.role = world.role
         /\ world'.schema = world.schema /\ world'.tmp = world.tmp
         /\ \A b \in Boxes : \/ world'.box[b] = world.box[b]
                             \/ world.box[b] = "running" /\ world'.box[b] = "bad"
BY DEF WorldType, Stopped

LEMMA FinishStopCareful == ASSUME Careful, FinishStop PROVE Careful'
<1>1. Alive /\ UNCHANGED Outside /\ pc = "f.stop" /\ pc' = "f.evidence"
  BY DEF FinishStop, At, Outside
<1>2. WorldType
  BY DEF Careful, Types
<1>3. CASE /\ world' = Stopped(world)
           /\ disk' = [disk EXCEPT !.secrets = {}]
           /\ mem' = [mem EXCEPT !.started = FALSE]
  <2>1. MemType' /\ DiskType' /\ pc' \in AllSteps /\ disk'.receipt = disk.receipt
    BY <1>1, <1>3 DEF Careful, Types, MemType, DiskType
  <2>2. StartSound' /\ RoleSound'
    BY <1>2, <1>3, StoppedWorld DEF Careful, Types, MemType, Sound, StartSound,
                                    RoleSound, Running
  <2>3. BoxSound' /\ SchemaSound'
    BY <1>2, <1>3, StoppedWorld DEF Careful, Types, MemType, DiskType, Sound,
                                    BoxSound, SchemaSound
  <2>4. FileSound'
    BY <1>2, <1>3, StoppedWorld DEF Careful, Types, MemType, DiskType, Sound,
                                    FileSound, NoForgottenFile
  <2>5. Progress'
    BY <1>1, <1>3 DEF Careful, Types, MemType, DiskType, Progress, Untouched,
                      StartBy, RoleBy, WorkBy, FileBy
  <2> QED BY <1>1, <1>2, <1>3, <2>1, <2>2, <2>3, <2>4, <2>5, StoppedWorld, GoFrame
          DEF Sound
<1>4. CASE world' \in {world, Stopped(world)} /\ Doubt /\ UNCHANGED disk
  <2>1. MemType' /\ DiskType' /\ pc' \in AllSteps /\ SameRecords
    BY <1>1, <1>4 DEF Careful, Types, MemType, DiskType, Doubt, SameRecords
  <2>2. WorldType' /\ Sound'
    <3>1. CASE world' = world
      BY <1>2, <2>1, <3>1, SoundFrame DEF Careful, WorldType
    <3>2. CASE world' = Stopped(world)
      BY <1>2, <2>1, <3>2, StoppedWorld, SoundFrame DEF Careful
    <3> QED BY <1>4, <3>1, <3>2
  <2>3. Progress'
    BY <1>1, <1>4 DEF Careful, Types, MemType, Doubt, Progress, Untouched,
                      StartBy, RoleBy, WorkBy, FileBy
  <2> QED BY <1>1, <1>4, <2>1, <2>2, <2>3, GoFrame
<1> QED BY <1>3, <1>4 DEF FinishStop

LEMMA FinishEvidenceCareful == ASSUME Careful, FinishEvidence PROVE Careful'
<1>1. /\ Alive /\ UNCHANGED <<Outside, disk, world>>
      /\ pc = "f.evidence" /\ pc' = "f.receipt"
      /\ \/ mem' = mem
         \/ mem' = [mem EXCEPT !.uncertain = TRUE, !.ok = FALSE, !.clean = FALSE]
  BY DEF FinishEvidence, At, Outside
<1>2. MemType' /\ SameRecords /\ mem'.workersClean = mem.workersClean
      /\ (mem'.ok => mem.ok)
  <2>1. CASE mem' = mem
    BY <1>1, <2>1 DEF Careful, Types, MemType, SameRecords
  <2>2. CASE mem' = [mem EXCEPT !.uncertain = TRUE, !.ok = FALSE, !.clean = FALSE]
    BY <1>1, <2>2 DEF Careful, Types, MemType, SameRecords
  <2> QED BY <1>1, <2>1, <2>2
<1>3. DiskType' /\ WorldType' /\ pc' \in AllSteps
  BY <1>1 DEF Careful, Types, DiskType, WorldType
<1>4. Sound'
  BY <1>1, <1>2, SoundFrame DEF Careful
<1>5. Progress'
  BY <1>1, <1>2 DEF SameRecords, Careful, Progress, Untouched, StartBy, RoleBy,
                    WorkBy, FileBy
<1> QED BY <1>1, <1>2, <1>3, <1>4, <1>5, GoFrame

LEMMA FinishReceiptCareful == ASSUME Careful, FinishReceipt PROVE Careful'
<1>1. /\ Alive /\ UNCHANGED <<sup, verdict, note, run, mem, world>>
      /\ pc = "f.receipt" /\ pc' = "ended" /\ run \in Sup
  BY DEF FinishReceipt, At, Alive, Careful, Types, SupType
<1>2. PICK inventoried \in BOOLEAN :
        LET pass == mem.ok /\ CleanNow /\ inventoried
        IN /\ disk' = [disk EXCEPT !.receipt = <<[pass |-> pass, role |-> RoleState,
                                                  schema |-> SchemaState]>>,
                                   !.lease = LeaseAfter(pass)]
           /\ proc' = [proc EXCEPT ![run] = IF pass THEN "exit0" ELSE "exit1"]
  BY DEF FinishReceipt
<1>3. PICK pass \in BOOLEAN :
        /\ pass => mem.ok /\ CleanNow
        /\ disk' = [disk EXCEPT !.receipt = <<[pass |-> pass, role |-> RoleState,
                                               schema |-> SchemaState]>>,
                                !.lease = ~pass]
        /\ proc' = [proc EXCEPT ![run] = IF pass THEN "exit0" ELSE "exit1"]
  <2>1. (mem.ok /\ CleanNow /\ inventoried) \in BOOLEAN
    OBVIOUS
  <2> QED BY <1>2, <2>1 DEF LeaseAfter
<1> DEFINE r == [pass |-> pass, role |-> RoleState, schema |-> SchemaState]
<1>4. r \in Receipts
  BY DEF Receipts, RoleState, SchemaState
<1>5. DiskType'
  <2>1. disk' = [disk EXCEPT !.receipt = <<r>>, !.lease = ~pass]
    BY <1>3
  <2> HIDE DEF r
  <2> QED BY <1>4, <2>1 DEF Careful, Types, DiskType
<1>6. /\ disk'.receipt = <<r>> /\ disk'.lease = ~pass
      /\ disk'.marker = disk.marker /\ disk'.secrets = disk.secrets
      /\ disk'.intent = disk.intent /\ disk'.removed = disk.removed
      /\ disk'.applied = disk.applied
  BY <1>3 DEF Careful, Types, DiskType
<1>7. SupType' /\ MemType' /\ WorldType' /\ pc' \in AllSteps
  BY <1>1, <1>3 DEF Careful, Types, SupType, MemType, WorldType
<1>8. Sound'
  <2>1. SameRecords
    BY <1>1, <1>6 DEF SameRecords
  <2> QED BY <1>1, <2>1, SoundFrame DEF Careful
<1>9. Progress'
  BY <1>1, <1>6 DEF Careful, Progress, Untouched, StartBy, RoleBy, WorkBy, FileBy
<1>10. ReceiptInv'
  <2>1. /\ disk'.receipt[1].role = RoleState /\ disk'.receipt[1].pass = pass
        /\ disk'.receipt[1].schema = SchemaState
    BY <1>6
  <2>2. RoleState' = RoleState /\ SchemaState' = SchemaState
    BY <1>1, <1>6 DEF RoleState, SchemaState
  <2>3. proc'[run'] # "run" /\ run' # NoSup
    BY <1>1, <1>3, PrimaryAssumption DEF Careful, Types, SupType
  <2>4. pass => /\ mem'.ok /\ ~mem'.started /\ ~disk'.lease
                /\ \A b \in Boxes : world'.box[b] = "none"
    BY <1>1, <1>3, <1>6 DEF CleanNow
  <2> QED BY <1>1, <2>1, <2>2, <2>3, <2>4 DEF ReceiptInv
<1>11. SupInv'
  <2>1. disk.receipt = <<>>
    BY <1>1 DEF Careful, ReceiptInv
  <2>2. \A s \in Sup : verdict[s] # "PASS"
    BY <2>1 DEF Careful, SupInv, ReceiptAccepted
  <2>3. \A s \in Sup : proc'[s] \in Live => proc[s] \in Live
    BY <1>1, <1>3 DEF Careful, Types, SupType
  <2>4. run # NoSup
    BY <1>1 DEF Alive
  <2> QED BY <1>1, <2>2, <2>3, <2>4 DEF Careful, SupInv
<1> QED BY <1>5, <1>7, <1>8, <1>9, <1>10, <1>11 DEF Careful, Types

-----------------------------------------------------------------------------
(* Steps outside the controller.                                           *)

\* Whoever stops the primary or removes containers leaves the controller's
\* account of them true.
LEMMA ElsewhereFrame ==
  ASSUME Careful, UNCHANGED <<run, pc, mem, disk>>, SupType', WorldType',
         SupInv', run # NoSup /\ proc'[run] = "run" => proc[run] = "run",
         world'.status \in {world.status, "exited"}, world'.role = world.role,
         world'.schema = world.schema, world'.tmp = world.tmp,
         \A b \in Boxes : \/ world'.box[b] = world.box[b]
                          \/ world'.box[b] = "none"
                          \/ world.box[b] = "running" /\ world'.box[b] = "bad"
  PROVE  Careful'
<1>1. SameRecords
  BY DEF SameRecords
<1>2. Sound'
  BY <1>1, SoundFrame DEF Careful
<1>3. Types'
  BY DEF Careful, Types, MemType, DiskType
<1>4. Progress'
  BY DEF Careful, Progress, Untouched, StartBy, RoleBy, WorkBy, FileBy
<1>5. ReceiptInv'
  BY DEF Careful, ReceiptInv, RoleState, SchemaState
<1> QED BY <1>2, <1>3, <1>4, <1>5 DEF Careful

LEMMA WorkerCommitsCareful == ASSUME Careful, WorkerCommits PROVE Careful'
<1>1. /\ UNCHANGED <<Outside, pc, mem, disk>> /\ world.box["apply"] = "running"
      /\ world' = [world EXCEPT !.schema = "committed"]
  BY DEF WorkerCommits, Outside
<1>2. /\ WorldType' /\ world'.status = world.status /\ world'.role = world.role
      /\ world'.schema = "committed" /\ world'.tmp = world.tmp
      /\ world'.box = world.box
  BY <1>1 DEF Careful, Types, WorldType
<1>3. Types'
  BY <1>1, <1>2 DEF Outside, Careful, Types, SupType, MemType, DiskType
<1>4. Sound'
  BY <1>1, <1>2 DEF Careful, Sound, StartSound, RoleSound, BoxSound, SchemaSound,
                    FileSound, NoForgottenFile, Running
<1>5. Progress'
  BY <1>1, <1>2 DEF Careful, Progress, Untouched, StartBy, RoleBy, WorkBy, FileBy
<1>6. ReceiptInv'
  BY <1>1, <1>2 DEF Outside, Careful, ReceiptInv, RoleState, SchemaState
<1>7. SupInv'
  BY <1>1, <1>2 DEF Outside, Careful, SupInv, ReceiptAccepted
<1> QED BY <1>3, <1>4, <1>5, <1>6, <1>7 DEF Careful

LEMMA WorkerEndsCareful ==
  ASSUME NEW b \in Workers, Careful, WorkerEnds(b) PROVE Careful'
<1>1. PICK v \in {"ok", "bad"} :
        /\ UNCHANGED <<Outside, pc, mem, disk>> /\ world.box[b] = "running"
        /\ world' = [world EXCEPT !.box[b] = v]
        /\ v = "ok" /\ b = "apply" => world.schema = "committed"
  BY DEF WorkerEnds, Outside, Box
<1>2. /\ WorldType' /\ world'.status = world.status /\ world'.role = world.role
      /\ world'.schema = world.schema /\ world'.tmp = world.tmp
      /\ world'.box[b] = v
      /\ \A c \in Boxes \ {b} : world'.box[c] = world.box[c]
  BY <1>1 DEF Careful, Types, WorldType
<1>3. Types'
  BY <1>1, <1>2 DEF Outside, Careful, Types, SupType, MemType, DiskType
<1>4. Sound'
  BY <1>1, <1>2 DEF Careful, Sound, StartSound, RoleSound, BoxSound, SchemaSound,
                    FileSound, NoForgottenFile, Running
<1>5. Progress'
  BY <1>1, <1>2 DEF Careful, Progress, Untouched, StartBy, RoleBy, WorkBy, FileBy
<1>6. ReceiptInv'
  BY <1>1, <1>2 DEF Outside, Careful, ReceiptInv, RoleState, SchemaState
<1>7. SupInv'
  BY <1>1, <1>2 DEF Outside, Careful, SupInv, ReceiptAccepted
<1> QED BY <1>3, <1>4, <1>5, <1>6, <1>7 DEF Careful

\* A supervisor's step that leaves the world alone.
LEMMA SupFrame ==
  ASSUME Careful, UNCHANGED <<run, pc, mem, disk, world>>, SupType',
         \A s \in Sup : proc'[s] = "run" => proc[s] = "run",
         \A s \in Sup : proc'[s] \in Live => sup'[s] = "watch",
         \A s \in Sup : note'[s].stopped => sup'[s] \in {"evidence", "judge", "done"},
         \A s \in Sup : run = s /\ (sup'[s] = "remove" \/ note'[s].stopped)
                          => world.status = "exited",
         \A s \in Sup : verdict'[s] = "PASS" => ReceiptAccepted
  PROVE  Careful'
<1>1. SupInv'
  BY DEF Careful, SupInv, ReceiptAccepted
<1>2. WorldType'
  BY DEF Careful, Types, WorldType
<1>3. run # NoSup /\ proc'[run] = "run" => proc[run] = "run"
  BY DEF Careful, Types, SupType
<1> QED BY <1>1, <1>2, <1>3, ElsewhereFrame

LEMMA ChildCareful ==
  ASSUME NEW s \in Sup, Careful,
         \/ Launch(s) \/ Validate(s) \/ ChildKilled(s)
         \/ BoundExceeded(s) \/ ChildEnded(s)
  PROVE  Careful'
<1>1. CASE Launch(s)
  BY <1>1, SupFrame DEF Launch, Careful, Types, SupType, SupInv
<1>2. CASE Validate(s)
  BY <1>2, SupFrame DEF Validate, Careful, Types, SupType, SupInv
<1>3. CASE ChildKilled(s)
  BY <1>3, SupFrame DEF ChildKilled, Careful, Types, SupType, SupInv
<1>4. CASE BoundExceeded(s)
  <2>1. SupType' /\ \A t \in Sup : note'[t].stopped = note[t].stopped
    BY <1>4 DEF BoundExceeded, Careful, Types, SupType
  <2> QED BY <1>4, <2>1, SupFrame DEF BoundExceeded, Careful, Types, SupType, SupInv
<1>5. CASE ChildEnded(s)
  BY <1>5, SupFrame DEF ChildEnded, Careful, Types, SupType, SupInv
<1> QED BY <1>1, <1>2, <1>3, <1>4, <1>5

LEMMA CreateRunCareful ==
  ASSUME NEW s \in Sup, Careful, CreateRun(s) PROVE Careful'
<1>1. proc[s] = "create" /\ sup[s] = "watch" /\ UNCHANGED <<sup, verdict, note, world>>
  BY DEF CreateRun, Careful, SupInv
<1>2. CASE /\ run = NoSup /\ run' = s /\ proc' = [proc EXCEPT ![s] = "run"]
           /\ pc' = "admit" /\ mem' = Attributes
           /\ disk' = [disk EXCEPT !.lease = TRUE]
  <2>1. pc = "none"
    BY <1>2 DEF Careful, SupInv
  <2>2. /\ DiskType' /\ disk'.receipt = disk.receipt /\ disk'.intent = disk.intent
        /\ disk'.removed = disk.removed /\ disk'.applied = disk.applied
    BY <1>2 DEF Careful, Types, DiskType
  <2>3. /\ disk.intent = {} /\ disk.removed = {} /\ ~disk.applied
        /\ disk.receipt = <<>> /\ world.status = "exited" /\ world.schema = "old"
        /\ ~world.role /\ \A b \in Boxes : world.box[b] = "none"
        /\ \A p \in Purposes : world.tmp[p] = "absent"
    BY <2>1 DEF Careful, Types, DiskType, Progress, Untouched, Sound, FileSound,
                NoForgottenFile
  <2>4. SupType' /\ WorldType' /\ pc' \in AllSteps
    BY <1>1, <1>2 DEF Careful, Types, SupType, WorldType
  <2>5. MemType'
    BY <1>2 DEF MemType, Attributes
  <2>6. Sound'
    BY <1>1, <1>2, <2>2, <2>3 DEF Attributes, Sound, StartSound, RoleSound,
       BoxSound, SchemaSound, FileSound, NoForgottenFile, Running
  <2>7. Progress'
    BY <1>1, <1>2, <2>2, <2>3 DEF Attributes, Progress, Untouched, StartBy,
       RoleBy, WorkBy, FileBy
  <2>8. ReceiptInv'
    BY <2>2, <2>3 DEF ReceiptInv
  <2>9. SupInv'
    <3>1. \A t \in Sup : verdict[t] # "PASS"
      BY <2>3 DEF Careful, SupInv, ReceiptAccepted
    <3> QED BY <1>1, <1>2, <2>3, <3>1, PrimaryAssumption
            DEF Careful, Types, SupType, SupInv
  <2> QED BY <2>2, <2>4, <2>5, <2>6, <2>7, <2>8, <2>9 DEF Careful, Types
<1>3. CASE /\ proc' = [proc EXCEPT ![s] = "exit1"]
           /\ UNCHANGED <<run, pc, mem, disk>>
  BY <1>1, <1>3, SupFrame DEF Careful, Types, SupType, SupInv
<1> QED BY <1>2, <1>3 DEF CreateRun, MkdirCreates

LEMMA SupervisorStopCareful ==
  ASSUME NEW s \in Sup, Careful, SupervisorStop(s) PROVE Careful'
<1>1. sup[s] = "stop" /\ UNCHANGED <<verdict, proc, run, pc, mem, disk>>
  BY DEF SupervisorStop
<1>2. CASE /\ ~MustStop /\ sup' = [sup EXCEPT ![s] = "evidence"]
           /\ note' = [note EXCEPT ![s].stopped = TRUE] /\ UNCHANGED world
  <2>1. world.status = "exited"
    BY <1>2 DEF MustStop, Careful, Types, WorldType, Sound, StartSound, Running
  <2>2. SupType' /\ \A t \in Sup : t # s => note'[t] = note[t] /\ sup'[t] = sup[t]
    BY <1>1, <1>2 DEF Careful, Types, SupType
  <2> QED BY <1>1, <1>2, <2>1, <2>2, SupFrame DEF Careful, Types, SupType, SupInv
<1>3. CASE /\ world' = Stopped(world) /\ sup' = [sup EXCEPT ![s] = "remove"]
           /\ UNCHANGED note
  <2>1. SupType' /\ \A t \in Sup : t # s => sup'[t] = sup[t]
    BY <1>1, <1>3 DEF Careful, Types, SupType
  <2>2. WorldType
    BY DEF Careful, Types
  <2>3. SupInv'
    BY <1>1, <1>3, <2>1, <2>2, StoppedWorld DEF Careful, Types, SupType, SupInv,
                                                ReceiptAccepted
  <2> QED BY <1>1, <1>3, <2>1, <2>2, <2>3, StoppedWorld, ElsewhereFrame
<1>4. CASE /\ world' \in {world, Stopped(world)}
           /\ note' = [note EXCEPT ![s].err = TRUE]
           /\ sup' = [sup EXCEPT ![s] = "evidence"]
  <2>1. SupType' /\ \A t \in Sup : /\ note'[t].stopped = note[t].stopped
                                   /\ t # s => sup'[t] = sup[t]
    BY <1>1, <1>4 DEF Careful, Types, SupType
  <2>2. WorldType
    BY DEF Careful, Types
  <2>3. CASE world' = world
    BY <1>1, <1>4, <2>1, <2>3, SupFrame DEF Careful, Types, SupType, SupInv
  <2>4. CASE world' = Stopped(world)
    <3>1. SupInv'
      BY <1>1, <1>4, <2>1, <2>2, <2>4, StoppedWorld
         DEF Careful, Types, SupType, SupInv, ReceiptAccepted
    <3> QED BY <1>1, <2>1, <2>2, <2>4, <3>1, StoppedWorld, ElsewhereFrame
  <2> QED BY <1>4, <2>3, <2>4
<1> QED BY <1>2, <1>3, <1>4 DEF SupervisorStop

LEMMA SupervisorRemoveCareful ==
  ASSUME NEW s \in Sup, Careful, SupervisorRemove(s) PROVE Careful'
<1>1. /\ sup[s] = "remove" /\ UNCHANGED <<verdict, proc, run, pc, mem, disk>>
      /\ sup' = [sup EXCEPT ![s] = "evidence"]
      /\ run = s => world.status = "exited"
  BY DEF SupervisorRemove, Careful, SupInv
<1>2. CASE /\ world' = [world EXCEPT !.box = [b \in Boxes |-> "none"]]
           /\ note' = [note EXCEPT ![s].stopped = TRUE]
  <2>1. SupType' /\ \A t \in Sup : t # s => note'[t] = note[t] /\ sup'[t] = sup[t]
    BY <1>1, <1>2 DEF Careful, Types, SupType
  <2>2. /\ WorldType' /\ world'.status = world.status /\ world'.role = world.role
        /\ world'.schema = world.schema /\ world'.tmp = world.tmp
        /\ \A b \in Boxes : world'.box[b] = "none"
    BY <1>2 DEF Careful, Types, WorldType
  <2>3. SupInv'
    BY <1>1, <1>2, <2>1, <2>2 DEF Careful, Types, SupType, SupInv, ReceiptAccepted
  <2> QED BY <1>1, <2>1, <2>2, <2>3, ElsewhereFrame
<1>3. CASE note' = [note EXCEPT ![s].err = TRUE] /\ UNCHANGED world
  <2>1. SupType' /\ \A t \in Sup : /\ note'[t].stopped = note[t].stopped
                                   /\ t # s => sup'[t] = sup[t]
    BY <1>1, <1>3 DEF Careful, Types, SupType
  <2> QED BY <1>1, <1>3, <2>1, SupFrame DEF Careful, Types, SupType, SupInv
<1> QED BY <1>2, <1>3 DEF SupervisorRemove

LEMMA SupervisorEvidenceCareful ==
  ASSUME NEW s \in Sup, Careful, SupervisorEvidence(s) PROVE Careful'
<1>1. /\ sup[s] = "evidence" /\ sup' = [sup EXCEPT ![s] = "judge"]
      /\ UNCHANGED <<verdict, proc, run, pc, mem, disk, world>>
      /\ note' = [note EXCEPT ![s].err = @ \/ (run # NoSup /\ ~Verified)]
  BY DEF SupervisorEvidence
<1>2. SupType'
  BY <1>1 DEF Careful, Types, SupType
<1>3. \A t \in Sup : note'[t].stopped = note[t].stopped /\ (t # s => sup'[t] = sup[t])
  BY <1>1 DEF Careful, Types, SupType
<1> QED BY <1>1, <1>2, <1>3, SupFrame DEF Careful, Types, SupType, SupInv

LEMMA JudgeCareful == ASSUME NEW s \in Sup, Careful, Judge(s) PROVE Careful'
<1>1. /\ sup[s] = "judge" /\ sup' = [sup EXCEPT ![s] = "done"]
      /\ UNCHANGED <<note, proc, run, pc, mem, disk, world>>
      /\ \/ verdict' = [verdict EXCEPT ![s] = "FAILED_CLOSED"]
         \/ ReceiptAccepted /\ verdict' = [verdict EXCEPT ![s] = "PASS"]
  BY DEF Judge
<1> QED BY <1>1, SupFrame DEF Careful, Types, SupType, SupInv

-----------------------------------------------------------------------------
(* Every step, and the theorems.                                           *)

LEMMA ControllerCareful == ASSUME Careful, ControllerStep PROVE Careful'
<1>1. CASE Provision
  <2>1. CASE Reserve("p.reserve", "provision-sql", "p.copy")
    BY <2>1, ReserveCareful DEF Reservations
  <2>2. CASE Copy("p.copy", "provision-sql", "p.psql")
    BY <2>2, CopyCareful DEF Copies
  <2>3. CASE Remove("p.remove", "provision-sql", "p.unlink")
    BY <2>3, RemoveCareful DEF Removals
  <2>4. CASE Unlink("p.unlink", {"provision.sql"}, "a.create")
    BY <2>4, UnlinkCareful
  <2> QED BY <1>1, <2>1, <2>2, <2>3, <2>4, ProvisionCareful DEF Provision
<1>2. CASE DropRole
  <2>1. CASE Reserve("d.reserve", "cleanup-sql", "d.copy")
    BY <2>1, ReserveCareful DEF Reservations
  <2>2. CASE Copy("d.copy", "cleanup-sql", "d.psql")
    BY <2>2, CopyCareful DEF Copies
  <2>3. CASE Remove("d.remove", "cleanup-sql", "d.unlink")
    BY <2>3, RemoveCareful DEF Removals
  <2>4. CASE Unlink("d.unlink", {"cleanup-role.sql", "native-auth.json"}, "b.reserve")
    BY <2>4, UnlinkCareful
  <2> QED BY <1>2, <2>1, <2>2, <2>3, <2>4, DropCareful DEF DropRole
<1>3. CASE Dump
  <2>1. CASE Reserve("b.reserve", "backup-after", "b.dump")
    BY <2>1, ReserveCareful DEF Reservations
  <2>2. CASE Copy("b.dump", "backup-after", "restore")
    BY <2>2, CopyCareful DEF Copies
  <2> QED BY <1>3, <2>1, <2>2 DEF Dump
<1>4. CASE RunWorker
  <2>1. CASE CollectWorker("apply", "v.create")
    BY <2>1, CollectWorkerCareful DEF Collections
  <2>2. CASE CollectWorker("verify", "d.reserve")
    BY <2>2, CollectWorkerCareful DEF Collections
  <2>3. CASE CollectWorker("history", "amcheck")
    BY <2>3, CollectWorkerCareful DEF Collections
  <2> QED BY <1>4, <2>1, <2>2, <2>3, CreateWorkerCareful, AwaitWorkerCareful
          DEF RunWorker
<1>5. CASE FinishDrop
  <2>1. pc \in {"f.reserve", "f.copy"}
    BY <1>5 DEF FinishDrop, At
  <2> QED BY <1>5, <2>1, FinishReserveCareful, FinishCopyCareful
<1> QED BY <1>1, <1>2, <1>3, <1>4, <1>5, AdmitCareful, WriteFilesCareful,
           WriteMarkerCareful, StartPrimaryCareful, AssertTargetCareful,
           AwaitReadyCareful, RestoreCareful, CheckCloneCareful,
           FinishWorkersCareful, FinishOwnedCareful, CleanupPrimaryCareful,
           FinishFilesCareful, FinishStopCareful, FinishEvidenceCareful,
           FinishReceiptCareful
        DEF ControllerStep

LEMMA StepCareful == Careful /\ [Next]_vars => Careful'
<1> SUFFICES ASSUME Careful, [Next]_vars PROVE Careful'
  OBVIOUS
<1>1. CASE UNCHANGED vars
  <2>1. SupType' /\ UNCHANGED <<sup, verdict, note, proc, run, pc, mem, disk, world>>
    BY <1>1 DEF vars, Careful, Types, SupType
  <2> QED BY <2>1, SupFrame DEF Careful, SupInv
<1>2. CASE \E s \in Sup : Launch(s) \/ Validate(s) \/ CreateRun(s) \/ ChildKilled(s)
                          \/ SupervisorStep(s)
  <2> PICK s \in Sup : \/ Launch(s) \/ Validate(s) \/ CreateRun(s)
                       \/ ChildKilled(s) \/ SupervisorStep(s)
    BY <1>2
  <2> QED BY ChildCareful, CreateRunCareful, SupervisorStopCareful,
             SupervisorRemoveCareful, SupervisorEvidenceCareful, JudgeCareful
          DEF SupervisorStep
<1> QED BY <1>1, <1>2, ControllerCareful, WorkerCommitsCareful, WorkerEndsCareful
        DEF Next

LEMMA AlwaysCareful == Spec => []Careful
BY InitCareful, StepCareful, PTL DEF Spec

\* A supervisor's PASS means that the transition is complete and nothing of
\* it is left, for any number of supervisors and failed commands
\* (supervise_primary: result).
THEOREM PassMeansComplete == Spec => []PassIsComplete
<1>1. Careful => PassIsComplete
  <2> SUFFICES ASSUME Careful, NEW s \in Sup, verdict[s] = "PASS"
               PROVE  /\ world.schema = "committed" /\ world.status = "exited"
                      /\ ~world.role
                      /\ \A p \in Purposes : world.tmp[p] = "absent"
                      /\ \A b \in Boxes : world.box[b] = "none"
                      /\ disk.secrets = {} /\ ~disk.lease
    BY DEF PassIsComplete
  <2>1. /\ disk.receipt # <<>> /\ disk.receipt[1].pass
        /\ disk.receipt[1].role = "CREATED_AND_DROPPED"
        /\ disk.receipt[1].schema = "COMMITTED" /\ disk.removed = Purposes
    BY DEF Careful, SupInv, ReceiptAccepted
  <2>2. /\ pc = "ended" /\ mem.ok /\ ~mem.started /\ ~disk.lease
        /\ RoleState = "CREATED_AND_DROPPED" /\ SchemaState = "COMMITTED"
        /\ \A b \in Boxes : world.box[b] = "none"
    BY <2>1 DEF Careful, ReceiptInv
  <2>3. world.schema = "committed"
    BY <2>2 DEF Careful, Sound, SchemaSound, SchemaState
  <2>4. world.status = "exited"
    BY <2>2 DEF Careful, Types, WorldType, Sound, StartSound, Running
  <2>5. ~world.role
    BY <2>2 DEF Careful, Sound, RoleSound, RoleState
  <2>6. \A p \in Purposes : world.tmp[p] = "absent"
    BY <2>1 DEF Careful, Sound, FileSound, NoForgottenFile
  <2>7. disk.secrets = {}
    BY <2>2 DEF Careful, Progress, StartBy
  <2> QED BY <2>2, <2>3, <2>4, <2>5, <2>6, <2>7
<1> QED BY <1>1, AlwaysCareful, PTL

\* What a supervisor or a receipt reports about the primary is never better
\* than the truth, wherever a child died and whatever commands failed
\* (_supervisor_stop_if_started, finish: mutation_state).
THEOREM ReportsNeverFlatter == Spec => []ReportsAreTrue
<1>1. ASSUME Careful PROVE ReportsAreTrue
  <2>1. \A s \in Sup : sup[s] = "done" /\ run = s /\ note[s].stopped
                         => world.status = "exited"
    BY <1>1 DEF Careful, SupInv
  <2>2. ASSUME disk.receipt # <<>>
        PROVE  LET r == disk.receipt[1]
               IN /\ r.role \in {"CREATED_AND_DROPPED", "NOT_ATTEMPTED"} => ~world.role
                  /\ r.schema = "COMMITTED" => world.schema = "committed"
                  /\ r.schema = "NOT_ATTEMPTED" => world.schema = "old"
                  /\ r.pass => world.status = "exited" /\ ~world.role
    <3>1. /\ disk.receipt[1].role = RoleState
          /\ disk.receipt[1].schema = SchemaState
          /\ disk.receipt[1].pass => mem.ok /\ ~mem.started
          /\ pc = "ended"
      BY <1>1, <2>2 DEF Careful, ReceiptInv
    <3>2. RoleState \in {"CREATED_AND_DROPPED", "NOT_ATTEMPTED"} => ~world.role
      BY <1>1 DEF Careful, Sound, RoleSound, RoleState
    <3>3. SchemaState = "COMMITTED" => world.schema = "committed"
      BY <1>1 DEF Careful, Sound, SchemaSound, SchemaState
    <3>4. SchemaState = "NOT_ATTEMPTED" => world.schema = "old"
      BY <1>1 DEF Careful, Types, WorldType, Sound, SchemaSound, SchemaState
    <3>5. ~mem.started => world.status = "exited"
      BY <1>1 DEF Careful, Types, WorldType, Sound, StartSound, Running
    <3>6. mem.ok => ~world.role
      BY <1>1, <3>1 DEF Careful, Progress, RoleBy, Sound, RoleSound
    <3> QED BY <3>1, <3>2, <3>3, <3>4, <3>5, <3>6
  <2> QED BY <2>1, <2>2 DEF ReportsAreTrue
<1> QED BY <1>1, AlwaysCareful, PTL

\* No temporary file exists in the primary outside the span between its
\* durable creation and removal records (_reserve_remote_file,
\* _remove_owned_container_file), however its copy or removal failed.
THEOREM FilesAreAccountedFor == Spec => []NoForgottenFile
<1>1. Careful => NoForgottenFile
  BY DEF Careful, Sound, FileSound
<1> QED BY <1>1, AlwaysCareful, PTL

\* The ways a step can start the primary or drop its login.
LEMMA CarefulTouch ==
  ASSUME Careful, Next
  PROVE  \/ pc = "start"
         \/ /\ world'.status = "running" => world.status = "running"
            /\ \/ pc \in {"d.psql", "f.copy"}
               \/ world.role => world'.role
<1>1. WorldType
  BY DEF Careful, Types
<1>2. CASE UNCHANGED world
  BY <1>2
<1>3. CASE ControllerStep
  <2>1. CASE Provision
    BY <1>1, <2>1 DEF Provision, Reserve, Copy, Psql, Remove, Unlink, Command, At,
         Removed, RoleProvisioned, Holds, WorldType
  <2>2. CASE DropRole
    BY <1>1, <2>2 DEF DropRole, Reserve, Copy, Psql, Remove, Unlink, Command, At,
         Removed, RoleDropped, Holds, WorldType
  <2>3. CASE Dump \/ Restore \/ CheckClone
    BY <1>1, <2>3 DEF Dump, Restore, CheckClone, Reserve, Copy, Command, Holds,
                      Box, WorldType
  <2>4. CASE RunWorker
    <3>1. CASE \E b \in Workers : CreateWorker(b) \/ AwaitWorker(b)
      BY <1>1, <3>1 DEF CreateWorker, AwaitWorker, Box, WorldType
    <3>2. ASSUME NEW b \in Workers, NEW next, CollectWorker(b, next)
          PROVE  world'.status = world.status /\ world'.role = world.role
      BY <1>1, <3>2 DEF CollectWorker, Box, WorldType
    <3> QED BY <2>4, <3>1, <3>2 DEF RunWorker
  <2>5. CASE FinishWorkers \/ FinishOwned \/ FinishFiles
    BY <1>1, <2>5 DEF FinishWorkers, FinishOwned, FinishFiles, WorldType
  <2>6. CASE FinishDrop
    BY <1>1, <2>6 DEF FinishDrop, At, RoleDropped, Holds, WorldType
  <2>7. CASE FinishStop
    BY <1>1, <2>7, StoppedWorld DEF FinishStop
  <2>8. CASE StartPrimary
    BY <2>8 DEF StartPrimary, Command, At
  <2>9. CASE \/ Admit \/ WriteFiles \/ WriteMarker \/ CleanupPrimary
             \/ FinishEvidence \/ FinishReceipt \/ AssertTarget \/ AwaitReady
    BY <1>2, <2>9 DEF Admit, WriteFiles, WriteMarker, CleanupPrimary,
         FinishEvidence, FinishReceipt, AssertTarget, AwaitReady, Command
  <2> QED BY <1>3, <2>1, <2>2, <2>3, <2>4, <2>5, <2>6, <2>7, <2>8, <2>9
          DEF ControllerStep
<1>4. CASE WorkerCommits \/ \E b \in Workers : WorkerEnds(b)
  BY <1>1, <1>4 DEF WorkerCommits, WorkerEnds, Box, WorldType
<1>5. ASSUME NEW s \in Sup, SupervisorStop(s)
      PROVE  /\ world'.status = "running" => world.status = "running"
             /\ world.role => world'.role
  BY <1>1, <1>5, StoppedWorld DEF SupervisorStop
<1>6. ASSUME NEW s \in Sup, SupervisorRemove(s)
      PROVE  world'.status = world.status /\ world'.role = world.role
  BY <1>1, <1>6 DEF SupervisorRemove, WorldType
<1>7. ASSUME NEW s \in Sup, \/ Launch(s) \/ Validate(s) \/ CreateRun(s)
                            \/ ChildKilled(s) \/ BoundExceeded(s) \/ ChildEnded(s)
                            \/ SupervisorEvidence(s) \/ Judge(s)
      PROVE  UNCHANGED world
  BY <1>7 DEF Launch, Validate, CreateRun, ChildKilled, BoundExceeded, ChildEnded,
              SupervisorEvidence, Judge
<1> QED BY <1>2, <1>3, <1>4, <1>5, <1>6, <1>7 DEF Next, SupervisorStep

\* The stopped primary is started once, as the accepted clone left it, and
\* its temporary login is never dropped under a worker that may be logged in
\* (run directory, worker_cleanup_verified).
THEOREM PrimaryIsTouchedWithCare == Spec => TouchedWithCare
<1> DEFINE Care == /\ world.status = "exited" /\ world'.status = "running" =>
                        world.schema = "old" /\ ~world.role /\ disk.intent = {}
                   /\ world.role /\ ~world'.role =>
                        /\ world.box["apply"] # "running"
                        /\ world.box["verify"] # "running"
<1>1. ASSUME Careful, Next PROVE Care
  <2>1. CASE pc = "start"
    BY <1>1, <2>1 DEF Careful, Progress, Untouched
  <2>2. CASE pc \in {"d.psql", "f.copy"}
    <3>1. world.box["apply"] # "running" /\ world.box["verify"] # "running"
      BY <1>1, <2>2 DEF Careful, Sound, BoxSound, Progress, WorkBy
    <3> QED BY <1>1, <2>2, <3>1, CarefulTouch
  <2> QED BY <1>1, <2>1, <2>2, CarefulTouch
<1>2. Careful /\ [Next]_vars => [Care]_vars
  BY <1>1
<1> QED BY <1>2, AlwaysCareful, PTL DEF Spec, TouchedWithCare
=============================================================================

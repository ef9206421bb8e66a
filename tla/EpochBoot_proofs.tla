------------------------- MODULE EpochBoot_proofs -------------------------
(***************************************************************************)
(* The latch of the boot, for every number of runs, failures and minutes.  *)
(*                                                                         *)
(* OneBootAtATime is not inductive: the operator's removal of a latch must *)
(* be tied to a run that has ended, and a removed latch to a review that   *)
(* is not counted twice.  LatchInv adds where a run that owns the latch,   *)
(* the restore volume or a review can be.                                  *)
(*                                                                         *)
(* ServeIsGuarded and PassIsProgress rest on BootInv: what a run that got  *)
(* so far has measured, and that the shared stack still shows it, because  *)
(* only the one run that holds the latch works on it.                      *)
(***************************************************************************)
EXTENDS EpochBoot, TLAPS

Steps == Working \union Ended \union {"idle", "create", "cleanup"}
Holding == {"dump", "clone", "verify", "unclone"}
Unreleased == {"failed", "killed"}

LatchOwner == \A r \in Runs : latch = r => Latched(r) \/ pc[r] \in Unreleased
ReviewedEnded == \A r \in Runs : r \in reviewed => /\ pc[r] \in Unreleased
                                                   /\ latch # r
VolumeHeld == \A r \in Runs : pc[r] \in Holding => volume = r

LatchInv == /\ pc \in [Runs -> Steps] /\ latch \in Runs \union {NoRun}
            /\ OneBootAtATime /\ NoAutomaticRetry
            /\ LatchOwner /\ ReviewedEnded /\ VolumeHeld

\* What most steps of a run are to the latch: the run stays at work, or turns
\* to its cleanup, and enters the part that needs the volume through its door.
Proceeds(r) ==
  /\ Latched(r)
  /\ \E p \in Working \union {"cleanup"} :
       /\ pc' = [pc EXCEPT ![r] = p]
       /\ p \in Holding => pc[r] \in Holding
  /\ UNCHANGED <<latch, reviewed>>

LEMMA InitLatch == Init => LatchInv
BY BootAssumption
   DEF Init, LatchInv, Steps, OneBootAtATime, NoAutomaticRetry, LatchOwner,
       ReviewedEnded, VolumeHeld, Latched, Working, Ended, Phases, Epoch,
       Holding, Unreleased

\* A step that only moves a working run keeps the invariant.
LEMMA ProceedsKeepsLatch ==
  ASSUME LatchInv, NEW r \in Runs, Proceeds(r), UNCHANGED volume
  PROVE  LatchInv'
BY BootAssumption
   DEF LatchInv, Proceeds, Steps, OneBootAtATime, NoAutomaticRetry, LatchOwner,
       ReviewedEnded, VolumeHeld, Latched, Working, Ended, Phases, Epoch,
       Holding, Unreleased

\* A step that leaves runs, latch and volume alone keeps the invariant.
LEMMA StutterKeepsLatch ==
  ASSUME LatchInv, UNCHANGED <<pc, latch, reviewed, volume>>
  PROVE  LatchInv'
BY DEF LatchInv, OneBootAtATime, NoAutomaticRetry, LatchOwner, ReviewedEnded,
       VolumeHeld, Latched

\* The steps of run_boot that touch neither latch nor volume.
LEMMA InnerSteps ==
  ASSUME LatchInv, NEW r \in Runs,
         \/ Admit(r) \/ Previous(r) \/ Recheck(r) \/ StartData(r) \/ Before(r)
         \/ Dump(r) \/ Restore(r) \/ Verify(r) \/ Current(r) \/ After(r)
         \/ RedisState(r) \/ Ready(r) \/ StartServe(r) \/ Poll(r)
         \/ WaitTimesOut(r) \/ SaveReceipt(r)
  PROVE  Proceeds(r) /\ UNCHANGED volume
<1> USE DEF Proceeds, Step, Go, Latched, Working, Phases, Epoch, Holding,
            storeVars, dockerVars, fileVars, statusVars, envVars
<1>1. CASE Admit(r) BY <1>1 DEF Admit
<1>2. CASE Previous(r) BY <1>2 DEF Previous
<1>3. CASE Recheck(r) BY <1>3 DEF Recheck
<1>4. CASE StartData(r) BY <1>4 DEF StartData
<1>5. CASE Before(r) BY <1>5 DEF Before
<1>6. CASE Dump(r) BY <1>6 DEF Dump
<1>7. CASE Restore(r) BY <1>7 DEF Restore
<1>8. CASE Verify(r) BY <1>8 DEF Verify
<1>9. CASE Current(r) BY <1>9 DEF Current
<1>10. CASE After(r) BY <1>10 DEF After
<1>11. CASE RedisState(r) BY <1>11 DEF RedisState
<1>12. CASE Ready(r) BY <1>12 DEF Ready
<1>13. CASE StartServe(r) BY <1>13 DEF StartServe
<1>14. CASE Poll(r) BY <1>14 DEF Poll
<1>15. CASE WaitTimesOut(r) BY <1>15 DEF WaitTimesOut
<1>16. CASE SaveReceipt(r) BY <1>16 DEF SaveReceipt
<1> QED BY <1>1, <1>2, <1>3, <1>4, <1>5, <1>6, <1>7, <1>8, <1>9, <1>10, <1>11,
           <1>12, <1>13, <1>14, <1>15, <1>16

\* The doors: main() before and after run_boot, and the restore volume.
LEMMA DoorSteps ==
  ASSUME LatchInv, NEW r \in Runs,
         \/ Start(r) \/ CreateLatch(r) \/ PrepareVolume(r) \/ RemoveClone(r)
         \/ ReleaseLatch(r) \/ Cleanup(r) \/ Kill(r)
  PROVE  LatchInv'
<1> USE BootAssumption
    DEF LatchInv, Steps, OneBootAtATime, NoAutomaticRetry, LatchOwner,
        ReviewedEnded, VolumeHeld, Latched, Working, Ended, Phases, Epoch,
        Holding, Unreleased, Step, Go, storeVars, dockerVars, fileVars,
        statusVars, envVars
<1>1. CASE Start(r) BY <1>1 DEF Start, LatchExists
<1>2. CASE CreateLatch(r) BY <1>2 DEF CreateLatch, LatchWritable
<1>3. CASE PrepareVolume(r) BY <1>3 DEF PrepareVolume, RestoreAbsent
<1>4. CASE RemoveClone(r) BY <1>4 DEF RemoveClone
<1>5. CASE ReleaseLatch(r) BY <1>5 DEF ReleaseLatch
<1>6. CASE Cleanup(r)
  <2>1. PICK left : Go(r, "failed", [mem[r] EXCEPT !.left = left])
    BY <1>6 DEF Cleanup
  <2>2. pc[r] = "cleanup" /\ UNCHANGED <<latch, reviewed, volume>>
    BY <1>6 DEF Cleanup
  <2>3. pc' = [pc EXCEPT ![r] = "failed"] BY <2>1
  <2> QED BY <2>2, <2>3
<1>7. CASE Kill(r) BY <1>7 DEF Kill
<1> QED BY <1>1, <1>2, <1>3, <1>4, <1>5, <1>6, <1>7

\* A failing command leaves the volume alone, creates the run's own, or has
\* removed it.
LEMMA CommandFailsKeepsLatch ==
  ASSUME LatchInv, NEW r \in Runs, CommandFails(r)
  PROVE  LatchInv'
<1> USE DEF Proceeds, Go, Latched, dockerVars, fileVars, storeVars, statusVars
<1>1. Proceeds(r)
  <2>1. /\ Latched(r) /\ pc' = [pc EXCEPT ![r] = "cleanup"]
        /\ UNCHANGED <<latch, reviewed>>
    BY DEF CommandFails
  <2>2. "cleanup" \in Working \union {"cleanup"} /\ "cleanup" \notin Holding
    BY DEF Holding
  <2> QED BY <2>1, <2>2
<1>2. CASE UNCHANGED volume BY <1>1, <1>2, ProceedsKeepsLatch
<1>3. CASE volume = NoRun
  BY <1>1, <1>3, BootAssumption
     DEF LatchInv, Steps, OneBootAtATime, NoAutomaticRetry, LatchOwner,
         ReviewedEnded, VolumeHeld, Working, Ended, Phases, Epoch, Holding,
         Unreleased, CommandFails
<1>4. CASE pc[r] = "unclone"
  <2>1. volume = r BY <1>4 DEF LatchInv, VolumeHeld, Holding
  <2>2. pc' = [pc EXCEPT ![r] = "cleanup"] /\ UNCHANGED <<latch, reviewed>>
    BY DEF CommandFails
  <2> QED
    BY <1>4, <2>1, <2>2
       DEF LatchInv, Steps, OneBootAtATime, NoAutomaticRetry, LatchOwner,
           ReviewedEnded, VolumeHeld, Working, Ended, Phases, Epoch, Holding,
           Unreleased
<1> QED BY <1>2, <1>3, <1>4 DEF CommandFails, RestoreAbsent

\* The containers, the host, the operator and the serving worker.
LEMMA OutsideSteps ==
  ASSUME LatchInv,
         \/ \E r \in Runs : \/ WorkerStep(r)
                            \/ \E k \in Jobs : JobExpires(r, k)
         \/ HostCrash \/ OperatorClears
         \/ ServeDelivers \/ ServeReports \/ ServeEnds \/ Tick
  PROVE  LatchInv'
<1> USE DEF storeVars, dockerVars, fileVars, statusVars, envVars
<1>1. ASSUME NEW r \in Runs, CatchupEnds(r) PROVE LatchInv'
  <2>1. CASE pc[r] = "catchup"
    <3>1. Proceeds(r) /\ UNCHANGED volume
      BY <1>1, <2>1 DEF CatchupEnds, Proceeds, Step, Go, Latched, Working, Phases,
                       Holding
    <3> QED BY <3>1, ProceedsKeepsLatch
  <2>2. CASE pc[r] # "catchup"
    BY <1>1, <2>2, StutterKeepsLatch DEF CatchupEnds
  <2> QED BY <2>1, <2>2
<1>2. ASSUME NEW r \in Runs, NEW k \in Jobs, JobExpires(r, k) PROVE LatchInv'
  <2>1. CASE k = "catchup" /\ pc[r] = "catchup"
    <3>1. Proceeds(r) /\ UNCHANGED volume
      BY <1>2, <2>1 DEF JobExpires, Proceeds, Go, Latched, Working, Holding
    <3> QED BY <3>1, ProceedsKeepsLatch
  <2>2. CASE ~(k = "catchup" /\ pc[r] = "catchup")
    BY <1>2, <2>2, StutterKeepsLatch DEF JobExpires
  <2> QED BY <2>1, <2>2
<1>3. ASSUME NEW r \in Runs, AppendMinute(r) PROVE LatchInv'
  BY <1>3, StutterKeepsLatch DEF AppendMinute
<1>4. CASE HostCrash
  BY <1>4 DEF HostCrash, LatchInv, Steps, OneBootAtATime, NoAutomaticRetry,
     LatchOwner, ReviewedEnded, VolumeHeld, Latched, Working, Ended, Phases,
     Epoch, Holding, Unreleased
<1>5. CASE OperatorClears
  BY <1>5, BootAssumption
     DEF OperatorClears, LatchExists, LatchInv, Steps, OneBootAtATime,
     NoAutomaticRetry, LatchOwner, ReviewedEnded, VolumeHeld, Latched, Working,
     Ended, Phases, Epoch, Holding, Unreleased
<1>6. CASE ServeDelivers BY <1>6, StutterKeepsLatch DEF ServeDelivers
<1>7. CASE ServeReports BY <1>7, StutterKeepsLatch DEF ServeReports
<1>8. CASE ServeEnds BY <1>8, StutterKeepsLatch DEF ServeEnds
<1>9. CASE Tick BY <1>9, StutterKeepsLatch DEF Tick
<1> QED BY <1>1, <1>2, <1>3, <1>4, <1>5, <1>6, <1>7, <1>8, <1>9 DEF WorkerStep

LEMMA NextLatch == LatchInv /\ [Next]_vars => LatchInv'
<1> SUFFICES ASSUME LatchInv, [Next]_vars PROVE LatchInv'
  OBVIOUS
<1>1. CASE UNCHANGED vars
  BY <1>1, StutterKeepsLatch DEF vars, fileVars, dockerVars
<1>2. ASSUME NEW r \in Runs, RunStep(r) PROVE LatchInv'
  BY <1>2, InnerSteps, ProceedsKeepsLatch, DoorSteps DEF RunStep
<1>3. ASSUME NEW r \in Runs, CommandFails(r) PROVE LatchInv'
  BY <1>3, CommandFailsKeepsLatch
<1>4. ASSUME NEW r \in Runs, Kill(r) PROVE LatchInv'
  BY <1>4, DoorSteps
<1> QED BY <1>1, <1>2, <1>3, <1>4, OutsideSteps DEF Next

LEMMA LatchAlways == Spec => []LatchInv
BY InitLatch, NextLatch, PTL DEF Spec

\* Whatever number of executions of main() are started, killed and reviewed,
\* only the one whose bytes are in boot.active works on the epoch.
THEOREM BootIsExclusive == Spec => []OneBootAtATime
<1>1. LatchInv => OneBootAtATime BY DEF LatchInv
<1> QED BY <1>1, LatchAlways, PTL

\* No failure, kill or loss of the host frees the latch without a review.
THEOREM RetryNeedsReview == Spec => []NoAutomaticRetry
<1>1. LatchInv => NoAutomaticRetry BY DEF LatchInv
<1> QED BY <1>1, LatchAlways, PTL

\* prepare_boot_restore_volume and remove_owned_clone of one run never touch
\* the restore volume another run left behind.
THEOREM EvidenceSurvives == Spec => EvidenceIsKept
<1> DEFINE Kept == volume # NoRun /\ volume' # volume
                     => pc[volume] = "unclone" \/ reviewed' # reviewed
<1>1. LatchInv /\ [Next]_vars => [Kept]_vars
  <2> SUFFICES ASSUME LatchInv, Next, volume # NoRun, volume' # volume
               PROVE  pc[volume] = "unclone" \/ reviewed' # reviewed
    OBVIOUS
  <2> USE DEF storeVars, dockerVars, fileVars, statusVars, envVars
  <2>1. ASSUME NEW r \in Runs, RunStep(r) PROVE pc[volume] = "unclone"
    <3>1. CASE RemoveClone(r)
      <4>1. pc[r] = "unclone" BY <3>1 DEF RemoveClone, Step
      <4> QED BY <4>1 DEF LatchInv, VolumeHeld, Holding
    <3>2. ~PrepareVolume(r) BY DEF PrepareVolume, RestoreAbsent
    <3>3. ~(Start(r) \/ CreateLatch(r) \/ ReleaseLatch(r) \/ Cleanup(r))
      BY DEF Start, CreateLatch, ReleaseLatch, Cleanup
    <3> QED BY <2>1, <3>1, <3>2, <3>3, InnerSteps DEF RunStep
  <2>2. ASSUME NEW r \in Runs, CommandFails(r) PROVE pc[volume] = "unclone"
    <3>1. pc[r] = "unclone" BY <2>2 DEF CommandFails, RestoreAbsent
    <3> QED BY <3>1 DEF LatchInv, VolumeHeld, Holding
  <2>3. CASE OperatorClears
    BY <2>3 DEF OperatorClears, LatchExists, LatchInv, ReviewedEnded
  <2>4. ASSUME NEW r \in Runs,
               WorkerStep(r) \/ Kill(r) \/ \E k \in Jobs : JobExpires(r, k)
        PROVE  FALSE
    BY <2>4 DEF WorkerStep, AppendMinute, CatchupEnds, Kill, JobExpires
  <2>5. ~(HostCrash \/ ServeDelivers \/ ServeReports \/ ServeEnds \/ Tick)
    BY DEF HostCrash, ServeDelivers, ServeReports, ServeEnds, Tick
  <2> QED BY <2>1, <2>2, <2>3, <2>4, <2>5 DEF Next
<1>2. Spec => [][Kept]_vars BY <1>1, LatchAlways, PTL DEF Spec
<1> QED BY <1>2 DEF EvidenceIsKept

----------------------------------------------------------------------------
(***************************************************************************)
(* Where a run's backups stand.  The round counts verified backups; the    *)
(* second one is made once, after the first catch-up.                      *)
(***************************************************************************)
Opening == {"idle", "create", "admit", "previous", "recheck", "pg", "redis", "before"}
Saving == {"volume", "dump", "clone", "verify"}
Filling == {"current", "catchup", "after"}
Launching == {"redisState", "ready", "serve"}
Closing == {"receipt", "release", "passed", "cleanup", "failed", "killed"}

Rounds(r) == /\ pc[r] \in Opening => mem[r].round = 0
             /\ pc[r] \in Saving \union {"unclone"} => mem[r].round \in {0, 1}
             /\ pc[r] \in Filling => mem[r].round \in {1, 2}
             /\ pc[r] \in Launching \union {"wait"} => mem[r].round = 2

\* The queue never overtakes the audit chain, and no status does.
BootTypeInv == /\ TypeOK
               /\ queue <= audit /\ status.mark <= audit
               /\ \A r \in Runs : Rounds(r)

(***************************************************************************)
(* From the recheck to docker start serve is down and nobody but the run   *)
(* itself has a container; from the first boot-state on the queue is that  *)
(* of before.                                                              *)
(***************************************************************************)
Backed == Saving \union {"unclone"} \union Filling \union Launching
Quiet == {"pg", "redis", "before"} \union Backed

OwnJobs(r) == {<<r, k>> : k \in IF pc[r] \in {"verify", "unclone"} THEN {"clone"}
                                ELSE IF pc[r] = "catchup" THEN {"catchup"} ELSE {}}

QuietInv(r) == pc[r] \in Quiet => "serve" \notin up /\ live \subseteq OwnJobs(r)

BackedInv(r) == /\ pc[r] \in Backed => /\ queue = mem[r].before.queue
                                       /\ mem[r].before.audit <= audit
                                       /\ delivery # "open"
                /\ pc[r] \in {"ready", "serve"} => delivery = "settled"

FirstBackup(r) == Len(mem[r].backups) = 1 /\ mem[r].backups[1] = mem[r].before

BothBackups(r) == /\ Len(mem[r].backups) = 2 /\ mem[r].backups[1] = mem[r].before
                  /\ mem[r].before.audit <= mem[r].backups[2].audit

BackupInv(r) ==
  /\ pc[r] \in Opening => mem[r].backups = <<>>
  /\ pc[r] \in Saving =>
       \/ mem[r].round = 0 /\ mem[r].backups = <<>> /\ audit = mem[r].before.audit
       \/ mem[r].round = 1 /\ FirstBackup(r) /\ Snapshot = mem[r].after
  /\ pc[r] = "unclone" =>
       \/ mem[r].round = 0 /\ FirstBackup(r)
       \/ mem[r].round = 1 /\ BothBackups(r) /\ mem[r].backups[2].audit <= audit
  /\ pc[r] \in Filling =>
       \/ mem[r].round = 1 /\ FirstBackup(r)
       \/ mem[r].round = 2 /\ BothBackups(r) /\ mem[r].backups[2].audit <= audit
  /\ pc[r] \in Launching =>
       /\ BothBackups(r) /\ mem[r].backups[2].audit <= mem[r].after.audit
       /\ Snapshot = mem[r].after

\* While the run waits, serve alone moves both the audit and the queue.
ServedInv(r) == pc[r] = "wait" =>
                  /\ live = {}
                  /\ queue - mem[r].before.queue = audit - mem[r].after.audit

IntentInv(r) == /\ pc[r] \in {"serve", "wait"} => mem[r].intent
                /\ pc[r] \in {"receipt", "release"} /\ mem[r].round > 0 => mem[r].intent
                /\ pc[r] = "cleanup" /\ mem[r].round > 0 /\ "serve" \in up
                     => mem[r].intent

EndInv(r) == /\ mem[r].result = "pass" => /\ pc[r] \in Closing
                                          /\ queue > mem[r].before.queue
             /\ pc[r] = "failed" /\ mem[r].round > 0 /\ latch = r
                  => "serve" \notin up \/ "serve" \in mem[r].left

RunInv(r) == /\ QuietInv(r) /\ BackedInv(r) /\ BackupInv(r)
             /\ ServedInv(r) /\ IntentInv(r) /\ EndInv(r)

BootInv == ServeRunsAlone /\ \A r \in Runs : RunInv(r)

(***************************************************************************)
(* Types.                                                                  *)
(***************************************************************************)
Memory == [seen : SUBSET Epoch, round : 0..2, goal : Minutes,
           intent : BOOLEAN, before : Snapshots,
           current : Snapshots, after : Snapshots,
           dump : Snapshots, backups : Seq(Snapshots),
           result : {"none", "already", "pass"},
           reason : {"none", "stale"},
           left : SUBSET (Jobs \union {"serve"})]

RunTypes == pc \in [Runs -> Steps] /\ mem \in [Runs -> Memory]

LEMMA TypesOfRuns == TypeOK => RunTypes
BY DEF TypeOK, RunTypes, Memory, Steps

\* A run moves and the others stay.
LEMMA GoMoves ==
  ASSUME RunTypes, NEW r \in Runs, NEW p, NEW m, Go(r, p, m)
  PROVE  /\ pc'[r] = p /\ mem'[r] = m
         /\ \A q \in Runs : q # r => pc'[q] = pc[q] /\ mem'[q] = mem[q]
         /\ p \in Steps /\ m \in Memory => RunTypes'
BY DEF RunTypes, Go

\* What a step of a run may not do to the types: it moves the run's round
\* along its steps and leaves the chains alone.
LEMMA GoTypes ==
  ASSUME BootTypeInv, NEW r \in Runs, NEW p \in Steps, NEW m \in Memory, Go(r, p, m),
         up' \subseteq Epoch, live' \subseteq Runs \X Jobs,
         latch' \in Runs \union {NoRun}, volume' \in Runs \union {NoRun},
         receipts' \subseteq Runs, rewritten' \subseteq Runs, faults' \in 0..MaxFaults,
         UNCHANGED <<storeVars, status, reviewed, now>>,
         /\ p \in Opening => m.round = 0
         /\ p \in Saving \union {"unclone"} => m.round \in {0, 1}
         /\ p \in Filling => m.round \in {1, 2}
         /\ p \in Launching \union {"wait"} => m.round = 2
  PROVE  BootTypeInv'
<1>1. RunTypes
  BY TypesOfRuns DEF BootTypeInv
<1>2. RunTypes'
  BY <1>1, GoMoves
<1>3. TypeOK'
  BY <1>2 DEF BootTypeInv, TypeOK, RunTypes, Memory, Steps, storeVars
<1>4. \A q \in Runs : Rounds(q)'
  BY <1>1, GoMoves DEF BootTypeInv, Rounds
<1> QED BY <1>3, <1>4 DEF BootTypeInv, storeVars

\* The same for a step of run_boot: it goes on with m or turns to the cleanup.
LEMMA StepTypes ==
  ASSUME BootTypeInv, NEW r \in Runs, NEW from, NEW ok, NEW to \in Steps, NEW m \in Memory,
         Step(r, from, ok, to, m),
         up' \subseteq Epoch, live' \subseteq Runs \X Jobs,
         latch' \in Runs \union {NoRun}, volume' \in Runs \union {NoRun},
         receipts' \subseteq Runs, rewritten' \subseteq Runs,
         UNCHANGED <<storeVars, status, reviewed, envVars>>,
         /\ to \in Opening => m.round = 0
         /\ to \in Saving \union {"unclone"} => m.round \in {0, 1}
         /\ to \in Filling => m.round \in {1, 2}
         /\ to \in Launching \union {"wait"} => m.round = 2
  PROVE  BootTypeInv'
<1>1. mem[r] \in Memory /\ faults' \in 0..MaxFaults /\ UNCHANGED now
  BY TypesOfRuns DEF BootTypeInv, RunTypes, TypeOK, envVars
<1>2. CASE ok
  BY <1>1, <1>2, GoTypes DEF Step
<1>3. CASE ~ ok
  <2>1. Go(r, "cleanup", mem[r])
    BY <1>3 DEF Step
  <2>2. "cleanup" \in Steps
        /\ "cleanup" \notin Opening \union Saving \union Filling \union Launching
                            \union {"unclone", "wait"}
    BY DEF Steps, Opening, Saving, Filling, Launching
  <2> QED BY <1>1, <2>1, <2>2, GoTypes
<1> QED BY <1>2, <1>3

LEMMA RunStepTypes ==
  ASSUME BootTypeInv, NEW r \in Runs, RunStep(r)
  PROVE  BootTypeInv'
<1>0. /\ up \subseteq Epoch /\ live \subseteq Runs \X Jobs
      /\ latch \in Runs \union {NoRun} /\ volume \in Runs \union {NoRun}
      /\ receipts \subseteq Runs /\ rewritten \subseteq Runs /\ faults \in 0..MaxFaults
      /\ mem[r] \in Memory /\ Rounds(r) /\ Snapshot \in Snapshots /\ now \in Minutes
  BY TypesOfRuns DEF BootTypeInv, TypeOK, RunTypes, Snapshot, Snapshots
<1> USE DEF storeVars, dockerVars, fileVars, statusVars, envVars, Steps, Working, Ended,
            Phases, Epoch, Opening, Saving, Filling, Launching, Rounds
<1>1. CASE Start(r)
  <2>1. PICK p \in {"create", "refused"} : Go(r, p, mem[r])
    BY <1>1 DEF Start
  <2>2. pc[r] = "idle" /\ UNCHANGED <<storeVars, dockerVars, fileVars, statusVars, envVars>>
    BY <1>1 DEF Start
  <2> QED BY <1>0, <2>1, <2>2, GoTypes
<1>2. CASE CreateLatch(r)
  <2>1. /\ pc[r] = "create" /\ latch' \in Runs \union {NoRun}
        /\ UNCHANGED <<storeVars, dockerVars, receipts, reviewed, statusVars, envVars>>
    BY <1>0, <1>2 DEF CreateLatch
  <2>2. PICK p \in {"admit", "refused"} : Go(r, p, mem[r])
    BY <1>2 DEF CreateLatch
  <2> QED BY <1>0, <2>1, <2>2, GoTypes
<1>3. CASE Admit(r)
  <2>1. [mem[r] EXCEPT !.seen = up] \in Memory
        /\ [mem[r] EXCEPT !.seen = up].round = mem[r].round
    BY <1>0 DEF Memory
  <2> QED BY <1>0, <1>3, <2>1, StepTypes DEF Admit, Step
<1>4. CASE Previous(r)
  <2>1. [mem[r] EXCEPT !.result = "already"] \in Memory
    BY <1>0 DEF Memory
  <2> QED BY <1>0, <1>4, <2>1, StepTypes DEF Previous, Step
<1>5. CASE Recheck(r) \/ RedisState(r) \/ WaitTimesOut(r)
  <2>1. /\ UNCHANGED <<storeVars, dockerVars, fileVars, statusVars, envVars>>
        /\ RedisState(r) => pc[r] = "redisState"
        /\ Recheck(r) => pc[r] = "recheck"
    BY <1>5 DEF Recheck, RedisState, WaitTimesOut, Step
  <2> QED BY <1>0, <1>5, <2>1, StepTypes DEF Recheck, RedisState, WaitTimesOut
<1>6. CASE StartData(r) \/ StartServe(r)
  BY <1>0, <1>6, StepTypes DEF StartData, StartServe, Step, Epoch
<1>7. CASE Before(r)
  <2>1. [mem[r] EXCEPT !.before = Snapshot] \in Memory
        /\ [mem[r] EXCEPT !.before = Snapshot].round = mem[r].round
    BY <1>0 DEF Memory
  <2> QED BY <1>0, <1>7, <2>1, StepTypes DEF Before, Step
<1>8. CASE PrepareVolume(r) \/ Restore(r)
  <2>1. pc[r] \in {"volume", "clone"} /\ mem[r].round \in {0, 1}
    BY <1>0, <1>8 DEF PrepareVolume, Restore, Step
  <2>2. live' \subseteq live \union {<<r, "clone">>} /\ volume' \in {volume, r}
    BY <1>8 DEF PrepareVolume, Restore
  <2>3. live' \subseteq Runs \X Jobs /\ volume' \in Runs \union {NoRun}
    BY <1>0, <2>2 DEF Jobs
  <2> QED BY <1>0, <1>8, <2>1, <2>3, StepTypes DEF PrepareVolume, Restore
<1>9. CASE Dump(r)
  <2>1. [mem[r] EXCEPT !.dump = Snapshot] \in Memory
        /\ [mem[r] EXCEPT !.dump = Snapshot].round = mem[r].round
    BY <1>0 DEF Memory
  <2> QED BY <1>0, <1>9, <2>1, StepTypes DEF Dump, Step
<1>10. CASE Verify(r)
  <2>0. mem[r].dump \in Snapshots /\ mem[r].backups \in Seq(Snapshots)
    BY <1>0 DEF Memory
  <2>1. Append(mem[r].backups, mem[r].dump) \in Seq(Snapshots)
    BY <2>0
  <2>2. [mem[r] EXCEPT !.backups = Append(@, mem[r].dump)] \in Memory
        /\ [mem[r] EXCEPT !.backups = Append(@, mem[r].dump)].round = mem[r].round
    BY <1>0, <2>1 DEF Memory
  <2>3. pc[r] = "verify"
    BY <1>10 DEF Verify, Step
  <2> QED BY <1>0, <1>10, <2>2, <2>3, StepTypes DEF Verify
<1>11. CASE RemoveClone(r)
  <2>1. pc[r] = "unclone" /\ mem[r].round \in {0, 1}
    BY <1>0, <1>11 DEF RemoveClone, Step
  <2>2. [mem[r] EXCEPT !.round = @ + 1] \in Memory
        /\ [mem[r] EXCEPT !.round = @ + 1].round \in {1, 2}
    BY <1>0, <2>1 DEF Memory
  <2> QED BY <1>0, <1>11, <2>2, StepTypes DEF RemoveClone
<1>12. CASE Current(r)
  <2>1. [mem[r] EXCEPT !.current = Snapshot, !.goal = now] \in Memory
        /\ [mem[r] EXCEPT !.current = Snapshot, !.goal = now].round = mem[r].round
    BY <1>0 DEF Memory
  <2>2. live' \subseteq Runs \X Jobs
    BY <1>0, <1>12 DEF Current, Jobs
  <2>3. PICK to \in {"after", "catchup"} :
          Step(r, "current", BootStateOK /\ WithinGapCap, to,
               [mem[r] EXCEPT !.current = Snapshot, !.goal = now])
    BY <1>12 DEF Current
  <2>4. pc[r] = "current" /\ UNCHANGED <<storeVars, up, volume, fileVars, statusVars, envVars>>
    BY <1>12 DEF Current, Step
  <2> QED BY <1>0, <2>1, <2>2, <2>3, <2>4, StepTypes
<1>13. CASE After(r)
  <2>1. [mem[r] EXCEPT !.after = Snapshot] \in Memory
        /\ [mem[r] EXCEPT !.after = Snapshot].round = mem[r].round
    BY <1>0 DEF Memory
  <2>2. PICK to \in {"volume", "redisState"} :
          /\ to = "volume" <=> mem[r].round = 1
          /\ Step(r, "after", BootStateOK /\ Preserved(r), to,
                  [mem[r] EXCEPT !.after = Snapshot])
    BY <1>13 DEF After
  <2>3. pc[r] = "after" /\ UNCHANGED <<storeVars, dockerVars, fileVars, statusVars, envVars>>
    BY <1>13 DEF After, Step
  <2> QED BY <1>0, <2>1, <2>2, <2>3, StepTypes
<1>14. CASE Ready(r)
  <2>1. [mem[r] EXCEPT !.intent = TRUE] \in Memory
        /\ [mem[r] EXCEPT !.intent = TRUE].round = mem[r].round
    BY <1>0 DEF Memory
  <2>2. pc[r] = "ready"
    BY <1>14 DEF Ready, Step
  <2> QED BY <1>0, <1>14, <2>1, <2>2, StepTypes DEF Ready
<1>15. CASE Poll(r)
  <2>1. /\ [mem[r] EXCEPT !.result = "pass"] \in Memory
        /\ [mem[r] EXCEPT !.reason = "stale"] \in Memory
    BY <1>0 DEF Memory
  <2>2. UNCHANGED <<storeVars, dockerVars, fileVars, statusVars, envVars>>
    BY <1>15 DEF Poll
  <2>3. \/ \E m \in Memory : Go(r, "cleanup", m)
        \/ Step(r, "wait", NoOtherProcess /\ up = Epoch, "receipt",
                [mem[r] EXCEPT !.result = "pass"])
    BY <1>0, <1>15, <2>1 DEF Poll
  <2> QED BY <1>0, <2>1, <2>2, <2>3, StepTypes, GoTypes
<1>16. CASE SaveReceipt(r) \/ ReleaseLatch(r)
  BY <1>0, <1>16, StepTypes DEF SaveReceipt, ReleaseLatch
<1>17. CASE Cleanup(r)
  <2>1. PICK left \in SUBSET Candidates(r) :
          /\ faults' \in {faults, faults + 1} /\ (faults' # faults => faults < MaxFaults)
          /\ live' \subseteq live /\ up' \subseteq up
          /\ Go(r, "failed", [mem[r] EXCEPT !.left = left])
    BY <1>17 DEF Cleanup
  <2>2. left \subseteq Jobs \union {"serve"}
    BY DEF Candidates
  <2>3. [mem[r] EXCEPT !.left = left] \in Memory
    BY <1>0, <2>2 DEF Memory
  <2>4. faults' \in 0..MaxFaults
    BY <1>0, <2>1, BootAssumption
  <2>5. UNCHANGED <<storeVars, volume, fileVars, statusVars, now>>
    BY <1>17 DEF Cleanup
  <2> QED BY <1>0, <2>1, <2>3, <2>4, <2>5, GoTypes
<1> QED BY <1>1, <1>2, <1>3, <1>4, <1>5, <1>6, <1>7, <1>8, <1>9, <1>10, <1>11, <1>12,
           <1>13, <1>14, <1>15, <1>16, <1>17, RunStep(r) DEF RunStep

LEMMA NextTypes == BootTypeInv /\ [Next]_vars => BootTypeInv'
<1> SUFFICES ASSUME BootTypeInv, [Next]_vars PROVE BootTypeInv'
  OBVIOUS
<1>0. /\ up \subseteq Epoch /\ live \subseteq Runs \X Jobs
      /\ latch \in Runs \union {NoRun} /\ volume \in Runs \union {NoRun}
      /\ receipts \subseteq Runs /\ rewritten \subseteq Runs /\ reviewed \subseteq Runs
      /\ faults \in 0..MaxFaults /\ now \in 0..MaxMinute
      /\ audit \in 0..MaxMinute /\ queue \in 0..MaxMinute
      /\ status \in [state : {"RUNNING", "PAUSED", "FAILED"}, at : Minutes, mark : Minutes]
      /\ status.mark \in 0..MaxMinute /\ queue <= audit /\ status.mark <= audit
      /\ RunTypes /\ \A r \in Runs : Rounds(r)
  BY TypesOfRuns DEF BootTypeInv, TypeOK, Minutes
<1> USE DEF storeVars, dockerVars, fileVars, statusVars, envVars
<1>1. ASSUME UNCHANGED <<pc, mem>>,
             up' \subseteq Epoch, live' \subseteq Runs \X Jobs,
             latch' \in Runs \union {NoRun}, volume' \in Runs \union {NoRun},
             receipts' \subseteq Runs, rewritten' \subseteq Runs, reviewed' \subseteq Runs,
             faults' \in 0..MaxFaults, now' \in 0..MaxMinute,
             audit' \in 0..MaxMinute, queue' \in 0..MaxMinute,
             delivery' \in {"open", "unacked", "settled"},
             status' \in [state : {"RUNNING", "PAUSED", "FAILED"},
                          at : Minutes, mark : Minutes],
             queue' <= audit', status'.mark <= audit'
      PROVE  BootTypeInv'
  <2>1. TypeOK'
    BY <1>1 DEF BootTypeInv, TypeOK, Minutes
  <2> QED BY <1>1, <2>1 DEF BootTypeInv, Rounds
<1>2. delivery \in {"open", "unacked", "settled"}
  BY DEF BootTypeInv, TypeOK
<1>3. ASSUME NEW r \in Runs, RunStep(r) PROVE BootTypeInv'
  BY <1>3, RunStepTypes
<1>4. ASSUME NEW r \in Runs, NEW p \in {"cleanup", "killed", "refused"},
             Go(r, p, mem[r]), UNCHANGED <<storeVars, fileVars, statusVars, now>>,
             up' \subseteq Epoch, live' \subseteq Runs \X Jobs,
             volume' \in Runs \union {NoRun}, faults' \in 0..MaxFaults
      PROVE  BootTypeInv'
  <2>1. mem[r] \in Memory
    BY <1>0 DEF RunTypes
  <2>2. p \in Steps /\ p \notin Opening \union Saving \union Filling \union Launching
                               \union {"unclone", "wait"}
    BY DEF Steps, Ended, Opening, Saving, Filling, Launching
  <2> QED BY <1>0, <1>4, <2>1, <2>2, GoTypes
<1>5. ASSUME NEW r \in Runs, AppendMinute(r) PROVE BootTypeInv'
  <2>1. mem[r].goal \in 0..MaxMinute
    BY <1>0 DEF RunTypes, Memory, Minutes
  <2>2. /\ audit' \in 0..MaxMinute /\ queue' <= audit' /\ status'.mark <= audit'
        /\ UNCHANGED <<pc, mem, queue, delivery, dockerVars, fileVars, statusVars, envVars>>
    BY <1>0, <1>5, <2>1, BootAssumption DEF AppendMinute
  <2> QED BY <1>0, <1>1, <1>2, <2>2
<1>6. ASSUME NEW r \in Runs, CatchupEnds(r) PROVE BootTypeInv'
  <2>1. live' \subseteq Runs \X Jobs
        /\ UNCHANGED <<storeVars, up, volume, fileVars, statusVars, envVars>>
    BY <1>0, <1>6 DEF CatchupEnds
  <2>2. CASE pc[r] = "catchup"
    <3>1. Step(r, "catchup", CatchupExact(r), "after", mem[r])
      BY <1>6, <2>2 DEF CatchupEnds
    <3>2. "after" \in Steps /\ mem[r] \in Memory /\ mem[r].round \in {1, 2}
      BY <1>0, <2>2 DEF Steps, Working, Phases, RunTypes, Rounds, Filling
    <3>3. "after" \notin Opening \union Saving \union Launching \union {"unclone", "wait"}
      BY DEF Opening, Saving, Launching
    <3> QED BY <1>0, <2>1, <3>1, <3>2, <3>3, StepTypes
  <2>3. CASE pc[r] # "catchup"
    BY <1>0, <1>1, <1>2, <1>6, <2>1, <2>3 DEF CatchupEnds
  <2> QED BY <2>2, <2>3
<1>7. ASSUME NEW r \in Runs, CommandFails(r) PROVE BootTypeInv'
  <2>1. /\ Go(r, "cleanup", mem[r]) /\ faults' \in 0..MaxFaults
        /\ UNCHANGED <<storeVars, fileVars, statusVars, now>>
    BY <1>0, <1>7, BootAssumption DEF CommandFails
  <2>2. /\ up' \subseteq Epoch /\ live' \subseteq Runs \X Jobs
        /\ volume' \in Runs \union {NoRun}
    BY <1>0, <1>7 DEF CommandFails, Jobs
  <2> QED BY <1>4, <2>1, <2>2
<1>8. ASSUME NEW r \in Runs, Kill(r) PROVE BootTypeInv'
  <2>1. \E p \in {"killed", "refused"} : Go(r, p, mem[r])
    BY <1>8 DEF Kill
  <2>2. faults' \in 0..MaxFaults /\ UNCHANGED <<storeVars, dockerVars, fileVars, statusVars, now>>
    BY <1>0, <1>8, BootAssumption DEF Kill
  <2> QED BY <1>0, <1>4, <2>1, <2>2
<1>9. ASSUME NEW r \in Runs, NEW k \in Jobs, JobExpires(r, k) PROVE BootTypeInv'
  <2>1. live' \subseteq Runs \X Jobs
        /\ UNCHANGED <<storeVars, up, volume, fileVars, statusVars, envVars>>
    BY <1>0, <1>9 DEF JobExpires
  <2>2. Go(r, "cleanup", mem[r]) \/ UNCHANGED <<pc, mem>>
    BY <1>9 DEF JobExpires
  <2> QED BY <1>0, <1>1, <1>2, <1>4, <2>1, <2>2
<1>10. CASE HostCrash
  <2>1. RunTypes' /\ mem' = mem
    BY <1>0, <1>10 DEF HostCrash, RunTypes, Steps, Ended
  <2>2. \A r \in Runs : pc'[r] = pc[r] \/ pc'[r] \in {"killed", "refused"}
    BY <1>0, <1>10 DEF HostCrash, RunTypes
  <2>3. \A r \in Runs : Rounds(r)'
    BY <1>0, <2>1, <2>2 DEF Rounds, Opening, Saving, Filling, Launching
  <2>4. TypeOK'
    <3>1. /\ up' = {} /\ live' = {} /\ faults' \in 0..MaxFaults
          /\ UNCHANGED <<storeVars, volume, fileVars, statusVars, now>>
      BY <1>0, <1>10, BootAssumption DEF HostCrash
    <3> QED BY <2>1, <3>1 DEF BootTypeInv, TypeOK, RunTypes, Memory, Steps
  <2> QED BY <1>10, <2>3, <2>4 DEF BootTypeInv, HostCrash
<1>11. CASE OperatorClears
  BY <1>0, <1>1, <1>2, <1>11 DEF OperatorClears, LatchExists
<1>12. CASE ServeDelivers
  <2>1. /\ audit' \in 0..MaxMinute /\ queue' \in 0..MaxMinute
        /\ queue' <= audit' /\ status'.mark <= audit'
        /\ delivery' \in {"open", "unacked", "settled"}
        /\ UNCHANGED <<pc, mem, dockerVars, fileVars, statusVars, envVars>>
    BY <1>0, <1>12, BootAssumption DEF ServeDelivers
  <2> QED BY <1>0, <1>1, <2>1
<1>13. CASE ServeReports
  <2>1. /\ status' \in [state : {"RUNNING", "PAUSED", "FAILED"}, at : Minutes, mark : Minutes]
        /\ status'.mark = audit
    BY <1>0, <1>13 DEF ServeReports, Minutes
  <2> QED BY <1>0, <1>1, <1>2, <1>13, <2>1 DEF ServeReports
<1>14. CASE ServeEnds
  <2>1. /\ status' \in [state : {"RUNNING", "PAUSED", "FAILED"}, at : Minutes, mark : Minutes]
        /\ status'.mark = status.mark
    BY <1>0, <1>14 DEF ServeEnds, Minutes
  <2> QED BY <1>0, <1>1, <1>2, <1>14, <2>1 DEF ServeEnds
<1>15. CASE Tick
  BY <1>0, <1>1, <1>2, <1>15, BootAssumption DEF Tick
<1>16. CASE UNCHANGED vars
  BY <1>0, <1>1, <1>2, <1>16 DEF vars
<1> QED BY <1>3, <1>5, <1>6, <1>7, <1>8, <1>9, <1>10, <1>11, <1>12, <1>13, <1>14, <1>15,
           <1>16 DEF Next, WorkerStep

LEMMA InitTypes == Init => BootTypeInv
<1> SUFFICES ASSUME Init PROVE BootTypeInv
  OBVIOUS
<1>1. NewRun \in Memory /\ NewRun.round = 0
  BY BootAssumption DEF NewRun, Memory, Minutes, Snapshots
<1>2. RunTypes /\ \A r \in Runs : pc[r] = "idle" /\ mem[r] = NewRun
  BY <1>1 DEF Init, RunTypes, Steps
<1>3. TypeOK
  BY <1>2, BootAssumption DEF Init, TypeOK, RunTypes, Memory, Steps, Minutes, Epoch
<1>4. \A r \in Runs : Rounds(r)
  BY <1>1, <1>2 DEF Rounds, Opening, Saving, Filling, Launching
<1> QED BY <1>3, <1>4 DEF BootTypeInv, Init

LEMMA TypesAlways == Spec => []BootTypeInv
BY InitTypes, NextTypes, PTL DEF Spec

\* The round counter stays within its two backups, and the queue never runs
\* ahead of the audit chain it is filled from.
THEOREM BootTypeCorrect == Spec => []TypeOK
<1>1. BootTypeInv => TypeOK BY DEF BootTypeInv
<1> QED BY <1>1, TypesAlways, PTL

(***************************************************************************)
(* The run at work is the only one that acts, so that a step of a run      *)
(* concerns its own part of BootInv and the ended runs' results.           *)
(***************************************************************************)
BootFacts == /\ RunTypes /\ live \subseteq Runs \X Jobs /\ up \subseteq Epoch
             /\ audit \in Nat /\ queue \in Nat /\ queue <= audit /\ now \in Nat
             /\ status.mark \in Nat /\ status.mark <= audit
             /\ \A r \in Runs : /\ Rounds(r) /\ pc[r] \in Steps /\ mem[r] \in Memory
                                /\ mem[r].before.queue \in Nat /\ mem[r].before.audit \in Nat
                                /\ mem[r].after.queue \in Nat /\ mem[r].after.audit \in Nat
                                /\ mem[r].round \in 0..2 /\ mem[r].goal \in Nat
                                /\ mem[r].intent \in BOOLEAN

LEMMA FactsOfTypes == ASSUME BootTypeInv PROVE BootFacts
<1>1. RunTypes
  BY TypesOfRuns DEF BootTypeInv
<1>2. ASSUME NEW r \in Runs
      PROVE  /\ pc[r] \in Steps /\ mem[r] \in Memory
             /\ mem[r].before \in Snapshots /\ mem[r].after \in Snapshots
             /\ mem[r].round \in 0..2 /\ mem[r].goal \in Nat /\ mem[r].intent \in BOOLEAN
  BY <1>1 DEF RunTypes, Memory, Minutes
<1>3. \A s \in Snapshots : s.audit \in Nat /\ s.queue \in Nat
  BY DEF Snapshots, Minutes
<1> QED BY <1>1, <1>2, <1>3 DEF BootTypeInv, TypeOK, BootFacts, Minutes

LEMMA OthersStay ==
  ASSUME BootFacts, LatchInv, BootInv, NEW r \in Runs, NEW q \in Runs, q # r, Latched(r),
         pc'[q] = pc[q], mem'[q] = mem[q], queue' \in Nat, queue <= queue',
         latch' \in {latch, NoRun}
  PROVE  RunInv(q)'
<1>1. latch = r /\ latch' # q
  BY BootAssumption DEF LatchInv, OneBootAtATime
<1>2. pc[q] \notin Working \union {"cleanup"}
  BY <1>1 DEF LatchInv, OneBootAtATime, Latched
<1>3. pc[q] \notin Quiet \union {"wait", "receipt", "release", "cleanup"}
  BY <1>2 DEF Working, Phases, Epoch, Quiet, Backed, Saving, Filling, Launching
<1>4. RunInv(q) /\ mem[q].before.queue \in Nat /\ queue \in Nat
  BY DEF BootInv, BootFacts
<1>5. QuietInv(q)' /\ BackedInv(q)' /\ ServedInv(q)' /\ IntentInv(q)'
  BY <1>3 DEF QuietInv, BackedInv, ServedInv, IntentInv, Quiet, Backed, Launching
<1>6. BackupInv(q)'
  BY <1>3, <1>4 DEF RunInv, BackupInv, Quiet, Backed
<1>7. EndInv(q)'
  BY <1>1, <1>4 DEF RunInv, EndInv
<1> QED BY <1>5, <1>6, <1>7 DEF RunInv

\* Turning to the cleanup: serve may be up only when its start was intended.
LEMMA ToCleanup ==
  ASSUME BootFacts, NEW r \in Runs, RunInv(r), Latched(r), pc'[r] = "cleanup",
         /\ mem'[r].round = mem[r].round /\ mem'[r].intent = mem[r].intent
         /\ mem'[r].before = mem[r].before /\ mem'[r].result = mem[r].result,
         "serve" \in up' => "serve" \in up \/ pc[r] = "serve",
         queue' = queue
  PROVE  RunInv(r)'
<1>1. QuietInv(r)' /\ BackedInv(r)' /\ ServedInv(r)' /\ BackupInv(r)'
  BY DEF QuietInv, BackedInv, ServedInv, BackupInv, Quiet, Backed, Opening, Saving,
         Filling, Launching
<1>2. IntentInv(r)'
  <2> SUFFICES ASSUME mem[r].round > 0, "serve" \in up' PROVE mem[r].intent
    BY DEF IntentInv
  <2>1. pc[r] \notin Opening
    BY DEF BootFacts, Rounds
  <2>2. pc[r] \in Quiet => pc[r] = "serve"
    BY DEF RunInv, QuietInv
  <2>3. pc[r] \in Working \union {"cleanup"}
    BY DEF Latched
  <2>4. pc[r] \in {"serve", "wait", "receipt", "release", "cleanup"}
    BY <2>1, <2>2, <2>3 DEF Working, Phases, Epoch, Opening, Quiet, Backed, Saving,
       Filling, Launching
  <2>5. pc[r] = "cleanup" => "serve" \in up
    OBVIOUS
  <2> QED BY <2>4, <2>5 DEF RunInv, IntentInv
<1>3. EndInv(r)'
  BY DEF RunInv, EndInv, Closing
<1> QED BY <1>1, <1>2, <1>3 DEF RunInv

\* A run that moves, all of whose shared state stays.
LEMMA RunMoves ==
  ASSUME BootFacts, LatchInv, BootInv, NEW r \in Runs, NEW p, NEW m, Go(r, p, m), Latched(r),
         queue' = queue, latch' \in {latch, NoRun}, RunInv(r)', ServeRunsAlone'
  PROVE  BootInv'
<1>1. \A q \in Runs : q # r => pc'[q] = pc[q] /\ mem'[q] = mem[q]
  BY GoMoves DEF BootFacts
<1>2. \A q \in Runs : q # r => RunInv(q)'
  BY <1>1, OthersStay DEF BootFacts
<1> QED BY <1>2 DEF BootInv

\* A step of run_boot that goes on or turns to the cleanup.
LEMMA StepMoves ==
  ASSUME BootFacts, LatchInv, BootInv, NEW r \in Runs, NEW from \in Working, NEW ok \in BOOLEAN,
         NEW to, NEW m, Step(r, from, ok, to, m),
         queue' = queue, latch' \in {latch, NoRun},
         "serve" \in up' => "serve" \in up \/ pc[r] = "serve",
         "serve" \in up' => live' = {},
         ok /\ pc'[r] = to /\ mem'[r] = m => RunInv(r)'
  PROVE  BootInv'
<1>1. Latched(r) /\ RunInv(r) /\ RunTypes
  BY DEF Step, Latched, BootInv, BootFacts
<1>2. ServeRunsAlone'
  BY DEF ServeRunsAlone
<1>3. CASE ok
  <2>1. Go(r, to, m) /\ pc'[r] = to /\ mem'[r] = m
    BY <1>1, <1>3, GoMoves DEF Step
  <2> QED BY <1>1, <1>2, <1>3, <2>1, RunMoves
<1>4. CASE ~ ok
  <2>1. Go(r, "cleanup", mem[r]) /\ pc'[r] = "cleanup" /\ mem'[r] = mem[r]
    BY <1>1, <1>4, GoMoves DEF Step
  <2>2. RunInv(r)'
    BY <1>1, <2>1, ToCleanup
  <2> QED BY <1>1, <1>2, <2>1, <2>2, RunMoves
<1> QED BY <1>3, <1>4

\* The steps before the first backup.
LEMMA OpeningMoves ==
  ASSUME BootFacts, LatchInv, BootInv, NEW r \in Runs,
         Admit(r) \/ Previous(r) \/ Recheck(r) \/ StartData(r) \/ Before(r)
  PROVE  BootInv'
<1>0. /\ RunInv(r) /\ mem[r] \in Memory /\ mem[r].round \in 0..2 /\ Rounds(r)
      /\ audit \in Nat /\ queue \in Nat /\ ServeRunsAlone
  BY DEF BootInv, BootFacts
<1> USE DEF storeVars, dockerVars, fileVars, statusVars, envVars
<1>1. /\ UNCHANGED <<audit, queue, delivery, live, latch>>
      /\ "serve" \in up' => "serve" \in up
      /\ "serve" \in up' => live' = {}
  BY <1>0 DEF Admit, Previous, Recheck, StartData, Before, ServeRunsAlone
<1>2. ASSUME pc[r] \in Opening, pc'[r] \in {"previous", "recheck", "receipt"},
             /\ mem'[r].round = mem[r].round /\ mem'[r].backups = mem[r].backups
             /\ mem'[r].result \in {mem[r].result, "already"}
      PROVE  RunInv(r)'
  BY <1>0, <1>1, <1>2 DEF RunInv, QuietInv, BackedInv, ServedInv, BackupInv, IntentInv,
     EndInv, Rounds, Quiet, Backed, Opening, Saving, Filling, Launching, Closing
<1>3. CASE Admit(r)
  <2>1. "admit" \in Working /\ NoOtherProcess \in BOOLEAN /\ pc[r] \in Opening
    BY <1>3 DEF Working, NoOtherProcess, Admit, Step, Opening
  <2>2. pc'[r] = "previous" /\ mem'[r] = [mem[r] EXCEPT !.seen = up] => RunInv(r)'
    BY <1>0, <1>2, <2>1 DEF Memory
  <2> QED BY <1>1, <1>3, <2>1, <2>2, StepMoves DEF Admit
<1>4. CASE Previous(r)
  <2>1. "previous" \in Working /\ Bootable(status) \in BOOLEAN /\ pc[r] \in Opening
        /\ (Bootable(status) /\ Fresh(status) /\ mem[r].seen = Epoch) \in BOOLEAN
    BY <1>4 DEF Working, Bootable, Fresh, Previous, Step, Opening
  <2>2. pc'[r] = "receipt" /\ mem'[r] = [mem[r] EXCEPT !.result = "already"] => RunInv(r)'
    BY <1>0, <1>2, <2>1 DEF Memory
  <2>3. pc'[r] = "recheck" /\ mem'[r] = mem[r] => RunInv(r)'
    BY <1>0, <1>2, <2>1
  <2> QED BY <1>1, <1>4, <2>1, <2>2, <2>3, StepMoves DEF Previous
<1>5. CASE Recheck(r)
  <2>1. "recheck" \in Working /\ OnlyDataRuns \in BOOLEAN /\ pc[r] = "recheck"
    BY <1>5 DEF Working, OnlyDataRuns, NoOtherProcess, Recheck, Step
  <2>2. OnlyDataRuns /\ pc'[r] = "pg" /\ mem'[r] = mem[r] => RunInv(r)'
    BY <1>0, <1>1, <1>5, <2>1 DEF Recheck, OnlyDataRuns, NoOtherProcess, RunInv, QuietInv,
       OwnJobs, BackedInv, ServedInv, BackupInv, IntentInv, EndInv, Rounds, Quiet, Backed,
       Opening, Saving, Filling, Launching, Closing
  <2> QED BY <1>1, <1>5, <2>1, <2>2, StepMoves DEF Recheck
<1>6. CASE StartData(r)
  <2>1. {"pg", "redis"} \subseteq Working
    BY DEF Working, Epoch
  <2>2. pc[r] \in {"pg", "redis"} /\ pc'[r] \in {"redis", "before"} /\ mem'[r] = mem[r]
          => RunInv(r)'
    BY <1>0, <1>1, <1>6 DEF RunInv, QuietInv, OwnJobs, BackedInv, ServedInv,
       BackupInv, IntentInv, EndInv, Rounds, Quiet, Backed, Opening, Saving, Filling,
       Launching, Closing
  <2>3. pc[r] \in {"pg", "redis"}
    BY <1>6 DEF StartData, Step
  <2> QED BY <1>1, <1>6, <2>1, <2>2, <2>3, StepMoves DEF StartData
<1>7. CASE Before(r)
  <2>1. "before" \in Working /\ BootStateOK \in BOOLEAN /\ pc[r] = "before"
    BY <1>7 DEF Working, Phases, BootStateOK, NoEpochWorkers, Before, Step
  <2>2. ASSUME BootStateOK, pc'[r] = "volume", mem'[r] = [mem[r] EXCEPT !.before = Snapshot]
        PROVE  RunInv(r)'
    <3>1. /\ mem'[r].before.audit = audit /\ mem'[r].before.queue = queue
          /\ mem'[r].round = mem[r].round /\ mem'[r].backups = mem[r].backups
          /\ mem'[r].result = mem[r].result
      BY <1>0, <2>2 DEF Memory, Snapshot
    <3> QED BY <1>0, <1>1, <2>1, <2>2, <3>1, <1>7 DEF Before, BootStateOK, RunInv, QuietInv,
       OwnJobs, BackedInv, ServedInv, BackupInv, IntentInv, EndInv, Rounds, Quiet, Backed,
       Opening, Saving, Filling, Launching, Closing
  <2> QED BY <1>1, <1>7, <2>1, <2>2, StepMoves DEF Before
<1> QED BY <1>3, <1>4, <1>5, <1>6, <1>7

LEMMA AppendedSecond ==
  ASSUME NEW S, NEW b \in Seq(S), NEW d \in S, Len(b) = 1
  PROVE  Len(Append(b, d)) = 2 /\ Append(b, d)[1] = b[1] /\ Append(b, d)[2] = d
<1>1. /\ Len(Append(b, d)) = Len(b) + 1 /\ Append(b, d)[Len(b) + 1] = d
      /\ \A i \in 1..Len(b) : Append(b, d)[i] = b[i]
  OBVIOUS
<1> QED BY <1>1

\* The steps of a backup.
LEMMA BackupMoves ==
  ASSUME BootFacts, LatchInv, BootInv, NEW r \in Runs,
         PrepareVolume(r) \/ Dump(r) \/ Restore(r) \/ Verify(r) \/ RemoveClone(r)
  PROVE  BootInv'
<1>0. /\ RunInv(r) /\ mem[r] \in Memory /\ mem[r].round \in 0..2 /\ Rounds(r)
      /\ audit \in Nat /\ queue \in Nat /\ ServeRunsAlone
      /\ mem[r].before.queue \in Nat /\ mem[r].before.audit \in Nat
      /\ mem[r].backups \in Seq(Snapshots) /\ mem[r].dump \in Snapshots
      /\ mem[r].before \in Snapshots /\ Snapshot \in [audit : Nat, queue : Nat]
  BY DEF BootInv, BootFacts, Memory, Snapshot
<1> USE DEF storeVars, dockerVars, fileVars, statusVars, envVars
<1>1. /\ UNCHANGED <<audit, queue, delivery, up, latch>>
      /\ pc[r] \in Saving \union {"unclone"}
      /\ pc[r] \in Working /\ pc[r] \in Quiet /\ pc[r] \in Backed
      /\ Snapshot' = Snapshot
  BY DEF PrepareVolume, Dump, Restore, Verify, RemoveClone, Step, Saving, Working, Phases,
     Quiet, Backed, Snapshot
<1>2. "serve" \notin up /\ live \subseteq OwnJobs(r)
  BY <1>0, <1>1 DEF RunInv, QuietInv
<1>3. /\ queue = mem[r].before.queue /\ mem[r].before.audit <= audit
      /\ delivery # "open" /\ mem[r].result # "pass"
  BY <1>0, <1>1 DEF RunInv, BackedInv, EndInv, Closing, Saving
<1>4. ASSUME pc'[r] \in Saving \union {"unclone", "current"},
             /\ live' \subseteq OwnJobs(r)'
             /\ mem'[r].before = mem[r].before /\ mem'[r].result = mem[r].result,
             BackupInv(r)'
      PROVE  RunInv(r)'
  BY <1>0, <1>1, <1>2, <1>3, <1>4 DEF RunInv, QuietInv, BackedInv, ServedInv,
     IntentInv, EndInv, Quiet, Backed, Saving, Filling, Launching
<1>5. ASSUME pc[r] \in Saving, pc'[r] \in Saving, mem'[r].round = mem[r].round,
             /\ mem'[r].backups = mem[r].backups /\ mem'[r].before = mem[r].before
             /\ mem'[r].after = mem[r].after
      PROVE  BackupInv(r)'
  BY <1>0, <1>1, <1>5 DEF RunInv, BackupInv, FirstBackup, Opening, Saving, Filling, Launching
<1>6. CASE PrepareVolume(r)
  <2>1. pc[r] = "volume" /\ live' = live /\ RestoreAbsent \in BOOLEAN /\ live = {}
    BY <1>2, <1>6 DEF PrepareVolume, Step, RestoreAbsent, OwnJobs
  <2>2. pc'[r] = "dump" /\ mem'[r] = mem[r] => RunInv(r)'
    BY <1>4, <1>5, <2>1 DEF Saving
  <2> QED BY <1>1, <1>2, <1>6, <2>1, <2>2, StepMoves DEF PrepareVolume
<1>7. CASE Dump(r)
  <2>1. pc[r] = "dump" /\ live' = live /\ live = {} /\ ("pg" \in up) \in BOOLEAN
    BY <1>2, <1>7 DEF Dump, Step, OwnJobs
  <2>2. pc'[r] = "clone" /\ mem'[r] = [mem[r] EXCEPT !.dump = Snapshot] => RunInv(r)'
    BY <1>0, <1>4, <1>5, <2>1 DEF Saving, Memory
  <2> QED BY <1>1, <1>2, <1>7, <2>1, <2>2, StepMoves DEF Dump
<1>8. CASE Restore(r)
  <2>1. pc[r] = "clone" /\ live' = {<<r, "clone">>}
    BY <1>2, <1>8 DEF Restore, Step, OwnJobs
  <2>2. pc'[r] = "verify" /\ mem'[r] = mem[r] => RunInv(r)'
    BY <1>4, <1>5, <2>1 DEF Saving, OwnJobs
  <2> QED BY <1>1, <1>2, <1>8, <2>1, <2>2, StepMoves DEF Restore
<1>9. CASE Verify(r)
  <2>1. pc[r] = "verify" /\ live' = live /\ RestoreVerified(r) \in BOOLEAN
    BY <1>9 DEF Verify, Step, RestoreVerified, BootStateOK, NoEpochWorkers
  <2>2. ASSUME RestoreVerified(r), pc'[r] = "unclone",
               mem'[r] = [mem[r] EXCEPT !.backups = Append(@, mem[r].dump)]
        PROVE  RunInv(r)'
    <3>1. /\ mem'[r].before = mem[r].before /\ mem'[r].result = mem[r].result
          /\ mem'[r].round = mem[r].round
          /\ mem'[r].backups = Append(mem[r].backups, mem[r].dump)
      BY <1>0, <2>2 DEF Memory
    <3>2. mem[r].dump = Snapshot /\ Snapshot = Seed(r)
      BY <2>2 DEF RestoreVerified
    <3>3. BackupInv(r)'
      <4>1. CASE mem[r].round = 0
        <5>1. mem[r].backups = <<>> /\ mem[r].dump = mem[r].before
          BY <1>0, <2>1, <3>2, <4>1 DEF RunInv, BackupInv, Saving, Seed
        <5>2. Len(mem'[r].backups) = 1 /\ mem'[r].backups[1] = mem[r].before
          BY <1>0, <3>1, <5>1
        <5> QED BY <2>2, <3>1, <4>1, <5>2 DEF BackupInv, FirstBackup, Opening, Saving,
                   Filling, Launching
      <4>2. CASE mem[r].round = 1
        <5>1. FirstBackup(r)
          BY <1>0, <2>1, <4>2 DEF RunInv, BackupInv, Saving
        <5>2. /\ Len(mem'[r].backups) = 2 /\ mem'[r].backups[1] = mem[r].before
              /\ mem'[r].backups[2] = Snapshot
          <6>1. /\ Len(mem[r].backups) = 1 /\ mem[r].backups[1] = mem[r].before
                /\ mem[r].backups \in Seq(Snapshots) /\ mem[r].dump \in Snapshots
            BY <1>0, <5>1 DEF FirstBackup
          <6> QED BY <3>1, <3>2, <6>1, AppendedSecond
        <5>3. mem'[r].backups[2].audit = audit
          BY <5>2 DEF Snapshot
        <5> QED BY <1>0, <1>1, <1>3, <2>2, <3>1, <4>2, <5>2, <5>3 DEF BackupInv,
                   BothBackups, Opening, Saving, Filling, Launching
      <4> QED BY <1>0, <2>1, <4>1, <4>2 DEF Rounds, Saving
    <3>4. live' \subseteq OwnJobs(r)'
      BY <1>2, <2>1, <2>2 DEF OwnJobs
    <3> QED BY <1>4, <2>2, <3>1, <3>3, <3>4
  <2> QED BY <1>1, <1>2, <1>9, <2>1, <2>2, StepMoves DEF Verify
<1>10. CASE RemoveClone(r)
  <2>1. pc[r] = "unclone" /\ live' = {} /\ mem[r].round \in {0, 1}
    BY <1>0, <1>2, <1>10 DEF RemoveClone, Step, OwnJobs, Rounds
  <2>2. ASSUME pc'[r] = "current", mem'[r] = [mem[r] EXCEPT !.round = @ + 1]
        PROVE  RunInv(r)'
    <3>1. /\ mem'[r].before = mem[r].before /\ mem'[r].result = mem[r].result
          /\ mem'[r].round = mem[r].round + 1 /\ mem'[r].backups = mem[r].backups
      BY <1>0, <2>1, <2>2 DEF Memory
    <3>2. BackupInv(r)'
      BY <1>0, <1>1, <2>1, <2>2, <3>1 DEF RunInv, BackupInv, FirstBackup, BothBackups,
         Opening, Saving, Filling, Launching
    <3> QED BY <1>4, <2>1, <2>2, <3>1, <3>2
  <2> QED BY <1>1, <1>2, <1>10, <2>1, <2>2, StepMoves DEF RemoveClone
<1> QED BY <1>6, <1>7, <1>8, <1>9, <1>10

\* Only the run itself can have the catch-up worker that appends or ends.
LEMMA OwnCatchup ==
  ASSUME BootInv, NEW r \in Runs, NEW q \in Runs, pc[q] \in Quiet, <<r, "catchup">> \in live
  PROVE  r = q /\ pc[q] = "catchup"
BY DEF BootInv, RunInv, QuietInv, OwnJobs

\* The catch-up loop.
LEMMA FillingMoves ==
  ASSUME BootFacts, LatchInv, BootInv, NEW r \in Runs,
         Current(r) \/ After(r) \/ (pc[r] = "catchup" /\ CatchupEnds(r))
  PROVE  BootInv'
<1>0. /\ RunInv(r) /\ mem[r] \in Memory /\ mem[r].round \in {1, 2} /\ Rounds(r)
      /\ audit \in Nat /\ queue \in Nat /\ ServeRunsAlone
      /\ mem[r].before.queue \in Nat /\ mem[r].before.audit \in Nat
  BY DEF BootInv, BootFacts, Current, After, Step, Rounds, Filling
<1> USE DEF storeVars, dockerVars, fileVars, statusVars, envVars
<1>1. /\ UNCHANGED <<audit, queue, delivery, up, latch>>
      /\ pc[r] \in Filling
      /\ pc[r] \in Working /\ pc[r] \in Quiet /\ pc[r] \in Backed
      /\ Snapshot' = Snapshot
  BY DEF Current, After, CatchupEnds, Step, Filling, Working, Phases, Quiet, Backed, Snapshot
<1>2. "serve" \notin up /\ live \subseteq OwnJobs(r)
  BY <1>0, <1>1 DEF RunInv, QuietInv
<1>3. /\ queue = mem[r].before.queue /\ mem[r].before.audit <= audit
      /\ delivery # "open" /\ mem[r].result # "pass"
  BY <1>0, <1>1 DEF RunInv, BackedInv, EndInv, Closing, Filling
<1>4. ASSUME pc'[r] \in Filling \union {"volume", "redisState"},
             /\ live' \subseteq OwnJobs(r)'
             /\ mem'[r].before = mem[r].before /\ mem'[r].result = mem[r].result,
             BackupInv(r)'
      PROVE  RunInv(r)'
  BY <1>0, <1>1, <1>2, <1>3, <1>4 DEF RunInv, QuietInv, BackedInv, ServedInv,
     IntentInv, EndInv, Quiet, Backed, Saving, Filling, Launching
<1>5. ASSUME pc'[r] \in Filling, mem'[r].round = mem[r].round,
             mem'[r].backups = mem[r].backups /\ mem'[r].before = mem[r].before
      PROVE  BackupInv(r)'
  BY <1>0, <1>1, <1>5 DEF RunInv, BackupInv, FirstBackup, BothBackups, Opening, Saving,
     Filling, Launching
<1>6. CASE Current(r)
  <2> DEFINE ok == BootStateOK /\ WithinGapCap
             m == [mem[r] EXCEPT !.current = Snapshot, !.goal = now]
  <2>1. pc[r] = "current" /\ ok \in BOOLEAN /\ live = {}
    BY <1>2, <1>6 DEF Current, Step, BootStateOK, NoEpochWorkers, WithinGapCap, OwnJobs
  <2>2. PICK to \in {"after", "catchup"} :
          /\ to = "after" <=> now = audit
          /\ Step(r, "current", ok, to, m)
    BY <1>6 DEF Current
  <2>3. live' = IF ok /\ to = "catchup" THEN {<<r, "catchup">>} ELSE {}
    BY <1>6, <2>1, <2>2 DEF Current
  <2>4. /\ m.round = mem[r].round /\ m.backups = mem[r].backups /\ m.before = mem[r].before
        /\ m.result = mem[r].result
    BY <1>0 DEF Memory
  <2>5. ok /\ pc'[r] = to /\ mem'[r] = m => RunInv(r)'
    <3> SUFFICES ASSUME ok, pc'[r] = to, mem'[r] = m PROVE RunInv(r)'
      OBVIOUS
    <3>1. live' \subseteq OwnJobs(r)'
      BY <2>2, <2>3 DEF OwnJobs
    <3> HIDE DEF m, ok
    <3> QED BY <1>4, <1>5, <2>2, <2>4, <3>1 DEF Filling
  <2> HIDE DEF m, ok
  <2> QED BY <1>1, <1>2, <2>1, <2>2, <2>5, StepMoves
<1>7. CASE After(r)
  <2> DEFINE ok == BootStateOK /\ Preserved(r)
             m == [mem[r] EXCEPT !.after = Snapshot]
  <2>1. pc[r] = "after" /\ ok \in BOOLEAN /\ live' = live /\ live = {}
    BY <1>2, <1>7 DEF After, Step, BootStateOK, NoEpochWorkers, Preserved, OwnJobs
  <2>2. PICK to \in {"volume", "redisState"} :
          /\ to = "volume" <=> mem[r].round = 1
          /\ Step(r, "after", ok, to, m)
    BY <1>7 DEF After
  <2>3. /\ m.round = mem[r].round /\ m.backups = mem[r].backups /\ m.before = mem[r].before
        /\ m.result = mem[r].result /\ m.after = Snapshot /\ m.after.audit = audit
    BY <1>0 DEF Memory, Snapshot
  <2>4. ok /\ pc'[r] = to /\ mem'[r] = m => RunInv(r)'
    <3> SUFFICES ASSUME pc'[r] = to, mem'[r] = m PROVE RunInv(r)'
      OBVIOUS
    <3> HIDE DEF m, ok
    <3>1. BackupInv(r)'
      BY <1>0, <1>1, <2>2, <2>3 DEF RunInv, BackupInv, FirstBackup, BothBackups, Opening,
         Saving, Filling, Launching
    <3> QED BY <1>4, <2>1, <2>2, <2>3, <3>1
  <2> HIDE DEF m, ok
  <2> QED BY <1>1, <1>2, <2>1, <2>2, <2>4, StepMoves
<1>8. CASE pc[r] = "catchup" /\ CatchupEnds(r)
  <2>1. Step(r, "catchup", CatchupExact(r), "after", mem[r]) /\ live' = {}
    BY <1>2, <1>8 DEF CatchupEnds, OwnJobs
  <2>2. CatchupExact(r) \in BOOLEAN
    BY DEF CatchupExact
  <2>3. pc'[r] = "after" /\ mem'[r] = mem[r] => RunInv(r)'
    BY <1>4, <1>5, <2>1 DEF Filling
  <2> QED BY <1>1, <1>2, <1>8, <2>1, <2>2, <2>3, StepMoves
<1> QED BY <1>6, <1>7, <1>8

\* From the Redis check to the start of serve.
LEMMA LaunchingMoves ==
  ASSUME BootFacts, LatchInv, BootInv, NEW r \in Runs,
         RedisState(r) \/ Ready(r) \/ StartServe(r)
  PROVE  BootInv'
<1>0. /\ RunInv(r) /\ mem[r] \in Memory /\ mem[r].round = 2
      /\ audit \in Nat /\ queue \in Nat
      /\ mem[r].before.queue \in Nat /\ mem[r].before.audit \in Nat
      /\ mem[r].after.queue \in Nat /\ mem[r].after.audit \in Nat
  BY DEF BootInv, BootFacts, RedisState, Ready, StartServe, Step, Rounds, Launching
<1> USE DEF storeVars, dockerVars, fileVars, statusVars, envVars
<1>1. /\ UNCHANGED <<audit, queue, delivery, live, latch>>
      /\ pc[r] \in Launching
      /\ pc[r] \in Working /\ pc[r] \in Quiet /\ pc[r] \in Backed
      /\ Snapshot' = Snapshot
  BY DEF RedisState, Ready, StartServe, Step, Launching, Working, Phases, Epoch, Quiet, Backed,
         Snapshot
<1>2. "serve" \notin up /\ live = {}
  BY <1>0, <1>1 DEF RunInv, QuietInv, OwnJobs, Launching
<1>3. /\ queue = mem[r].before.queue /\ mem[r].before.audit <= audit
      /\ delivery # "open" /\ mem[r].result # "pass" /\ audit = mem[r].after.audit
  BY <1>0, <1>1 DEF RunInv, BackedInv, BackupInv, EndInv, Closing, Launching, Snapshot
<1>4. ASSUME pc'[r] \in {"ready", "serve"}, up' = up, delivery = "settled",
             /\ mem'[r].before = mem[r].before /\ mem'[r].result = mem[r].result
             /\ mem'[r].after = mem[r].after /\ mem'[r].backups = mem[r].backups
             /\ mem'[r].round = mem[r].round /\ (pc'[r] = "serve" => mem'[r].intent)
      PROVE  RunInv(r)'
  BY <1>0, <1>1, <1>2, <1>3, <1>4 DEF RunInv, QuietInv, BackedInv, BackupInv, BothBackups,
     ServedInv, IntentInv, EndInv, Quiet, Backed, Opening, Saving, Filling, Launching
<1>5. CASE RedisState(r)
  <2>1. /\ pc[r] = "redisState" /\ up' = up /\ RedisSettled \in BOOLEAN
        /\ RedisSettled => delivery = "settled"
    BY <1>5 DEF RedisState, Step, RedisSettled
  <2>2. RedisSettled /\ pc'[r] = "ready" /\ mem'[r] = mem[r] => RunInv(r)'
    BY <1>4, <2>1
  <2> QED BY <1>1, <1>2, <1>5, <2>1, <2>2, StepMoves DEF RedisState
<1>6. CASE Ready(r)
  <2>1. pc[r] = "ready" /\ up' = up /\ OnlyDataRuns \in BOOLEAN /\ delivery = "settled"
    BY <1>0, <1>6 DEF Ready, Step, OnlyDataRuns, NoOtherProcess, RunInv, BackedInv
  <2> DEFINE m == [mem[r] EXCEPT !.intent = TRUE]
  <2>2. /\ m.before = mem[r].before /\ m.result = mem[r].result
        /\ m.after = mem[r].after /\ m.backups = mem[r].backups
        /\ m.round = mem[r].round /\ m.intent
    BY <1>0 DEF Memory
  <2>3. OnlyDataRuns /\ pc'[r] = "serve" /\ mem'[r] = m => RunInv(r)'
    <3> HIDE DEF m
    <3> QED BY <1>4, <2>1, <2>2
  <2> QED BY <1>1, <1>2, <1>6, <2>1, <2>3, StepMoves DEF Ready
<1>7. CASE StartServe(r)
  <2>1. pc[r] = "serve" /\ mem[r].intent
    BY <1>0, <1>7 DEF StartServe, Step, RunInv, IntentInv
  <2>2. pc'[r] = "wait" /\ mem'[r] = mem[r] => RunInv(r)'
    BY <1>0, <1>1, <1>2, <1>3, <2>1 DEF RunInv, QuietInv, BackedInv, BackupInv,
       ServedInv, IntentInv, EndInv, Quiet, Backed, Opening, Saving, Filling, Launching
  <2> QED BY <1>1, <1>2, <1>7, <2>1, <2>2, StepMoves DEF StartServe
<1> QED BY <1>5, <1>6, <1>7

\* Waiting for progress, the receipt and the release of the latch.
LEMMA ClosingMoves ==
  ASSUME BootFacts, LatchInv, BootInv, NEW r \in Runs,
         Poll(r) \/ WaitTimesOut(r) \/ SaveReceipt(r) \/ ReleaseLatch(r)
  PROVE  BootInv'
<1>0. /\ RunInv(r) /\ mem[r] \in Memory /\ RunTypes /\ ServeRunsAlone
      /\ audit \in Nat /\ queue \in Nat /\ status.mark \in Nat /\ status.mark <= audit
      /\ mem[r].before.queue \in Nat /\ mem[r].after.audit \in Nat
  BY DEF BootInv, BootFacts
<1> USE DEF storeVars, dockerVars, fileVars, statusVars, envVars
<1>1. /\ UNCHANGED <<audit, queue, delivery, up, live>> /\ latch' \in {latch, NoRun}
      /\ pc[r] \in {"wait", "receipt", "release"} /\ Latched(r) /\ pc[r] \in Working
      /\ "serve" \in up' => live' = {}
  BY <1>0 DEF Poll, WaitTimesOut, SaveReceipt, ReleaseLatch, Step, Latched, Working,
     ServeRunsAlone
<1>2. ASSUME pc'[r] \in {"receipt", "release", "passed"},
             /\ mem'[r].before = mem[r].before /\ mem'[r].round = mem[r].round
             /\ mem'[r].intent = mem[r].intent
             /\ mem'[r].result = "pass" => queue > mem[r].before.queue
      PROVE  RunInv(r)'
  BY <1>0, <1>1, <1>2 DEF RunInv, QuietInv, BackedInv, BackupInv, ServedInv, IntentInv, EndInv,
     Quiet, Backed, Opening, Saving, Filling, Launching, Closing
<1>3. mem[r].result = "pass" => queue > mem[r].before.queue
  BY <1>0 DEF RunInv, EndInv
<1>4. CASE Poll(r)
  <2>1. pc[r] = "wait"
    BY <1>4 DEF Poll
  <2>2. ASSUME Progressed(r), pc'[r] = "receipt", mem'[r] = [mem[r] EXCEPT !.result = "pass"]
        PROVE  RunInv(r)'
    <3>1. queue - mem[r].before.queue = audit - mem[r].after.audit
      BY <1>0, <2>1 DEF RunInv, ServedInv
    <3>2. queue > mem[r].before.queue
      BY <1>0, <2>2, <3>1 DEF Progressed
    <3>3. /\ mem'[r].before = mem[r].before /\ mem'[r].round = mem[r].round
          /\ mem'[r].intent = mem[r].intent
      BY <1>0, <2>2 DEF Memory
    <3> QED BY <1>2, <2>2, <3>2, <3>3
  <2>3. ASSUME NEW m, Go(r, "cleanup", m), m \in {mem[r], [mem[r] EXCEPT !.reason = "stale"]}
        PROVE  BootInv'
    <3>1. /\ m.before = mem[r].before /\ m.round = mem[r].round
          /\ m.intent = mem[r].intent /\ m.result = mem[r].result
      BY <1>0, <2>3 DEF Memory
    <3>2. pc'[r] = "cleanup" /\ mem'[r] = m
      BY <1>0, <2>3, GoMoves
    <3>3. RunInv(r)'
      BY <1>0, <1>1, <3>1, <3>2, ToCleanup
    <3> QED BY <1>1, <2>3, <3>3, RunMoves DEF ServeRunsAlone
  <2>4. (NoOtherProcess /\ up = Epoch) \in BOOLEAN
    BY DEF NoOtherProcess
  <2>5. \/ \E m \in {mem[r], [mem[r] EXCEPT !.reason = "stale"]} : Go(r, "cleanup", m)
        \/ /\ Progressed(r)
           /\ Step(r, "wait", NoOtherProcess /\ up = Epoch, "receipt",
                   [mem[r] EXCEPT !.result = "pass"])
    BY <1>4 DEF Poll
  <2> QED BY <1>1, <2>1, <2>2, <2>3, <2>4, <2>5, StepMoves
<1>5. CASE WaitTimesOut(r)
  <2>1. pc'[r] = "cleanup" /\ Go(r, "cleanup", mem[r]) /\ mem'[r] = mem[r]
    BY <1>0, <1>5, GoMoves DEF WaitTimesOut, Step
  <2>2. RunInv(r)'
    BY <1>0, <1>1, <2>1, ToCleanup
  <2> QED BY <1>1, <2>1, <2>2, RunMoves DEF ServeRunsAlone
<1>6. CASE SaveReceipt(r)
  <2>1. pc'[r] = "release" /\ Go(r, "release", mem[r]) /\ mem'[r] = mem[r]
    BY <1>0, <1>6, GoMoves DEF SaveReceipt, Step
  <2>2. RunInv(r)'
    BY <1>2, <1>3, <2>1
  <2> QED BY <1>1, <2>1, <2>2, RunMoves DEF ServeRunsAlone
<1>7. CASE ReleaseLatch(r)
  <2>1. (latch = r) \in BOOLEAN
    OBVIOUS
  <2>2. pc'[r] = "passed" /\ mem'[r] = mem[r] => RunInv(r)'
    BY <1>2, <1>3
  <2>3. pc[r] = "release" /\ latch' \in {latch, NoRun}
    BY <1>7 DEF ReleaseLatch, Step
  <2> QED BY <1>1, <1>7, <2>1, <2>2, <2>3, StepMoves DEF ReleaseLatch
<1> QED BY <1>4, <1>5, <1>6, <1>7

\* Failure: a command, the cleanup, a kill.
LEMMA FailureMoves ==
  ASSUME BootFacts, LatchInv, BootInv, NEW r \in Runs,
         CommandFails(r) \/ Cleanup(r) \/ (Kill(r) /\ Latched(r))
  PROVE  BootInv'
<1>0. /\ RunInv(r) /\ mem[r] \in Memory /\ RunTypes /\ ServeRunsAlone
      /\ mem[r].intent \in BOOLEAN /\ Rounds(r)
  BY DEF BootInv, BootFacts
<1> USE DEF storeVars, dockerVars, fileVars, statusVars, envVars
<1>1. UNCHANGED <<audit, queue, latch>> /\ Latched(r)
  BY DEF CommandFails, Cleanup, Kill, Latched
<1>2. CASE CommandFails(r)
  <2>1. Go(r, "cleanup", mem[r]) /\ pc[r] \in Working
    BY <1>2 DEF CommandFails
  <2>2. pc'[r] = "cleanup" /\ mem'[r] = mem[r]
    BY <1>0, <2>1, GoMoves
  <2>3. "serve" \in up' => "serve" \in up \/ pc[r] = "serve"
    BY <1>2 DEF CommandFails, Epoch
  <2>4. RunInv(r)'
    BY <1>0, <1>1, <2>2, <2>3, ToCleanup
  <2>5. ServeRunsAlone'
    <3>1. pc[r] \in Phases \union {"clone", "unclone"} => pc[r] \in Quiet
      BY DEF Phases, Quiet, Backed, Saving, Filling, Launching
    <3>2. pc[r] \in Phases \union {"clone", "unclone"} => "serve" \notin up
      BY <1>0, <3>1 DEF RunInv, QuietInv
    <3>3. pc[r] = "serve" => live = {}
      BY <1>0 DEF RunInv, QuietInv, OwnJobs, Quiet, Backed, Launching
    <3>4. live' # live => pc[r] \in Phases \union {"clone", "unclone"}
      BY <1>2 DEF CommandFails
    <3>5. "serve" \notin Phases \union {"clone", "unclone"}
      BY DEF Phases
    <3> QED BY <1>0, <2>3, <3>2, <3>3, <3>4, <3>5 DEF ServeRunsAlone
  <2> QED BY <1>1, <2>1, <2>4, <2>5, RunMoves
<1>3. CASE Cleanup(r)
  <2>1. PICK left \in SUBSET Candidates(r) :
          /\ live' = {j \in live : j[1] # r \/ j[2] \in left}
          /\ up' = IF "serve" \in Candidates(r) \ left THEN up \ {"serve"} ELSE up
          /\ Go(r, "failed", [mem[r] EXCEPT !.left = left])
    BY <1>3 DEF Cleanup
  <2>2. pc[r] = "cleanup"
    BY <1>3 DEF Cleanup
  <2>3. pc'[r] = "failed" /\ mem'[r] = [mem[r] EXCEPT !.left = left]
    BY <1>0, <2>1, GoMoves
  <2>4. /\ mem'[r].left = left /\ mem'[r].round = mem[r].round
        /\ mem'[r].result = mem[r].result /\ mem'[r].before = mem[r].before
    BY <1>0, <2>3 DEF Memory
  <2>5. ServeRunsAlone'
    BY <1>0, <2>1 DEF ServeRunsAlone
  <2>6. mem[r].round > 0 => "serve" \notin up' \/ "serve" \in left
    <3>1. "serve" \in Candidates(r) <=> mem[r].intent
      BY <1>0 DEF Candidates, Jobs
    <3>2. mem[r].round > 0 /\ "serve" \in up => mem[r].intent
      BY <1>0, <2>2 DEF RunInv, IntentInv
    <3> QED BY <2>1, <3>1, <3>2
  <2>7. RunInv(r)'
    BY <1>0, <1>1, <2>3, <2>4, <2>6 DEF RunInv, QuietInv, BackedInv, BackupInv, ServedInv,
       IntentInv, EndInv, Quiet, Backed, Opening, Saving, Filling, Launching, Closing
  <2> QED BY <1>1, <2>1, <2>5, <2>7, RunMoves
<1>4. CASE Kill(r) /\ Latched(r)
  <2>1. Go(r, "killed", mem[r]) /\ UNCHANGED <<up, live>>
    BY <1>4 DEF Kill
  <2>2. pc'[r] = "killed" /\ mem'[r] = mem[r]
    BY <1>0, <2>1, GoMoves
  <2>3. RunInv(r)'
    BY <1>0, <1>1, <2>2 DEF RunInv, QuietInv, BackedInv, BackupInv, ServedInv,
       IntentInv, EndInv, Quiet, Backed, Opening, Saving, Filling, Launching, Closing
  <2> QED BY <1>0, <1>1, <2>1, <2>3, RunMoves DEF ServeRunsAlone
<1> QED BY <1>2, <1>3, <1>4

\* A run that does not move, while containers only stop.
LEMMA RunStays ==
  ASSUME NEW q \in Runs, RunInv(q), pc'[q] = pc[q], mem'[q] = mem[q],
         up' \subseteq up, live' \subseteq live, UNCHANGED storeVars,
         latch' = q => latch = q
  PROVE  RunInv(q)'
<1>1. Snapshot' = Snapshot /\ OwnJobs(q)' = OwnJobs(q)
  BY DEF Snapshot, OwnJobs, storeVars
<1>2. QuietInv(q)' /\ BackedInv(q)' /\ ServedInv(q)' /\ IntentInv(q)' /\ EndInv(q)'
  BY <1>1 DEF RunInv, QuietInv, BackedInv, ServedInv, IntentInv, EndInv, storeVars
<1>3. BackupInv(q)'
  BY <1>1 DEF RunInv, BackupInv, FirstBackup, BothBackups, storeVars
<1> QED BY <1>2, <1>3 DEF RunInv

\* A run outside run_boot: it starts, takes the latch or gives up.
LEMMA OutsideMoves ==
  ASSUME BootFacts, LatchInv, BootInv, NEW r \in Runs,
         Start(r) \/ CreateLatch(r) \/ (Kill(r) /\ ~Latched(r))
  PROVE  BootInv'
<1>0. /\ RunInv(r) /\ RunTypes /\ ServeRunsAlone
  BY DEF BootInv, BootFacts
<1> USE DEF storeVars, dockerVars, fileVars, statusVars, envVars
<1>1. /\ UNCHANGED <<storeVars, up, live>> /\ latch' \in {latch, r}
      /\ pc[r] \in {"idle", "create"}
  BY DEF Start, CreateLatch, Kill
<1>2. PICK p \in {"create", "admit", "refused"} : Go(r, p, mem[r])
  BY DEF Start, CreateLatch, Kill
<1>3. /\ pc'[r] = p /\ mem'[r] = mem[r]
      /\ \A q \in Runs : q # r => pc'[q] = pc[q] /\ mem'[q] = mem[q]
  BY <1>0, <1>2, GoMoves
<1>4. RunInv(r)'
  BY <1>0, <1>1, <1>3 DEF RunInv, QuietInv, BackedInv, BackupInv, ServedInv,
     IntentInv, EndInv, Quiet, Backed, Opening, Saving, Filling, Launching, Closing
<1>5. \A q \in Runs : q # r => RunInv(q)'
  BY <1>1, <1>3, RunStays DEF BootInv
<1> QED BY <1>0, <1>1, <1>4, <1>5 DEF BootInv, ServeRunsAlone

\* The catch-up worker, wherever its run is.
LEMMA WorkerMoves ==
  ASSUME BootFacts, LatchInv, BootInv, NEW r \in Runs,
         \/ AppendMinute(r) \/ CatchupEnds(r)
         \/ \E k \in Jobs : JobExpires(r, k)
  PROVE  BootInv'
<1>0. RunTypes /\ ServeRunsAlone /\ audit \in Nat /\ queue \in Nat /\ RunInv(r)
  BY DEF BootInv, BootFacts
<1> USE DEF storeVars, dockerVars, fileVars, statusVars, envVars
<1>1. CASE CatchupEnds(r)
  <2>1. CASE pc[r] = "catchup"
    BY <1>1, <2>1, FillingMoves
  <2>2. CASE pc[r] # "catchup"
    <3>1. UNCHANGED <<pc, mem, storeVars, up, latch>> /\ live' \subseteq live
      BY <1>1, <2>2 DEF CatchupEnds
    <3>2. \A q \in Runs : RunInv(q)'
      BY <3>1, RunStays DEF BootInv
    <3> QED BY <1>0, <3>1, <3>2 DEF BootInv, ServeRunsAlone
  <2> QED BY <2>1, <2>2
<1>2. ASSUME NEW k \in Jobs, JobExpires(r, k) PROVE BootInv'
  <2>1. UNCHANGED <<storeVars, up, latch>> /\ live' \subseteq live /\ ServeRunsAlone'
    BY <1>0, <1>2 DEF JobExpires, ServeRunsAlone
  <2>2. CASE k = "catchup" /\ pc[r] = "catchup"
    <3>1. Go(r, "cleanup", mem[r]) /\ Latched(r)
      BY <1>2, <2>2 DEF JobExpires, Latched, Working
    <3>2. pc'[r] = "cleanup" /\ mem'[r] = mem[r]
      BY <1>0, <3>1, GoMoves
    <3>3. RunInv(r)'
      BY <1>0, <2>1, <3>1, <3>2, ToCleanup
    <3> QED BY <2>1, <3>1, <3>3, RunMoves
  <2>3. CASE ~ (k = "catchup" /\ pc[r] = "catchup")
    <3>1. UNCHANGED <<pc, mem>>
      BY <1>2, <2>3 DEF JobExpires
    <3>2. \A q \in Runs : RunInv(q)'
      BY <2>1, <3>1, RunStays DEF BootInv
    <3> QED BY <2>1, <3>2 DEF BootInv
  <2> QED BY <2>2, <2>3
<1>3. CASE AppendMinute(r)
  <2>1. /\ <<r, "catchup">> \in live /\ audit' = audit + 1
        /\ UNCHANGED <<pc, mem, queue, delivery, up, live, latch>>
    BY <1>3 DEF AppendMinute
  <2>2. ASSUME NEW q \in Runs PROVE RunInv(q)'
    <3>0. /\ RunInv(q) /\ mem[q].before.audit \in Nat /\ mem[q].after.audit \in Nat
      BY DEF BootInv, BootFacts
    <3>1. pc[q] \in Quiet => pc[q] = "catchup"
      BY <2>1, OwnCatchup
    <3>2. QuietInv(q)' /\ IntentInv(q)' /\ EndInv(q)' /\ ServedInv(q)'
      BY <2>1, <3>0 DEF RunInv, QuietInv, OwnJobs, IntentInv, EndInv, ServedInv
    <3>3. BackedInv(q)'
      BY <1>0, <2>1, <3>0 DEF RunInv, BackedInv
    <3>4. BackupInv(q)'
      <4>1. CASE pc[q] = "catchup"
        <5>1. \/ BothBackups(q) /\ mem[q].backups[2].audit <= audit /\ mem[q].round = 2
              \/ FirstBackup(q) /\ mem[q].round = 1
          BY <3>0, <4>1 DEF RunInv, BackupInv, Filling
        <5>2. CASE FirstBackup(q) /\ mem[q].round = 1
          BY <2>1, <4>1, <5>2 DEF BackupInv, FirstBackup, Opening, Saving, Filling, Launching
        <5>3. CASE BothBackups(q) /\ mem[q].backups[2].audit <= audit /\ mem[q].round = 2
          <6>1. mem[q].backups \in Seq(Snapshots) /\ Len(mem[q].backups) = 2
            BY <5>3 DEF BootFacts, Memory, BothBackups
          <6>2. mem[q].backups[2] \in Snapshots
            BY <6>1
          <6>3. mem[q].backups[2].audit <= audit'
            BY <1>0, <2>1, <5>3, <6>2 DEF Snapshots, Minutes
          <6> QED BY <2>1, <4>1, <5>3, <6>3 DEF BackupInv, BothBackups, Opening, Saving,
                     Filling, Launching
        <5> QED BY <5>1, <5>2, <5>3
      <4>2. CASE pc[q] # "catchup"
        BY <2>1, <3>0, <3>1, <4>2 DEF RunInv, BackupInv, Quiet, Backed, Opening
      <4> QED BY <4>1, <4>2
    <3> QED BY <3>2, <3>3, <3>4 DEF RunInv
  <2> QED BY <1>0, <2>1, <2>2 DEF BootInv, ServeRunsAlone
<1> QED BY <1>1, <1>2, <1>3

\* The host, the operator, serve and the clock.
LEMMA SurroundingMoves ==
  ASSUME BootFacts, LatchInv, BootInv,
         \/ HostCrash \/ OperatorClears
         \/ ServeDelivers \/ ServeReports \/ ServeEnds \/ Tick
         \/ UNCHANGED vars
  PROVE  BootInv'
<1>0. RunTypes /\ ServeRunsAlone /\ audit \in Nat /\ queue \in Nat
  BY DEF BootInv, BootFacts
<1> USE DEF storeVars, dockerVars, fileVars, statusVars, envVars
<1>1. CASE HostCrash
  <2>1. /\ UNCHANGED <<mem, storeVars, latch>> /\ up' = {} /\ live' = {}
        /\ \A q \in Runs : pc'[q] = IF Latched(q) THEN "killed"
                                    ELSE IF pc[q] = "create" THEN "refused" ELSE pc[q]
    BY <1>1 DEF HostCrash
  <2>2. ASSUME NEW q \in Runs PROVE RunInv(q)'
    <3>1. RunInv(q)
      BY DEF BootInv
    <3>2. CASE pc'[q] = pc[q]
      BY <2>1, <3>1, <3>2, RunStays
    <3>3. CASE pc'[q] \in {"killed", "refused"} /\ pc'[q] # pc[q]
      <4>1. mem[q].result = "pass" => pc[q] # "create"
        BY <3>1 DEF RunInv, EndInv, Closing
      <4>2. pc'[q] = "refused" => pc[q] = "create"
        BY <2>1, <3>3
      <4> QED BY <2>1, <3>1, <3>3, <4>1, <4>2 DEF RunInv, QuietInv, BackedInv, BackupInv,
        ServedInv, IntentInv, EndInv, Quiet, Backed, Opening, Saving, Filling, Launching,
        Closing
    <3> QED BY <2>1, <3>2, <3>3
  <2> QED BY <2>1, <2>2 DEF BootInv, ServeRunsAlone
<1>2. CASE OperatorClears \/ ServeReports \/ ServeEnds \/ Tick \/ UNCHANGED vars
  <2>1. /\ UNCHANGED <<pc, mem, storeVars>> /\ up' \subseteq up /\ live' \subseteq live
        /\ \A q \in Runs : latch' = q => latch = q
    BY <1>2, BootAssumption DEF OperatorClears, ServeReports, ServeEnds, Tick, vars
  <2>2. \A q \in Runs : RunInv(q)'
    BY <2>1, RunStays DEF BootInv
  <2> QED BY <1>0, <2>1, <2>2 DEF BootInv, ServeRunsAlone
<1>3. CASE ServeDelivers
  <2>1. /\ up = Epoch /\ UNCHANGED <<pc, mem, up, live, latch>>
        /\ \/ audit' = audit + 1 /\ queue' = queue + 1
           \/ UNCHANGED <<audit, queue>>
    BY <1>3 DEF ServeDelivers, Serving
  <2>2. ASSUME NEW q \in Runs PROVE RunInv(q)'
    <3>0. /\ RunInv(q) /\ mem[q].before.queue \in Nat /\ mem[q].after.audit \in Nat
      BY DEF BootInv, BootFacts
    <3>1. pc[q] \notin Quiet
      BY <2>1, <3>0 DEF RunInv, QuietInv, Epoch
    <3>2. QuietInv(q)' /\ BackedInv(q)' /\ IntentInv(q)'
      BY <2>1, <3>0, <3>1 DEF RunInv, QuietInv, BackedInv, IntentInv, Quiet, Backed, Launching
    <3>3. BackupInv(q)'
      BY <2>1, <3>0, <3>1 DEF RunInv, BackupInv, Quiet, Backed, Opening
    <3>4. ServedInv(q)' /\ EndInv(q)'
      BY <1>0, <2>1, <3>0 DEF RunInv, ServedInv, EndInv
    <3> QED BY <3>2, <3>3, <3>4 DEF RunInv
  <2> QED BY <1>0, <2>1, <2>2 DEF BootInv, ServeRunsAlone
<1> QED BY <1>1, <1>2, <1>3

LEMMA BootAlways == Spec => []BootInv
<1>1. Init => BootInv
  <2> SUFFICES ASSUME Init PROVE BootInv
    OBVIOUS
  <2>1. \A r \in Runs : pc[r] = "idle" /\ mem[r].backups = <<>> /\ mem[r].result = "none"
    BY DEF Init, NewRun
  <2>2. \A r \in Runs : RunInv(r)
    BY <2>1 DEF RunInv, QuietInv, BackedInv, BackupInv, ServedInv, IntentInv, EndInv,
       Quiet, Backed, Opening, Saving, Filling, Launching
  <2> QED BY <2>2 DEF BootInv, ServeRunsAlone, Init
<1>2. BootTypeInv /\ LatchInv /\ BootInv /\ [Next]_vars => BootInv'
  <2> SUFFICES ASSUME BootTypeInv, LatchInv, BootInv, [Next]_vars PROVE BootInv'
    OBVIOUS
  <2>0. BootFacts
    BY FactsOfTypes
  <2>1. ASSUME NEW r \in Runs, RunStep(r) PROVE BootInv'
    BY <2>0, <2>1, OpeningMoves, BackupMoves, FillingMoves, LaunchingMoves, ClosingMoves,
       FailureMoves, OutsideMoves DEF RunStep
  <2>2. ASSUME NEW r \in Runs, CommandFails(r) \/ Kill(r) PROVE BootInv'
    BY <2>0, <2>2, FailureMoves, OutsideMoves
  <2>3. ASSUME NEW r \in Runs, WorkerStep(r) \/ \E k \in Jobs : JobExpires(r, k)
        PROVE  BootInv'
    BY <2>0, <2>3, WorkerMoves DEF WorkerStep
  <2> QED BY <2>0, <2>1, <2>2, <2>3, SurroundingMoves DEF Next
<1> QED BY <1>1, <1>2, TypesAlways, LatchAlways, PTL DEF Spec

\* Serve is started on the epoch the run verified, with nothing beside it, and
\* a failed run leaves it running only when stopping it failed as well.
THEOREM ServeStartIsGuarded == Spec => []ServeIsGuarded
<1>1. BootTypeInv /\ BootInv => ServeIsGuarded
  <2> SUFFICES ASSUME BootFacts, BootInv PROVE ServeIsGuarded
    BY FactsOfTypes
  <2>1. ServeStartsVerified
    <3> SUFFICES ASSUME NEW r \in Runs, pc[r] = "serve"
                 PROVE  /\ BothBackups(r) /\ mem[r].backups[2].audit <= mem[r].after.audit
                        /\ Snapshot = mem[r].after /\ queue = mem[r].before.queue
                        /\ delivery = "settled" /\ "serve" \notin up /\ live = {}
      BY DEF ServeStartsVerified, BothBackups
    <3>1. RunInv(r) /\ "serve" \in Launching /\ "serve" \in Backed /\ "serve" \in Quiet
      BY DEF BootInv, Launching, Backed, Quiet
    <3>2. OwnJobs(r) = {}
      BY DEF OwnJobs
    <3> QED BY <3>1, <3>2 DEF RunInv, BackupInv, BackedInv, QuietInv
  <2>2. FailureStopsServe
    BY DEF BootInv, RunInv, EndInv, FailureStopsServe
  <2> QED BY <2>1, <2>2 DEF ServeIsGuarded, BootInv
<1> QED BY <1>1, TypesAlways, BootAlways, PTL

\* A boot passes only after the serve it started delivered a bar of its own.
THEOREM PassNeedsProgress == Spec => []PassIsProgress
<1>1. BootInv => PassIsProgress
  BY DEF BootInv, RunInv, EndInv, PassIsProgress
<1> QED BY <1>1, BootAlways, PTL
=============================================================================

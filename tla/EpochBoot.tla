----------------------------- MODULE EpochBoot -----------------------------
(***************************************************************************)
(* The guarded boot of an accepted epoch after an outage                   *)
(* (runtime_epoch_boot.py): runs of main() --execute that take the         *)
(* create-only latch, admit the stopped epoch, start PostgreSQL and Redis, *)
(* back the database up into a disposable clone before and after the first *)
(* catch-up, append the missed minutes audit-only, check Redis, start the  *)
(* accepted serve container and wait until it makes progress.              *)
(*                                                                         *)
(* The five chains of event_audit move together here and are one minute,   *)
(* audit; the queue tables and sequences are the number of bars delivered  *)
(* through them, queue.  Serve is the worker EpochDelivery details; it is  *)
(* reduced to the writes a boot can see.  A Docker command may fail with   *)
(* or without its effect, a run may be killed, the host may go down, and   *)
(* the containers a run leaves behind keep running.                        *)
(***************************************************************************)
EXTENDS Integers, Sequences, FiniteSets

CONSTANTS Runs,           \* executions of main() --execute
          NoRun,          \* no run: an absent latch, an absent volume
          AdmitsPause,    \* generation r6 or later: a source pause is bootable
          MaxStatusAge,   \* minutes a status counts as fresh (120 seconds)
          MaxCatchup,     \* MAX_CATCHUP_BARS
          MaxMinute,      \* bound: the last minute of the clock
          MaxFaults       \* bound: failures, kills and outages

ASSUME BootAssumption == /\ NoRun \notin Runs
                         /\ AdmitsPause \in BOOLEAN
                         /\ MaxStatusAge \in Nat /\ MaxCatchup \in Nat
                         /\ MaxMinute \in Nat \ {0} /\ MaxFaults \in Nat

VARIABLES latch,      \* the run boot.active names, or NoRun
          pc,         \* run -> where it is
          mem,        \* run -> what it remembers
          up,         \* the epoch's containers that run
          live,       \* disposable containers that run, with their run
          volume,     \* the run that created the restore volume, or NoRun
          audit,      \* last minute of the event_audit chains
          queue,      \* bars delivered through outbox, stream and inbox
          delivery,   \* the last bar is open, unacked or settled
          status,     \* status.json
          rewritten,  \* runs whose copy of status.json is out of date
          receipts,   \* runs that saved boot-receipt.json
          reviewed,   \* runs whose latch the operator removed
          now,        \* finalized minutes
          faults

storeVars == <<audit, queue, delivery>>
dockerVars == <<up, live, volume>>
fileVars == <<latch, receipts, reviewed>>
statusVars == <<status, rewritten>>
envVars == <<now, faults>>
vars == <<pc, mem, storeVars, dockerVars, fileVars, statusVars, envVars>>

Epoch == {"pg", "redis", "serve"}
Jobs == {"reader", "catchup", "clone"}
Phases == {"before", "verify", "current", "after", "redisState"}
Working == Phases \union Epoch \union
           {"admit", "previous", "recheck", "volume", "dump", "clone",
            "unclone", "catchup", "ready", "wait", "receipt", "release"}
Ended == {"passed", "failed", "killed", "refused"}

Minutes == 0..MaxMinute
Snapshots == [audit : Minutes, queue : Minutes]
Snapshot == [audit |-> audit, queue |-> queue]
Fresh(s) == now - s.at <= MaxStatusAge

NewRun == [seen |-> {}, round |-> 0, goal |-> 0, intent |-> FALSE,
           before |-> [audit |-> 0, queue |-> 0],
           current |-> [audit |-> 0, queue |-> 0],
           after |-> [audit |-> 0, queue |-> 0],
           dump |-> [audit |-> 0, queue |-> 0],
           backups |-> <<>>, result |-> "none", reason |-> "none", left |-> {}]

TypeOK ==
  /\ latch \in Runs \union {NoRun} /\ volume \in Runs \union {NoRun}
  /\ pc \in [Runs -> Working \union Ended \union {"idle", "create", "cleanup"}]
  /\ mem \in [Runs -> [seen : SUBSET Epoch, round : 0..2, goal : Minutes,
                       intent : BOOLEAN, before : Snapshots,
                       current : Snapshots, after : Snapshots,
                       dump : Snapshots, backups : Seq(Snapshots),
                       result : {"none", "already", "pass"},
                       reason : {"none", "stale"},
                       left : SUBSET (Jobs \union {"serve"})]]
  /\ up \subseteq Epoch /\ live \subseteq Runs \X Jobs
  /\ audit \in Minutes /\ queue \in Minutes
  /\ delivery \in {"open", "unacked", "settled"}
  /\ status \in [state : {"RUNNING", "PAUSED", "FAILED"},
                 at : Minutes, mark : Minutes]
  /\ rewritten \subseteq Runs /\ receipts \subseteq Runs
  /\ reviewed \subseteq Runs
  /\ now \in Minutes /\ faults \in 0..MaxFaults

\* A serving epoch, settled through minute 1; outages and boots follow.
Init == /\ latch = NoRun /\ receipts = {} /\ reviewed = {}
        /\ pc = [r \in Runs |-> "idle"] /\ mem = [r \in Runs |-> NewRun]
        /\ up = Epoch /\ live = {} /\ volume = NoRun
        /\ audit = 1 /\ queue = 1 /\ delivery = "settled"
        /\ status = [state |-> "RUNNING", at |-> 1, mark |-> 1]
        /\ rewritten = {}
        /\ now = 1 /\ faults = 0

-----------------------------------------------------------------------------
(* How a run moves                                                         *)

Go(r, step, m) == /\ pc' = [pc EXCEPT ![r] = step]
                  /\ mem' = [mem EXCEPT ![r] = m]

\* One step of run_boot: a refused check raises Rejected, which main() answers
\* with the cleanup.
Step(r, from, ok, to, m) ==
  /\ pc[r] = from
  /\ IF ok THEN Go(r, to, m) ELSE Go(r, "cleanup", mem[r])

LatchExists == latch # NoRun

\* main(): the hash-bound binding and signed source, whose files the operator
\* may have changed, then LEASE.exists().
Start(r) ==
  /\ pc[r] = "idle"
  /\ \E bound \in BOOLEAN :
       Go(r, IF bound /\ ~LatchExists THEN "create" ELSE "refused", mem[r])
  /\ UNCHANGED <<storeVars, dockerVars, fileVars, statusVars, envVars>>

\* fresh.write opens "xb": it fails when another run created the latch since.
LatchOverwritten == TRUE
LatchWritable == latch = NoRun
CreateLatch(r) ==
  /\ pc[r] = "create"
  /\ IF LatchWritable
     THEN latch' = r /\ Go(r, "admit", mem[r])
     ELSE UNCHANGED latch /\ Go(r, "refused", mem[r])
  /\ UNCHANGED <<storeVars, dockerVars, receipts, reviewed, statusVars, envVars>>

\* validate_resources: every running kairos-* container is an allowed one.
NoOtherProcess == live = {}

\* The first validate_resources(allow_running=True), with the views it keeps.
Admit(r) ==
  /\ Step(r, "admit", NoOtherProcess, "previous", [mem[r] EXCEPT !.seen = up])
  /\ UNCHANGED <<storeVars, dockerVars, fileVars, statusVars, envVars>>

\* The states a stopped epoch is booted from: a failed one needs an operator.
Bootable(s) == s.state = "RUNNING" \/ (AdmitsPause /\ s.state = "PAUSED")

\* previous = read_json(status.json), and the already-running answer.
Previous(r) ==
  /\ IF "serve" \in mem[r].seen
     THEN Step(r, "previous",
               Bootable(status) /\ Fresh(status) /\ mem[r].seen = Epoch,
               "receipt", [mem[r] EXCEPT !.result = "already"])
     ELSE Step(r, "previous", Bootable(status), "recheck", mem[r])
  /\ rewritten' = rewritten \ {r}
  /\ UNCHANGED <<storeVars, dockerVars, fileVars, status, envVars>>

\* validate_resources() without allow_running: serve is not running either.
OnlyDataRuns == NoOtherProcess /\ "serve" \notin up

Recheck(r) ==
  /\ Step(r, "recheck", OnlyDataRuns, "pg", mem[r])
  /\ UNCHANGED <<storeVars, dockerVars, fileVars, statusVars, envVars>>

\* start_existing_data_containers: PostgreSQL, then Redis.
StartData(r) ==
  /\ \/ Step(r, "pg", TRUE, "redis", mem[r]) /\ up' = up \union {"pg"}
     \/ Step(r, "redis", TRUE, "before", mem[r]) /\ up' = up \union {"redis"}
  /\ UNCHANGED <<storeVars, live, volume, fileVars, statusVars, envVars>>

\* What the boot-state worker demands of the database: reachable, no holder of
\* the worker locks, every queue row published and completed.
NoEpochWorkers == "serve" \notin up /\ ~\E r \in Runs : <<r, "catchup">> \in live
BootStateOK == "pg" \in up /\ NoEpochWorkers /\ delivery # "open"

Before(r) ==
  /\ Step(r, "before", BootStateOK, "volume", [mem[r] EXCEPT !.before = Snapshot])
  /\ UNCHANGED <<storeVars, dockerVars, fileVars, statusVars, envVars>>

-----------------------------------------------------------------------------
(* The verified backups, bootbefore (round 0) and bootafter (round 1)      *)

\* The restore volume and the clone that mounts it are both absent.
RestoreReused == TRUE
RestoreAbsent == volume = NoRun

PrepareVolume(r) ==
  /\ Step(r, "volume", RestoreAbsent, "dump", mem[r])
  /\ volume' = IF RestoreAbsent THEN r ELSE volume
  /\ UNCHANGED <<storeVars, up, live, fileVars, statusVars, envVars>>

\* stream_private_pg_dump: one transaction's view of the database.
Dump(r) ==
  /\ Step(r, "dump", "pg" \in up, "clone", [mem[r] EXCEPT !.dump = Snapshot])
  /\ UNCHANGED <<storeVars, dockerVars, fileVars, statusVars, envVars>>

\* create_database, wait_postgres and restore_accepted_dump.
Restore(r) ==
  /\ Step(r, "clone", TRUE, "verify", mem[r])
  /\ live' = live \union {<<r, "clone">>}
  /\ UNCHANGED <<storeVars, up, volume, fileVars, statusVars, envVars>>

Seed(r) == IF mem[r].round = 0 THEN mem[r].before ELSE mem[r].after

\* boot-verify-restore: the database is still the seed and the clone equals it.
RestoreVerified(r) == /\ BootStateOK /\ <<r, "clone">> \in live
                      /\ Snapshot = Seed(r) /\ mem[r].dump = Snapshot

Verify(r) ==
  /\ Step(r, "verify", RestoreVerified(r), "unclone",
          [mem[r] EXCEPT !.backups = Append(@, mem[r].dump)])
  /\ UNCHANGED <<storeVars, dockerVars, fileVars, statusVars, envVars>>

\* remove_owned_clone; then the next index of the catch-up loop.
RemoveClone(r) ==
  /\ Step(r, "unclone", TRUE, "current", [mem[r] EXCEPT !.round = @ + 1])
  /\ live' = live \ {<<r, "clone">>} /\ volume' = NoRun
  /\ UNCHANGED <<storeVars, up, fileVars, statusVars, envVars>>

-----------------------------------------------------------------------------
(* The audit-only catch-up                                                 *)

WithinGapCap == now - audit \in 0..MaxCatchup

\* boot-state, the end of the gap, and the catch-up worker when it is not empty.
Current(r) ==
  /\ Step(r, "current", BootStateOK /\ WithinGapCap,
          IF now = audit THEN "after" ELSE "catchup",
          [mem[r] EXCEPT !.current = Snapshot, !.goal = now])
  /\ live' = IF BootStateOK /\ WithinGapCap /\ now # audit
             THEN live \union {<<r, "catchup">>} ELSE live
  /\ UNCHANGED <<storeVars, up, volume, fileVars, statusVars, envVars>>

\* The worker, which outlives its controller: recover(publish=False) inserts
\* the next minute.
AppendMinute(r) ==
  /\ <<r, "catchup">> \in live /\ "pg" \in up /\ audit < mem[r].goal
  /\ audit' = audit + 1
  /\ UNCHANGED <<pc, mem, queue, delivery, dockerVars, fileVars, statusVars,
                 envVars>>

\* The post-state checks of recover: the rows before are a prefix, the outbox
\* is untouched and every chain ends at the goal.
CatchupExact(r) == queue = mem[r].current.queue /\ audit = mem[r].goal

\* The worker exits with its receipt and docker wait returns to its run.
CatchupEnds(r) ==
  /\ <<r, "catchup">> \in live /\ audit >= mem[r].goal
  /\ live' = live \ {<<r, "catchup">>}
  /\ IF pc[r] = "catchup"
     THEN Step(r, "catchup", CatchupExact(r), "after", mem[r])
     ELSE UNCHANGED <<pc, mem>>
  /\ UNCHANGED <<storeVars, up, volume, fileVars, statusVars, envVars>>

\* validate_preserved_state(before, after).
Preserved(r) == /\ queue = mem[r].before.queue
                /\ audit >= mem[r].before.audit

AfterWithoutBreak(r) ==
  /\ Step(r, "after", BootStateOK /\ Preserved(r), "volume",
          [mem[r] EXCEPT !.after = Snapshot])
  /\ UNCHANGED <<storeVars, dockerVars, fileVars, statusVars, envVars>>

\* boot-state after the catch-up, then the second backup or the end of the loop.
After(r) ==
  /\ Step(r, "after", BootStateOK /\ Preserved(r),
          IF mem[r].round = 1 THEN "volume" ELSE "redisState",
          [mem[r] EXCEPT !.after = Snapshot])
  /\ UNCHANGED <<storeVars, dockerVars, fileVars, statusVars, envVars>>

-----------------------------------------------------------------------------
(* Starting serve                                                          *)

\* boot-redis-state: every receipt and entry is there and none is pending.
RedisPendingIgnored == {"pg", "redis"} \subseteq up /\ delivery # "open"
RedisSettled == {"pg", "redis"} \subseteq up /\ delivery = "settled"

RedisState(r) ==
  /\ Step(r, "redisState", RedisSettled, "ready", mem[r])
  /\ UNCHANGED <<storeVars, dockerVars, fileVars, statusVars, envVars>>

\* The last validate_resources(), then the intent is recorded for the cleanup.
Ready(r) ==
  /\ Step(r, "ready", OnlyDataRuns, "serve", [mem[r] EXCEPT !.intent = TRUE])
  /\ UNCHANGED <<storeVars, dockerVars, fileVars, statusVars, envVars>>

StartServe(r) ==
  /\ Step(r, "serve", TRUE, "wait", mem[r])
  /\ up' = up \union {"serve"}
  /\ UNCHANGED <<storeVars, live, volume, fileVars, statusVars, envVars>>

ProgressedOrSame(r) == status.mark >= mem[r].after.audit
Progressed(r) == status.mark > mem[r].after.audit

\* One turn of wait_for_started_serve.
Poll(r) ==
  LET paused  == AdmitsPause /\ status.state = "PAUSED"
      changed == r \in rewritten
      stale   == [mem[r] EXCEPT !.reason = "stale"]
  IN /\ pc[r] = "wait"
     /\ \/ /\ \/ status.state = "FAILED"
              \/ ~AdmitsPause /\ changed /\ status.state = "PAUSED"
           /\ Go(r, "cleanup", mem[r])
        \/ /\ paused \/ (changed /\ status.state = "RUNNING")
           /\ ~Fresh(status)
           /\ Go(r, "cleanup", stale)
        \/ /\ changed /\ status.state = "RUNNING" /\ Fresh(status)
           /\ Progressed(r)
           /\ Step(r, "wait", NoOtherProcess /\ up = Epoch, "receipt",
                   [mem[r] EXCEPT !.result = "pass"])
  /\ UNCHANGED <<storeVars, dockerVars, fileVars, statusVars, envVars>>

NeverTimesOut(r) == pc[r] = "wait" /\ FALSE

\* 180 seconds, or the deadline of the run, went by without such a status.
WaitTimesOut(r) ==
  /\ Step(r, "wait", FALSE, "receipt", mem[r])
  /\ UNCHANGED <<storeVars, dockerVars, fileVars, statusVars, envVars>>

SaveReceipt(r) ==
  /\ Step(r, "receipt", TRUE, "release", mem[r])
  /\ receipts' = receipts \union {r}
  /\ UNCHANGED <<storeVars, dockerVars, latch, reviewed, statusVars, envVars>>

\* The latch still holds this run's bytes; then it is unlinked.
ReleaseLatch(r) ==
  /\ Step(r, "release", latch = r, "passed", mem[r])
  /\ latch' = IF latch = r THEN NoRun ELSE latch
  /\ UNCHANGED <<storeVars, dockerVars, receipts, reviewed, statusVars, envVars>>

-----------------------------------------------------------------------------
(* Failure                                                                 *)

\* A Docker command of the run fails, with or without its effect.
CommandFails(r) ==
  /\ pc[r] \in Working /\ faults < MaxFaults
  /\ faults' = faults + 1
  /\ Go(r, "cleanup", mem[r])
  /\ \/ UNCHANGED dockerVars
     \/ pc[r] \in Epoch /\ up' = up \union {pc[r]} /\ UNCHANGED <<live, volume>>
     \/ /\ pc[r] \in Phases /\ live' = live \union {<<r, "reader">>}
        /\ UNCHANGED <<up, volume>>
     \/ /\ pc[r] = "volume" /\ RestoreAbsent /\ volume' = r
        /\ UNCHANGED <<up, live>>
     \/ /\ pc[r] = "clone" /\ live' = live \union {<<r, "clone">>}
        /\ UNCHANGED <<up, volume>>
     \/ /\ pc[r] = "unclone" /\ live' = live \ {<<r, "clone">>}
        /\ volume' \in {volume, NoRun} /\ UNCHANGED up
  /\ UNCHANGED <<storeVars, fileVars, statusVars, now>>

\* The containers fail_closed_cleanup stops: those the run created and still
\* lists, and serve once its start was intended.
Candidates(r) == {k \in Jobs : <<r, k>> \in live}
                 \union (IF mem[r].intent THEN {"serve"} ELSE {})

CleanupReleases(r) ==
  /\ pc[r] = "cleanup"
  /\ Go(r, "failed", mem[r])
  /\ latch' = IF latch = r THEN NoRun ELSE latch
  /\ live' = {j \in live : j[1] # r}
  /\ up' = IF mem[r].intent THEN up \ {"serve"} ELSE up
  /\ UNCHANGED <<storeVars, volume, receipts, reviewed, statusVars, envVars>>

\* fail_closed_cleanup and boot-failure.json.  A failing stop is swallowed; the
\* latch stays.
Cleanup(r) ==
  /\ pc[r] = "cleanup"
  /\ \E left \in SUBSET Candidates(r) :
       /\ left # {} => faults < MaxFaults
       /\ faults' = IF left = {} THEN faults ELSE faults + 1
       /\ live' = {j \in live : j[1] # r \/ j[2] \in left}
       /\ up' = IF "serve" \in Candidates(r) \ left THEN up \ {"serve"} ELSE up
       /\ Go(r, "failed", [mem[r] EXCEPT !.left = left])
  /\ UNCHANGED <<storeVars, volume, fileVars, statusVars, now>>

Latched(r) == pc[r] \in Working \union {"cleanup"}

\* The run's process is killed: the task's limit, a logoff.
Kill(r) ==
  /\ Latched(r) \/ pc[r] = "create"
  /\ faults < MaxFaults /\ faults' = faults + 1
  /\ Go(r, IF Latched(r) THEN "killed" ELSE "refused", mem[r])
  /\ UNCHANGED <<storeVars, dockerVars, fileVars, statusVars, now>>

\* The host goes down with every process and container on it.
HostCrash ==
  /\ faults < MaxFaults /\ faults' = faults + 1
  /\ pc' = [r \in Runs |-> IF Latched(r) THEN "killed"
                           ELSE IF pc[r] = "create" THEN "refused" ELSE pc[r]]
  /\ up' = {} /\ live' = {}
  /\ UNCHANGED <<mem, storeVars, volume, fileVars, statusVars, now>>

\* A disposable container reaches the time limit in its command line.
JobExpires(r, k) ==
  /\ <<r, k>> \in live
  /\ live' = live \ {<<r, k>>}
  /\ IF k = "catchup" /\ pc[r] = "catchup"
     THEN Go(r, "cleanup", mem[r]) ELSE UNCHANGED <<pc, mem>>
  /\ UNCHANGED <<storeVars, up, volume, fileVars, statusVars, envVars>>

-----------------------------------------------------------------------------
(* The surroundings: the operator, the serving worker, the clock           *)

\* After review of a run that ended without releasing it, the latch is removed;
\* what the run left on Docker may be removed with it.
OperatorClears ==
  /\ LatchExists /\ ~Latched(latch)
  /\ latch' = NoRun /\ reviewed' = reviewed \union {latch}
  /\ \/ UNCHANGED dockerVars
     \/ live' = {} /\ volume' = NoRun /\ UNCHANGED up
  /\ UNCHANGED <<pc, mem, storeVars, receipts, statusVars, envVars>>

Serving == up = Epoch

\* One bar: appended and enqueued, then completed, then acknowledged.
ServeDelivers ==
  /\ Serving
  /\ \/ /\ delivery = "settled" /\ audit < now
        /\ audit' = audit + 1 /\ queue' = queue + 1 /\ delivery' = "open"
     \/ delivery = "open" /\ delivery' = "unacked" /\ UNCHANGED <<audit, queue>>
     \/ delivery = "unacked" /\ delivery' = "settled" /\ UNCHANGED <<audit, queue>>
  /\ UNCHANGED <<pc, mem, dockerVars, fileVars, statusVars, envVars>>

\* A report follows complete counters; RUNNING also needs the current minute.
ServeReports ==
  /\ Serving /\ delivery # "open"
  /\ \E s \in {"RUNNING", "PAUSED"} :
       /\ s = "RUNNING" => audit = now
       /\ status' = [state |-> s, at |-> now, mark |-> audit]
  /\ rewritten' = Runs
  /\ UNCHANGED <<pc, mem, storeVars, dockerVars, fileVars, envVars>>

\* Serve ends: with a FAILED_CLOSED status, or stopped without writing one.
ServeEnds ==
  /\ "serve" \in up /\ up' = up \ {"serve"}
  /\ \/ /\ status' = [status EXCEPT !.state = "FAILED", !.at = now]
        /\ rewritten' = Runs
     \/ UNCHANGED statusVars
  /\ UNCHANGED <<pc, mem, storeVars, live, volume, fileVars, envVars>>

Tick == /\ now < MaxMinute /\ now' = now + 1
        /\ UNCHANGED <<pc, mem, storeVars, dockerVars, fileVars, statusVars, faults>>

RunStep(r) ==
  \/ Start(r) \/ CreateLatch(r) \/ Admit(r) \/ Previous(r) \/ Recheck(r)
  \/ StartData(r) \/ Before(r) \/ PrepareVolume(r) \/ Dump(r) \/ Restore(r)
  \/ Verify(r) \/ RemoveClone(r) \/ Current(r) \/ After(r) \/ RedisState(r)
  \/ Ready(r) \/ StartServe(r) \/ Poll(r) \/ WaitTimesOut(r)
  \/ SaveReceipt(r) \/ ReleaseLatch(r) \/ Cleanup(r)
WorkerStep(r) == AppendMinute(r) \/ CatchupEnds(r)

Next == \/ \E r \in Runs : \/ RunStep(r) \/ WorkerStep(r)
                           \/ CommandFails(r) \/ Kill(r)
                           \/ \E k \in Jobs : JobExpires(r, k)
        \/ HostCrash \/ OperatorClears
        \/ ServeDelivers \/ ServeReports \/ ServeEnds \/ Tick

Spec == Init /\ [][Next]_vars

\* Every wait of a run is bounded by a deadline: its process and the catch-up
\* worker, unless killed, go on.
FairSpec == /\ Spec
            /\ \A r \in Runs : WF_vars(RunStep(r)) /\ WF_vars(WorkerStep(r))

-----------------------------------------------------------------------------
(* What the boot promises                                                  *)

\* README: "An exclusive durable latch prevents duplicate or automatic
\* retries."  Whatever main() does between two runs' exists() checks and their
\* create-only writes, a run that works on the epoch holds the latch alone.
OneBootAtATime == \A r \in Runs : Latched(r) => latch = r

\* A run that failed, was killed or went down with the host keeps its latch
\* until an operator removes it: no later run starts a container by itself.
NoAutomaticRetry ==
  \A r \in Runs : pc[r] \in {"failed", "killed"} => latch = r \/ r \in reviewed

\* When run_boot starts serve, what it verified minutes ago still holds: both
\* backups restored exactly, the first the state before the outage's gap was
\* filled, the queues are those of before, the database is the one it read
\* last, Redis owes nothing and nobody else works on the epoch.
ServeStartsVerified ==
  \A r \in Runs : pc[r] = "serve" =>
    /\ Len(mem[r].backups) = 2 /\ mem[r].backups[1] = mem[r].before
    /\ mem[r].before.audit <= mem[r].backups[2].audit
    /\ mem[r].backups[2].audit <= mem[r].after.audit
    /\ Snapshot = mem[r].after /\ queue = mem[r].before.queue
    /\ delivery = "settled" /\ "serve" \notin up /\ live = {}

\* The serving worker and a disposable container of any boot, such as a
\* catch-up worker whose controller was killed, never run together.
ServeRunsAlone == "serve" \in up => live = {}

\* PASS_NONTRADING_EPOCH_BOOT means that the worker this run started delivered
\* a bar the boot had not appended, not that an old status looked healthy.
PassIsProgress ==
  \A r \in Runs : mem[r].result = "pass" => queue > mem[r].before.queue

\* A run that found serve stopped and failed leaves it stopped, also when
\* docker start reported an error for a container that did start, unless
\* stopping it failed as well.
FailureStopsServe ==
  \A r \in Runs : pc[r] = "failed" /\ mem[r].round > 0 /\ latch = r
                 => "serve" \notin up \/ "serve" \in mem[r].left

\* Serve is started on a verified epoch only, it never runs beside a disposable
\* container of any boot, and a boot that fails does not leave it running.
ServeIsGuarded == ServeStartsVerified /\ ServeRunsAlone /\ FailureStopsServe

\* The restore volume of a run is removed by that run after verification or by
\* the operator, never by another run's prepare_boot_restore_volume.
EvidenceIsKept ==
  [][volume # NoRun /\ volume' # volume
       => pc[volume] = "unclone" \/ reviewed' # reviewed]_vars

\* The deadlines of the run bound every wait: each run that took the latch ends.
BootEnds == \A r \in Runs : Latched(r) ~> pc[r] \in Ended

\* run_boot: "A stale timestamp is expected after reboot".  No run fails only
\* because the status it found, and admitted, has not been rewritten yet.
StaleStatusIsExpected ==
  \A r \in Runs : mem[r].reason = "stale" => r \in rewritten
=============================================================================

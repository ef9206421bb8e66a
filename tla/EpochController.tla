--------------------------- MODULE EpochController ---------------------------
(***************************************************************************)
(* The creation of an epoch and the continuation of the one that failed    *)
(* (runtime_epoch_controller.py): runs of main() --execute that build the  *)
(* database and Redis of a new owner from the accepted dump, append the    *)
(* missed minutes audit-only in bounded batches, prove a backup on a       *)
(* disposable clone, qualify, start serve and restart it once.             *)
(*                                                                         *)
(* Attempt 0 is a new epoch; attempts 1 to 5 continue one recorded epoch,  *)
(* each from the exact evidence its predecessors left.  Validators that    *)
(* compare files with recorded hashes are the set evidence; worker         *)
(* configurations, mounts and metadata checks are one step each.  A Docker *)
(* command may fail with or without its effect, a run may be killed, and   *)
(* what it started keeps running.                                          *)
(***************************************************************************)
EXTENDS Integers, Sequences, FiniteSetsExt

CONSTANTS Runs,           \* executions of main() --execute
          NoRun,          \* no run: an absent lease or directory
          Past,           \* the recorded owner and its earlier runs
          Symbols,        \* SYMBOLS
          Partial,        \* CONTINUATION_04_CURRENT_ANCHORS, in minutes
          Histories,      \* recorded attempts on the host; -1: none, no lease
          AppendLimit,    \* MAX_CATCHUP_BARS
          MaxBatches,     \* 32
          MaxStatusAge,   \* minutes a status counts as fresh (120 seconds)
          MaxMinute,      \* bound: the last minute of the clock
          MaxFaults       \* bound: failures and kills

ASSUME ControllerAssumption ==
  /\ NoRun \notin Runs /\ Past \notin Runs /\ Past # NoRun
  /\ IsFiniteSet(Symbols) /\ Symbols # {}
  /\ AppendLimit \in Nat /\ AppendLimit >= Cardinality(Symbols)
  /\ MaxBatches \in Nat /\ MaxStatusAge \in Nat
  /\ MaxMinute \in Nat \ {0} /\ MaxFaults \in Nat
  /\ Partial \in [Symbols -> 1..MaxMinute]
  /\ Histories \subseteq -1..4

VARIABLES lease,      \* the owner runtime-epoch.active names
          dirOf,      \* attempt -> the run that created continuation-NN
          evidence,   \* attempts whose recorded failure the host holds
          pc,         \* run -> where it is
          mem,        \* run -> what it remembers
          exists,     \* the owner's containers
          running,    \* those that run
          assets,     \* the owner's network and volumes
          hist,       \* symbol -> last minute in event_audit; 0: not seeded
          delivered,  \* the outbox or the inbox has rows
          cred,       \* the attempt whose history password the role has
          status,     \* status.json of serve
          changed,    \* status.json differs from the first status of the run
          serveNo,    \* starts of the serve container
          now,        \* finalized minutes
          faults

fileVars == <<lease, dirOf, evidence>>
dockerVars == <<exists, running, assets>>
dbVars == <<hist, delivered, cred>>
serveVars == <<status, changed, serveNo>>
envVars == <<now, faults>>
vars == <<pc, mem, fileVars, dockerVars, dbVars, serveVars, envVars>>

Attempts == 0..5
Minutes == 0..MaxMinute
Anchors == [Symbols -> Minutes]
SeedAnchors == [s \in Symbols |-> 1]
Unseeded == [s \in Symbols |-> 0]
Earliest(a) == Min({a[s] : s \in Symbols})

\* resource_names and the worker names: a kind and, for the containers an
\* attempt names after itself, its number.
Target == <<"target", 0>>
Redis == <<"redis", 0>>
Source == <<"source", 0>>
Clone == <<"restore", 0>>
Serve == <<"serve", 0>>
OldWorker == <<"oldcatchup", 0>>
Data == {Target, Redis}
WorkerModes == {"prepare", "seed", "state", "verify", "rotate", "catchup",
                "post", "qualify"}
Containers == Data \union {Source, Clone, Serve, OldWorker}
              \union ((WorkerModes \union {"init"}) \X Attempts)
Volumes == {"network", "target", "source", "restore", "redis"}

\* The steps in which a run commands Docker, and the others.
Working == (WorkerModes \ {"catchup"}) \union
           {"snapshots", "legacy", "assets", "source", "target", "redis",
            "unsource", "existing", "repair", "goal", "batch", "catching",
            "volume", "dump", "clone", "unclone", "final", "serve", "await",
            "stop", "start", "restart", "after", "save"}
Ended == {"passed", "failed", "killed", "refused"}

NoStatus == [state |-> "none", at |-> 0, mark |-> 0, by |-> 0]
Fresh(st) == now - st.at <= MaxStatusAge

NewRun == [attempt |-> 0, owned |-> FALSE, created |-> {},
           goal |-> 0, last |-> 0, end |-> 0, batch |-> 0, round |-> 0,
           rolling |-> Unseeded, base |-> Unseeded, dump |-> Unseeded,
           verified |-> Unseeded, first |-> NoStatus, seen |-> NoStatus,
           left |-> {}]

Statuses == [state : {"none", "RUNNING", "PENDING", "FAILED"},
             at : Minutes, mark : Minutes, by : 0..2]

TypeOK ==
  /\ lease \in Runs \union {NoRun, Past}
  /\ dirOf \in [1..5 -> Runs \union {NoRun, Past}] /\ evidence \subseteq 0..4
  /\ pc \in [Runs -> Working \union Ended \union
                     {"idle", "dir", "lease", "cleanup", "report"}]
  /\ mem \in [Runs -> [attempt : Attempts, owned : BOOLEAN,
                       created : SUBSET Containers, goal : Minutes,
                       last : Minutes, end : Minutes, batch : 0..MaxBatches,
                       round : 0..2, rolling : Anchors, base : Anchors,
                       dump : Anchors, verified : Anchors, first : Statuses,
                       seen : Statuses, left : SUBSET Containers]]
  /\ exists \subseteq Containers /\ running \subseteq exists
  /\ assets \subseteq Volumes
  /\ hist \in Anchors /\ delivered \in BOOLEAN /\ cred \in Attempts
  /\ status \in Statuses /\ changed \in BOOLEAN /\ serveNo \in 0..2
  /\ now \in Minutes /\ faults \in 0..MaxFaults

\* What the recorded attempts 0..k left behind: assert_existing_epoch's
\* expected_owned for attempt k + 1.
Remains(k) == Data \union {OldWorker}
              \union CASE k = 1 -> {<<"init", 0>>}
                       [] k = 3 -> {<<"verify", 3>>, Clone}
                       [] k = 4 -> {<<"verify", 3>>, <<"catchup", 4>>}
                       [] OTHER -> {}

\* A host without an epoch, or the recorded epoch after its first failures.
Init ==
  \E k \in Histories :
    LET recorded == k >= 0 IN
    /\ lease = IF recorded THEN Past ELSE NoRun
    /\ dirOf = [a \in 1..5 |-> IF a <= k THEN Past ELSE NoRun]
    /\ evidence = 0..k
    /\ pc = [r \in Runs |-> "idle"] /\ mem = [r \in Runs |-> NewRun]
    /\ exists = IF recorded THEN Remains(k) ELSE {}
    /\ running = IF recorded THEN Data ELSE {}
    /\ assets = IF ~recorded THEN {} ELSE {"network", "target", "redis"}
                  \union (IF k = 4 THEN {} ELSE {"restore"})
    /\ hist = IF ~recorded THEN Unseeded
              ELSE IF k = 4 THEN Partial ELSE SeedAnchors
    /\ delivered = FALSE /\ cred = IF k = 4 THEN 4 ELSE 0
    /\ status = NoStatus /\ changed = FALSE /\ serveNo = 0
    /\ now \in 1..MaxMinute /\ Max({hist[s] : s \in Symbols}) <= now
    /\ faults = 0

-----------------------------------------------------------------------------
(* How a run moves                                                         *)

Go(r, step, m) == /\ pc' = [pc EXCEPT ![r] = step]
                  /\ mem' = [mem EXCEPT ![r] = m]

\* One step of a run: a refused check raises Rejected, which main() answers
\* with _persist_failure_receipt.
Step(r, from, ok, to, m) ==
  /\ pc[r] = from
  /\ IF ok THEN Go(r, to, m) ELSE Go(r, "cleanup", mem[r])

Attempt(r) == mem[r].attempt
Named(r, mode) == <<mode, Attempt(r)>>

\* docker create refuses a name in use.
Free(name) == name \notin exists

\* The validators of the failure chain a continuation demands.
ChainRecorded(a) == lease = Past /\ 0..(a - 1) \subseteq evidence

Admissible(a) == IF a = 0 THEN lease = NoRun
                 ELSE ChainRecorded(a) /\ dirOf[a] = NoRun

\* main(): the admission of the release and of the arguments, then
\* ACTIVE_LEASE.exists() for a new epoch and the failure chain and
\* work.exists() for a continuation.
Start(r) ==
  /\ pc[r] = "idle"
  /\ \E a \in Attempts, goal \in 1..now :
       /\ a # 0 => goal = 1
       /\ Go(r, IF Admissible(a) THEN "dir" ELSE "refused",
             [NewRun EXCEPT !.attempt = a, !.goal = goal])
  /\ UNCHANGED <<fileVars, dockerVars, dbVars, serveVars, envVars>>

\* path.mkdir(exist_ok=False): another run may have created it since.
MkdirExistOk(a) == dirOf[a] # Past
MkdirCreates(a) == dirOf[a] = NoRun

\* _private_directory, then _verify_source_signature; a continuation builds its
\* controller now.  A new epoch's directory is named after a fresh uuid.
MakeDirectory(r) ==
  LET a == Attempt(r) IN
  /\ pc[r] = "dir"
  /\ IF a = 0
     THEN Go(r, "lease", mem[r]) /\ UNCHANGED dirOf
     ELSE IF MkdirCreates(a)
     THEN /\ dirOf' = [dirOf EXCEPT ![a] = r]
          /\ Go(r, "snapshots", [mem[r] EXCEPT !.owned = TRUE,
                                               !.rolling = SeedAnchors])
     ELSE Go(r, "refused", mem[r]) /\ UNCHANGED dirOf
  /\ UNCHANGED <<lease, evidence, dockerVars, dbVars, serveVars, envVars>>

\* ACTIVE_LEASE.open("xb").  The loser of a race writes a failure receipt of
\* its own and has no controller.
LeaseCreates == lease = NoRun
TakeLease(r) ==
  /\ pc[r] = "lease"
  /\ IF LeaseCreates
     THEN lease' = r /\ Go(r, "snapshots", [mem[r] EXCEPT !.owned = TRUE])
     ELSE UNCHANGED lease /\ Go(r, "report", mem[r])
  /\ UNCHANGED <<dirOf, evidence, dockerVars, dbVars, serveVars, envVars>>

\* prepare_snapshots: the sources a worker mounts, in the run's own directory.
PrepareSnapshots(r) ==
  /\ Step(r, "snapshots", TRUE, IF Attempt(r) = 0 THEN "legacy" ELSE "existing",
          mem[r])
  /\ UNCHANGED <<fileVars, dockerVars, dbVars, serveVars, envVars>>

-----------------------------------------------------------------------------
(* A new epoch                                                             *)

\* assert_legacy_sources_stopped, whose metadata the end compares.
LegacyBefore(r) ==
  /\ Step(r, "legacy", TRUE, "assets", mem[r])
  /\ UNCHANGED <<fileVars, dockerVars, dbVars, serveVars, envVars>>

\* create_network, create_volume and initialize_volume of the four volumes.
CreateAssets(r) ==
  /\ Step(r, "assets", Free(Named(r, "init")), "source", mem[r])
  /\ assets' = IF Free(Named(r, "init")) THEN Volumes ELSE assets
  /\ UNCHANGED <<fileVars, exists, running, dbVars, serveVars, envVars>>

\* create_database or create_redis; the clone is restored from the accepted
\* dump before the target database exists.
CreateStore(r) ==
  \E s \in {<<"source", Source, "target">>, <<"target", Target, "redis">>,
            <<"redis", Redis, "prepare">>} :
    /\ Step(r, s[1], Free(s[2]), s[3],
            [mem[r] EXCEPT !.created = @ \union {s[2]}])
    /\ exists' = exists \union {s[2]}
    /\ running' = IF Free(s[2]) THEN running \union {s[2]} ELSE running
    /\ UNCHANGED <<fileVars, assets, dbVars, serveVars, envVars>>

\* phase(mode): a worker container runs to its receipt and is removed.
Phase(r, mode, ok, to, m) ==
  Step(r, mode, Free(Named(r, mode)) /\ Data \subseteq running /\ ok, to, m)

Prepare(r) ==
  /\ Phase(r, "prepare", Source \in running, "seed", mem[r])
  /\ UNCHANGED <<fileVars, dockerVars, dbVars, serveVars, envVars>>

\* The seed worker copies the accepted history; run_epoch compares its receipt
\* with the exact counts and anchors.
Seed(r) ==
  LET ok == Source \in running /\ ~delivered /\ hist = Unseeded
  IN /\ Phase(r, "seed", ok, "unsource", [mem[r] EXCEPT !.rolling = SeedAnchors])
     /\ hist' = IF ok THEN SeedAnchors ELSE hist
     /\ UNCHANGED <<fileVars, dockerVars, delivered, cred, serveVars, envVars>>

\* remove_owned_clone(source).
DropSource(r) ==
  /\ Step(r, "unsource", Source \in exists, "batch",
          [mem[r] EXCEPT !.created = @ \ {Source}])
  /\ exists' = exists \ {Source} /\ running' = running \ {Source}
  /\ assets' = assets \ {"source"}
  /\ UNCHANGED <<fileVars, dbVars, serveVars, envVars>>

-----------------------------------------------------------------------------
(* A continuation                                                          *)

ExpectedVolumes(a) == {"network", "target", "redis"}
                      \union (IF a = 5 THEN {} ELSE {"restore"})

\* assert_existing_epoch: only the two data containers run, and exactly the
\* containers and volumes the earlier attempts are known to have left exist.
ExistingEpoch(a) == /\ running = Data /\ exists = Remains(a - 1)
                    /\ assets = ExpectedVolumes(a)

AssertExisting(r) ==
  /\ Step(r, "existing", ExistingEpoch(Attempt(r)),
          CASE Attempt(r) = 3 -> "dump"
            [] Attempt(r) = 5 -> "state"
            [] OTHER -> "repair", mem[r])
  /\ UNCHANGED <<fileVars, dockerVars, dbVars, serveVars, envVars>>

\* history-state, which must be the recorded partial catch-up.
HistoryState(r) ==
  /\ Phase(r, "state", hist = Partial /\ ~delivered, "repair",
           [mem[r] EXCEPT !.rolling = hist])
  /\ UNCHANGED <<fileVars, dockerVars, dbVars, serveVars, envVars>>

\* What stands between an attempt and its first backup: 1 initializes the
\* restore volume, 2 archives and removes the failed initializer, 4 archives
\* and removes the stopped clone and replaces its volume, 5 creates one.
Repair(r) ==
  LET a == Attempt(r)
      ok == a = 2 \/ Free(Named(r, "init"))
      gone == CASE a = 2 -> {<<"init", 0>>} [] a = 4 -> {Clone} [] OTHER -> {}
  IN /\ Step(r, "repair", ok, "dump", mem[r])
     /\ exists' = IF ok THEN exists \ gone ELSE exists
     /\ running' = running \ gone
     /\ assets' = IF ok /\ a # 2 THEN assets \union {"restore"} ELSE assets
     /\ UNCHANGED <<fileVars, dbVars, serveVars, envVars>>

\* rotate-history: the new password was saved in continuation-private.json.
Rotate(r) ==
  /\ Phase(r, "rotate", TRUE, "goal", mem[r])
  /\ cred' = IF pc'[r] = "goal" THEN Attempt(r) ELSE cred
  /\ UNCHANGED <<fileVars, dockerVars, hist, delivered, serveVars, envVars>>

\* The password the catch-up workers of a run are given; attempt 5 reads the
\* one attempt 4 saved.
Password(r) == IF Attempt(r) = 5 THEN 4 ELSE Attempt(r)

-----------------------------------------------------------------------------
(* The bounded audit-only catch-up                                         *)

\* required: the bars a batch to end appends from the anchors a.
Required(a, end) ==
  MapThenSumSet(LAMBDA s : IF end > a[s] THEN end - a[s] ELSE 0, Symbols)

\* catchup_end_exclusive_ms: the ends it may lower its proposal to.
BatchEnds(a, target) ==
  {e \in Earliest(a) + 1..target :
     /\ e <= Earliest(a) + AppendLimit \div Cardinality(Symbols)
     /\ Required(a, e) <= AppendLimit}

\* The end of the gap: the operator's for a new epoch, the clock's for a
\* continuation and for every final catch-up.
SetGoal(r) ==
  /\ \/ Step(r, "goal", TRUE, "batch", [mem[r] EXCEPT !.goal = now])
     \/ Step(r, "final", TRUE, "batch", [mem[r] EXCEPT !.last = now, !.batch = 0])
  /\ UNCHANGED <<fileVars, dockerVars, dbVars, serveVars, envVars>>

Final(r) == mem[r].last # 0
Goal(r) == IF Final(r) THEN mem[r].last ELSE mem[r].goal

AfterLoopUnsaved(r) == IF Final(r) THEN "qualify" ELSE "final"

\* What follows a finished loop.
AfterLoop(r) ==
  IF Final(r) THEN IF Attempt(r) = 5 THEN "post" ELSE "qualify"
  ELSE CASE Attempt(r) = 0 -> "dump"
         [] Attempt(r) = 5 -> "final"
         [] OTHER -> "volume"

\* batches > 32 raises.
BatchesUncounted(r) == TRUE
BatchesLeft(r) == mem[r].batch < MaxBatches

\* One turn of a catch-up loop: done, refused, or a worker with the next end.
NextBatch(r) ==
  LET ends == BatchEnds(mem[r].rolling, Goal(r))
      ok == ends # {} /\ BatchesLeft(r) /\ Free(Named(r, "catchup"))
  IN /\ IF Earliest(mem[r].rolling) >= Goal(r)
        THEN /\ Step(r, "batch", TRUE, AfterLoop(r), mem[r])
             /\ UNCHANGED <<exists, running>>
        ELSE /\ Step(r, "batch", ok, "catching",
                     [mem[r] EXCEPT !.batch = @ + 1, !.end = Max(ends),
                       !.base = hist,
                       !.created = @ \union {Named(r, "catchup")}])
             /\ exists' = IF ok THEN exists \union {Named(r, "catchup")} ELSE exists
             /\ running' = IF ok THEN running \union {Named(r, "catchup")}
                           ELSE running
     /\ UNCHANGED <<fileVars, assets, dbVars, serveVars, envVars>>

CatchupRuns(r) == mem[r].owned /\ Named(r, "catchup") \in running

\* recover(publish=False) in the worker, which outlives its controller.
AppendBar(r, s) ==
  /\ CatchupRuns(r) /\ Data \subseteq running /\ cred = Password(r)
  /\ hist[s] < mem[r].end
  /\ hist' = [hist EXCEPT ![s] = @ + 1]
  /\ UNCHANGED <<pc, mem, fileVars, dockerVars, delivered, cred, serveVars, envVars>>

\* The anchors the controller carries to the next batch.  run_epoch moves every
\* symbol to the end of the batch, run_continuation those that were behind it.
RollAll(r) == [s \in Symbols |-> mem[r].end]
Roll(r) == IF Attempt(r) = 0 THEN [s \in Symbols |-> mem[r].end]
           ELSE [s \in Symbols |-> Max({mem[r].end, mem[r].rolling[s]})]

\* The receipt's counts against the anchors: only run_continuation compares.
AppendedAsExpected(r) ==
  \/ Attempt(r) = 0
  \/ \A s \in Symbols : Max({0, mem[r].end - mem[r].base[s]})
                         = Max({0, mem[r].end - mem[r].rolling[s]})

\* The worker exits with its receipt and docker wait returns to its run.
CatchupEnds(r) ==
  /\ CatchupRuns(r) /\ \A s \in Symbols : hist[s] >= mem[r].end
  /\ running' = running \ {Named(r, "catchup")}
  /\ IF pc[r] # "catching" THEN UNCHANGED <<pc, mem, exists>>
     ELSE LET ok == AppendedAsExpected(r) /\ ~delivered IN
          /\ Step(r, "catching", ok, "batch",
                  [mem[r] EXCEPT !.rolling = Roll(r),
                                 !.created = @ \ {Named(r, "catchup")}])
          /\ exists' = IF ok THEN exists \ {Named(r, "catchup")} ELSE exists
  /\ UNCHANGED <<fileVars, assets, dbVars, serveVars, envVars>>

\* The worker exits with an error, or docker wait gives up on it.
CatchupFails(r) ==
  /\ CatchupRuns(r) /\ faults < MaxFaults /\ faults' = faults + 1
  /\ running' \in {running, running \ {Named(r, "catchup")}}
  /\ IF pc[r] = "catching" THEN Go(r, "cleanup", mem[r])
     ELSE UNCHANGED <<pc, mem>> /\ running' # running
  /\ UNCHANGED <<fileVars, exists, assets, dbVars, serveVars, now>>

-----------------------------------------------------------------------------
(* backup_and_verify                                                       *)

\* create_volume and initialize_volume for the clone of the second backup.
CreateRestoreVolume(r) ==
  /\ Step(r, "volume", Free(Named(r, "init")), "dump", mem[r])
  /\ assets' = assets \union {"restore"}
  /\ UNCHANGED <<fileVars, exists, running, dbVars, serveVars, envVars>>

\* stream_private_pg_dump: one transaction's view of the database.
Dump(r) ==
  /\ Step(r, "dump", Target \in running, "clone", [mem[r] EXCEPT !.dump = hist])
  /\ UNCHANGED <<fileVars, dockerVars, dbVars, serveVars, envVars>>

\* create_database, wait_postgres and restore_accepted_dump.
RestoreClone(r) ==
  /\ Step(r, "clone", Free(Clone), "verify",
          [mem[r] EXCEPT !.created = @ \union {Clone}])
  /\ exists' = exists \union {Clone}
  /\ running' = IF Free(Clone) THEN running \union {Clone} ELSE running
  /\ UNCHANGED <<fileVars, assets, dbVars, serveVars, envVars>>

\* verify_restore: database and clone are both exactly the expected chains, and
\* neither has a queue row.
RestoreExact(r) == /\ Clone \in running /\ mem[r].dump = mem[r].rolling
                   /\ hist = mem[r].rolling /\ ~delivered

VerifyRestore(r) ==
  /\ Phase(r, "verify", RestoreExact(r), "unclone",
           [mem[r] EXCEPT !.verified = mem[r].dump])
  /\ UNCHANGED <<fileVars, dockerVars, dbVars, serveVars, envVars>>

AfterBackup(r) ==
  CASE Attempt(r) = 0 \/ (mem[r].round = 1 /\ Attempt(r) # 5) -> "final"
    [] mem[r].round = 1 /\ Attempt(r) = 5 -> "qualify"
    [] mem[r].round = 0 /\ Attempt(r) = 5 -> "goal"
    [] OTHER -> "rotate"

\* pg_amcheck, then remove_owned_clone(restore).
RemoveClone(r) ==
  /\ Step(r, "unclone", Clone \in running, AfterBackup(r),
          [mem[r] EXCEPT !.round = @ + 1, !.created = @ \ {Clone}])
  /\ IF Clone \in running
     THEN /\ exists' = exists \ {Clone} /\ running' = running \ {Clone}
          /\ assets' = assets \ {"restore"}
     ELSE UNCHANGED dockerVars
  /\ UNCHANGED <<fileVars, dbVars, serveVars, envVars>>

\* Attempt 5 reads the history again and compares it with its own account.
PostState(r) ==
  /\ Phase(r, "post", hist = mem[r].rolling /\ ~delivered, "volume", mem[r])
  /\ UNCHANGED <<fileVars, dockerVars, dbVars, serveVars, envVars>>

-----------------------------------------------------------------------------
(* Qualification, serve and its restart                                    *)

\* The qualify worker delivers the minutes since the final catch-up.
Qualify(r) ==
  /\ Phase(r, "qualify", TRUE, "serve", mem[r])
  /\ hist' = IF pc'[r] = "serve" THEN [s \in Symbols |-> now] ELSE hist
  /\ delivered' = (delivered \/ pc'[r] = "serve")
  /\ UNCHANGED <<fileVars, dockerVars, cred, serveVars, envVars>>

\* run_worker for serve: created, started and inspected, never waited for.
StartServe(r) ==
  /\ Step(r, "serve", Free(Serve), "await",
          [mem[r] EXCEPT !.created = @ \union {Serve}])
  /\ exists' = exists \union {Serve}
  /\ running' = IF Free(Serve) THEN running \union {Serve} ELSE running
  /\ serveNo' = IF Free(Serve) THEN 1 ELSE serveNo
  /\ UNCHANGED <<fileVars, assets, dbVars, status, changed, envVars>>

\* Polls for the first RUNNING_NONTRADING status, then validate_running_status.
AwaitStatus(r) ==
  /\ pc[r] = "await" /\ status.state = "RUNNING"
  /\ Step(r, "await", Fresh(status), "stop", [mem[r] EXCEPT !.first = status])
  /\ changed' = FALSE
  /\ UNCHANGED <<fileVars, dockerVars, dbVars, status, serveNo, envVars>>

\* The first status is validated again; docker stop lets serve finish its cycle.
StopServe(r) ==
  /\ Step(r, "stop", Fresh(mem[r].first), "start", mem[r])
  /\ running' = IF Fresh(mem[r].first) THEN running \ {Serve} ELSE running
  /\ UNCHANGED <<fileVars, exists, assets, dbVars, serveVars, envVars>>

RestartServe(r) ==
  /\ Step(r, "start", TRUE, "restart", mem[r])
  /\ running' = running \union {Serve} /\ serveNo' = 2
  /\ UNCHANGED <<fileVars, exists, assets, dbVars, status, changed, envVars>>

\* all(current watermark > first watermark)
ProgressedOrSame(r) == status.mark >= mem[r].first.mark
Progressed(r) == status.mark > mem[r].first.mark

\* One turn of restart_serve_and_validate's loop.
PollRestart(r) ==
  /\ pc[r] = "restart" /\ changed
  /\ \/ /\ status.state # "RUNNING" \/ ~Fresh(status)
        /\ Go(r, "cleanup", mem[r])
     \/ /\ status.state = "RUNNING" /\ Fresh(status) /\ Progressed(r)
        /\ Step(r, "restart", Serve \in running, "after",
                [mem[r] EXCEPT !.seen = status])
  /\ UNCHANGED <<fileVars, dockerVars, dbVars, serveVars, envVars>>

NeverTimesOut(r) == pc[r] = "await" /\ FALSE

\* 180 seconds, or the deadline of the run, went by without such a status.
WaitTimesOut(r) ==
  /\ \/ Step(r, "await", FALSE, "stop", mem[r])
     \/ Step(r, "restart", FALSE, "after", mem[r])
  /\ UNCHANGED <<fileVars, dockerVars, dbVars, serveVars, envVars>>

\* The legacy metadata and the recorded evidence are those of the beginning.
CompareAfter(r) ==
  /\ Step(r, "after", Attempt(r) = 0 \/ ChainRecorded(Attempt(r)), "save", mem[r])
  /\ UNCHANGED <<fileVars, dockerVars, dbVars, serveVars, envVars>>

SaveReceipt(r) ==
  /\ Step(r, "save", TRUE, "passed", mem[r])
  /\ UNCHANGED <<fileVars, dockerVars, dbVars, serveVars, envVars>>

-----------------------------------------------------------------------------
(* Failure                                                                 *)

\* The container the command of a step is about, where it creates one.
Job(r) == CASE pc[r] = "source" -> Source
            [] pc[r] = "target" -> Target
            [] pc[r] = "redis" -> Redis
            [] pc[r] = "clone" -> Clone
            [] pc[r] = "serve" -> Serve
            [] pc[r] \in {"assets", "volume"} -> Named(r, "init")
            [] pc[r] = "repair" /\ Attempt(r) # 2 -> Named(r, "init")
            [] pc[r] = "batch" -> Named(r, "catchup")
            [] pc[r] \in WorkerModes -> Named(r, pc[r])
            [] OTHER -> OldWorker

\* _create_container lists a container between docker create and docker start:
\* what a failing step leaves made, listed and running.
Listed(made, listed, up) == (up => made) /\ (listed => made)
Effects(made, listed, up) == (up => listed) /\ (listed => made)

\* What a failing step may have done to the volumes and to the database.
AssetsLeft(r) ==
  CASE pc[r] = "assets" -> {assets \union v : v \in SUBSET Volumes}
    [] pc[r] = "volume" \/ (pc[r] = "repair" /\ Attempt(r) = 5) ->
         {assets, assets \union {"restore"}}
    [] OTHER -> {assets}
RowsLeft(r) ==
  {<<hist, delivered>>}
  \union IF ~Data \subseteq running THEN {}
         ELSE CASE pc[r] = "seed" -> {<<SeedAnchors, delivered>>}
                [] pc[r] = "qualify" -> {<<hist, TRUE>>,
                                         <<[s \in Symbols |-> now], TRUE>>}
                [] OTHER -> {}

\* A Docker command of the run fails, with or without its effect.
CommandFails(r) ==
  /\ pc[r] \in Working \ {"catching"} /\ faults < MaxFaults
  /\ faults' = faults + 1
  /\ \E made, listed, up \in BOOLEAN :
       LET job == Job(r) IN
       /\ Effects(made, listed, up) /\ (made => Free(job))
       /\ exists' = IF made THEN exists \union {job} ELSE exists
       /\ running' = IF up THEN running \union {job} ELSE running
       /\ Go(r, "cleanup",
             [mem[r] EXCEPT !.created = IF listed THEN @ \union {job} ELSE @])
  /\ assets' \in AssetsLeft(r)
  /\ \E rows \in RowsLeft(r) : hist' = rows[1] /\ delivered' = rows[2]
  /\ UNCHANGED <<fileVars, cred, serveVars, now>>

\* A step of several commands fails between them: docker rm and docker volume
\* rm of a disposable clone, ALTER ROLE and the receipt of rotate-history, the
\* stop of serve and its start.
HalfDone(r) ==
  /\ faults < MaxFaults /\ faults' = faults + 1
  /\ \/ \E c \in {<<"unsource", Source>>, <<"unclone", Clone>>} :
          /\ pc[r] = c[1]
          /\ exists' = exists \ {c[2]} /\ running' = running \ {c[2]}
          /\ Go(r, "cleanup", [mem[r] EXCEPT !.created = @ \ {c[2]}])
          /\ UNCHANGED <<assets, dbVars>>
     \/ /\ pc[r] = "repair" /\ Attempt(r) = 4
        /\ exists' = exists \ {Clone} /\ running' = running \ {Clone}
        /\ assets' \in {assets, assets \ {"restore"}}
        /\ Go(r, "cleanup", mem[r]) /\ UNCHANGED dbVars
     \/ /\ pc[r] = "rotate" /\ Data \subseteq running /\ cred' = Attempt(r)
        /\ Go(r, "cleanup", mem[r]) /\ UNCHANGED <<dockerVars, hist, delivered>>
     \/ /\ pc[r] = "stop" /\ running' = running \ {Serve}
        /\ Go(r, "cleanup", mem[r]) /\ UNCHANGED <<exists, assets, dbVars>>
  /\ UNCHANGED <<fileVars, serveVars, now>>

\* stop_owned_after_failure: the clones, serve and what the run still lists,
\* never the target database or Redis.
CandidatesWithData(r) == {Source, Clone, Serve} \union mem[r].created
Candidates(r) == ({Source, Clone, Serve} \union mem[r].created) \ Data

\* A failing stop is swallowed, as is the expired deadline of the run.
Cleanup(r) ==
  /\ pc[r] = "cleanup"
  /\ \E left \in SUBSET (Candidates(r) \intersect running) :
       /\ left # {} => faults < MaxFaults
       /\ faults' = IF left = {} THEN faults ELSE faults + 1
       /\ running' = running \ (Candidates(r) \ left)
       /\ Go(r, "report", [mem[r] EXCEPT !.left = left])
  /\ UNCHANGED <<fileVars, exists, assets, dbVars, serveVars, now>>

\* _persist_failure_receipt: create-only.  It is no evidence a continuation
\* accepts: the hashes and container identities of that are in the release.
Report(r) ==
  /\ pc[r] = "report"
  /\ Go(r, "failed", mem[r])
  /\ UNCHANGED <<fileVars, dockerVars, dbVars, serveVars, envVars>>

\* The run's process is killed; it writes no receipt.
Kill(r) ==
  /\ pc[r] \in Working \union {"dir", "lease", "cleanup", "report"}
  /\ faults < MaxFaults /\ faults' = faults + 1
  /\ Go(r, "killed", mem[r])
  /\ UNCHANGED <<fileVars, dockerVars, dbVars, serveVars, now>>

-----------------------------------------------------------------------------
(* The surroundings: containers with a time limit, serve, the clock        *)

\* A worker reaches its timeout -s KILL, a clone its watchdog.
JobExpires(c) ==
  /\ c \in running \ (Data \union {Serve}) /\ c[1] # "catchup"
  /\ running' = running \ {c}
  /\ UNCHANGED <<pc, mem, fileVars, exists, assets, dbVars, serveVars, envVars>>

\* A cycle of serve: every due minute delivered and RUNNING, or a pause.
ServeReports ==
  /\ Serve \in running /\ Data \subseteq running
  /\ \/ /\ hist' = [s \in Symbols |-> now] /\ delivered' = TRUE
        /\ status' = [state |-> "RUNNING", at |-> now, mark |-> now, by |-> serveNo]
     \/ /\ UNCHANGED <<hist, delivered>>
        /\ status' = [state |-> "PENDING", at |-> now, mark |-> Earliest(hist),
                      by |-> serveNo]
  /\ changed' = TRUE
  /\ UNCHANGED <<pc, mem, fileVars, dockerVars, cred, serveNo, envVars>>

\* Serve ends by itself with a FAILED_CLOSED status.
ServeFails ==
  /\ Serve \in running /\ faults < MaxFaults /\ faults' = faults + 1
  /\ running' = running \ {Serve}
  /\ status' = [status EXCEPT !.state = "FAILED", !.at = now, !.by = serveNo]
  /\ changed' = TRUE
  /\ UNCHANGED <<pc, mem, fileVars, exists, assets, dbVars, serveNo, now>>

Tick == /\ now < MaxMinute /\ now' = now + 1
        /\ UNCHANGED <<pc, mem, fileVars, dockerVars, dbVars, serveVars, faults>>

Creation(r) == \/ LegacyBefore(r) \/ CreateAssets(r) \/ CreateStore(r)
               \/ Prepare(r) \/ Seed(r) \/ DropSource(r)
Continuation(r) == \/ AssertExisting(r) \/ HistoryState(r) \/ Repair(r)
                   \/ Rotate(r) \/ PostState(r)
Backup(r) == \/ CreateRestoreVolume(r) \/ Dump(r) \/ RestoreClone(r)
             \/ VerifyRestore(r) \/ RemoveClone(r)
Serving(r) == \/ Qualify(r) \/ StartServe(r) \/ AwaitStatus(r) \/ StopServe(r)
              \/ RestartServe(r) \/ PollRestart(r) \/ WaitTimesOut(r)
              \/ CompareAfter(r) \/ SaveReceipt(r)
RunStep(r) == \/ Start(r) \/ MakeDirectory(r) \/ TakeLease(r)
              \/ PrepareSnapshots(r) \/ Creation(r) \/ Continuation(r)
              \/ SetGoal(r) \/ NextBatch(r) \/ Backup(r) \/ Serving(r)
              \/ Cleanup(r) \/ Report(r)
WorkerStep(r) == (\E s \in Symbols : AppendBar(r, s)) \/ CatchupEnds(r)

Next == \/ \E r \in Runs : \/ RunStep(r) \/ WorkerStep(r) \/ CatchupFails(r)
                           \/ CommandFails(r) \/ HalfDone(r) \/ Kill(r)
        \/ \E c \in running : JobExpires(c)
        \/ ServeReports \/ ServeFails \/ Tick

Spec == Init /\ [][Next]_vars

\* Every wait of a run is bounded by a deadline: its process and the catch-up
\* worker, unless killed, go on.
FairSpec == /\ Spec
            /\ \A r \in Runs : WF_vars(RunStep(r)) /\ WF_vars(WorkerStep(r))

-----------------------------------------------------------------------------
(* Properties                                                              *)

\* An epoch and each of its continuations belong to one execution for ever:
\* whoever passes the create-only lease or directory is the only one that ever
\* gives a Docker command, however the first ended (main(): ACTIVE_LEASE,
\* work.exists(), mkdir, the pinned failure chain).
OneOwner == \A r1, r2 \in Runs : mem[r1].owned /\ mem[r2].owned => r1 = r2

\* No step of a run, of its cleanup or of a kill stops the target database or
\* Redis, or removes their volumes (stop_owned_after_failure keeps them "for
\* forensic review").
ForensicsKept ==
  [][/\ Data \intersect running \subseteq running'
     /\ {"target", "redis"} \intersect assets \subseteq assets']_vars

\* When a run that was not killed has reported its failure, no worker, clone,
\* initializer or serve is left running except one whose docker stop failed
\* (stop_owned_after_failure over what _create_container listed).
FailureStopsWorkers ==
  \A r \in Runs : mem[r].owned /\ pc[r] \in {"report", "failed"}
                   => running \subseteq Data \union mem[r].left

\* The anchors the controller computes from batch ends are the real last bars of
\* event_audit whenever no worker is appending: the base of the next batch, of
\* the restore comparison and of the expected row counts (rolling in run_epoch
\* and run_continuation).
BetweenWorkers == {"goal", "batch", "volume", "dump", "clone", "verify",
                   "unclone", "final", "post", "qualify"}
RollingIsHistory ==
  \A r \in Runs : pc[r] \in BetweenWorkers /\ mem[r].rolling # Unseeded
                   => mem[r].rolling = hist

\* A batch makes progress and stays within MAX_CATCHUP_BARS, from unequal
\* anchors too, and a gap always admits one: catchup_end_exclusive_ms never
\* refuses for lack of progress.
BatchIsBounded ==
  \A r \in Runs :
    /\ pc[r] = "catching" =>
         /\ Required(mem[r].rolling, mem[r].end) <= AppendLimit
         /\ Earliest(mem[r].rolling) < mem[r].end /\ mem[r].end <= Goal(r)
    /\ pc[r] = "batch" /\ Earliest(mem[r].rolling) < Goal(r)
         => BatchEnds(mem[r].rolling, Goal(r)) # {}

\* A catch-up worker is given the password the history role has, after every
\* rotation and failed attempt (rotate-history, continuation-private.json,
\* read_attempt_04_rotated_history_secret).
CredentialIsCurrent ==
  \A r \in Runs : pc[r] = "catching" => Password(r) = cred

\* A batch of run_epoch or of a continuation starts from the real anchors, asks
\* for bars within its limit that make progress, and logs in with the password
\* in force, whatever attempts failed before it.
CatchupIsExact == RollingIsHistory /\ BatchIsBounded /\ CredentialIsCurrent

\* Nothing is published before a restored backup was found equal to the
\* history: of the whole first gap, and for attempt 5 of the final tail as well
\* (backup_and_verify before qualify).
PublishedIsBackedUp ==
  delivered => \E r \in Runs :
    /\ mem[r].owned
    /\ \A s \in Symbols :
         mem[r].verified[s] >= IF Attempt(r) = 5 THEN mem[r].last ELSE mem[r].goal

\* A receipt with PASS means that the accepted status is ahead of the audit-only
\* history by a minute delivered live, and that the minute is in the database
\* (restart_serve_and_validate).
PassIsLive ==
  \A r \in Runs : pc[r] = "passed" =>
    /\ mem[r].seen.mark > mem[r].last
    /\ \A s \in Symbols : hist[s] >= mem[r].seen.mark

\* An execution that owns the epoch ends, whatever the workers and serve do: every
\* wait has a deadline (docker wait, the two polls of status.json).
RunsEnd == \A r \in Runs : mem[r].owned ~> pc[r] \in Ended

\* The restart check has seen the restarted process: the status it accepts was
\* written by the second start of serve (docs: qualification checks "a
\* controlled restart within this new epoch").
RestartIsObserved ==
  \A r \in Runs : pc[r] = "passed" => mem[r].seen.by = 2
=============================================================================

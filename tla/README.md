# Verification of the Kairos non-trading runtime

TLA+ models of the programs of `kairos-deploy` that create, run, boot, hand over
and recover the runtime, the configurations that check them with TLC, and proofs checked by TLAPS. Paths of the repository are
relative to `src/`; line numbers are in `PROJECT.json` (`map`).

## 1. The system

`scripts/` is a set of single-purpose programs that create, run, stop, boot,
hand over and recover one *runtime epoch*: a PostgreSQL database, a Redis and a
worker container that collect closed one-minute bars for five symbols, publish
them on a Redis stream and consume them again, without trading.

| Part | State it keeps | Operations | Interacts with | What makes it correct |
| --- | --- | --- | --- | --- |
| Epoch worker, `runtime_epoch_worker.py` | `event_audit` chain per symbol, `message_outbox`, `message_inbox`; stream, publication ledger, consumer group; `status.json` | `flush`, `recover`, `consume`, supervisor loop, duplicate proof, graceful stop | Binance REST, PostgreSQL, Redis | exactly-once acceptance in market order; acknowledgement only after completion; truthful status; bounded backlog |
| Latched boot, `runtime_epoch_boot.py` | create-only latch, containers, restore clone | admission, two verified backups, catch-up, serve start, fail-closed cleanup | Docker, worker | one boot at a time, no automatic retry, start only on a verified state, PASS means progress |
| Successor and current epochs, `runtime_epoch_successor.py`, `runtime_epoch_current*.py` | two mutexes, one work directory per epoch and per boot, latches, signed receipts | create an epoch, restart and watch serve, boot after an outage | controller, Docker | one current epoch at a time, a completed boot is earned, a failed one is never passed over |
| Epoch controller, `runtime_epoch_controller.py` | containers, volumes, owner lease, state file | create phases, continue, stop, restart | Docker, worker | one owner, phases in order, forensics kept |
| Recovery generations, `runtime_epoch_{incident,read,feed,r7,clean_queue}_*` | latch per incident | adjudicate, replay, observe | worker, Docker | each incident once |
| Redis AOF recovery, `runtime_epoch_redis_*` | latches, a backup and a clone of the append-only file | qualify on the copy, adjudicate, verify the original | Docker, Redis | no accepted publication lost, the verified original is the replay of the reviewed file |
| Controlled runtime, `controlled_runtime_*`, on `fresh_runtime_recovery.py` | lease, run directory, markers, temporary role, files inside the primary, receipts | rehearse on a clone, apply to the primary, classify a lost COMMIT, clean up | Docker, PostgreSQL | only a rehearsed history is transformed, once; reports are true; nothing is left behind |
| Cold Redis acceptance, `cold_redis_acceptance.py` | owned volume and containers, receipt | copy, start the copy, scan | Docker, Redis | the receipt tells the truth about the source |
| Legacy outbox tools, `tests/offline_outbox_*`, `tests/legacy_outbox_inspection` | receipts, publication cursor | inspect, apply a prefix, reconcile | PostgreSQL, Redis | a row is published at most once and only under a receipt |
| Bounded build, `bounded_build.py`, `buildkit_resource_gate.py` | shared lease, BuildKit server, builder, images | qualify cancellation of a build | Docker | nothing outlives the lease, PASS means cancelled |
| Alerts, canary, soak, secrets, restic | receipts | one run each | Docker, files | one attempt |
| Validators, Compose files, dashboards | none | static checks | none | reached by unit tests |

What is hard: two asyncio tasks of one process share PostgreSQL and Redis; a
command may fail before or after the server executed it; a process may be killed
between any two steps and is started again; counters are read in separate
statements while the other task moves on; the clock moves meanwhile; containers
outlive the controller that started them. `PROJECT.json` lists each such place
under `hazards`, at its line, with the properties that would catch it.

## 2. Modules

```
EpochSymbols <- RedisStream <- EpochConsumer <-+
EpochSymbols <- EpochBatch <-------------------+- EpochDelivery --refines--> BarDelivery
EpochDelivery <- EpochDelivery_proofs
EpochDelivery <- MCEpochDelivery              (EXTENDS unless marked)
EpochBoot <- EpochBoot_proofs,  EpochBoot <- MCEpochBoot
EpochController <- EpochController_proofs,  EpochController <- MCEpochController
MCEpochController <- MCEpochEnds --INSTANCE--> EpochBoot
ControlledPrimary <- ControlledPrimary_proofs,  ControlledPrimary <- MCControlledPrimary
ControlledClone <- ControlledClone_proofs
ControlledWorker <- ControlledClone <-+
ColdRedis, AofRecovery <--------------+- MCEvidence
CurrentEpoch, BoundedBuild <----------- MCCurrentBuild
CurrentEpoch <- CurrentEpoch_proofs,  BoundedBuild <- BoundedBuild_proofs
ColdRedis, AofRecovery <- Evidence_proofs
```

**EpochSymbols, RedisStream.** A bar is `<<symbol, minute>>`. `RedisStream` is
the Redis of an epoch: the stream, the publication ledger and the one consumer
group, with the commands the worker uses (`PUBLICATION_LUA`, `XADD`,
`XREADGROUP`, `XAUTOCLAIM`, `XACK`) as operators over them. Redis is external:
its commands are modelled from the calls and the Lua text in the worker.

**EpochConsumer.** The task `consume`: the transport's three kinds of read (own
pending entries, reclaim of stale ones, new ones), the bounded reconnects of
`runtime_redis_call`, then per entry the inbox claim, its commit and `XACK`. A
failed command may or may not have been executed.

**EpochBatch.** `bounded_runtime_end` and `required_bars`, pure operators.

**EpochDelivery.** The process: the supervisor loop of `runtime()` with both
flushes, the per-symbol tasks of `recover` that append bars with their outbox rows
and may fail together (`failure`), `source_wait_reason` on the group of their
exceptions, the drain loop whose
counters are separate reads, the report, the duplicate proof of `qualify`, the
waits, the graceful stop and the close that cancels the consumer. `Kill` and
`Start` model processes that die anywhere and are started again. The variable
`spc` is the place in `runtime()`, `cpc` the place in `consume`.

**BarDelivery.** What delivery promises: each bar goes through absent, enqueued,
accepted, completed, one stage at a time, and a bar never overtakes an earlier
bar of its symbol.

**EpochBoot.** `main() --execute` of `runtime_epoch_boot.py`: `pc[r]` is the
place of run `r` in `main` and `run_boot`, `mem[r]` its local variables and
proofs. `latch` is `boot.active`; `up` the three epoch containers; `live` the
disposable ones (reader and catch-up workers, restore clone), which go on when
their controller dies; `volume` the restore volume. The five chains move
together and are one minute, the queue tables one count. The serving worker is
reduced to the writes a boot can see: bars, delivery progress, `status.json`.

**EpochController.** `main() --execute` of `runtime_epoch_controller.py`. `pc[r]`
is the place of run `r`; `mem[r]` its local variables: the attempt (0 creates an
epoch, 1 to 5 continue the recorded one), the goals of the two catch-ups, the
rolling anchors, the last dump and the last verified restore, the containers it
lists (`created`) and the two statuses of the restart check. `lease` is
`runtime-epoch.active`, `dirOf` the continuation directories, `evidence` the
recorded failures the validators accept; these hold hashes and container
identities pinned in the release, so no run of the model can produce one.
`exists`, `running` and `assets` are what Docker holds, `hist` the last minute of
each symbol, `cred` the attempt whose history password the role has.
Disjuncts `Creation`, `Continuation`, `Backup` and `Serving` of `RunStep` follow
`run_epoch`, `run_continuation`, `backup_and_verify` and
`restart_serve_and_validate`; `CommandFails`, `HalfDone`, `Kill` and `JobExpires`
are what may go wrong at each of their commands; `Cleanup` and `Report` are
`stop_owned_after_failure` and `_persist_failure_receipt`. `AppendBar` belongs to
the catch-up worker, which goes on when its controller dies.

**ControlledWorker, ControlledClone.** The worker container
(`controlled_runtime_worker.py`) runs one outer transaction: migrations,
quarantine of the expired row, roles. `server` is that transaction as PostgreSQL
has it; it outlives the process that sent `COMMIT`, so the classifier on a second
connection may come too early. `ControlledClone` is the controller around it
(`fresh_runtime_recovery.py`, extended by `controlled_runtime_transition.py`):
supervisor, create-only lease, cold copy, backup, two restores, rehearsal, a last
restore, and three proofs that the primary is unchanged. The primary's history is
a version number that others may raise at any time. `ApplyPrimary` is the apply
worker on the primary, admitted by an accepted clone.

**ControlledPrimary.** `controlled_runtime_primary.py` around that worker:
supervisor and child (`sup`, `proc`), the controller's place and attributes (`pc`,
`mem`), the run directory and lease (`disk`), and the primary with its containers,
remote files, temporary role and schema (`world`). Every Docker command may fail
before or after it took effect, the child may be killed anywhere, and the worker
goes on without it.

**ColdRedis.** `cold_redis_acceptance.py`: copy file by file with manifests before
and after, a Redis on the copy, the paged scan with its limit, the checks of the
source and the receipt. A volume is its append-only parts in the order a Redis loads
them and none or one `dump.rdb`: a manifest with parts, the one file `appendonly.aof`
of older servers, or only a `dump.rdb`, the three layouts `_persistence_layout`
accepts. `Served` is what the clone loads from it with the options the script gives
it, `Holds` what the original was stopped with. The original may be started, appended
to, upgraded from `appendonly.aof`, rewritten and saved between any two steps.

**AofRecovery.** `runtime_epoch_redis_recovery.py` with parser, copies and
adjudication. A file is a sequence of commands; `Replay` is what Redis makes of it
under an ACL (commands inside `MULTI` run with the default user's rights), and
`ParseCommand` what the parser makes of it. Initial files are built from a few
blocks, whole and damaged.

**BoundedBuild.** The two build qualifiers share one lease: `bounded_build.py` goes
through Compose, `buildkit_resource_gate.py` through buildx. Their phases are the
same sequence with a few differences. Create and export may take effect after the
client is gone.

**CurrentEpoch.** The successor, the current epochs and their boots: `job` is the
tool each process runs and its place, `mutex` the two operating-system mutexes,
`work` and `boots` the directories, `status` the file with the serve process that
wrote it (`by`), `altered` the signed inputs, receipts and resources others have
changed. `StartStore`, the phases, `Look` and the cleanup follow `execute` of the
boot. Each phase (`boot-state`, the proof of a restore, `boot-catchup`, `boot-state`
again, `boot-redis-state`; for a new epoch the ones that fill the history, as one) is a
worker container that `StartPhase` creates and starts and `EndPhase` waits for. A
`docker wait` that fails leaves the worker running; it ends later with its work or at
its time limit (`TransientEnds`), as does the clone of a restore.

Operators whose names say what they get wrong (`PublicationLuaNoCheck`,
`LatchOverwritten`, ...) stand before the definition they falsify; they are the
mutants of `PROJECT.json`, and no specification uses them.

## 3. Runs

| Run | Shows |
| --- | --- |
| `delivery_safety` | acceptance exactly as the ledger says, acknowledgement after completion, a truthful `RUNNING` and a wait that hides no other failure, a stop with nothing open, completion in order, a harmless duplicate, and refinement of `BarDelivery` |
| `delivery_catchup` | after an outage of several minutes bars enter the stream in order and unpublished rows stay within `MAX_PENDING` |
| `delivery_liveness` | every enqueued bar is completed or the process ends; a process that was told to stop, or lost its consumer, ends |
| `delivery_stop` | violation: see section 6 |
| `boot_safety` | one boot at a time; no retry without review; serve started on a state both backups verified, alone, and stopped by a failure; PASS means a newly delivered bar; evidence is kept |
| `boot_stale` | violation: see section 6 |
| `controller_safety` | on a new host and on every host that recorded attempts left: one owner, failure leaves only the data containers, a restored backup before any publication, exact and bounded catch-up with the current password, PASS means live progress, forensics kept |
| `controller_restart` | violation: see section 6 |
| `epoch_ends` | an execution of the controller that owns the epoch ends, and so does a boot that took the latch |
| `current_build` | a completed boot of a current epoch was accepted on a status its own serve wrote, none follows a failed one, one current epoch runs at a time; the build lease covers whatever is left in Docker, and PASS means that the workers were cancelled |
| `primary` | PASS is complete, reports about role, schema and primary are true, no remote file is forgotten, the role is not dropped under a worker and the primary is started once, and it ends stopped or reported |
| `evidence` | a cold receipt is true of the source; a verified recovery is a replay of the reviewed file; the primary is transformed only from a rehearsed history, what a classifier says stays true, no container is forgotten, an accepted clone is one history |

Several properties are conjunctions: `CatchupIsExact`
(`RollingIsHistory`, `BatchIsBounded`, `CredentialIsCurrent`), `ServeIsGuarded`
(`ServeStartsVerified`, `ServeRunsAlone`, `FailureStopsServe`), `AcceptedExactly`
(`AcceptedOnce`, `PublishedIsAccepted`), `CatchupIsOrderly` (`StreamOrdered`,
`PendingWithinCap`), `StatusIsTruthful` (`RunningIsTruthful`,
`WaitingIsForTheSource`) and `ServingEnds` (`ShutdownEnds`, `DeadConsumerEnds`).
`epoch_ends`, `current_build` and `evidence` run programs that never meet: their
variable `part` says which one moves, and the others rest in an initial state.

Bounds. `delivery_safety`: two symbols, two minutes, two consumer instances,
three processes, two failures; two symbols are needed for ordering across
symbols and two instances for reclaim. `delivery_catchup` trades the second
symbol for four minutes with a cap of two, so that an outage needs several
batches and interrupted ones add up. Liveness has one symbol and one instance
because the promises are per bar. `boot_safety`: two runs, three minutes (a gap,
a bar delivered by the new worker and a stale status all fit), two failures,
which is what an orphaned container needs (a failing command, then a kill). The
same invariants were also checked with four minutes (14 million states).
`MaxStatusAge` is one minute instead of two (120 seconds) to fit the clock; only "older than the limit" matters. The controller's
runs have two executions (a race needs no more), two symbols of which one is two
minutes ahead after attempt 4, four minutes, a cap of two bars and two batches
(so that a gap needs two batches, and a longer one exceeds the limit), and two
failures. `Histories` is which recorded attempts the host holds: no epoch (-1) or the
prefix of recorded attempts. `epoch_ends` has one run, since a run that waits for
another one does not exist. Symmetry over symbols, instances, runs, processes and
owners is used in safety runs only.

`primary`: two supervisors for one accepted clone, two failures (a failing command,
then a kill, or two of either). `evidence`: initial streams of up to three entries in two
append-only parts, up to two in `appendonly.aof` or in a lone `dump.rdb`, a scan limit of three and pages of two, so that the limit is
met exactly and missed by one; three outside steps, which is start, write and
stop, or a write around each of two checks; two outbox rows and every file of
three blocks for the parser; two clone runs, two failures, two histories.
`current_build`: two processes, two current owners beside the prior one, two boots,
so that one follows a completed or a failed one, a status that ages after one tick of three;
two troubles, which is an outage and a failing command. One adapter and one direct
qualifier with three failures: a lost answer, a late effect and a death.

Fairness. `FairSpec` of `EpochDelivery` is weak fairness of the steps of the
supervisor and of the consumer: asyncio runs a ready task, and every await of
the code has a timeout. Nothing is assumed of the source, of a failing command,
of kills or of stop requests. `FairSpec` of `EpochBoot` is weak fairness of each
run's steps, whose waits all have deadlines, and of the catch-up worker, whose
command line has one; serve is not assumed to report. `FairSpec` of
`EpochController` is the same: each run's steps, whose waits end at a deadline,
and its catch-up worker; neither serve nor the clock is assumed to move.
`MCEpochEnds` states both again for its two parts. `FairSpec` of
`ControlledPrimary` is weak fairness of a launched supervisor: its poll loop, its
Docker calls and the wait for its child are bounded; the child, the workers and
the commands they wait for may hang.

Deadlock is not checked: a stopped epoch, exhausted starts and ended boots or
controller runs are legitimate ends.

## 4. Proofs

All proofs hold for every value of the constants; the assumptions are the named
`ASSUME`s of the component modules (positive bounds, finite sets of symbols,
`NoRun` not a run, `NoPlan` not a history). Hardly any property is inductive.
Each list names the invariant that is, and why it is needed.

**Delivery** (`EpochDelivery_proofs`).

* `AdmittedBatch`: an admitted batch ends between the furthest symbol and the
  target, needs at most `MAX_PENDING` bars, and is never refused by the function's
  last check. The argument is the growth of the sum of gaps when the end moves by
  one (`BatchGrowth`) and the division's remainder (`QuotientFits`).
* `TypeCorrect`: the index of the row being flushed and the retry counters need to
  know where supervisor and consumer are (`ControlInv`).
* `AcceptanceIsExact` from `ExactlyOnceAcceptance` and `PublicationReceipts`;
  `AckAfterCompletion`, `CompletionIsFinal`. `LedgerInv` relates ledger, stream and
  published rows (a receipt names exactly one original entry); `AckInv` says what
  the consumer holds between claim, commit and `XACK`.
* `CatchupKeepsOrder`: `FlowInv` says that the outbox holds each symbol's chain in
  market order up to its watermark, and that rows are published from the front, so
  that a crash leaves at most the first unpublished row accepted and unmarked;
  `CapInv` adds to the unpublished rows those the batch in progress may still append.
* `StatusTellsTheTruth`, `StopIsClean`, `DuplicateIsHarmless`: `DrainInv` says that
  nothing is unpublished or uncompleted from the drain loop to the next batch. The
  loop's two counters are separate reads, but nothing is enqueued between them and
  a completed row is final.
  `FreshInv` ties a report to the minute it is about, `WaitInv` a wait to the
  recorded failure, `InboxInv` an inbox row to a receipt.
* `CompletionIsOrdered`: `OrderInv` describes the first process (a reclaim after a
  restart may complete out of order): completed entries are a prefix of the delivered ones
  (`CompletedPrefix`), and an open entry is among those the consumer holds or,
  during a replay, behind all of them (`ReadingInv`, `HoldingInv`).
* `DeliveryRefines`: `ImplementsBarDelivery`. Under the mapping `StageOf`, each step
  leaves all stages alone or moves one bar by one stage (`Moves`), and `FlowInv`
  gives that its predecessor has moved before.

**Boot** (`EpochBoot_proofs`).

* `BootIsExclusive`, `RetryNeedsReview`, `EvidenceSurvives`: `LatchInv` adds where
  the owner of a latch, of a review and of the restore volume can be; most steps of
  a run only `Proceed`, which one lemma covers.
* `BootTypeCorrect`: `BootTypeInv` ties the round counter to the step.
* `ServeStartIsGuarded`, `PassNeedsProgress`: `BootInv` says for each step what the
  run has measured (`BackupInv`, `ServedInv`), that the stack still shows it
  (`BackedInv`), and that only the run's own containers are there (`QuietInv`). The
  stack is shared, so the proof needs `BootIsExclusive`: the run that holds the
  latch is the only one that changes it.

**Controller** (`EpochController_proofs`).

* `EpochHasOneOwner`, `FailureLeavesOnlyData`, `ForensicsSurvive`: `OwnerInv` ties
  ownership to the lease or to the one continuation directory: the evidence admits
  exactly one attempt and its directory is created once, so a second owner would
  have to hold the same file. `StopInv` says that what runs is data, disposable, or
  listed by the owner, which holds because a container is listed before it is
  started; the cleanup then covers everything.
* `ControllerTypeCorrect`, `PublicationIsBackedUp`, `PassIsObservedLive`,
  `CatchupStaysExact`: `Account` says what each run has read, filled and observed by
  its stage (`StageInv`), which minutes its rows hold (`RowsInv`) and what its
  archive holds (`BackedInv`), when its worker can log in (`PasswordInv`), what a
  PASS was observed against (`LiveInv`), and which attempt the host's evidence
  admits (`HostInv`). That a batch makes progress within the cap is a bound on a sum
  over the symbols, proved by least counterexample on the size of the set.

**Primary** (`ControlledPrimary_proofs`).

* `PassMeansComplete`, `ReportsNeverFlatter`, `FilesAreAccountedFor`,
  `PrimaryIsTouchedWithCare`: `Careful` ties the place of the controller to what it
  has done by then (`Progress`), says what is true wherever it failed (`Sound`), that
  a receipt's author is dead and its subject unchanged (`ReceiptInv`), and that
  supervisors only stop and remove (`SupInv`).

**Clone and worker** (`ControlledClone_proofs`).

* `WordIsFinal`: `WorkerInv` says that a transaction before its COMMIT is the
  worker's own and as far as the worker's stage, and that a worker that has spoken
  has no transaction left at the server.
* `TransitionWasRehearsed`: `ApplyInv` follows a plan from a PASS verdict to the
  apply worker, to the committing transaction and to the primary. Verdicts are final
  and a receipt is only written while its supervisor still watches (`RunInv`), so
  the plan stays accepted.
* `BoxesAreKnown`: `BoxInv` adds that a transaction on the clone lives in one of the
  recorded containers, and `RehearsalInv` that it belongs to a run which waits for
  its worker or has failed, so it never meets the next run on the clone.
* `AcceptanceIsOneHistory`: `PathInv` says what a run without a failure has proved by
  its phase. A backup that failed unnoticed is caught by the restore after it.

**Bounded build** (`BoundedBuild_proofs`).

* `LeaseCoversLeftoversTheorem`, `PassIsCancellationTheorem`, from `BuildAccounted`.
  That nothing is left when a lease is released is the sum of what every phase has
  established, so `BuildInv` says it phase by phase: what docker holds of an
  invocation its controller has written down as intended (`Accounted`: an intent is
  saved before the command, and a lost answer keeps it), what the run has reached
  (`RunSoFar`), what the cleanup has removed (`CleanupSoFar`: it may be entered from
  any phase of the run, so nothing of `RunSoFar` is left to it), how the workers
  ended and whether a run without a failure has seen it (`VerdictSoFar`), and who
  holds the lease (`LeaseHeld`). The phases are two sequences; which phase follows
  which is settled by lemmas about their positions.

**Successor and current epochs** (`CurrentEpoch_proofs`).

* `BootIsEarnedTheorem`, from `CurrentKeepsInv`. The boot directories outlive every
  process, so their truth rests on what the process that writes them relies on:
  `Claim` says that it holds the mutex of its tool, that its work directory is begun
  and by nobody else's hand, that what runs of its owner is on its list of started
  containers or ends by itself, unless a stop has failed, that the status it waits for is either the one
  it excluded or written by the serve it started, and that no other current epoch
  runs beside it. Different tools have different mutexes and different owners
  (`Apart`), so a step of one process leaves the claims of all others alone
  (`OthersClaim`); a process that dies has none. `Books` says the rest of an owner's
  directories is in order, and that a boot directory exists only where the epoch
  passed, so that a new epoch never writes below one. The environment can only stop
  containers, start those of the successor, and let serve write its own status
  (`EnvKeeps`).

The inductive invariants of both were checked by TLC on the instances of
`current_build` before they were proved.

**Cold Redis acceptance and AOF recovery** (`Evidence_proofs`).

* `ReceiptIsTrueTheorem` (`ReceiptIsTrue`): the receipt's verdict is compared with a
  count over the original's stream, which the script only ever sees as pages of a
  copy. `Taken` says that from the accepted copy on the clone is a volume a Redis can
  be started on, and holds what the original holds as long as the original's stamp is
  the one in the proof; `Counted` that the scan has counted the hits of exactly the
  prefix it has passed and calls itself complete only at the end; `Judged` carries the
  verdict through the cleanup; `Cleaned` that the cleanup has removed what it has
  passed or remembers that it could not. Neither the page arithmetic nor the count is
  an induction over data: `HitsMore` splits the set of hits of a prefix at the page's
  start, with a bijection for the page's own indices. A volume may have any number
  of parts of any length (`FlattenTyped`, `AddPart` and `JoinParts` say that what an
  operator's Redis leaves can be loaded again), and the number of writes, faults, the
  page size and the scan limit are arbitrary. Where the original has no part and the
  mode is the default, the clone's stream is empty, so the scan finds nothing and the
  receipt can only be inconclusive; everywhere else `Served` is `Holds`.
  The invariant was checked by TLC first, on the instance of `evidence`.

* `VerifiedIsReplayTheorem` (`VerifiedIsReplay`): the recovery never learns under
  which ACL the memory it looks at was loaded. The inductive invariant `AofInv` says
  what its evidence is about: `Kept`, that as long as the file has the length of the
  first manifest it is that file, and the memory a replay of it, with or without the
  rights; `Sound`, that the backup is that file and the inventory accepted it, from
  the comparison of the copies on and also after the failure that adjudication may
  overrule; `Proved`, that what the worker saw still holds unless the file has grown
  or the server was started again. That leaves two replays, and `DeniedIsSeen` rules
  out the one without rights: it has no receipts, and the worker demands them. This
  last fact is about logs of every length (`DeniedLeavesNone`). It is an induction
  over a log: parser and replay are recursive functions on the prefixes,
  `ReplayRun` and `ParseRun` show that these exist, and `Denied` relates the two
  after each prefix (same open transaction, no receipt in the memory or in the
  transaction's). The induction principle is stated with a set (`SetInduction`, from
  the well-foundedness of `<`), because the library's takes an operator. The invariant
  was checked by TLC first, on the instance of `evidence`. The number of rows, writes,
  restarts and faults is arbitrary; the initial files are those of `Files` (the
  invariant itself only asks for a sequence of commands).

Only model-checked: the liveness properties (`EnqueuedIsCompleted`, `ServingEnds`,
`RunsEnd`, `BootEnds`, `EndsStoppedOrReported`), because fairness is out of the
prover's reach. Every safety property of the passing runs has a theorem. The modules
declare no `RECURSIVE` operator.

## 5. What is left out

Payload validation, hashing, ACL probes, telemetry and receipts' wording are
data the properties do not tell apart. Inside `recover` the page fetches and the
confirmation of a bar are one append step, and one outage costs one of the bounded
failures however many symbols it meets; the lengths of `SourceCircuit`'s waits are
left to the scheduler. In a boot,
the hash-bound binding and the signed source are one check that may refuse;
clocks go forward; the generations' separate latches are one, since one
generation is installed at a time. In the controller, workers other than the
catch-up one are a single step with failing variants: their controller waits for
them and nothing else runs meanwhile; the invocations without `--execute` change
nothing. Assumptions of the other modules:

* ControlledPrimary: nobody else uses the primary while its run is on; the
  supervisor's process does not die (its child does); the delivery probe is not
  part of it.
* ControlledWorker, ControlledClone: others stop changing the primary once it has
  the runtime profile; the delivery fixture is one step; the migrations are one
  checkpoint.
* ColdRedis: a manifest is taken at one moment, the copy between two manifests is
  not. That a Redis with `--appendonly yes` does not load `dump.rdb` is how Redis 7 and
  later behave, not something the script checks: on a volume with only a `dump.rdb`
  (`REDIS_RDB_FALLBACK`) the default mode therefore reports
  `INCONCLUSIVE_ZERO_MATCH` even when the dump holds the message. `ReceiptIsTrue`
  allows exactly this: `CONTROLLED-RUNTIME-TRANSITION.md` calls a missing record
  inconclusive, and the plan's policy for it is `INCONCLUSIVE_NO_REPLAY`. A server
  that only saves keeps what it was sent in memory until the save.
* AofRecovery: a helper's copy is atomic (ColdRedis has the file-by-file case); the
  operator installs the ACL and restarts in two steps of `OthersWrite`; `XCLAIM` is folded into the
  acknowledgement, and the counters of `XSETID` are not fixed; the failure that
  adjudication was written for (an order of mounts) belongs to an older revision,
  so any failed qualification whose evidence agrees may be adjudicated; the second
  review (`--review-closed-segment`, with a latch of its own, after a failed first
  one) makes the same checks and is left out; the worker's proof is without the
  group's pending count, which the replay does not keep (the code demands 0, so the
  model accepts more than the code); nobody
  acts before the first manifest, which would only be another initial state.
* BoundedBuild: a retained session exports late only while its server runs; a CLI
  tree of unproven end counts as a leftover for the Compose adapter only, as in the
  code.
* CurrentEpoch: `run_epoch` is the creation of the stores, one phase for all the
  workers that fill the history, and serve (EpochController has the detail); signed
  inputs, receipts, resources and the subnet are the set `altered`; the five
  watermarks move together; the prior epoch may be started by the older tools.
  A failed boot writes `cleanup_incomplete: false` although the worker of a phase
  whose `docker wait` failed, or the clone of a restore, still runs: neither is in
  the list of started containers. Each ends at its own limit (`timeout -s KILL` after
  600 or 1800 seconds, the clone's watchdog after 1500), which `BootIsEarned` allows
  for; it says that neither database nor Redis nor serve is left. The helper that
  sets the owner of a restore's volume is part of `CreateRestore`.

Not modelled, with the reason for each part in `PROJECT.json`: recovery
generations (each runs once on evidence that exists once and repeats phases that
are modelled), epoch backups (file I/O without state), the legacy outbox and schema
rehearsals (disposable predecessors of the controlled transition), alerts, canary
and soak, secrets and restic (one process, no state to interleave), validators and
deployment files.

## 6. Findings

* `delivery_stop`: a graceful stop can leave an entry pending in Redis, because
  the drain loop reads only PostgreSQL and the consumer may be cancelled between
  its inbox commit and `XACK`; the documentation promises a fully drained cycle.
  The next process reads its own pending entries or reclaims them, so nothing is
  lost, but `boot_redis_state` refuses an epoch stopped that way.
* `boot_stale`: from generation r6 on, a boot admits an epoch whose last status
  is a source pause of any age. After starting serve it polls the same file and
  checks a pause for freshness before asking whether it is new, so the boot
  fails unless serve rewrites it before the first poll.
* `controller_restart`: the restart check compares a status with the one read
  before the stop, and accepts one that the stopped process wrote in between. The
  epoch is healthy then too (`PassIsLive` holds), but nothing shows that the
  restarted process works.

## 7. What could follow

1. The parts listed as not modelled, where they become more than one run on evidence
   that exists once: the recovery generations first, since they repeat the phases of
   `EpochBoot` and `AofRecovery` with other pins.
2. The controlled runtime's delivery probe and fixture, which are one step here.

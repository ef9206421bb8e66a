---------------------------- MODULE CurrentEpoch ----------------------------
(***************************************************************************)
(* The epochs that follow the accepted one: the successor                  *)
(* (scripts/runtime_epoch_successor.py), which runs once, the current      *)
(* epochs (runtime_epoch_current.py), each under a new owner, and their    *)
(* boots after an outage (runtime_epoch_current_boot.py), each in a        *)
(* directory of its own that is never removed.                             *)
(*                                                                         *)
(* The two current tools share one operating-system mutex, the successor   *)
(* has another; a dead process loses its mutex, its containers keep        *)
(* running.  What run_epoch does to a database is EpochController's        *)
(* subject: here it is the containers it starts, the statuses it accepts   *)
(* and what a failure leaves running.  The five watermarks move together.  *)
(***************************************************************************)
EXTENDS Integers, Sequences, FiniteSets, SequencesExt

CONSTANTS
    Procs, NoProc,  \* processes that run a tool
    Owners, Prior,  \* owners of epochs; the successor's
    StatusAge,      \* ticks a status is fresh (120 seconds)
    MaxBoots,       \* LATCH_LIMIT
    MaxTick,        \* bound: the clock
    MaxTrouble      \* bound: failing commands, deaths, outages, others' steps

ASSUME CurrentAssumption ==
    /\ NoProc \notin Procs /\ Prior \in Owners
    /\ {StatusAge, MaxBoots, MaxTick, MaxTrouble} \subseteq Nat

VARIABLES
    job,        \* process -> the tool it runs and how far it is
    mutex,      \* mutex -> the process that holds it
    work,       \* owner -> its work directory: absent, begun, failed or passed
    signed,     \* owner -> serve_restart_status of its signed receipt
    boots,      \* owner -> its boot-* directories
    up,         \* owner -> its containers that run
    starts,     \* owner -> how often serve was started
    audit,      \* owner -> last bar of the five chains
    status,     \* owner -> status.json
    altered,    \* inputs that others have changed
    tick, trouble

places == <<work, signed, boots>>
stores == <<audit, status>>
others == <<altered, tick>>
currentVars == <<job, mutex, places, up, starts, stores, others, trouble>>

Inputs == {"old", "sources", "profile", "subnet", "receipt", "resources"}
DataParts == {"pg", "redis"}
Full == {"pg", "redis", "serve"}
(* The clone of a restore, a worker of a phase that only reads, and one that
   writes the history: each ends by itself at its own time limit. *)
Transient == {"restore", "worker", "catchup"}
Pending == "pending"    \* CATCHING_UP_NONTRADING or WAITING_SOURCE_NONTRADING
NoStatus == [by |-> 0, state |-> "none", mark |-> 0, at |-> 0]
Idle == [tool |-> "none", owner |-> Prior, at |-> "idle", round |-> 0,
         waits |-> FALSE, started |-> <<>>, held |-> NoStatus, seen |-> NoStatus, clean |-> TRUE]
BootBegun == [state |-> "begun", seen |-> NoStatus, serve |-> 0,
              clean |-> FALSE, left |-> {}]
MutexOf(tool) == IF tool = "successor" THEN "successor" ELSE "current"

(* Before the successor, or after the successor was accepted and stopped. *)
CurrentInit ==
    /\ job = [p \in Procs |-> Idle]
    /\ mutex = [m \in {"successor", "current"} |-> NoProc]
    /\ \E done \in BOOLEAN :
          work = [o \in Owners |-> IF done /\ o = Prior THEN "passed" ELSE "absent"]
    /\ signed = [o \in Owners |-> NoStatus]
    /\ boots = [o \in Owners |-> <<>>]
    /\ up = [o \in Owners |-> {}]
    /\ starts = [o \in Owners |-> 0]
    /\ audit = [o \in Owners |-> 0]
    /\ status = [o \in Owners |-> NoStatus]
    /\ altered = {} /\ tick = 1 /\ trouble = 0

-----------------------------------------------------------------------------
(* What the tools look at                                                  *)

Runs(p, step) == job[p].at = step
Owner(p) == job[p].owner
Goes(p, step) == job' = [job EXCEPT ![p].at = step]
Ends(p) == /\ job' = [job EXCEPT ![p] = Idle]
           /\ mutex' = [mutex EXCEPT ![MutexOf(job[p].tool)] = NoProc]

(* The command lines of other controllers; the successor's is not matched. *)
NoLegacyProcess(p) ==
    \A q \in Procs \ {p} : job[q].tool \notin {"epoch", "boot"}

ActiveEpochs == {o \in Owners : up[o] # {}}

(* The old containers and the old lease, kept as they were. *)
OldPreserved == "old" \notin altered

(* Signed commits, clean trees, the pinned archives, the release record; the
   runner's recipe and the wheels must be those of the signed commits. *)
SignedRelease == "sources" \notin altered
RunnerRecipe == "sources" \notin altered
WheelsOfSources == "sources" \notin altered

(* The profile of the epoch and the receipt of the runner it names. *)
CurrentProfile == "profile" \notin altered

(* No docker network and no route of the host overlaps the subnet. *)
SubnetIsFree == "subnet" \notin altered

(* The operator's signature over the receipt; the proofs in the receipt. *)
SignedReceipt == "receipt" \notin altered
ReceiptProofs == "receipt" \notin altered

(* Snapshots, wheels, credentials and containers as the receipt says. *)
ReceiptResources == "resources" \notin altered
ContainersAsRecorded == "resources" \notin altered

StatusFresh(s) == tick - s.at <= StatusAge

RunningStatus(s) == s.state = "running" /\ StatusFresh(s)
PendingStatus(s) == s.state = Pending /\ StatusFresh(s)
SchemaStatus(s) == s.state \in {"running", "stopped", Pending}

(* wait_for_advanced_status: one look at the file; another status must be
   pending, or RUNNING and then beyond the first. *)
LookBeyond(s, first, serving) ==
    IF s = first THEN "again"
    ELSE IF ~serving THEN "fail"
    ELSE IF PendingStatus(s) THEN "again"
    ELSE IF ~RunningStatus(s) THEN "fail"
    ELSE IF s.mark > first.mark THEN "advanced" ELSE "again"

(* The bytes found before the start are no observation. *)
Look(s, first, prestart, serving) ==
    IF s = prestart THEN IF serving THEN "again" ELSE "fail"
    ELSE LookBeyond(s, first, serving)

(* A failure while the restore is verified stops its clone first. *)
FailureStep(p) ==
    IF job[p].tool # "boot" THEN "stop owned"
    ELSE IF job[p].at = "verify restore" THEN "retain" ELSE "cleanup"
Failing(p) == Goes(p, FailureStep(p))

-----------------------------------------------------------------------------
(* A new epoch: the successor and the current ones                         *)

(* main: the mutex of the tool; held by another process it refuses. *)
Invoke(p) ==
    /\ job[p].tool = "none"
    /\ \E tool \in {"successor", "epoch", "boot"}, o \in Owners :
          /\ o = Prior <=> tool = "successor"
          /\ mutex[MutexOf(tool)] = NoProc
          /\ mutex' = [mutex EXCEPT ![MutexOf(tool)] = p]
          /\ job' = [job EXCEPT ![p].tool = tool, ![p].owner = o, ![p].at = "admit"]
    /\ UNCHANGED <<places, up, starts, stores, others, trouble>>

(* The successor runs once: its root holds no run but the known one that failed
   before it created anything.  A current epoch has a new owner. *)
RootIsFree(o) == work[o] = "absent"

(* A refusal leaves no directory. *)
AdmitNew(p) ==
    /\ Runs(p, "admit") /\ job[p].tool # "boot"
    /\ IF /\ SignedRelease /\ SubnetIsFree
          /\ job[p].tool = "epoch" => CurrentProfile /\ RunnerRecipe
          /\ job[p].tool = "successor" => OldPreserved
          /\ NoLegacyProcess(p) /\ ActiveEpochs = {} /\ RootIsFree(Owner(p))
       THEN /\ work' = [work EXCEPT ![Owner(p)] = "begun"]
            /\ Goes(p, "pin") /\ UNCHANGED mutex
       ELSE Ends(p) /\ UNCHANGED work
    /\ UNCHANGED <<signed, boots, up, starts, stores, others, trouble>>

(* The successor's containers must exist and be stopped; the wheels and the
   image must be those of the signed sources. *)
PreservedSuccessor == work[Prior] = "passed" /\ up[Prior] = {}

PinPreserved(p) ==
    /\ Runs(p, "pin")
    /\ IF (job[p].tool = "epoch" => PreservedSuccessor /\ OldPreserved)
          /\ WheelsOfSources
       THEN Goes(p, "create") ELSE Failing(p)
    /\ UNCHANGED <<mutex, places, up, starts, stores, others, trouble>>

(* run_epoch as far as its workers: the network and the stores. *)
CreateStores(p) ==
    /\ Runs(p, "create")
    /\ IF SubnetIsFree
       THEN up' = [up EXCEPT ![Owner(p)] = DataParts] /\ Goes(p, "catchup")
       ELSE Failing(p) /\ UNCHANGED up
    /\ UNCHANGED <<mutex, places, starts, stores, others, trouble>>

(* Each phase is a worker container of its own, created, started and waited
   for: of a new epoch those that fill the history, of a boot the states
   before and after the catch-up, the proof of each restore and of Redis. *)
Phases == {"state", "verify restore", "catchup", "post", "redis state"}
WorkerOf(phase) == IF phase = "catchup" THEN "catchup" ELSE "worker"
Needs(phase) == CASE phase = "verify restore" -> {"pg", "restore"}
                  [] phase = "redis state" -> DataParts
                  [] OTHER -> {"pg"}

StepAfter(p) ==
    CASE job[p].at \in {"state", "post"} -> "restore"
      [] job[p].at = "verify restore" -> "unrestore"
      [] job[p].at = "catchup" -> IF job[p].tool = "boot" THEN "post" ELSE "serve"
      [] job[p].at = "redis state" -> "recheck"

StartPhase(p) ==
    /\ job[p].at \in Phases /\ ~job[p].waits
    /\ up' = [up EXCEPT ![Owner(p)] = @ \union {WorkerOf(job[p].at)}]
    /\ job' = [job EXCEPT ![p].waits = TRUE]
    /\ UNCHANGED <<mutex, places, starts, stores, others, trouble>>

(* A worker that writes the history has done so, or not yet. *)
AuditAfter(o, part) ==
    {audit[o]} \union {n \in {tick} : part = "catchup" /\ {"pg", part} \subseteq up[o]}

(* The worker is gone: it exits with 0 and a receipt that passes, or with
   anything else, or its receipt is refused. *)
EndPhase(p) ==
    LET o == Owner(p)  worker == WorkerOf(job[p].at) IN
    /\ job[p].at \in Phases /\ job[p].waits
    /\ \E passed \in BOOLEAN, last \in AuditAfter(o, worker) :
          /\ passed => /\ Needs(job[p].at) \union {worker} \subseteq up[o]
                       /\ worker = "catchup" => last = tick
          /\ job' = [job EXCEPT ![p].waits = FALSE,
                                ![p].at = IF passed THEN StepAfter(p) ELSE FailureStep(p)]
          /\ audit' = [audit EXCEPT ![o] = last]
    /\ up' = [up EXCEPT ![o] = @ \ {worker}]
    /\ UNCHANGED <<mutex, places, starts, status, others, trouble>>

StartsServe(p, next) ==
    LET o == Owner(p) IN
    /\ up' = [up EXCEPT ![o] = @ \union {"serve"}]
    /\ starts' = [starts EXCEPT ![o] = @ + 1]
    /\ job' = [job EXCEPT ![p].at = next, ![p].started = Append(@, "serve")]

FirstServe(p) ==
    /\ Runs(p, "serve") /\ job[p].tool # "boot"
    /\ StartsServe(p, "first")
    /\ UNCHANGED <<mutex, places, stores, others, trouble>>

(* The first RUNNING status is what the restart has to advance beyond. *)
FirstStatus(p) ==
    LET s == status[Owner(p)] IN
    /\ Runs(p, "first") /\ RunningStatus(s)
    /\ job' = [job EXCEPT ![p].at = "stop", ![p].held = s]
    /\ UNCHANGED <<mutex, places, up, starts, stores, others, trouble>>

(* docker stop: serve says STOPPED_NONTRADING unless it is killed first. *)
StatusAfterStop(o) ==
    {status[o], [by |-> starts[o], state |-> "stopped", mark |-> audit[o], at |-> tick]}

StopForRestart(p) ==
    LET o == Owner(p) IN
    /\ Runs(p, "stop")
    /\ IF "serve" \in up[o] /\ RunningStatus(job[p].held)
       THEN /\ up' = [up EXCEPT ![o] = @ \ {"serve"}]
            /\ \E s \in StatusAfterStop(o) : status' = [status EXCEPT ![o] = s]
            /\ Goes(p, "restart")
       ELSE Failing(p) /\ UNCHANGED <<up, status>>
    /\ UNCHANGED <<mutex, places, starts, audit, others, trouble>>

RestartServeAndValidate(p) ==
    /\ Runs(p, "restart")
    /\ StartsServe(p, "poll")
    /\ UNCHANGED <<mutex, places, stores, others, trouble>>

(* No status is excluded here: the restart compares with the first alone. *)
PollAdvanced(p) ==
    LET o == Owner(p)
        look == LookBeyond(status[o], job[p].held, "serve" \in up[o]) IN
    /\ Runs(p, "poll") /\ look # "again"
    /\ IF look = "advanced"
       THEN job' = [job EXCEPT ![p].at = "verify", ![p].seen = status[o]]
       ELSE Failing(p)
    /\ UNCHANGED <<mutex, places, up, starts, stores, others, trouble>>

(* After run_epoch: what had to be preserved is compared again. *)
VerifyPreserved(p) ==
    /\ Runs(p, "verify")
    /\ IF ~OldPreserved \/ (job[p].tool = "epoch" /\ ~PreservedSuccessor)
       THEN Failing(p)
       ELSE Goes(p, IF job[p].tool = "epoch" THEN "status" ELSE "receipt")
    /\ UNCHANGED <<mutex, places, up, starts, stores, others, trouble>>

(* A pending status is waited out, any other must be RUNNING. *)
FinalStatus(p) ==
    LET s == status[Owner(p)] IN
    /\ Runs(p, "status")
    /\ Goes(p, IF PendingStatus(s) THEN "pending"
               ELSE IF RunningStatus(s) THEN "receipt" ELSE "stop owned")
    /\ UNCHANGED <<mutex, places, up, starts, stores, others, trouble>>

WaitPending(p) ==
    LET o == Owner(p)
        look == LookBeyond(status[o], job[p].seen, "serve" \in up[o]) IN
    /\ Runs(p, "pending") /\ look # "again"
    /\ IF look = "advanced" THEN Goes(p, "receipt") ELSE Failing(p)
    /\ UNCHANGED <<mutex, places, up, starts, stores, others, trouble>>

SaveRunReceipt(p) ==
    LET o == Owner(p) IN
    /\ Runs(p, "receipt")
    /\ work' = [work EXCEPT ![o] = "passed"]
    /\ signed' = [signed EXCEPT ![o] = job[p].seen]
    /\ Ends(p)
    /\ UNCHANGED <<boots, up, starts, stores, others, trouble>>

(* _persist_failure_receipt: serve and the workers are stopped, each unless
   its stop fails, the target database and Redis stay. *)
StopOwned(p) ==
    LET o == Owner(p) IN
    /\ Runs(p, "stop owned")
    /\ \E stays \in SUBSET (up[o] \ DataParts) :
          /\ trouble' = trouble + Cardinality(stays) /\ trouble' <= MaxTrouble
          /\ up' = [up EXCEPT ![o] = (@ \intersect DataParts) \union stays]
          /\ \E s \in StatusAfterStop(o) :
                status' = [status EXCEPT ![o] = IF "serve" \in up[o] \ stays THEN s ELSE @]
    /\ work' = [work EXCEPT ![o] = "failed"]
    /\ Ends(p)
    /\ UNCHANGED <<signed, boots, starts, audit, others>>

-----------------------------------------------------------------------------
(* A boot of a current epoch                                               *)

(* A boot that died without a receipt is taken for none. *)
LatchesNotFailed(dirs) == \A k \in DOMAIN dirs : dirs[k].state # "failed"

(* Every boot directory of the owner but one's own is a completed boot. *)
LatchesPass(dirs) == \A k \in DOMAIN dirs : dirs[k].state = "passed"

LatchesHold(o, own) ==
    /\ Len(boots[o]) <= MaxBoots
    /\ LatchesPass(IF own THEN Front(boots[o]) ELSE boots[o])
    /\ own => Last(boots[o]).state = "begun"

(* All of the owner's containers stopped and no other epoch active; all of
   them running is nothing to do, anything else is refused. *)
ReadyToStart(o) == up[o] = {} /\ ActiveEpochs = {}

(* plan: refused, nothing to do, or the latch of a new boot. *)
AdmitBoot(p) ==
    LET o == Owner(p) IN
    /\ Runs(p, "admit") /\ job[p].tool = "boot"
    /\ IF /\ work[o] = "passed" /\ SignedReceipt /\ ReceiptProofs
          /\ ReceiptResources /\ ContainersAsRecorded
          /\ LatchesHold(o, FALSE) /\ NoLegacyProcess(p)
          /\ ReadyToStart(o) /\ SchemaStatus(status[o])
       THEN /\ boots' = [boots EXCEPT ![o] = Append(@, BootBegun)]
            /\ Goes(p, "pg") /\ UNCHANGED mutex
       ELSE Ends(p) /\ UNCHANGED boots
    /\ UNCHANGED <<work, signed, up, starts, stores, others, trouble>>

(* A container is recorded before its start. *)
StartStore(p) ==
    LET part == job[p].at IN
    /\ part \in DataParts /\ part \notin up[Owner(p)]
    /\ up' = [up EXCEPT ![Owner(p)] = @ \union {part}]
    /\ job' = [job EXCEPT ![p].started = Append(@, part),
                          ![p].at = IF part = "pg" THEN "redis" ELSE "state"]
    /\ UNCHANGED <<mutex, places, starts, stores, others, trouble>>

(* _backup_restore: the clone is the round's own, and not among the containers
   that a failure of the boot stops.  Whether its proof passes or not, it is
   stopped and kept. *)
CreateRestore(p) ==
    /\ Runs(p, "restore")
    /\ up' = [up EXCEPT ![Owner(p)] = @ \union {"restore"}]
    /\ job' = [job EXCEPT ![p].at = "verify restore", ![p].round = @ + 1]
    /\ UNCHANGED <<mutex, places, starts, stores, others, trouble>>

RetainRestore(p) ==
    /\ job[p].at \in {"unrestore", "retain"}
    /\ up' = [up EXCEPT ![Owner(p)] = @ \ {"restore"}]
    /\ Goes(p, IF job[p].at = "retain" THEN "cleanup"
               ELSE IF job[p].round = 1 THEN "catchup" ELSE "redis state")
    /\ UNCHANGED <<mutex, places, starts, stores, others, trouble>>

(* The bytes of status.json are kept as an exclusion, never as a proof. *)
PrestartStatus(o) == SchemaStatus(status[o])

(* Everything once more. *)
RecheckBeforeServe(p) ==
    LET o == Owner(p) IN
    /\ Runs(p, "recheck")
    /\ IF /\ ReceiptResources /\ ContainersAsRecorded
          /\ LatchesHold(o, TRUE) /\ NoLegacyProcess(p)
          /\ ActiveEpochs = {o} /\ up[o] = DataParts /\ PrestartStatus(o)
       THEN job' = [job EXCEPT ![p].at = "serve", ![p].held = status[o]]
       ELSE Failing(p)
    /\ UNCHANGED <<mutex, places, up, starts, stores, others, trouble>>

BootServe(p) ==
    /\ Runs(p, "serve") /\ job[p].tool = "boot"
    /\ StartsServe(p, "wait")
    /\ UNCHANGED <<mutex, places, stores, others, trouble>>

WaitAdvanced(p) ==
    LET o == Owner(p)
        look == Look(status[o], signed[o], job[p].held, "serve" \in up[o]) IN
    /\ Runs(p, "wait") /\ look # "again"
    /\ IF look = "advanced"
       THEN job' = [job EXCEPT ![p].at = "complete", ![p].seen = status[o]]
       ELSE Failing(p)
    /\ UNCHANGED <<mutex, places, up, starts, stores, others, trouble>>

SaveBoot(p, result) ==
    LET o == Owner(p) IN
    boots' = [boots EXCEPT ![o] = Append(Front(@), [result EXCEPT !.serve = starts[o]])]

CompleteBoot(p) ==
    /\ Runs(p, "complete")
    /\ SaveBoot(p, [BootBegun EXCEPT !.state = "passed", !.seen = job[p].seen])
    /\ Ends(p)
    /\ UNCHANGED <<work, signed, up, starts, stores, others, trouble>>

(* The recorded containers are stopped, the last started first; a stop that
   fails is noted and the others go on. *)
CleanupBoot(p) ==
    LET o == Owner(p)  part == Last(job[p].started) IN
    /\ Runs(p, "cleanup") /\ job[p].started # <<>>
    /\ \/ /\ up' = [up EXCEPT ![o] = @ \ {part}]
          /\ job' = [job EXCEPT ![p].started = Front(@)]
          /\ IF part = "serve" /\ part \in up[o]
             THEN \E s \in StatusAfterStop(o) : status' = [status EXCEPT ![o] = s]
             ELSE UNCHANGED status
          /\ UNCHANGED trouble
       \/ /\ part \in up[o] /\ trouble < MaxTrouble /\ trouble' = trouble + 1
          /\ job' = [job EXCEPT ![p].started = Front(@), ![p].clean = FALSE]
          /\ UNCHANGED <<up, status>>
    /\ UNCHANGED <<mutex, places, starts, audit, others>>

FailBoot(p) ==
    /\ Runs(p, "cleanup") /\ job[p].started = <<>>
    /\ SaveBoot(p, [BootBegun EXCEPT !.state = "failed", !.clean = job[p].clean,
                                     !.left = up[Owner(p)]])
    /\ Ends(p)
    /\ UNCHANGED <<work, signed, up, starts, stores, others, trouble>>

-----------------------------------------------------------------------------
(* Failures, serve and everyone else                                       *)

TroubleUsed == trouble < MaxTrouble /\ trouble' = trouble + 1

(* What the command under way does to the containers of the owner; a worker
   that is waited for just stays. *)
Effect(p) ==
    LET at == job[p].at  now == up[Owner(p)] IN
    CASE at \in DataParts \union {"restore"} -> now \union {at}
      [] at = "create" -> DataParts
      [] at \in Phases /\ ~job[p].waits -> now \union {WorkerOf(at)}
      [] at \in {"serve", "restart"} -> now \union {"serve"}
      [] at \in {"unrestore", "retain"} -> now \ {"restore"}
      [] OTHER -> now

(* A docker command fails, with or without its effect, or a wait runs out. *)
CommandFailsCurrent(p) ==
    LET o == Owner(p)  at == job[p].at IN
    /\ TroubleUsed
    /\ at \in DataParts \union Phases \union
             {"create", "serve", "restart", "restore", "unrestore", "retain",
              "first", "poll", "pending", "recheck", "wait"}
    /\ \E effect \in BOOLEAN :
          /\ up' = [up EXCEPT ![o] = IF effect THEN Effect(p) ELSE @]
          /\ starts' = [starts EXCEPT ![o] =
                 IF effect /\ at \in {"serve", "restart"} THEN @ + 1 ELSE @]
    /\ job' = [job EXCEPT ![p].at = FailureStep(p), ![p].waits = FALSE,
                          ![p].started = IF at \in Full THEN Append(@, at) ELSE @]
    /\ UNCHANGED <<mutex, places, stores, others>>

(* The process dies: no receipt, no cleanup, and the mutex is free. *)
ProcessDies(p) ==
    /\ job[p].tool # "none" /\ TroubleUsed
    /\ Ends(p)
    /\ UNCHANGED <<places, up, starts, stores, others>>

HostGoesDown ==
    /\ TroubleUsed
    /\ job' = [p \in Procs |-> Idle]
    /\ mutex' = [m \in DOMAIN mutex |-> NoProc]
    /\ up' = [o \in Owners |-> {}]
    /\ UNCHANGED <<places, starts, stores, others>>

(* Serve delivers what is due, or only says that it waits. *)
ServeSays(o) ==
    /\ Full \subseteq up[o]
    /\ \E state \in {"running", Pending} :
          /\ audit' = [audit EXCEPT ![o] = IF state = "running" THEN tick ELSE @]
          /\ status' = [status EXCEPT ![o] =
                [by |-> starts[o], state |-> state, mark |-> audit'[o], at |-> tick]]
    /\ UNCHANGED <<job, mutex, places, up, starts, others, trouble>>

ServeFailsClosed(o) ==
    /\ "serve" \in up[o] /\ TroubleUsed
    /\ up' = [up EXCEPT ![o] = @ \ {"serve"}]
    /\ status' = [status EXCEPT ![o] =
          [by |-> starts[o], state |-> "failed", mark |-> audit[o], at |-> tick]]
    /\ UNCHANGED <<job, mutex, places, starts, audit, others>>

(* An operator stops an epoch. *)
EpochStopped(o) ==
    /\ up[o] # {} /\ TroubleUsed
    /\ up' = [up EXCEPT ![o] = {}]
    /\ \E s \in StatusAfterStop(o) :
          status' = [status EXCEPT ![o] = IF "serve" \in up[o] THEN s ELSE @]
    /\ UNCHANGED <<job, mutex, places, starts, audit, others>>

(* A clone ends at its watchdog, a worker with its work or at its timeout,
   also when nobody waits for it any more. *)
TransientEnds(o) ==
    /\ \E part \in Transient \intersect up[o] :
          /\ up' = [up EXCEPT ![o] = @ \ {part}]
          /\ \E last \in AuditAfter(o, part) : audit' = [audit EXCEPT ![o] = last]
    /\ UNCHANGED <<job, mutex, places, starts, status, others, trouble>>

(* An older tool starts the successor's stores; somebody changes an input. *)
OthersAct ==
    /\ TroubleUsed
    /\ \/ /\ work[Prior] = "passed" /\ up[Prior] = {}
          /\ up' = [up EXCEPT ![Prior] = DataParts] /\ UNCHANGED altered
       \/ /\ \E input \in Inputs \ altered : altered' = altered \union {input}
          /\ UNCHANGED up
    /\ UNCHANGED <<job, mutex, places, starts, stores, tick>>

ClockTicks ==
    /\ tick < MaxTick /\ tick' = tick + 1
    /\ UNCHANGED <<job, mutex, places, up, starts, stores, altered, trouble>>

NewEpochStep(p) ==
    \/ Invoke(p) \/ AdmitNew(p) \/ PinPreserved(p) \/ CreateStores(p)
    \/ StartPhase(p) \/ EndPhase(p)
    \/ FirstServe(p) \/ FirstStatus(p) \/ StopForRestart(p)
    \/ RestartServeAndValidate(p) \/ PollAdvanced(p) \/ VerifyPreserved(p)
    \/ FinalStatus(p) \/ WaitPending(p) \/ SaveRunReceipt(p) \/ StopOwned(p)
BootStep(p) ==
    \/ AdmitBoot(p) \/ StartStore(p) \/ CreateRestore(p) \/ RetainRestore(p)
    \/ RecheckBeforeServe(p) \/ BootServe(p)
    \/ WaitAdvanced(p) \/ CompleteBoot(p) \/ CleanupBoot(p) \/ FailBoot(p)
CurrentNext ==
    \/ \E p \in Procs : \/ NewEpochStep(p) \/ BootStep(p)
                        \/ CommandFailsCurrent(p) \/ ProcessDies(p)
    \/ \E o \in Owners : ServeSays(o) \/ ServeFailsClosed(o) \/ EpochStopped(o)
                           \/ TransientEnds(o)
    \/ HostGoesDown \/ OthersAct \/ ClockTicks
CurrentSpec == CurrentInit /\ [][CurrentNext]_currentVars

-----------------------------------------------------------------------------
(* What a boot directory says is earned.  A completed boot was accepted on a
   status that the serve process of that very boot wrote, beyond the signed
   watermarks; nothing was started after a boot that did not complete; a
   failed boot that claims a complete cleanup left neither database nor Redis
   nor serve running, but at most what ends by itself: the clone of a restore
   and the worker whose wait failed; and at most one of the current epochs
   runs, whatever tools were killed half way. *)
BootIsEarned ==
    /\ \A o \in Owners : \A k \in DOMAIN boots[o] :
          LET boot == boots[o][k] IN
          /\ boot.state = "passed" => /\ boot.seen.by = boot.serve
                                      /\ boot.seen.mark > signed[o].mark
          /\ k < Len(boots[o]) => boot.state = "passed"
          /\ boot.clean => boot.left \subseteq Transient
    /\ Cardinality(ActiveEpochs \ {Prior}) <= 1

=============================================================================

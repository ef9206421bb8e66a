--------------------------- MODULE EpochDelivery ---------------------------
(***************************************************************************)
(* A serving runtime epoch: the supervisor loop of runtime(), the producer *)
(* half (recover appends audit and outbox rows, flush publishes them) and  *)
(* the consumer task of EpochConsumer, over PostgreSQL and Redis.  The     *)
(* process may be asked to stop, may be killed at any step and is started  *)
(* again; PostgreSQL and Redis survive.                                    *)
(*                                                                         *)
(* PostgreSQL holds one watermark per symbol (the end of its contiguous    *)
(* event_audit chain), the outbox rows in id order, which of them carry    *)
(* published_at, and the inbox.  What a failed command did on the server   *)
(* needs no action of its own when the failure ends the process: it is the *)
(* command's step followed by SupervisorFails or Kill.                     *)
(***************************************************************************)
EXTENDS EpochConsumer, EpochBatch

CONSTANT MaxStarts  \* bound: processes started in one behaviour

ASSUME DeliveryAssumption == MaxStarts \in Nat

VARIABLES watermark,     \* symbol -> end of its event_audit chain
          outbox,        \* message_outbox, in id order
          published,     \* ids of the rows with published_at set
          spc,           \* where the supervisor is
          qualify,       \* this process runs mode "qualify", not "serve"
          target,        \* finalized minute: target, then current_target
          end,           \* end_exclusive of the cycle's batch
          second,        \* the flush in progress is the one after recover
          todo,          \* snapshot of unpublished ids being flushed
          row,           \* id of the row between EVAL and UPDATE, else 0
          failure,       \* symbol -> what its recover task raised
          waiting,       \* waiting_reason is set
          clean,         \* pending = 0 and unresolved = 0 were read
          completed,     \* completed > 0 was read
          fresh,         \* source_fresh
          proved,        \* qualification_proofs
          dup,           \* id of the duplicate entry, 0 before it is added
          cycles,        \* completed cycles, 2 standing for two or more
          shutdown,      \* shutdown_requested
          outcome,       \* how the process will end
          status,        \* status.json: the state it reports
          statusTarget,  \* status.json: finalized_target_ms
          starts         \* processes started so far

dbVars == <<watermark, outbox, published>>
cycleVars == <<target, end, failure, waiting, clean, completed, fresh>>
flushVars == <<second, todo, row>>
modeVars == <<qualify, proved, cycles, shutdown>>
reportVars == <<status, statusTarget>>
otherVars == <<redisVars, consumerVars, faults>>
supVars == <<dbVars, cycleVars, flushVars, modeVars, reportVars, now, spc, dup,
             outcome, starts>>
vars == <<otherVars, supVars>>

Live == {"top", "publish", "mark", "bound", "recover", "drain", "drained",
         "sample", "report", "dup", "wait", "idle"}
Ended == {"down", "stopped", "qualified", "failed", "killed"}

\* The two failures of the public source that a serving epoch waits out.
SourceReasons == {"timeout", "dns"}
Failures == SourceReasons \union {"none", "other"}
NoFailure == [s \in Symbols |-> "none"]

DbTypeOK == /\ watermark \in [Symbols -> 0..MaxMinute]
            /\ outbox \in Seq(Bars)
            /\ published \subseteq 1..Len(outbox)

FlagTypeOK == /\ replay \in BOOLEAN /\ second \in BOOLEAN /\ waiting \in BOOLEAN
              /\ clean \in BOOLEAN /\ completed \in BOOLEAN /\ fresh \in BOOLEAN /\ qualify \in BOOLEAN
              /\ proved \in BOOLEAN /\ shutdown \in BOOLEAN

SupervisorTypeOK ==
  /\ now \in 0..MaxMinute /\ target \in 0..MaxMinute /\ end \in 0..MaxMinute
  /\ spc \in Live \union {"closing"} \union Ended
  /\ failure \in [Symbols -> Failures]
  /\ todo \subseteq 1..Len(outbox)
  /\ row \in 0..Len(outbox)
  /\ dup \in 0..Len(stream)
  /\ cycles \in 0..2
  /\ outcome \in {"stopped", "qualified", "failed"}
  /\ status \in {"none", "RUNNING", "CATCHING_UP", "WAITING_SOURCE",
                 "FAILED_CLOSED"}
  /\ statusTarget \in 0..MaxMinute
  /\ starts \in 0..MaxStarts

\* Every variable keeps the type of the column, field or local it stands for.
TypeOK == /\ RedisTypeOK /\ ConsumerTypeOK /\ DbTypeOK
          /\ FlagTypeOK /\ SupervisorTypeOK

Init == /\ RedisInit /\ ConsumerInit
        /\ watermark = [s \in Symbols |-> 0]
        /\ outbox = <<>> /\ published = {}
        /\ now = 0
        /\ spc = "down" /\ qualify = TRUE
        /\ target = 0 /\ end = 0 /\ failure = NoFailure /\ waiting = FALSE
        /\ clean = FALSE /\ completed = FALSE /\ fresh = FALSE
        /\ second = FALSE /\ todo = {} /\ row = 0
        /\ proved = FALSE /\ dup = 0 /\ cycles = 0 /\ shutdown = FALSE
        /\ outcome = "failed"
        /\ status = "none" /\ statusTarget = 0
        /\ starts = 0

Unpublished == (1..Len(outbox)) \ published

\* Published rows without a COMPLETED inbox row.
Uncompleted == {i \in published : inbox[outbox[i]] # "COMPLETED"}

(***************************************************************************)
(* runtime(): locks, probes, then the consumer task.  The epoch is         *)
(* qualified first; afterwards a serve process is started, and again after *)
(* it was stopped or killed.                                               *)
(***************************************************************************)
Start == /\ spc \in Ended \ {"failed"} /\ starts < MaxStarts
         /\ spc = "killed" => ~qualify
         /\ qualify' = (spc = "down")
         /\ spc' = "top" /\ starts' = starts + 1
         /\ CreateTask
         /\ UNCHANGED <<redisVars, faults, dbVars, cycleVars, flushVars, proved,
                        cycles, shutdown, reportVars, now, dup, outcome>>

\* The locals of a process that has ended are gone.
ProcessGone == /\ target' = 0 /\ end' = 0
               /\ failure' = NoFailure /\ waiting' = FALSE
               /\ clean' = FALSE /\ completed' = FALSE /\ fresh' = FALSE
               /\ second' = FALSE /\ todo' = {} /\ row' = 0
               /\ proved' = FALSE /\ cycles' = 0 /\ shutdown' = FALSE
               /\ outcome' = "failed"
               /\ UNCHANGED qualify

(***************************************************************************)
(* An exception leaves the loop; close_runtime_resources is next.          *)
(***************************************************************************)
Raise == /\ spc' = "closing" /\ outcome' = "failed"
         /\ UNCHANGED <<dbVars, cycleVars, flushVars, modeVars, reportVars, now,
                        dup, starts>>

ConsumerStopped == /\ spc \in {"top", "drain", "dup", "wait"} /\ TaskDone
                   /\ Raise
                   /\ UNCHANGED otherVars

(***************************************************************************)
(* flush: one snapshot of the unpublished rows, published in id order.     *)
(***************************************************************************)
PendingCapExceeded == Cardinality(Unpublished) > MaxPending

StartFlushOnlyAfterRecover(isSecond) ==
  /\ ~PendingCapExceeded
  /\ todo' = IF isSecond THEN Unpublished ELSE {}
  /\ second' = isSecond
  /\ spc' = "publish"
  /\ UNCHANGED row
StartFlush(isSecond) == /\ ~PendingCapExceeded
                        /\ todo' = Unpublished
                        /\ second' = isSecond
                        /\ spc' = "publish"
                        /\ UNCHANGED row

Top == /\ spc = "top" /\ ~TaskDone
       /\ target' = now
       /\ StartFlush(FALSE)
       /\ UNCHANGED <<otherVars, dbVars, end, failure, waiting, clean, completed,
                      fresh, modeVars, reportVars, now, dup, outcome, starts>>

\* ORDER BY id.
NextRow(i) == i \in todo /\ \A j \in todo : i <= j

Publish(i) == /\ spc = "publish" /\ NextRow(i)
              /\ ~LuaRefuses(outbox[i])
              /\ PublicationLua(outbox[i])
              /\ row' = i
              /\ spc' = "mark"
              /\ UNCHANGED <<consumerVars, faults, dbVars, cycleVars, second,
                             todo, modeVars, reportVars, now, dup, outcome,
                             starts>>

Mark == /\ spc = "mark"
        /\ published' = published \union {row}
        /\ todo' = todo \ {row}
        /\ row' = 0
        /\ spc' = "publish"
        /\ UNCHANGED <<otherVars, watermark, outbox, cycleVars, second, modeVars,
                       reportVars, now, dup, outcome, starts>>

FlushDone == /\ spc = "publish" /\ todo = {}
             /\ spc' = IF second THEN "drain" ELSE "bound"
             /\ UNCHANGED <<otherVars, dbVars, cycleVars, flushVars, modeVars,
                            reportVars, now, dup, outcome, starts>>

(***************************************************************************)
(* bounded_runtime_end, then recover: one task per symbol appends its bars *)
(* in order, each with its outbox row in one transaction.                  *)
(***************************************************************************)
Bound == /\ spc = "bound" /\ ~BatchRefused(watermark, target)
         /\ end' = bounded_runtime_end(watermark, target)
         /\ failure' = NoFailure /\ waiting' = FALSE
         /\ spc' = "recover"
         /\ UNCHANGED <<otherVars, dbVars, target, clean, completed, fresh, flushVars,
                        modeVars, reportVars, now, dup, outcome, starts>>

AppendBar(s) == /\ spc = "recover" /\ failure[s] = "none" /\ watermark[s] < end
                /\ watermark' = [watermark EXCEPT ![s] = @ + 1]
                /\ outbox' = Append(outbox, <<s, watermark[s] + 1>>)
                /\ UNCHANGED <<otherVars, published, cycleVars, flushVars,
                               modeVars, reportVars, now, spc, dup, outcome,
                               starts>>

(***************************************************************************)
(* A symbol's task raises: a source failure while it has bars to fetch, or *)
(* anything else, the commit of its last bar included.  The task group     *)
(* cancels the siblings, which may commit or raise in turn; one outage is  *)
(* one fault however many symbols it meets.                                *)
(***************************************************************************)
SymbolFails(s, k) ==
  /\ spc = "recover" /\ failure[s] = "none" /\ k # "none"
  /\ k \in SourceReasons => watermark[s] < end
  /\ IF failure = NoFailure THEN Fault ELSE UNCHANGED faults
  /\ failure' = [failure EXCEPT ![s] = k]
  /\ UNCHANGED <<redisVars, consumerVars, dbVars, target, end, waiting, clean,
                 completed, fresh, flushVars, modeVars, reportVars, now, spc,
                 dup, outcome, starts>>

\* The exceptions of the group that recover receives.
Leaves == {failure[s] : s \in Symbols} \ {"none"}

\* recover raises a mixed group as it is and source_wait_reason refuses it.
DeferrableByAnyLeaf == \E k \in SourceReasons : k \in Leaves
Deferrable == \E k \in SourceReasons : Leaves = {k}

BatchAppended == \A s \in Symbols : watermark[s] = end
Recovered == Leaves = {} /\ BatchAppended
Deferred == ~qualify /\ Deferrable

RecoverDone == /\ spc = "recover" /\ Recovered
               /\ StartFlush(TRUE)
               /\ UNCHANGED <<otherVars, dbVars, cycleVars, modeVars,
                              reportVars, now, dup, outcome, starts>>

\* SourceCircuit.failed admits the failure: flush what the batch appended.
SourceWait == /\ spc = "recover" /\ Deferred
              /\ waiting' = TRUE
              /\ StartFlush(TRUE)
              /\ UNCHANGED <<otherVars, dbVars, target, end, failure, clean,
                             completed, fresh, modeVars, reportVars, now, dup,
                             outcome, starts>>

\* Qualification waits for nothing; serving waits for nothing but the source.
RecoverFails == /\ spc = "recover" /\ Leaves # {} /\ ~Deferred
                /\ Raise
                /\ UNCHANGED otherVars

(***************************************************************************)
(* The drain loop reads pending, unresolved, completed and uncompleted in  *)
(* separate statements while the consumer goes on: completed may be as old *)
(* as unresolved or as new as uncompleted.                                 *)
(***************************************************************************)
ReadPending == /\ spc = "drain" /\ ~TaskDone
               /\ clean' = (Unpublished = {} /\ Unresolved = {})
               /\ completed' = (Completed # {})
               /\ spc' = "drained"
               /\ UNCHANGED <<otherVars, dbVars, target, end, failure, waiting, fresh, flushVars,
                              modeVars, reportVars, now, dup, outcome, starts>>

DrainedSkipsCompletion == clean
Drained == clean /\ Uncompleted = {}

ReadUncompleted == /\ spc = "drained"
                   /\ spc' = IF Drained THEN "sample" ELSE "drain"
                   /\ completed' \in {completed, Completed # {}}
                   /\ UNCHANGED <<otherVars, dbVars, target, end, failure, waiting, clean,
                                  fresh, flushVars, modeVars, reportVars, now,
                                  dup, outcome, starts>>

\* Watermarks and clock are read once; the duplicate proof comes after them.
Fresh == ~waiting /\ \A s \in Symbols : watermark[s] >= now

Sample == /\ spc = "sample"
          /\ target' = now
          /\ fresh' = Fresh
          /\ spc' = IF qualify /\ completed /\ ~proved THEN "dup" ELSE "report"
          /\ UNCHANGED <<otherVars, dbVars, end, failure, waiting, clean, completed, flushVars,
                         modeVars, reportVars, now, dup, outcome, starts>>

(***************************************************************************)
(* verify_duplicate_delivery: the newest published row is accepted again   *)
(* under the same id, then delivered a second time by a bare XADD, and the *)
(* proof waits until that entry is delivered and no longer pending.        *)
(***************************************************************************)
AddDuplicate(i) == /\ spc = "dup" /\ dup = 0
                   /\ i \in published /\ \A j \in published : j <= i
                   /\ ledger[outbox[i]] # 0 /\ ~LuaRefuses(outbox[i])
                   /\ XADD(outbox[i])
                   /\ dup' = Len(stream) + 1
                   /\ UNCHANGED <<consumerVars, faults, dbVars, cycleVars,
                                  flushVars, modeVars, reportVars, now, spc,
                                  outcome, starts>>

DuplicateGone == dup # 0 /\ lastDelivered >= dup /\ ~Pending(dup)

DuplicateAcked == /\ spc = "dup" /\ DuplicateGone /\ ~TaskDone
                  /\ proved' = TRUE
                  /\ spc' = "report"
                  /\ UNCHANGED <<otherVars, dbVars, cycleVars, flushVars,
                                 qualify, cycles, shutdown, reportVars, now,
                                 dup, outcome, starts>>

(***************************************************************************)
(* Write status.json and decide, without an await in between, whether to   *)
(* return, wait for the source, go on catching up, or idle.                *)
(***************************************************************************)
Qualified == qualify /\ completed /\ cycles >= 1 /\ fresh

AfterReportIgnoresStop == IF Qualified THEN "closing"
                          ELSE IF waiting THEN "wait"
                          ELSE IF fresh THEN "idle" ELSE "top"
AfterReport == IF Qualified \/ shutdown THEN "closing"
               ELSE IF waiting THEN "wait" ELSE IF fresh THEN "idle" ELSE "top"

Report ==
  /\ spc = "report"
  /\ status' = IF waiting THEN "WAITING_SOURCE"
               ELSE IF fresh THEN "RUNNING" ELSE "CATCHING_UP"
  /\ statusTarget' = target
  /\ cycles' = IF cycles < 2 THEN cycles + 1 ELSE cycles
  /\ spc' = AfterReport
  /\ outcome' = IF Qualified THEN "qualified"
                ELSE IF shutdown THEN "stopped" ELSE outcome
  /\ UNCHANGED <<otherVars, dbVars, cycleVars, flushVars, qualify, proved,
                 shutdown, now, dup, starts>>

\* SourceCircuit.wait ends by its delay or by the shutdown request.
WaitEnds == /\ spc = "wait" /\ (shutdown \/ ~TaskDone)
            /\ spc' = IF shutdown THEN "closing" ELSE "top"
            /\ outcome' = IF shutdown THEN "stopped" ELSE outcome
            /\ UNCHANGED <<otherVars, dbVars, cycleVars, flushVars, modeVars,
                           reportVars, now, dup, starts>>

\* runtime_idle: a stop request only shortens the pause.
IdleEnds == /\ spc = "idle"
            /\ spc' = "top"
            /\ UNCHANGED <<otherVars, dbVars, cycleVars, flushVars, modeVars,
                           reportVars, now, dup, outcome, starts>>

(***************************************************************************)
(* What the supervisor refuses: a batch out of bounds, more pending rows   *)
(* than the cap, a publication the script rejects.                         *)
(***************************************************************************)
Refused == \/ spc = "bound" /\ BatchRefused(watermark, target)
           \/ spc = "top" /\ PendingCapExceeded
           \/ spc = "recover" /\ (Recovered \/ Deferred) /\ PendingCapExceeded
           \/ spc = "publish" /\ \E i \in todo : NextRow(i) /\ LuaRefuses(outbox[i])
           \/ spc = "dup" /\ dup = 0
              /\ \E i \in published : /\ \A j \in published : j <= i
                                      /\ ledger[outbox[i]] = 0 \/ LuaRefuses(outbox[i])

Refuse == Refused /\ Raise /\ UNCHANGED otherVars

\* CONSUMER_COMPLETION_DEADLINE and DUPLICATE_ACK_DEADLINE.
DeadlineNever == FALSE /\ Raise /\ UNCHANGED otherVars
DeadlinePassed == /\ \/ spc = "drained" /\ ~Drained
                     \/ spc = "dup" /\ dup # 0 /\ ~DuplicateGone
                  /\ Raise
                  /\ UNCHANGED otherVars

\* Any other error: a lost connection, an unclassified source error.
SupervisorFails == /\ spc \in Live /\ Fault
                   /\ Raise
                   /\ UNCHANGED <<redisVars, consumerVars>>

(***************************************************************************)
(* close_runtime_resources cancels the consumer task; then main writes the *)
(* immutable receipt, or FAILED_CLOSED.                                    *)
(***************************************************************************)
Close == /\ spc = "closing"
         /\ CancelTask
         /\ ProcessGone
         /\ spc' = outcome
         /\ status' = IF outcome = "failed" THEN "FAILED_CLOSED" ELSE status
         /\ UNCHANGED <<faults, dbVars, statusTarget, now, dup, starts>>

\* Closing a resource fails and there is no earlier error: it is raised.
CloseFails == /\ spc = "closing" /\ outcome # "failed" /\ Fault
              /\ Raise
              /\ UNCHANGED <<redisVars, consumerVars>>

(***************************************************************************)
(* The environment: SIGTERM (a handler only when serving), SIGKILL, which  *)
(* docker stop sends 15 seconds later, and the wall clock.                 *)
(***************************************************************************)
Sigterm == /\ spc \in Live /\ ~qualify /\ ~shutdown
           /\ shutdown' = TRUE
           /\ UNCHANGED <<otherVars, dbVars, cycleVars, flushVars, qualify,
                          proved, cycles, reportVars, now, spc, dup, outcome,
                          starts>>

Kill == /\ spc \in Live \union {"closing"} /\ Fault
        /\ spc' = "killed"
        /\ TaskGone /\ ProcessGone
        /\ UNCHANGED <<redisVars, inbox, dbVars, reportVars, now, dup, starts>>

Tick == /\ now < MaxMinute
        /\ now' = now + 1
        /\ UNCHANGED <<otherVars, dbVars, cycleVars, flushVars, modeVars,
                       reportVars, spc, dup, outcome, starts>>

ClockStepsBack == /\ now > 0 /\ Fault
                  /\ now' = now - 1
                  /\ UNCHANGED <<redisVars, consumerVars, dbVars, cycleVars,
                                 flushVars, modeVars, reportVars, spc, dup,
                                 outcome, starts>>

Supervisor == \/ ConsumerStopped
              \/ Top
              \/ \E i \in todo : Publish(i)
              \/ Mark
              \/ FlushDone
              \/ Bound
              \/ \E s \in Symbols : AppendBar(s)
              \/ RecoverDone
              \/ SourceWait
              \/ RecoverFails
              \/ ReadPending
              \/ ReadUncompleted
              \/ Sample
              \/ \E i \in published : AddDuplicate(i)
              \/ DuplicateAcked
              \/ Report
              \/ WaitEnds
              \/ IdleEnds
              \/ Refuse
              \/ Close

Consumer == spc \in Live /\ ConsumerStep /\ UNCHANGED supVars

ConsumerFails == spc \in Live /\ ConsumerFault /\ UNCHANGED supVars

Environment == \/ ConsumerFails
               \/ \E s \in Symbols : \E k \in Failures : SymbolFails(s, k)
               \/ DeadlinePassed
               \/ SupervisorFails
               \/ CloseFails
               \/ Sigterm
               \/ Kill
               \/ Tick
               \/ ClockStepsBack
               \/ Start

Next == Supervisor \/ Consumer \/ Environment

Spec == Init /\ [][Next]_vars

(***************************************************************************)
(* Fairness: the event loop runs every task that can go on, and every      *)
(* command ends by its timeout.  A drain loop that keeps failing meets its *)
(* deadline, because each turn sleeps and the deadline is fixed.           *)
(***************************************************************************)
Fairness == /\ WF_vars(Supervisor)
            /\ WF_vars(Consumer)
            /\ SF_vars(DeadlinePassed)

FairSpec == Spec /\ Fairness

----------------------------------------------------------------------------
(***************************************************************************)
(* Safety.                                                                 *)
(***************************************************************************)

\* The stream holds a bar once, whatever crashes between the publication
\* script and the published_at update; the one exception is the duplicate
\* that qualification adds on purpose.
AcceptedOnce == \A i, j \in 1..Len(stream) :
                  stream[i] = stream[j] => i = j \/ dup \in {i, j}

\* A receipt points at the entry of its own bar, so the publication script
\* never answers EPOCH_RECEIPT_WITHOUT_STREAM or EPOCH_STREAM_PAYLOAD_CONFLICT,
\* and an outbox row is marked published only after it has such a receipt.
PublishedIsAccepted == /\ \A b \in Bars : ~LuaRefuses(b)
                       /\ \A i \in published : ledger[outbox[i]] # 0

\* A bar is accepted exactly as the ledger says: at most once besides the
\* duplicate of qualification, and before its outbox row is marked.
AcceptedExactly == AcceptedOnce /\ PublishedIsAccepted

\* The bars of a symbol enter the stream in market order, although the
\* per-symbol tasks append concurrently and flushes are cut short.
StreamOrdered == \A i, j \in 1..Len(stream) :
                   /\ i < j /\ dup \notin {i, j}
                   /\ stream[i][1] = stream[j][1]
                   => stream[i][2] < stream[j][2]

\* A delivered entry that is no longer pending has a COMPLETED inbox row:
\* XACK never runs ahead of the inbox commit, and a read whose answer was
\* lost leaves its entries pending.
AckedOnlyCompleted == \A i \in 1..lastDelivered :
                        Pending(i) \/ inbox[stream[i]] = "COMPLETED"

\* status.json says RUNNING only when every bar up to the finalized target
\* it names is completed, although the drain loop reads its four counters in
\* separate statements; the claim stays true after the process has died.
RunningIsTruthful == status = "RUNNING" =>
                       \A s \in Symbols : \A m \in 1..statusTarget :
                         inbox[<<s, m>>] = "COMPLETED"

\* An outage of the source hides no other failure and delays no bar that the
\* cut batch appended: while the supervisor waits for the source, every symbol
\* that failed met the same outage, and all rows are published and completed.
WaitingIsForTheSource ==
  spc = "wait" =>
    /\ \A s, u \in Symbols :
         failure[s] # "none" /\ failure[u] # "none"
           => failure[s] = failure[u] /\ failure[s] # "other"
    /\ Unpublished = {} /\ Uncompleted = {}

\* What status.json tells the controller: a running epoch is complete up to
\* its target, and a waiting one waits for the source only.
StatusIsTruthful == RunningIsTruthful /\ WaitingIsForTheSource

\* A graceful stop interrupts no delivery: nothing is unpublished, and no
\* inbox row is left open by cancelling the consumer task.
StopLeavesNothingOpen == spc = "stopped" =>
                           Unpublished = {} /\ Uncompleted = {} /\ Unresolved = {}

\* flush never meets more rows than MAX_PENDING: the flush before a batch
\* clears what an interrupted batch left behind.
PendingWithinCap == Cardinality(Unpublished) <= MaxPending

\* What catching up over several batches keeps, whatever cuts one of them:
\* the order of the stream and the bound of the outbox.
CatchupIsOrderly == StreamOrdered /\ PendingWithinCap

\* Until the first restart messages complete in stream order: after an
\* ambiguous read the consumer drains its own pending entries before it asks
\* for new ones.
CompletesInOrder == starts <= 1 =>
  \A i, j \in 1..Len(stream) :
    i < j /\ inbox[stream[j]] = "COMPLETED" => inbox[stream[i]] = "COMPLETED"

\* A completed message is never handled again, however often it is
\* redelivered by replay, reclaim or the qualification duplicate.
CompletedIsFinal == [][\A b \in Bars : inbox[b] = "COMPLETED"
                                         => inbox'[b] = "COMPLETED"]_vars

\* The duplicate proof finds the number of completed rows unchanged: it never
\* raises DUPLICATE_CREATED_EXTRA_DURABLE_EFFECT while ordinary deliveries
\* are still on their way.
DuplicateHasNoEffect == [][spc = "dup" /\ spc' \in {"dup", "report"}
                             => Completed' = Completed]_vars

\* A graceful stop leaves no entry delivered and not acknowledged, as a
\* fully drained cycle would, so that the queue passes the boot check.
StopLeavesNothingPending == spc = "stopped" => pel = {}

----------------------------------------------------------------------------
(***************************************************************************)
(* Liveness, under FairSpec.                                               *)
(***************************************************************************)

\* A bar in the outbox is completed, or the process ends and says so.
EnqueuedIsCompleted ==
  \A b \in Bars : (\E i \in 1..Len(outbox) : outbox[i] = b)
                    ~> (inbox[b] = "COMPLETED" \/ spc \in Ended)

\* SIGTERM ends the process even when the source or the consumer fails.
ShutdownEnds == shutdown ~> spc \in Ended

\* A dead consumer task is noticed: no process keeps serving without one.
DeadConsumerEnds == TaskDone ~> spc \in Ended

\* A process that was told to stop, or whose consumer task is dead, ends.
ServingEnds == ShutdownEnds /\ DeadConsumerEnds

----------------------------------------------------------------------------
(***************************************************************************)
(* EpochDelivery implements BarDelivery.                                   *)
(***************************************************************************)
Enqueued == {outbox[i] : i \in 1..Len(outbox)}

StageOf(b) == IF inbox[b] = "COMPLETED" THEN "completed"
              ELSE IF ledger[b] # 0 THEN "accepted"
              ELSE IF b \in Enqueued THEN "enqueued" ELSE "absent"

Abstract == INSTANCE BarDelivery WITH stage <- [b \in Bars |-> StageOf(b)]

\* Every step of the runtime moves at most one bar, by one stage, and only
\* after its predecessor; all other steps are invisible.
ImplementsBarDelivery == Abstract!Spec
=============================================================================

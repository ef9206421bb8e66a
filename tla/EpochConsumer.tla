--------------------------- MODULE EpochConsumer ---------------------------
(***************************************************************************)
(* The consumer task of a runtime epoch: the loop of                       *)
(* EpochRedisTransport.subscribe, the durable inbox around it and the      *)
(* acknowledgement.  One asyncio task of the serving process; the actions  *)
(* below are its steps between two awaits.                                 *)
(*                                                                         *)
(* Every Redis command may fail in transport before or after the server    *)
(* executed it.  The task then keeps its consumer name and drains its own  *)
(* PEL before it asks for new entries again.                               *)
(***************************************************************************)
EXTENDS RedisStream

CONSTANTS RedisAttempts,  \* RUNTIME_REDIS_ATTEMPTS
          MaxFaults       \* bound: failures injected in one behaviour

ASSUME ConsumerAssumption == /\ RedisAttempts \in Nat \ {0}
                             /\ MaxFaults \in Nat

VARIABLES inbox,     \* bar -> state of its message_inbox row
          cpc,       \* where the task is
          me,        \* the consumer name of this process
          batch,     \* ids fetched and not yet yielded
          after,     \* where the loop continues once batch is empty
          cur,       \* id of the envelope being handled, 0 if none
          replay,    \* replay_pending
          failures,  \* consecutive failures of the read loop
          tries,     \* failed attempts of the current runtime_redis_call
          faults,    \* injected failures so far
          now        \* the finalized minute, by the wall clock

consumerVars == <<inbox, cpc, me, batch, after, cur, replay, failures, tries>>

InboxState == {"none", "PROCESSING", "COMPLETED"}

ConsumerPC == {"ensure", "loop", "new", "yield", "claim", "handle", "xack",
               "dead", "down"}

ConsumerTypeOK == /\ inbox \in [Bars -> InboxState]
                  /\ cpc \in ConsumerPC
                  /\ me \in Instances
                  /\ batch \subseteq 1..lastDelivered
                  /\ after \in {"loop", "new"}
                  /\ cur \in 0..lastDelivered
                  /\ failures \in 0..RedisAttempts
                  /\ tries \in 0..RedisAttempts
                  /\ faults \in 0..MaxFaults

ConsumerInit == /\ inbox = [b \in Bars |-> "none"]
                /\ cpc = "down"
                /\ me \in Instances
                /\ batch = {} /\ after = "loop" /\ cur = 0
                /\ replay = FALSE /\ failures = 0 /\ tries = 0
                /\ faults = 0

Completed == {b \in Bars : inbox[b] = "COMPLETED"}
Unresolved == {b \in Bars : inbox[b] = "PROCESSING"}

\* The task has ended: asyncio's task.done().
TaskDone == cpc = "dead"

Fault == faults < MaxFaults /\ faults' = faults + 1

(***************************************************************************)
(* A new process creates the task; its hostname and pid may or may not be  *)
(* those of an earlier process.  When the process or the task's owner is   *)
(* gone, so is everything the task held in memory.                         *)
(***************************************************************************)
CreateTask == /\ cpc' = "ensure"
              /\ me' \in Instances
              /\ UNCHANGED <<inbox, batch, after, cur, replay, failures, tries>>

TaskGone == /\ cpc' = "down"
            /\ batch' = {} /\ after' = "loop" /\ cur' = 0
            /\ replay' = FALSE /\ failures' = 0 /\ tries' = 0
            /\ UNCHANGED me

(***************************************************************************)
(* subscribe: XGROUP CREATE through runtime_redis_call.                    *)
(***************************************************************************)
EnsureGroup == /\ cpc = "ensure"
               /\ cpc' = "loop" /\ tries' = 0
               /\ UNCHANGED <<redisVars, inbox, me, batch, after, cur, replay,
                              failures, faults>>

(***************************************************************************)
(* runtime_redis_call: RedisAttempts transport failures of one command end *)
(* the task, fewer are retried.                                            *)
(***************************************************************************)
CallFailed == /\ tries' = tries + 1
              /\ cpc' = IF tries + 1 >= RedisAttempts THEN "dead" ELSE cpc
              /\ UNCHANGED <<inbox, me, batch, after, cur, replay, failures>>

EnsureFault == /\ cpc = "ensure" /\ Fault
               /\ CallFailed /\ UNCHANGED redisVars

(***************************************************************************)
(* The read loop.  Yield rows, then continue at next.                      *)
(***************************************************************************)
Fetched(rows, next) ==
  /\ batch' = rows
  /\ after' = next
  /\ cpc' = IF rows = {} THEN next ELSE "yield"
  /\ UNCHANGED <<inbox, me, cur, tries, faults>>

PendingRead ==
  /\ cpc = "loop" /\ replay
  /\ failures' = 0
  /\ replay' = (OwnPending(me) # {})
  /\ Fetched(FirstRows(OwnPending(me)), "loop")
  /\ UNCHANGED redisVars

\* ids: the entries XAUTOCLAIM finds idle; none when the sweep is not due.
Reclaim(ids) ==
  /\ cpc = "loop" /\ ~replay
  /\ XAUTOCLAIM(ids, me)
  /\ Fetched(ids, "new")
  /\ UNCHANGED <<replay, failures>>

NewRead ==
  /\ cpc = "new"
  /\ XREADGROUP(me)
  /\ failures' = 0
  /\ Fetched(NewRows, "loop")
  /\ UNCHANGED replay

\* The except clause of the loop.
ReadFailedNoReplay ==
  /\ failures' = failures + 1
  /\ cpc' = IF failures + 1 >= RedisAttempts THEN "dead" ELSE "loop"
  /\ UNCHANGED <<inbox, me, batch, after, cur, replay, tries>>
ReadFailed == /\ failures' = failures + 1
              /\ IF failures + 1 >= RedisAttempts
                 THEN cpc' = "dead" /\ UNCHANGED replay
                 ELSE cpc' = "loop" /\ replay' = TRUE
              /\ UNCHANGED <<inbox, me, batch, after, cur, tries>>

PendingReadFault == /\ cpc = "loop" /\ replay /\ Fault
                    /\ ReadFailed /\ UNCHANGED redisVars

ReclaimFault(ids) == /\ cpc = "loop" /\ ~replay /\ Fault
                     /\ ReadFailed
                     /\ XAUTOCLAIM(ids, me)

NewReadFault == /\ cpc = "new" /\ Fault
                /\ ReadFailed
                /\ XREADGROUP(me) \/ UNCHANGED redisVars

\* recovery_deadline, armed by the first failure of an outage.
RecoveryDeadline == /\ cpc \in {"loop", "new"} /\ failures > 0
                    /\ cpc' = "dead"
                    /\ UNCHANGED <<redisVars, inbox, me, batch, after, cur,
                                   replay, failures, tries, faults>>

(***************************************************************************)
(* Yield the oldest fetched entry to the durable bus.                      *)
(***************************************************************************)
Yield(i) ==
  /\ cpc = "yield"
  /\ i \in batch /\ \A j \in batch : i <= j
  /\ cur' = i /\ batch' = batch \ {i}
  /\ cpc' = "claim"
  /\ UNCHANGED <<redisVars, inbox, me, after, replay, failures, tries, faults>>

BatchDone == /\ cpc = "yield" /\ batch = {}
             /\ cpc' = after
             /\ UNCHANGED <<redisVars, inbox, me, batch, after, cur, replay,
                            failures, tries, faults>>

(***************************************************************************)
(* DurableMessageBus.subscribe claims the inbox row of the message.  A     *)
(* completed one is acknowledged without running the handler again.        *)
(***************************************************************************)
ClaimInboxAnyRow ==
  /\ cpc = "claim"
  /\ IF inbox[stream[cur]] # "none"
     THEN cpc' = "xack" /\ UNCHANGED inbox
     ELSE cpc' = "handle" /\ inbox' = [inbox EXCEPT ![stream[cur]] = "PROCESSING"]
  /\ UNCHANGED <<redisVars, me, batch, after, cur, replay, failures, tries, faults>>
ClaimInboxReopens ==
  /\ cpc = "claim"
  /\ cpc' = "handle" /\ inbox' = [inbox EXCEPT ![stream[cur]] = "PROCESSING"]
  /\ UNCHANGED <<redisVars, me, batch, after, cur, replay, failures, tries, faults>>
ClaimInbox ==
  /\ cpc = "claim"
  /\ IF inbox[stream[cur]] = "COMPLETED"
     THEN cpc' = "xack" /\ UNCHANGED inbox
     ELSE cpc' = "handle" /\ inbox' = [inbox EXCEPT ![stream[cur]] = "PROCESSING"]
  /\ UNCHANGED <<redisVars, me, batch, after, cur, replay, failures, tries, faults>>

\* consume refuses a bar that is not final by the clock it reads now.
BarIsFinal == stream[cur][2] <= now

RejectBar == /\ cpc = "handle" /\ ~BarIsFinal
             /\ cpc' = "dead"
             /\ UNCHANGED <<redisVars, inbox, me, batch, after, cur, replay,
                            failures, tries, faults>>

\* consume's body and bus.ack: the inbox row is committed before the XACK.
CommitInbox ==
  /\ cpc = "handle" /\ BarIsFinal
  /\ inbox' = [inbox EXCEPT ![stream[cur]] = "COMPLETED"]
  /\ cpc' = "xack"
  /\ UNCHANGED <<redisVars, me, batch, after, cur, replay, failures, tries, faults>>

Ack == /\ cpc = "xack"
       /\ XACK(cur)
       /\ cpc' = "yield" /\ cur' = 0 /\ tries' = 0
       /\ UNCHANGED <<inbox, me, batch, after, replay, failures, faults>>

AckFault == /\ cpc = "xack" /\ Fault
            /\ CallFailed
            /\ XACK(cur) \/ UNCHANGED redisVars

(***************************************************************************)
(* Anything that is not a transport failure ends the task: authentication, *)
(* a missing payload, a refused bar contract, a database error.            *)
(***************************************************************************)
TaskFails == /\ cpc \notin {"dead", "down"} /\ Fault
             /\ cpc' = "dead"
             /\ UNCHANGED <<redisVars, inbox, me, batch, after, cur, replay,
                            failures, tries>>

(***************************************************************************)
(* task.cancel() at an await: the command in flight may still take effect. *)
(***************************************************************************)
CancelTask ==
  /\ TaskGone
  /\ \/ UNCHANGED <<redisVars, inbox>>
     \/ cpc = "xack" /\ XACK(cur) /\ UNCHANGED inbox
     \/ cpc = "new" /\ XREADGROUP(me) /\ UNCHANGED inbox
     \/ /\ cpc = "loop" /\ ~replay
        /\ \E ids \in SUBSET {e[1] : e \in pel} : XAUTOCLAIM(ids, me)
        /\ UNCHANGED inbox
     \/ /\ cpc = "claim" /\ inbox[stream[cur]] # "COMPLETED"
        /\ inbox' = [inbox EXCEPT ![stream[cur]] = "PROCESSING"]
        /\ UNCHANGED redisVars
     \/ /\ cpc = "handle" /\ BarIsFinal
        /\ inbox' = [inbox EXCEPT ![stream[cur]] = "COMPLETED"]
        /\ UNCHANGED redisVars

ConsumerStep == \/ EnsureGroup
                \/ PendingRead
                \/ \E ids \in SUBSET {e[1] : e \in pel} : Reclaim(ids)
                \/ NewRead
                \/ RecoveryDeadline
                \/ \E i \in batch : Yield(i)
                \/ BatchDone
                \/ ClaimInbox
                \/ RejectBar
                \/ CommitInbox
                \/ Ack

ConsumerFault == \/ EnsureFault
                 \/ PendingReadFault
                 \/ \E ids \in SUBSET {e[1] : e \in pel} : ReclaimFault(ids)
                 \/ NewReadFault
                 \/ AckFault
                 \/ TaskFails
=============================================================================

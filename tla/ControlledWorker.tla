--------------------------- MODULE ControlledWorker ---------------------------
(***************************************************************************)
(* The worker container of the controlled runtime transition               *)
(* (controlled_runtime_worker.py).  One outer transaction migrates the     *)
(* schema, quarantines the one expired outbox row and grants the runtime   *)
(* roles, or none of it happens.  On the owned clone the worker rehearses: *)
(* it aborts the transaction at every checkpoint, then loses the answer    *)
(* to a COMMIT and classifies the outcome on a new connection.  On the     *)
(* primary it applies once and classifies a lost answer the same way.      *)
(*                                                                         *)
(* At most one worker runs at a time (both controllers call worker() one   *)
(* after the other), so one record holds it.  The server keeps the         *)
(* transaction: it can outlive the process that sent the COMMIT.           *)
(***************************************************************************)
EXTENDS Naturals, Sequences

CONSTANTS NoPlan      \* no accepted history

\* The databases a worker may be given.
Targets == {"clone", "primary"}

\* The fault checkpoints of the rehearsal, in the order the transaction
\* meets them; the six migrations are one checkpoint here.
Checkpoints == <<"migrated", "quarantined", "granted", "prepared">>

\* A restored or original legacy database; hist is everything the transition
\* must not change.
Legacy(h) == [profile |-> "legacy", row |-> "leased", roles |-> FALSE, hist |-> h]

\* The complete result of one transition.
Runtime(h) == [profile |-> "runtime", row |-> "quarantined", roles |-> TRUE, hist |-> h]

VARIABLES db,     \* the committed content of each target
          w,      \* the worker process
          server  \* the outer transaction as the server has it
workerVars == <<db, w, server>>

NoWorker == [mode |-> "none", pc |-> "none", target |-> "clone", plan |-> NoPlan,
             round |-> 0, said |-> "none", receipt |-> "none"]
NoTransaction == [state |-> "none", target |-> "clone", txn |-> Legacy(NoPlan)]

WorkerAt(p) == w.pc = p
Goto(p) == w' = [w EXCEPT !.pc = p]

\* raise WorkerError before COMMIT: the outer rollback is acknowledged.
Reject == Goto("failed") /\ server' = NoTransaction /\ UNCHANGED db

\* A new container starts its process: validate_plan has bound the mode to
\* the target.
StartWorker(mode, target, plan) ==
  w' = [NoWorker EXCEPT !.mode = mode, !.pc = "connect", !.target = target,
                        !.plan = plan, !.round = IF mode = "rehearse" THEN 1 ELSE 0]

\* _connect, and for the primary _preflight_runtime_login.
Connect(up) ==
  /\ WorkerAt("connect")
  /\ \/ up /\ (w.target = "primary" => ~db["primary"].roles) /\ Goto("lock")
     \/ Goto("failed")
  /\ UNCHANGED <<db, server>>

\* _lock_boundary and _prepare_exact: no other client, both advisory locks,
\* every legacy table in ACCESS EXCLUSIVE mode, and the full history is the
\* accepted one.
HistoryUnchecked == db[w.target].profile = "legacy"
HistoryAccepted == db[w.target] = Legacy(w.plan)

Lock(up) ==
  /\ WorkerAt("lock")
  /\ \/ /\ up /\ server.state = "none" /\ HistoryAccepted
        /\ server' = [state |-> "open", target |-> w.target, txn |-> db[w.target]]
        /\ Goto("migrated")
        /\ UNCHANGED db
     \/ Reject

\* What each stage of the transaction does to its private copy.
Changed(stage, t) ==
  CASE stage = "migrated"    -> [t EXCEPT !.profile = "runtime"]
    [] stage = "quarantined" -> [t EXCEPT !.row = "quarantined"]
    [] stage = "granted"     -> [t EXCEPT !.roles = TRUE]
    [] OTHER                 -> t

\* One stage: its statements run inside the outer transaction, then
\* fault(stage) aborts it when this round of a rehearsal asks for it.
FaultHere(stage) ==
  w.mode = "rehearse" /\ w.round <= Len(Checkpoints) /\ Checkpoints[w.round] = stage

NextStage(stage) == CASE stage = "migrated"    -> "quarantined"
                      [] stage = "quarantined" -> "granted"
                      [] stage = "granted"     -> "prepared"
                      [] OTHER                 -> "commit"

Stage(stage) ==
  /\ WorkerAt(stage)
  /\ \/ /\ server.state = "open"
        /\ ~FaultHere(stage)
        /\ server' = [server EXCEPT !.txn = Changed(stage, @)]
        /\ Goto(NextStage(stage))
        /\ UNCHANGED db
     \/ /\ server.state = "open"
        /\ FaultHere(stage)
        /\ server' = NoTransaction
        /\ Goto("observe")
        /\ UNCHANGED db
     \/ Reject

\* After an injected fault a new read-only snapshot must be the baseline.
Observe(up) ==
  /\ WorkerAt("observe")
  /\ \/ /\ up /\ HistoryAccepted
        /\ w' = [w EXCEPT !.pc = "lock", !.round = @ + 1]
     \/ Goto("failed")
  /\ UNCHANGED <<db, server>>

\* outer.commit(): from here the outcome is the server's.
SendCommit ==
  /\ WorkerAt("commit")
  /\ \/ /\ server.state = "open"
        /\ server' = [server EXCEPT !.state = "committing"]
        /\ Goto("reply")
     \/ server.state # "open" /\ Goto("classify") /\ UNCHANGED server
  /\ UNCHANGED db

ServerCommits ==
  /\ server.state = "committing"
  /\ db' = [db EXCEPT ![server.target] = server.txn]
  /\ server' = NoTransaction
  /\ UNCHANGED w

\* The connection is gone or the server stops before the commit is durable.
ServerAborts ==
  /\ server.state = "committing" \/ (server.state = "open" /\ w.mode = "none")
  /\ server' = NoTransaction
  /\ UNCHANGED <<db, w>>

\* COMMIT is acknowledged, or the answer is lost (always, in a rehearsal).
Reply ==
  /\ WorkerAt("reply")
  /\ \/ /\ w.mode = "apply"
        /\ server.state = "none" /\ db[w.target] = Runtime(w.plan)
        /\ w' = [w EXCEPT !.pc = "receipt", !.said = "COMMITTED_ACKNOWLEDGED"]
     \/ Goto("classify")
  /\ UNCHANGED <<db, server>>

\* The classifier reads the locked tables: it waits for the transaction, or
\* its lock_timeout ends it.
TablesReadableAtOnce == TRUE
TablesReadable == server.state = "none"

\* _classify_readonly on a fresh connection.
Outcome == IF db[w.target] = Legacy(w.plan) THEN "ROLLED_BACK_EXACT"
           ELSE IF db[w.target] = Runtime(w.plan) THEN "COMMITTED_EXACT_READONLY"
           ELSE "INDETERMINATE"

Classify(up) ==
  /\ WorkerAt("classify")
  /\ \/ /\ up /\ TablesReadable
        /\ w' = [w EXCEPT !.said = Outcome,
                          !.pc = IF Outcome = "COMMITTED_EXACT_READONLY"
                                 THEN "receipt" ELSE "failed"]
     \/ Goto("failed")
  /\ UNCHANGED <<db, server>>

\* native-apply.json, or native-rehearsal.json after the idempotence probe
\* and the permission probe; the apply worker probes after its receipt.
WriteReceipt(up) ==
  /\ WorkerAt("receipt")
  /\ \/ /\ w.mode = "rehearse" => up
        /\ \E pc \in {"ok", "failed"} :
             w' = [w EXCEPT !.receipt = w.said, !.pc = pc]
     \/ w.mode = "rehearse" /\ Goto("failed")
  /\ UNCHANGED <<db, server>>

WorkerStep(up) ==
  \/ Connect(up) \/ Lock(up) \/ \E i \in 1..Len(Checkpoints) : Stage(Checkpoints[i])
  \/ Observe(up) \/ SendCommit \/ Reply \/ Classify(up) \/ WriteReceipt(up)

\* docker rm -f: the process is gone; what it had sent is with the server.
WorkerGone == w' = NoWorker

-----------------------------------------------------------------------------
\* What a worker has said or written about its COMMIT is final: a commit that
\* is still on its way cannot land after ROLLED_BACK_EXACT
\* (_classify_readonly), and a receipt means the complete transition of the
\* accepted history.
SaidIsFinal ==
  /\ w.said \in {"COMMITTED_ACKNOWLEDGED", "COMMITTED_EXACT_READONLY"} =>
       db[w.target] = Runtime(w.plan)
  /\ w.said = "ROLLED_BACK_EXACT" =>
       db[w.target].profile = "legacy" /\ server.state # "committing"
=============================================================================

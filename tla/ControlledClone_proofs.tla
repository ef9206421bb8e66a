----------------------- MODULE ControlledClone_proofs -----------------------
(***************************************************************************)
(* The accepted clone and the worker it rehearses, for every number of     *)
(* supervised runs, of histories of the primary and of failed commands.    *)
(*                                                                         *)
(* None of the properties is inductive.  Rehearsed adds four accounts:     *)
(*   WorkerInv   the open transaction is the worker's own and as far as    *)
(*               its stage, and a worker that has spoken has none;         *)
(*   ApplyInv    a plan on its way to the primary was accepted by a run    *)
(*               whose verdict is final;                                   *)
(*   BoxInv      containers are recorded, and a clone's transaction lives  *)
(*               in one of them;                                           *)
(*   PathInv     what a run without a failure has proved by its phase.     *)
(* A run that failed keeps the lease, so its worker, which goes on, never  *)
(* meets a second run on the clone.                                        *)
(***************************************************************************)
EXTENDS ControlledClone, TLAPS

-----------------------------------------------------------------------------
(* The invariant.                                                          *)

Hist == Nat \cup {NoPlan}
Content == [profile : {"legacy", "runtime"}, row : {"leased", "quarantined"},
            roles : BOOLEAN, hist : Hist]
PhaseNames == {"cold", "source", "first", "second", "verify",
               "current", "current_second", "current_verify"}
Helpers == {"worker", "redis"}
Stages == {"migrated", "quarantined", "granted", "prepared"}
Spoken == {"receipt", "ok", "failed"}
WorkerPcs == Stages \cup Spoken \cup {"none", "connect", "lock", "observe", "commit",
                                      "reply", "classify"}
Committed == {"COMMITTED_ACKNOWLEDGED", "COMMITTED_EXACT_READONLY"}
Sayings == Committed \cup {"none", "ROLLED_BACK_EXACT", "INDETERMINATE"}

\* The steps of run() while nothing has failed, and of finish().
OnPath == {"admit", "make", "use", "tar", "collect", "fixture", "dump", "drop"}
Finishing == {"f.workers", "f.owned", "f.receipt", "ended"}

WorkerType ==
  /\ db \in [Targets -> Content]
  /\ w \in [mode : {"none", "rehearse", "apply"}, pc : WorkerPcs, target : Targets,
            plan : Hist, round : Nat, said : Sayings, receipt : Sayings]
  /\ server \in [state : {"none", "open", "committing"}, target : Targets,
                 txn : Content]

Controllers ==
  [pc : OnPath \cup Finishing \cup {"none"}, phase : 1..8, ok : BOOLEAN,
   clean : BOOLEAN, owned : SUBSET PhaseNames, workers : SUBSET Helpers,
   cold : Content, copy : Content, current : Content,
   baseline : Hist, dump : Hist, after : Hist]

ControlType ==
  /\ cl \in Controllers
  /\ boxes \in SUBSET (PhaseNames \cup Helpers)

RunType ==
  /\ primary \in {"exited", "running"} /\ writes \in Nat
  /\ lease \in CloneRuns \cup {NoRun}
  /\ cloneSup \in [CloneRuns -> {"idle", "watch", "done"}]
  /\ child \in [CloneRuns -> {"none", "create", "run", "exit0", "exit1", "killed"}]
  /\ verdict \in [CloneRuns -> {"none", "PASS", "FAILED_CLOSED"}]
  /\ accepted \in [CloneRuns -> Hist]

Types == WorkerType /\ ControlType /\ RunType

\* A database that is still legacy was not touched by any part of a
\* transition.
Whole(d) == d.profile = "legacy" => d = Legacy(d.hist)

\* How far the transaction is before a stage.
Partial(stage, h) ==
  [profile |-> IF stage = "migrated" THEN "legacy" ELSE "runtime",
   row |-> IF stage \in {"migrated", "quarantined"} THEN "leased" ELSE "quarantined",
   roles |-> IF stage \in {"prepared", "commit"} THEN TRUE ELSE FALSE, hist |-> h]

WorkerInv ==
  /\ \A t \in Targets : Whole(db[t])
  /\ w.mode = "none" => w = NoWorker
  /\ w.mode = "rehearse" => w.target = "clone"
  /\ w.mode = "apply" => w.target = "primary"
  /\ w.pc \in Stages \cup {"commit"} /\ server.state # "none" =>
       /\ server.state = "open" /\ server.target = w.target
       /\ server.txn = Partial(w.pc, w.plan)
  /\ server.state = "committing" => server.txn = Runtime(server.txn.hist)
  /\ w.said # "none" => w.pc \in Spoken /\ server.state = "none"
  /\ w.pc \in {"receipt", "ok"} => w.said \in Committed
  /\ SaidIsFinal

\* A run's verdict is final, and so is what it accepted.
RunInv ==
  \A c \in CloneRuns :
    /\ cloneSup[c] = "idle" => child[c] = "none"
    /\ verdict[c] # "none" => cloneSup[c] = "done"
    /\ cloneSup[c] = "done" => child[c] \in {"exit0", "exit1", "killed"}

PassedPlan(h) == \E c \in CloneRuns : verdict[c] = "PASS" /\ h = accepted[c]

ApplyInv ==
  /\ w.mode = "apply" => PassedPlan(w.plan)
  /\ server.state = "committing" /\ server.target = "primary"
       => PassedPlan(server.txn.hist)
  /\ db["primary"].profile = "runtime" =>
       /\ PassedPlan(db["primary"].hist)
       /\ db["primary"] = Runtime(db["primary"].hist)

BoxInv ==
  /\ boxes \subseteq cl.owned \cup cl.workers
  /\ lease = NoRun => boxes = {}
  /\ server.state # "none" /\ server.target = "clone" => boxes \cap ClonePg # {}
  /\ cl.pc \in {"admit", "make"} => cl.owned = {}
  /\ cl.pc \in OnPath \ {"collect"} => cl.workers = {}
  /\ cl.pc = "collect" => cl.workers = {"worker"}
  /\ cl.pc \in OnPath \ {"admit", "make"} => cl.owned = {Phases[cl.phase]}

\* A rehearsal belongs to a run that waits for it or has failed.
RehearsalInv ==
  /\ cl.pc \in OnPath => cl.ok
  /\ cl.pc = "none" => cl.ok
  /\ w.mode = "rehearse" => lease # NoRun /\ (cl.pc = "collect" \/ ~cl.ok)
  /\ server.state # "none" /\ server.target = "clone" => cl.pc = "collect" \/ ~cl.ok
  /\ cl.pc = "collect" => w.mode = "rehearse" /\ w.plan = cl.baseline
  /\ cl.pc \in {"collect", "fixture", "dump"} => cl.phase = 6
  /\ cl.pc \in {"fixture", "dump"} => db["clone"] = Runtime(cl.baseline)
  /\ cl.pc = "use" /\ cl.phase = 7 => db["clone"] = [cl.current EXCEPT !.roles = FALSE]

\* The last phase whose checks have succeeded.
Proved == IF cl.pc = "drop" \/ cl.pc \in Finishing THEN cl.phase ELSE cl.phase - 1

PathInv ==
  cl.ok =>
    /\ cl.pc \in Finishing => cl.phase = 8
    /\ cl.pc = "tar" => cl.phase = 1
    /\ Proved >= 2 => cl.baseline = cl.cold.hist
    /\ Proved >= 3 => cl.dump = cl.baseline
    /\ Proved >= 4 => cl.after = cl.baseline
    /\ \/ cl.current = Legacy(NoPlan)
       \/ cl.phase >= 6 /\ cl.current = Runtime(cl.baseline)
    /\ Proved >= 7 => cl.current = Runtime(cl.baseline)

Rehearsed == /\ Types /\ WorkerInv /\ RunInv /\ ApplyInv /\ BoxInv
             /\ RehearsalInv /\ PathInv

\* The sets of labels are plain sets below.
USE DEF Targets, PhaseNames, Helpers, Stages, Spoken, WorkerPcs, Committed, Sayings,
        OnPath, Finishing, Controllers

LEMMA PhaseSteps ==
  /\ Len(Phases) = 8
  /\ Phases[1] = "cold" /\ Phases[2] = "source" /\ Phases[3] = "first"
  /\ Phases[4] = "second" /\ Phases[5] = "verify" /\ Phases[6] = "current"
  /\ Phases[7] = "current_second" /\ Phases[8] = "current_verify"
BY DEF Phases

LEMMA PhaseIsNamed == \A i \in 1..8 : Phases[i] \in PhaseNames
<1> SUFFICES ASSUME NEW i \in 1..8 PROVE Phases[i] \in PhaseNames
  OBVIOUS
<1>1. i \in {1, 2, 3, 4, 5, 6, 7, 8}
  OBVIOUS
<1> QED BY <1>1, PhaseSteps

LEMMA LegacyFields ==
  ASSUME NEW h \in Hist
  PROVE  /\ Legacy(h) \in Content /\ Runtime(h) \in Content
         /\ Legacy(h).profile = "legacy" /\ Legacy(h).hist = h
         /\ Runtime(h).profile = "runtime" /\ Runtime(h).hist = h
         /\ Legacy(h) # Runtime(h)
BY DEF Legacy, Runtime, Content

\* A write changes the history only; a legacy database has no roles to lose.
LEMMA LegacyUpdate ==
  ASSUME NEW h, NEW n
  PROVE  /\ [Legacy(h) EXCEPT !.hist = n] = Legacy(n)
         /\ [Legacy(h) EXCEPT !.roles = FALSE] = Legacy(h)
<1> DEFINE b == FALSE
           R(x) == [profile |-> "legacy", row |-> "leased", roles |-> b, hist |-> x]
<1>1. Legacy(n) = R(n) /\ Legacy(h) = R(h)
  BY DEF Legacy
<1> HIDE DEF b
<1>2. [R(h) EXCEPT !.hist = n] = R(n) /\ [R(h) EXCEPT !.roles = b] = R(h)
  OBVIOUS
<1> HIDE DEF R
<1>3. [Legacy(h) EXCEPT !.hist = n] = Legacy(n)
  BY <1>1, <1>2, Zenon
<1>4. [Legacy(h) EXCEPT !.roles = b] = Legacy(h)
  BY <1>1, <1>2, Zenon
<1> QED BY <1>3, <1>4, Zenon DEF b

LEMMA InitRehearsed == Init => Rehearsed
<1> SUFFICES ASSUME Init PROVE Rehearsed
  OBVIOUS
<1>1. NoPlan \in Hist /\ 0 \in Hist
  BY DEF Hist
<1>2. /\ w.mode = "none" /\ w.pc = "none" /\ w.said = "none" /\ w = NoWorker
      /\ server.state = "none" /\ server.target = "clone"
      /\ server.txn = Legacy(NoPlan) /\ w.target = "clone"
  BY DEF Init, NoWorker, NoTransaction
<1>3. /\ cl.pc = "none" /\ cl.ok /\ cl.phase = 1 /\ cl.owned = {}
      /\ cl.current = Legacy(NoPlan)
  BY DEF Init, Attributes
<1>4. WorkerType
  BY <1>1, LegacyFields DEF Init, WorkerType, NoWorker, NoTransaction
<1>5. ControlType /\ RunType
  <2>1. Legacy(NoPlan) \in Content
    BY <1>1, LegacyFields
  <2>2. ControlType
    <3>1. Attributes \in Controllers
      BY <1>1, <2>1 DEF Attributes
    <3> HIDE DEF Attributes
    <3> QED BY <3>1 DEF Init, ControlType
  <2>3. RunType
    BY <1>1, CloneAssumption DEF Init, RunType
  <2> QED BY <2>2, <2>3
<1>6. \A t \in Targets : Whole(db[t]) /\ db[t].profile = "legacy"
  <2>1. db["primary"] = Legacy(0) /\ db["clone"] = Legacy(NoPlan)
    BY DEF Init
  <2> QED BY <1>1, <2>1, LegacyFields DEF Whole
<1>7. WorkerInv
  BY <1>2, <1>6 DEF WorkerInv, SaidIsFinal
<1>8. RunInv
  BY DEF Init, RunInv
<1>9. ApplyInv
  BY <1>2, <1>6 DEF ApplyInv
<1>10. BoxInv
  BY <1>2, <1>3 DEF Init, BoxInv
<1>11. RehearsalInv /\ PathInv
  BY <1>2, <1>3 DEF RehearsalInv, PathInv, Proved
<1> QED BY <1>4, <1>5, <1>7, <1>8, <1>9, <1>10, <1>11 DEF Rehearsed, Types

-----------------------------------------------------------------------------
(* The worker and its transaction.                                         *)

Elsewhere == <<primary, lease, cl, boxes, cloneSup, child, verdict, accepted, writes>>

\* What a step of the worker must show: its own account, and where a new
\* transaction comes from.
LEMMA WorkerFrame ==
  ASSUME Rehearsed, UNCHANGED Elsewhere, UNCHANGED db, WorkerType', WorkerInv',
         w'.mode = w.mode, w'.plan = w.plan,
         server'.state # "none" /\ server'.target = "clone" =>
           \/ server.state # "none" /\ server.target = "clone"
           \/ w.mode = "rehearse" /\ boxes \cap ClonePg # {},
         server'.state = "committing" /\ server'.target = "primary" =>
           \/ server.state = "committing" /\ server' = server
           \/ PassedPlan(server'.txn.hist)
  PROVE  Rehearsed'
<1> USE DEF Elsewhere
<1>1. Types'
  BY DEF Rehearsed, Types, ControlType, RunType
<1>2. RunInv'
  BY DEF Rehearsed, RunInv
<1>3. ApplyInv'
  BY DEF Rehearsed, ApplyInv, PassedPlan
<1>4. BoxInv'
  BY DEF Rehearsed, BoxInv
<1>5. RehearsalInv'
  BY DEF Rehearsed, RehearsalInv
<1>6. PathInv'
  BY DEF Rehearsed, PathInv, Proved
<1> QED BY <1>1, <1>2, <1>3, <1>4, <1>5, <1>6 DEF Rehearsed

\* A process at work is not the absent worker, and knows its target.
LEMMA WorkerIsOne ==
  ASSUME Rehearsed, w.pc # "none"
  PROVE  /\ w.mode # "none"
         /\ w.target = "clone" => w.mode = "rehearse"
         /\ w.mode \in {"rehearse", "apply"}
<1>1. w.mode # "none"
  BY DEF Rehearsed, WorkerInv, NoWorker
<1> QED BY <1>1 DEF Rehearsed, Types, WorkerType, WorkerInv

\* A step that only moves the process.
LEMMA GotoRehearsed ==
  ASSUME Rehearsed, UNCHANGED Elsewhere, UNCHANGED <<db, server>>,
         NEW p \in {"lock", "failed", "classify"}, Goto(p), w.pc # "none",
         w.said = "none" \/ p = "failed",
         w.pc \notin {"lock", "failed"}
  PROVE  Rehearsed'
<1>1. WorkerType'
  BY DEF Rehearsed, Types, WorkerType, Goto
<1>2. /\ w'.mode = w.mode /\ w'.plan = w.plan /\ w'.target = w.target
      /\ w'.said = w.said /\ w'.pc = p
  BY DEF Rehearsed, Types, WorkerType, Goto
<1>3. w.mode # "none"
  BY WorkerIsOne
<1>4. WorkerInv'
  BY <1>2, <1>3 DEF Rehearsed, WorkerInv, SaidIsFinal
<1> QED BY <1>1, <1>2, <1>4, WorkerFrame

LEMMA RejectRehearsed ==
  ASSUME Rehearsed, UNCHANGED Elsewhere, Reject, w.pc # "none"
  PROVE  Rehearsed'
<1>1. UNCHANGED db /\ server' = NoTransaction /\ w' = [w EXCEPT !.pc = "failed"]
  BY DEF Reject, Goto
<1>2. /\ WorkerType' /\ server'.state = "none"
      /\ w'.mode = w.mode /\ w'.plan = w.plan /\ w'.target = w.target
      /\ w'.said = w.said /\ w'.pc = "failed"
  <2>1. Legacy(NoPlan) \in Content
    BY LegacyFields DEF Hist
  <2> QED BY <1>1, <2>1 DEF Rehearsed, Types, WorkerType, NoTransaction
<1>3. w.mode # "none"
  BY WorkerIsOne
<1>4. WorkerInv'
  BY <1>1, <1>2, <1>3 DEF Rehearsed, WorkerInv, SaidIsFinal
<1> QED BY <1>1, <1>2, <1>4, WorkerFrame

LEMMA ConnectRehearsed ==
  ASSUME Rehearsed, UNCHANGED Elsewhere, Connect(Up) PROVE Rehearsed'
<1>1. w.pc = "connect" /\ UNCHANGED <<db, server>> /\ (Goto("lock") \/ Goto("failed"))
  BY DEF Connect, WorkerAt
<1>2. w.said = "none"
  BY <1>1 DEF Rehearsed, WorkerInv
<1> QED BY <1>1, <1>2, GotoRehearsed

LEMMA LockRehearsed ==
  ASSUME Rehearsed, UNCHANGED Elsewhere, Lock(Up) PROVE Rehearsed'
<1>1. w.pc = "lock"
  BY DEF Lock, WorkerAt
<1>2. CASE Reject
  BY <1>1, <1>2, RejectRehearsed
<1>3. CASE /\ Up /\ HistoryAccepted /\ UNCHANGED db /\ Goto("migrated")
           /\ server' = [state |-> "open", target |-> w.target, txn |-> db[w.target]]
  <2>1. /\ WorkerType' /\ server'.state = "open" /\ server'.target = w.target
        /\ server'.txn = db[w.target]
        /\ w'.mode = w.mode /\ w'.plan = w.plan /\ w'.target = w.target
        /\ w'.said = w.said /\ w'.pc = "migrated"
    BY <1>3 DEF Rehearsed, Types, WorkerType, Goto
  <2>2. server'.txn = Partial("migrated", w.plan)
    BY <1>3, <2>1 DEF HistoryAccepted, Legacy, Partial
  <2>3. w.mode # "none" /\ w.said = "none" /\ (w.target = "clone" => w.mode = "rehearse")
    BY <1>1, WorkerIsOne DEF Rehearsed, WorkerInv
  <2>4. WorkerInv'
    BY <1>3, <2>1, <2>2, <2>3 DEF Rehearsed, WorkerInv, SaidIsFinal
  <2>5. w.target = "clone" => boxes \cap ClonePg # {}
    BY <1>3 DEF Up
  <2> QED BY <1>3, <2>1, <2>3, <2>4, <2>5, WorkerFrame
<1> QED BY <1>2, <1>3 DEF Lock

LEMMA ChangedStage ==
  ASSUME NEW stage \in Stages, NEW h \in Hist
  PROVE  /\ Changed(stage, Partial(stage, h)) = Partial(NextStage(stage), h)
         /\ NextStage(stage) \in Stages \cup {"commit"}
<1>1. CASE stage = "migrated"
  BY <1>1 DEF Changed, Partial, NextStage
<1>2. CASE stage = "quarantined"
  BY <1>2 DEF Changed, Partial, NextStage
<1>3. CASE stage = "granted"
  BY <1>3 DEF Changed, Partial, NextStage
<1>4. CASE stage = "prepared"
  BY <1>4 DEF Changed, Partial, NextStage
<1> QED BY <1>1, <1>2, <1>3, <1>4

LEMMA PartialContent ==
  ASSUME NEW stage, NEW h \in Hist
  PROVE  Partial(stage, h) \in Content /\ Partial("commit", h) = Runtime(h)
         /\ Partial(stage, h).hist = h
BY DEF Partial, Content, Runtime

LEMMA StageRehearsed ==
  ASSUME NEW stage \in Stages, Rehearsed, UNCHANGED Elsewhere, Stage(stage)
  PROVE  Rehearsed'
<1>1. w.pc = stage /\ w.plan \in Hist
  BY DEF Stage, WorkerAt, Rehearsed, Types, WorkerType
<1>2. w.mode # "none" /\ w.said = "none"
  BY <1>1, WorkerIsOne DEF Rehearsed, WorkerInv
<1>3. CASE Reject
  BY <1>1, <1>3, RejectRehearsed
<1>4. CASE /\ server.state = "open" /\ UNCHANGED db
           /\ server' = [server EXCEPT !.txn = Changed(stage, @)]
           /\ Goto(NextStage(stage))
  <2>1. server.target = w.target /\ server.txn = Partial(stage, w.plan)
    BY <1>1, <1>4 DEF Rehearsed, WorkerInv
  <2>2. /\ server'.state = "open" /\ server'.target = server.target
        /\ server'.txn = Partial(NextStage(stage), w.plan)
    BY <1>1, <1>4, <2>1, ChangedStage DEF Rehearsed, Types, WorkerType
  <2>3. /\ w'.mode = w.mode /\ w'.plan = w.plan /\ w'.target = w.target
        /\ w'.said = w.said /\ w'.pc = NextStage(stage)
    BY <1>4 DEF Rehearsed, Types, WorkerType, Goto
  <2>4. WorkerType'
    <3>1. NextStage(stage) \in WorkerPcs
      BY <1>1, ChangedStage
    <3>2. Changed(stage, server.txn) \in Content
      BY <1>1, <2>1, ChangedStage, PartialContent
    <3> QED BY <1>4, <3>1, <3>2 DEF Rehearsed, Types, WorkerType, Goto
  <2>5. NextStage(stage) \in Stages \cup {"commit"}
    BY <1>1, ChangedStage
  <2>6. WorkerInv'
    BY <1>2, <1>4, <2>1, <2>2, <2>3, <2>5 DEF Rehearsed, WorkerInv, SaidIsFinal
  <2> QED BY <1>4, <2>2, <2>3, <2>4, <2>6, WorkerFrame
<1>5. CASE server' = NoTransaction /\ Goto("observe") /\ UNCHANGED db
  <2>1. /\ WorkerType' /\ server'.state = "none"
        /\ w'.mode = w.mode /\ w'.plan = w.plan /\ w'.target = w.target
        /\ w'.said = w.said /\ w'.pc = "observe"
    <3>1. Legacy(NoPlan) \in Content
      BY LegacyFields DEF Hist
    <3> QED BY <1>5, <3>1 DEF Rehearsed, Types, WorkerType, Goto, NoTransaction
  <2>2. WorkerInv'
    BY <1>2, <1>5, <2>1 DEF Rehearsed, WorkerInv, SaidIsFinal
  <2> QED BY <1>5, <2>1, <2>2, WorkerFrame
<1> QED BY <1>3, <1>4, <1>5 DEF Stage

LEMMA ObserveRehearsed ==
  ASSUME Rehearsed, UNCHANGED Elsewhere, Observe(Up) PROVE Rehearsed'
<1>1. w.pc = "observe" /\ UNCHANGED <<db, server>>
  BY DEF Observe, WorkerAt
<1>2. w.mode # "none" /\ w.said = "none"
  BY <1>1, WorkerIsOne DEF Rehearsed, WorkerInv
<1>3. CASE Goto("failed")
  BY <1>1, <1>2, <1>3, GotoRehearsed
<1>4. CASE w' = [w EXCEPT !.pc = "lock", !.round = @ + 1]
  <2>w. WorkerType'
    <3>1. w.round + 1 \in Nat
      BY DEF Rehearsed, Types, WorkerType
    <3> QED BY <1>1, <1>4, <3>1 DEF Rehearsed, Types, WorkerType
  <2>1. /\ w'.mode = w.mode /\ w'.plan = w.plan /\ w'.target = w.target
        /\ w'.said = w.said /\ w'.pc = "lock"
    BY <1>1, <1>4 DEF Rehearsed, Types, WorkerType
  <2>2. WorkerInv'
    BY <1>1, <1>2, <2>1 DEF Rehearsed, WorkerInv, SaidIsFinal
  <2> QED BY <1>1, <2>w, <2>1, <2>2, WorkerFrame
<1> QED BY <1>3, <1>4 DEF Observe

LEMMA SendCommitRehearsed ==
  ASSUME Rehearsed, UNCHANGED Elsewhere, SendCommit PROVE Rehearsed'
<1>1. w.pc = "commit" /\ UNCHANGED db /\ w.plan \in Hist
  BY DEF SendCommit, WorkerAt, Rehearsed, Types, WorkerType
<1>2. w.mode # "none" /\ w.said = "none"
  BY <1>1, WorkerIsOne DEF Rehearsed, WorkerInv
<1>3. CASE Goto("classify") /\ UNCHANGED server
  BY <1>1, <1>2, <1>3, GotoRehearsed
<1>4. CASE /\ server.state = "open"
           /\ server' = [server EXCEPT !.state = "committing"]
           /\ Goto("reply")
  <2>1. server.target = w.target /\ server.txn = Runtime(w.plan)
    BY <1>1, <1>4, PartialContent DEF Rehearsed, WorkerInv
  <2>w. WorkerType'
    BY <1>1, <1>4 DEF Rehearsed, Types, WorkerType, Goto
  <2>2. /\ server'.state = "committing" /\ server'.target = w.target
        /\ server'.txn = Runtime(w.plan)
        /\ w'.mode = w.mode /\ w'.plan = w.plan /\ w'.target = w.target
        /\ w'.said = w.said /\ w'.pc = "reply"
    BY <1>4, <2>1 DEF Rehearsed, Types, WorkerType, Goto
  <2>3. server'.txn.hist = w.plan
    BY <1>1, <2>2, LegacyFields
  <2>4. WorkerInv'
    BY <1>1, <1>2, <2>2, <2>3 DEF Rehearsed, WorkerInv, SaidIsFinal
  <2>5. w.target = "primary" => PassedPlan(w.plan)
    BY <1>1, <1>2 DEF Rehearsed, Types, WorkerType, WorkerInv, ApplyInv
  <2> QED BY <1>1, <1>4, <2>w, <2>1, <2>2, <2>3, <2>4, <2>5, WorkerFrame
<1> QED BY <1>3, <1>4 DEF SendCommit

LEMMA ReplyRehearsed ==
  ASSUME Rehearsed, UNCHANGED Elsewhere, Reply PROVE Rehearsed'
<1>1. w.pc = "reply" /\ UNCHANGED <<db, server>>
  BY DEF Reply, WorkerAt
<1>2. w.mode # "none" /\ w.said = "none"
  BY <1>1, WorkerIsOne DEF Rehearsed, WorkerInv
<1>3. CASE Goto("classify")
  BY <1>1, <1>2, <1>3, GotoRehearsed
<1>4. CASE /\ server.state = "none" /\ db[w.target] = Runtime(w.plan)
           /\ w' = [w EXCEPT !.pc = "receipt", !.said = "COMMITTED_ACKNOWLEDGED"]
  <2>1. /\ WorkerType'
        /\ w'.mode = w.mode /\ w'.plan = w.plan /\ w'.target = w.target
        /\ w'.said = "COMMITTED_ACKNOWLEDGED" /\ w'.pc = "receipt"
    BY <1>1, <1>4 DEF Rehearsed, Types, WorkerType
  <2>2. WorkerInv'
    BY <1>1, <1>2, <1>4, <2>1 DEF Rehearsed, WorkerInv, SaidIsFinal
  <2> QED BY <1>1, <2>1, <2>2, WorkerFrame
<1> QED BY <1>3, <1>4 DEF Reply

LEMMA ClassifyRehearsed ==
  ASSUME Rehearsed, UNCHANGED Elsewhere, Classify(Up) PROVE Rehearsed'
<1>1. w.pc = "classify" /\ UNCHANGED <<db, server>> /\ w.plan \in Hist
  BY DEF Classify, WorkerAt, Rehearsed, Types, WorkerType
<1>2. w.mode # "none" /\ w.said = "none"
  BY <1>1, WorkerIsOne DEF Rehearsed, WorkerInv
<1>3. CASE Goto("failed")
  BY <1>1, <1>2, <1>3, GotoRehearsed
<1>4. CASE /\ TablesReadable
           /\ w' = [w EXCEPT !.said = Outcome,
                             !.pc = IF Outcome = "COMMITTED_EXACT_READONLY"
                                    THEN "receipt" ELSE "failed"]
  <2>1. /\ Outcome \in Sayings \ {"none", "COMMITTED_ACKNOWLEDGED"}
        /\ Outcome = "COMMITTED_EXACT_READONLY" => db[w.target] = Runtime(w.plan)
        /\ Outcome = "ROLLED_BACK_EXACT" => db[w.target].profile = "legacy"
    BY <1>1, LegacyFields DEF Outcome
  <2>2. /\ WorkerType'
        /\ w'.mode = w.mode /\ w'.plan = w.plan /\ w'.target = w.target
        /\ w'.said = Outcome /\ w'.pc \in {"receipt", "failed"}
        /\ w'.pc = "receipt" => Outcome = "COMMITTED_EXACT_READONLY"
    BY <1>1, <1>4, <2>1 DEF Rehearsed, Types, WorkerType
  <2>3. server.state = "none"
    BY <1>4 DEF TablesReadable
  <2>4. WorkerInv'
    BY <1>1, <1>2, <2>1, <2>2, <2>3 DEF Rehearsed, WorkerInv, SaidIsFinal
  <2> QED BY <1>1, <2>2, <2>4, WorkerFrame
<1> QED BY <1>3, <1>4 DEF Classify

LEMMA WriteReceiptRehearsed ==
  ASSUME Rehearsed, UNCHANGED Elsewhere, WriteReceipt(Up) PROVE Rehearsed'
<1>1. w.pc = "receipt" /\ UNCHANGED <<db, server>> /\ w.said \in Committed
  BY DEF WriteReceipt, WorkerAt, Rehearsed, WorkerInv
<1>2. w.mode # "none"
  BY <1>1, WorkerIsOne
<1>3. CASE Goto("failed")
  BY <1>1, <1>2, <1>3, GotoRehearsed
<1>4. CASE \E pc \in {"ok", "failed"} : w' = [w EXCEPT !.receipt = w.said, !.pc = pc]
  <2>1. /\ WorkerType'
        /\ w'.mode = w.mode /\ w'.plan = w.plan /\ w'.target = w.target
        /\ w'.said = w.said /\ w'.pc \in {"ok", "failed"}
    BY <1>1, <1>4 DEF Rehearsed, Types, WorkerType
  <2>2. WorkerInv'
    BY <1>1, <1>2, <2>1 DEF Rehearsed, WorkerInv, SaidIsFinal
  <2> QED BY <1>1, <2>1, <2>2, WorkerFrame
<1> QED BY <1>3, <1>4 DEF WriteReceipt

LEMMA ServerCommitsRehearsed ==
  ASSUME Rehearsed, UNCHANGED Elsewhere, ServerCommits PROVE Rehearsed'
<1> DEFINE t == server.target
<1>1. /\ server.state = "committing" /\ UNCHANGED w
      /\ db' = [db EXCEPT ![t] = server.txn] /\ server' = NoTransaction
  BY DEF ServerCommits
<1>2. /\ t \in Targets /\ server.txn \in Content /\ server.txn.hist \in Hist
      /\ server.txn = Runtime(server.txn.hist)
  BY <1>1 DEF Rehearsed, Types, WorkerType, WorkerInv, Content
<1>3. /\ db'[t] = server.txn /\ server'.state = "none"
      /\ \A u \in Targets \ {t} : db'[u] = db[u]
  BY <1>1, <1>2 DEF Rehearsed, Types, WorkerType, NoTransaction
<1>4. WorkerType'
  <2>1. Legacy(NoPlan) \in Content
    BY LegacyFields DEF Hist
  <2> QED BY <1>1, <1>2, <2>1 DEF Rehearsed, Types, WorkerType, NoTransaction
<1>5. server.txn.profile = "runtime"
  BY <1>2, LegacyFields
<1>6. WorkerInv'
  <2>1. w.said = "none"
    BY <1>1 DEF Rehearsed, WorkerInv
  <2>2. \A u \in Targets : Whole(db'[u])
    BY <1>3, <1>5 DEF Rehearsed, WorkerInv, Whole
  <2> QED BY <1>1, <1>3, <2>1, <2>2 DEF Rehearsed, WorkerInv, SaidIsFinal
<1>7. ApplyInv'
  BY <1>1, <1>2, <1>3 DEF Elsewhere, Rehearsed, ApplyInv, PassedPlan
<1>8. RehearsalInv'
  <2>1. t = "clone" => cl.pc = "collect" \/ ~cl.ok
    BY <1>1 DEF Rehearsed, RehearsalInv
  <2> QED BY <1>1, <1>2, <1>3, <2>1 DEF Elsewhere, Rehearsed, RehearsalInv
<1>9. BoxInv' /\ RunInv' /\ PathInv'
  BY <1>3 DEF Elsewhere, Rehearsed, BoxInv, RunInv, PathInv, Proved
<1> QED BY <1>4, <1>6, <1>7, <1>8, <1>9
        DEF Elsewhere, Rehearsed, Types, ControlType, RunType

\* A transaction that ends without a commit.
LEMMA RollbackRehearsed ==
  ASSUME Rehearsed, UNCHANGED Elsewhere, UNCHANGED <<db, w>>,
         server' = NoTransaction
  PROVE  Rehearsed'
<1>1. WorkerType' /\ server'.state = "none"
  <2>1. Legacy(NoPlan) \in Content
    BY LegacyFields DEF Hist
  <2> QED BY <2>1 DEF Rehearsed, Types, WorkerType, NoTransaction
<1>2. WorkerInv'
  BY <1>1 DEF Rehearsed, WorkerInv, SaidIsFinal
<1> QED BY <1>1, <1>2, WorkerFrame

LEMMA WorkersRehearsed == ASSUME Rehearsed, Workers PROVE Rehearsed'
<1>1. UNCHANGED Elsewhere
  BY DEF Workers, Environment, Elsewhere
<1>2. CASE WorkerStep(Up)
  <2>1. \A i \in 1..Len(Checkpoints) : Checkpoints[i] \in Stages
    <3>1. \A i \in {1, 2, 3, 4} : Checkpoints[i] \in Stages
      BY DEF Checkpoints
    <3> QED BY <3>1 DEF Checkpoints
  <2> QED BY <1>1, <1>2, <2>1, ConnectRehearsed, LockRehearsed, StageRehearsed,
             ObserveRehearsed, SendCommitRehearsed, ReplyRehearsed,
             ClassifyRehearsed, WriteReceiptRehearsed DEF WorkerStep
<1>3. CASE ServerAborts
  BY <1>1, <1>3, RollbackRehearsed DEF ServerAborts
<1> QED BY <1>1, <1>2, <1>3, ServerCommitsRehearsed DEF Workers

-----------------------------------------------------------------------------
(* The primary's other users, and the apply worker.                        *)

LEMMA PrimaryToggledRehearsed ==
  ASSUME Rehearsed, PrimaryToggled PROVE Rehearsed'
<1>1. /\ UNCHANGED <<db, w, writes, lease, cl, boxes, cloneSup, child, verdict, accepted>>
      /\ primary' \in {"exited", "running"}
      /\ server' = NoTransaction \/ server' = server
  BY DEF PrimaryToggled, Environment
<1>2. WorkerType' /\ (server' = server \/ server'.state = "none")
  <2>1. Legacy(NoPlan) \in Content
    BY LegacyFields DEF Hist
  <2> QED BY <1>1, <2>1 DEF Rehearsed, Types, WorkerType, NoTransaction
<1>3. WorkerInv'
  BY <1>1, <1>2 DEF Rehearsed, WorkerInv, SaidIsFinal
<1>4. ApplyInv' /\ BoxInv' /\ RehearsalInv'
  BY <1>1, <1>2 DEF Rehearsed, ApplyInv, PassedPlan, BoxInv, RehearsalInv
<1>5. RunInv' /\ PathInv' /\ ControlType' /\ RunType'
  BY <1>1 DEF Rehearsed, RunInv, PathInv, Proved, Types, ControlType, RunType
<1> QED BY <1>2, <1>3, <1>4, <1>5 DEF Rehearsed, Types

LEMMA PrimaryWrittenRehearsed ==
  ASSUME Rehearsed, PrimaryWritten PROVE Rehearsed'
<1> DEFINE d == db["primary"]
<1>1. /\ UNCHANGED <<w, server, primary, lease, cl, boxes, cloneSup, child, verdict,
                     accepted>>
      /\ d.profile = "legacy" /\ writes' = writes + 1
      /\ db' = [db EXCEPT !["primary"].hist = writes + 1]
  BY DEF PrimaryWritten, Environment
<1>2. writes + 1 \in Nat /\ writes + 1 \in Hist
  BY DEF Rehearsed, Types, RunType, Hist
<1>3. d = Legacy(d.hist)
  BY <1>1 DEF Rehearsed, WorkerInv, Whole
<1>4. db'["primary"] = Legacy(writes + 1) /\ db'["clone"] = db["clone"]
  <2>1. db'["primary"] = [d EXCEPT !.hist = writes + 1] /\ db'["clone"] = db["clone"]
    BY <1>1 DEF Rehearsed, Types, WorkerType
  <2> HIDE DEF d
  <2>2. [d EXCEPT !.hist = writes + 1] = [Legacy(d.hist) EXCEPT !.hist = writes + 1]
    BY <1>3
  <2> QED BY <2>1, <2>2, LegacyUpdate
<1>5. WorkerType'
  BY <1>1, <1>2 DEF Rehearsed, Types, WorkerType, Content
<1>6. db'["primary"].profile = "legacy" /\ Whole(db'["primary"])
  BY <1>2, <1>4, LegacyFields DEF Whole
<1>7. WorkerInv'
  <2>1. \A t \in Targets : Whole(db'[t])
    BY <1>4, <1>6 DEF Rehearsed, WorkerInv
  <2>2. SaidIsFinal'
    <3>1. w.plan \in Hist /\ w.target \in Targets
      BY DEF Rehearsed, Types, WorkerType
    <3>2. w.target = "primary" => w.said \notin Committed
      BY <1>1, <3>1, LegacyFields DEF Rehearsed, WorkerInv, SaidIsFinal
    <3> QED BY <1>1, <1>4, <1>6, <3>1, <3>2 DEF Rehearsed, WorkerInv, SaidIsFinal
  <2> QED BY <1>1, <2>1, <2>2 DEF Rehearsed, WorkerInv
<1>8. ApplyInv' /\ BoxInv' /\ RehearsalInv'
  BY <1>1, <1>4, <1>6 DEF Rehearsed, ApplyInv, PassedPlan, BoxInv, RehearsalInv
<1>9. RunInv' /\ PathInv' /\ ControlType' /\ RunType'
  BY <1>1, <1>2 DEF Rehearsed, RunInv, PathInv, Proved, Types, ControlType, RunType
<1> QED BY <1>5, <1>7, <1>8, <1>9 DEF Rehearsed, Types

LEMMA ApplyPrimaryRehearsed ==
  ASSUME NEW c \in CloneRuns, Rehearsed, ApplyPrimary(c) PROVE Rehearsed'
<1>1. /\ UNCHANGED Elsewhere /\ UNCHANGED <<db, server>> /\ verdict[c] = "PASS"
      /\ w.mode = "none" /\ server.state = "none"
      /\ w' = [NoWorker EXCEPT !.mode = "apply", !.pc = "connect",
                               !.target = "primary", !.plan = accepted[c], !.round = 0]
  BY DEF ApplyPrimary, StartWorker, Environment, Elsewhere
<1>2. accepted[c] \in Hist
  BY DEF Rehearsed, Types, RunType
<1>3. /\ WorkerType' /\ w'.mode = "apply" /\ w'.target = "primary"
      /\ w'.pc = "connect" /\ w'.said = "none" /\ w'.plan = accepted[c]
  BY <1>1, <1>2 DEF NoWorker, Rehearsed, Types, WorkerType
<1>4. WorkerInv'
  BY <1>1, <1>3 DEF Rehearsed, WorkerInv, SaidIsFinal
<1>5. PassedPlan(accepted[c])
  BY <1>1 DEF PassedPlan
<1>6. ApplyInv' /\ BoxInv' /\ RehearsalInv'
  BY <1>1, <1>3, <1>5
     DEF Elsewhere, Rehearsed, ApplyInv, PassedPlan, BoxInv, RehearsalInv
<1>7. RunInv' /\ PathInv' /\ ControlType' /\ RunType'
  BY <1>1 DEF Elsewhere, Rehearsed, RunInv, PathInv, Proved, Types, ControlType,
              RunType
<1> QED BY <1>3, <1>4, <1>6, <1>7 DEF Rehearsed, Types

\* The worker's process ends; its transaction stays with the server.
LEMMA GoneWorker ==
  ASSUME Rehearsed, w' = NoWorker, UNCHANGED <<db, server>>
  PROVE  WorkerType' /\ WorkerInv' /\ w'.mode = "none" /\ w'.said = "none"
<1>1. /\ WorkerType' /\ w'.mode = "none" /\ w'.said = "none" /\ w'.pc = "none"
  BY DEF NoWorker, Rehearsed, Types, WorkerType, Hist
<1>2. WorkerInv'
  BY <1>1 DEF Rehearsed, WorkerInv, SaidIsFinal
<1> QED BY <1>1, <1>2

LEMMA ApplyWorkerRemovedRehearsed ==
  ASSUME Rehearsed, ApplyWorkerRemoved PROVE Rehearsed'
<1>1. /\ UNCHANGED Elsewhere /\ UNCHANGED <<db, server>>
      /\ w.mode = "apply" /\ w' = NoWorker
  BY DEF ApplyWorkerRemoved, WorkerGone, Environment, Elsewhere
<1>2. ApplyInv' /\ BoxInv' /\ RehearsalInv'
  BY <1>1, GoneWorker
     DEF Elsewhere, Rehearsed, ApplyInv, PassedPlan, BoxInv, RehearsalInv
<1>3. RunInv' /\ PathInv' /\ ControlType' /\ RunType'
  BY <1>1 DEF Elsewhere, Rehearsed, RunInv, PathInv, Proved, Types, ControlType,
              RunType
<1> QED BY <1>1, <1>2, <1>3, GoneWorker DEF Rehearsed, Types

-----------------------------------------------------------------------------
(* The lease holder's commands.                                            *)

LEMMA PhaseNumber ==
  ASSUME NEW i \in 1..8
  PROVE  /\ Phases[i] = "cold" => i = 1
         /\ Phases[i] = "source" => i = 2
         /\ Phases[i] = "first" => i = 3
         /\ Phases[i] = "second" => i = 4
         /\ Phases[i] = "verify" => i = 5
         /\ Phases[i] = "current" => i = 6
         /\ Phases[i] = "current_second" => i = 7
         /\ Phases[i] = "current_verify" => i = 8
<1>1. i \in {1, 2, 3, 4, 5, 6, 7, 8}
  OBVIOUS
<1> QED BY <1>1, PhaseSteps

\* The parts of the system no command of the controller changes.
LEMMA OutsideFrame ==
  ASSUME Rehearsed, UNCHANGED Outside,
         w'.mode = "apply" => w.mode = "apply" /\ w'.plan = w.plan,
         db'["primary"] = db["primary"],
         server' = server \/ server'.state = "none",
         WorkerType', WorkerInv', ControlType', BoxInv', RehearsalInv', PathInv'
  PROVE  Rehearsed'
<1>1. RunType' /\ RunInv'
  BY DEF Outside, Rehearsed, Types, RunType, RunInv
<1>2. ApplyInv'
  BY DEF Outside, Rehearsed, ApplyInv, PassedPlan
<1> QED BY <1>1, <1>2 DEF Rehearsed, Types

LEMMA ControlFrame ==
  ASSUME Rehearsed, UNCHANGED <<workerVars, Outside>>,
         ControlType', BoxInv', RehearsalInv', PathInv'
  PROVE  Rehearsed'
<1>1. WorkerType' /\ WorkerInv'
  BY DEF workerVars, Rehearsed, Types, WorkerType, WorkerInv, SaidIsFinal
<1> QED BY <1>1, OutsideFrame DEF workerVars

\* A command that fails: run() is left for finish(False).
LEMMA FailFrame ==
  ASSUME Rehearsed, Alive, UNCHANGED <<workerVars, Outside>>, ControlType',
         cl'.ok = FALSE, cl'.pc = "f.workers",
         boxes' \subseteq cl'.owned \cup cl'.workers, boxes \subseteq boxes'
  PROVE  Rehearsed'
<1>1. lease' # NoRun
  BY DEF Alive, Outside
<1>2. BoxInv' /\ RehearsalInv' /\ PathInv'
  BY <1>1 DEF workerVars, Outside, Rehearsed, BoxInv, RehearsalInv, PathInv
<1> QED BY <1>2, ControlFrame

LEMMA FailRehearsed ==
  ASSUME Rehearsed, Alive, UNCHANGED <<workerVars, Outside, boxes>>,
         cl' = Failing(cl)
  PROVE  Rehearsed'
<1>1. /\ ControlType' /\ cl'.ok = FALSE /\ cl'.pc = "f.workers"
      /\ cl'.owned = cl.owned /\ cl'.workers = cl.workers
  BY DEF Failing, Rehearsed, Types, ControlType
<1>2. boxes' \subseteq cl'.owned \cup cl'.workers /\ boxes \subseteq boxes'
  BY <1>1 DEF Rehearsed, BoxInv
<1> QED BY <1>1, <1>2, FailFrame

\* A command of run() that only fills in what the controller remembers.
LEMMA MemoryFrame ==
  ASSUME Rehearsed, Alive, UNCHANGED <<workerVars, Outside, boxes>>,
         cl.pc \in {"use", "tar", "dump"}, cl' \in Controllers,
         cl'.pc \in {"drop", "tar"}, cl'.phase = cl.phase, cl'.ok = cl.ok,
         cl'.owned = cl.owned, cl'.workers = cl.workers, PathInv'
  PROVE  Rehearsed'
<1>1. ControlType'
  BY DEF Rehearsed, Types, ControlType
<1>2. BoxInv'
  BY DEF workerVars, Outside, Rehearsed, BoxInv
<1>3. RehearsalInv'
  BY DEF workerVars, Outside, Rehearsed, RehearsalInv
<1> QED BY <1>1, <1>2, <1>3, ControlFrame

\* What a run without a failure knows before the work of a phase.
LEMMA BeforeWork ==
  ASSUME Rehearsed, cl.pc \in {"use", "tar", "collect", "fixture", "dump"}
  PROVE  /\ cl.ok /\ cl.phase \in 1..8 /\ cl \in Controllers /\ db["primary"] \in Content
         /\ cl.pc = "tar" => cl.phase = 1
         /\ cl.phase >= 3 => cl.baseline = cl.cold.hist
         /\ cl.phase >= 4 => cl.dump = cl.baseline
         /\ cl.phase >= 5 => cl.after = cl.baseline
         /\ \/ cl.current = Legacy(NoPlan)
            \/ cl.phase >= 6 /\ cl.current = Runtime(cl.baseline)
         /\ cl.phase >= 8 => cl.current = Runtime(cl.baseline)
<1>1. cl.ok /\ cl.phase \in 1..8 /\ cl \in Controllers /\ db["primary"] \in Content
  BY DEF Rehearsed, RehearsalInv, Types, ControlType, WorkerType
<1>2. Proved = cl.phase - 1
  BY DEF Proved
<1> QED BY <1>1, <1>2 DEF Rehearsed, PathInv

LEMMA ColdFingerprintRehearsed ==
  ASSUME Rehearsed, ColdFingerprint PROVE Rehearsed'
<1>1. At("use") /\ Phase = "cold" /\ UNCHANGED <<workerVars, boxes, Outside>>
  BY DEF ColdFingerprint, Work
<1>2. Alive /\ cl.pc = "use" /\ cl.phase = 1
  BY <1>1, BeforeWork, PhaseNumber DEF At, Phase
<1>3. CASE cl' = Failing(cl)
  BY <1>1, <1>2, <1>3, FailRehearsed
<1>4. CASE cl' = [cl EXCEPT !.cold = db["primary"], !.pc = "tar"]
  <2>1. /\ cl' \in Controllers /\ cl'.pc = "tar" /\ cl'.phase = 1 /\ cl'.ok = cl.ok
        /\ cl'.owned = cl.owned /\ cl'.workers = cl.workers /\ cl'.current = cl.current
    BY <1>2, <1>4, BeforeWork
  <2>2. PathInv'
    BY <1>2, <2>1, BeforeWork DEF PathInv, Proved
  <2> QED BY <1>1, <1>2, <2>1, <2>2, MemoryFrame
<1> QED BY <1>3, <1>4 DEF ColdFingerprint, Work

LEMMA ColdCopyRehearsed == ASSUME Rehearsed, ColdCopy PROVE Rehearsed'
<1>1. At("tar") /\ UNCHANGED <<workerVars, boxes, Outside>>
  BY DEF ColdCopy
<1>2. Alive /\ cl.pc = "tar" /\ cl.phase = 1
  BY <1>1, BeforeWork DEF At
<1>3. CASE cl' = Failing(cl)
  BY <1>1, <1>2, <1>3, FailRehearsed
<1>4. CASE cl' = [cl EXCEPT !.copy = db["primary"], !.pc = "drop"]
  <2>1. /\ cl' \in Controllers /\ cl'.pc = "drop" /\ cl'.phase = 1 /\ cl'.ok = cl.ok
        /\ cl'.owned = cl.owned /\ cl'.workers = cl.workers /\ cl'.current = cl.current
    BY <1>2, <1>4, BeforeWork
  <2>2. PathInv'
    BY <1>2, <2>1, BeforeWork DEF PathInv, Proved
  <2> QED BY <1>1, <1>2, <2>1, <2>2, MemoryFrame
<1> QED BY <1>3, <1>4 DEF ColdCopy

LEMMA SourceCopyRehearsed == ASSUME Rehearsed, SourceCopy PROVE Rehearsed'
<1>1. At("use") /\ Phase = "source" /\ UNCHANGED <<workerVars, boxes, Outside>>
  BY DEF SourceCopy, Work
<1>2. Alive /\ cl.pc = "use" /\ cl.phase = 2
  BY <1>1, BeforeWork, PhaseNumber DEF At, Phase
<1>3. CASE cl' = Failing(cl)
  BY <1>1, <1>2, <1>3, FailRehearsed
<1>4. CASE /\ CopyIsFaithful
           /\ \E h \in Dumps(cl.copy.hist) :
                cl' = [cl EXCEPT !.baseline = cl.copy.hist, !.dump = h, !.pc = "drop"]
  <2>1. PICK h \in Dumps(cl.copy.hist) :
               cl' = [cl EXCEPT !.baseline = cl.copy.hist, !.dump = h, !.pc = "drop"]
    BY <1>4
  <2>2. cl.copy.hist \in Hist
    BY <1>2, BeforeWork DEF Content
  <2>3. h \in Hist
    BY <2>2 DEF Dumps, Hist
  <2>4. /\ cl' \in Controllers /\ cl'.pc = "drop" /\ cl'.phase = 2 /\ cl'.ok = cl.ok
        /\ cl'.owned = cl.owned /\ cl'.workers = cl.workers /\ cl'.current = cl.current
        /\ cl'.baseline = cl.copy.hist /\ cl'.cold = cl.cold
    BY <1>2, <2>1, <2>2, <2>3, BeforeWork
  <2>5. PathInv'
    BY <1>2, <1>4, <2>4, BeforeWork DEF PathInv, Proved, CopyIsFaithful
  <2> QED BY <1>1, <1>2, <2>4, <2>5, MemoryFrame
<1> QED BY <1>3, <1>4 DEF SourceCopy, Work

LEMMA FirstRestoreRehearsed == ASSUME Rehearsed, FirstRestore PROVE Rehearsed'
<1>1. At("use") /\ Phase = "first" /\ UNCHANGED <<workerVars, boxes, Outside>>
  BY DEF FirstRestore, Work
<1>2. Alive /\ cl.pc = "use" /\ cl.phase = 3
  BY <1>1, BeforeWork, PhaseNumber DEF At, Phase
<1>3. CASE cl' = Failing(cl)
  BY <1>1, <1>2, <1>3, FailRehearsed
<1>4. CASE /\ cl.dump = cl.baseline
           /\ \E h \in Dumps(cl.dump) : cl' = [cl EXCEPT !.after = h, !.pc = "drop"]
  <2>1. PICK h \in Dumps(cl.dump) : cl' = [cl EXCEPT !.after = h, !.pc = "drop"]
    BY <1>4
  <2>2. h \in Hist
    BY <1>2, BeforeWork DEF Dumps, Hist
  <2>3. /\ cl' \in Controllers /\ cl'.pc = "drop" /\ cl'.phase = 3 /\ cl'.ok = cl.ok
        /\ cl'.owned = cl.owned /\ cl'.workers = cl.workers /\ cl'.current = cl.current
        /\ cl'.baseline = cl.baseline /\ cl'.cold = cl.cold /\ cl'.dump = cl.dump
    BY <1>2, <2>1, <2>2, BeforeWork
  <2>4. PathInv'
    BY <1>2, <1>4, <2>3, BeforeWork DEF PathInv, Proved
  <2> QED BY <1>1, <1>2, <2>3, <2>4, MemoryFrame
<1> QED BY <1>3, <1>4 DEF FirstRestore, Work

\* The work of a phase that only compares.
LEMMA ComparisonRehearsed ==
  ASSUME Rehearsed, At("use"), UNCHANGED <<workerVars, boxes, Outside>>,
         cl' = [cl EXCEPT !.pc = "drop"],
         cl.phase \in {4, 5, 7, 8},
         cl.phase = 4 => cl.after = cl.baseline,
         cl.phase = 7 => cl.current = Runtime(cl.baseline)
  PROVE  Rehearsed'
<1>1. Alive /\ cl.pc = "use"
  BY DEF At
<1>2. /\ cl' \in Controllers /\ cl'.pc = "drop" /\ cl'.phase = cl.phase /\ cl'.ok = cl.ok
      /\ cl'.owned = cl.owned /\ cl'.workers = cl.workers /\ cl'.current = cl.current
      /\ cl'.baseline = cl.baseline /\ cl'.cold = cl.cold /\ cl'.dump = cl.dump
      /\ cl'.after = cl.after
  BY <1>1, BeforeWork
<1>3. PathInv'
  BY <1>1, <1>2, BeforeWork DEF PathInv, Proved
<1> QED BY <1>1, <1>2, <1>3, MemoryFrame

LEMMA SecondRestoreRehearsed == ASSUME Rehearsed, SecondRestore PROVE Rehearsed'
<1>1. At("use") /\ Phase = "second" /\ UNCHANGED <<workerVars, boxes, Outside>>
  BY DEF SecondRestore, Work
<1>2. Alive /\ cl.phase = 4
  BY <1>1, BeforeWork, PhaseNumber DEF At, Phase
<1> QED BY <1>1, <1>2, FailRehearsed, ComparisonRehearsed DEF SecondRestore, Work

LEMMA VerifyPrimaryRehearsed == ASSUME Rehearsed, VerifyPrimary PROVE Rehearsed'
<1>1. /\ At("use") /\ Phase \in {"verify", "current_verify"}
      /\ UNCHANGED <<workerVars, boxes, Outside>>
  BY DEF VerifyPrimary, Work
<1>2. Alive /\ cl.phase \in {5, 8}
  BY <1>1, BeforeWork, PhaseNumber DEF At, Phase
<1> QED BY <1>1, <1>2, FailRehearsed, ComparisonRehearsed DEF VerifyPrimary, Work

\* The restored database has the runtime profile, so the backup had it.
LEMMA VerifyRestoredRehearsed == ASSUME Rehearsed, VerifyRestored PROVE Rehearsed'
<1>1. /\ At("use") /\ Phase = "current_second"
      /\ UNCHANGED <<workerVars, boxes, Outside>>
  BY DEF VerifyRestored, Work
<1>2. Alive /\ cl.pc = "use" /\ cl.phase = 7
  BY <1>1, BeforeWork, PhaseNumber DEF At, Phase
<1>3. CASE cl' = Failing(cl)
  BY <1>1, <1>2, <1>3, FailRehearsed
<1>4. CASE RestoredIsCurrent /\ cl' = [cl EXCEPT !.pc = "drop"]
  <2>1. /\ db["clone"] = [cl.current EXCEPT !.roles = FALSE] /\ cl.current \in Content
        /\ db["clone"] \in Content /\ cl.baseline \in Hist
    BY <1>2 DEF Rehearsed, RehearsalInv, Types, ControlType, WorkerType
  <2>2. db["clone"].profile = cl.current.profile
    BY <2>1 DEF Content
  <2>3. db["clone"].profile = "runtime"
    <3>1. [db["clone"] EXCEPT !.roles = TRUE].profile = db["clone"].profile
      BY <2>1 DEF Content
    <3> QED BY <1>4, <2>1, <3>1, LegacyFields DEF RestoredIsCurrent
  <2>4. cl.current # Legacy(NoPlan)
    BY <2>2, <2>3, LegacyFields DEF Hist
  <2> QED BY <1>1, <1>2, <1>4, <2>4, BeforeWork, ComparisonRehearsed
<1> QED BY <1>3, <1>4 DEF VerifyRestored, Work

LEMMA BackupAfterRehearsed == ASSUME Rehearsed, BackupAfter PROVE Rehearsed'
<1>1. At("dump") /\ UNCHANGED <<workerVars, boxes, Outside>>
  BY DEF BackupAfter
<1>2. /\ Alive /\ cl.pc = "dump" /\ cl.phase = 6 /\ db["clone"] \in Content
      /\ db["clone"] = Runtime(cl.baseline)
  BY <1>1 DEF At, Rehearsed, RehearsalInv, Types, WorkerType
<1>3. CASE cl' = Failing(cl)
  BY <1>1, <1>2, <1>3, FailRehearsed
<1>4. CASE cl' = [cl EXCEPT !.current = db["clone"], !.pc = "drop"] \/
           cl' = [cl EXCEPT !.pc = "drop"]
  <2>1. /\ cl' \in Controllers /\ cl'.pc = "drop" /\ cl'.phase = 6 /\ cl'.ok = cl.ok
        /\ cl'.owned = cl.owned /\ cl'.workers = cl.workers
        /\ cl'.baseline = cl.baseline /\ cl'.cold = cl.cold /\ cl'.dump = cl.dump
        /\ cl'.after = cl.after
        /\ cl'.current = cl.current \/ cl'.current = db["clone"]
    BY <1>2, <1>4, BeforeWork
  <2>2. PathInv'
    BY <1>2, <2>1, BeforeWork DEF PathInv, Proved
  <2> QED BY <1>1, <1>2, <2>1, <2>2, MemoryFrame
<1> QED BY <1>3, <1>4 DEF BackupAfter

LEMMA DeliveryFixtureRehearsed ==
  ASSUME Rehearsed, DeliveryFixture PROVE Rehearsed'
<1>1. At("fixture") /\ UNCHANGED <<workerVars, Outside>>
  BY DEF DeliveryFixture
<1>2. /\ Alive /\ cl.pc = "fixture" /\ cl.workers = {}
      /\ boxes \subseteq cl.owned /\ boxes \in SUBSET (PhaseNames \cup Helpers)
  BY <1>1 DEF At, Rehearsed, BoxInv, Types, ControlType
<1>3. CASE /\ cl' = [Failing(cl) EXCEPT !.workers = {"redis"}]
           /\ boxes' \in {boxes, boxes \cup {"redis"}}
  <2>1. /\ cl' \in Controllers /\ cl'.ok = FALSE /\ cl'.pc = "f.workers"
        /\ cl'.owned = cl.owned /\ cl'.workers = {"redis"}
    BY <1>2, <1>3, BeforeWork DEF Failing
  <2>2. ControlType' /\ boxes \subseteq boxes' /\ boxes' \subseteq cl'.owned \cup cl'.workers
    BY <1>2, <1>3, <2>1 DEF ControlType
  <2> QED BY <1>1, <1>2, <2>1, <2>2, FailFrame
<1>4. CASE cl' = [cl EXCEPT !.pc = "dump"] /\ UNCHANGED boxes
  <2>1. /\ cl' \in Controllers /\ cl'.pc = "dump" /\ cl'.phase = cl.phase /\ cl'.ok = cl.ok
        /\ cl'.owned = cl.owned /\ cl'.workers = cl.workers /\ cl'.current = cl.current
        /\ cl'.baseline = cl.baseline /\ cl'.cold = cl.cold /\ cl'.dump = cl.dump
        /\ cl'.after = cl.after
    BY <1>2, <1>4, BeforeWork
  <2>2. PathInv'
    BY <1>2, <2>1, BeforeWork DEF PathInv, Proved
  <2>3. ControlType' /\ BoxInv'
    BY <1>1, <1>2, <1>4, <2>1 DEF workerVars, Outside, Rehearsed, Types, ControlType, BoxInv
  <2>4. RehearsalInv'
    BY <1>1, <1>2, <2>1 DEF workerVars, Outside, Rehearsed, RehearsalInv
  <2> QED BY <1>1, <2>2, <2>3, <2>4, ControlFrame
<1> QED BY <1>3, <1>4 DEF DeliveryFixture

LEMMA AdmitRehearsed == ASSUME Rehearsed, Admit PROVE Rehearsed'
<1>1. At("admit") /\ UNCHANGED <<workerVars, boxes, Outside>>
  BY DEF Admit
<1>2. Alive /\ cl.pc = "admit" /\ cl \in Controllers
  BY <1>1 DEF At, Rehearsed, Types, ControlType
<1>3. CASE cl' = Failing(cl)
  BY <1>1, <1>2, <1>3, FailRehearsed
<1>4. CASE cl' = [cl EXCEPT !.pc = "make"]
  <2>1. /\ cl' \in Controllers /\ cl'.pc = "make" /\ cl'.phase = cl.phase /\ cl'.ok = cl.ok
        /\ cl'.owned = cl.owned /\ cl'.workers = cl.workers /\ cl'.current = cl.current
        /\ cl'.baseline = cl.baseline /\ cl'.cold = cl.cold /\ cl'.dump = cl.dump
        /\ cl'.after = cl.after
    BY <1>2, <1>4
  <2>2. PathInv'
    BY <1>2, <2>1 DEF Rehearsed, PathInv, Proved
  <2>3. ControlType' /\ BoxInv'
    BY <1>1, <1>2, <1>4, <2>1 DEF workerVars, Outside, Rehearsed, Types, ControlType, BoxInv
  <2>4. RehearsalInv'
    BY <1>1, <1>2, <2>1 DEF workerVars, Outside, Rehearsed, RehearsalInv
  <2> QED BY <1>1, <2>2, <2>3, <2>4, ControlFrame
<1> QED BY <1>1, <1>3, <1>4 DEF Admit

\* While run() makes its containers, no worker and no transaction is on the
\* clone.
LEMMA CloneIsQuiet ==
  ASSUME Rehearsed, cl.pc \in OnPath \ {"collect"}
  PROVE  /\ w.mode # "rehearse"
         /\ w.target = "clone" => w.said = "none" /\ w.pc = "none"
         /\ server.state # "none" => server.target = "primary"
<1>1. /\ w.mode # "rehearse" /\ w.mode \in {"none", "rehearse", "apply"}
      /\ server.state # "none" => server.target = "primary"
  BY DEF Rehearsed, RehearsalInv, Types, WorkerType
<1>2. w.target = "clone" => w = NoWorker
  BY <1>1 DEF Rehearsed, WorkerInv
<1> QED BY <1>1, <1>2 DEF NoWorker

LEMMA RestoredIsWhole ==
  ASSUME Rehearsed, At("make")
  PROVE  Restored \in Content /\ Whole(Restored)
<1>1. /\ cl.pc = "make" /\ cl.ok /\ cl.dump \in Hist /\ cl.current \in Content
      /\ cl.baseline \in Hist /\ db["clone"] \in Content /\ Whole(db["clone"])
      /\ cl.current = Legacy(NoPlan) \/ cl.current = Runtime(cl.baseline)
  BY DEF At, Rehearsed, RehearsalInv, PathInv, Types, ControlType, WorkerType, WorkerInv
<1>2. CASE Restored = Legacy(cl.dump)
  BY <1>1, <1>2, LegacyFields DEF Whole
<1>3. CASE Restored = [cl.current EXCEPT !.roles = FALSE]
  <2>1. Restored \in Content /\ Restored.profile = cl.current.profile
    BY <1>1, <1>3 DEF Content
  <2>2. CASE cl.current = Runtime(cl.baseline)
    BY <1>1, <2>1, <2>2, LegacyFields DEF Whole
  <2>3. CASE cl.current = Legacy(NoPlan)
    <3>1. Restored = Legacy(NoPlan)
      BY <1>3, <2>3, LegacyUpdate
    <3> QED BY <2>1, <3>1, LegacyFields DEF Whole, Hist
  <2> QED BY <1>1, <2>2, <2>3
<1>4. CASE Restored = db["clone"]
  BY <1>1, <1>4
<1> QED BY <1>2, <1>3, <1>4 DEF Restored

LEMMA MakeRehearsed == ASSUME Rehearsed, Make PROVE Rehearsed'
<1> DEFINE m == [cl EXCEPT !.owned = @ \cup {Phase}]
<1>1. At("make") /\ UNCHANGED <<w, server, Outside>>
  BY DEF Make
<1>2. /\ Alive /\ cl.pc = "make" /\ cl \in Controllers /\ cl.owned = {} /\ cl.workers = {}
      /\ boxes = {} /\ cl.ok
  BY <1>1 DEF At, Rehearsed, Types, ControlType, BoxInv, RehearsalInv
<1>3. Phase \in PhaseNames
  BY <1>2, PhaseIsNamed DEF Phase
<1>4. /\ m \in Controllers /\ m.owned = {Phase} /\ m.workers = {}
      /\ \A x \in {"pc", "phase", "ok", "clean", "cold", "copy", "current", "baseline",
                   "dump", "after"} : m[x] = cl[x]
  BY <1>2, <1>3
<1>m. \/ /\ cl' = [m EXCEPT !.pc = "use"] /\ boxes' = boxes \cup {Phase}
         /\ db' = [db EXCEPT !["clone"] = Restored]
      \/ cl' = Failing(cl) /\ UNCHANGED <<boxes, db>>
      \/ cl' = Failing(m) /\ boxes' \in {boxes, boxes \cup {Phase}} /\ UNCHANGED db
  BY DEF Make
<1> HIDE DEF m
<1>5. CASE cl' = Failing(cl) /\ UNCHANGED <<boxes, db>>
  BY <1>1, <1>2, <1>5, FailRehearsed DEF workerVars
<1>6. CASE cl' = Failing(m) /\ boxes' \in {boxes, boxes \cup {Phase}} /\ UNCHANGED db
  <2>1. /\ cl' \in Controllers /\ cl'.ok = FALSE /\ cl'.pc = "f.workers"
        /\ cl'.owned = {Phase}
    BY <1>4, <1>6 DEF Failing
  <2>2. /\ ControlType' /\ boxes' \subseteq cl'.owned \cup cl'.workers
        /\ boxes \subseteq boxes'
    BY <1>2, <1>3, <1>6, <2>1 DEF ControlType
  <2> QED BY <1>1, <1>2, <1>6, <2>1, <2>2, FailFrame DEF workerVars
<1>7. CASE /\ cl' = [m EXCEPT !.pc = "use"]
           /\ boxes' = boxes \cup {Phase}
           /\ db' = [db EXCEPT !["clone"] = Restored]
  <2>1. /\ cl' \in Controllers /\ cl'.pc = "use" /\ cl'.phase = cl.phase /\ cl'.ok = cl.ok
        /\ cl'.owned = {Phase} /\ cl'.workers = {} /\ cl'.current = cl.current
        /\ cl'.baseline = cl.baseline /\ cl'.cold = cl.cold /\ cl'.dump = cl.dump
        /\ cl'.after = cl.after
    BY <1>4, <1>7
  <2>2. PathInv'
    BY <1>2, <2>1 DEF Rehearsed, PathInv, Proved
  <2>3. ControlType'
    BY <1>2, <1>3, <1>7, <2>1 DEF ControlType
  <2>4. /\ db'["clone"] = Restored /\ db'["primary"] = db["primary"]
        /\ WorkerType'
    BY <1>1, <1>7, RestoredIsWhole DEF Rehearsed, Types, WorkerType
  <2>5. WorkerInv'
    <3>1. \A t \in Targets : Whole(db'[t])
      BY <1>1, <2>4, RestoredIsWhole DEF Rehearsed, WorkerInv
    <3>2. SaidIsFinal'
      <4>1. w.target \in Targets /\ SaidIsFinal
        BY DEF Rehearsed, Types, WorkerType, WorkerInv
      <4>2. CASE w.target = "clone"
        BY <1>1, <1>2, <4>2, CloneIsQuiet DEF SaidIsFinal
      <4>3. CASE w.target = "primary"
        BY <1>1, <2>4, <4>1, <4>3 DEF SaidIsFinal
      <4> QED BY <4>1, <4>2, <4>3
    <3> QED BY <1>1, <3>1, <3>2 DEF Rehearsed, WorkerInv
  <2>6. BoxInv'
    <3>1. lease' # NoRun
      BY <1>1, <1>2 DEF Alive, Outside
    <3> QED BY <1>1, <1>2, <1>7, <2>1, <3>1, CloneIsQuiet DEF BoxInv, Phase
  <2>7. RehearsalInv'
    <3>1. cl.phase = 7 => Restored = [cl.current EXCEPT !.roles = FALSE]
      BY PhaseSteps DEF Restored, Phase
    <3>2. cl'.ok /\ w'.mode # "rehearse"
      BY <1>1, <1>2, <2>1, CloneIsQuiet
    <3>3. server'.state # "none" => server'.target # "clone"
      BY <1>1, <1>2, CloneIsQuiet
    <3> QED BY <2>1, <2>4, <3>1, <3>2, <3>3 DEF RehearsalInv
  <2> QED BY <1>1, <2>2, <2>3, <2>4, <2>5, <2>6, <2>7, OutsideFrame
<1> QED BY <1>m, <1>5, <1>6, <1>7

LEMMA RehearseRehearsed == ASSUME Rehearsed, Rehearse PROVE Rehearsed'
<1> DEFINE m == [cl EXCEPT !.workers = {"worker"}]
<1>1. At("use") /\ Phase = "current" /\ UNCHANGED <<db, server, Outside>>
  BY DEF Rehearse
<1>2. /\ Alive /\ cl.pc = "use" /\ cl.workers = {} /\ boxes \subseteq cl.owned
      /\ boxes \in SUBSET (PhaseNames \cup Helpers)
  BY <1>1 DEF At, Rehearsed, BoxInv, Types, ControlType
<1>3. cl \in Controllers /\ cl.ok /\ cl.phase = 6 /\ cl.baseline \in Hist
  BY <1>1, <1>2, BeforeWork, PhaseNumber DEF Phase
<1>4. /\ m \in Controllers /\ m.workers = {"worker"}
      /\ \A x \in {"pc", "phase", "ok", "clean", "cold", "copy", "current", "baseline",
                   "dump", "after", "owned"} : m[x] = cl[x]
  BY <1>3
<1>m. \/ /\ StartWorker("rehearse", "clone", cl.baseline)
         /\ cl' = [m EXCEPT !.pc = "collect"] /\ boxes' = boxes \cup {"worker"}
      \/ cl' = Failing(cl) /\ UNCHANGED <<w, boxes>>
      \/ cl' = Failing(m) /\ boxes' \in {boxes, boxes \cup {"worker"}} /\ UNCHANGED w
  BY DEF Rehearse
<1> HIDE DEF m
<1>5. CASE cl' = Failing(cl) /\ UNCHANGED <<w, boxes>>
  BY <1>1, <1>2, <1>5, FailRehearsed DEF workerVars
<1>6. CASE cl' = Failing(m) /\ boxes' \in {boxes, boxes \cup {"worker"}} /\ UNCHANGED w
  <2>1. /\ cl' \in Controllers /\ cl'.ok = FALSE /\ cl'.pc = "f.workers"
        /\ cl'.owned = cl.owned /\ cl'.workers = {"worker"}
    BY <1>4, <1>6 DEF Failing
  <2>2. /\ ControlType' /\ boxes' \subseteq cl'.owned \cup cl'.workers
        /\ boxes \subseteq boxes'
    BY <1>2, <1>6, <2>1 DEF ControlType
  <2> QED BY <1>1, <1>2, <1>6, <2>1, <2>2, FailFrame DEF workerVars
<1>7. CASE /\ StartWorker("rehearse", "clone", cl.baseline)
           /\ cl' = [m EXCEPT !.pc = "collect"] /\ boxes' = boxes \cup {"worker"}
  <2>1. /\ cl' \in Controllers /\ cl'.pc = "collect" /\ cl'.phase = 6 /\ cl'.ok = cl.ok
        /\ cl'.owned = cl.owned /\ cl'.workers = {"worker"} /\ cl'.current = cl.current
        /\ cl'.baseline = cl.baseline /\ cl'.cold = cl.cold /\ cl'.dump = cl.dump
        /\ cl'.after = cl.after
    BY <1>3, <1>4, <1>7
  <2>2. PathInv'
    BY <1>2, <1>3, <2>1, BeforeWork DEF PathInv, Proved
  <2>3. ControlType'
    BY <1>2, <1>7, <2>1 DEF ControlType
  <2>4. /\ WorkerType' /\ w'.mode = "rehearse" /\ w'.target = "clone"
        /\ w'.pc = "connect" /\ w'.said = "none" /\ w'.plan = cl.baseline
    <3>1. w' = [NoWorker EXCEPT !.mode = "rehearse", !.pc = "connect",
                                !.target = "clone", !.plan = cl.baseline, !.round = 1]
      BY <1>7 DEF StartWorker
    <3>2. cl.baseline \in Hist /\ UNCHANGED <<db, server>>
      BY <1>1, <1>3
    <3> DEFINE b == cl.baseline
    <3>3. w' = [mode |-> "rehearse", pc |-> "connect", target |-> "clone", plan |-> b,
                round |-> 1, said |-> "none", receipt |-> "none"]
      BY <3>1 DEF NoWorker
    <3> HIDE DEF b
    <3>4. b \in Hist
      BY <3>2 DEF b
    <3>5. WorkerType'
      BY <3>2, <3>3, <3>4 DEF Rehearsed, Types, WorkerType
    <3> QED BY <3>3, <3>5 DEF b
  <2>5. WorkerInv'
    BY <1>1, <2>4 DEF Rehearsed, WorkerInv, SaidIsFinal
  <2>6. lease' # NoRun
    BY <1>1, <1>2 DEF Alive, Outside
  <2>7. BoxInv'
    <3>1. server'.state # "none" => server'.target # "clone"
      BY <1>1, <1>2, CloneIsQuiet
    <3>2. cl'.owned = {Phases[cl'.phase]}
      BY <1>2, <1>3, <2>1 DEF Rehearsed, BoxInv
    <3>3. boxes' \subseteq cl'.owned \cup cl'.workers
      BY <1>2, <1>7, <2>1
    <3> QED BY <2>1, <2>6, <3>1, <3>2, <3>3 DEF BoxInv
  <2>8. RehearsalInv'
    BY <1>1, <1>2, <1>3, <2>1, <2>4, <2>6 DEF RehearsalInv
  <2> QED BY <1>1, <2>2, <2>3, <2>4, <2>5, <2>7, <2>8, OutsideFrame
<1> QED BY <1>m, <1>5, <1>6, <1>7

LEMMA CollectRehearsalRehearsed ==
  ASSUME Rehearsed, CollectRehearsal PROVE Rehearsed'
<1>1. At("collect") /\ UNCHANGED <<db, server, Outside>>
  BY DEF CollectRehearsal
<1>2. /\ Alive /\ cl.pc = "collect" /\ cl.phase = 6 /\ cl \in Controllers /\ cl.ok
      /\ w.mode = "rehearse" /\ w.plan = cl.baseline
  BY <1>1 DEF At, Rehearsed, RehearsalInv, Types, ControlType
<1>3. CASE cl' = Failing(cl) /\ UNCHANGED <<boxes, w>>
  BY <1>1, <1>2, <1>3, FailRehearsed DEF workerVars
<1>4. CASE /\ w.pc = "ok" /\ WorkerGone
           /\ cl' = [cl EXCEPT !.pc = "fixture", !.workers = {}]
           /\ boxes' = boxes \ {"worker"}
  <2>1. /\ cl' \in Controllers /\ cl'.pc = "fixture" /\ cl'.phase = 6 /\ cl'.ok = cl.ok
        /\ cl'.owned = cl.owned /\ cl'.workers = {} /\ cl'.current = cl.current
        /\ cl'.baseline = cl.baseline /\ cl'.cold = cl.cold /\ cl'.dump = cl.dump
        /\ cl'.after = cl.after
    BY <1>2, <1>4
  <2>2. PathInv'
    BY <1>2, <2>1, BeforeWork DEF PathInv, Proved
  <2>3. ControlType'
    BY <1>4, <2>1 DEF Rehearsed, Types, ControlType
  <2>4. db["clone"] = Runtime(cl.baseline) /\ server.state = "none"
    BY <1>2, <1>4 DEF Rehearsed, WorkerInv, SaidIsFinal
  <2>5. WorkerType' /\ WorkerInv' /\ w'.mode = "none"
    BY <1>1, <1>4, GoneWorker DEF WorkerGone
  <2>6. lease' # NoRun
    BY <1>1, <1>2 DEF Alive, Outside
  <2>7. BoxInv'
    <3>1. boxes \subseteq cl.owned \cup cl.workers /\ cl.owned = {Phases[cl.phase]}
      BY <1>2 DEF Rehearsed, BoxInv
    <3>2. boxes' \subseteq cl.owned
      BY <1>2, <1>4, <3>1 DEF Rehearsed, BoxInv
    <3> QED BY <1>1, <1>2, <2>1, <2>4, <2>6, <3>1, <3>2 DEF BoxInv
  <2>8. RehearsalInv'
    BY <1>1, <1>2, <2>1, <2>4, <2>5, <2>6 DEF RehearsalInv
  <2> QED BY <1>1, <2>2, <2>3, <2>5, <2>7, <2>8, OutsideFrame
<1> QED BY <1>3, <1>4 DEF CollectRehearsal

\* What ends with a removed container is at most the open transaction.
LEMMA ServerOrNone ==
  ASSUME Rehearsed, UNCHANGED <<db, w>>, NEW STATE removed, WithoutServer(removed)
  PROVE  /\ WorkerType' /\ WorkerInv'
         /\ server' = server \/ server'.state = "none"
         /\ server'.state # "none" /\ server'.target = "clone" =>
              /\ server.state # "none" /\ server.target = "clone"
              /\ removed \cap ClonePg = {}
<1>1. CASE server' = server /\ (server.target = "clone" => removed \cap ClonePg = {})
  BY <1>1 DEF Rehearsed, Types, WorkerType, WorkerInv, SaidIsFinal
<1>2. CASE server' = NoTransaction
  <2>1. Legacy(NoPlan) \in Content
    BY LegacyFields DEF Hist
  <2>2. WorkerType' /\ server'.state = "none"
    BY <1>2, <2>1 DEF Rehearsed, Types, WorkerType, NoTransaction
  <2>3. WorkerInv'
    BY <2>2 DEF Rehearsed, WorkerInv, SaidIsFinal
  <2> QED BY <2>2, <2>3
<1> QED BY <1>1, <1>2 DEF WithoutServer

LEMMA DropRehearsed == ASSUME Rehearsed, Drop PROVE Rehearsed'
<1>1. At("drop") /\ UNCHANGED <<db, w, Outside>>
  BY DEF Drop
<1>2. /\ Alive /\ cl.pc = "drop" /\ cl \in Controllers /\ cl.ok /\ cl.workers = {}
      /\ cl.owned = {Phase} /\ boxes \subseteq {Phase} /\ boxes \in SUBSET (PhaseNames \cup Helpers)
  BY <1>1 DEF At, Phase, Rehearsed, RehearsalInv, BoxInv, Types, ControlType
<1>3. lease' # NoRun
  BY <1>1, <1>2 DEF Alive, Outside
<1>4. w.mode # "rehearse" /\ (server.state # "none" => server.target = "primary")
  BY <1>2, CloneIsQuiet
<1>5. CASE /\ cl' = Failing(cl)
           /\ \E removed \in {{}, {Phase}} :
                boxes' = boxes \ removed /\ WithoutServer(removed)
  <2>1. PICK removed \in {{}, {Phase}} : boxes' = boxes \ removed /\ WithoutServer(removed)
    BY <1>5
  <2>2. /\ WorkerType' /\ WorkerInv' /\ (server' = server \/ server'.state = "none")
        /\ server'.state # "none" => server'.target # "clone"
    BY <1>1, <1>4, <2>1, ServerOrNone
  <2>3. /\ cl' \in Controllers /\ cl'.ok = FALSE /\ cl'.pc = "f.workers"
        /\ cl'.owned = cl.owned /\ cl'.workers = cl.workers
    BY <1>2, <1>5 DEF Failing
  <2>4. boxes' \subseteq cl'.owned /\ boxes' \in SUBSET (PhaseNames \cup Helpers)
    BY <1>2, <2>1, <2>3
  <2>5. BoxInv' /\ RehearsalInv' /\ PathInv' /\ ControlType'
    BY <1>1, <1>3, <1>4, <2>2, <2>3, <2>4 DEF BoxInv, RehearsalInv, PathInv, ControlType
  <2> QED BY <1>1, <2>2, <2>5, OutsideFrame
<1>6. CASE /\ boxes' = boxes \ {Phase} /\ WithoutServer({Phase})
           /\ cl' = [cl EXCEPT !.owned = {},
                         !.phase = IF @ < Len(Phases) THEN @ + 1 ELSE @,
                         !.pc = IF cl.phase < Len(Phases) THEN "make" ELSE "f.workers"]
  <2>1. /\ WorkerType' /\ WorkerInv' /\ (server' = server \/ server'.state = "none")
        /\ server'.state # "none" => server'.target # "clone"
    BY <1>1, <1>4, <1>6, ServerOrNone
  <2>2. cl.phase \in 1..8 /\ Len(Phases) = 8
    BY <1>2, PhaseSteps
  <2>3. /\ cl'.ok = cl.ok /\ cl'.owned = {} /\ cl'.workers = {}
        /\ cl'.current = cl.current /\ cl'.baseline = cl.baseline
        /\ cl'.cold = cl.cold /\ cl'.dump = cl.dump /\ cl'.after = cl.after
        /\ cl.phase < 8 => cl'.pc = "make" /\ cl'.phase = cl.phase + 1
        /\ cl.phase = 8 => cl'.pc = "f.workers" /\ cl'.phase = 8
        /\ cl' \in Controllers
    <3>1. CASE cl.phase < 8
      <4>1. cl' = [cl EXCEPT !.owned = {}, !.phase = cl.phase + 1, !.pc = "make"]
        BY <1>2, <1>6, <2>2, <3>1
      <4>2. cl.phase + 1 \in 1..8
        BY <2>2, <3>1
      <4>3. cl' \in Controllers
        BY <1>2, <4>1, <4>2
      <4>4. /\ cl'.ok = cl.ok /\ cl'.owned = {} /\ cl'.workers = cl.workers
            /\ cl'.current = cl.current /\ cl'.baseline = cl.baseline
            /\ cl'.cold = cl.cold /\ cl'.dump = cl.dump /\ cl'.after = cl.after
            /\ cl'.pc = "make" /\ cl'.phase = cl.phase + 1
        BY <1>2, <4>1
      <4> QED BY <1>2, <2>2, <3>1, <4>3, <4>4
    <3>2. CASE cl.phase = 8
      <4>1. cl' = [cl EXCEPT !.owned = {}, !.phase = cl.phase, !.pc = "f.workers"]
        BY <1>2, <1>6, <2>2, <3>2
      <4>3. cl' \in Controllers
        BY <1>2, <4>1
      <4>4. /\ cl'.ok = cl.ok /\ cl'.owned = {} /\ cl'.workers = cl.workers
            /\ cl'.current = cl.current /\ cl'.baseline = cl.baseline
            /\ cl'.cold = cl.cold /\ cl'.dump = cl.dump /\ cl'.after = cl.after
            /\ cl'.pc = "f.workers" /\ cl'.phase = cl.phase
        BY <1>2, <4>1
      <4> QED BY <1>2, <3>2, <4>3, <4>4
    <3> QED BY <2>2, <3>1, <3>2
  <2>4. PathInv'
    <3>1. cl.phase < 8 \/ cl.phase = 8
      BY <2>2
    <3>2. Proved = cl.phase /\ Proved' = cl.phase
      BY <1>2, <2>2, <2>3, <3>1 DEF Proved
    <3> QED BY <1>2, <2>2, <2>3, <3>1, <3>2 DEF Rehearsed, PathInv
  <2>5. boxes' = {}
    BY <1>2, <1>6
  <2>6. cl'.pc \in {"make", "f.workers"} /\ cl'.ok
    BY <1>2, <2>2, <2>3
  <2>7. BoxInv' /\ ControlType'
    BY <2>1, <2>3, <2>5, <2>6 DEF BoxInv, ControlType
  <2>8. RehearsalInv'
    BY <1>1, <1>3, <1>4, <2>1, <2>6 DEF RehearsalInv
  <2> QED BY <1>1, <2>1, <2>4, <2>7, <2>8, OutsideFrame
<1> QED BY <1>5, <1>6 DEF Drop

-----------------------------------------------------------------------------
(* finish().                                                               *)

\* A step of finish() before the receipt.
LEMMA FinishFrame ==
  ASSUME Rehearsed, Alive, UNCHANGED Outside, UNCHANGED db,
         cl.pc \in {"f.workers", "f.owned"}, cl' \in Controllers,
         cl'.pc \in {"f.owned", "f.receipt"}, cl'.ok = cl.ok, cl'.phase = cl.phase,
         cl'.current = cl.current, cl'.baseline = cl.baseline, cl'.cold = cl.cold,
         cl'.dump = cl.dump, cl'.after = cl.after,
         boxes' \subseteq boxes, boxes' \subseteq cl'.owned \cup cl'.workers,
         w' = w \/ w' = NoWorker, WorkerType', WorkerInv',
         server' = server \/ server'.state = "none",
         server'.state # "none" /\ server'.target = "clone" =>
           /\ server.state # "none" /\ server.target = "clone"
           /\ boxes' \cap ClonePg # {}
  PROVE  Rehearsed'
<1>1. lease' # NoRun
  BY DEF Alive, Outside
<1>2. PathInv'
  BY DEF Rehearsed, PathInv, Proved
<1>3. ControlType' /\ BoxInv'
  BY <1>1 DEF Rehearsed, Types, ControlType, BoxInv
<1>4. w'.mode # "none" => w' = w
  BY DEF NoWorker
<1>5. RehearsalInv'
  <2>1. ~cl.ok => ~cl'.ok
    OBVIOUS
  <2>2. w'.mode = "rehearse" => ~cl.ok
    BY <1>4 DEF Rehearsed, RehearsalInv
  <2>3. server'.state # "none" /\ server'.target = "clone" => ~cl.ok
    BY DEF Rehearsed, RehearsalInv
  <2> QED BY <1>1, <2>1, <2>2, <2>3 DEF RehearsalInv
<1> QED BY <1>2, <1>3, <1>4, <1>5, OutsideFrame

LEMMA FinishWorkersRehearsed == ASSUME Rehearsed, FinishWorkers PROVE Rehearsed'
<1>1. At("f.workers") /\ UNCHANGED <<db, server, Outside>>
  BY DEF FinishWorkers
<1>2. /\ Alive /\ cl.pc = "f.workers" /\ cl \in Controllers
      /\ boxes \subseteq cl.owned \cup cl.workers
      /\ server.state # "none" /\ server.target = "clone" => boxes \cap ClonePg # {}
  BY <1>1 DEF At, Rehearsed, BoxInv, Types, ControlType
<1>3. WorkerType' /\ WorkerInv' /\ (w' = w \/ w' = NoWorker)
  <2>1. w' = w \/ w' = NoWorker
    BY DEF FinishWorkers
  <2>2. CASE w' = w
    BY <1>1, <2>2 DEF Rehearsed, Types, WorkerType, WorkerInv, SaidIsFinal
  <2> QED BY <1>1, <2>1, <2>2, GoneWorker
<1>4. CASE /\ boxes' = boxes \ cl.workers
           /\ cl' = [cl EXCEPT !.workers = {}, !.pc = "f.owned"]
  <2>1. /\ cl' \in Controllers /\ cl'.pc = "f.owned" /\ cl'.phase = cl.phase
        /\ cl'.ok = cl.ok /\ cl'.owned = cl.owned /\ cl'.workers = {}
        /\ cl'.current = cl.current /\ cl'.baseline = cl.baseline
        /\ cl'.cold = cl.cold /\ cl'.dump = cl.dump /\ cl'.after = cl.after
    BY <1>2, <1>4
  <2>2. boxes' \subseteq boxes /\ boxes' \subseteq cl'.owned \cup cl'.workers
    BY <1>2, <1>4, <2>1
  <2>3. boxes \cap ClonePg # {} => boxes' \cap ClonePg # {}
    BY <1>2, <1>4 DEF ClonePg
  <2> QED BY <1>1, <1>2, <1>3, <2>1, <2>2, <2>3, FinishFrame
<1>5. CASE UNCHANGED boxes /\ cl' = [cl EXCEPT !.clean = FALSE, !.pc = "f.owned"]
  <2>1. /\ cl' \in Controllers /\ cl'.pc = "f.owned" /\ cl'.phase = cl.phase
        /\ cl'.ok = cl.ok /\ cl'.owned = cl.owned /\ cl'.workers = cl.workers
        /\ cl'.current = cl.current /\ cl'.baseline = cl.baseline
        /\ cl'.cold = cl.cold /\ cl'.dump = cl.dump /\ cl'.after = cl.after
    BY <1>2, <1>5
  <2>2. boxes' \subseteq boxes /\ boxes' \subseteq cl'.owned \cup cl'.workers
    BY <1>2, <1>5, <2>1
  <2> QED BY <1>1, <1>2, <1>3, <1>5, <2>1, <2>2, FinishFrame
<1> QED BY <1>4, <1>5 DEF FinishWorkers

LEMMA FinishOwnedRehearsed == ASSUME Rehearsed, FinishOwned PROVE Rehearsed'
<1>1. At("f.owned") /\ UNCHANGED <<db, w, Outside>>
  BY DEF FinishOwned
<1>2. /\ Alive /\ cl.pc = "f.owned" /\ cl \in Controllers
      /\ boxes \subseteq cl.owned \cup cl.workers
      /\ server.state # "none" /\ server.target = "clone" => boxes \cap ClonePg # {}
  BY <1>1 DEF At, Rehearsed, BoxInv, Types, ControlType
<1>3. CASE /\ boxes' = boxes \ cl.owned /\ WithoutServer(cl.owned)
           /\ cl' = [cl EXCEPT !.owned = {}, !.pc = "f.receipt"]
  <2>1. /\ cl' \in Controllers /\ cl'.pc = "f.receipt" /\ cl'.phase = cl.phase
        /\ cl'.ok = cl.ok /\ cl'.owned = {} /\ cl'.workers = cl.workers
        /\ cl'.current = cl.current /\ cl'.baseline = cl.baseline
        /\ cl'.cold = cl.cold /\ cl'.dump = cl.dump /\ cl'.after = cl.after
    BY <1>2, <1>3
  <2>2. boxes' \subseteq boxes /\ boxes' \subseteq cl'.owned \cup cl'.workers
    BY <1>2, <1>3, <2>1
  <2>3. /\ WorkerType' /\ WorkerInv' /\ (server' = server \/ server'.state = "none")
        /\ server'.state # "none" /\ server'.target = "clone" =>
              /\ server.state # "none" /\ server.target = "clone"
              /\ cl.owned \cap ClonePg = {}
    <3> DEFINE o == cl.owned
    <3>1. WithoutServer(o)
      BY <1>3
    <3> HIDE DEF o
    <3>2. /\ WorkerType' /\ WorkerInv' /\ (server' = server \/ server'.state = "none")
          /\ server'.state # "none" /\ server'.target = "clone" =>
                /\ server.state # "none" /\ server.target = "clone"
                /\ o \cap ClonePg = {}
      BY <1>1, <3>1, ServerOrNone
    <3> QED BY <3>2 DEF o
  <2>4. cl.owned \cap ClonePg = {} /\ boxes \cap ClonePg # {} => boxes' \cap ClonePg # {}
    BY <1>3
  <2> QED BY <1>1, <1>2, <2>1, <2>2, <2>3, <2>4, FinishFrame
<1>4. CASE UNCHANGED <<boxes, server>> /\ cl' = [cl EXCEPT !.clean = FALSE, !.pc = "f.receipt"]
  <2>1. /\ cl' \in Controllers /\ cl'.pc = "f.receipt" /\ cl'.phase = cl.phase
        /\ cl'.ok = cl.ok /\ cl'.owned = cl.owned /\ cl'.workers = cl.workers
        /\ cl'.current = cl.current /\ cl'.baseline = cl.baseline
        /\ cl'.cold = cl.cold /\ cl'.dump = cl.dump /\ cl'.after = cl.after
    BY <1>2, <1>4
  <2>2. boxes' \subseteq boxes /\ boxes' \subseteq cl'.owned \cup cl'.workers
    BY <1>2, <1>4, <2>1
  <2>3. WorkerType' /\ WorkerInv'
    BY <1>1, <1>4 DEF Rehearsed, Types, WorkerType, WorkerInv, SaidIsFinal
  <2> QED BY <1>1, <1>2, <1>4, <2>1, <2>2, <2>3, FinishFrame
<1> QED BY <1>3, <1>4 DEF FinishOwned

\* A receipt is written for a run whose supervisor still watches it, so no
\* verdict depends on what the receipt replaces.
LEMMA FinishReceiptRehearsed == ASSUME Rehearsed, FinishReceipt PROVE Rehearsed'
<1>1. PICK inventoried \in BOOLEAN :
        LET pass == Passes /\ inventoried
        IN /\ accepted' = IF pass THEN [accepted EXCEPT ![lease] = cl.baseline] ELSE accepted
           /\ child' = [child EXCEPT ![lease] = IF pass THEN "exit0" ELSE "exit1"]
           /\ lease' = IF pass THEN NoRun ELSE lease
           /\ cl' = [cl EXCEPT !.pc = "ended"]
  BY DEF FinishReceipt
<1>2. At("f.receipt") /\ UNCHANGED <<workerVars, primary, boxes, cloneSup, verdict, writes>>
  BY DEF FinishReceipt
<1>3. /\ lease \in CloneRuns /\ child[lease] = "run" /\ cl.pc = "f.receipt"
      /\ cl \in Controllers
  BY <1>2 DEF At, Alive, Rehearsed, Types, RunType, ControlType
<1>4. cloneSup[lease] = "watch" /\ verdict[lease] = "none"
  BY <1>3 DEF Rehearsed, Types, RunType, RunInv
<1>5. /\ cl' \in Controllers /\ cl'.pc = "ended" /\ cl'.phase = cl.phase
      /\ cl'.ok = cl.ok /\ cl'.owned = cl.owned /\ cl'.workers = cl.workers
      /\ cl'.current = cl.current /\ cl'.baseline = cl.baseline
      /\ cl'.cold = cl.cold /\ cl'.dump = cl.dump /\ cl'.after = cl.after
  BY <1>1, <1>3
<1>6. PathInv'
  BY <1>3, <1>5 DEF Rehearsed, PathInv, Proved
<1>7. WorkerType' /\ WorkerInv' /\ ControlType'
  BY <1>2, <1>5 DEF workerVars, Rehearsed, Types, WorkerType, WorkerInv, SaidIsFinal,
                    ControlType
<1>8. \/ lease' = lease
      \/ lease' = NoRun /\ cl.ok /\ boxes = {}
  BY <1>1 DEF Passes
<1>9. BoxInv' /\ RehearsalInv'
  <2>1. BoxInv'
    BY <1>2, <1>3, <1>5, <1>8 DEF workerVars, Rehearsed, BoxInv
  <2>2. w.mode = "rehearse" => lease' = lease /\ ~cl.ok /\ lease # NoRun
    BY <1>3, <1>8 DEF Rehearsed, RehearsalInv
  <2>3. server.state # "none" /\ server.target = "clone" => ~cl.ok
    BY <1>3 DEF Rehearsed, RehearsalInv
  <2> QED BY <1>2, <1>5, <2>1, <2>2, <2>3 DEF workerVars, RehearsalInv
<1>10. \A c \in CloneRuns \ {lease} : child'[c] = child[c] /\ accepted'[c] = accepted[c]
  BY <1>1, <1>3 DEF Rehearsed, Types, RunType
<1>11. RunType'
  <2>1. child' \in [CloneRuns -> {"none", "create", "run", "exit0", "exit1", "killed"}]
    BY <1>1, <1>3 DEF Rehearsed, Types, RunType
  <2>2. accepted' \in [CloneRuns -> Hist]
    BY <1>1, <1>3 DEF Rehearsed, Types, RunType
  <2> QED BY <1>2, <1>8, <2>1, <2>2 DEF Rehearsed, Types, RunType
<1>12. RunInv'
  <2> SUFFICES ASSUME NEW c \in CloneRuns
               PROVE  /\ cloneSup'[c] = "idle" => child'[c] = "none"
                      /\ verdict'[c] # "none" => cloneSup'[c] = "done"
                      /\ cloneSup'[c] = "done" => child'[c] \in {"exit0", "exit1", "killed"}
    BY DEF RunInv
  <2>1. CASE c = lease
    BY <1>2, <1>4, <2>1
  <2>2. CASE c # lease
    BY <1>2, <1>10, <2>2 DEF Rehearsed, RunInv
  <2> QED BY <2>1, <2>2
<1>13. \A h : PassedPlan(h) => PassedPlan(h)'
  BY <1>2, <1>4, <1>10 DEF PassedPlan
<1>14. ApplyInv'
  BY <1>2, <1>13 DEF workerVars, Rehearsed, ApplyInv
<1> QED BY <1>6, <1>7, <1>9, <1>11, <1>12, <1>14 DEF Rehearsed, Types

-----------------------------------------------------------------------------
(* The supervisors.                                                        *)

\* What a supervisor or the end of a child must show.
LEMMA RunFrame ==
  ASSUME Rehearsed, UNCHANGED <<Inside, lease>>, RunType', RunInv',
         \A c \in CloneRuns : verdict[c] = "PASS" => verdict'[c] = "PASS"
  PROVE  Rehearsed'
<1> USE DEF Inside, workerVars
<1>1. WorkerType' /\ WorkerInv' /\ ControlType'
  BY DEF Rehearsed, Types, WorkerType, WorkerInv, SaidIsFinal, ControlType
<1>2. BoxInv' /\ RehearsalInv' /\ PathInv'
  BY DEF Rehearsed, BoxInv, RehearsalInv, PathInv, Proved
<1>3. ApplyInv'
  BY DEF Rehearsed, ApplyInv, PassedPlan
<1> QED BY <1>1, <1>2, <1>3 DEF Rehearsed, Types

LEMMA SupervisorRehearsed ==
  ASSUME NEW c \in CloneRuns, Rehearsed, Launch(c) \/ ChildKilled(c) \/ Judge(c)
  PROVE  Rehearsed'
<1>1. UNCHANGED <<Inside, lease>>
  BY DEF Launch, ChildKilled, Judge
<1>2. RunType'
  BY <1>1 DEF Launch, ChildKilled, Judge, Inside, Rehearsed, Types, RunType
<1>3. \A d \in CloneRuns \ {c} : /\ child'[d] = child[d] /\ cloneSup'[d] = cloneSup[d]
                                 /\ verdict'[d] = verdict[d]
  BY DEF Launch, ChildKilled, Judge, Rehearsed, Types, RunType
<1>4. /\ cloneSup'[c] = "idle" => child'[c] = "none"
      /\ verdict'[c] # "none" => cloneSup'[c] = "done"
      /\ cloneSup'[c] = "done" => child'[c] \in {"exit0", "exit1", "killed"}
      /\ verdict[c] = "PASS" => verdict'[c] = "PASS"
  <2>1. /\ cloneSup[c] = "idle" => child[c] = "none"
        /\ verdict[c] # "none" => cloneSup[c] = "done"
        /\ cloneSup[c] = "done" => child[c] \in {"exit0", "exit1", "killed"}
    BY DEF Rehearsed, RunInv
  <2>2. CASE Launch(c)
    BY <2>1, <2>2 DEF Launch, Rehearsed, Types, RunType
  <2>3. CASE ChildKilled(c)
    BY <2>1, <2>3 DEF ChildKilled, Rehearsed, Types, RunType
  <2>4. CASE Judge(c)
    BY <2>1, <2>4 DEF Judge, Rehearsed, Types, RunType
  <2> QED BY <2>2, <2>3, <2>4
<1>5. RunInv' /\ \A d \in CloneRuns : verdict[d] = "PASS" => verdict'[d] = "PASS"
  BY <1>3, <1>4 DEF Rehearsed, RunInv
<1> QED BY <1>1, <1>2, <1>5, RunFrame

\* The lease is free only when nothing of the last run is left.
LEMMA CreateLeaseRehearsed ==
  ASSUME NEW c \in CloneRuns, Rehearsed, CreateLease(c) PROVE Rehearsed'
<1>1. /\ child[c] = "create"
      /\ UNCHANGED <<workerVars, primary, boxes, cloneSup, verdict, accepted, writes>>
      /\ child' = [child EXCEPT ![c] = "exit1"] \/ child' = [child EXCEPT ![c] = "run"]
  BY DEF CreateLease
<1>2. cloneSup[c] = "watch"
  BY <1>1 DEF Rehearsed, RunInv, Types, RunType
<1>3. child' \in [CloneRuns -> {"none", "create", "run", "exit0", "exit1", "killed"}]
  BY <1>1 DEF Rehearsed, Types, RunType
<1>4. \A d \in CloneRuns \ {c} : child'[d] = child[d]
  BY <1>1 DEF Rehearsed, Types, RunType
<1>5. RunInv'
  BY <1>1, <1>2, <1>4 DEF Rehearsed, RunInv
<1>6. CASE UNCHANGED <<lease, cl>>
  <2>1. RunType'
    BY <1>1, <1>3, <1>6 DEF Rehearsed, Types, RunType
  <2>2. WorkerType' /\ WorkerInv' /\ ControlType'
    BY <1>1, <1>6 DEF workerVars, Rehearsed, Types, WorkerType, WorkerInv, SaidIsFinal,
                      ControlType
  <2>3. BoxInv' /\ RehearsalInv' /\ PathInv' /\ ApplyInv'
    BY <1>1, <1>6 DEF workerVars, Rehearsed, BoxInv, RehearsalInv, PathInv, Proved,
                      ApplyInv, PassedPlan
  <2> QED BY <1>5, <2>1, <2>2, <2>3 DEF Rehearsed, Types
<1>7. CASE lease = NoRun /\ lease' = c /\ cl' = Attributes
  <2>1. /\ cl'.pc = "admit" /\ cl'.phase = 1 /\ cl'.ok /\ cl'.owned = {}
        /\ cl'.workers = {} /\ cl'.current = Legacy(NoPlan)
    BY <1>7 DEF Attributes
  <2>2. cl' \in Controllers
    <3>1. Legacy(NoPlan) \in Content /\ NoPlan \in Hist
      BY LegacyFields DEF Hist
    <3> QED BY <1>7, <3>1 DEF Attributes
  <2>3. boxes = {} /\ w.mode # "rehearse"
    BY <1>7 DEF Rehearsed, BoxInv, RehearsalInv
  <2>4. server.state # "none" => server.target # "clone"
    BY <2>3 DEF Rehearsed, BoxInv
  <2>5. RunType'
    BY <1>1, <1>3, <1>7 DEF Rehearsed, Types, RunType
  <2>6. WorkerType' /\ WorkerInv' /\ ControlType'
    BY <1>1, <2>2, <2>3 DEF workerVars, Rehearsed, Types, WorkerType, WorkerInv,
                            SaidIsFinal, ControlType
  <2>7. BoxInv' /\ RehearsalInv' /\ PathInv'
    BY <1>1, <2>1, <2>3, <2>4 DEF workerVars, BoxInv, RehearsalInv, PathInv, Proved
  <2>8. ApplyInv'
    BY <1>1 DEF workerVars, Rehearsed, ApplyInv, PassedPlan
  <2> QED BY <1>5, <2>5, <2>6, <2>7, <2>8 DEF Rehearsed, Types
<1> QED BY <1>6, <1>7 DEF CreateLease, LeaseExists

-----------------------------------------------------------------------------
(* The invariant holds, and the properties follow.                         *)

LEMMA StepRehearsed == ASSUME Rehearsed, [Next]_vars PROVE Rehearsed'
<1>1. CASE ControllerStep
  BY <1>1, AdmitRehearsed, MakeRehearsed, ColdFingerprintRehearsed, ColdCopyRehearsed,
     SourceCopyRehearsed, FirstRestoreRehearsed, SecondRestoreRehearsed,
     VerifyPrimaryRehearsed, RehearseRehearsed, CollectRehearsalRehearsed,
     DeliveryFixtureRehearsed, BackupAfterRehearsed, VerifyRestoredRehearsed,
     DropRehearsed, FinishWorkersRehearsed, FinishOwnedRehearsed,
     FinishReceiptRehearsed DEF ControllerStep
<1>2. CASE Workers
  BY <1>2, WorkersRehearsed
<1>3. CASE PrimaryToggled \/ PrimaryWritten \/ ApplyWorkerRemoved
  BY <1>3, PrimaryToggledRehearsed, PrimaryWrittenRehearsed,
     ApplyWorkerRemovedRehearsed
<1>4. CASE \E c \in CloneRuns : \/ Launch(c) \/ CreateLease(c) \/ ChildKilled(c)
                                \/ Judge(c) \/ ApplyPrimary(c)
  BY <1>4, SupervisorRehearsed, CreateLeaseRehearsed, ApplyPrimaryRehearsed
<1>5. CASE UNCHANGED vars
  BY <1>5 DEF vars, workerVars, Rehearsed, Types, WorkerType, ControlType, RunType,
              WorkerInv, SaidIsFinal, RunInv, ApplyInv, PassedPlan, BoxInv,
              RehearsalInv, PathInv, Proved
<1> QED BY <1>1, <1>2, <1>3, <1>4, <1>5 DEF Next

LEMMA AlwaysRehearsed == Spec => []Rehearsed
<1>1. Rehearsed /\ [Next]_vars => Rehearsed'
  BY StepRehearsed
<1> QED BY <1>1, InitRehearsed, PTL DEF Spec

\* What a worker has said about its COMMIT stays true (_classify_readonly):
\* no commit that is still on its way lands after ROLLED_BACK_EXACT, and an
\* acknowledged or classified commit is the complete transition, whatever
\* containers are removed and whoever uses the primary.
THEOREM WordIsFinal == Spec => []SaidIsFinal
<1>1. Rehearsed => SaidIsFinal
  BY DEF Rehearsed, WorkerInv
<1> QED BY <1>1, AlwaysRehearsed, PTL

\* The primary gets the runtime profile only as the complete transition of a
\* plan that a clone run with a PASS verdict accepted (_atomic_transition,
\* _prepare_exact), for every number of runs and of writers in between.
THEOREM TransitionWasRehearsed == Spec => []PrimaryIsRehearsed
<1>1. Rehearsed => PrimaryIsRehearsed
  BY DEF Rehearsed, WorkerInv, Whole, ApplyInv, PassedPlan, PrimaryIsRehearsed
<1> QED BY <1>1, AlwaysRehearsed, PTL

\* A live run has recorded each of its containers before it existed, and a
\* run that died with one, or with a transaction open on its clone, keeps the
\* lease of its revision (create, finish).
THEOREM BoxesAreKnown == Spec => []EveryBoxIsKnown
<1>1. Rehearsed => EveryBoxIsKnown
  BY DEF Rehearsed, BoxInv, EveryBoxIsKnown
<1> QED BY <1>1, AlwaysRehearsed, PTL

LEMMA AcceptanceStep ==
  ASSUME Rehearsed, Next, NEW c \in CloneRuns, accepted'[c] # accepted[c]
  PROVE  /\ boxes = {} /\ lease' = NoRun
         /\ {cl.cold.hist, cl.dump, cl.after, cl.current.hist} = {accepted'[c]}
         /\ cl.current = Runtime(accepted'[c])
<1>1. accepted' # accepted
  OBVIOUS
<1>2. FinishReceipt
  <2>1. CASE ControllerStep
    BY <1>1, <2>1 DEF ControllerStep, Outside, Admit, Make, ColdFingerprint, Work, ColdCopy,
       SourceCopy, FirstRestore, SecondRestore, VerifyPrimary, Rehearse,
       CollectRehearsal, DeliveryFixture, BackupAfter, VerifyRestored, Drop,
       FinishWorkers, FinishOwned
  <2>2. ~(Workers \/ PrimaryToggled \/ PrimaryWritten \/ ApplyWorkerRemoved)
    BY <1>1 DEF Workers, PrimaryToggled, PrimaryWritten, ApplyWorkerRemoved, Environment
  <2>3. ~\E d \in CloneRuns : \/ Launch(d) \/ CreateLease(d) \/ ChildKilled(d)
                              \/ Judge(d) \/ ApplyPrimary(d)
    BY <1>1 DEF Launch, CreateLease, ChildKilled, Judge, ApplyPrimary, Environment, Inside
  <2> QED BY <2>1, <2>2, <2>3 DEF Next
<1>3. /\ Passes /\ lease' = NoRun /\ cl.pc = "f.receipt"
      /\ accepted' = [accepted EXCEPT ![lease] = cl.baseline]
  BY <1>1, <1>2 DEF FinishReceipt, At
<1>4. accepted'[c] = cl.baseline
  BY <1>3 DEF Rehearsed, Types, RunType
<1>5. /\ cl.phase = 8 /\ Proved = 8 /\ cl.ok /\ cl.baseline \in Hist
  BY <1>3 DEF Rehearsed, PathInv, Proved, Passes, Types, ControlType
<1>6. /\ cl.baseline = cl.cold.hist /\ cl.dump = cl.baseline /\ cl.after = cl.baseline
      /\ cl.current = Runtime(cl.baseline)
  BY <1>5 DEF Rehearsed, PathInv
<1>7. cl.current.hist = cl.baseline
  BY <1>5, <1>6, LegacyFields
<1> QED BY <1>3, <1>4, <1>6, <1>7 DEF Passes

\* A PASS receipt is about one history (finish): the cold fingerprint, the
\* dump, both restores and the rehearsed result agree, nothing labelled with
\* the owner is left, and the lease is free.
THEOREM AcceptanceIsOneHistory == Spec => PassIsOneHistory
<1>1. Rehearsed /\ [Next]_vars =>
        [\A c \in CloneRuns : accepted'[c] # accepted[c] =>
           /\ boxes = {} /\ lease' = NoRun
           /\ {cl.cold.hist, cl.dump, cl.after, cl.current.hist} = {accepted'[c]}
           /\ cl.current = Runtime(accepted'[c])]_vars
  BY AcceptanceStep
<1> QED BY <1>1, AlwaysRehearsed, PTL DEF Spec, PassIsOneHistory
=============================================================================

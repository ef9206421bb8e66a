----------------------- MODULE EpochController_proofs -----------------------
(***************************************************************************)
(* Who owns an epoch and what its failure leaves running; then the account *)
(* a controller keeps of the history it fills, backs up and publishes, for *)
(* every number of executions, symbols, minutes, batches and failures.     *)
(*                                                                         *)
(* OneOwner is not inductive.  OwnerInv ties every owner to the file it    *)
(* created, the lease or one continuation directory, and admission to the  *)
(* failure chain the host holds: the chain admits one attempt, the first   *)
(* whose directory does not exist.                                         *)
(*                                                                         *)
(* Nor is any property of the history.  Account adds, for every run:       *)
(*   StageInv     what the run has read, filled and observed by its stage; *)
(*   PasswordInv  when a worker it starts can log in;                      *)
(*   RowsInv      which minutes its rows hold, between the first it asked  *)
(*                for and the last closed one;                             *)
(*   BackedInv    what its archive holds, and from which stage on;         *)
(*   LiveInv      what its PASS was observed against;                      *)
(* and, for all of them, which attempt the evidence on the host admits     *)
(* (HostInv) and that nothing recorded lies ahead of the clock (ClockInv). *)
(* CatchupIsExact needs arithmetic about finite sets: a batch is the sum   *)
(* of what each symbol lacks, and it is cut at a least and a greatest      *)
(* member.  The sum is bounded by least counterexample (OneMinuteFits),    *)
(* as the rule of induction cannot be applied to an operator here.         *)
(***************************************************************************)
EXTENDS EpochController, FiniteSetTheorems, WellFoundedInduction, TLAPS

Doors == {"idle", "dir", "lease"}
Keys == {"owned", "attempt", "created", "left"}

Shape == /\ DOMAIN pc = Runs /\ DOMAIN mem = Runs
         /\ \A r \in Runs : Keys \subseteq DOMAIN mem[r]

\* The recorded failures are those of attempts 0..k, whose directories exist.
ChainHeld == \E k \in -1..4 : /\ evidence = 0..k
                              /\ \A a \in 1..5 : a <= k => dirOf[a] # NoRun
                              /\ \A a \in 1..5 : dirOf[a] \in Runs => a = k + 1

\* The file that makes a run the owner.
Holds(r) == \/ lease = r
            \/ lease = Past /\ \E a \in 1..5 : dirOf[a] = r

OwnerInv ==
  /\ Shape /\ ChainHeld
  /\ lease \in Runs \union {NoRun, Past} /\ dirOf \in [1..5 -> Runs \union {NoRun, Past}]
  /\ \A r \in Runs : mem[r].owned => Holds(r)
  /\ \A r \in Runs : pc[r] \in Doors => mem[r].owned = FALSE
  /\ \A r \in Runs : pc[r] \in Working \union {"cleanup"} => mem[r].owned
  /\ \A r \in Runs : pc[r] = "dir" => /\ mem[r].attempt \in Attempts
                                      /\ mem[r].attempt # 0
                                         => ChainRecorded(mem[r].attempt)
  /\ \A r \in Runs : pc[r] = "lease" => mem[r].attempt = 0

LEMMA ControllerFacts == NoRun \notin Runs /\ Past \notin Runs /\ Past # NoRun
BY ControllerAssumption DEF ControllerAssumption

LEMMA InitOwner == Init => OwnerInv
<1> SUFFICES ASSUME Init PROVE OwnerInv
  OBVIOUS
<1>1. PICK k \in Histories :
        /\ lease = IF k >= 0 THEN Past ELSE NoRun
        /\ dirOf = [a \in 1..5 |-> IF a <= k THEN Past ELSE NoRun]
        /\ evidence = 0..k
        /\ pc = [r \in Runs |-> "idle"] /\ mem = [r \in Runs |-> NewRun]
  BY DEF Init
<1>2. k \in -1..4 BY ControllerAssumption DEF ControllerAssumption
<1>3. ChainHeld BY <1>1, <1>2, ControllerFacts DEF ChainHeld
<1>4. NewRun.owned = FALSE /\ Keys \subseteq DOMAIN NewRun
  BY DEF NewRun, Keys
<1>5. Shape BY <1>1, <1>4 DEF Shape
<1> QED
  BY <1>1, <1>3, <1>4, <1>5, ControllerFacts
     DEF OwnerInv, Doors, Working, WorkerModes

LEMMA OwnerIsUnique == OwnerInv => OneOwner
<1> SUFFICES ASSUME OwnerInv, NEW r1 \in Runs, NEW r2 \in Runs,
                    mem[r1].owned, mem[r2].owned
             PROVE  r1 = r2
  BY DEF OneOwner
<1>1. Holds(r1) /\ Holds(r2) BY DEF OwnerInv
<1>2. PICK k \in -1..4 : \A a \in 1..5 : dirOf[a] \in Runs => a = k + 1
  BY DEF OwnerInv, ChainHeld
<1> QED BY <1>1, <1>2, ControllerFacts DEF Holds

-----------------------------------------------------------------------------
(* What failure leaves running                                             *)

\* Containers stop_owned_after_failure names without a list.
Disposable == {Source, Clone, Serve}

StopInv ==
  /\ \A r \in Runs : mem[r].owned /\ pc[r] \in Working \union {"cleanup"}
                     => running \subseteq Data \union Disposable \union mem[r].created
  /\ FailureStopsWorkers
  /\ (\A r \in Runs : ~mem[r].owned) => running \subseteq Data

LEMMA InitStop == Init => StopInv
<1> SUFFICES ASSUME Init PROVE StopInv
  OBVIOUS
<1>1. running \subseteq Data /\ pc = [r \in Runs |-> "idle"]
      /\ mem = [r \in Runs |-> NewRun]
  BY DEF Init, Data
<1>2. NewRun.owned = FALSE BY DEF NewRun
<1> QED BY <1>1, <1>2 DEF StopInv, FailureStopsWorkers

\* What every step of a working run is to ownership: it stays at work, turns to
\* its cleanup or has passed, lists what it starts, and touches no file.
Proceeds(r) ==
  /\ pc[r] \in Working
  /\ \E p \in Working \union {"cleanup", "passed"} : \E m :
       /\ pc' = [pc EXCEPT ![r] = p] /\ mem' = [mem EXCEPT ![r] = m]
       /\ m.owned = mem[r].owned /\ Keys \subseteq DOMAIN m
       /\ running' \subseteq running \union Data \union Disposable \union m.created
       /\ mem[r].created \intersect running'
            \subseteq Data \union Disposable \union m.created
  /\ UNCHANGED <<lease, dirOf, evidence>>

LEMMA ProceedsKeepsOwner ==
  ASSUME OwnerInv, NEW r \in Runs, Proceeds(r)
  PROVE  OwnerInv'
<1>1. PICK p \in Working \union {"cleanup", "passed"}, m \in {mem'[r]} :
        /\ pc' = [pc EXCEPT ![r] = p] /\ mem' = [mem EXCEPT ![r] = m]
        /\ m.owned = mem[r].owned /\ Keys \subseteq DOMAIN m
  BY DEF Proceeds, OwnerInv, Shape
<1>2. UNCHANGED <<lease, dirOf, evidence>> /\ mem[r].owned
  BY DEF Proceeds, OwnerInv
<1>3. p \notin Doors BY DEF Doors, Working, WorkerModes
<1>4. Shape' BY <1>1 DEF OwnerInv, Shape
<1>5. ChainHeld' BY <1>2 DEF OwnerInv, ChainHeld
<1>6. \A x \in Runs : x # r => pc'[x] = pc[x] /\ mem'[x] = mem[x]
  BY <1>1 DEF OwnerInv, Shape
<1>7. pc'[r] = p /\ mem'[r].owned = mem[r].owned
  BY <1>1 DEF OwnerInv, Shape
<1>8. \A x \in Runs : mem'[x].owned = mem[x].owned BY <1>6, <1>7
<1>9. \A x \in Runs : mem'[x].owned => Holds(x)'
  BY <1>2, <1>8 DEF OwnerInv, Holds
<1>10. \A x \in Runs : pc'[x] \in Doors => mem'[x].owned = FALSE
  BY <1>3, <1>6, <1>7 DEF OwnerInv
<1>11. \A x \in Runs : pc'[x] \in Working \union {"cleanup"} => mem'[x].owned
  BY <1>2, <1>6, <1>7 DEF OwnerInv
<1>12. \A x \in Runs : pc'[x] \in {"dir", "lease"}
                       => pc[x] = pc'[x] /\ mem'[x] = mem[x]
  BY <1>3, <1>6, <1>7 DEF Doors
<1> QED
  BY <1>2, <1>4, <1>5, <1>9, <1>10, <1>11, <1>12 DEF OwnerInv, ChainRecorded

LEMMA ProceedsKeepsStop ==
  ASSUME OwnerInv, StopInv, NEW r \in Runs, Proceeds(r)
  PROVE  StopInv'
<1>1. PICK p \in Working \union {"cleanup", "passed"}, m \in {mem'[r]} :
        /\ pc' = [pc EXCEPT ![r] = p] /\ mem' = [mem EXCEPT ![r] = m]
        /\ m.owned = mem[r].owned /\ Keys \subseteq DOMAIN m
        /\ running' \subseteq running \union Data \union Disposable \union m.created
        /\ mem[r].created \intersect running'
             \subseteq Data \union Disposable \union m.created
  BY DEF Proceeds, OwnerInv, Shape
<1>2. mem[r].owned BY DEF Proceeds, OwnerInv
<1>3. pc'[r] = p /\ mem'[r] = m /\ mem'[r].owned
  BY <1>1, <1>2 DEF OwnerInv, Shape
<1>4. \A x \in Runs : mem'[x].owned => x = r
  BY <1>2, <1>3, OwnerIsUnique, ProceedsKeepsOwner, <1>1
     DEF OneOwner, OwnerInv, Shape
<1>5. running \subseteq Data \union Disposable \union mem[r].created
  BY <1>2 DEF StopInv, Proceeds
<1>6. running' \subseteq Data \union Disposable \union m.created
  BY <1>1, <1>5
<1>7. p \notin {"report", "failed"} BY DEF Working, WorkerModes
<1> QED BY <1>3, <1>4, <1>6, <1>7 DEF StopInv, FailureStopsWorkers

\* Steps of the containers and of the clock keep both invariants: they touch no
\* run and no file, and start nothing.
LEMMA OutsideKeeps ==
  ASSUME OwnerInv, StopInv, UNCHANGED <<pc, mem, lease, dirOf, evidence>>,
         running' \subseteq running
  PROVE  OwnerInv' /\ StopInv'
BY DEF OwnerInv, StopInv, Shape, ChainHeld, Holds, ChainRecorded,
       FailureStopsWorkers

\* A step whose record m, on success, keeps the owner and the list.
LEMMA StepProceeds ==
  ASSUME OwnerInv, NEW r \in Runs, NEW from \in Working, NEW ok,
         NEW to \in Working \union {"passed"}, NEW m, Step(r, from, ok, to, m),
         m.owned = mem[r].owned, Keys \subseteq DOMAIN m,
         m.created = mem[r].created,
         running' \subseteq running \union Data \union Disposable,
         UNCHANGED <<lease, dirOf, evidence>>
  PROVE  Proceeds(r)
<1>1. pc[r] \in Working BY DEF Step
<1>2. CASE ok
  <2>1. pc' = [pc EXCEPT ![r] = to] /\ mem' = [mem EXCEPT ![r] = m]
    BY <1>2 DEF Step, Go
  <2> QED BY <1>1, <2>1 DEF Proceeds
<1>3. CASE ~ok
  <2>1. pc' = [pc EXCEPT ![r] = "cleanup"] /\ mem' = [mem EXCEPT ![r] = mem[r]]
    BY <1>3 DEF Step, Go
  <2>2. Keys \subseteq DOMAIN mem[r] BY DEF OwnerInv, Shape
  <2> QED BY <1>1, <2>1, <2>2 DEF Proceeds
<1> QED BY <1>2, <1>3

\* Steps that only move the run, or change nothing it lists.
LEMMA QuietSteps ==
  ASSUME OwnerInv, NEW r \in Runs,
         \/ PrepareSnapshots(r) \/ LegacyBefore(r) \/ CreateAssets(r) \/ Prepare(r)
         \/ Seed(r) \/ AssertExisting(r) \/ HistoryState(r) \/ Repair(r)
         \/ Rotate(r) \/ SetGoal(r) \/ CreateRestoreVolume(r) \/ Dump(r)
         \/ VerifyRestore(r) \/ PostState(r) \/ Qualify(r) \/ AwaitStatus(r)
         \/ StopServe(r) \/ RestartServe(r) \/ PollRestart(r) \/ WaitTimesOut(r)
         \/ CompareAfter(r) \/ SaveReceipt(r)
  PROVE  Proceeds(r)
<1> USE DEF Working, WorkerModes, fileVars, dockerVars, Phase
<1> DEFINE M == mem[r]
<1>0. Keys \subseteq DOMAIN M BY DEF OwnerInv, Shape
<1>1. CASE PrepareSnapshots(r)
  BY <1>0, <1>1, StepProceeds DEF PrepareSnapshots
<1>2. CASE LegacyBefore(r) BY <1>0, <1>2, StepProceeds DEF LegacyBefore
<1>3. CASE CreateAssets(r) BY <1>0, <1>3, StepProceeds DEF CreateAssets
<1>4. CASE Prepare(r) BY <1>0, <1>4, StepProceeds DEF Prepare
<1>5. CASE Seed(r) BY <1>0, <1>5, StepProceeds DEF Seed, Keys
<1>6. CASE AssertExisting(r) BY <1>0, <1>6, StepProceeds DEF AssertExisting
<1>7. CASE HistoryState(r) BY <1>0, <1>7, StepProceeds DEF HistoryState, Keys
<1>8. CASE Repair(r) BY <1>0, <1>8, StepProceeds DEF Repair
<1>9. CASE Rotate(r) BY <1>0, <1>9, StepProceeds DEF Rotate
<1>10. CASE SetGoal(r) BY <1>0, <1>10, StepProceeds DEF SetGoal, Keys
<1>11. CASE CreateRestoreVolume(r)
  BY <1>0, <1>11, StepProceeds DEF CreateRestoreVolume
<1>12. CASE Dump(r) BY <1>0, <1>12, StepProceeds DEF Dump, Keys
<1>13. CASE VerifyRestore(r) BY <1>0, <1>13, StepProceeds DEF VerifyRestore, Keys
<1>14. CASE PostState(r) BY <1>0, <1>14, StepProceeds DEF PostState
<1>15. CASE Qualify(r) BY <1>0, <1>15, StepProceeds DEF Qualify
<1>16. CASE AwaitStatus(r) BY <1>0, <1>16, StepProceeds DEF AwaitStatus, Keys
<1>17. CASE StopServe(r) BY <1>0, <1>17, StepProceeds DEF StopServe
<1>18. CASE RestartServe(r)
  BY <1>0, <1>18, StepProceeds DEF RestartServe, Disposable
<1>19. CASE PollRestart(r)
  <2>1. CASE Go(r, "cleanup", mem[r])
    BY <1>0, <1>19, <2>1 DEF PollRestart, Proceeds, Go
  <2>2. CASE Step(r, "restart", Serve \in running, "after",
                  [mem[r] EXCEPT !.seen = status])
    BY <1>0, <1>19, <2>2, StepProceeds DEF PollRestart, Keys
  <2> QED BY <1>19, <2>1, <2>2 DEF PollRestart
<1>20. CASE WaitTimesOut(r) BY <1>0, <1>20, StepProceeds DEF WaitTimesOut
<1>21. CASE CompareAfter(r) BY <1>0, <1>21, StepProceeds DEF CompareAfter
<1>22. CASE SaveReceipt(r) BY <1>0, <1>22, StepProceeds DEF SaveReceipt
<1> QED BY <1>1, <1>2, <1>3, <1>4, <1>5, <1>6, <1>7, <1>8, <1>9, <1>10, <1>11,
           <1>12, <1>13, <1>14, <1>15, <1>16, <1>17, <1>18, <1>19, <1>20,
           <1>21, <1>22

LEMMA GoProceeds ==
  ASSUME NEW r \in Runs, NEW p \in Working \union {"cleanup", "passed"}, NEW m,
         pc[r] \in Working, Go(r, p, m), m.owned = mem[r].owned,
         Keys \subseteq DOMAIN m,
         running' \subseteq running \union Data \union Disposable \union m.created,
         mem[r].created \intersect running'
           \subseteq Data \union Disposable \union m.created,
         UNCHANGED <<lease, dirOf, evidence>>
  PROVE  Proceeds(r)
BY DEF Go, Proceeds

\* Steps that start, list or remove a container.
LEMMA ListingSteps ==
  ASSUME OwnerInv, NEW r \in Runs,
         \/ CreateStore(r) \/ DropSource(r) \/ NextBatch(r) \/ RestoreClone(r)
         \/ RemoveClone(r) \/ StartServe(r)
  PROVE  Proceeds(r)
<1> USE DEF Working, WorkerModes, fileVars, dockerVars, Step, Go, Disposable, Data
<1>0. Keys \subseteq DOMAIN mem[r] BY DEF OwnerInv, Shape
<1>1. CASE CreateStore(r)
  <2>1. PICK s \in {<<"source", Source, "target">>, <<"target", Target, "redis">>,
                    <<"redis", Redis, "prepare">>} :
          /\ Step(r, s[1], Free(s[2]), s[3],
                  [mem[r] EXCEPT !.created = @ \union {s[2]}])
          /\ running' = IF Free(s[2]) THEN running \union {s[2]} ELSE running
          /\ UNCHANGED fileVars
    BY <1>1 DEF CreateStore
  <2>2. s[1] \in Working /\ s[3] \in Working /\ s[2] \in Data \union Disposable
    OBVIOUS
  <2>3. CASE Free(s[2])
    <3> DEFINE list == mem[r].created \union {s[2]}
    <3>1. /\ pc[r] \in Working /\ Go(r, s[3], [mem[r] EXCEPT !.created = list])
          /\ running' = running \union {s[2]}
      BY <2>1, <2>2, <2>3
    <3> DEFINE m == [mem[r] EXCEPT !.created = list]
    <3>2. m.owned = mem[r].owned /\ m.created = list /\ Keys \subseteq DOMAIN m
      BY <1>0 DEF Keys
    <3>3. Go(r, s[3], m) BY <3>1
    <3> HIDE DEF m
    <3>4. mem[r].created \subseteq m.created BY <3>2
    <3> HIDE DEF list, Go, Step
    <3> QED BY <2>1, <2>2, <3>1, <3>2, <3>3, <3>4, GoProceeds
  <2>4. CASE ~Free(s[2])
    <3>1. pc[r] \in Working /\ Go(r, "cleanup", mem[r]) /\ running' = running
      BY <2>1, <2>2, <2>4
    <3> QED BY <1>0, <2>1, <3>1, GoProceeds
  <2> QED BY <2>3, <2>4
<1>2. CASE DropSource(r) BY <1>0, <1>2 DEF DropSource, Proceeds, Keys
<1>3. CASE NextBatch(r)
  <2>1. AfterLoop(r) \in Working BY DEF AfterLoop
  <2> DEFINE c == Named(r, "catchup")
             list == mem[r].created \union {c}
  <2>2. pc[r] \in Working /\ UNCHANGED <<lease, dirOf, evidence>>
    BY <1>3 DEF NextBatch
  <2>3. CASE \E p \in Working \union {"cleanup"} :
               Go(r, p, mem[r]) /\ running' = running
    BY <1>0, <2>2, <2>3, GoProceeds
  <2>4. CASE Earliest(mem[r].rolling) >= Goal(r)
    BY <1>3, <2>1, <2>3, <2>4 DEF NextBatch
  <2>5. CASE ~(Earliest(mem[r].rolling) >= Goal(r))
    <3> DEFINE ends == BatchEnds(mem[r].rolling, Goal(r))
               ok == ends # {} /\ BatchesLeft(r) /\ Free(c)
    <3>1. CASE ok
      <4> DEFINE m == [mem[r] EXCEPT !.batch = mem[r].batch + 1,
                         !.end = Max(ends), !.base = hist, !.created = list]
      <4>1. Go(r, "catching", m) /\ running' = running \union {c}
        BY <1>3, <2>5, <3>1 DEF NextBatch
      <4>2. m.owned = mem[r].owned /\ m.created = list /\ Keys \subseteq DOMAIN m
        BY <1>0 DEF Keys
      <4>3. c \in list /\ mem[r].created \subseteq list OBVIOUS
      <4> HIDE DEF m, list, c, ok, Go, Step
      <4> QED BY <2>2, <4>1, <4>2, <4>3, GoProceeds
    <3>2. CASE ~ok
      <4>1. Go(r, "cleanup", mem[r]) /\ running' = running
        BY <1>3, <2>5, <3>2 DEF NextBatch
      <4> QED BY <4>1, <2>3
    <3> QED BY <3>1, <3>2
  <2> QED BY <2>4, <2>5
<1>4. CASE RestoreClone(r) BY <1>0, <1>4 DEF RestoreClone, Proceeds, Keys
<1>5. CASE RemoveClone(r)
  <2>1. AfterBackup(r) \in Working BY DEF AfterBackup
  <2>2. pc[r] \in Working /\ UNCHANGED <<lease, dirOf, evidence>>
    BY <1>5 DEF RemoveClone
  <2>3. CASE Clone \in running
    <3> DEFINE m == [mem[r] EXCEPT !.round = mem[r].round + 1,
                                   !.created = mem[r].created \ {Clone}]
    <3>1. /\ m.owned = mem[r].owned /\ m.created = mem[r].created \ {Clone}
          /\ Keys \subseteq DOMAIN m
      BY <1>0 DEF Keys
    <3>2. Go(r, AfterBackup(r), m) /\ running' = running \ {Clone}
      BY <1>5, <2>3 DEF RemoveClone
    <3> HIDE DEF m, Go, Step
    <3> QED BY <2>1, <2>2, <3>1, <3>2, GoProceeds
  <2>4. CASE Clone \notin running
    <3>1. Go(r, "cleanup", mem[r]) /\ running' = running
      BY <1>5, <2>4 DEF RemoveClone
    <3> QED BY <1>0, <2>2, <3>1, GoProceeds
  <2> QED BY <2>3, <2>4
<1>6. CASE StartServe(r) BY <1>0, <1>6 DEF StartServe, Proceeds, Keys
<1> QED BY <1>1, <1>2, <1>3, <1>4, <1>5, <1>6

\* Failing commands leave running only what the run lists.
LEMMA FailingSteps ==
  ASSUME OwnerInv, NEW r \in Runs, CommandFails(r) \/ HalfDone(r)
  PROVE  Proceeds(r)
<1> USE DEF Working, WorkerModes, fileVars, dockerVars, Go, Disposable, Data
<1>0. Keys \subseteq DOMAIN mem[r] BY DEF OwnerInv, Shape
<1>1. CASE CommandFails(r)
  <2>1. PICK made, listed, up \in BOOLEAN :
          /\ Effects(made, listed, up)
          /\ running' = IF up THEN running \union {Job(r)} ELSE running
          /\ Go(r, "cleanup",
                [mem[r] EXCEPT !.created = IF listed THEN @ \union {Job(r)} ELSE @])
    BY <1>1 DEF CommandFails
  <2>2. pc[r] \in Working /\ UNCHANGED fileVars BY <1>1 DEF CommandFails
  <2> DEFINE list == IF listed THEN mem[r].created \union {Job(r)}
                     ELSE mem[r].created
  <2>3. Go(r, "cleanup", [mem[r] EXCEPT !.created = list]) BY <2>1
  <2>4. mem[r].created \subseteq list /\ running' \subseteq running \union list
    BY <2>1 DEF Effects
  <2> DEFINE m == [mem[r] EXCEPT !.created = list]
  <2>5. m.owned = mem[r].owned /\ m.created = list /\ Keys \subseteq DOMAIN m
    BY <1>0 DEF Keys
  <2>6. Go(r, "cleanup", m) BY <2>3
  <2> HIDE DEF list, m, Go
  <2> QED BY <2>2, <2>4, <2>5, <2>6, GoProceeds
<1>2. CASE HalfDone(r)
  <2>1. CASE \E c \in {<<"unsource", Source>>, <<"unclone", Clone>>} :
               /\ pc[r] = c[1] /\ running' = running \ {c[2]}
               /\ Go(r, "cleanup", [mem[r] EXCEPT !.created = @ \ {c[2]}])
    <3>1. PICK c \in {<<"unsource", Source>>, <<"unclone", Clone>>} :
               /\ pc[r] = c[1] /\ running' = running \ {c[2]}
               /\ Go(r, "cleanup", [mem[r] EXCEPT !.created = @ \ {c[2]}])
      BY <2>1
    <3> DEFINE list == mem[r].created \ {c[2]}
    <3>2. pc[r] \in Working /\ Go(r, "cleanup", [mem[r] EXCEPT !.created = list])
      BY <3>1
    <3>3. mem[r].created \intersect running' \subseteq list BY <3>1
    <3>4. UNCHANGED <<lease, dirOf, evidence>> BY <1>2 DEF HalfDone
    <3>5. running' \subseteq running BY <3>1
    <3> DEFINE m == [mem[r] EXCEPT !.created = list]
    <3>6. m.owned = mem[r].owned /\ m.created = list /\ Keys \subseteq DOMAIN m
      BY <1>0 DEF Keys
    <3>7. Go(r, "cleanup", m) BY <3>2
    <3> HIDE DEF list, m, Go
    <3> QED BY <3>2, <3>3, <3>4, <3>5, <3>6, <3>7, GoProceeds
  <2>2. CASE /\ pc[r] \in Working /\ running' \subseteq running
             /\ Go(r, "cleanup", mem[r])
    BY <1>0, <1>2, <2>2 DEF HalfDone, Proceeds
  <2> QED BY <1>2, <2>1, <2>2 DEF HalfDone
<1> QED BY <1>1, <1>2

-----------------------------------------------------------------------------
(* Admission, the lease and the end of a run                               *)

\* A run that is no owner moves without becoming one.
LEMMA StrangerMoves ==
  ASSUME OwnerInv, StopInv, NEW r \in Runs, NEW m,
         NEW p \in {"dir", "lease", "refused", "report"},
         pc[r] \in Doors, Go(r, p, m), m.owned = FALSE, Keys \subseteq DOMAIN m,
         p = "dir" => /\ m.attempt \in Attempts
                      /\ m.attempt # 0 => ChainRecorded(m.attempt),
         p = "lease" => m.attempt = 0,
         UNCHANGED <<lease, dirOf, evidence, running>>
  PROVE  OwnerInv' /\ StopInv'
<1>1. \A x \in Runs : x # r => pc'[x] = pc[x] /\ mem'[x] = mem[x]
  BY DEF OwnerInv, Shape, Go
<1>2. pc'[r] = p /\ mem'[r] = m BY DEF OwnerInv, Shape, Go
<1>3. Shape' BY DEF OwnerInv, Shape, Go
<1>4. ChainHeld' BY DEF OwnerInv, ChainHeld
<1>5. mem[r].owned = FALSE BY DEF OwnerInv
<1>6. p \notin Working \union {"cleanup"} BY DEF Working, WorkerModes
<1>7. \A x \in Runs : mem'[x].owned => Holds(x)'
  BY <1>1, <1>2 DEF OwnerInv, Holds
<1>8. OwnerInv'
  BY <1>1, <1>2, <1>3, <1>4, <1>6, <1>7 DEF OwnerInv, ChainRecorded
<1>9. StopInv'
  BY <1>1, <1>2, <1>5, <1>6 DEF StopInv, FailureStopsWorkers
<1> QED BY <1>8, <1>9

\* main() admits a continuation only with its failure chain.
LEMMA StartKeeps ==
  ASSUME OwnerInv, StopInv, NEW r \in Runs, Start(r)
  PROVE  OwnerInv' /\ StopInv'
<1>1. PICK a \in Attempts, goal \in 1..now :
        Go(r, IF Admissible(a) THEN "dir" ELSE "refused",
           [NewRun EXCEPT !.attempt = a, !.goal = goal])
  BY DEF Start
<1> DEFINE m == [NewRun EXCEPT !.attempt = a, !.goal = goal]
<1>2. m.owned = FALSE /\ m.attempt = a /\ Keys \subseteq DOMAIN m
  BY DEF NewRun, Keys
<1>3. pc[r] \in Doors /\ UNCHANGED <<lease, dirOf, evidence, running>>
  BY DEF Start, Doors, fileVars, dockerVars
<1>4. Admissible(a) => a = 0 \/ ChainRecorded(a) BY DEF Admissible
<1> HIDE DEF m
<1>5. CASE Admissible(a)
  <2>1. Go(r, "dir", m) BY <1>1, <1>5 DEF m
  <2> QED BY <1>2, <1>3, <1>4, <1>5, <2>1, StrangerMoves
<1>6. CASE ~Admissible(a)
  <2>1. Go(r, "refused", m) BY <1>1, <1>6 DEF m
  <2> QED BY <1>2, <1>3, <2>1, StrangerMoves
<1> QED BY <1>5, <1>6

\* A run that becomes the owner is the first and the only one, and finds nothing
\* but the data containers running.
LEMMA BecomesOwner ==
  ASSUME OwnerInv, StopInv, NEW r \in Runs, NEW m, Go(r, "snapshots", m),
         m.owned = TRUE, Keys \subseteq DOMAIN m, pc[r] \in Doors,
         ChainHeld', lease' \in Runs \union {NoRun, Past},
         dirOf' \in [1..5 -> Runs \union {NoRun, Past}],
         \A x \in Runs : Holds(x)' <=> x = r,
         \A x \in Runs : Holds(x) => Holds(x)',
         \A a \in Attempts : a # 0 /\ ChainRecorded(a) => ChainRecorded(a)',
         running' = running
  PROVE  OwnerInv' /\ StopInv'
<1>1. \A x \in Runs : x # r => pc'[x] = pc[x] /\ mem'[x] = mem[x]
  BY DEF OwnerInv, Shape, Go
<1>2. pc'[r] = "snapshots" /\ mem'[r] = m BY DEF OwnerInv, Shape, Go
<1>3. Shape' BY DEF OwnerInv, Shape, Go
<1>4. mem[r].owned = FALSE BY DEF OwnerInv
<1>5. \A x \in Runs : ~mem[x].owned BY <1>4 DEF OwnerInv
<1>6. OwnerInv'
  <2>1. \A x \in Runs : mem'[x].owned => Holds(x)' BY <1>1, <1>5
  <2>2. \A x \in Runs : pc'[x] \in Doors => x # r BY <1>2 DEF Doors
  <2>3. \A x \in Runs : pc'[x] \in Doors => mem'[x].owned = FALSE
    BY <1>1, <2>2 DEF OwnerInv
  <2>4. \A x \in Runs : pc'[x] \in Working \union {"cleanup"} => mem'[x].owned
    BY <1>1, <1>2 DEF OwnerInv
  <2>5. \A x \in Runs : pc'[x] = "dir" =>
          /\ mem'[x].attempt \in Attempts
          /\ mem'[x].attempt # 0 => ChainRecorded(mem[x].attempt)'
    BY <1>1, <1>2 DEF OwnerInv
  <2>6. \A x \in Runs : pc'[x] = "lease" => mem'[x].attempt = 0
    BY <1>1, <1>2 DEF OwnerInv
  <2> QED BY <1>3, <2>1, <2>3, <2>4, <2>5, <2>6 DEF OwnerInv
<1>7. running' \subseteq Data BY <1>5 DEF StopInv
<1> QED BY <1>6, <1>7 DEF StopInv, FailureStopsWorkers

\* _private_directory: the chain admits the one attempt whose directory is free.
LEMMA MakeDirectoryKeeps ==
  ASSUME OwnerInv, StopInv, NEW r \in Runs, MakeDirectory(r)
  PROVE  OwnerInv' /\ StopInv'
<1> DEFINE a == mem[r].attempt
<1>1. /\ pc[r] = "dir" /\ pc[r] \in Doors /\ a \in Attempts
      /\ a # 0 => ChainRecorded(a)
  BY DEF MakeDirectory, OwnerInv, Doors
<1>2. Keys \subseteq DOMAIN mem[r] /\ mem[r].owned = FALSE
  BY <1>1 DEF OwnerInv, Shape
<1>3. UNCHANGED <<lease, evidence, running>>
  BY DEF MakeDirectory, dockerVars
<1>4. CASE a = 0
  <2>1. Go(r, "lease", mem[r]) /\ UNCHANGED dirOf
    BY <1>4 DEF MakeDirectory, Attempt
  <2> QED BY <1>1, <1>2, <1>3, <1>4, <2>1, StrangerMoves
<1>5. CASE a # 0 /\ dirOf[a] = NoRun
  <2> DEFINE m == [mem[r] EXCEPT !.owned = TRUE, !.rolling = SeedAnchors]
  <2>1. Go(r, "snapshots", m) /\ dirOf' = [dirOf EXCEPT ![a] = r]
    BY <1>5 DEF MakeDirectory, Attempt, MkdirCreates
  <2>2. m.owned = TRUE /\ Keys \subseteq DOMAIN m BY <1>2 DEF Keys
  <2>3. a \in 1..5 /\ lease = Past /\ 0..(a - 1) \subseteq evidence
    BY <1>1, <1>5 DEF Attempts, ChainRecorded
  <2>4. PICK k \in -1..4 : /\ evidence = 0..k
                           /\ \A b \in 1..5 : b <= k => dirOf[b] # NoRun
                           /\ \A b \in 1..5 : dirOf[b] \in Runs => b = k + 1
    BY DEF OwnerInv, ChainHeld
  <2>5. a = k + 1
    <3>1. a - 1 \in 0..(a - 1) BY <2>3
    <3>2. a - 1 <= k BY <2>3, <2>4, <3>1
    <3>3. ~(a <= k) BY <1>5, <2>3, <2>4
    <3> QED BY <2>3, <3>2, <3>3
  <2>6. dirOf \in [1..5 -> Runs \union {NoRun, Past}] BY DEF OwnerInv
  <2>7. ChainHeld'
    <3>1. /\ evidence' = 0..k
          /\ \A b \in 1..5 : b <= k => dirOf'[b] # NoRun
          /\ \A b \in 1..5 : dirOf'[b] \in Runs => b = k + 1
      BY <1>3, <2>1, <2>3, <2>4, <2>5, <2>6, ControllerFacts
    <3> QED BY <3>1 DEF ChainHeld
  <2>8. \A x \in Runs : Holds(x)' <=> x = r
    BY <1>3, <1>5, <2>1, <2>3, <2>4, <2>5, <2>6, ControllerFacts DEF Holds
  <2>9. \A x \in Runs : ~Holds(x)
    BY <1>5, <2>3, <2>4, <2>5, ControllerFacts DEF Holds
  <2>10. /\ lease' \in Runs \union {NoRun, Past}
         /\ dirOf' \in [1..5 -> Runs \union {NoRun, Past}]
    BY <1>3, <2>1, <2>6 DEF OwnerInv
  <2>11. \A b \in Attempts : b # 0 /\ ChainRecorded(b) => ChainRecorded(b)'
    BY <1>3 DEF ChainRecorded
  <2> HIDE DEF m, a
  <2> QED BY <1>1, <1>3, <2>1, <2>2, <2>7, <2>8, <2>9, <2>10, <2>11, BecomesOwner
<1>6. CASE a # 0 /\ dirOf[a] # NoRun
  <2>1. Go(r, "refused", mem[r]) /\ UNCHANGED dirOf
    BY <1>6 DEF MakeDirectory, Attempt, MkdirCreates
  <2> QED BY <1>1, <1>2, <1>3, <2>1, StrangerMoves
<1> QED BY <1>4, <1>5, <1>6

\* ACTIVE_LEASE.open("xb") succeeds once.
LEMMA TakeLeaseKeeps ==
  ASSUME OwnerInv, StopInv, NEW r \in Runs, TakeLease(r)
  PROVE  OwnerInv' /\ StopInv'
<1>1. pc[r] = "lease" /\ pc[r] \in Doors BY DEF TakeLease, Doors
<1>2. Keys \subseteq DOMAIN mem[r] /\ mem[r].owned = FALSE
  BY <1>1 DEF OwnerInv, Shape
<1>3. UNCHANGED <<dirOf, evidence, running>> BY DEF TakeLease, dockerVars
<1>4. CASE lease = NoRun
  <2> DEFINE m == [mem[r] EXCEPT !.owned = TRUE]
  <2>1. Go(r, "snapshots", m) /\ lease' = r BY <1>4 DEF TakeLease, LeaseCreates
  <2>2. m.owned = TRUE /\ Keys \subseteq DOMAIN m BY <1>2 DEF Keys
  <2>3. ChainHeld' BY <1>3 DEF OwnerInv, ChainHeld
  <2>4. \A x \in Runs : (Holds(x)' <=> x = r) /\ ~Holds(x)
    BY <1>4, <2>1, ControllerFacts DEF Holds
  <2>5. /\ lease' \in Runs \union {NoRun, Past}
        /\ dirOf' \in [1..5 -> Runs \union {NoRun, Past}]
    BY <1>3, <2>1 DEF OwnerInv
  <2>6. \A b \in Attempts : ~ChainRecorded(b)
    BY <1>4, ControllerFacts DEF ChainRecorded
  <2> HIDE DEF m
  <2> QED BY <1>1, <1>3, <2>1, <2>2, <2>3, <2>4, <2>5, <2>6, BecomesOwner
<1>5. CASE lease # NoRun
  <2>1. Go(r, "report", mem[r]) /\ UNCHANGED lease
    BY <1>5 DEF TakeLease, LeaseCreates
  <2> QED BY <1>1, <1>2, <1>3, <2>1, StrangerMoves
<1> QED BY <1>4, <1>5

\* A run ends: ownership stays with it, and running containers are its own.
LEMMA EndingKeeps ==
  ASSUME OwnerInv, StopInv, NEW r \in Runs, Cleanup(r) \/ Report(r) \/ Kill(r)
  PROVE  OwnerInv' /\ StopInv'
<1> USE DEF fileVars, dockerVars
<1>1. PICK p \in {"report", "failed", "killed"} :
        /\ pc' = [pc EXCEPT ![r] = p]
        /\ mem' = [mem EXCEPT ![r] = mem'[r]]
        /\ mem'[r].owned = mem[r].owned /\ Keys \subseteq DOMAIN mem'[r]
        /\ running' \subseteq running
        /\ p = "report" => running' \subseteq Data \union mem'[r].left
        /\ p = "failed" => pc[r] = "report" /\ mem'[r] = mem[r]
  <2>0. Keys \subseteq DOMAIN mem[r] BY DEF OwnerInv, Shape
  <2>1. CASE Cleanup(r)
    <3>1. PICK left \in SUBSET (Candidates(r) \intersect running) :
            /\ running' = running \ (Candidates(r) \ left)
            /\ Go(r, "report", [mem[r] EXCEPT !.left = left])
      BY <2>1 DEF Cleanup
    <3> DEFINE m == [mem[r] EXCEPT !.left = left]
    <3>2. m.owned = mem[r].owned /\ m.left = left /\ Keys \subseteq DOMAIN m
      BY <2>0 DEF Keys
    <3>3. pc' = [pc EXCEPT ![r] = "report"] /\ mem' = [mem EXCEPT ![r] = m]
      BY <3>1 DEF Go
    <3> HIDE DEF m
    <3>4. mem'[r] = m BY <3>3 DEF OwnerInv, Shape
    <3>5. pc[r] = "cleanup" /\ mem[r].owned
      BY <2>1 DEF Cleanup, OwnerInv
    <3>6. running \subseteq Data \union Disposable \union mem[r].created
      BY <3>5 DEF StopInv
    <3>7. running' \subseteq Data \union left
      BY <3>1, <3>6 DEF Candidates, Disposable, Data
    <3> QED BY <3>1, <3>2, <3>3, <3>4, <3>5, <3>7
  <2>2. CASE Report(r)
    <3>1. /\ pc[r] = "report" /\ running' = running
          /\ pc' = [pc EXCEPT ![r] = "failed"] /\ mem' = [mem EXCEPT ![r] = mem[r]]
      BY <2>2 DEF Report, Go
    <3>2. mem'[r] = mem[r] BY <3>1 DEF OwnerInv, Shape
    <3> QED BY <2>0, <3>1, <3>2
  <2>3. CASE Kill(r)
    <3>1. /\ running' = running
          /\ pc' = [pc EXCEPT ![r] = "killed"] /\ mem' = [mem EXCEPT ![r] = mem[r]]
      BY <2>3 DEF Kill, Go
    <3>2. mem'[r] = mem[r] BY <3>1 DEF OwnerInv, Shape
    <3> QED BY <2>0, <3>1, <3>2
  <2> QED BY <2>1, <2>2, <2>3
<1>2. UNCHANGED <<lease, dirOf, evidence>> BY DEF Cleanup, Report, Kill
<1>3. \A x \in Runs : x # r => pc'[x] = pc[x] /\ mem'[x] = mem[x]
  BY <1>1 DEF OwnerInv, Shape
<1>4. pc'[r] = p BY <1>1 DEF OwnerInv, Shape
<1>5. p \notin Doors \union Working \union {"cleanup"}
  BY DEF Doors, Working, WorkerModes
<1>6. Shape' BY <1>1, <1>3 DEF OwnerInv, Shape
<1>7. ChainHeld' BY <1>2 DEF OwnerInv, ChainHeld
<1>8. \A x \in Runs : mem'[x].owned => Holds(x)'
  BY <1>1, <1>2, <1>3 DEF OwnerInv, Holds
<1>9. \A x \in Runs : pc'[x] \in Doors \union Working \union {"cleanup"}
                      => x # r
  BY <1>4, <1>5
<1>10. OwnerInv'
  BY <1>2, <1>3, <1>6, <1>7, <1>8, <1>9 DEF OwnerInv, ChainRecorded, Doors
<1>11. \A x \in Runs : mem'[x].owned = mem[x].owned BY <1>1, <1>3
<1>12. StopInv'
  <2>1. \A x \in Runs : mem'[x].owned /\ pc'[x] \in Working \union {"cleanup"}
          => running' \subseteq Data \union Disposable \union mem'[x].created
    BY <1>1, <1>3, <1>9 DEF StopInv
  <2>2. \A x \in Runs : mem'[x].owned /\ pc'[x] \in {"report", "failed"}
          => running' \subseteq Data \union mem'[x].left
    BY <1>1, <1>3, <1>4 DEF StopInv, FailureStopsWorkers
  <2>3. (\A x \in Runs : ~mem'[x].owned) => running' \subseteq Data
    BY <1>1, <1>11 DEF StopInv
  <2> QED BY <2>1, <2>2, <2>3 DEF StopInv, FailureStopsWorkers
<1> QED BY <1>10, <1>12

-----------------------------------------------------------------------------
(* The catch-up worker, the surroundings and the whole                     *)

LEMMA CatchupKeeps ==
  ASSUME OwnerInv, StopInv, NEW r \in Runs,
         WorkerStep(r) \/ CatchupFails(r)
  PROVE  OwnerInv' /\ StopInv'
<1> USE DEF fileVars, dockerVars
<1>0. Keys \subseteq DOMAIN mem[r] BY DEF OwnerInv, Shape
<1>1. ASSUME NEW s \in Symbols, AppendBar(r, s) PROVE OwnerInv' /\ StopInv'
  BY <1>1, OutsideKeeps DEF AppendBar
<1>2. CASE CatchupEnds(r) /\ pc[r] = "catching"
  <2> DEFINE c == Named(r, "catchup")
             ok == AppendedAsExpected(r) /\ ~delivered
             m == [mem[r] EXCEPT !.rolling = Roll(r),
                                 !.created = mem[r].created \ {c}]
  <2>1. /\ m.owned = mem[r].owned /\ m.created = mem[r].created \ {c}
        /\ Keys \subseteq DOMAIN m
    BY <1>0 DEF Keys
  <2>2. /\ UNCHANGED <<lease, dirOf, evidence>> /\ running' = running \ {c}
        /\ pc[r] \in Working /\ "batch" \in Working
    BY <1>2 DEF CatchupEnds, Working
  <2>3. Go(r, "batch", m) \/ Go(r, "cleanup", mem[r])
    BY <1>2 DEF CatchupEnds, Step
  <2> HIDE DEF m, c, ok
  <2>4. Proceeds(r)
    <3>1. CASE Go(r, "batch", m) BY <2>1, <2>2, <3>1, GoProceeds
    <3>2. CASE Go(r, "cleanup", mem[r]) BY <1>0, <2>2, <3>2, GoProceeds
    <3> QED BY <2>3, <3>1, <3>2
  <2> QED BY <2>4, ProceedsKeepsOwner, ProceedsKeepsStop
<1>3. CASE CatchupFails(r) /\ pc[r] = "catching"
  <2>1. /\ UNCHANGED <<lease, dirOf, evidence>> /\ running' \subseteq running
        /\ pc[r] \in Working /\ Go(r, "cleanup", mem[r])
    BY <1>3 DEF CatchupFails, Working
  <2>2. Proceeds(r) BY <1>0, <2>1, GoProceeds
  <2> QED BY <2>2, ProceedsKeepsOwner, ProceedsKeepsStop
<1>4. CASE CatchupEnds(r) /\ pc[r] # "catching"
  BY <1>4, OutsideKeeps DEF CatchupEnds
<1>5. CASE CatchupFails(r) /\ pc[r] # "catching"
  BY <1>5, OutsideKeeps DEF CatchupFails
<1> QED BY <1>1, <1>2, <1>3, <1>4, <1>5 DEF WorkerStep

LEMMA NextKeeps == OwnerInv /\ StopInv /\ [Next]_vars => OwnerInv' /\ StopInv'
<1> SUFFICES ASSUME OwnerInv, StopInv, [Next]_vars PROVE OwnerInv' /\ StopInv'
  OBVIOUS
<1> USE DEF fileVars, dockerVars
<1>1. CASE UNCHANGED vars BY <1>1, OutsideKeeps DEF vars
<1>2. ASSUME NEW r \in Runs, RunStep(r) PROVE OwnerInv' /\ StopInv'
  <2>1. CASE Start(r) \/ MakeDirectory(r) \/ TakeLease(r)
    BY <2>1, StartKeeps, MakeDirectoryKeeps, TakeLeaseKeeps
  <2>2. CASE Cleanup(r) \/ Report(r) BY <2>2, EndingKeeps
  <2>3. CASE \/ PrepareSnapshots(r) \/ Creation(r) \/ Continuation(r) \/ SetGoal(r)
             \/ NextBatch(r) \/ Backup(r) \/ Serving(r)
    <3>1. Proceeds(r)
      BY <2>3, QuietSteps, ListingSteps DEF Creation, Continuation, Backup, Serving
    <3> QED BY <3>1, ProceedsKeepsOwner, ProceedsKeepsStop
  <2> QED BY <1>2, <2>1, <2>2, <2>3 DEF RunStep
<1>3. ASSUME NEW r \in Runs, WorkerStep(r) \/ CatchupFails(r)
      PROVE  OwnerInv' /\ StopInv'
  BY <1>3, CatchupKeeps
<1>4. ASSUME NEW r \in Runs, CommandFails(r) \/ HalfDone(r)
      PROVE  OwnerInv' /\ StopInv'
  BY <1>4, FailingSteps, ProceedsKeepsOwner, ProceedsKeepsStop
<1>5. ASSUME NEW r \in Runs, Kill(r) PROVE OwnerInv' /\ StopInv'
  BY <1>5, EndingKeeps
<1>6. ASSUME NEW c \in running, JobExpires(c) PROVE OwnerInv' /\ StopInv'
  BY <1>6, OutsideKeeps DEF JobExpires
<1>7. CASE ServeReports \/ ServeFails \/ Tick
  BY <1>7, OutsideKeeps DEF ServeReports, ServeFails, Tick
<1> QED BY <1>1, <1>2, <1>3, <1>4, <1>5, <1>6, <1>7 DEF Next

LEMMA ControllerInvariant == Spec => [](OwnerInv /\ StopInv)
BY InitOwner, InitStop, NextKeeps, PTL DEF Spec

\* However many executions of main() race, fail or are killed, one of them at
\* most ever commands the containers of an epoch: the create-only lease and
\* directories and the pinned failure chain suffice, without a lock.
THEOREM EpochHasOneOwner == Spec => []OneOwner
BY ControllerInvariant, OwnerIsUnique, PTL

\* After a reported failure nothing runs but the target database, Redis and a
\* container whose docker stop failed: _create_container lists a container
\* before it is started, and the disposable ones need no listing.
THEOREM FailureLeavesOnlyData == Spec => []FailureStopsWorkers
<1>1. OwnerInv /\ StopInv => FailureStopsWorkers BY DEF StopInv
<1> QED BY <1>1, ControllerInvariant, PTL

\* No step takes the target database or Redis down or removes their volumes: the
\* state a failed epoch is reviewed from is the state it failed in.
THEOREM ForensicsSurvive == Spec => ForensicsKept
<1> DEFINE Kept == /\ Data \intersect running \subseteq running'
                   /\ {"target", "redis"} \intersect assets \subseteq assets'
<1>1. [Next]_vars => [Kept]_vars
  <2> SUFFICES ASSUME Next PROVE Kept
    OBVIOUS
  <2> USE DEF dockerVars, Data, Target, Redis, Source, Clone, Serve, Volumes
  <2>1. ASSUME NEW r \in Runs, RunStep(r) PROVE Kept
    <3>1. CASE Start(r) \/ MakeDirectory(r) \/ TakeLease(r) \/ PrepareSnapshots(r)
               \/ SetGoal(r) \/ Report(r)
      BY <3>1 DEF Start, MakeDirectory, TakeLease, PrepareSnapshots, SetGoal, Report
    <3>2. CASE Creation(r)
      BY <3>2 DEF Creation, LegacyBefore, CreateAssets, CreateStore, Prepare, Seed,
                  DropSource
    <3>3. CASE Continuation(r)
      BY <3>3 DEF Continuation, AssertExisting, HistoryState, Repair, Rotate,
                  PostState
    <3>4. CASE NextBatch(r) BY <3>4 DEF NextBatch
    <3>5. CASE Backup(r)
      BY <3>5 DEF Backup, CreateRestoreVolume, Dump, RestoreClone, VerifyRestore,
                  RemoveClone
    <3>6. CASE Serving(r)
      BY <3>6 DEF Serving, Qualify, StartServe, AwaitStatus, StopServe,
                  RestartServe, PollRestart, WaitTimesOut, CompareAfter, SaveReceipt
    <3>7. CASE Cleanup(r) BY <3>7 DEF Cleanup, Candidates
    <3> QED BY <2>1, <3>1, <3>2, <3>3, <3>4, <3>5, <3>6, <3>7 DEF RunStep
  <2>2. ASSUME NEW r \in Runs, WorkerStep(r) \/ CatchupFails(r) PROVE Kept
    BY <2>2 DEF WorkerStep, AppendBar, CatchupEnds, CatchupFails, Named
  <2>3. ASSUME NEW r \in Runs, CommandFails(r) PROVE Kept
    <3>1. running \subseteq running' BY <2>3 DEF CommandFails
    <3>2. assets \subseteq assets' BY <2>3 DEF CommandFails, AssetsLeft
    <3> QED BY <3>1, <3>2
  <2>4. ASSUME NEW r \in Runs, HalfDone(r) \/ Kill(r) PROVE Kept
    BY <2>4 DEF HalfDone, Kill
  <2>5. ASSUME NEW c \in running, JobExpires(c) PROVE Kept
    BY <2>5 DEF JobExpires
  <2>6. CASE ServeReports \/ ServeFails \/ Tick
    BY <2>6 DEF ServeReports, ServeFails, Tick
  <2> QED BY <2>1, <2>2, <2>3, <2>4, <2>5, <2>6 DEF Next
<1>2. Spec => [][Kept]_vars BY <1>1, PTL DEF Spec
<1> QED BY <1>2 DEF ForensicsKept

-----------------------------------------------------------------------------
(* Least and greatest members, and the sum of a batch                      *)

LEMMA LeastNatural ==
  ASSUME NEW T, T \subseteq Nat, T # {}
  PROVE  \E x \in T : \A y \in T : x <= y
<1> DEFINE Less == OpToRel(<, Nat)
<1>1. IsWellFoundedOn(Less, Nat)
  BY NatLessThanWellFounded
<1>2. \E x \in T : \A y \in T : ~ (<<y, x>> \in Less)
  <2> HIDE DEF Less
  <2> QED BY <1>1, WFMin
<1>3. PICK x \in T : \A y \in T : ~ (<<y, x>> \in Less)
  BY <1>2
<1>4. \A y \in T : x <= y
  <2> TAKE y \in T
  <2>1. x \in Nat /\ y \in Nat
    OBVIOUS
  <2>2. ~ (<<y, x>> \in {ss \in Nat \X Nat : ss[1] < ss[2]})
    BY <1>3 DEF OpToRel
  <2> QED BY <2>1, <2>2
<1> QED BY <1>4

LEMMA GreatestNatural ==
  ASSUME NEW B \in Nat, NEW T, T \subseteq 0..B, T # {}
  PROVE  Max(T) \in T /\ \A y \in T : y <= Max(T)
<1> DEFINE U == {B - y : y \in T}
<1>1. U \subseteq Nat /\ U # {}
  <2>1. \A y \in T : B - y \in Nat
    <3> TAKE y \in T
    <3>1. y \in 0..B
      OBVIOUS
    <3> QED BY <3>1
  <2>2. PICK y \in T : TRUE
    OBVIOUS
  <2>3. B - y \in U
    BY <2>2
  <2> QED BY <2>1, <2>3
<1>2. PICK u \in U : \A v \in U : u <= v
  <2> HIDE DEF U
  <2> QED BY <1>1, LeastNatural
<1>3. PICK x \in T : u = B - x
  BY <1>2
<1>4. \A y \in T : x >= y
  <2> TAKE y \in T
  <2>1. x \in 0..B /\ y \in 0..B
    OBVIOUS
  <2>2. B - x <= B - y
    BY <1>2, <1>3
  <2> QED BY <2>1, <2>2
<1>5. Max(T) \in T /\ \A y \in T : Max(T) >= y
  BY <1>4 DEF Max
<1>6. \A y \in T : y \in Int
  <2> TAKE y \in T
  <2>1. y \in 0..B
    OBVIOUS
  <2> QED BY <2>1
<1> QED BY <1>5, <1>6

LEMMA GreaterOfTwo ==
  ASSUME NEW x \in Int, NEW y \in Int
  PROVE  Max({x, y}) = IF x >= y THEN x ELSE y
<1>1. \E z \in {x, y} : \A v \in {x, y} : z >= v
  OBVIOUS
<1>2. Max({x, y}) \in {x, y} /\ \A v \in {x, y} : Max({x, y}) >= v
  BY <1>1 DEF Max
<1> QED BY <1>2

LEMMA EarliestIsLeast ==
  ASSUME NEW a \in Anchors
  PROVE  /\ Earliest(a) \in Minutes /\ \A s \in Symbols : Earliest(a) <= a[s]
         /\ \E s \in Symbols : Earliest(a) = a[s]
<1> DEFINE T == {a[s] : s \in Symbols}
<1>1. T \subseteq Nat /\ T # {}
  BY ControllerAssumption DEF ControllerAssumption, Anchors, Minutes
<1>2. \E x \in T : \A y \in T : x <= y
  <2> HIDE DEF T
  <2> QED BY <1>1, LeastNatural
<1>3. Min(T) \in T /\ \A y \in T : Min(T) <= y
  BY <1>2 DEF Min
<1>4. Earliest(a) = Min(T)
  BY DEF Earliest
<1> QED BY <1>3, <1>4 DEF Anchors

\* The recursion by which MapThenSumSet adds the weights w of a set of symbols.
Pick(t) == CHOOSE x \in t : TRUE
Adds(w, g) == g = [t \in SUBSET Symbols |->
                     IF t = {} THEN 0 ELSE w[Pick(t)] + g[t \ {Pick(t)}]]
AddsUpTo(n, w, g) ==
  /\ DOMAIN g = SUBSET Symbols
  /\ \A t \in SUBSET Symbols : Cardinality(t) <= n =>
       g[t] = IF t = {} THEN 0 ELSE w[Pick(t)] + g[t \ {Pick(t)}]

LEMMA Picked ==
  ASSUME NEW t \in SUBSET Symbols, t # {}
  PROVE  /\ Pick(t) \in t /\ t \ {Pick(t)} \in SUBSET Symbols
         /\ Cardinality(t) \in Nat /\ Cardinality(t \ {Pick(t)}) = Cardinality(t) - 1
<1>1. Pick(t) \in t
  BY DEF Pick
<1>2. IsFiniteSet(Symbols)
  BY ControllerAssumption DEF ControllerAssumption
<1>3. IsFiniteSet(t)
  BY <1>2, FS_Subset
<1> QED BY <1>1, <1>3, FS_RemoveElement, FS_CardinalityType

LEMMA SizeOf ==
  ASSUME NEW t \in SUBSET Symbols
  PROVE  /\ Cardinality(t) \in Nat /\ Cardinality(t) <= Cardinality(Symbols)
         /\ Cardinality(t) = 0 <=> t = {}
<1>1. IsFiniteSet(Symbols)
  BY ControllerAssumption DEF ControllerAssumption
<1>2. IsFiniteSet(t)
  BY <1>1, FS_Subset
<1> QED BY <1>1, <1>2, FS_Subset, FS_CardinalityType, FS_EmptySet

LEMMA SumGrows ==
  ASSUME NEW w, NEW n \in Nat, NEW g, AddsUpTo(n, w, g)
  PROVE  \E h : AddsUpTo(n + 1, w, h)
<1> DEFINE h == [t \in SUBSET Symbols |->
                   IF Cardinality(t) = n + 1 THEN w[Pick(t)] + g[t \ {Pick(t)}]
                   ELSE g[t]]
<1>1. ASSUME NEW t \in SUBSET Symbols, Cardinality(t) <= n + 1
      PROVE  h[t] = IF t = {} THEN 0 ELSE w[Pick(t)] + h[t \ {Pick(t)}]
  <2>1. CASE t = {}
    BY <1>1, <2>1, SizeOf DEF AddsUpTo
  <2>2. CASE t # {}
    <3>1. /\ t \ {Pick(t)} \in SUBSET Symbols /\ Cardinality(t) \in Nat
          /\ Cardinality(t \ {Pick(t)}) = Cardinality(t) - 1
      BY <2>2, Picked
    <3>2. h[t \ {Pick(t)}] = g[t \ {Pick(t)}]
      BY <1>1, <3>1
    <3>3. h[t] = w[Pick(t)] + g[t \ {Pick(t)}]
      BY <1>1, <2>2, <3>1 DEF AddsUpTo
    <3> QED BY <2>2, <3>2, <3>3
  <2> QED BY <2>1, <2>2
<1>2. DOMAIN h = SUBSET Symbols
  OBVIOUS
<1> HIDE DEF h
<1> QED BY <1>1, <1>2 DEF AddsUpTo

LEMMA SumExists == ASSUME NEW w PROVE \E g : Adds(w, g)
<1> DEFINE Bad == {n \in Nat : ~ \E g : AddsUpTo(n, w, g)}
<1>1. Bad = {}
  <2> SUFFICES ASSUME Bad # {} PROVE FALSE
    OBVIOUS
  <2>1. PICK n \in Bad : \A m \in Bad : n <= m
    BY LeastNatural
  <2>2. n # 0
    <3> DEFINE z == [t \in SUBSET Symbols |-> 0]
    <3>1. AddsUpTo(0, w, z)
      BY SizeOf DEF AddsUpTo
    <3> QED BY <3>1
  <2>3. n - 1 \in Nat /\ n - 1 \notin Bad
    BY <2>1, <2>2
  <2>4. PICK g : AddsUpTo(n - 1, w, g)
    BY <2>3
  <2>5. \E h : AddsUpTo((n - 1) + 1, w, h)
    BY <2>3, <2>4, SumGrows
  <2>6. (n - 1) + 1 = n
    BY <2>1
  <2> QED BY <2>5, <2>6
<1>2. Cardinality(Symbols) \in Nat
  BY SizeOf
<1>3. PICK g : AddsUpTo(Cardinality(Symbols), w, g)
  BY <1>1, <1>2
<1>4. \A t \in SUBSET Symbols :
        g[t] = IF t = {} THEN 0 ELSE w[Pick(t)] + g[t \ {Pick(t)}]
  BY <1>3, SizeOf DEF AddsUpTo
<1>5. Adds(w, [t \in SUBSET Symbols |-> g[t]])
  <2> DEFINE f == [t \in SUBSET Symbols |-> g[t]]
  <2>1. \A t \in SUBSET Symbols :
          f[t] = IF t = {} THEN 0 ELSE w[Pick(t)] + f[t \ {Pick(t)}]
    BY <1>4
  <2>2. f = [t \in SUBSET Symbols |-> f[t]]
    OBVIOUS
  <2>3. Adds(w, f)
    <3> HIDE DEF f
    <3>1. f = [t \in SUBSET Symbols |->
                 IF t = {} THEN 0 ELSE w[Pick(t)] + f[t \ {Pick(t)}]]
      BY <2>1, <2>2
    <3> QED BY <3>1 DEF Adds
  <2> QED BY <2>3
<1> QED BY <1>5

\* Weights of at most one add up to at most the number of symbols.
LEMMA SumIsSmall ==
  ASSUME NEW w \in [Symbols -> {0, 1}], NEW g, Adds(w, g)
  PROVE  g[Symbols] \in Nat /\ g[Symbols] <= Cardinality(Symbols)
<1> DEFINE Small(t) == g[t] \in Nat /\ g[t] <= Cardinality(t)
           Bad == {n \in Nat : \E t \in SUBSET Symbols : Cardinality(t) = n /\ ~Small(t)}
<1>1. Bad = {}
  <2> SUFFICES ASSUME Bad # {} PROVE FALSE
    OBVIOUS
  <2>1. PICK n \in Bad : \A m \in Bad : n <= m
    <3> HIDE DEF Small
    <3> QED BY LeastNatural
  <2>2. PICK t \in SUBSET Symbols : Cardinality(t) = n /\ ~Small(t)
    BY <2>1
  <2>3. g[t] = IF t = {} THEN 0 ELSE w[Pick(t)] + g[t \ {Pick(t)}]
    BY DEF Adds
  <2>4. t # {}
    BY <2>2, <2>3, SizeOf
  <2>5. /\ Pick(t) \in Symbols /\ t \ {Pick(t)} \in SUBSET Symbols
        /\ n \in Nat /\ Cardinality(t \ {Pick(t)}) = n - 1
    BY <2>2, <2>4, Picked
  <2>6. n - 1 \notin Bad /\ n - 1 \in Nat
    BY <2>1, <2>5, SizeOf
  <2>7. Small(t \ {Pick(t)})
    <3> HIDE DEF Small
    <3> QED BY <2>5, <2>6
  <2> QED BY <2>2, <2>3, <2>4, <2>5, <2>7
<1>2. Cardinality(Symbols) \in Nat
  BY SizeOf
<1>3. Small(Symbols)
  <2> HIDE DEF Small
  <2> QED BY <1>1, <1>2
<1> QED BY <1>3

\* A batch that ends one minute after the earliest anchor asks for no more than a
\* bar of each symbol.
LEMMA OneMinuteFits ==
  ASSUME NEW a \in Anchors
  PROVE  /\ Required(a, Earliest(a) + 1) \in Nat
         /\ Required(a, Earliest(a) + 1) <= Cardinality(Symbols)
<1> DEFINE e == Earliest(a) + 1
           w == [s \in Symbols |-> IF e > a[s] THEN e - a[s] ELSE 0]
<1>1. Earliest(a) \in Nat /\ \A s \in Symbols : a[s] \in Nat /\ Earliest(a) <= a[s]
  BY EarliestIsLeast, ControllerAssumption DEF ControllerAssumption, Anchors, Minutes
<1>2. w \in [Symbols -> {0, 1}]
  BY <1>1
<1>3. Required(a, e) = (CHOOSE g : Adds(w, g))[Symbols]
  BY DEF Required, MapThenSumSet, MapThenFoldSet, Adds, Pick
<1>4. Adds(w, CHOOSE g : Adds(w, g))
  <2> HIDE DEF w
  <2> QED BY SumExists
<1> HIDE DEF w
<1> QED BY <1>2, <1>3, <1>4, SumIsSmall
-----------------------------------------------------------------------------
(* The account a run keeps of the history                                  *)

Creating == {"legacy", "assets", "source", "target", "redis", "prepare", "seed",
             "unsource"}
BackupSteps == {"dump", "clone", "verify", "unclone"}
ServeSteps == {"await", "stop", "start", "restart", "after", "save"}
BeforeServe == Working \ ServeSteps

\* Where a run is: before its first backup, in the gap's catch-up or the backup
\* that follows it, or in the final catch-up.
Opening(r) == mem[r].last = 0 /\ mem[r].round = 0
Gap(r) == mem[r].last = 0 /\ mem[r].round = IF Attempt(r) = 0 THEN 0 ELSE 1
Tailing(r) == mem[r].last # 0 /\ mem[r].round = IF Attempt(r) \in {0, 5} THEN 1 ELSE 2

\* The backup of everything the run will have published from: the second one of
\* a continuation, the only one of a new epoch.
Second(r) == IF Attempt(r) = 5 THEN Tailing(r) ELSE Gap(r)

StageInv(r) ==
  /\ pc[r] \in {"dir", "lease"} => Opening(r)
  /\ pc[r] = "passed" => mem[r].owned
  /\ pc[r] \in Creating => Attempt(r) = 0 /\ Opening(r)
  /\ pc[r] = "snapshots" => Opening(r)
  /\ pc[r] \in {"existing", "repair"} => Attempt(r) # 0 /\ Opening(r)
  /\ pc[r] = "state" => Attempt(r) = 5 /\ Opening(r)
  /\ pc[r] = "rotate" => Attempt(r) \in 1..4 /\ Gap(r)
  /\ pc[r] = "goal" => Attempt(r) # 0 /\ Gap(r)
  /\ pc[r] \in {"batch", "catching"} => Gap(r) \/ Tailing(r)
  /\ pc[r] = "volume" => Attempt(r) # 0 /\ Second(r)
  /\ pc[r] \in BackupSteps => Opening(r) \/ Second(r)
  /\ pc[r] = "final" => /\ mem[r].last = 0
                        /\ mem[r].round = IF Attempt(r) \in {0, 5} THEN 1 ELSE 2
  /\ pc[r] = "post" => Attempt(r) = 5 /\ Tailing(r)
  /\ pc[r] \in {"qualify", "serve"} \union ServeSteps
       => mem[r].last # 0 /\ mem[r].round = IF Attempt(r) = 0 THEN 1 ELSE 2

\* The host's history and password before anyone owns the epoch, and the attempt
\* the evidence admits.
HostInv ==
  /\ \A r \in Runs : mem[r].owned =>
       IF Attempt(r) = 0 THEN evidence = {} ELSE evidence = 0..(Attempt(r) - 1)
  /\ evidence = {} => cred = 0
  /\ 4 \in evidence => cred = 4
  /\ lease = NoRun => evidence = {}
  /\ (\A r \in Runs : ~mem[r].owned) =>
        /\ status.state = "none" /\ ~delivered
        /\ evidence # {} /\ 4 \notin evidence => hist = SeedAnchors

\* Once rotate-history has run, the role has the password of the attempt.
PasswordInv(r) ==
  /\ pc[r] \in {"goal", "volume", "final"} /\ Attempt(r) \in 1..4 => cred = Attempt(r)
  /\ pc[r] \in {"batch", "catching"} /\ Attempt(r) \in 1..4 => cred = Attempt(r)
  /\ pc[r] \in BackupSteps /\ Attempt(r) \in 1..4 /\ Second(r) => cred = Attempt(r)

RollingSteps == BetweenWorkers \union {"rotate", "unsource", "repair"}

RowsInv(r) ==
  /\ Attempt(r) = 0 => \A s, t \in Symbols : mem[r].rolling[s] = mem[r].rolling[t]
  /\ pc[r] \in RollingSteps => mem[r].rolling = hist
  /\ pc[r] \in {"snapshots", "existing"} /\ Attempt(r) \in 1..4
       => mem[r].rolling = hist
  /\ pc[r] \in Working \ {"catching"} => Named(r, "catchup") \notin running
  /\ pc[r] = "catching" =>
       /\ Required(mem[r].rolling, mem[r].end) <= AppendLimit
       /\ Earliest(mem[r].rolling) < mem[r].end /\ mem[r].end <= Goal(r)
       /\ \A s \in Symbols : /\ mem[r].rolling[s] <= hist[s]
                             /\ \/ hist[s] <= mem[r].rolling[s]
                                \/ hist[s] <= mem[r].end

\* The loop the run left reached its goal.
Filled(r) == \A s \in Symbols : mem[r].rolling[s] >= Goal(r)
Backed(r) == \A s \in Symbols :
  mem[r].verified[s] >= IF Attempt(r) = 5 THEN mem[r].last ELSE mem[r].goal

FilledInv(r) ==
  /\ pc[r] \in {"volume", "post", "final", "qualify"} => Filled(r)
  /\ pc[r] \in BackupSteps /\ Second(r) => Filled(r)
  /\ pc[r] = "unclone" /\ Second(r) => Backed(r)
  /\ pc[r] \in {"final", "batch", "catching", "post"} /\ Attempt(r) # 5
       /\ (pc[r] = "final" \/ Tailing(r)) => Backed(r)
  /\ pc[r] \in {"qualify", "serve"} \union ServeSteps => Backed(r)

BackedInv(r) ==
  FilledInv(r) /\ (mem[r].owned /\ delivered
                    => Backed(r) /\ pc[r] \notin BeforeServe \ {"serve"})

LiveInv(r) ==
  /\ pc[r] \in BeforeServe => status.state = "none" /\ Serve \notin running
  /\ mem[r].owned /\ Serve \in running => Backed(r)
  /\ pc[r] \in ServeSteps => Serve \in exists
  /\ mem[r].owned /\ status.state = "RUNNING" => status.mark >= mem[r].last
  /\ pc[r] \in {"stop", "start", "restart"} => mem[r].first.mark >= mem[r].last
  /\ pc[r] \in {"after", "save", "passed"} =>
       /\ mem[r].seen.mark > mem[r].last
       /\ \A s \in Symbols : hist[s] >= mem[r].seen.mark

ClockInv ==
  /\ now >= 1 /\ \A s \in Symbols : hist[s] <= now
  /\ \A r \in Runs : mem[r].end <= now /\ mem[r].goal <= now /\ mem[r].last <= now
  /\ status.state = "RUNNING" => \A s \in Symbols : hist[s] >= status.mark

RunInv(r) == StageInv(r) /\ PasswordInv(r) /\ RowsInv(r) /\ BackedInv(r) /\ LiveInv(r)

Account == TypeOK /\ HostInv /\ ClockInv /\ \A r \in Runs : RunInv(r)

-----------------------------------------------------------------------------
(* Types                                                                   *)

Steps == Working \union Ended \union {"idle", "dir", "lease", "cleanup", "report"}
Memory == [attempt : Attempts, owned : BOOLEAN,
           created : SUBSET Containers, goal : Minutes,
           last : Minutes, end : Minutes, batch : 0..MaxBatches,
           round : 0..2, rolling : Anchors, base : Anchors,
           dump : Anchors, verified : Anchors, first : Statuses,
           seen : Statuses, left : SUBSET Containers]
RunTypes == pc \in [Runs -> Steps] /\ mem \in [Runs -> Memory]
FileTypes == /\ lease \in Runs \union {NoRun, Past}
             /\ dirOf \in [1..5 -> Runs \union {NoRun, Past}] /\ evidence \subseteq 0..4
DockerTypes == /\ exists \subseteq Containers /\ running \subseteq exists
               /\ assets \subseteq Volumes
RowTypes == hist \in Anchors /\ delivered \in BOOLEAN /\ cred \in Attempts
ServeTypes == status \in Statuses /\ changed \in BOOLEAN /\ serveNo \in 0..2
ClockTypes == now \in Minutes /\ faults \in 0..MaxFaults

LEMMA TypeParts ==
  TypeOK <=> /\ RunTypes /\ FileTypes /\ DockerTypes /\ RowTypes /\ ServeTypes
             /\ ClockTypes
BY DEF TypeOK, RunTypes, FileTypes, DockerTypes, RowTypes, ServeTypes, ClockTypes,
       Steps, Memory

LEMMA TypePartsNext ==
  ASSUME RunTypes', FileTypes', DockerTypes', RowTypes', ServeTypes', ClockTypes'
  PROVE  TypeOK'
BY TypeParts DEF TypeOK, RunTypes, FileTypes, DockerTypes, RowTypes, ServeTypes, ClockTypes,
       Steps, Memory

LEMMA PartsUnchanged ==
  /\ FileTypes /\ UNCHANGED fileVars => FileTypes'
  /\ DockerTypes /\ UNCHANGED dockerVars => DockerTypes'
  /\ RowTypes /\ UNCHANGED dbVars => RowTypes'
  /\ ServeTypes /\ UNCHANGED serveVars => ServeTypes'
  /\ ClockTypes /\ UNCHANGED envVars => ClockTypes'
BY DEF FileTypes, DockerTypes, RowTypes, ServeTypes, ClockTypes, fileVars, dockerVars,
       dbVars, serveVars, envVars

LEMMA Values ==
  /\ 0 \in Minutes /\ 1 \in Minutes /\ Minutes \subseteq Nat
  /\ SeedAnchors \in Anchors /\ Unseeded \in Anchors /\ NoStatus \in Statuses
  /\ MaxMinute \in Nat /\ MaxFaults \in Nat /\ MaxBatches \in Nat /\ AppendLimit \in Nat
  /\ Data \union {Source, Clone, Serve, OldWorker} \subseteq Containers
  /\ \A x \in WorkerModes \union {"init"}, a \in Attempts : <<x, a>> \in Containers
BY ControllerAssumption DEF ControllerAssumption, Minutes, SeedAnchors, Unseeded, Anchors,
   NoStatus, Statuses, Containers, Data

LEMMA NewRunType == NewRun \in Memory
<1>1. 0 \in Attempts /\ 0 \in 0..MaxBatches /\ 0 \in 0..2
  BY Values DEF Attempts
<1>2. {} \in SUBSET Containers
  OBVIOUS
<1> HIDE DEF NoStatus, Unseeded, Anchors, Minutes, Statuses, Containers, Attempts
<1> QED BY <1>1, <1>2, Values DEF NewRun, Memory

LEMMA GoMoves ==
  ASSUME RunTypes, NEW r \in Runs, NEW p, NEW m, Go(r, p, m)
  PROVE  /\ pc'[r] = p /\ mem'[r] = m
         /\ \A x \in Runs : x # r => pc'[x] = pc[x] /\ mem'[x] = mem[x]
         /\ p \in Steps /\ m \in Memory => RunTypes'
BY DEF RunTypes, Go

LEMMA StepTypes ==
  ASSUME RunTypes, NEW r \in Runs, NEW from, NEW ok, NEW to \in Steps, NEW m,
         m \in Memory, Step(r, from, ok, to, m)
  PROVE  RunTypes'
<1>1. mem[r] \in Memory /\ "cleanup" \in Steps
  BY DEF RunTypes, Steps
<1>2. CASE ok BY <1>2, GoMoves DEF Step
<1>3. CASE ~ok BY <1>1, <1>3, GoMoves DEF Step
<1> QED BY <1>2, <1>3

\* Steps of a run that change nothing but the run.
LEMMA LonelyTypes ==
  ASSUME Account, NEW r \in Runs,
         \/ Start(r) \/ PrepareSnapshots(r) \/ LegacyBefore(r) \/ Prepare(r)
         \/ AssertExisting(r) \/ HistoryState(r) \/ SetGoal(r) \/ Dump(r)
         \/ VerifyRestore(r) \/ PostState(r) \/ PollRestart(r) \/ WaitTimesOut(r)
         \/ CompareAfter(r) \/ SaveReceipt(r) \/ Report(r)
  PROVE  TypeOK'
<1>0. /\ RunTypes /\ FileTypes /\ DockerTypes /\ RowTypes /\ ServeTypes /\ ClockTypes
      /\ mem[r] \in Memory /\ now \in Minutes /\ hist \in Anchors /\ status \in Statuses
  BY TypeParts DEF Account, RunTypes, RowTypes, ServeTypes, ClockTypes
<1>1. UNCHANGED <<fileVars, dockerVars, dbVars, serveVars, envVars>>
  BY DEF Start, PrepareSnapshots, LegacyBefore, Prepare, AssertExisting, HistoryState,
     SetGoal, Dump, VerifyRestore, PostState, PollRestart, WaitTimesOut, CompareAfter,
     SaveReceipt, Report
<1> SUFFICES RunTypes'
  BY <1>0, <1>1, PartsUnchanged, TypePartsNext
<1> USE <1>0, StepTypes DEF Steps, Working, WorkerModes, Ended, Phase
<1>2. CASE Start(r)
  <2>1. PICK a \in Attempts, goal \in 1..now, p \in {"dir", "refused"} :
          Go(r, p, [NewRun EXCEPT !.attempt = a, !.goal = goal])
    BY <1>2 DEF Start
  <2>2. goal \in Minutes
    BY Values, SMT DEF Minutes
  <2>3. [NewRun EXCEPT !.attempt = a, !.goal = goal] \in Memory
    BY <2>2, NewRunType DEF Memory
  <2> QED BY <2>1, <2>3, GoMoves
<1>3. CASE PrepareSnapshots(r) BY <1>3 DEF PrepareSnapshots
<1>4. CASE LegacyBefore(r) BY <1>4 DEF LegacyBefore
<1>5. CASE Prepare(r) BY <1>5 DEF Prepare
<1>6. CASE AssertExisting(r) BY <1>6 DEF AssertExisting
<1>7. CASE HistoryState(r)
  <2>1. [mem[r] EXCEPT !.rolling = hist] \in Memory BY DEF Memory
  <2> QED BY <1>7, <2>1 DEF HistoryState
<1>8. CASE SetGoal(r)
  <2>1. [mem[r] EXCEPT !.goal = now] \in Memory
        /\ [mem[r] EXCEPT !.last = now, !.batch = 0] \in Memory
    <3>1. 0 \in 0..MaxBatches BY Values
    <3> QED BY <3>1 DEF Memory
  <2> QED BY <1>8, <2>1 DEF SetGoal
<1>9. CASE Dump(r)
  <2>1. [mem[r] EXCEPT !.dump = hist] \in Memory BY DEF Memory
  <2> QED BY <1>9, <2>1 DEF Dump
<1>10. CASE VerifyRestore(r)
  <2>1. [mem[r] EXCEPT !.verified = mem[r].dump] \in Memory BY DEF Memory
  <2> QED BY <1>10, <2>1 DEF VerifyRestore
<1>11. CASE PostState(r) BY <1>11 DEF PostState
<1>12. CASE PollRestart(r)
  <2>1. [mem[r] EXCEPT !.seen = status] \in Memory BY DEF Memory
  <2>2. CASE Go(r, "cleanup", mem[r]) BY <2>2, GoMoves
  <2> QED BY <1>12, <2>1, <2>2 DEF PollRestart
<1>13. CASE WaitTimesOut(r) BY <1>13 DEF WaitTimesOut
<1>14. CASE CompareAfter(r) BY <1>14 DEF CompareAfter
<1>15. CASE SaveReceipt(r) BY <1>15 DEF SaveReceipt
<1>16. CASE Report(r)
  <2>1. Go(r, "failed", mem[r])
    BY <1>16 DEF Report
  <2> QED BY <2>1, GoMoves
<1> QED BY <1>2, <1>3, <1>4, <1>5, <1>6, <1>7, <1>8, <1>9, <1>10, <1>11, <1>12,
           <1>13, <1>14, <1>15, <1>16

\* Steps of a run with an effect on the files, the containers or the database.
LEMMA ActingTypes ==
  ASSUME Account, NEW r \in Runs,
         \/ MakeDirectory(r) \/ TakeLease(r) \/ CreateAssets(r) \/ CreateStore(r)
         \/ Seed(r) \/ DropSource(r) \/ Repair(r) \/ Rotate(r) \/ CreateRestoreVolume(r)
         \/ RestoreClone(r) \/ Qualify(r) \/ StartServe(r) \/ AwaitStatus(r)
         \/ StopServe(r) \/ RestartServe(r)
  PROVE  TypeOK'
<1>0. /\ RunTypes /\ FileTypes /\ DockerTypes /\ RowTypes /\ ServeTypes /\ ClockTypes
      /\ mem[r] \in Memory /\ now \in Minutes /\ hist \in Anchors /\ status \in Statuses
      /\ mem[r].attempt \in Attempts /\ mem[r].created \subseteq Containers
  BY TypeParts DEF Account, RunTypes, RowTypes, ServeTypes, ClockTypes, Memory
<1> USE <1>0, StepTypes, PartsUnchanged
    DEF Steps, Working, WorkerModes, Ended, Phase
<1>1. CASE MakeDirectory(r)
  <2>1. \E p \in Steps, m \in Memory : Go(r, p, m)
    <3>1. [mem[r] EXCEPT !.owned = TRUE, !.rolling = SeedAnchors] \in Memory
      BY Values DEF Memory
    <3> QED BY <1>1, <3>1 DEF MakeDirectory
  <2>2. FileTypes' BY <1>1 DEF MakeDirectory, FileTypes, Attempt, Attempts
  <2>3. UNCHANGED <<dockerVars, dbVars, serveVars, envVars>> BY <1>1 DEF MakeDirectory
  <2> QED BY <2>1, <2>2, <2>3, GoMoves, TypePartsNext
<1>2. CASE TakeLease(r)
  <2>1. \E p \in Steps, m \in Memory : Go(r, p, m)
    <3>1. [mem[r] EXCEPT !.owned = TRUE] \in Memory BY DEF Memory
    <3> QED BY <1>2, <3>1 DEF TakeLease
  <2>2. FileTypes' BY <1>2 DEF TakeLease, FileTypes
  <2>3. UNCHANGED <<dockerVars, dbVars, serveVars, envVars>> BY <1>2 DEF TakeLease
  <2> QED BY <2>1, <2>2, <2>3, GoMoves, TypePartsNext
<1>3. CASE CreateAssets(r) \/ CreateRestoreVolume(r) \/ Repair(r)
  <2>1. RunTypes' BY <1>3 DEF CreateAssets, CreateRestoreVolume, Repair
  <2>2. DockerTypes'
    BY <1>3 DEF CreateAssets, CreateRestoreVolume, Repair, DockerTypes, Volumes
  <2>3. UNCHANGED <<fileVars, dbVars, serveVars, envVars>>
    BY <1>3 DEF CreateAssets, CreateRestoreVolume, Repair
  <2> QED BY <2>1, <2>2, <2>3, TypePartsNext
<1>4. CASE CreateStore(r)
  <2>1. PICK s \in {<<"source", Source, "target">>, <<"target", Target, "redis">>,
                    <<"redis", Redis, "prepare">>} :
          /\ Step(r, s[1], Free(s[2]), s[3],
                  [mem[r] EXCEPT !.created = @ \union {s[2]}])
          /\ exists' = exists \union {s[2]}
          /\ running' = IF Free(s[2]) THEN running \union {s[2]} ELSE running
          /\ UNCHANGED <<fileVars, assets, dbVars, serveVars, envVars>>
    BY <1>4 DEF CreateStore
  <2>2. s[2] \in Containers /\ s[3] \in Steps BY Values DEF Data
  <2>3. [mem[r] EXCEPT !.created = @ \union {s[2]}] \in Memory BY <2>2 DEF Memory
  <2>4. DockerTypes' BY <2>1, <2>2 DEF DockerTypes
  <2> QED BY <2>1, <2>2, <2>3, <2>4, TypePartsNext
<1>5. CASE Seed(r)
  <2>1. [mem[r] EXCEPT !.rolling = SeedAnchors] \in Memory BY Values DEF Memory
  <2>2. RowTypes' BY <1>5, Values DEF Seed, RowTypes
  <2> QED BY <1>5, <2>1, <2>2, TypePartsNext DEF Seed
<1>6. CASE DropSource(r)
  <2>1. [mem[r] EXCEPT !.created = @ \ {Source}] \in Memory BY DEF Memory
  <2>2. DockerTypes' BY <1>6 DEF DropSource, DockerTypes
  <2> QED BY <1>6, <2>1, <2>2, TypePartsNext DEF DropSource
<1>7. CASE Rotate(r)
  <2>1. RowTypes' BY <1>7 DEF Rotate, RowTypes, Attempt
  <2> QED BY <1>7, <2>1, TypePartsNext DEF Rotate
<1>8. CASE RestoreClone(r)
  <2>1. [mem[r] EXCEPT !.created = @ \union {Clone}] \in Memory BY Values DEF Memory
  <2>2. DockerTypes' BY <1>8, Values DEF RestoreClone, DockerTypes
  <2> QED BY <1>8, <2>1, <2>2, TypePartsNext DEF RestoreClone
<1>9. CASE Qualify(r)
  <2>1. RowTypes' BY <1>9 DEF Qualify, RowTypes, Anchors
  <2> QED BY <1>9, <2>1, TypePartsNext DEF Qualify
<1>10. CASE StartServe(r)
  <2>1. [mem[r] EXCEPT !.created = @ \union {Serve}] \in Memory BY Values DEF Memory
  <2>2. DockerTypes' BY <1>10, Values DEF StartServe, DockerTypes
  <2>3. ServeTypes' BY <1>10 DEF StartServe, ServeTypes
  <2> QED BY <1>10, <2>1, <2>2, <2>3, TypePartsNext DEF StartServe
<1>11. CASE AwaitStatus(r)
  <2>1. [mem[r] EXCEPT !.first = status] \in Memory BY DEF Memory
  <2>2. ServeTypes' BY <1>11 DEF AwaitStatus, ServeTypes
  <2> QED BY <1>11, <2>1, <2>2, TypePartsNext DEF AwaitStatus
<1>12. CASE StopServe(r)
  <2>1. DockerTypes' BY <1>12 DEF StopServe, DockerTypes
  <2> QED BY <1>12, <2>1, TypePartsNext DEF StopServe
<1>13. CASE RestartServe(r)
  <2>1. Serve \in exists
    BY <1>13 DEF RestartServe, Step, Account, RunInv, LiveInv, ServeSteps
  <2>2. DockerTypes' BY <1>13, <2>1 DEF RestartServe, DockerTypes
  <2>3. ServeTypes' BY <1>13 DEF RestartServe, ServeTypes
  <2> QED BY <1>13, <2>2, <2>3, TypePartsNext DEF RestartServe
<1> QED BY <1>1, <1>2, <1>3, <1>4, <1>5, <1>6, <1>7, <1>8, <1>9, <1>10, <1>11, <1>12,
           <1>13

\* The end catchup_end_exclusive_ms chooses is one of the ends it may choose.
LEMMA ChosenEnd ==
  ASSUME NEW a \in Anchors, NEW g \in Minutes, BatchEnds(a, g) # {}
  PROVE  /\ Max(BatchEnds(a, g)) \in BatchEnds(a, g)
         /\ Max(BatchEnds(a, g)) \in Minutes
         /\ Earliest(a) < Max(BatchEnds(a, g)) /\ Max(BatchEnds(a, g)) <= g
         /\ Required(a, Max(BatchEnds(a, g))) <= AppendLimit
<1>1. Earliest(a) \in 0..MaxMinute /\ g \in 0..MaxMinute /\ MaxMinute \in Nat
  BY EarliestIsLeast, Values DEF Minutes
<1>2. \A e \in BatchEnds(a, g) : /\ e \in Int /\ Earliest(a) < e /\ e <= g
                                 /\ Required(a, e) <= AppendLimit
  BY <1>1 DEF BatchEnds
<1>3. \A e \in BatchEnds(a, g) : e \in 0..MaxMinute
  BY <1>1, <1>2
<1>4. Max(BatchEnds(a, g)) \in BatchEnds(a, g)
  BY <1>1, <1>3, GreatestNatural
<1> QED BY <1>2, <1>3, <1>4 DEF Minutes

LEMMA RollType ==
  ASSUME NEW r \in Runs, mem[r] \in Memory
  PROVE  Roll(r) \in Anchors
<1>1. mem[r].end \in Minutes /\ mem[r].rolling \in Anchors
  BY DEF Memory
<1>2. \A s \in Symbols : /\ mem[r].end \in Int /\ mem[r].rolling[s] \in Int
                         /\ mem[r].rolling[s] \in Minutes
  <2> TAKE s \in Symbols
  <2>1. mem[r].rolling[s] \in Minutes BY <1>1 DEF Anchors
  <2>2. Minutes \subseteq Int BY DEF Minutes
  <2> QED BY <1>1, <2>1, <2>2
<1>3. \A s \in Symbols : Max({mem[r].end, mem[r].rolling[s]}) \in Minutes
  BY <1>1, <1>2, GreaterOfTwo
<1> QED BY <1>1, <1>3 DEF Roll, Anchors

LEMMA LoopTypes ==
  ASSUME Account, NEW r \in Runs,
         NextBatch(r) \/ CatchupEnds(r) \/ CatchupFails(r) \/ RemoveClone(r)
         \/ \E s \in Symbols : AppendBar(r, s)
  PROVE  TypeOK'
<1>0. /\ RunTypes /\ FileTypes /\ DockerTypes /\ RowTypes /\ ServeTypes /\ ClockTypes
      /\ mem[r] \in Memory /\ now \in Minutes /\ hist \in Anchors
      /\ mem[r].attempt \in Attempts /\ mem[r].created \subseteq Containers
      /\ mem[r].rolling \in Anchors /\ Goal(r) \in Minutes /\ mem[r].end \in Minutes
  BY TypeParts DEF Account, RunTypes, RowTypes, ClockTypes, Memory, Goal
<1>00. Named(r, "catchup") \in Containers
  BY <1>0, Values DEF Named, Attempt, WorkerModes
<1> USE <1>0, <1>00, StepTypes, PartsUnchanged
    DEF Steps, Working, WorkerModes, Ended, Phase
<1>1. CASE NextBatch(r)
  <2> DEFINE ends == BatchEnds(mem[r].rolling, Goal(r))
             ok == ends # {} /\ BatchesLeft(r) /\ Free(Named(r, "catchup"))
  <2>1. DockerTypes' BY <1>1 DEF NextBatch, DockerTypes
  <2>2. UNCHANGED <<fileVars, dbVars, serveVars, envVars>> BY <1>1 DEF NextBatch
  <2>3. RunTypes'
    <3>1. CASE Earliest(mem[r].rolling) >= Goal(r)
      <4>1. AfterLoop(r) \in Steps BY DEF AfterLoop
      <4>2. Step(r, "batch", TRUE, AfterLoop(r), mem[r]) BY <1>1, <3>1 DEF NextBatch
      <4> QED BY <4>1, <4>2
    <3>2. CASE ~(Earliest(mem[r].rolling) >= Goal(r))
      <4> DEFINE m == [mem[r] EXCEPT !.batch = @ + 1, !.end = Max(ends), !.base = hist,
                         !.created = @ \union {Named(r, "catchup")}]
      <4>1. Step(r, "batch", ok, "catching", m) BY <1>1, <3>2 DEF NextBatch
      <4>2. CASE ok
        <5>1. Max(ends) \in Minutes BY <4>2, ChosenEnd
        <5>2. mem[r].batch + 1 \in 0..MaxBatches
          <6>1. mem[r].batch \in 0..MaxBatches /\ mem[r].batch < MaxBatches
            BY <4>2 DEF BatchesLeft, Memory
          <6> QED BY <6>1, Values
        <5>3. m \in Memory
          <6> HIDE DEF ends
          <6> QED BY <5>1, <5>2 DEF Memory
        <5> HIDE DEF m, ends
        <5> QED BY <4>1, <5>3
      <4>3. CASE ~ok
        <5>1. Go(r, "cleanup", mem[r]) BY <4>1, <4>3 DEF Step
        <5> QED BY <5>1, GoMoves
      <4> QED BY <4>2, <4>3
    <3> QED BY <3>1, <3>2
  <2> QED BY <2>1, <2>2, <2>3, TypePartsNext
<1>2. CASE CatchupEnds(r)
  <2>1. DockerTypes'
    <3>1. running' = running \ {Named(r, "catchup")} /\ assets' = assets
          /\ exists' \in {exists, exists \ {Named(r, "catchup")}}
      BY <1>2 DEF CatchupEnds
    <3> QED BY <3>1 DEF DockerTypes
  <2>2. UNCHANGED <<fileVars, dbVars, serveVars, envVars>> BY <1>2 DEF CatchupEnds
  <2>3. [mem[r] EXCEPT !.rolling = Roll(r), !.created = @ \ {Named(r, "catchup")}]
          \in Memory
    BY RollType DEF Memory
  <2>4. RunTypes'
    <3>1. CASE pc[r] = "catching" BY <1>2, <2>3, <3>1 DEF CatchupEnds
    <3>2. CASE pc[r] # "catching" BY <1>2, <3>2 DEF CatchupEnds, RunTypes
    <3> QED BY <3>1, <3>2
  <2> QED BY <2>1, <2>2, <2>4, TypePartsNext
<1>3. CASE CatchupFails(r)
  <2>1. DockerTypes' BY <1>3 DEF CatchupFails, DockerTypes
  <2>2. ClockTypes' BY <1>3, Values DEF CatchupFails, ClockTypes
  <2>3. RunTypes'
    <3>1. CASE pc[r] = "catching" BY <1>3, <3>1, GoMoves DEF CatchupFails
    <3>2. CASE pc[r] # "catching" BY <1>3, <3>2 DEF CatchupFails, RunTypes
    <3> QED BY <3>1, <3>2
  <2> QED BY <1>3, <2>1, <2>2, <2>3, TypePartsNext DEF CatchupFails
<1>4. CASE RemoveClone(r)
  <2>1. DockerTypes' BY <1>4 DEF RemoveClone, DockerTypes, dockerVars
  <2>2. UNCHANGED <<fileVars, dbVars, serveVars, envVars>> BY <1>4 DEF RemoveClone
  <2>3. pc[r] = "unclone" BY <1>4 DEF RemoveClone, Step
  <2>4. mem[r].round \in {0, 1}
    BY <2>3 DEF Account, RunInv, StageInv, BackupSteps, Opening, Second, Gap, Tailing
  <2>5. [mem[r] EXCEPT !.round = @ + 1, !.created = @ \ {Clone}] \in Memory
    <3> DEFINE n == mem[r].round + 1
               c == mem[r].created \ {Clone}
    <3>1. n \in 0..2 /\ c \in SUBSET Containers BY <2>4
    <3> HIDE DEF n, c
    <3>2. [mem[r] EXCEPT !.round = n, !.created = c] \in Memory BY <3>1 DEF Memory
    <3> QED BY <3>2 DEF n, c
  <2>6. AfterBackup(r) \in Steps BY DEF AfterBackup
  <2>7. RunTypes' BY <1>4, <2>5, <2>6 DEF RemoveClone
  <2> QED BY <2>1, <2>2, <2>7, TypePartsNext
<1>5. ASSUME NEW s \in Symbols, AppendBar(r, s) PROVE TypeOK'
  <2>1. hist[s] \in 0..MaxMinute /\ mem[r].end \in 0..MaxMinute /\ hist[s] < mem[r].end
    BY <1>5 DEF AppendBar, Anchors, Minutes
  <2>2. hist[s] + 1 \in Minutes BY <2>1, Values DEF Minutes
  <2>3. RowTypes' BY <1>5, <2>2 DEF AppendBar, RowTypes, Anchors
  <2>4. RunTypes' BY <1>5 DEF AppendBar, RunTypes
  <2> QED BY <1>5, <2>3, <2>4, TypePartsNext DEF AppendBar
<1> QED BY <1>1, <1>2, <1>3, <1>4, <1>5

LEMMA JobType ==
  ASSUME NEW r \in Runs, mem[r].attempt \in Attempts
  PROVE  Job(r) \in Containers
<1>1. \A x \in WorkerModes \union {"init"} : Named(r, x) \in Containers
  BY Values DEF Named, Attempt
<1>2. {Source, Target, Redis, Clone, Serve, OldWorker} \subseteq Containers
  BY Values DEF Data
<1>3. "catchup" \in WorkerModes
  BY DEF WorkerModes
<1> HIDE DEF Named, Containers, Source, Target, Redis, Clone, Serve, OldWorker
<1> QED BY <1>1, <1>2, <1>3 DEF Job

LEMMA FailureTypes ==
  ASSUME Account, NEW r \in Runs,
         CommandFails(r) \/ HalfDone(r) \/ Cleanup(r) \/ Kill(r)
  PROVE  TypeOK'
<1>0. /\ RunTypes /\ FileTypes /\ DockerTypes /\ RowTypes /\ ServeTypes /\ ClockTypes
      /\ mem[r] \in Memory /\ now \in Minutes /\ hist \in Anchors
      /\ mem[r].attempt \in Attempts /\ mem[r].created \subseteq Containers
  BY TypeParts DEF Account, RunTypes, RowTypes, ClockTypes, Memory
<1>1. /\ UNCHANGED <<fileVars, serveVars, now>>
      /\ faults' \in {faults, faults + 1} /\ (faults' # faults => faults < MaxFaults)
  BY DEF CommandFails, HalfDone, Cleanup, Kill
<1>2. ClockTypes' BY <1>0, <1>1, Values DEF ClockTypes
<1> USE <1>0, PartsUnchanged DEF Steps, Ended
<1>3. CASE CommandFails(r)
  <2>1. PICK made, listed, up \in BOOLEAN :
          /\ Effects(made, listed, up)
          /\ exists' = IF made THEN exists \union {Job(r)} ELSE exists
          /\ running' = IF up THEN running \union {Job(r)} ELSE running
          /\ Go(r, "cleanup",
                [mem[r] EXCEPT !.created = IF listed THEN @ \union {Job(r)} ELSE @])
    BY <1>3 DEF CommandFails
  <2>2. assets' \subseteq Volumes
    BY <1>3 DEF CommandFails, AssetsLeft, DockerTypes, Volumes
  <2>3. DockerTypes'
    BY <2>1, <2>2, JobType DEF DockerTypes, Effects
  <2>4. [mem[r] EXCEPT !.created = IF listed THEN @ \union {Job(r)} ELSE @] \in Memory
    <3> DEFINE c == IF listed THEN mem[r].created \union {Job(r)} ELSE mem[r].created
    <3>1. c \in SUBSET Containers BY JobType
    <3> HIDE DEF c
    <3>2. [mem[r] EXCEPT !.created = c] \in Memory BY <3>1 DEF Memory
    <3> QED BY <3>2 DEF c
  <2>5. RunTypes' BY <2>1, <2>4, GoMoves
  <2>6. RowTypes'
    <3>1. \A rows \in RowsLeft(r) : rows[1] \in Anchors /\ rows[2] \in BOOLEAN
      <4> DEFINE live == [s \in Symbols |-> now]
      <4>1. live \in Anchors /\ SeedAnchors \in Anchors BY Values DEF Anchors
      <4>2. RowsLeft(r) \subseteq {<<hist, delivered>>, <<SeedAnchors, delivered>>,
                                   <<hist, TRUE>>, <<live, TRUE>>}
        BY DEF RowsLeft
      <4> HIDE DEF live
      <4>3. delivered \in BOOLEAN BY DEF RowTypes
      <4>4. TAKE rows \in RowsLeft(r)
      <4>5. rows[1] \in {hist, SeedAnchors, live} /\ rows[2] \in {delivered, TRUE}
        <5>1. \/ rows = <<hist, delivered>> \/ rows = <<SeedAnchors, delivered>>
              \/ rows = <<hist, TRUE>> \/ rows = <<live, TRUE>>
          BY <4>2, Zenon
        <5>2. ASSUME NEW x, NEW y, rows = <<x, y>> PROVE rows[1] = x /\ rows[2] = y
          BY <5>2, Zenon
        <5>3. \/ rows[1] = hist /\ rows[2] = delivered
              \/ rows[1] = SeedAnchors /\ rows[2] = delivered
              \/ rows[1] = hist /\ rows[2] = TRUE
              \/ rows[1] = live /\ rows[2] = TRUE
          BY <5>1, <5>2, Zenon
        <5> QED BY <5>3, Zenon
      <4> QED BY <4>1, <4>3, <4>5, Zenon
    <3> QED BY <1>3, <3>1 DEF CommandFails, RowTypes
  <2> QED BY <1>1, <1>2, <2>3, <2>5, <2>6, TypePartsNext
<1>4. CASE HalfDone(r)
  <2>1. DockerTypes'
    BY <1>4 DEF HalfDone, DockerTypes, dockerVars
  <2>2. RowTypes' BY <1>4 DEF HalfDone, RowTypes, dbVars, Attempt
  <2>3. \A c : [mem[r] EXCEPT !.created = @ \ {c}] \in Memory BY DEF Memory
  <2>4. \E m \in Memory : Go(r, "cleanup", m) BY <1>4, <2>3 DEF HalfDone
  <2> QED BY <1>1, <1>2, <2>1, <2>2, <2>4, GoMoves, TypePartsNext
<1>5. CASE Cleanup(r)
  <2>1. PICK left \in SUBSET (Candidates(r) \intersect running) :
          /\ running' = running \ (Candidates(r) \ left)
          /\ Go(r, "report", [mem[r] EXCEPT !.left = left])
    BY <1>5 DEF Cleanup
  <2>2. DockerTypes' BY <1>5, <2>1 DEF Cleanup, DockerTypes
  <2>3. [mem[r] EXCEPT !.left = left] \in Memory
    <3>1. left \in SUBSET Containers BY DEF DockerTypes
    <3> QED BY <3>1 DEF Memory
  <2> QED BY <1>1, <1>2, <1>5, <2>1, <2>2, <2>3, GoMoves, TypePartsNext DEF Cleanup
<1>6. CASE Kill(r)
  <2>1. Go(r, "killed", mem[r]) BY <1>6 DEF Kill
  <2> QED BY <1>1, <1>2, <1>6, <2>1, GoMoves, TypePartsNext DEF Kill
<1> QED BY <1>3, <1>4, <1>5, <1>6

LEMMA SurroundingTypes ==
  ASSUME Account,
         (\E c \in running : JobExpires(c)) \/ ServeReports \/ ServeFails \/ Tick
         \/ UNCHANGED vars
  PROVE  TypeOK'
<1>0. /\ RunTypes /\ FileTypes /\ DockerTypes /\ RowTypes /\ ServeTypes /\ ClockTypes
      /\ now \in Minutes /\ hist \in Anchors /\ serveNo \in 0..2 /\ status \in Statuses
  BY TypeParts DEF Account, RowTypes, ClockTypes, ServeTypes
<1>1. UNCHANGED <<pc, mem, fileVars>>
  BY DEF JobExpires, ServeReports, ServeFails, Tick, vars
<1>2. RunTypes' BY <1>0, <1>1 DEF RunTypes
<1> USE <1>0, <1>1, <1>2, PartsUnchanged, TypePartsNext
<1>3. ASSUME NEW c \in running, JobExpires(c) PROVE TypeOK'
  <2>1. DockerTypes' BY <1>3 DEF JobExpires, DockerTypes
  <2> QED BY <1>3, <2>1 DEF JobExpires
<1>4. CASE ServeReports
  <2>1. [s \in Symbols |-> now] \in Anchors BY DEF Anchors
  <2>2. RowTypes' BY <1>4, <2>1 DEF ServeReports, RowTypes
  <2>3. Earliest(hist) \in Minutes BY EarliestIsLeast
  <2>4. ServeTypes' BY <1>4, <2>3 DEF ServeReports, ServeTypes, Statuses
  <2> QED BY <1>4, <2>2, <2>4 DEF ServeReports
<1>5. CASE ServeFails
  <2>1. DockerTypes' BY <1>5 DEF ServeFails, DockerTypes
  <2>2. ServeTypes' BY <1>5 DEF ServeFails, ServeTypes, Statuses
  <2>3. ClockTypes' BY <1>5, Values DEF ServeFails, ClockTypes
  <2> QED BY <1>5, <2>1, <2>2, <2>3 DEF ServeFails
<1>6. CASE Tick
  <2>1. ClockTypes' BY <1>6, Values DEF Tick, ClockTypes, Minutes
  <2> QED BY <1>6, <2>1 DEF Tick
<1>7. CASE UNCHANGED vars BY <1>7 DEF vars
<1> QED BY <1>3, <1>4, <1>5, <1>6, <1>7

LEMMA NextTypes == ASSUME Account, [Next]_vars PROVE TypeOK'
BY LonelyTypes, ActingTypes, LoopTypes, FailureTypes, SurroundingTypes
   DEF Next, RunStep, WorkerStep, Creation, Continuation, Backup, Serving

-----------------------------------------------------------------------------
(* How the account moves                                                   *)

\* What the steps leave of a run's own account.
Same(r) == /\ mem'[r].attempt = mem[r].attempt /\ mem'[r].owned = mem[r].owned
           /\ mem'[r].round = mem[r].round /\ mem'[r].last = mem[r].last
           /\ mem'[r].goal = mem[r].goal /\ mem'[r].end = mem[r].end
           /\ mem'[r].rolling = mem[r].rolling /\ mem'[r].verified = mem[r].verified
           /\ mem'[r].first = mem[r].first /\ mem'[r].seen = mem[r].seen

\* The keys of a run's memory, for the field of an updated record.
Fields == {"attempt", "owned", "created", "goal", "last", "end", "batch", "round",
           "rolling", "base", "dump", "verified", "first", "seen", "left"}

LEMMA Numbers ==
  ASSUME TypeOK, NEW r \in Runs
  PROVE  /\ mem[r].attempt \in 0..5 /\ mem[r].round \in 0..2 /\ mem[r].owned \in BOOLEAN
         /\ mem[r].last \in Nat /\ mem[r].goal \in Nat /\ mem[r].end \in Nat
         /\ mem[r].first.mark \in Nat /\ mem[r].seen.mark \in Nat
         /\ now \in Nat /\ status.mark \in Nat
         /\ \A s \in Symbols : /\ hist[s] \in Nat /\ mem[r].rolling[s] \in Nat
                               /\ mem[r].verified[s] \in Nat
         /\ mem[r].rolling \in Anchors /\ hist \in Anchors /\ mem[r].verified \in Anchors
         /\ DOMAIN mem[r] = Fields
<1>1. mem[r] \in Memory /\ hist \in Anchors /\ status \in Statuses /\ now \in Minutes
  BY TypeParts DEF RunTypes, RowTypes, ServeTypes, ClockTypes
<1>2. /\ mem[r].attempt \in 0..5 /\ mem[r].round \in 0..2 /\ mem[r].owned \in BOOLEAN
      /\ mem[r].last \in Minutes /\ mem[r].goal \in Minutes /\ mem[r].end \in Minutes
      /\ mem[r].first \in Statuses /\ mem[r].seen \in Statuses
      /\ mem[r].rolling \in Anchors /\ mem[r].verified \in Anchors
      /\ DOMAIN mem[r] = Fields
  BY <1>1 DEF Memory, Attempts, Fields
<1>3. mem[r].first.mark \in Minutes /\ mem[r].seen.mark \in Minutes
      /\ status.mark \in Minutes
  BY <1>1, <1>2 DEF Statuses
<1>4. \A s \in Symbols : /\ hist[s] \in Minutes /\ mem[r].rolling[s] \in Minutes
                         /\ mem[r].verified[s] \in Minutes
  BY <1>1, <1>2 DEF Anchors
<1>5. Minutes \subseteq Nat
  BY Values
<1> QED BY <1>1, <1>2, <1>3, <1>4, <1>5

\* A run that owns nothing is told nothing by what the owner does.
LEMMA StrangersStay ==
  ASSUME OwnerInv, Account, NEW x \in Runs, ~mem[x].owned,
         pc'[x] = pc[x], mem'[x] = mem[x]
  PROVE  RunInv(x)'
<1>1. pc[x] \notin Working \union {"cleanup", "passed"}
  BY DEF OwnerInv, Account, RunInv, StageInv
<1>2. StageInv(x) /\ RowsInv(x)
  BY DEF Account, RunInv
<1>3. pc[x] \notin Creating \union BackupSteps \union ServeSteps \union RollingSteps
                   \union BeforeServe
  BY <1>1 DEF Creating, BackupSteps, ServeSteps, BeforeServe, RollingSteps, BetweenWorkers,
     Working, WorkerModes
<1>4. pc[x] \notin {"snapshots", "existing", "repair", "state", "rotate", "goal", "batch",
                    "catching", "volume", "final", "post", "qualify", "serve", "stop",
                    "start", "restart", "after", "save", "unclone"}
  BY <1>1 DEF Working, WorkerModes
<1>5. StageInv(x)' BY <1>1, <1>2, <1>3, <1>4 DEF StageInv, Opening
<1>6. PasswordInv(x)' BY <1>3, <1>4 DEF PasswordInv
<1>7. RowsInv(x)' BY <1>1, <1>2, <1>3, <1>4 DEF RowsInv, Attempt
<1>8. BackedInv(x)' BY <1>3, <1>4 DEF BackedInv, FilledInv
<1>9. LiveInv(x)' BY <1>1, <1>3, <1>4 DEF LiveInv
<1> QED BY <1>5, <1>6, <1>7, <1>8, <1>9 DEF RunInv

LEMMA OwnerMoves ==
  ASSUME OwnerInv, Account, TypeOK', NEW r \in Runs, mem[r].owned, mem'[r].owned,
         mem'[r].attempt = mem[r].attempt,
         \A x \in Runs : x # r => pc'[x] = pc[x] /\ mem'[x] = mem[x],
         UNCHANGED fileVars, RunInv(r)', ClockInv',
         cred' = cred \/ (mem[r].attempt \in 1..4 /\ cred' = mem[r].attempt)
  PROVE  Account'
<1>1. \A x \in Runs : x # r => ~mem[x].owned
  BY OwnerIsUnique DEF OneOwner
<1>2. \A x \in Runs : RunInv(x)'
  BY <1>1, StrangersStay
<1>3. HostInv'
  <2>1. HostInv BY DEF Account
  <2>2. UNCHANGED <<lease, dirOf, evidence>> BY DEF fileVars
  <2>3. \A x \in Runs : mem'[x].owned =>
          IF Attempt(x)' = 0 THEN evidence' = {} ELSE evidence' = 0..(Attempt(x)' - 1)
    BY <1>1, <2>1, <2>2 DEF HostInv, Attempt
  <2>4. mem[r].attempt \in 1..4 => evidence # {} /\ 4 \notin evidence
    <3> SUFFICES ASSUME mem[r].attempt \in 1..4 PROVE evidence # {} /\ 4 \notin evidence
      OBVIOUS
    <3>1. evidence = 0..(mem[r].attempt - 1) BY <2>1 DEF HostInv, Attempt
    <3>2. 0 \in 0..(mem[r].attempt - 1) /\ 4 \notin 0..(mem[r].attempt - 1) OBVIOUS
    <3> QED BY <3>1, <3>2
  <2>5. (evidence' = {} => cred' = 0) /\ (4 \in evidence' => cred' = 4)
    BY <2>1, <2>2, <2>4 DEF HostInv
  <2>6. ~ \A x \in Runs : ~mem'[x].owned
    OBVIOUS
  <2> QED BY <2>1, <2>2, <2>3, <2>5, <2>6 DEF HostInv
<1> QED BY <1>2, <1>3 DEF Account

LEMMA ClockStays ==
  ASSUME Account, TypeOK', NEW r \in Runs,
         \A x \in Runs : x # r => mem'[x] = mem[x],
         mem'[r].end <= now, mem'[r].goal <= now, mem'[r].last <= now,
         UNCHANGED <<now, status>>, \A s \in Symbols : hist'[s] <= now,
         status.state = "RUNNING" => hist' = hist
  PROVE  ClockInv'
<1>1. ClockInv BY DEF Account
<1> QED BY <1>1 DEF ClockInv

\* Turning to the cleanup.
LEMMA ToCleanup ==
  ASSUME OwnerInv, Account, NEW r \in Runs, mem[r].owned, pc'[r] = "cleanup", Same(r),
         status' = status, delivered' => delivered \/ pc[r] = "qualify",
         Serve \in running' => Serve \in running \/ pc[r] = "serve"
  PROVE  RunInv(r)'
<1>1. RunInv(r) BY DEF Account
<1>2. StageInv(r)' BY DEF StageInv, Creating, BackupSteps, ServeSteps
<1>3. PasswordInv(r)' BY DEF PasswordInv, BackupSteps
<1>4. RowsInv(r)'
  BY <1>1 DEF RunInv, RowsInv, RollingSteps, BetweenWorkers, Working, WorkerModes, Same,
     Attempt
<1>5. BackedInv(r)'
  <2>1. delivered' => Backed(r) BY <1>1 DEF RunInv, BackedInv, FilledInv
  <2>2. Backed(r)' <=> Backed(r) BY DEF Backed, Same, Attempt
  <2>3. "cleanup" \notin BeforeServe BY DEF BeforeServe, Working, WorkerModes
  <2> QED BY <2>1, <2>2, <2>3 DEF BackedInv, FilledInv, BackupSteps, ServeSteps
<1>6. LiveInv(r)'
  <2>1. Serve \in running' => Backed(r) BY <1>1 DEF RunInv, BackedInv, FilledInv, LiveInv
  <2>2. Backed(r)' <=> Backed(r) BY DEF Backed, Same, Attempt
  <2> QED BY <1>1, <2>1, <2>2 DEF RunInv, LiveInv, BeforeServe, ServeSteps, Working,
             WorkerModes, Same
<1> QED BY <1>2, <1>3, <1>4, <1>5, <1>6 DEF RunInv

LEMMA StepKeeps ==
  ASSUME OwnerInv, Account, TypeOK', NEW r \in Runs, NEW from \in Working,
         NEW ok \in BOOLEAN, NEW to, NEW m, Step(r, from, ok, to, m),
         m.owned = mem[r].owned, m.attempt = mem[r].attempt,
         m.end <= now, m.goal <= now, m.last <= now,
         UNCHANGED <<fileVars, now, status>>,
         \A s \in Symbols : hist'[s] <= now,
         status.state = "RUNNING" => hist' = hist,
         cred' = cred \/ (mem[r].attempt \in 1..4 /\ cred' = mem[r].attempt),
         delivered' => delivered \/ ok,
         Serve \in running' => Serve \in running \/ ok,
         ok /\ pc'[r] = to /\ mem'[r] = m => RunInv(r)'
  PROVE  Account'
<1>1. /\ RunTypes /\ mem[r].owned /\ ClockInv
  BY TypeParts DEF Account, Step, OwnerInv
<1>2. CASE ok
  <2>1. /\ pc'[r] = to /\ mem'[r] = m
        /\ \A x \in Runs : x # r => pc'[x] = pc[x] /\ mem'[x] = mem[x]
    BY <1>1, <1>2, GoMoves DEF Step
  <2>2. ClockInv' BY <2>1, ClockStays
  <2> QED BY <1>1, <1>2, <2>1, <2>2, OwnerMoves
<1>3. CASE ~ok
  <2>1. /\ pc'[r] = "cleanup" /\ mem'[r] = mem[r]
        /\ \A x \in Runs : x # r => pc'[x] = pc[x] /\ mem'[x] = mem[x]
    BY <1>1, <1>3, GoMoves DEF Step
  <2>2. ClockInv' BY <1>1, <2>1, ClockStays DEF ClockInv
  <2>3. RunInv(r)' BY <1>1, <1>3, <2>1, ToCleanup DEF Same
  <2> QED BY <1>1, <2>1, <2>2, <2>3, OwnerMoves
<1> QED BY <1>2, <1>3

-----------------------------------------------------------------------------
(* The steps of the owner                                                  *)

\* A new epoch up to its seeded database.
LEMMA CreationKeeps ==
  ASSUME OwnerInv, StopInv, Account, TypeOK', NEW r \in Runs,
         PrepareSnapshots(r) \/ Creation(r)
  PROVE  Account'
<1>0. /\ RunInv(r) /\ ClockInv /\ TypeOK
      /\ mem[r].end <= now /\ mem[r].goal <= now /\ mem[r].last <= now
      /\ \A s \in Symbols : hist[s] <= now
  BY DEF Account, ClockInv
<1>1. UNCHANGED <<fileVars, now, status, cred, delivered>>
  BY DEF PrepareSnapshots, Creation, LegacyBefore, CreateAssets, CreateStore, Prepare, Seed,
     DropSource, dbVars, serveVars, envVars
<1> USE DEF dockerVars, dbVars, serveVars, envVars
<1>2. ASSUME pc[r] \in {"snapshots"} \union (Creating \ {"unsource", "seed"}),
             pc'[r] \in (Creating \ {"unsource"}) \union {"existing"},
             pc'[r] = "existing" <=> mem[r].attempt # 0, Same(r), hist' = hist,
             running' \subseteq running \union {Source, Target, Redis}
      PROVE  RunInv(r)'
  <2>1. pc[r] \in BeforeServe \ {"catching", "serve"}
    BY <1>2 DEF BeforeServe, Creating, Working, WorkerModes, ServeSteps
  <2>2. Named(r, "catchup") \notin running' /\ Serve \notin running'
    BY <1>0, <1>2, <2>1 DEF RunInv, RowsInv, LiveInv, Named, Source, Target, Redis, Serve,
       BeforeServe
  <2>3. StageInv(r)' BY <1>0, <1>2 DEF RunInv, StageInv, Opening, Creating, BackupSteps,
        ServeSteps, Same, Attempt
  <2>4. PasswordInv(r)' BY <1>2 DEF PasswordInv, Creating, BackupSteps
  <2>5. RowsInv(r)'
    <3>1. pc'[r] = "existing" => pc[r] = "snapshots"
      BY <1>0, <1>2 DEF RunInv, StageInv, Attempt
    <3>2. pc'[r] \notin RollingSteps \union {"snapshots", "catching"}
      BY <1>2 DEF RollingSteps, BetweenWorkers, Creating
    <3> QED BY <1>0, <1>2, <2>2, <3>1, <3>2 DEF RunInv, RowsInv, Same, Attempt, Named
  <2>6. BackedInv(r)'
    BY <1>0, <1>1, <1>2, <2>1 DEF RunInv, BackedInv, FilledInv, Same, BackupSteps, ServeSteps, Creating
  <2>7. LiveInv(r)'
    BY <1>0, <1>1, <1>2, <2>1, <2>2 DEF RunInv, LiveInv, Same, ServeSteps, Creating
  <2> QED BY <2>3, <2>4, <2>5, <2>6, <2>7 DEF RunInv
<1>3. CASE PrepareSnapshots(r)
  <2>1. pc[r] = "snapshots" /\ UNCHANGED <<hist, running>>
    BY <1>3 DEF PrepareSnapshots, Step
  <2>2. pc'[r] = (IF Attempt(r) = 0 THEN "legacy" ELSE "existing") /\ mem'[r] = mem[r]
          => RunInv(r)'
    BY <1>2, <2>1 DEF Same, Creating, Attempt
  <2> QED BY <1>0, <1>1, <1>3, <2>1, <2>2, StepKeeps DEF PrepareSnapshots, Working
<1>4. CASE LegacyBefore(r)
  <2>1. pc[r] = "legacy" /\ UNCHANGED <<hist, running>> BY <1>4 DEF LegacyBefore, Step
  <2>2. mem[r].attempt = 0
    BY <1>0, <2>1 DEF RunInv, StageInv, Creating, Attempt
  <2>3. pc'[r] = "assets" /\ mem'[r] = mem[r] => RunInv(r)'
    BY <1>2, <2>1, <2>2 DEF Same, Creating
  <2> QED BY <1>0, <1>1, <1>4, <2>1, <2>3, StepKeeps DEF LegacyBefore, Working
<1>5. CASE CreateAssets(r)
  <2>1. pc[r] = "assets" /\ UNCHANGED <<hist, running>> BY <1>5 DEF CreateAssets, Step
  <2>2. mem[r].attempt = 0 /\ Free(Named(r, "init")) \in BOOLEAN
    BY <1>0, <2>1 DEF RunInv, StageInv, Creating, Attempt, Free
  <2>3. pc'[r] = "source" /\ mem'[r] = mem[r] => RunInv(r)'
    <3>1. {"assets", "source"} \subseteq Creating \ {"unsource", "seed"} BY DEF Creating
    <3> QED BY <1>2, <2>1, <2>2, <3>1 DEF Same
  <2>4. Step(r, "assets", Free(Named(r, "init")), "source", mem[r]) /\ "assets" \in Working
    BY <1>5 DEF CreateAssets, Working
  <2> QED BY <1>0, <1>1, <2>1, <2>2, <2>3, <2>4, StepKeeps
<1>6. CASE CreateStore(r)
  <2>1. PICK s \in {<<"source", Source, "target">>, <<"target", Target, "redis">>,
                    <<"redis", Redis, "prepare">>} :
          /\ Step(r, s[1], Free(s[2]), s[3],
                  [mem[r] EXCEPT !.created = @ \union {s[2]}])
          /\ running' = IF Free(s[2]) THEN running \union {s[2]} ELSE running
    BY <1>6 DEF CreateStore
  <2>2. /\ s[1] \in {"source", "target", "redis"} /\ s[2] \in {Source, Target, Redis}
        /\ s[3] \in {"target", "redis", "prepare"} /\ Free(s[2]) \in BOOLEAN
        /\ hist' = hist /\ pc[r] = s[1]
    BY <1>6, <2>1 DEF CreateStore, Free, Step
  <2> DEFINE m == [mem[r] EXCEPT !.created = @ \union {s[2]}]
  <2>3. /\ m.attempt = mem[r].attempt /\ m.owned = mem[r].owned
        /\ m.end = mem[r].end /\ m.goal = mem[r].goal /\ m.last = mem[r].last
        /\ mem'[r] = m => Same(r)
    BY <1>0, Numbers DEF Same, Fields
  <2>4. Step(r, s[1], Free(s[2]), s[3], m) BY <2>1
  <2> HIDE DEF m
  <2>5. mem[r].attempt = 0 BY <1>0, <2>2 DEF RunInv, StageInv, Creating, Attempt
  <2>6. Serve \notin {Source, Target, Redis} BY DEF Serve, Source, Target, Redis
  <2>7. pc'[r] = s[3] /\ mem'[r] = m => RunInv(r)'
    BY <1>2, <2>1, <2>2, <2>3, <2>5 DEF Creating
  <2>8. s[1] \in Working BY <2>2 DEF Working
  <2> QED BY <1>0, <1>1, <2>1, <2>2, <2>3, <2>4, <2>6, <2>7, <2>8, StepKeeps
<1>7. CASE Prepare(r)
  <2> DEFINE ok == Free(Named(r, "prepare")) /\ Data \subseteq running
                   /\ Source \in running
  <2>1. pc[r] = "prepare" /\ UNCHANGED <<hist, running>> /\ ok \in BOOLEAN
        /\ Step(r, "prepare", ok, "seed", mem[r])
    BY <1>7 DEF Prepare, Phase, Step, Free
  <2>2. mem[r].attempt = 0 BY <1>0, <2>1 DEF RunInv, StageInv, Creating, Attempt
  <2>3. pc'[r] = "seed" /\ mem'[r] = mem[r] => RunInv(r)'
    BY <1>2, <2>1, <2>2 DEF Same, Creating
  <2>4. "prepare" \in Working BY DEF Working, WorkerModes
  <2> HIDE DEF ok
  <2> QED BY <1>0, <1>1, <2>1, <2>3, <2>4, StepKeeps
<1>8. CASE Seed(r)
  <2> DEFINE in == Source \in running /\ ~delivered /\ hist = Unseeded
             ok == Free(Named(r, "seed")) /\ Data \subseteq running /\ in
             m == [mem[r] EXCEPT !.rolling = SeedAnchors]
  <2>1. /\ pc[r] = "seed" /\ running' = running /\ ok \in BOOLEAN
        /\ Step(r, "seed", ok, "unsource", m) /\ hist' = IF in THEN SeedAnchors ELSE hist
    BY <1>8 DEF Seed, Phase, Step, Free
  <2>2. /\ mem[r].attempt = 0 /\ status.state = "none" /\ Serve \notin running
        /\ Named(r, "catchup") \notin running /\ Opening(r)
    BY <1>0, <2>1 DEF RunInv, StageInv, LiveInv, RowsInv, Creating, Attempt, BeforeServe,
       ServeSteps, Working, WorkerModes
  <2>3. \A s \in Symbols : hist'[s] <= now
    BY <1>0, <2>1 DEF SeedAnchors, ClockInv
  <2>4. /\ m.attempt = mem[r].attempt /\ m.owned = mem[r].owned /\ m.round = mem[r].round
        /\ m.end = mem[r].end /\ m.goal = mem[r].goal /\ m.last = mem[r].last
        /\ m.rolling = SeedAnchors /\ m.verified = mem[r].verified
    BY <1>0, Numbers DEF Fields
  <2>5. \A s, t \in Symbols : SeedAnchors[s] = SeedAnchors[t] BY DEF SeedAnchors
  <2> HIDE DEF m
  <2>6. ASSUME ok, pc'[r] = "unsource", mem'[r] = m PROVE RunInv(r)'
    <3>1. StageInv(r)'
      BY <2>2, <2>4, <2>6 DEF StageInv, Opening, Creating, BackupSteps, ServeSteps, Attempt
    <3>2. PasswordInv(r)' BY <2>6 DEF PasswordInv, BackupSteps
    <3>3. RowsInv(r)'
      BY <2>1, <2>2, <2>4, <2>5, <2>6 DEF RowsInv, RollingSteps, BetweenWorkers, Attempt,
         Named
    <3>4. BackedInv(r)' BY <1>1, <2>6 DEF BackedInv, FilledInv, BackupSteps, ServeSteps
    <3>5. LiveInv(r)' BY <1>1, <2>1, <2>2, <2>6 DEF LiveInv, ServeSteps
    <3> QED BY <3>1, <3>2, <3>3, <3>4, <3>5 DEF RunInv
  <2>7. "seed" \in Working BY DEF Working, WorkerModes
  <2> HIDE DEF ok, in
  <2> QED BY <1>0, <1>1, <2>1, <2>2, <2>3, <2>4, <2>6, <2>7, StepKeeps
<1>9. CASE DropSource(r)
  <2> DEFINE m == [mem[r] EXCEPT !.created = @ \ {Source}]
  <2>1. /\ pc[r] = "unsource" /\ running' = running \ {Source} /\ hist' = hist
        /\ Step(r, "unsource", Source \in exists, "batch", m)
        /\ (Source \in exists) \in BOOLEAN
    BY <1>9 DEF DropSource, Step
  <2>2. /\ m.attempt = mem[r].attempt /\ m.owned = mem[r].owned
        /\ m.end = mem[r].end /\ m.goal = mem[r].goal /\ m.last = mem[r].last
        /\ mem'[r] = m => Same(r)
    BY <1>0, Numbers DEF Same, Fields
  <2> HIDE DEF m
  <2>3. ASSUME pc'[r] = "batch", mem'[r] = m PROVE RunInv(r)'
    <3>0. Same(r) /\ mem[r].attempt = 0 /\ Opening(r)
      BY <1>0, <2>1, <2>2, <2>3 DEF RunInv, StageInv, Creating, Attempt
    <3>1. StageInv(r)'
      BY <2>3, <3>0 DEF StageInv, Opening, Gap, Creating, BackupSteps, ServeSteps, Attempt,
         Same
    <3>2. PasswordInv(r)' BY <2>3, <3>0 DEF PasswordInv, BackupSteps, Same, Attempt
    <3>3. RowsInv(r)'
      BY <1>0, <2>1, <2>3, <3>0 DEF RunInv, RowsInv, RollingSteps, BetweenWorkers, Attempt,
         Named, Same, Working
    <3>4. BackedInv(r)'
      BY <1>0, <1>1, <2>1, <2>3, <3>0 DEF RunInv, BackedInv, FilledInv, BackupSteps, ServeSteps, Same,
         BeforeServe, Working, Tailing, Opening
    <3>5. LiveInv(r)'
      BY <1>0, <1>1, <2>1, <2>3, <3>0 DEF RunInv, LiveInv, ServeSteps, BeforeServe, Working,
         Same
    <3> QED BY <3>1, <3>2, <3>3, <3>4, <3>5 DEF RunInv
  <2>4. "unsource" \in Working BY DEF Working
  <2> QED BY <1>0, <1>1, <2>1, <2>2, <2>3, <2>4, StepKeeps
<1> QED BY <1>3, <1>4, <1>5, <1>6, <1>7, <1>8, <1>9 DEF Creation

\* A step between workers, before serve: what is left to show is where the run
\* stands, its password and what its loops and backups have reached.
LEMMA QuietMove ==
  ASSUME Account, NEW r \in Runs, pc[r] \in BeforeServe \ {"catching", "serve"},
         pc'[r] \in BeforeServe \ {"snapshots", "existing", "catching", "serve"},
         mem'[r].attempt = mem[r].attempt, mem'[r].owned = mem[r].owned,
         UNCHANGED <<status, delivered>>,
         Serve \in running' => Serve \in running,
         Named(r, "catchup") \in running' => Named(r, "catchup") \in running,
         StageInv(r)', PasswordInv(r)', FilledInv(r)',
         mem[r].attempt = 0
           => \A s, t \in Symbols : mem'[r].rolling[s] = mem'[r].rolling[t],
         pc'[r] \in RollingSteps => mem'[r].rolling = hist'
  PROVE  RunInv(r)'
<1>1. RunInv(r) BY DEF Account
<1>2. status.state = "none" /\ Serve \notin running /\ Named(r, "catchup") \notin running
  BY <1>1 DEF RunInv, LiveInv, RowsInv, BeforeServe
<1>3. Named(r, "catchup")' = Named(r, "catchup") BY DEF Named, Attempt
<1>4. RowsInv(r)' BY <1>2, <1>3 DEF RowsInv, Attempt
<1>5. BackedInv(r)' BY <1>1 DEF RunInv, BackedInv
<1>6. pc'[r] \notin ServeSteps \union {"stop", "start", "restart", "after", "save", "passed"}
  BY DEF BeforeServe, ServeSteps, Working, WorkerModes
<1>7. LiveInv(r)' BY <1>2, <1>6 DEF LiveInv
<1> QED BY <1>4, <1>5, <1>7 DEF RunInv

LEMMA ContinuationKeeps ==
  ASSUME OwnerInv, StopInv, Account, TypeOK', NEW r \in Runs, Continuation(r)
  PROVE  Account'
<1>0. /\ RunInv(r) /\ ClockInv /\ TypeOK /\ mem[r].attempt \in 0..5
      /\ mem[r].end <= now /\ mem[r].goal <= now /\ mem[r].last <= now
      /\ \A s \in Symbols : hist[s] <= now
  BY Numbers DEF Account, ClockInv
<1>1. UNCHANGED <<fileVars, now, status, delivered, hist>>
      /\ pc[r] \in {"existing", "state", "repair", "rotate", "post"}
  BY DEF Continuation, AssertExisting, HistoryState, Repair, Rotate, PostState, Phase, Step,
     dbVars, serveVars, envVars
<1>2. pc[r] \in BeforeServe \ {"catching", "serve"}
  BY <1>1 DEF BeforeServe, Working, WorkerModes, ServeSteps
<1>3. {"existing", "state", "repair", "rotate", "post"} \subseteq Working
      /\ {"dump", "state", "repair", "goal", "volume"}
           \subseteq BeforeServe \ {"snapshots", "existing", "catching", "serve"}
  BY DEF BeforeServe, Working, WorkerModes, ServeSteps
<1>4. mem[r].attempt = 0
        => \A s, t \in Symbols : mem[r].rolling[s] = mem[r].rolling[t]
  BY <1>0 DEF RunInv, RowsInv, Attempt
<1> USE DEF dockerVars, dbVars, serveVars, envVars
<1>5. CASE AssertExisting(r)
  <2> DEFINE ok == ExistingEpoch(Attempt(r))
             to == CASE Attempt(r) = 3 -> "dump" [] Attempt(r) = 5 -> "state"
                     [] OTHER -> "repair"
  <2>1. /\ pc[r] = "existing" /\ UNCHANGED <<running, cred>> /\ ok \in BOOLEAN
        /\ Step(r, "existing", ok, to, mem[r])
    BY <1>5 DEF AssertExisting, Step, ExistingEpoch
  <2>2. /\ to \in {"dump", "state", "repair"} /\ to = "state" <=> mem[r].attempt = 5
        /\ mem[r].attempt # 0 /\ Opening(r)
    BY <1>0, <2>1 DEF Attempt, RunInv, StageInv
  <2>3. ASSUME pc'[r] = to, mem'[r] = mem[r] PROVE RunInv(r)'
    <3>1. StageInv(r)'
      BY <2>2, <2>3 DEF StageInv, Opening, Creating, BackupSteps, ServeSteps, Attempt
    <3>2. ~Second(r)' BY <2>2, <2>3 DEF Second, Gap, Tailing, Opening, Attempt
    <3>3. PasswordInv(r)' BY <2>2, <2>3, <3>2 DEF PasswordInv, BackupSteps
    <3>4. FilledInv(r)' BY <2>2, <2>3, <3>2 DEF FilledInv, BackupSteps, ServeSteps
    <3>5. pc'[r] \in RollingSteps => mem'[r].rolling = hist'
      BY <1>0, <1>1, <2>1, <2>2, <2>3 DEF RollingSteps, BetweenWorkers, RunInv, RowsInv,
         Attempt
    <3>6. pc'[r] \in BeforeServe \ {"snapshots", "existing", "catching", "serve"}
      BY <1>3, <2>2, <2>3
    <3> HIDE DEF to
    <3> QED BY <1>1, <1>2, <1>4, <2>1, <2>3, <3>1, <3>3, <3>4, <3>5, <3>6, QuietMove
  <2> HIDE DEF ok, to
  <2> QED BY <1>0, <1>1, <1>3, <2>1, <2>3, StepKeeps
<1>6. CASE HistoryState(r)
  <2> DEFINE ok == /\ Free(Named(r, "state")) /\ Data \subseteq running
                   /\ hist = Partial /\ ~delivered
             m == [mem[r] EXCEPT !.rolling = hist]
  <2>1. /\ pc[r] = "state" /\ UNCHANGED <<running, cred>> /\ ok \in BOOLEAN
        /\ Step(r, "state", ok, "repair", m)
    BY <1>6 DEF HistoryState, Phase, Step, Free
  <2>2. mem[r].attempt = 5 /\ Opening(r)
    BY <1>0, <2>1 DEF Attempt, RunInv, StageInv
  <2>3. /\ m.attempt = mem[r].attempt /\ m.owned = mem[r].owned /\ m.round = mem[r].round
        /\ m.end = mem[r].end /\ m.goal = mem[r].goal /\ m.last = mem[r].last
        /\ m.rolling = hist
    BY <1>0, Numbers DEF Fields
  <2> HIDE DEF ok, m
  <2>4. ASSUME pc'[r] = "repair", mem'[r] = m PROVE RunInv(r)'
    <3>1. StageInv(r)'
      BY <2>2, <2>3, <2>4 DEF StageInv, Opening, Creating, BackupSteps, ServeSteps, Attempt
    <3>2. PasswordInv(r)' BY <2>4 DEF PasswordInv, BackupSteps
    <3>3. FilledInv(r)' BY <2>4 DEF FilledInv, BackupSteps, ServeSteps
    <3> QED BY <1>1, <1>2, <1>3, <2>1, <2>2, <2>3, <2>4, <3>1, <3>2, <3>3, QuietMove
  <2> QED BY <1>0, <1>1, <1>3, <2>1, <2>3, <2>4, StepKeeps
<1>7. CASE Repair(r)
  <2> DEFINE ok == Attempt(r) = 2 \/ Free(Named(r, "init"))
  <2>1. /\ pc[r] = "repair" /\ cred' = cred /\ running' \subseteq running
        /\ ok \in BOOLEAN /\ Step(r, "repair", ok, "dump", mem[r])
    BY <1>7 DEF Repair, Step, Free
  <2>2. mem[r].attempt # 0 /\ Opening(r) /\ mem[r].rolling = hist
    BY <1>0, <2>1 DEF Attempt, RunInv, StageInv, RowsInv, RollingSteps
  <2>3. ASSUME pc'[r] = "dump", mem'[r] = mem[r] PROVE RunInv(r)'
    <3>1. StageInv(r)'
      BY <2>2, <2>3 DEF StageInv, Opening, Creating, BackupSteps, ServeSteps
    <3>2. ~Second(r)' BY <2>2, <2>3 DEF Second, Gap, Tailing, Opening, Attempt
    <3>3. PasswordInv(r)' BY <2>3, <3>2 DEF PasswordInv
    <3>4. FilledInv(r)' BY <2>3, <3>2 DEF FilledInv, ServeSteps
    <3> QED BY <1>1, <1>2, <1>3, <2>1, <2>2, <2>3, <3>1, <3>3, <3>4, QuietMove
  <2> HIDE DEF ok
  <2> QED BY <1>0, <1>1, <1>3, <2>1, <2>3, StepKeeps
<1>8. CASE Rotate(r)
  <2> DEFINE ok == Free(Named(r, "rotate")) /\ Data \subseteq running /\ TRUE
  <2>1. /\ pc[r] = "rotate" /\ running' = running /\ ok \in BOOLEAN
        /\ Step(r, "rotate", ok, "goal", mem[r])
        /\ cred' = IF pc'[r] = "goal" THEN mem[r].attempt ELSE cred
    BY <1>8 DEF Rotate, Phase, Step, Free, Attempt
  <2>2. mem[r].attempt \in 1..4 /\ Gap(r) /\ mem[r].rolling = hist
    BY <1>0, <2>1 DEF Attempt, RunInv, StageInv, RowsInv, RollingSteps
  <2>3. ASSUME pc'[r] = "goal", mem'[r] = mem[r] PROVE RunInv(r)'
    <3>1. StageInv(r)'
      BY <2>2, <2>3 DEF StageInv, Gap, Creating, BackupSteps, ServeSteps, Attempt
    <3>2. PasswordInv(r)' BY <2>1, <2>3 DEF PasswordInv, Attempt, BackupSteps
    <3>3. FilledInv(r)' BY <2>3 DEF FilledInv, BackupSteps, ServeSteps
    <3> QED BY <1>1, <1>2, <1>3, <2>1, <2>2, <2>3, <3>1, <3>2, <3>3, QuietMove
  <2>4. cred' = cred \/ (mem[r].attempt \in 1..4 /\ cred' = mem[r].attempt)
    BY <2>1, <2>2
  <2> HIDE DEF ok
  <2> QED BY <1>0, <1>1, <1>3, <2>1, <2>3, <2>4, StepKeeps
<1>9. CASE PostState(r)
  <2> DEFINE ok == /\ Free(Named(r, "post")) /\ Data \subseteq running
                   /\ hist = mem[r].rolling /\ ~delivered
  <2>1. /\ pc[r] = "post" /\ UNCHANGED <<running, cred>> /\ ok \in BOOLEAN
        /\ Step(r, "post", ok, "volume", mem[r])
    BY <1>9 DEF PostState, Phase, Step, Free
  <2>2. mem[r].attempt = 5 /\ Tailing(r) /\ mem[r].rolling = hist /\ Filled(r)
    BY <1>0, <2>1 DEF Attempt, RunInv, StageInv, RowsInv, BackedInv, FilledInv,
       RollingSteps, BetweenWorkers
  <2>3. ASSUME pc'[r] = "volume", mem'[r] = mem[r] PROVE RunInv(r)'
    <3>1. StageInv(r)'
      BY <2>2, <2>3 DEF StageInv, Second, Tailing, Creating, BackupSteps, ServeSteps, Attempt
    <3>2. PasswordInv(r)' BY <2>2, <2>3 DEF PasswordInv, Attempt, BackupSteps
    <3>3. FilledInv(r)'
      BY <2>2, <2>3 DEF FilledInv, BackupSteps, ServeSteps, Filled, Goal, Final
    <3> QED BY <1>1, <1>2, <1>3, <2>1, <2>2, <2>3, <3>1, <3>2, <3>3, QuietMove
  <2> HIDE DEF ok
  <2> QED BY <1>0, <1>1, <1>3, <2>1, <2>3, StepKeeps
<1> QED BY <1>5, <1>6, <1>7, <1>8, <1>9 DEF Continuation

\* The loops of the catch-up: the goal of the gap, the goal of the tail, and the
\* turn that ends a loop or starts a worker.
LEMMA LoopKeeps ==
  ASSUME OwnerInv, StopInv, Account, TypeOK', NEW r \in Runs, SetGoal(r) \/ NextBatch(r)
  PROVE  Account'
<1>0. /\ RunInv(r) /\ ClockInv /\ TypeOK /\ mem[r].attempt \in 0..5
      /\ mem[r].end <= now /\ mem[r].goal <= now /\ mem[r].last <= now
      /\ \A s \in Symbols : hist[s] <= now
      /\ now \in Nat /\ now >= 1 /\ mem[r].goal \in Nat /\ mem[r].last \in Nat
      /\ mem[r].rolling \in Anchors
  BY Numbers DEF Account, ClockInv
<1>1. UNCHANGED <<fileVars, now, status, delivered, hist, cred>>
      /\ pc[r] \in {"goal", "final", "batch"}
  BY DEF SetGoal, NextBatch, Step, dbVars, serveVars, envVars, dockerVars
<1>2. pc[r] \in BeforeServe \ {"catching", "serve"} /\ pc[r] \in Working
  BY <1>1 DEF BeforeServe, Working, WorkerModes, ServeSteps
<1>3. mem[r].rolling = hist
      /\ (mem[r].attempt = 0
            => \A s, t \in Symbols : mem[r].rolling[s] = mem[r].rolling[t])
  BY <1>0, <1>1 DEF RunInv, RowsInv, Attempt, RollingSteps, BetweenWorkers
<1>4. "batch" \in BeforeServe \ {"snapshots", "existing", "catching", "serve"}
  BY DEF BeforeServe, Working, ServeSteps
<1> USE DEF dockerVars, dbVars, serveVars, envVars
<1>5. CASE Step(r, "goal", TRUE, "batch", [mem[r] EXCEPT !.goal = now]) /\ SetGoal(r)
  <2> DEFINE m == [mem[r] EXCEPT !.goal = now]
  <2>1. pc[r] = "goal" /\ running' = running /\ Step(r, "goal", TRUE, "batch", m)
    BY <1>5 DEF SetGoal, Step
  <2>2. mem[r].attempt # 0 /\ Gap(r) /\ (mem[r].attempt \in 1..4 => cred = mem[r].attempt)
    BY <1>0, <2>1 DEF Attempt, RunInv, StageInv, PasswordInv
  <2>3. /\ m.attempt = mem[r].attempt /\ m.owned = mem[r].owned /\ m.round = mem[r].round
        /\ m.end = mem[r].end /\ m.goal = now /\ m.last = mem[r].last
        /\ m.rolling = mem[r].rolling
    BY <1>0, Numbers DEF Fields
  <2> HIDE DEF m
  <2>4. ASSUME pc'[r] = "batch", mem'[r] = m PROVE RunInv(r)'
    <3>1. StageInv(r)'
      BY <2>2, <2>3, <2>4 DEF StageInv, Gap, Creating, BackupSteps, ServeSteps, Attempt
    <3>2. PasswordInv(r)'
      BY <1>1, <2>2, <2>3, <2>4 DEF PasswordInv, BackupSteps, Attempt
    <3>3. FilledInv(r)'
      BY <2>2, <2>3, <2>4 DEF FilledInv, BackupSteps, ServeSteps, Tailing, Gap
    <3> QED BY <1>1, <1>2, <1>3, <1>4, <2>1, <2>3, <2>4, <3>1, <3>2, <3>3, QuietMove
  <2>5. m.goal <= now /\ "goal" \in Working /\ TRUE \in BOOLEAN
    BY <1>0, <2>3 DEF Working
  <2> QED BY <1>0, <1>1, <2>1, <2>3, <2>4, <2>5, StepKeeps
<1>6. CASE Step(r, "final", TRUE, "batch", [mem[r] EXCEPT !.last = now, !.batch = 0])
           /\ SetGoal(r)
  <2> DEFINE m == [mem[r] EXCEPT !.last = now, !.batch = 0]
  <2>1. pc[r] = "final" /\ running' = running /\ Step(r, "final", TRUE, "batch", m)
    BY <1>6 DEF SetGoal, Step
  <2>2. /\ mem[r].round = (IF mem[r].attempt \in {0, 5} THEN 1 ELSE 2)
        /\ mem[r].attempt \in 1..4 => cred = mem[r].attempt
        /\ mem[r].attempt # 5 => Backed(r)
    BY <1>0, <2>1 DEF Attempt, RunInv, StageInv, PasswordInv, BackedInv, FilledInv
  <2>3. /\ m.attempt = mem[r].attempt /\ m.owned = mem[r].owned /\ m.round = mem[r].round
        /\ m.end = mem[r].end /\ m.goal = mem[r].goal /\ m.last = now
        /\ m.rolling = mem[r].rolling /\ m.verified = mem[r].verified
    BY <1>0, Numbers DEF Fields
  <2> HIDE DEF m
  <2>4. ASSUME pc'[r] = "batch", mem'[r] = m PROVE RunInv(r)'
    <3>1. StageInv(r)'
      BY <1>0, <2>2, <2>3, <2>4 DEF StageInv, Tailing, Creating, BackupSteps, ServeSteps,
         Attempt
    <3>2. PasswordInv(r)'
      BY <1>1, <2>2, <2>3, <2>4 DEF PasswordInv, BackupSteps, Attempt
    <3>3. FilledInv(r)'
      BY <2>2, <2>3, <2>4 DEF FilledInv, BackupSteps, ServeSteps, Backed, Attempt
    <3> QED BY <1>1, <1>2, <1>3, <1>4, <2>1, <2>3, <2>4, <3>1, <3>2, <3>3, QuietMove
  <2>5. m.last <= now /\ "final" \in Working /\ TRUE \in BOOLEAN
    BY <1>0, <2>3 DEF Working
  <2> QED BY <1>0, <1>1, <2>1, <2>3, <2>4, <2>5, StepKeeps
<1>7. ASSUME NextBatch(r), Earliest(mem[r].rolling) >= Goal(r) PROVE Account'
  <2>1. /\ pc[r] = "batch" /\ UNCHANGED <<exists, running>>
        /\ Step(r, "batch", TRUE, AfterLoop(r), mem[r])
    BY <1>7 DEF NextBatch, Step
  <2>2. Filled(r)
    <3>1. Goal(r) \in Nat BY <1>0 DEF Goal
    <3>2. /\ Earliest(mem[r].rolling) \in Nat
          /\ \A s \in Symbols : /\ Earliest(mem[r].rolling) <= mem[r].rolling[s]
                                /\ mem[r].rolling[s] \in Nat
      BY <1>0, EarliestIsLeast, Values, Numbers
    <3> QED BY <1>7, <3>1, <3>2 DEF Filled
  <2>3. /\ Gap(r) \/ Tailing(r)
        /\ mem[r].attempt \in 1..4 => cred = mem[r].attempt
        /\ mem[r].attempt # 5 /\ Tailing(r) => Backed(r)
    BY <1>0, <2>1 DEF Attempt, RunInv, StageInv, PasswordInv, BackedInv, FilledInv
  <2>4. ASSUME pc'[r] = AfterLoop(r), mem'[r] = mem[r] PROVE RunInv(r)'
    <3>0. Filled(r)' /\ (Backed(r)' <=> Backed(r))
      BY <2>2, <2>4 DEF Filled, Goal, Final, Backed, Attempt
    <3>1. CASE Gap(r)
      <4>1. /\ pc'[r] \in {"dump", "final", "volume"}
            /\ pc'[r] = "dump" <=> mem[r].attempt = 0
            /\ pc'[r] = "final" <=> mem[r].attempt = 5
        BY <1>0, <2>4, <3>1 DEF AfterLoop, Gap, Final, Attempt
      <4>2. StageInv(r)'
        BY <1>0, <2>4, <3>1, <4>1 DEF StageInv, Opening, Gap, Tailing, Second, Creating,
           BackupSteps, ServeSteps, Attempt
      <4>3. PasswordInv(r)'
        BY <1>1, <2>3, <2>4, <4>1 DEF PasswordInv, Attempt, BackupSteps
      <4>4. FilledInv(r)'
        BY <2>4, <3>0, <4>1 DEF FilledInv, BackupSteps, ServeSteps, Attempt
      <4>5. pc'[r] \in BeforeServe \ {"snapshots", "existing", "catching", "serve"}
        BY <4>1 DEF BeforeServe, Working, ServeSteps
      <4> QED BY <1>1, <1>2, <1>3, <2>1, <2>4, <4>2, <4>3, <4>4, <4>5, QuietMove
    <3>2. CASE Tailing(r)
      <4>1. /\ pc'[r] \in {"post", "qualify"}
            /\ pc'[r] = "post" <=> mem[r].attempt = 5
        BY <1>0, <2>4, <3>2 DEF AfterLoop, Tailing, Final, Attempt
      <4>2. StageInv(r)'
        BY <1>0, <2>4, <3>2, <4>1 DEF StageInv, Tailing, Creating,
           BackupSteps, ServeSteps, Attempt
      <4>3. PasswordInv(r)' BY <4>1 DEF PasswordInv, BackupSteps
      <4>4. FilledInv(r)'
        BY <2>3, <2>4, <3>0, <3>2, <4>1 DEF FilledInv, BackupSteps, ServeSteps, Attempt
      <4>5. pc'[r] \in BeforeServe \ {"snapshots", "existing", "catching", "serve"}
        BY <4>1 DEF BeforeServe, Working, WorkerModes, ServeSteps
      <4> QED BY <1>1, <1>2, <1>3, <2>1, <2>4, <4>2, <4>3, <4>4, <4>5, QuietMove
    <3> QED BY <2>3, <3>1, <3>2
  <2>5. "batch" \in Working /\ TRUE \in BOOLEAN BY DEF Working
  <2> QED BY <1>0, <1>1, <2>1, <2>4, <2>5, StepKeeps
<1>8. ASSUME NextBatch(r), ~(Earliest(mem[r].rolling) >= Goal(r)) PROVE Account'
  <2> DEFINE ends == BatchEnds(mem[r].rolling, Goal(r))
             c == Named(r, "catchup")
             ok == ends # {} /\ BatchesLeft(r) /\ Free(c)
             m == [mem[r] EXCEPT !.batch = @ + 1, !.end = Max(ends), !.base = hist,
                     !.created = @ \union {c}]
  <2>1. /\ pc[r] = "batch" /\ Step(r, "batch", ok, "catching", m) /\ ok \in BOOLEAN
        /\ running' = IF ok THEN running \union {c} ELSE running
    BY <1>8 DEF NextBatch, Step, BatchesLeft, Free
  <2>2. /\ m.attempt = mem[r].attempt /\ m.owned = mem[r].owned /\ m.round = mem[r].round
        /\ m.end = Max(ends) /\ m.goal = mem[r].goal /\ m.last = mem[r].last
        /\ m.rolling = mem[r].rolling /\ m.verified = mem[r].verified
    <3> HIDE DEF ends, c
    <3> QED BY <1>0, Numbers DEF Fields
  <2>3. ASSUME ok
        PROVE  /\ Earliest(mem[r].rolling) < Max(ends) /\ Max(ends) <= Goal(r)
               /\ Required(mem[r].rolling, Max(ends)) <= AppendLimit
               /\ Max(ends) \in Nat
    <3>1. Goal(r) \in Minutes
      BY <1>0, TypeParts DEF Goal, RunTypes, Memory
    <3> QED BY <1>0, <2>3, <3>1, ChosenEnd, Values
  <2>4. ok => Max(ends) <= now
    <3> HIDE DEF ok, ends
    <3> QED BY <1>0, <2>3 DEF Goal
  <2>5. /\ Gap(r) \/ Tailing(r)
        /\ mem[r].attempt \in 1..4 => cred = mem[r].attempt
        /\ mem[r].attempt # 5 /\ Tailing(r) => Backed(r)
        /\ status.state = "none" /\ Serve \notin running
    BY <1>0, <1>2, <2>1 DEF Attempt, RunInv, StageInv, PasswordInv, BackedInv, FilledInv,
       LiveInv
  <2>6. Serve # c BY DEF Serve, Named
  <2> HIDE DEF m, ends, c
  <2>7. ASSUME ok, pc'[r] = "catching", mem'[r] = m PROVE RunInv(r)'
    <3>0. (Gap(r)' <=> Gap(r)) /\ (Tailing(r)' <=> Tailing(r)) /\ (Backed(r)' <=> Backed(r))
          /\ Goal(r)' = Goal(r)
      BY <2>2, <2>7 DEF Gap, Tailing, Backed, Attempt, Goal, Final
    <3>1. StageInv(r)'
      BY <2>5, <2>7, <3>0 DEF StageInv, Creating, BackupSteps, ServeSteps
    <3>2. PasswordInv(r)' BY <1>1, <2>2, <2>5, <2>7 DEF PasswordInv, BackupSteps, Attempt
    <3>3. RowsInv(r)'
      <4>1. \A s \in Symbols : mem'[r].rolling[s] = hist'[s] /\ hist'[s] \in Nat
        BY <1>0, <1>1, <1>3, <2>2, <2>7, Numbers
      <4>2. /\ Required(mem'[r].rolling, mem'[r].end) <= AppendLimit
            /\ Earliest(mem'[r].rolling) < mem'[r].end /\ mem'[r].end <= Goal(r)'
        BY <2>2, <2>3, <2>7, <3>0
      <4> HIDE DEF ok
      <4> QED BY <1>3, <2>2, <2>7, <4>1, <4>2 DEF RowsInv, RollingSteps,
                 BetweenWorkers, Attempt
    <3>4. BackedInv(r)'
      BY <1>0, <1>1, <1>2, <2>2, <2>5, <2>7, <3>0 DEF RunInv, BackedInv, FilledInv,
         BackupSteps, ServeSteps, Attempt
    <3>5. LiveInv(r)' BY <1>1, <2>1, <2>5, <2>6, <2>7 DEF LiveInv, ServeSteps
    <3> QED BY <3>1, <3>2, <3>3, <3>4, <3>5 DEF RunInv
  <2>8. CASE ok
    <3>1. "batch" \in Working BY DEF Working
    <3> HIDE DEF ok
    <3> QED BY <1>0, <1>1, <2>1, <2>2, <2>4, <2>7, <2>8, <3>1, StepKeeps
  <2>9. CASE ~ok
    <3>1. Step(r, "batch", FALSE, "catching", mem[r]) /\ "batch" \in Working
          /\ running' = running
      BY <2>1, <2>9 DEF Step, Working
    <3> QED BY <1>0, <1>1, <3>1, StepKeeps
  <2> QED BY <2>8, <2>9
<1> QED BY <1>5, <1>6, <1>7, <1>8 DEF SetGoal

\* backup_and_verify: a second backup is of the filled history.
LEMMA BackupKeeps ==
  ASSUME OwnerInv, StopInv, Account, TypeOK', NEW r \in Runs, Backup(r)
  PROVE  Account'
<1>0. /\ RunInv(r) /\ ClockInv /\ TypeOK /\ mem[r].attempt \in 0..5
      /\ mem[r].round \in 0..2
      /\ mem[r].end <= now /\ mem[r].goal <= now /\ mem[r].last <= now
      /\ \A s \in Symbols : hist[s] <= now
  BY Numbers DEF Account, ClockInv
<1>1. UNCHANGED <<fileVars, now, status, delivered, hist, cred>>
      /\ pc[r] \in BackupSteps \union {"volume"} /\ running' \subseteq running \union {Clone}
  BY DEF Backup, CreateRestoreVolume, Dump, RestoreClone, VerifyRestore, RemoveClone, Phase,
     Step, dbVars, serveVars, envVars, dockerVars, BackupSteps
<1>2. pc[r] \in BeforeServe \ {"catching", "serve"} /\ pc[r] \in Working
  BY <1>1 DEF BeforeServe, Working, WorkerModes, ServeSteps, BackupSteps
<1>3. mem[r].rolling = hist
      /\ (mem[r].attempt = 0
            => \A s, t \in Symbols : mem[r].rolling[s] = mem[r].rolling[t])
  BY <1>0, <1>1 DEF RunInv, RowsInv, Attempt, RollingSteps, BetweenWorkers, BackupSteps
<1>4. /\ Serve \in running' => Serve \in running
      /\ Named(r, "catchup") \in running' => Named(r, "catchup") \in running
  BY <1>1 DEF Serve, Clone, Named
<1>5. Opening(r) \/ Second(r)
  BY <1>0, <1>1 DEF RunInv, StageInv
<1>6. /\ Second(r) => Filled(r)
      /\ mem[r].attempt \in 1..4 /\ Second(r) => cred = mem[r].attempt
  BY <1>0, <1>1 DEF RunInv, BackedInv, FilledInv, PasswordInv, Attempt
<1>7. ASSUME pc'[r] \in BackupSteps \ {"unclone"}, Same(r) PROVE RunInv(r)'
  <2>1. /\ (Opening(r)' <=> Opening(r)) /\ (Second(r)' <=> Second(r))
        /\ (Filled(r)' <=> Filled(r))
    BY <1>7 DEF Opening, Second, Gap, Tailing, Filled, Goal, Final, Attempt, Same
  <2>2. StageInv(r)'
    BY <1>5, <1>7, <2>1 DEF StageInv, Creating, BackupSteps, ServeSteps
  <2>3. PasswordInv(r)'
    BY <1>1, <1>6, <1>7, <2>1 DEF PasswordInv, BackupSteps, Attempt, Same
  <2>4. FilledInv(r)' BY <1>6, <1>7, <2>1 DEF FilledInv, BackupSteps, ServeSteps
  <2>5. pc'[r] \in BeforeServe \ {"snapshots", "existing", "catching", "serve"}
    BY <1>7 DEF BeforeServe, BackupSteps, Working, WorkerModes, ServeSteps
  <2> QED BY <1>1, <1>2, <1>3, <1>4, <1>7, <2>2, <2>3, <2>4, <2>5, QuietMove DEF Same
<1> USE DEF dockerVars, dbVars, serveVars, envVars
<1>8. CASE CreateRestoreVolume(r)
  <2>1. Step(r, "volume", Free(Named(r, "init")), "dump", mem[r])
        /\ Free(Named(r, "init")) \in BOOLEAN /\ "volume" \in Working
    BY <1>8 DEF CreateRestoreVolume, Free, Working
  <2>2. pc'[r] = "dump" /\ mem'[r] = mem[r] => RunInv(r)'
    BY <1>7 DEF Same, BackupSteps
  <2> QED BY <1>0, <1>1, <1>4, <2>1, <2>2, StepKeeps
<1>9. CASE Dump(r)
  <2> DEFINE m == [mem[r] EXCEPT !.dump = hist]
  <2>1. Step(r, "dump", Target \in running, "clone", m)
        /\ (Target \in running) \in BOOLEAN /\ "dump" \in Working
    BY <1>9 DEF Dump, Working
  <2>2. /\ m.attempt = mem[r].attempt /\ m.owned = mem[r].owned
        /\ m.end = mem[r].end /\ m.goal = mem[r].goal /\ m.last = mem[r].last
        /\ mem'[r] = m => Same(r)
    BY <1>0, Numbers DEF Same, Fields
  <2> HIDE DEF m
  <2>3. pc'[r] = "clone" /\ mem'[r] = m => RunInv(r)' BY <1>7, <2>2 DEF BackupSteps
  <2> QED BY <1>0, <1>1, <1>4, <2>1, <2>2, <2>3, StepKeeps
<1>10. CASE RestoreClone(r)
  <2> DEFINE m == [mem[r] EXCEPT !.created = @ \union {Clone}]
  <2>1. Step(r, "clone", Free(Clone), "verify", m)
        /\ Free(Clone) \in BOOLEAN /\ "clone" \in Working
    BY <1>10 DEF RestoreClone, Working, Free
  <2>2. /\ m.attempt = mem[r].attempt /\ m.owned = mem[r].owned
        /\ m.end = mem[r].end /\ m.goal = mem[r].goal /\ m.last = mem[r].last
        /\ mem'[r] = m => Same(r)
    BY <1>0, Numbers DEF Same, Fields
  <2> HIDE DEF m
  <2>3. pc'[r] = "verify" /\ mem'[r] = m => RunInv(r)' BY <1>7, <2>2 DEF BackupSteps
  <2> QED BY <1>0, <1>1, <1>4, <2>1, <2>2, <2>3, StepKeeps
<1>11. CASE VerifyRestore(r)
  <2> DEFINE ok == Free(Named(r, "verify")) /\ Data \subseteq running /\ RestoreExact(r)
             m == [mem[r] EXCEPT !.verified = mem[r].dump]
  <2>1. /\ Step(r, "verify", ok, "unclone", m) /\ pc[r] = "verify"
        /\ ok \in BOOLEAN /\ "verify" \in Working /\ running' = running
    BY <1>11 DEF VerifyRestore, Working, WorkerModes, Free, RestoreExact, Phase, Step
  <2>2. /\ m.attempt = mem[r].attempt /\ m.owned = mem[r].owned /\ m.round = mem[r].round
        /\ m.end = mem[r].end /\ m.goal = mem[r].goal /\ m.last = mem[r].last
        /\ m.rolling = mem[r].rolling /\ m.verified = mem[r].dump
    BY <1>0, Numbers DEF Fields
  <2>3. ok => mem[r].dump = mem[r].rolling BY DEF RestoreExact
  <2> HIDE DEF m, ok
  <2>4. ASSUME ok, pc'[r] = "unclone", mem'[r] = m PROVE RunInv(r)'
    <3>1. /\ (Opening(r)' <=> Opening(r)) /\ (Second(r)' <=> Second(r))
          /\ (Filled(r)' <=> Filled(r))
      BY <2>2, <2>4 DEF Opening, Second, Gap, Tailing, Filled, Goal, Final, Attempt
    <3>2. Second(r) => Backed(r)'
      BY <1>6, <2>2, <2>3, <2>4 DEF Backed, Filled, Goal, Final, Second, Gap, Tailing, Attempt
    <3>3. StageInv(r)' BY <1>5, <2>4, <3>1 DEF StageInv, Creating, BackupSteps, ServeSteps
    <3>4. PasswordInv(r)'
      BY <1>1, <1>6, <2>2, <2>4, <3>1 DEF PasswordInv, Attempt
    <3>5. FilledInv(r)' BY <1>6, <2>4, <3>1, <3>2 DEF FilledInv, ServeSteps
    <3>6. "unclone" \in BeforeServe \ {"snapshots", "existing", "catching", "serve"}
      BY DEF BeforeServe, Working, ServeSteps
    <3> QED BY <1>1, <1>2, <1>3, <1>4, <2>2, <2>4, <3>3, <3>4, <3>5, <3>6, QuietMove
  <2> QED BY <1>0, <1>1, <1>4, <2>1, <2>2, <2>4, StepKeeps
<1>12. CASE RemoveClone(r)
  <2> DEFINE m == [mem[r] EXCEPT !.round = @ + 1, !.created = @ \ {Clone}]
  <2>1. /\ Step(r, "unclone", Clone \in running, AfterBackup(r), m) /\ pc[r] = "unclone"
        /\ (Clone \in running) \in BOOLEAN /\ "unclone" \in Working
    BY <1>12 DEF RemoveClone, Working, Step
  <2>2. /\ m.attempt = mem[r].attempt /\ m.owned = mem[r].owned
        /\ m.round = mem[r].round + 1
        /\ m.end = mem[r].end /\ m.goal = mem[r].goal /\ m.last = mem[r].last
        /\ m.rolling = mem[r].rolling /\ m.verified = mem[r].verified
    BY <1>0, Numbers DEF Fields
  <2>3. Second(r) => Backed(r)
    BY <1>0, <2>1 DEF RunInv, BackedInv, FilledInv
  <2> HIDE DEF m
  <2>4. ASSUME pc'[r] = AfterBackup(r), mem'[r] = m PROVE RunInv(r)'
    <3>1. (Filled(r)' <=> Filled(r)) /\ (Backed(r)' <=> Backed(r))
      BY <2>2, <2>4 DEF Filled, Goal, Final, Attempt, Backed
    <3>2. CASE mem[r].attempt = 0 \/ (mem[r].round = 1 /\ mem[r].attempt # 5)
      <4>1. pc'[r] = "final" BY <2>4, <3>2 DEF AfterBackup, Attempt
      <4>2. Second(r) /\ mem[r].last = 0 /\ mem[r].attempt # 5
            /\ mem'[r].round = IF mem[r].attempt \in {0, 5} THEN 1 ELSE 2
        BY <1>0, <1>5, <2>2, <2>4, <3>2 DEF Opening, Second, Gap, Tailing, Attempt
      <4>3. StageInv(r)'
        BY <2>2, <2>4, <4>1, <4>2 DEF StageInv, Creating, BackupSteps, ServeSteps, Attempt
      <4>4. PasswordInv(r)'
        BY <1>1, <1>6, <2>2, <2>4, <4>1, <4>2 DEF PasswordInv, Attempt, BackupSteps
      <4>5. FilledInv(r)'
        BY <1>6, <2>3, <3>1, <4>1, <4>2 DEF FilledInv, BackupSteps, ServeSteps
      <4>6. "final" \in BeforeServe \ {"snapshots", "existing", "catching", "serve"}
        BY DEF BeforeServe, Working, ServeSteps
      <4> QED BY <1>1, <1>2, <1>3, <1>4, <2>2, <2>4, <4>1, <4>3, <4>4, <4>5, <4>6,
                 QuietMove
    <3>3. CASE mem[r].round = 1 /\ mem[r].attempt = 5
      <4>1. pc'[r] = "qualify" BY <2>4, <3>3 DEF AfterBackup, Attempt
      <4>2. Second(r) /\ mem[r].last # 0 /\ mem'[r].round = 2
        BY <1>0, <1>5, <2>2, <2>4, <3>3 DEF Opening, Second, Gap, Tailing, Attempt
      <4>3. StageInv(r)'
        BY <2>2, <2>4, <3>3, <4>1, <4>2 DEF StageInv, Creating, BackupSteps, ServeSteps,
           Attempt
      <4>4. PasswordInv(r)' BY <4>1 DEF PasswordInv, BackupSteps
      <4>5. FilledInv(r)'
        BY <1>6, <2>3, <3>1, <4>1, <4>2 DEF FilledInv, BackupSteps
      <4>6. "qualify" \in BeforeServe \ {"snapshots", "existing", "catching", "serve"}
        BY DEF BeforeServe, Working, WorkerModes, ServeSteps
      <4> QED BY <1>1, <1>2, <1>3, <1>4, <2>2, <2>4, <4>1, <4>3, <4>4, <4>5, <4>6,
                 QuietMove
    <3>4. CASE mem[r].attempt # 0 /\ mem[r].round # 1
      <4>1. Opening(r)
        BY <1>0, <1>5, <3>4 DEF Opening, Second, Gap, Tailing, Attempt
      <4>2. /\ pc'[r] \in {"goal", "rotate"} /\ Gap(r)'
            /\ (pc'[r] = "goal" <=> mem[r].attempt = 5)
        BY <1>0, <2>2, <2>4, <3>4, <4>1 DEF AfterBackup, Attempt, Opening, Gap
      <4>3. StageInv(r)'
        BY <1>0, <2>2, <2>4, <3>4, <4>2 DEF StageInv, Creating, BackupSteps, ServeSteps,
           Attempt
      <4>4. PasswordInv(r)' BY <2>2, <2>4, <4>2 DEF PasswordInv, BackupSteps, Attempt
      <4>5. FilledInv(r)' BY <4>2 DEF FilledInv, BackupSteps, ServeSteps
      <4>6. pc'[r] \in BeforeServe \ {"snapshots", "existing", "catching", "serve"}
        BY <4>2 DEF BeforeServe, Working, WorkerModes, ServeSteps
      <4> QED BY <1>1, <1>2, <1>3, <1>4, <2>2, <2>4, <4>3, <4>4, <4>5, <4>6, QuietMove
    <3> QED BY <3>2, <3>3, <3>4
  <2> QED BY <1>0, <1>1, <1>4, <2>1, <2>2, <2>4, StepKeeps
<1> QED BY <1>8, <1>9, <1>10, <1>11, <1>12 DEF Backup

\* A step of the owner while serve is up: its account is closed, only what it has
\* seen of serve grows.
LEMMA ServeMove ==
  ASSUME OwnerInv, Account, NEW r \in Runs, pc[r] \in ServeSteps,
         pc'[r] \in ServeSteps \union {"passed"},
         mem'[r].attempt = mem[r].attempt, mem'[r].owned = mem[r].owned,
         mem'[r].round = mem[r].round, mem'[r].last = mem[r].last,
         mem'[r].goal = mem[r].goal, mem'[r].rolling = mem[r].rolling,
         mem'[r].verified = mem[r].verified, UNCHANGED <<status, exists>>,
         Named(r, "catchup") \in running' => Named(r, "catchup") \in running,
         pc'[r] \in {"stop", "start", "restart"} => mem'[r].first.mark >= mem[r].last,
         pc'[r] \in {"after", "save", "passed"} =>
            /\ mem'[r].seen.mark > mem[r].last
            /\ \A s \in Symbols : hist'[s] >= mem'[r].seen.mark
  PROVE  RunInv(r)'
<1>1. RunInv(r) /\ mem[r].owned
  BY DEF Account, OwnerInv, ServeSteps, Working
<1>2. Backed(r) /\ Backed(r)'
  BY <1>1 DEF RunInv, BackedInv, FilledInv, Backed, Attempt
<1>3. pc'[r] \notin BeforeServe /\ pc[r] \in Working \ {"catching"}
  BY DEF BeforeServe, ServeSteps, Working, WorkerModes
<1>4. StageInv(r)'
  BY <1>1 DEF RunInv, StageInv, Creating, BackupSteps, ServeSteps, Attempt
<1>5. PasswordInv(r)' BY DEF PasswordInv, BackupSteps, ServeSteps
<1>6. RowsInv(r)'
  <2>1. Named(r, "catchup")' = Named(r, "catchup") BY DEF Named, Attempt
  <2>2. pc'[r] \notin RollingSteps \union {"snapshots", "existing", "catching"}
    BY DEF ServeSteps, RollingSteps, BetweenWorkers
  <2> QED BY <1>1, <1>3, <2>1, <2>2 DEF RunInv, RowsInv, Attempt
<1>7. BackedInv(r)'
  BY <1>2, <1>3 DEF BackedInv, FilledInv, BackupSteps, ServeSteps
<1>8. LiveInv(r)'
  BY <1>1, <1>2, <1>3 DEF RunInv, LiveInv
<1> QED BY <1>4, <1>5, <1>6, <1>7, <1>8 DEF RunInv

LEMMA ServingKeeps ==
  ASSUME OwnerInv, StopInv, Account, TypeOK', NEW r \in Runs, Serving(r)
  PROVE  Account'
<1>0. /\ RunInv(r) /\ ClockInv /\ TypeOK
      /\ mem[r].end <= now /\ mem[r].goal <= now /\ mem[r].last <= now
      /\ \A s \in Symbols : hist[s] <= now
      /\ now \in Nat /\ mem[r].first.mark \in Nat /\ mem[r].last \in Nat
      /\ status.mark \in Nat
  BY Numbers DEF Account, ClockInv
<1>1. UNCHANGED <<fileVars, now, status, cred>>
  BY DEF Serving, Qualify, StartServe, AwaitStatus, StopServe, RestartServe, PollRestart,
     WaitTimesOut, CompareAfter, SaveReceipt, dbVars, serveVars, envVars, fileVars
<1>2. {"qualify", "serve", "await", "stop", "start", "restart", "after", "save"}
        \subseteq Working
  BY DEF Working, WorkerModes
<1>3. pc[r] \in Working \ {"catching"} => Named(r, "catchup") \notin running
  BY <1>0 DEF RunInv, RowsInv
<1>4. Named(r, "catchup") # Serve BY DEF Named, Serve
<1> USE DEF dockerVars, dbVars, serveVars, envVars
<1>5. CASE Qualify(r)
  <2> DEFINE ok == Free(Named(r, "qualify")) /\ Data \subseteq running /\ TRUE
  <2>1. /\ pc[r] = "qualify" /\ UNCHANGED <<running, exists>> /\ ok \in BOOLEAN
        /\ Step(r, "qualify", ok, "serve", mem[r])
        /\ hist' = IF pc'[r] = "serve" THEN [s \in Symbols |-> now] ELSE hist
        /\ delivered' = (delivered \/ pc'[r] = "serve")
    BY <1>5 DEF Qualify, Phase, Step, Free
  <2> HIDE DEF ok
  <2>2. /\ status.state = "none" /\ Serve \notin running /\ Backed(r)
        /\ mem[r].last # 0 /\ mem[r].round = IF mem[r].attempt = 0 THEN 1 ELSE 2
        /\ Named(r, "catchup") \notin running
    BY <1>0, <1>2, <1>3, <2>1 DEF RunInv, LiveInv, BackedInv, FilledInv, StageInv, Attempt,
       BeforeServe, ServeSteps
  <2>3. pc'[r] = "serve" => ok
    <3>1. ~ok => Go(r, "cleanup", mem[r]) BY <2>1 DEF Step
    <3>2. RunTypes BY <1>0, TypeParts
    <3> QED BY <3>1, <3>2, GoMoves
  <2>4. ASSUME pc'[r] = "serve", mem'[r] = mem[r] PROVE RunInv(r)'
    <3>1. StageInv(r)'
      BY <2>2, <2>4 DEF StageInv, Creating, BackupSteps, ServeSteps, Attempt
    <3>2. PasswordInv(r)' BY <2>4 DEF PasswordInv, BackupSteps
    <3>3. RowsInv(r)'
      BY <1>0, <2>1, <2>2, <2>4 DEF RunInv, RowsInv, RollingSteps, BetweenWorkers, Attempt,
         Named
    <3>4. Backed(r)' BY <2>2, <2>4 DEF Backed, Attempt
    <3>5. BackedInv(r)' BY <2>4, <3>4 DEF BackedInv, FilledInv, BackupSteps
    <3>6. LiveInv(r)' BY <1>1, <2>1, <2>2, <2>4 DEF LiveInv, ServeSteps
    <3> QED BY <3>1, <3>2, <3>3, <3>5, <3>6 DEF RunInv
  <2>5. \A s \in Symbols : hist'[s] <= now BY <1>0, <2>1
  <2> QED BY <1>0, <1>1, <1>2, <2>1, <2>2, <2>3, <2>4, <2>5, StepKeeps
<1>6. CASE StartServe(r)
  <2> DEFINE m == [mem[r] EXCEPT !.created = @ \union {Serve}]
  <2>1. /\ pc[r] = "serve" /\ Step(r, "serve", Free(Serve), "await", m)
        /\ Free(Serve) \in BOOLEAN /\ UNCHANGED <<hist, delivered>>
        /\ exists' = exists \union {Serve}
        /\ running' = IF Free(Serve) THEN running \union {Serve} ELSE running
    BY <1>6 DEF StartServe, Step, Free
  <2>2. m.attempt = mem[r].attempt /\ m.owned = mem[r].owned /\ (mem'[r] = m => Same(r))
        /\ m.end = mem[r].end /\ m.goal = mem[r].goal /\ m.last = mem[r].last
    BY <1>0, Numbers DEF Same, Fields
  <2> HIDE DEF m
  <2>3. /\ status.state = "none" /\ Backed(r)
        /\ mem[r].last # 0 /\ mem[r].round = IF mem[r].attempt = 0 THEN 1 ELSE 2
        /\ Named(r, "catchup") \notin running
    BY <1>0, <1>2, <1>3, <2>1 DEF RunInv, LiveInv, BackedInv, FilledInv, StageInv, Attempt,
       BeforeServe, ServeSteps
  <2>4. ASSUME pc'[r] = "await", mem'[r] = m PROVE RunInv(r)'
    <3>0. Same(r) BY <2>2, <2>4
    <3>1. StageInv(r)'
      BY <2>3, <2>4, <3>0 DEF StageInv, Creating, BackupSteps, ServeSteps, Attempt, Same
    <3>2. PasswordInv(r)' BY <2>4 DEF PasswordInv, BackupSteps
    <3>3. RowsInv(r)'
      <4>1. Named(r, "catchup")' = Named(r, "catchup") BY <3>0 DEF Named, Attempt, Same
      <4> QED BY <1>0, <1>4, <2>1, <2>3, <2>4, <3>0, <4>1
                 DEF RunInv, RowsInv, RollingSteps, BetweenWorkers, Attempt, Same
    <3>4. Backed(r)' BY <2>3, <3>0 DEF Backed, Attempt, Same
    <3>5. BackedInv(r)'
      BY <2>4, <3>4 DEF BackedInv, FilledInv, BackupSteps, BeforeServe, ServeSteps
    <3>6. LiveInv(r)'
      BY <1>1, <2>1, <2>3, <2>4, <3>4 DEF LiveInv, BeforeServe, ServeSteps
    <3> QED BY <3>1, <3>2, <3>3, <3>5, <3>6 DEF RunInv
  <2> QED BY <1>0, <1>1, <1>2, <2>1, <2>2, <2>4, StepKeeps
<1>7. \/ UNCHANGED <<hist, delivered>> /\ (~StartServe(r) => exists' = exists)
      \/ Qualify(r)
  BY DEF Serving, StartServe, AwaitStatus, StopServe, RestartServe, PollRestart,
     WaitTimesOut, CompareAfter, SaveReceipt
<1>8. CASE AwaitStatus(r) /\ ~StartServe(r) /\ ~Qualify(r)
  <2> DEFINE m == [mem[r] EXCEPT !.first = status]
             ok == Fresh(status)
  <2>1. /\ pc[r] = "await" /\ status.state = "RUNNING" /\ running' = running
        /\ Step(r, "await", ok, "stop", m)
    BY <1>8 DEF AwaitStatus, Step
  <2>2. ok \in BOOLEAN BY DEF Fresh
  <2>3. /\ m.attempt = mem[r].attempt /\ m.owned = mem[r].owned /\ m.round = mem[r].round
        /\ m.end = mem[r].end /\ m.goal = mem[r].goal /\ m.last = mem[r].last
        /\ m.rolling = mem[r].rolling /\ m.verified = mem[r].verified /\ m.first = status
    BY <1>0, Numbers DEF Fields
  <2> HIDE DEF m, ok
  <2>4. status.mark >= mem[r].last
    BY <1>0, <1>2, <2>1 DEF RunInv, LiveInv, OwnerInv
  <2>5. ASSUME pc'[r] = "stop", mem'[r] = m PROVE RunInv(r)'
    <3>1. pc[r] \in ServeSteps /\ pc'[r] \in ServeSteps BY <2>1, <2>5 DEF ServeSteps
    <3> QED BY <1>1, <1>7, <1>8, <2>1, <2>3, <2>4, <2>5, <3>1, ServeMove
  <2> QED BY <1>0, <1>1, <1>2, <1>7, <1>8, <2>1, <2>2, <2>3, <2>5, StepKeeps
<1>9. ASSUME NEW from \in ServeSteps, NEW to \in ServeSteps \union {"passed"},
             NEW ok \in BOOLEAN,
             Step(r, from, ok, to, mem[r]), UNCHANGED <<hist, delivered, exists>>,
             Named(r, "catchup") \in running' => Named(r, "catchup") \in running,
             Serve \in running' => Serve \in running \/ ok,
             to \in {"stop", "start", "restart"} => from \in {"stop", "start"},
             to \in {"after", "save", "passed"} => ~ok \/ from \in {"after", "save"}
      PROVE  Account'
  <2>1. from \in Working /\ pc[r] = from BY <1>9 DEF ServeSteps, Working, Step
  <2>2. /\ from \in {"stop", "start"} => mem[r].first.mark >= mem[r].last
        /\ from \in {"after", "save"} =>
             /\ mem[r].seen.mark > mem[r].last
             /\ \A s \in Symbols : hist[s] >= mem[r].seen.mark
    BY <1>0, <2>1 DEF RunInv, LiveInv
  <2>3. ok /\ pc'[r] = to /\ mem'[r] = mem[r] => RunInv(r)'
    BY <1>1, <1>9, <2>1, <2>2, ServeMove
  <2> QED BY <1>0, <1>1, <1>9, <2>1, <2>3, StepKeeps
<1>10. CASE StopServe(r) /\ ~StartServe(r) /\ ~Qualify(r)
  <2> DEFINE ok == Fresh(mem[r].first)
  <2>1. Step(r, "stop", ok, "start", mem[r]) /\ running' \subseteq running
        /\ ok \in BOOLEAN
    BY <1>10 DEF StopServe, Fresh
  <2> HIDE DEF ok
  <2>2. "stop" \in ServeSteps /\ "start" \in ServeSteps BY DEF ServeSteps
  <2> QED BY <1>7, <1>9, <1>10, <2>1, <2>2
<1>11. CASE RestartServe(r) /\ ~StartServe(r) /\ ~Qualify(r)
  <2>1. Step(r, "start", TRUE, "restart", mem[r]) /\ running' = running \union {Serve}
    BY <1>11 DEF RestartServe
  <2>2. "start" \in ServeSteps /\ "restart" \in ServeSteps BY DEF ServeSteps
  <2> QED BY <1>4, <1>7, <1>9, <1>11, <2>1, <2>2
<1>12. CASE PollRestart(r) /\ ~StartServe(r) /\ ~Qualify(r)
  <2>1. pc[r] = "restart" /\ running' = running /\ "restart" \in ServeSteps
        /\ "after" \in ServeSteps
    BY <1>12 DEF PollRestart, ServeSteps
  <2>2. CASE Go(r, "cleanup", mem[r])
    <3>1. Step(r, "restart", FALSE, "after", mem[r]) BY <2>1, <2>2 DEF Step
    <3> QED BY <1>7, <1>9, <1>12, <2>1, <3>1
  <2>3. CASE /\ status.state = "RUNNING" /\ Progressed(r)
             /\ Step(r, "restart", Serve \in running, "after",
                     [mem[r] EXCEPT !.seen = status])
    <3> DEFINE m == [mem[r] EXCEPT !.seen = status]
               ok == Serve \in running
    <3>1. /\ m.attempt = mem[r].attempt /\ m.owned = mem[r].owned /\ m.round = mem[r].round
          /\ m.end = mem[r].end /\ m.goal = mem[r].goal /\ m.last = mem[r].last
          /\ m.rolling = mem[r].rolling /\ m.verified = mem[r].verified /\ m.seen = status
      BY <1>0, Numbers DEF Fields
    <3>2. Step(r, "restart", ok, "after", m) /\ ok \in BOOLEAN
      BY <2>3
    <3> HIDE DEF m, ok
    <3>3. status.mark > mem[r].last /\ \A s \in Symbols : hist[s] >= status.mark
      <4>1. mem[r].first.mark >= mem[r].last BY <1>0, <2>1 DEF RunInv, LiveInv
      <4> QED BY <1>0, <2>3, <4>1 DEF Progressed, ClockInv
    <3>4. ASSUME pc'[r] = "after", mem'[r] = m PROVE RunInv(r)'
      BY <1>1, <1>7, <1>12, <2>1, <3>1, <3>3, <3>4, ServeMove
    <3>5. "restart" \in Working /\ UNCHANGED <<hist, delivered>>
      BY <1>2, <1>7, <1>12
    <3> QED BY <1>0, <1>1, <2>1, <3>1, <3>2, <3>4, <3>5, StepKeeps
  <2> QED BY <1>12, <2>2, <2>3 DEF PollRestart
<1>13. CASE WaitTimesOut(r) /\ ~StartServe(r) /\ ~Qualify(r)
  <2>1. /\ running' = running /\ {"await", "stop", "restart", "after"} \subseteq ServeSteps
        /\ \/ Step(r, "await", FALSE, "after", mem[r])
           \/ Step(r, "restart", FALSE, "after", mem[r])
    BY <1>13 DEF WaitTimesOut, ServeSteps, Step
  <2> QED BY <1>7, <1>9, <1>13, <2>1
<1>14. CASE CompareAfter(r) /\ ~StartServe(r) /\ ~Qualify(r)
  <2> DEFINE ok == Attempt(r) = 0 \/ ChainRecorded(Attempt(r))
  <2>1. /\ running' = running /\ "after" \in ServeSteps /\ "save" \in ServeSteps
        /\ Step(r, "after", ok, "save", mem[r]) /\ ok \in BOOLEAN
    BY <1>14 DEF CompareAfter, ServeSteps, ChainRecorded
  <2> HIDE DEF ok
  <2> QED BY <1>7, <1>9, <1>14, <2>1
<1>15. CASE SaveReceipt(r) /\ ~StartServe(r) /\ ~Qualify(r)
  <2>1. /\ running' = running /\ "save" \in ServeSteps
        /\ Step(r, "save", TRUE, "passed", mem[r])
    BY <1>15 DEF SaveReceipt, ServeSteps
  <2> QED BY <1>7, <1>9, <1>15, <2>1
<1> QED BY <1>5, <1>6, <1>8, <1>10, <1>11, <1>12, <1>13, <1>14, <1>15 DEF Serving

-----------------------------------------------------------------------------
(* The containers and the clock                                            *)

\* What a step of a worker, of serve or of the clock may do to the account of a
\* run that does not move.
LEMMA Resting ==
  ASSUME Account, TypeOK', NEW r \in Runs, mem[r].owned,
         pc'[r] = pc[r], mem'[r] = mem[r],
         UNCHANGED <<exists, cred>>, running' \subseteq running,
         \A s \in Symbols : hist'[s] >= hist[s],
         pc[r] \in BeforeServe \ {"catching"} => hist' = hist,
         pc[r] = "catching" =>
            \A s \in Symbols : hist'[s] = hist[s] \/ hist'[s] <= mem[r].end,
         delivered' => delivered \/ (Backed(r) /\ pc[r] \notin BeforeServe),
         status' = status \/ pc[r] \notin BeforeServe,
         status'.state = "RUNNING" => status'.mark >= mem[r].last
  PROVE  RunInv(r)'
<1>1. RunInv(r) /\ TypeOK BY DEF Account
<1>2. \A s \in Symbols : /\ hist[s] \in Nat /\ mem[r].rolling[s] \in Nat /\ hist'[s] \in Nat
                         /\ mem[r].seen.mark \in Nat /\ mem[r].end \in Nat
  <2>1. \A s \in Symbols : hist'[s] \in Minutes BY DEF TypeOK, Anchors
  <2> QED BY <1>1, <2>1, Numbers, Values
<1>3. StageInv(r)'
  BY <1>1 DEF RunInv, StageInv, Opening, Gap, Tailing, Second, Attempt
<1>4. PasswordInv(r)'
  BY <1>1 DEF RunInv, PasswordInv, Gap, Tailing, Second, Attempt
<1>5. RowsInv(r)'
  <2>1. Named(r, "catchup")' = Named(r, "catchup") /\ Goal(r)' = Goal(r)
    BY DEF Named, Attempt, Goal, Final
  <2>2. RollingSteps \union {"snapshots", "existing"} \subseteq BeforeServe \ {"catching"}
    BY DEF RollingSteps, BetweenWorkers, BeforeServe, Working, WorkerModes, ServeSteps
  <2>3. ASSUME pc[r] = "catching"
        PROVE  /\ Required(mem[r].rolling, mem[r].end) <= AppendLimit
               /\ Earliest(mem[r].rolling) < mem[r].end /\ mem[r].end <= Goal(r)
               /\ \A s \in Symbols : /\ mem[r].rolling[s] <= hist'[s]
                                     /\ \/ hist'[s] <= mem[r].rolling[s]
                                        \/ hist'[s] <= mem[r].end
    <3>1. /\ Required(mem[r].rolling, mem[r].end) <= AppendLimit
          /\ Earliest(mem[r].rolling) < mem[r].end /\ mem[r].end <= Goal(r)
          /\ \A s \in Symbols : /\ mem[r].rolling[s] <= hist[s]
                                /\ \/ hist[s] <= mem[r].rolling[s]
                                   \/ hist[s] <= mem[r].end
      BY <1>1, <2>3 DEF RunInv, RowsInv
    <3> QED BY <1>2, <2>3, <3>1
  <2>4. /\ pc[r] \in RollingSteps => mem[r].rolling = hist'
        /\ pc[r] \in {"snapshots", "existing"} /\ Attempt(r) \in 1..4
             => mem[r].rolling = hist'
        /\ pc[r] \in Working \ {"catching"} => Named(r, "catchup") \notin running'
        /\ Attempt(r) = 0 => \A s, t \in Symbols : mem[r].rolling[s] = mem[r].rolling[t]
    BY <1>1, <2>2 DEF RunInv, RowsInv
  <2> QED BY <2>1, <2>3, <2>4 DEF RowsInv, Attempt
<1>6. (Filled(r)' <=> Filled(r)) /\ (Backed(r)' <=> Backed(r))
  BY DEF Filled, Goal, Final, Backed, Attempt
<1>7. BackedInv(r)'
  BY <1>1, <1>6 DEF RunInv, BackedInv, FilledInv, Gap, Tailing, Second, Attempt
<1>8. LiveInv(r)'
  BY <1>1, <1>2, <1>6 DEF RunInv, LiveInv
<1> QED BY <1>3, <1>4, <1>5, <1>7, <1>8 DEF RunInv

\* While there is an owner its own account is all there is to show; without one
\* the host stays as it was found.
LEMMA OutsideKeepsAccount ==
  ASSUME OwnerInv, Account, TypeOK', UNCHANGED <<pc, mem, fileVars, cred>>, ClockInv',
         \A r \in Runs : mem[r].owned => RunInv(r)',
         (\A r \in Runs : ~mem[r].owned) => UNCHANGED <<status, delivered, hist>>
  PROVE  Account'
<1>1. \A r \in Runs : RunInv(r)' BY StrangersStay
<1>2. HostInv'
  <2>1. HostInv BY DEF Account
  <2> QED BY <2>1 DEF HostInv, Attempt, fileVars
<1> QED BY <1>1, <1>2 DEF Account

\* Containers that end, the minute that goes by, a step that changes nothing.
LEMMA ExpiryKeeps ==
  ASSUME OwnerInv, Account, TypeOK', UNCHANGED <<pc, mem, fileVars, dbVars, status, exists>>,
         running' \subseteq running, now' \in {now, now + 1}
  PROVE  Account'
<1>1. ClockInv /\ TypeOK BY DEF Account
<1>2. now \in Nat /\ now' \in Nat /\ \A s \in Symbols : hist[s] \in Nat
  BY <1>1, Values DEF TypeOK, Anchors
<1>3. \A x \in Runs : mem[x].end \in Nat /\ mem[x].goal \in Nat /\ mem[x].last \in Nat
  BY <1>1, Numbers
<1>4. ClockInv' BY <1>1, <1>2, <1>3 DEF ClockInv, dbVars
<1>5. ASSUME NEW r \in Runs, mem[r].owned PROVE RunInv(r)'
  <2>1. status.state = "RUNNING" => status.mark >= mem[r].last
    BY <1>5 DEF Account, RunInv, LiveInv
  <2> QED BY <1>2, <1>5, <2>1, Resting DEF dbVars
<1> QED BY <1>4, <1>5, OutsideKeepsAccount DEF dbVars

LEMMA SurroundingsKeep ==
  ASSUME OwnerInv, StopInv, Account, TypeOK',
         (\E c \in running : JobExpires(c)) \/ ServeReports \/ ServeFails \/ Tick
         \/ UNCHANGED vars
  PROVE  Account'
<1>0. ClockInv /\ TypeOK BY DEF Account
<1>1. now \in Nat /\ status.mark \in Nat /\ \A s \in Symbols : hist[s] \in Nat
  BY <1>0, Values DEF TypeOK, Anchors, Statuses
<1>2. ASSUME Serve \in running PROVE \E r \in Runs : mem[r].owned
  BY <1>2 DEF StopInv, Data, Target, Redis, Serve
<1>3. ASSUME NEW r \in Runs, mem[r].owned, Serve \in running
      PROVE  pc[r] \notin BeforeServe /\ pc[r] # "catching" /\ Backed(r)
  BY <1>3 DEF Account, RunInv, LiveInv, BeforeServe, Working, ServeSteps
<1>4. CASE (\E c \in running : JobExpires(c)) \/ Tick \/ UNCHANGED vars
  BY <1>4, ExpiryKeeps DEF JobExpires, Tick, vars, dbVars, serveVars, envVars, dockerVars
<1>5. CASE ServeReports
  <2>1. /\ UNCHANGED <<pc, mem, fileVars, cred, exists, running, now>> /\ Serve \in running
        /\ \/ /\ hist' = [s \in Symbols |-> now]
              /\ status'.state = "RUNNING" /\ status'.mark = now
           \/ hist' = hist /\ delivered' = delivered /\ status'.state = "PENDING"
    BY <1>5 DEF ServeReports, dockerVars, envVars
  <2>2. \A s \in Symbols : hist'[s] >= hist[s] /\ hist'[s] <= now
    BY <1>0, <1>1, <2>1 DEF ClockInv
  <2>3. status'.state = "RUNNING" => \A s \in Symbols : hist'[s] >= status'.mark
    BY <1>1, <2>1
  <2>4. ClockInv' BY <1>0, <2>1, <2>2, <2>3 DEF ClockInv
  <2>5. ASSUME NEW r \in Runs, mem[r].owned PROVE RunInv(r)'
    <3>1. status'.state = "RUNNING" => status'.mark >= mem[r].last
      BY <1>0, <1>1, <2>1, Numbers DEF ClockInv
    <3> QED BY <1>3, <2>1, <2>2, <2>5, <3>1, Resting
  <2> QED BY <1>2, <2>1, <2>4, <2>5, OutsideKeepsAccount
<1>6. CASE ServeFails
  <2>1. /\ UNCHANGED <<pc, mem, fileVars, dbVars, exists, now>> /\ Serve \in running
        /\ running' \subseteq running
        /\ status' = [status EXCEPT !.state = "FAILED", !.at = now, !.by = serveNo]
    BY <1>6 DEF ServeFails
  <2>2. status'.state # "RUNNING"
    BY <1>0, <2>1 DEF TypeOK, Statuses
  <2>3. ClockInv' BY <1>0, <2>1, <2>2 DEF ClockInv, dbVars
  <2>4. ASSUME NEW r \in Runs, mem[r].owned PROVE RunInv(r)'
    BY <1>1, <1>3, <2>1, <2>2, <2>4, Resting DEF dbVars
  <2> QED BY <1>2, <2>1, <2>3, <2>4, OutsideKeepsAccount DEF dbVars
<1> QED BY <1>4, <1>5, <1>6

\* What the controller computes from the end of a batch is what the worker that
\* reached it has left in the database.
LEMMA RollIsHistory ==
  ASSUME Account, NEW r \in Runs, pc[r] = "catching",
         \A s \in Symbols : hist[s] >= mem[r].end
  PROVE  Roll(r) = hist
<1>1. RunInv(r) /\ TypeOK BY DEF Account
<1>2. /\ hist \in Anchors /\ mem[r].rolling \in Anchors /\ mem[r].end \in Nat
      /\ \A s \in Symbols : hist[s] \in Nat /\ mem[r].rolling[s] \in Nat
  BY <1>1, Numbers
<1>3. /\ Earliest(mem[r].rolling) < mem[r].end
      /\ \A s \in Symbols : /\ mem[r].rolling[s] <= hist[s]
                            /\ \/ hist[s] <= mem[r].rolling[s]
                               \/ hist[s] <= mem[r].end
      /\ Attempt(r) = 0 => \A s, t \in Symbols : mem[r].rolling[s] = mem[r].rolling[t]
  BY <1>1 DEF RunInv, RowsInv
<1>4. CASE Attempt(r) = 0
  <2>1. PICK t \in Symbols : mem[r].rolling[t] < mem[r].end
    BY <1>2, <1>3, EarliestIsLeast
  <2>2. ASSUME NEW s \in Symbols PROVE hist[s] = mem[r].end
    <3>1. mem[r].rolling[s] = mem[r].rolling[t] BY <1>3, <1>4
    <3> QED BY <1>2, <1>3, <2>1, <3>1
  <2>3. hist = [s \in Symbols |-> mem[r].end] BY <1>2, <2>2 DEF Anchors
  <2> QED BY <1>4, <2>3 DEF Roll
<1>5. CASE Attempt(r) # 0
  <2>1. ASSUME NEW s \in Symbols PROVE hist[s] = Max({mem[r].end, mem[r].rolling[s]})
    <3>1. mem[r].end \in Int /\ mem[r].rolling[s] \in Int BY <1>2
    <3>2. Max({mem[r].end, mem[r].rolling[s]})
            = IF mem[r].end >= mem[r].rolling[s] THEN mem[r].end ELSE mem[r].rolling[s]
      BY <3>1, GreaterOfTwo
    <3> QED BY <1>2, <1>3, <3>2
  <2>2. hist = [s \in Symbols |-> Max({mem[r].end, mem[r].rolling[s]})]
    BY <1>2, <2>1 DEF Anchors
  <2> QED BY <1>5, <2>2 DEF Roll
<1> QED BY <1>4, <1>5

LEMMA WorkerKeeps ==
  ASSUME OwnerInv, StopInv, Account, TypeOK', NEW r \in Runs,
         WorkerStep(r) \/ CatchupFails(r)
  PROVE  Account'
<1>0. /\ RunInv(r) /\ ClockInv /\ TypeOK
      /\ mem[r].end <= now /\ mem[r].goal <= now /\ mem[r].last <= now
      /\ \A s \in Symbols : hist[s] <= now
      /\ now \in Nat /\ mem[r].end \in Nat /\ status.mark \in Nat
      /\ \A s \in Symbols : hist[s] \in Nat
      /\ hist \in Anchors /\ RunTypes
  BY Numbers, TypeParts DEF Account, ClockInv
<1>1. mem[r].owned /\ Named(r, "catchup") \in running
  BY DEF WorkerStep, AppendBar, CatchupEnds, CatchupFails, CatchupRuns
<1>2. pc[r] \notin BeforeServe \ {"catching"}
  BY <1>0, <1>1 DEF RunInv, RowsInv, BeforeServe
<1>3. "catching" \in Working /\ "catching" \in BeforeServe BY DEF Working, BeforeServe, ServeSteps
<1> USE DEF dockerVars, dbVars, serveVars, envVars
<1>4. ASSUME NEW t \in Symbols, AppendBar(r, t) PROVE Account'
  <2>1. /\ UNCHANGED <<pc, mem, fileVars, exists, running, cred, delivered, status, now>>
        /\ hist[t] < mem[r].end /\ hist' = [hist EXCEPT ![t] = @ + 1]
    BY <1>4 DEF AppendBar
  <2>2. \A s \in Symbols : hist'[s] = hist[s] \/ (s = t /\ hist'[s] = hist[s] + 1)
    BY <1>0, <2>1 DEF Anchors
  <2>3. \A s \in Symbols : /\ hist'[s] >= hist[s] /\ hist'[s] <= now
                           /\ hist'[s] = hist[s] \/ hist'[s] <= mem[r].end
    BY <1>0, <2>1, <2>2
  <2>4. ClockInv'
    <3>1. status.state = "RUNNING" => \A s \in Symbols : hist'[s] >= status.mark
      BY <1>0, <2>2 DEF ClockInv
    <3> QED BY <1>0, <2>1, <2>3, <3>1 DEF ClockInv
  <2>5. status.state = "RUNNING" => status.mark >= mem[r].last
    BY <1>0, <1>1 DEF RunInv, LiveInv
  <2>6. RunInv(r)' BY <1>1, <1>2, <2>1, <2>3, <2>5, Resting
  <2>7. \A x \in Runs : mem[x].owned => x = r
    BY <1>1, OwnerIsUnique DEF OneOwner
  <2> QED BY <1>1, <2>1, <2>4, <2>6, <2>7, OutsideKeepsAccount
<1>5. CASE CatchupEnds(r) /\ pc[r] # "catching"
  <2>1. /\ UNCHANGED <<pc, mem, fileVars, dbVars, status, exists, now>>
        /\ running' \subseteq running
    BY <1>5 DEF CatchupEnds
  <2> QED BY <2>1, ExpiryKeeps
<1>6. CASE CatchupFails(r) /\ pc[r] # "catching"
  <2>1. /\ UNCHANGED <<pc, mem, fileVars, dbVars, status, exists, now>>
        /\ running' \subseteq running
    BY <1>6 DEF CatchupFails
  <2> QED BY <2>1, ExpiryKeeps
<1>7. CASE CatchupFails(r) /\ pc[r] = "catching"
  <2>1. Step(r, "catching", FALSE, "batch", mem[r]) /\ running' \subseteq running
        /\ UNCHANGED <<fileVars, now, status, hist, cred, delivered>>
    BY <1>7 DEF CatchupFails, Step
  <2> QED BY <1>0, <1>3, <2>1, StepKeeps
<1>8. CASE CatchupEnds(r) /\ pc[r] = "catching"
  <2> DEFINE c == Named(r, "catchup")
             ok == AppendedAsExpected(r) /\ ~delivered
             m == [mem[r] EXCEPT !.rolling = Roll(r), !.created = @ \ {c}]
  <2>1. /\ Step(r, "catching", ok, "batch", m) /\ ok \in BOOLEAN
        /\ running' = running \ {c} /\ \A s \in Symbols : hist[s] >= mem[r].end
        /\ UNCHANGED <<fileVars, now, status, hist, cred, delivered>>
    BY <1>8 DEF CatchupEnds, AppendedAsExpected
  <2>2. Roll(r) = hist BY <1>8, <2>1, RollIsHistory
  <2>3. /\ m.attempt = mem[r].attempt /\ m.owned = mem[r].owned /\ m.round = mem[r].round
        /\ m.end = mem[r].end /\ m.goal = mem[r].goal /\ m.last = mem[r].last
        /\ m.rolling = hist /\ m.verified = mem[r].verified
    <3> HIDE DEF c
    <3> QED BY <1>0, <2>2, Numbers DEF Fields
  <2>4. /\ Gap(r) \/ Tailing(r)
        /\ mem[r].attempt \in 1..4 => cred = mem[r].attempt
        /\ mem[r].attempt # 5 /\ Tailing(r) => Backed(r)
        /\ status.state = "none" /\ Serve \notin running
        /\ ~delivered
    BY <1>0, <1>1, <1>3, <1>8 DEF Attempt, RunInv, StageInv, PasswordInv, BackedInv, FilledInv,
       LiveInv
  <2>5. mem[r].attempt = 0 => \A s, t \in Symbols : hist[s] = hist[t]
    BY <2>2 DEF Roll, Attempt
  <2> HIDE DEF m, ok, c
  <2>6. ASSUME pc'[r] = "batch", mem'[r] = m PROVE RunInv(r)'
    <3>0. (Gap(r)' <=> Gap(r)) /\ (Tailing(r)' <=> Tailing(r)) /\ (Backed(r)' <=> Backed(r))
          /\ Named(r, "catchup")' = c
      BY <2>3, <2>6 DEF Gap, Tailing, Backed, Attempt, Named, c
    <3>1. StageInv(r)'
      BY <2>4, <2>6, <3>0 DEF StageInv, Creating, BackupSteps, ServeSteps
    <3>2. PasswordInv(r)' BY <2>1, <2>3, <2>4, <2>6 DEF PasswordInv, BackupSteps, Attempt
    <3>3. RowsInv(r)'
      BY <2>1, <2>3, <2>5, <2>6, <3>0 DEF RowsInv, Attempt
    <3>4. BackedInv(r)'
      BY <2>1, <2>3, <2>4, <2>6, <3>0 DEF BackedInv, FilledInv, BackupSteps, ServeSteps,
         Attempt
    <3>5. LiveInv(r)' BY <2>1, <2>4, <2>6 DEF LiveInv, ServeSteps
    <3> QED BY <3>1, <3>2, <3>3, <3>4, <3>5 DEF RunInv
  <2> QED BY <1>0, <1>3, <2>1, <2>3, <2>6, StepKeeps
<1> QED BY <1>4, <1>5, <1>6, <1>7, <1>8 DEF WorkerStep

-----------------------------------------------------------------------------
(* Failures, the end of a run and its admission                            *)

\* A run that reports, has failed or was killed keeps its account.
LEMMA ToEnd ==
  ASSUME Account, NEW r \in Runs, pc'[r] \in {"report", "failed", "killed", "refused"},
         Same(r), UNCHANGED <<status, delivered>>, running' \subseteq running
  PROVE  RunInv(r)'
<1>1. RunInv(r) BY DEF Account
<1>2. pc'[r] \notin Working BY DEF Working, WorkerModes
<1>3. StageInv(r)' BY DEF StageInv, Creating, BackupSteps, ServeSteps
<1>4. PasswordInv(r)' BY DEF PasswordInv, BackupSteps
<1>5. RowsInv(r)'
  BY <1>1, <1>2 DEF RunInv, RowsInv, RollingSteps, BetweenWorkers, Same, Attempt
<1>6. Backed(r)' <=> Backed(r) BY DEF Backed, Same, Attempt
<1>7. BackedInv(r)'
  BY <1>1, <1>2, <1>6 DEF RunInv, BackedInv, FilledInv, BackupSteps, ServeSteps, BeforeServe,
     Same
<1>8. LiveInv(r)' BY <1>1, <1>2, <1>6 DEF RunInv, LiveInv, BeforeServe, ServeSteps, Same
<1> QED BY <1>3, <1>4, <1>5, <1>7, <1>8 DEF RunInv

\* A run that owns nothing moves, and nothing else does.
LEMMA StrangerKeeps ==
  ASSUME OwnerInv, Account, TypeOK', NEW r \in Runs, ~mem[r].owned, ~mem'[r].owned,
         \A x \in Runs : x # r => pc'[x] = pc[x] /\ mem'[x] = mem[x],
         UNCHANGED <<fileVars, dockerVars, dbVars, status, now>>, RunInv(r)',
         mem'[r].end <= now, mem'[r].goal <= now, mem'[r].last <= now
  PROVE  Account'
<1> USE DEF dockerVars, dbVars
<1>1. ClockInv /\ HostInv /\ TypeOK BY DEF Account
<1>2. \A s \in Symbols : hist[s] \in Nat BY <1>1, Values DEF TypeOK, Anchors
<1>3. ClockInv' BY <1>1 DEF ClockInv
<1>4. \A x \in Runs : RunInv(x)'
  <2>1. ASSUME NEW x \in Runs, x # r, mem[x].owned PROVE RunInv(x)'
    <3>1. status.state = "RUNNING" => status.mark >= mem[x].last
      BY <2>1 DEF Account, RunInv, LiveInv
    <3> QED BY <1>2, <2>1, <3>1, Resting
  <2> QED BY <2>1, StrangersStay
<1>5. HostInv'
  <2>1. \A x \in Runs : mem'[x].owned => mem[x].owned /\ Attempt(x)' = Attempt(x)
    BY DEF Attempt
  <2>2. (\A x \in Runs : ~mem'[x].owned) => (\A x \in Runs : ~mem[x].owned)
    OBVIOUS
  <2> QED BY <1>1, <2>1, <2>2 DEF HostInv, fileVars
<1> QED BY <1>3, <1>4, <1>5 DEF Account

LEMMA FailureKeeps ==
  ASSUME OwnerInv, StopInv, Account, TypeOK', NEW r \in Runs,
         CommandFails(r) \/ HalfDone(r)
  PROVE  Account'
<1>0. /\ RunInv(r) /\ ClockInv /\ TypeOK /\ RunTypes
      /\ mem[r].end <= now /\ mem[r].goal <= now /\ mem[r].last <= now
      /\ \A s \in Symbols : hist[s] <= now
      /\ now \in Nat /\ now >= 1 /\ mem[r].attempt \in 0..5
  BY Numbers, TypeParts DEF Account, ClockInv
<1>1. mem[r].owned
  BY DEF CommandFails, HalfDone, OwnerInv, Working, WorkerModes
<1>2. \A list : /\ [mem[r] EXCEPT !.created = list].attempt = mem[r].attempt
                /\ [mem[r] EXCEPT !.created = list].owned = mem[r].owned
                /\ [mem[r] EXCEPT !.created = list].end = mem[r].end
                /\ [mem[r] EXCEPT !.created = list].goal = mem[r].goal
                /\ [mem[r] EXCEPT !.created = list].last = mem[r].last
                /\ mem'[r] = [mem[r] EXCEPT !.created = list] => Same(r)
  BY <1>0, Numbers DEF Same, Fields
<1>3. ASSUME NEW m, Go(r, "cleanup", m), mem'[r] = m => Same(r),
             UNCHANGED <<fileVars, status, now>>, \A s \in Symbols : hist'[s] <= now,
             status.state = "RUNNING" => hist' = hist,
             delivered' => delivered \/ pc[r] = "qualify",
             Serve \in running' => Serve \in running \/ pc[r] = "serve",
             cred' = cred \/ (mem[r].attempt \in 1..4 /\ cred' = mem[r].attempt)
      PROVE  Account'
  <2>1. /\ pc'[r] = "cleanup" /\ Same(r)
        /\ \A x \in Runs : x # r => pc'[x] = pc[x] /\ mem'[x] = mem[x]
    BY <1>0, <1>3, GoMoves
  <2>2. RunInv(r)' BY <1>1, <1>3, <2>1, ToCleanup
  <2>3. ClockInv' BY <1>0, <1>3, <2>1, ClockStays DEF Same
  <2> QED BY <1>1, <1>3, <2>1, <2>2, <2>3, OwnerMoves DEF Same
<1> USE DEF dockerVars, dbVars, serveVars, envVars
<1>4. CASE CommandFails(r)
  <2>1. PICK made, listed, up \in BOOLEAN :
          /\ running' = IF up THEN running \union {Job(r)} ELSE running
          /\ Go(r, "cleanup",
                [mem[r] EXCEPT !.created = IF listed THEN @ \union {Job(r)} ELSE @])
    BY <1>4 DEF CommandFails
  <2> DEFINE list == IF listed THEN mem[r].created \union {Job(r)} ELSE mem[r].created
             m == [mem[r] EXCEPT !.created = list]
  <2>2. Go(r, "cleanup", m) BY <2>1
  <2> HIDE DEF list
  <2>3. mem'[r] = m => Same(r) BY <1>2
  <2> HIDE DEF m
  <2>4. Serve \in running' => Serve \in running \/ pc[r] = "serve"
    <3>1. Job(r) = Serve => pc[r] = "serve"
      BY DEF Job, Serve, Source, Target, Redis, Clone, Named, OldWorker, WorkerModes
    <3> QED BY <2>1, <3>1
  <2>5. PICK rows \in RowsLeft(r) : hist' = rows[1] /\ delivered' = rows[2]
    BY <1>4 DEF CommandFails
  <2> DEFINE live == [s \in Symbols |-> now]
  <2>6. \/ rows = <<hist, delivered>>
        \/ pc[r] = "seed" /\ rows = <<SeedAnchors, delivered>>
        \/ pc[r] = "qualify" /\ rows = <<hist, TRUE>>
        \/ pc[r] = "qualify" /\ rows = <<live, TRUE>>
    <3> HIDE DEF live, SeedAnchors
    <3> QED BY DEF RowsLeft, live
  <2>7. \/ hist' = hist /\ delivered' = delivered
        \/ pc[r] = "seed" /\ hist' = SeedAnchors /\ delivered' = delivered
        \/ pc[r] = "qualify" /\ hist' = hist
        \/ pc[r] = "qualify" /\ hist' = live
    <3>1. ASSUME NEW x, NEW y, rows = <<x, y>> PROVE hist' = x /\ delivered' = y
      <4>1. rows[1] = x /\ rows[2] = y BY <3>1, Zenon
      <4> QED BY <2>5, <4>1
    <3> HIDE DEF live, SeedAnchors
    <3> QED BY <2>6, <3>1, Zenon
  <2>8. \A s \in Symbols : SeedAnchors[s] <= now /\ live[s] <= now
    BY <1>0 DEF SeedAnchors
  <2>9. pc[r] \in {"seed", "qualify"} => status.state = "none"
    BY <1>0 DEF RunInv, LiveInv, BeforeServe, Working, WorkerModes, ServeSteps
  <2> HIDE DEF live, SeedAnchors
  <2>10. /\ \A s \in Symbols : hist'[s] <= now
         /\ status.state = "RUNNING" => hist' = hist
         /\ delivered' => delivered \/ pc[r] = "qualify"
    BY <1>0, <2>7, <2>8, <2>9
  <2>11. UNCHANGED <<fileVars, status, now, cred>> BY <1>4 DEF CommandFails
  <2> QED BY <1>3, <2>2, <2>3, <2>4, <2>10, <2>11
<1>5. CASE HalfDone(r)
  <2>1. /\ UNCHANGED <<fileVars, status, now, hist, delivered>> /\ running' \subseteq running
        /\ cred' = cred \/ (pc[r] = "rotate" /\ cred' = mem[r].attempt)
    BY <1>5 DEF HalfDone, Attempt
  <2>2. pc[r] = "rotate" => mem[r].attempt \in 1..4
    BY <1>0 DEF RunInv, StageInv, Attempt
  <2>3. CASE Go(r, "cleanup", mem[r])
    BY <1>0, <1>3, <2>1, <2>2, <2>3 DEF Same
  <2>4. CASE \E c \in {Source, Clone} :
               Go(r, "cleanup", [mem[r] EXCEPT !.created = @ \ {c}])
    <3>1. PICK c \in {Source, Clone} : Go(r, "cleanup", [mem[r] EXCEPT !.created = @ \ {c}])
      BY <2>4
    <3> DEFINE list == mem[r].created \ {c}
               m == [mem[r] EXCEPT !.created = list]
    <3>2. Go(r, "cleanup", m) BY <3>1
    <3> HIDE DEF list
    <3>3. mem'[r] = m => Same(r) BY <1>2
    <3> HIDE DEF m
    <3> QED BY <1>0, <1>3, <2>1, <2>2, <3>2, <3>3
  <2> QED BY <1>5, <2>3, <2>4 DEF HalfDone
<1> QED BY <1>4, <1>5

LEMMA EndKeeps ==
  ASSUME OwnerInv, StopInv, Account, TypeOK', NEW r \in Runs,
         Cleanup(r) \/ Report(r) \/ Kill(r)
  PROVE  Account'
<1>0. /\ RunInv(r) /\ ClockInv /\ TypeOK /\ RunTypes
      /\ mem[r].end <= now /\ mem[r].goal <= now /\ mem[r].last <= now
      /\ \A s \in Symbols : hist[s] <= now
  BY TypeParts DEF Account, ClockInv
<1> USE DEF dockerVars, dbVars, serveVars, envVars
<1>1. PICK p \in {"report", "failed", "killed"}, m \in {mem'[r]} :
        /\ Go(r, p, m) /\ Same(r) /\ running' \subseteq running
        /\ running' = running \/ pc[r] = "cleanup"
  <2>1. CASE Cleanup(r)
    <3>1. PICK left \in SUBSET (Candidates(r) \intersect running) :
            /\ pc[r] = "cleanup" /\ running' = running \ (Candidates(r) \ left)
            /\ Go(r, "report", [mem[r] EXCEPT !.left = left])
      BY <2>1 DEF Cleanup
    <3> DEFINE m == [mem[r] EXCEPT !.left = left]
    <3>2. mem'[r] = m BY <1>0, <3>1, GoMoves
    <3>3. mem'[r] = m => Same(r) BY <1>0, Numbers DEF Same, Fields
    <3>4. Go(r, "report", mem'[r]) BY <3>1, <3>2
    <3> QED BY <3>1, <3>2, <3>3, <3>4
  <2>2. CASE Report(r)
    <3>1. Go(r, "failed", mem[r]) /\ running' = running BY <2>2 DEF Report
    <3>2. mem'[r] = mem[r] BY <1>0, <3>1, GoMoves
    <3> QED BY <3>1, <3>2 DEF Same
  <2>3. CASE Kill(r)
    <3>1. Go(r, "killed", mem[r]) /\ running' = running BY <2>3 DEF Kill
    <3>2. mem'[r] = mem[r] BY <1>0, <3>1, GoMoves
    <3> QED BY <3>1, <3>2 DEF Same
  <2> QED BY <2>1, <2>2, <2>3
<1>2. UNCHANGED <<fileVars, exists, assets, dbVars, status, now>>
  BY DEF Cleanup, Report, Kill
<1>3. pc'[r] = p /\ \A x \in Runs : x # r => pc'[x] = pc[x] /\ mem'[x] = mem[x]
  BY <1>0, <1>1, GoMoves
<1>4. RunInv(r)' BY <1>1, <1>2, <1>3, ToEnd
<1>5. CASE mem[r].owned
  <2>1. ClockInv' BY <1>0, <1>1, <1>2, <1>3, ClockStays DEF Same
  <2> QED BY <1>1, <1>2, <1>3, <1>4, <1>5, <2>1, OwnerMoves DEF Same
<1>6. CASE ~mem[r].owned
  <2>1. running' = running BY <1>1, <1>6 DEF OwnerInv
  <2> QED BY <1>0, <1>1, <1>2, <1>3, <1>4, <1>6, <2>1, StrangerKeeps DEF Same
<1> QED BY <1>5, <1>6

\* Whoever passes the lease or the directory finds the host as the evidence says.
LEMMA NewOwnerKeeps ==
  ASSUME OwnerInv, StopInv, Account, TypeOK', OneOwner', NEW r \in Runs, NEW m,
         Go(r, "snapshots", m), ~mem[r].owned, m.owned, Opening(r),
         m.attempt = mem[r].attempt, m.round = mem[r].round, m.last = mem[r].last,
         m.goal = mem[r].goal, m.end = mem[r].end,
         UNCHANGED <<evidence, dockerVars, dbVars, status, now>>,
         IF mem[r].attempt = 0 THEN evidence = {} ELSE evidence = 0..(mem[r].attempt - 1),
         lease' = NoRun => lease = NoRun,
         mem[r].attempt = 0 => \A s, t \in Symbols : m.rolling[s] = m.rolling[t],
         mem[r].attempt \in 1..4 /\ hist = SeedAnchors => m.rolling = hist
  PROVE  Account'
<1> USE DEF dockerVars, dbVars
<1>1. RunTypes /\ HostInv /\ ClockInv /\ RunInv(r) /\ mem[r].attempt \in 0..5
  BY TypeParts, Numbers DEF Account
<1>2. /\ pc'[r] = "snapshots" /\ mem'[r] = m
      /\ \A x \in Runs : x # r => pc'[x] = pc[x] /\ mem'[x] = mem[x]
  BY <1>1, GoMoves
<1>3. \A x \in Runs : ~mem[x].owned BY <1>2 DEF OneOwner
<1>4. /\ status.state = "none" /\ ~delivered
      /\ evidence # {} /\ 4 \notin evidence => hist = SeedAnchors
  BY <1>1, <1>3 DEF HostInv
<1>5. Serve \notin running /\ Named(r, "catchup") \notin running
  <2>1. running \subseteq Data BY <1>3 DEF StopInv
  <2> QED BY <2>1 DEF Data, Target, Redis, Serve, Named
<1>6. mem[r].attempt \in 1..4 => m.rolling = hist
  <2> SUFFICES ASSUME mem[r].attempt \in 1..4 PROVE m.rolling = hist OBVIOUS
  <2>1. 0 \in 0..(mem[r].attempt - 1) /\ 4 \notin 0..(mem[r].attempt - 1) OBVIOUS
  <2>2. evidence = 0..(mem[r].attempt - 1) OBVIOUS
  <2>3. evidence # {} /\ 4 \notin evidence BY <2>1, <2>2
  <2> QED BY <1>4, <2>3
<1>7. RunInv(r)'
  <2>1. StageInv(r)' BY <1>2 DEF StageInv, Opening, Creating, BackupSteps, ServeSteps
  <2>2. PasswordInv(r)' BY <1>2 DEF PasswordInv, BackupSteps
  <2>3. RowsInv(r)'
    BY <1>2, <1>5, <1>6 DEF RowsInv, RollingSteps, BetweenWorkers, Named, Attempt
  <2>4. BackedInv(r)' BY <1>2, <1>4 DEF BackedInv, FilledInv, BackupSteps, ServeSteps
  <2>5. LiveInv(r)' BY <1>2, <1>4, <1>5 DEF LiveInv, ServeSteps
  <2> QED BY <2>1, <2>2, <2>3, <2>4, <2>5 DEF RunInv
<1>8. \A x \in Runs : RunInv(x)' BY <1>2, <1>3, <1>7, StrangersStay
<1>9. HostInv'
  <2>1. \A x \in Runs : mem'[x].owned =>
          IF Attempt(x)' = 0 THEN evidence' = {} ELSE evidence' = 0..(Attempt(x)' - 1)
    BY <1>2, <1>3 DEF Attempt
  <2>2. ~ \A x \in Runs : ~mem'[x].owned BY <1>2
  <2> QED BY <1>1, <2>1, <2>2 DEF HostInv
<1>10. ClockInv' BY <1>1, <1>2 DEF ClockInv
<1> QED BY <1>8, <1>9, <1>10 DEF Account

LEMMA OneOwnerNext == OwnerInv' => OneOwner'
BY OwnerIsUnique, PTL

LEMMA DoorsKeep ==
  ASSUME OwnerInv, StopInv, Account, TypeOK', NEW r \in Runs,
         Start(r) \/ MakeDirectory(r) \/ TakeLease(r)
  PROVE  Account'
<1>0. /\ RunInv(r) /\ ClockInv /\ TypeOK /\ RunTypes /\ HostInv
      /\ mem[r].end <= now /\ mem[r].goal <= now /\ mem[r].last <= now
      /\ now \in Nat /\ now >= 1 /\ mem[r].attempt \in 0..5
  BY TypeParts, Numbers DEF Account, ClockInv
<1>1. ~mem[r].owned /\ (pc[r] \in {"dir", "lease"} => Opening(r))
  BY <1>0 DEF Start, MakeDirectory, TakeLease, OwnerInv, Doors, RunInv, StageInv
<1>2. OneOwner'
  BY StartKeeps, MakeDirectoryKeeps, TakeLeaseKeeps, OneOwnerNext
<1> USE DEF dockerVars, dbVars, serveVars, envVars
<1>3. UNCHANGED <<dockerVars, dbVars, status, now, evidence>>
  BY DEF Start, MakeDirectory, TakeLease, fileVars
<1>4. ASSUME UNCHANGED fileVars, pc'[r] \in {"lease", "refused", "report"},
             mem'[r] = mem[r], Opening(r),
             \A x \in Runs : x # r => pc'[x] = pc[x] /\ mem'[x] = mem[x]
      PROVE  Account'
  <2>1. ASSUME pc'[r] = "lease" PROVE RunInv(r)'
    <3>1. StageInv(r)' BY <1>4, <2>1 DEF StageInv, Opening, Creating, BackupSteps, ServeSteps
    <3>2. PasswordInv(r)' BY <2>1 DEF PasswordInv, BackupSteps
    <3>3. RowsInv(r)'
      BY <1>0, <1>4, <2>1 DEF RunInv, RowsInv, RollingSteps, BetweenWorkers, Working,
         WorkerModes, Attempt
    <3>4. BackedInv(r)' BY <1>1, <1>4, <2>1 DEF BackedInv, FilledInv, BackupSteps, ServeSteps
    <3>5. LiveInv(r)'
      BY <1>1, <1>4, <2>1 DEF LiveInv, ServeSteps, BeforeServe, Working, WorkerModes
    <3> QED BY <3>1, <3>2, <3>3, <3>4, <3>5 DEF RunInv
  <2>2. ASSUME pc'[r] # "lease" PROVE RunInv(r)'
    BY <1>3, <1>4, <2>2, ToEnd DEF Same
  <2> QED BY <1>0, <1>1, <1>3, <1>4, <2>1, <2>2, StrangerKeeps
<1>5. CASE Start(r)
  <2>1. PICK a \in Attempts, goal \in 1..now :
          Go(r, IF Admissible(a) THEN "dir" ELSE "refused",
             [NewRun EXCEPT !.attempt = a, !.goal = goal])
    BY <1>5 DEF Start
  <2> DEFINE m == [NewRun EXCEPT !.attempt = a, !.goal = goal]
  <2>2. /\ pc'[r] \in {"dir", "refused"} /\ mem'[r] = m
        /\ \A x \in Runs : x # r => pc'[x] = pc[x] /\ mem'[x] = mem[x]
    BY <1>0, <2>1, GoMoves
  <2>3. /\ m.owned = FALSE /\ m.last = 0 /\ m.round = 0 /\ m.end = 0 /\ m.goal = goal
        /\ m.rolling = Unseeded
    BY DEF NewRun
  <2> HIDE DEF m
  <2>4. RunInv(r)'
    <3>1. StageInv(r)'
      BY <2>2, <2>3 DEF StageInv, Opening, Creating, BackupSteps, ServeSteps
    <3>2. PasswordInv(r)' BY <2>2 DEF PasswordInv, BackupSteps
    <3>3. RowsInv(r)'
      BY <2>2, <2>3 DEF RowsInv, RollingSteps, BetweenWorkers, Working, WorkerModes,
         Unseeded
    <3>4. BackedInv(r)' BY <2>2, <2>3 DEF BackedInv, FilledInv, BackupSteps, ServeSteps
    <3>5. LiveInv(r)'
      BY <2>2, <2>3 DEF LiveInv, ServeSteps, BeforeServe, Working, WorkerModes
    <3> QED BY <3>1, <3>2, <3>3, <3>4, <3>5 DEF RunInv
  <2>5. UNCHANGED fileVars BY <1>5 DEF Start
  <2>6. mem'[r].end <= now /\ mem'[r].goal <= now /\ mem'[r].last <= now /\ ~mem'[r].owned
    BY <1>0, <2>2, <2>3
  <2> QED BY <1>1, <1>3, <2>2, <2>4, <2>5, <2>6, StrangerKeeps
<1>6. CASE MakeDirectory(r)
  <2> DEFINE a == mem[r].attempt
  <2>1. pc[r] = "dir" /\ UNCHANGED <<lease, evidence>>
    BY <1>6 DEF MakeDirectory
  <2>2. CASE a = 0 \/ dirOf[a] # NoRun
    <3>1. Go(r, "lease", mem[r]) \/ Go(r, "refused", mem[r])
      BY <1>6, <2>2 DEF MakeDirectory, Attempt, MkdirCreates
    <3>2. UNCHANGED fileVars
      BY <1>6, <2>2 DEF MakeDirectory, Attempt, MkdirCreates, fileVars
    <3> QED BY <1>0, <1>1, <1>4, <2>1, <3>1, <3>2, GoMoves
  <2>3. CASE a # 0 /\ dirOf[a] = NoRun
    <3> DEFINE m == [mem[r] EXCEPT !.owned = TRUE, !.rolling = SeedAnchors]
    <3>1. Go(r, "snapshots", m)
      BY <1>6, <2>3 DEF MakeDirectory, Attempt, MkdirCreates
    <3>2. /\ m.attempt = mem[r].attempt /\ m.owned /\ m.round = mem[r].round
          /\ m.end = mem[r].end /\ m.goal = mem[r].goal /\ m.last = mem[r].last
          /\ m.rolling = SeedAnchors
      BY <1>0, Numbers DEF Fields
    <3> HIDE DEF m
    <3>3. a \in 1..5 /\ 0..(a - 1) \subseteq evidence
      BY <1>0, <2>1, <2>3 DEF OwnerInv, ChainRecorded
    <3>4. PICK k \in -1..4 : /\ evidence = 0..k
                             /\ \A b \in 1..5 : b <= k => dirOf[b] # NoRun
      BY DEF OwnerInv, ChainHeld
    <3>5. a = k + 1
      <4>1. a - 1 \in 0..(a - 1) BY <3>3
      <4>2. a - 1 <= k BY <3>3, <3>4, <4>1
      <4>3. ~(a <= k) BY <2>3, <3>3, <3>4
      <4> QED BY <3>3, <4>2, <4>3
    <3>6. evidence = 0..(mem[r].attempt - 1) BY <3>3, <3>4, <3>5
    <3> HIDE DEF a
    <3>7. mem[r].attempt # 0 BY <3>3 DEF a
    <3> QED BY <1>1, <1>2, <1>3, <2>1, <3>1, <3>2, <3>6, <3>7, NewOwnerKeeps
  <2> QED BY <2>2, <2>3
<1>7. CASE TakeLease(r)
  <2>1. pc[r] = "lease" /\ mem[r].attempt = 0 BY <1>7 DEF TakeLease, OwnerInv
  <2>2. CASE lease # NoRun
    <3>1. Go(r, "report", mem[r]) /\ UNCHANGED fileVars
      BY <1>7, <2>2 DEF TakeLease, LeaseCreates, fileVars
    <3> QED BY <1>0, <1>1, <1>4, <2>1, <3>1, GoMoves
  <2>3. CASE lease = NoRun
    <3> DEFINE m == [mem[r] EXCEPT !.owned = TRUE]
    <3>1. Go(r, "snapshots", m) BY <1>7, <2>3 DEF TakeLease, LeaseCreates
    <3>2. /\ m.attempt = mem[r].attempt /\ m.owned /\ m.round = mem[r].round
          /\ m.end = mem[r].end /\ m.goal = mem[r].goal /\ m.last = mem[r].last
          /\ m.rolling = mem[r].rolling
      BY <1>0, Numbers DEF Fields
    <3> HIDE DEF m
    <3>3. evidence = {} BY <1>0, <2>3 DEF HostInv
    <3>4. \A s, t \in Symbols : mem[r].rolling[s] = mem[r].rolling[t]
      BY <1>0, <2>1 DEF RunInv, RowsInv, Attempt
    <3> QED BY <1>1, <1>2, <1>3, <2>1, <2>3, <3>1, <3>2, <3>3, <3>4, NewOwnerKeeps
  <2> QED BY <2>2, <2>3
<1> QED BY <1>5, <1>6, <1>7

-----------------------------------------------------------------------------
(* The whole                                                               *)

LEMMA InitAccount == Init => Account
<1> SUFFICES ASSUME Init PROVE Account
  OBVIOUS
<1>1. PICK k \in Histories :
        /\ lease = IF k >= 0 THEN Past ELSE NoRun
        /\ dirOf = [a \in 1..5 |-> IF a <= k THEN Past ELSE NoRun]
        /\ evidence = 0..k
        /\ exists = IF k >= 0 THEN Remains(k) ELSE {}
        /\ running = IF k >= 0 THEN Data ELSE {}
        /\ assets = IF ~(k >= 0) THEN {} ELSE {"network", "target", "redis"}
                      \union (IF k = 4 THEN {} ELSE {"restore"})
        /\ hist = IF ~(k >= 0) THEN Unseeded
                  ELSE IF k = 4 THEN Partial ELSE SeedAnchors
        /\ cred = IF k = 4 THEN 4 ELSE 0
  BY DEF Init
<1>2. /\ pc = [r \in Runs |-> "idle"] /\ mem = [r \in Runs |-> NewRun]
      /\ delivered = FALSE /\ status = NoStatus /\ changed = FALSE /\ serveNo = 0
      /\ now \in 1..MaxMinute /\ Max({hist[s] : s \in Symbols}) <= now /\ faults = 0
  BY DEF Init
<1>3. k \in -1..4 BY ControllerAssumption DEF ControllerAssumption
<1>4. hist \in Anchors
  <2>1. Partial \in [Symbols -> 1..MaxMinute] /\ MaxMinute \in Nat
    BY ControllerAssumption DEF ControllerAssumption
  <2>2. Partial \in Anchors BY <2>1 DEF Anchors, Minutes
  <2> QED BY <1>1, <2>2, Values
<1>5. TypeOK
  <2>1. RunTypes
    <3>1. "idle" \in Steps BY DEF Steps
    <3> QED BY <1>2, <3>1, NewRunType DEF RunTypes
  <2>2. FileTypes BY <1>1, <1>3 DEF FileTypes
  <2>3. DockerTypes
    <3>1. Remains(k) \subseteq Containers /\ Data \subseteq Remains(k)
      <4>1. /\ <<"init", 0>> \in Containers /\ <<"verify", 3>> \in Containers
            /\ <<"catchup", 4>> \in Containers
        BY Values DEF WorkerModes, Attempts
      <4> QED BY <1>3, <4>1, Values DEF Remains
    <3>2. assets \subseteq Volumes BY <1>1 DEF Volumes
    <3> QED BY <1>1, <3>1, <3>2 DEF DockerTypes
  <2>0. delivered \in BOOLEAN /\ changed \in BOOLEAN BY <1>2, Zenon
  <2>4. RowTypes
    <3>1. cred \in Attempts BY <1>1 DEF Attempts
    <3> QED BY <1>4, <2>0, <3>1 DEF RowTypes
  <2>5. ServeTypes
    <3>1. serveNo \in 0..2 /\ status \in Statuses BY <1>2, Values
    <3> QED BY <2>0, <3>1 DEF ServeTypes
  <2>6. ClockTypes BY <1>2, Values DEF ClockTypes, Minutes
  <2> QED BY <2>1, <2>2, <2>3, <2>4, <2>5, <2>6, TypeParts
<1>6. \A r \in Runs : pc[r] = "idle" /\ mem[r] = NewRun BY <1>2
<1>7. /\ NewRun.owned = FALSE /\ NewRun.end = 0 /\ NewRun.goal = 0 /\ NewRun.last = 0
      /\ NewRun.rolling = Unseeded
  BY DEF NewRun
<1>8. HostInv
  <2>1. /\ evidence = {} => k = -1
        /\ 4 \in evidence => k = 4
        /\ lease = NoRun => k = -1
        /\ k = -1 => evidence = {}
        /\ evidence # {} => k \in 0..4
        /\ 4 \notin evidence => k # 4
    BY <1>1, <1>3, ControllerFacts
  <2>2. status.state = "none" BY <1>2 DEF NoStatus
  <2>3. evidence # {} /\ 4 \notin evidence => hist = SeedAnchors BY <1>1, <2>1
  <2>4. (evidence = {} => cred = 0) /\ (4 \in evidence => cred = 4) BY <1>1, <2>1
  <2> QED BY <1>2, <1>6, <1>7, <2>1, <2>2, <2>3, <2>4 DEF HostInv
<1>9. ClockInv
  <2> DEFINE T == {hist[s] : s \in Symbols}
  <2>1. T \subseteq 0..MaxMinute /\ T # {} /\ MaxMinute \in Nat
    BY <1>4, ControllerAssumption DEF Anchors, Minutes, ControllerAssumption
  <2>2. Max(T) \in T /\ \A y \in T : y <= Max(T)
    <3> HIDE DEF T
    <3> QED BY <2>1, GreatestNatural
  <2>3. Max(T) <= now BY <1>2
  <2>4. \A s \in Symbols : hist[s] \in 0..MaxMinute /\ hist[s] <= Max(T)
    BY <2>1, <2>2
  <2>5. Max(T) \in 0..MaxMinute BY <2>1, <2>2
  <2> HIDE DEF T
  <2>6. \A s \in Symbols : hist[s] <= now BY <1>2, <2>1, <2>3, <2>4, <2>5
  <2>7. status.state # "RUNNING" BY <1>2 DEF NoStatus
  <2>8. now >= 1 /\ now >= 0 BY <1>2, <2>1
  <2> QED BY <1>6, <1>7, <2>6, <2>7, <2>8 DEF ClockInv
<1>10. ASSUME NEW r \in Runs PROVE RunInv(r)
  <2>1. StageInv(r) BY <1>6 DEF StageInv, Creating, BackupSteps, ServeSteps
  <2>2. PasswordInv(r) BY <1>6 DEF PasswordInv, BackupSteps
  <2>3. RowsInv(r)
    BY <1>6, <1>7 DEF RowsInv, RollingSteps, BetweenWorkers, Working, WorkerModes, Unseeded
  <2>4. BackedInv(r) BY <1>6, <1>7 DEF BackedInv, FilledInv, BackupSteps, ServeSteps
  <2>5. LiveInv(r)
    BY <1>6, <1>7 DEF LiveInv, ServeSteps, BeforeServe, Working, WorkerModes
  <2> QED BY <2>1, <2>2, <2>3, <2>4, <2>5 DEF RunInv
<1> QED BY <1>5, <1>8, <1>9, <1>10 DEF Account

LEMMA NextAccount == OwnerInv /\ StopInv /\ Account /\ [Next]_vars => Account'
<1> SUFFICES ASSUME OwnerInv, StopInv, Account, [Next]_vars PROVE Account'
  OBVIOUS
<1>0. TypeOK' BY NextTypes
<1>1. ASSUME NEW r \in Runs, RunStep(r) PROVE Account'
  BY <1>0, <1>1, DoorsKeep, CreationKeeps, ContinuationKeeps, LoopKeeps, BackupKeeps,
     ServingKeeps, EndKeeps DEF RunStep
<1>2. ASSUME NEW r \in Runs, WorkerStep(r) \/ CatchupFails(r) PROVE Account'
  BY <1>0, <1>2, WorkerKeeps
<1>3. ASSUME NEW r \in Runs, CommandFails(r) \/ HalfDone(r) PROVE Account'
  BY <1>0, <1>3, FailureKeeps
<1>4. ASSUME NEW r \in Runs, Kill(r) PROVE Account' BY <1>0, <1>4, EndKeeps
<1>5. CASE (\E c \in running : JobExpires(c)) \/ ServeReports \/ ServeFails \/ Tick
           \/ UNCHANGED vars
  BY <1>0, <1>5, SurroundingsKeep
<1> QED BY <1>1, <1>2, <1>3, <1>4, <1>5 DEF Next

LEMMA AccountAlways == Spec => [](OwnerInv /\ Account)
BY InitOwner, InitStop, InitAccount, NextKeeps, NextAccount, PTL DEF Spec

\* No interleaving of executions, failures, kills and minutes takes a variable of
\* the controller outside its range: a catch-up loop counts at most MaxBatches
\* batches, a continuation at most two backups, and every anchor the controller
\* computes is a minute of the clock.
THEOREM ControllerTypeCorrect == Spec => []TypeOK
<1>1. Account => TypeOK BY DEF Account
<1> QED BY <1>1, AccountAlways, PTL

\* The outbox and the inbox have no row before an execution has found a restored
\* backup equal to the history up to the end of its gap, for attempt 5 up to the
\* end of its final tail (backup_and_verify before qualify), also when a worker
\* of a failed or killed execution is still running.
THEOREM PublicationIsBackedUp == Spec => []PublishedIsBackedUp
<1>1. Account => PublishedIsBackedUp
  <2> SUFFICES ASSUME Account, delivered
               PROVE  \E r \in Runs : mem[r].owned /\ Backed(r)
    BY DEF PublishedIsBackedUp, Backed
  <2>1. PICK r \in Runs : mem[r].owned BY DEF Account, HostInv
  <2>2. Backed(r) BY <2>1 DEF Account, RunInv, BackedInv
  <2> QED BY <2>1, <2>2
<1> QED BY <1>1, AccountAlways, PTL

\* A PASS receipt is never written for an epoch whose serve has delivered nothing:
\* the status accepted after the restart is ahead of the audit-only history, and
\* every symbol has that minute in the database (restart_serve_and_validate).
THEOREM PassIsObservedLive == Spec => []PassIsLive
<1>1. Account => PassIsLive BY DEF Account, RunInv, LiveInv, PassIsLive
<1> QED BY <1>1, AccountAlways, PTL

\* Every batch of every attempt starts from the anchors the database has, asks for
\* at most MAX_CATCHUP_BARS bars and for at least one minute, is never refused for
\* lack of progress, and logs in with the password the history role has
\* (run_epoch, run_continuation, catchup_end_exclusive_ms, rotate-history).
THEOREM CatchupStaysExact == Spec => []CatchupIsExact
<1>1. Account => RollingIsHistory
  BY DEF Account, RunInv, RowsInv, RollingSteps, RollingIsHistory
<1>2. Account => BatchIsBounded
  <2> SUFFICES ASSUME Account, NEW r \in Runs,
                      pc[r] = "batch", Earliest(mem[r].rolling) < Goal(r)
               PROVE  BatchEnds(mem[r].rolling, Goal(r)) # {}
    BY DEF BatchIsBounded, Account, RunInv, RowsInv
  <2> DEFINE a == mem[r].rolling
             e == Earliest(a) + 1
             n == Cardinality(Symbols)
  <2>1. a \in Anchors /\ mem[r].last \in Nat /\ mem[r].goal \in Nat
    BY Numbers DEF Account
  <2>2. Earliest(a) \in Nat /\ Goal(r) \in Nat
    BY <2>1, EarliestIsLeast, Values DEF Goal
  <2>3. /\ n \in Nat /\ n # 0 /\ AppendLimit \in Nat /\ AppendLimit >= n
    BY ControllerAssumption, FS_CardinalityType, FS_EmptySet DEF ControllerAssumption
  <2>4. Required(a, e) \in Nat /\ Required(a, e) <= n BY <2>1, OneMinuteFits
  <2>5. AppendLimit \div n \in Int /\ AppendLimit \div n >= 1
    <3> HIDE DEF n
    <3> QED BY <2>3
  <2>6. e \in Earliest(a) + 1..Goal(r) BY <2>2
  <2>7. e <= Earliest(a) + AppendLimit \div n /\ Required(a, e) <= AppendLimit
    <3> HIDE DEF n, a
    <3> QED BY <2>2, <2>3, <2>4, <2>5
  <2> QED BY <2>6, <2>7 DEF BatchEnds
<1>3. OwnerInv /\ Account => CredentialIsCurrent
  <2> SUFFICES ASSUME OwnerInv, Account, NEW r \in Runs, pc[r] = "catching"
               PROVE  Password(r) = cred
    BY DEF CredentialIsCurrent
  <2>1. mem[r].attempt \in 0..5 /\ HostInv BY Numbers DEF Account
  <2>2. mem[r].owned BY DEF OwnerInv, Working
  <2>3. CASE mem[r].attempt = 0
    <3>1. evidence = {} BY <2>1, <2>2, <2>3 DEF HostInv, Attempt
    <3> QED BY <2>1, <2>3, <3>1 DEF HostInv, Password, Attempt
  <2>4. CASE mem[r].attempt \in 1..4
    BY <2>4 DEF Account, RunInv, PasswordInv, Password, Attempt
  <2>5. CASE mem[r].attempt = 5
    <3>1. evidence = 0..4 BY <2>1, <2>2, <2>5 DEF HostInv, Attempt
    <3>2. 4 \in evidence BY <3>1
    <3> QED BY <2>1, <2>5, <3>2 DEF HostInv, Password, Attempt
  <2> QED BY <2>1, <2>3, <2>4, <2>5
<1> QED BY <1>1, <1>2, <1>3, AccountAlways, PTL DEF CatchupIsExact
=============================================================================

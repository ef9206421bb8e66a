------------------------ MODULE BoundedBuild_proofs ------------------------
(***************************************************************************)
(* The lease and the PASS receipt of the bounded builds, for every number  *)
(* of adapters, qualifiers and faults.                                     *)
(*                                                                         *)
(* Neither property is inductive: that nothing is left of an invocation    *)
(* when its lease is released follows from what each phase of the run and  *)
(* of the cleanup has established.  BuildInv says it phase by phase:       *)
(* Accounted (what docker holds, the controller has intended), RunSoFar,   *)
(* CleanupSoFar, VerdictSoFar (how the workers ended and who has seen it), *)
(* and LeaseHeld.  The phases are sequences in the model; the first        *)
(* lemmas say which phase follows which.                                   *)
(***************************************************************************)
EXTENDS BoundedBuild, SequenceTheorems, TLAPS

ComposeRun == <<"prepare", "baseline", "scope", "create", "start", "ready", "cgroup", "mounts",
   "capacity", "fixture", "register", "image",
   "success", "fault", "cancel", "workers", "stimulus", "wait", "daemon",
         "fresh", "sources">>
DirectRun == <<"prepare", "baseline", "scope", "create", "start", "ready", "cgroup", "mounts",
   "fixture",
   "success", "fault", "cancel", "workers", "stimulus", "wait", "daemon",
         "fresh", "sources">>

RunNames == {"prepare", "baseline", "scope", "create", "start", "ready", "cgroup", "mounts",
             "capacity", "fixture", "register", "image", "success", "fault", "cancel",
             "workers", "stimulus", "wait", "daemon", "fresh", "sources"}

LEMMA ConcatOfThree ==
  ASSUME NEW S, NEW a \in Seq(S), NEW b \in Seq(S), NEW c \in Seq(S), NEW r \in Seq(S),
         Len(r) = Len(a) + Len(b) + Len(c),
         \A k \in 1 .. Len(a) : r[k] = a[k],
         \A k \in 1 .. Len(b) : r[Len(a) + k] = b[k],
         \A k \in 1 .. Len(c) : r[Len(a) + Len(b) + k] = c[k]
  PROVE  (a \o b) \o c = r
<1> DEFINE d == a \o b
           e == d \o c
<1>1. d \in Seq(S) /\ Len(d) = Len(a) + Len(b)
  BY ConcatProperties, Zenon
<1>2. \A k \in 1 .. Len(a) + Len(b) : (a \o b)[k] = IF k <= Len(a) THEN a[k] ELSE b[k - Len(a)]
  BY ConcatProperties
<1> HIDE DEF d
<1>3. e \in Seq(S) /\ Len(e) = Len(d) + Len(c)
  BY <1>1, ConcatProperties, Zenon
<1>4. \A k \in 1 .. Len(d) + Len(c) : e[k] = IF k <= Len(d) THEN d[k] ELSE c[k - Len(d)]
  BY <1>1, ConcatProperties, Zenon
<1> HIDE DEF e
<1>5. Len(a) \in Nat /\ Len(b) \in Nat /\ Len(c) \in Nat
  OBVIOUS
<1>6. \A k \in 1 .. Len(e) : e[k] = r[k]
  <2> TAKE k \in 1 .. Len(e)
  <2>1. CASE k <= Len(a)
    <3>1. k \in 1 .. Len(a) + Len(b) /\ k \in 1 .. Len(d) + Len(c) /\ k <= Len(d) /\ k \in 1 .. Len(a)
      BY <1>1, <1>3, <1>5, <2>1
    <3> QED BY <1>2, <1>4, <2>1, <3>1, Zenon DEF d
  <2>2. CASE ~(k <= Len(a)) /\ k <= Len(d)
    <3>1. k \in 1 .. Len(a) + Len(b) /\ k \in 1 .. Len(d) + Len(c) /\ k - Len(a) \in 1 .. Len(b)
          /\ Len(a) + (k - Len(a)) = k
      BY <1>1, <1>3, <1>5, <2>2
    <3>2. r[Len(a) + (k - Len(a))] = b[k - Len(a)]
      BY <3>1, Zenon
    <3>3. e[k] = b[k - Len(a)]
      BY <1>2, <1>4, <2>2, <3>1, Zenon DEF d
    <3> QED BY <3>1, <3>2, <3>3, Zenon
  <2>3. CASE ~(k <= Len(d))
    <3>1. k \in 1 .. Len(d) + Len(c) /\ k - Len(d) \in 1 .. Len(c)
          /\ Len(a) + Len(b) + (k - Len(d)) = k
      BY <1>1, <1>3, <1>5, <2>3
    <3>2. r[Len(a) + Len(b) + (k - Len(d))] = c[k - Len(d)]
      BY <3>1, Zenon
    <3>3. e[k] = c[k - Len(d)]
      BY <1>4, <2>3, <3>1, Zenon
    <3> QED BY <3>1, <3>2, <3>3, Zenon
  <2> QED BY <2>1, <2>2, <2>3
<1>7. Len(e) = Len(r)
  BY <1>1, <1>3
<1>8. e = r
  BY <1>3, <1>6, <1>7, SeqEqual
<1> QED BY <1>8 DEF d, e

LEMMA ComposeRunIs == ASSUME NEW i \in Compose PROVE RunPhases(i) = ComposeRun
<1> DEFINE a == <<"prepare", "baseline", "scope", "create", "start", "ready", "cgroup", "mounts">>
           b == <<"capacity", "fixture", "register", "image">>
           c == <<"success", "fault", "cancel", "workers", "stimulus", "wait", "daemon",
                  "fresh", "sources">>
<1>1. a \in Seq(RunNames)
  BY DEF RunNames
<1>2. b \in Seq(RunNames)
  BY DEF RunNames
<1>3. c \in Seq(RunNames)
  BY DEF RunNames
<1>4. ComposeRun \in Seq(RunNames)
  BY DEF ComposeRun, RunNames
<1>5. Len(a) = 8 /\ Len(b) = 4 /\ Len(c) = 9 /\ Len(ComposeRun) = 21
  BY DEF ComposeRun
<1>6. \A k \in 1 .. 8 : ComposeRun[k] = a[k]
  BY DEF ComposeRun
<1>7. \A k \in 1 .. 4 : ComposeRun[8 + k] = b[k]
  BY DEF ComposeRun
<1>8. \A k \in 1 .. 9 : ComposeRun[8 + 4 + k] = c[k]
  BY DEF ComposeRun
<1>9. RunPhases(i) = (a \o b) \o c
  BY BuildAssumption DEF RunPhases
<1> HIDE DEF a, b, c
<1>10. (a \o b) \o c = ComposeRun
  <2>1. Len(ComposeRun) = Len(a) + Len(b) + Len(c)
    BY <1>5
  <2>2. \A k \in 1 .. Len(a) : ComposeRun[k] = a[k]
    BY <1>5, <1>6, Zenon
  <2>3. \A k \in 1 .. Len(b) : ComposeRun[Len(a) + k] = b[k]
    BY <1>5, <1>7, Zenon
  <2>4. \A k \in 1 .. Len(c) : ComposeRun[Len(a) + Len(b) + k] = c[k]
    BY <1>5, <1>8, Zenon
  <2> QED BY <1>1, <1>2, <1>3, <1>4, <2>1, <2>2, <2>3, <2>4, ConcatOfThree, Zenon
<1> QED BY <1>9, <1>10

LEMMA DirectRunIs == ASSUME NEW i \in Direct PROVE RunPhases(i) = DirectRun
<1> DEFINE a == <<"prepare", "baseline", "scope", "create", "start", "ready", "cgroup", "mounts">>
           b == <<"fixture">>
           c == <<"success", "fault", "cancel", "workers", "stimulus", "wait", "daemon",
                  "fresh", "sources">>
<1>1. a \in Seq(RunNames)
  BY DEF RunNames
<1>2. b \in Seq(RunNames)
  BY DEF RunNames
<1>3. c \in Seq(RunNames)
  BY DEF RunNames
<1>4. DirectRun \in Seq(RunNames)
  BY DEF DirectRun, RunNames
<1>5. Len(a) = 8 /\ Len(b) = 1 /\ Len(c) = 9 /\ Len(DirectRun) = 18
  BY DEF DirectRun
<1>6. \A k \in 1 .. 8 : DirectRun[k] = a[k]
  BY DEF DirectRun
<1>7. \A k \in 1 .. 1 : DirectRun[8 + k] = b[k]
  BY DEF DirectRun
<1>8. \A k \in 1 .. 9 : DirectRun[8 + 1 + k] = c[k]
  BY DEF DirectRun
<1>9. RunPhases(i) = (a \o b) \o c
  BY BuildAssumption DEF RunPhases
<1> HIDE DEF a, b, c
<1>10. (a \o b) \o c = DirectRun
  <2>1. Len(DirectRun) = Len(a) + Len(b) + Len(c)
    BY <1>5
  <2>2. \A k \in 1 .. Len(a) : DirectRun[k] = a[k]
    BY <1>5, <1>6, Zenon
  <2>3. \A k \in 1 .. Len(b) : DirectRun[Len(a) + k] = b[k]
    BY <1>5, <1>7, Zenon
  <2>4. \A k \in 1 .. Len(c) : DirectRun[Len(a) + Len(b) + k] = c[k]
    BY <1>5, <1>8, Zenon
  <2> QED BY <1>1, <1>2, <1>3, <1>4, <2>1, <2>2, <2>3, <2>4, ConcatOfThree, Zenon
<1> QED BY <1>9, <1>10

LEMMA FollowsIs ==
  ASSUME NEW seq, NEW STATE phase, NEW last, NEW n \in DOMAIN seq, seq[n] = phase,
         \A k \in DOMAIN seq : seq[k] = phase => k = n
  PROVE  Follows(seq, phase, last) = IF n = Len(seq) THEN last ELSE seq[n + 1]
BY DEF Follows
LEMMA ComposeRunDomain == DOMAIN ComposeRun = 1 .. 21 /\ Len(ComposeRun) = 21
BY DEF ComposeRun
LEMMA ComposeRunOnce == 
   \A j \in 1..21, k \in 1..21 : ComposeRun[j] = ComposeRun[k] => j = k
BY DEF ComposeRun
-----------------------------------------------------------------------------
(* The invariant                                                           *)

CleanNames == {"clients", "find", "stop", "rm", "builder", "images", "rmi", "inventory", "trees"}
Places == RunNames \cup CleanNames
          \cup {"idle", "cleaned", "uncleaned", "release", "ended", "dead"}

Tags == {"success", "fresh", "late"}
Inventories == (SUBSET Invocations) \X [Invocations -> SUBSET Tags] \X {0, 1}

Memory == [baseline : {<<>>} \cup Inventories, intended : BOOLEAN, cid : BOOLEAN,
           builder_intended : BOOLEAN, image_intended : BOOLEAN,
           image_acknowledged : BOOLEAN, stimulated : BOOLEAN,
           failure : BOOLEAN, cleanup : BOOLEAN]

BuildTypeOK ==
    /\ at \in [Invocations -> Places]
    /\ object \in [Invocations -> Memory]
    /\ server \in [Invocations -> {"absent", "created", "running", "exited"}]
    /\ pending \in [Invocations -> BOOLEAN]
    /\ builder \in [Invocations -> BOOLEAN]
    /\ images \in [Invocations -> SUBSET Tags]
    /\ session \in [Invocations -> BOOLEAN]
    /\ client \in [Invocations -> {"none", "running", "exited"}]
    /\ workers \in [Invocations -> {"none", "alive", "cancelled", "ended with client",
                                    "ended with server"}]
    /\ unproven \in [Invocations -> BOOLEAN]
    /\ receipt \in [Invocations -> {"none", "PASS", "FAILED"}]
    /\ foreign \in {0, 1}

(* What docker holds of an invocation, its controller remembers as intended. *)
Accounted(i) ==
    /\ pending[i] => object[i].intended /\ ~object[i].cid /\ server[i] = "absent"
    /\ server[i] # "absent" \/ object[i].cid => object[i].intended
    /\ session[i] => server[i] = "running" /\ i \in Compose /\ object[i].image_intended
    /\ workers[i] = "alive" => server[i] = "running"
    /\ builder[i] => object[i].builder_intended /\ i \in Compose
    /\ images[i] # {} => object[i].image_intended /\ i \in Compose

BeforeCreate == {"idle", "prepare", "baseline", "scope", "create"}
BeforeCancel == BeforeCreate \cup
    {"start", "ready", "cgroup", "mounts", "capacity", "fixture", "register", "image",
     "success", "fault", "cancel"}
AfterCreate ==
    {"start", "ready", "cgroup", "mounts", "capacity", "fixture", "register", "image",
     "success", "fault", "cancel", "workers", "stimulus", "wait", "daemon", "fresh", "sources"}
AfterImage == {"success", "fault", "cancel", "workers", "stimulus", "wait", "daemon",
               "fresh", "sources"}
OfTheAdapter == {"capacity", "register", "image", "clients", "builder", "images", "rmi",
                 "trees"}
AfterWait == {"daemon", "fresh", "sources"}

(* What the run has established at each of its phases. *)
RunSoFar(i) ==
    /\ at[i] \in OfTheAdapter => i \in Compose
    /\ at[i] \in BeforeCreate => ~object[i].intended /\ ~object[i].cid
    /\ at[i] \in AfterCreate => object[i].intended /\ object[i].cid
    /\ at[i] \in BeforeCancel => client[i] = "none" /\ workers[i] = "none"
    /\ at[i] \in BeforeCancel \cup {"workers", "stimulus"} => ~object[i].stimulated
    /\ i \in Compose /\ at[i] \in AfterImage => object[i].image_intended
    /\ at[i] = "stimulus" => workers[i] # "none"
    /\ at[i] = "wait" => /\ object[i].stimulated
                         /\ workers[i] \in {"alive", "cancelled", "ended with server"}
    /\ at[i] \in AfterWait => workers[i] = "cancelled"

AfterRemoveImages == {"inventory", "trees", "cleaned", "release"}
AfterRemoveBuilder == AfterRemoveImages \cup {"images", "rmi"}
AfterRemove == AfterRemoveBuilder \cup {"builder"}
AfterStop == AfterRemove \cup {"rm"}
AfterFind == AfterStop \cup {"stop"}

(* What the cleanup has established at each of its phases. *)
CleanupSoFar(i) ==
    /\ at[i] \in AfterFind => (object[i].intended => object[i].cid)
    /\ at[i] \in AfterStop => server[i] # "running"
    /\ at[i] \in AfterRemove => server[i] = "absent"
    /\ at[i] \in AfterRemoveBuilder => ~builder[i]
    /\ at[i] \in AfterRemoveImages => images[i] = {}
    /\ i \in Compose /\ at[i] \in {"cleaned", "release"} => ~unproven[i]

(* How the workers ended, and what a run without a failure has seen of it. *)
VerdictSoFar(i) ==
    /\ workers[i] = "ended with client" => client[i] = "exited"
    /\ workers[i] = "ended with server" => server[i] # "running"
    /\ workers[i] = "cancelled" => object[i].stimulated
    /\ at[i] \in CleanNames \cup {"cleaned"} /\ ~object[i].failure => workers[i] = "cancelled"
    /\ receipt[i] = "PASS" => /\ workers[i] = "cancelled" /\ ~Left(i)
                              /\ at[i] \in {"release", "ended", "dead"}

Account(i) == Accounted(i) /\ RunSoFar(i) /\ CleanupSoFar(i) /\ VerdictSoFar(i)

LeaseHeld == \A i \in Invocations : Active(i) \/ Left(i) => lease = i

BuildInv == BuildTypeOK /\ (\A i \in Invocations : Account(i)) /\ LeaseHeld
-----------------------------------------------------------------------------
(* Control: which phase follows which                                      *)

LEMMA DirectRunDomain == DOMAIN DirectRun = 1 .. 18 /\ Len(DirectRun) = 18
BY DEF DirectRun
LEMMA DirectRunOnce ==
   \A j \in 1..18, k \in 1..18 : DirectRun[j] = DirectRun[k] => j = k
BY DEF DirectRun

LEMMA CleanupOnce ==
  ASSUME NEW i \in Invocations
  PROVE  /\ \A j, k \in DOMAIN CleanupPhases(i) : CleanupPhases(i)[j] = CleanupPhases(i)[k] => j = k
         /\ \A k \in DOMAIN CleanupPhases(i) : CleanupPhases(i)[k] \in CleanNames
         /\ i \in Compose => /\ DOMAIN CleanupPhases(i) = 1..9 /\ Len(CleanupPhases(i)) = 9
                             /\ CleanupPhases(i)[1] = "clients"
         /\ i \in Direct => /\ DOMAIN CleanupPhases(i) = 1..4 /\ Len(CleanupPhases(i)) = 4
                            /\ CleanupPhases(i)[1] = "find"
BY BuildAssumption DEF CleanupPhases, CleanNames, Invocations

LEMMA ComposeNames ==
  /\ \A k \in 1..21 : ComposeRun[k] \in RunNames
  /\ \A p \in RunNames : \E k \in 1..21 : ComposeRun[k] = p
BY DEF ComposeRun, RunNames
LEMMA DirectNames == \A k \in 1..18 : DirectRun[k] \in RunNames
BY DEF DirectRun, RunNames

LEMMA NamesApart == RunNames \cap CleanNames = {}
BY DEF RunNames, CleanNames

(* Where a step is in its program *)
LEMMA InProgram ==
  ASSUME NEW i \in Invocations
  PROVE  /\ Running(i) => at[i] \in RunNames
         /\ Cleaning(i) => at[i] \in CleanNames
         /\ WhenFailed(i) \in {"uncleaned", "clients", "find"}
         /\ WhenFailed(i) = "clients" => i \in Compose
<1>1. CASE i \in Compose
  BY <1>1, ComposeRunIs, ComposeRunDomain, ComposeNames, CleanupOnce DEF Running, Cleaning, WhenFailed
<1>2. CASE i \in Direct
  BY <1>2, DirectRunIs, DirectRunDomain, DirectNames, CleanupOnce DEF Running, Cleaning, WhenFailed
<1> QED BY <1>1, <1>2 DEF Invocations

LEMMA ComposeRunStep ==
  ASSUME NEW i \in Compose, NEW n \in 1..21, at[i] = ComposeRun[n]
  PROVE  AfterPhase(i) = IF n = 21 THEN "clients" ELSE ComposeRun[n + 1]
<1>1. Running(i)
  BY ComposeRunIs, ComposeRunDomain DEF Running
<1>2. Follows(ComposeRun, at[i], CleanupPhases(i)[1])
        = IF n = Len(ComposeRun) THEN CleanupPhases(i)[1] ELSE ComposeRun[n + 1]
  <2>1. n \in DOMAIN ComposeRun /\ \A k \in DOMAIN ComposeRun : ComposeRun[k] = at[i] => k = n
    BY ComposeRunDomain, ComposeRunOnce
  <2> QED BY <2>1, FollowsIs
<1> QED BY <1>1, <1>2, ComposeRunIs, ComposeRunDomain, CleanupOnce DEF AfterPhase, Invocations

LEMMA DirectRunStep ==
  ASSUME NEW i \in Direct, NEW n \in 1..18, at[i] = DirectRun[n]
  PROVE  AfterPhase(i) = IF n = 18 THEN "find" ELSE DirectRun[n + 1]
<1>1. Running(i)
  BY DirectRunIs, DirectRunDomain DEF Running
<1>2. Follows(DirectRun, at[i], CleanupPhases(i)[1])
        = IF n = Len(DirectRun) THEN CleanupPhases(i)[1] ELSE DirectRun[n + 1]
  <2>1. n \in DOMAIN DirectRun /\ \A k \in DOMAIN DirectRun : DirectRun[k] = at[i] => k = n
    BY DirectRunDomain, DirectRunOnce
  <2> QED BY <2>1, FollowsIs
<1> QED BY <1>1, <1>2, DirectRunIs, DirectRunDomain, CleanupOnce DEF AfterPhase, Invocations

LEMMA CleanupPhaseStep ==
  ASSUME NEW i \in Invocations, NEW n \in DOMAIN CleanupPhases(i), at[i] = CleanupPhases(i)[n]
  PROVE  AfterPhase(i) = IF n = Len(CleanupPhases(i)) THEN "cleaned" ELSE CleanupPhases(i)[n + 1]
<1>1. ~Running(i)
  BY InProgram, CleanupOnce, NamesApart
<1>2. Follows(CleanupPhases(i), at[i], "cleaned")
        = IF n = Len(CleanupPhases(i)) THEN "cleaned" ELSE CleanupPhases(i)[n + 1]
  BY CleanupOnce, FollowsIs
<1> QED BY <1>1, <1>2 DEF AfterPhase

(* The phase after each phase of the run *)
LEMMA AfterRun ==
  ASSUME NEW i \in Invocations
  PROVE  /\ at[i] = "prepare" => AfterPhase(i) = "baseline"
         /\ at[i] = "baseline" => AfterPhase(i) = "scope"
         /\ at[i] = "scope" => AfterPhase(i) = "create"
         /\ at[i] = "create" => AfterPhase(i) = "start"
         /\ at[i] = "start" => AfterPhase(i) = "ready"
         /\ at[i] = "ready" => AfterPhase(i) = "cgroup"
         /\ at[i] = "cgroup" => AfterPhase(i) = "mounts"
         /\ at[i] = "mounts" => AfterPhase(i) = IF i \in Compose THEN "capacity" ELSE "fixture"
         /\ at[i] = "success" => AfterPhase(i) = "fault"
         /\ at[i] = "fault" => AfterPhase(i) = "cancel"
         /\ at[i] = "cancel" => AfterPhase(i) = "workers"
         /\ at[i] = "workers" => AfterPhase(i) = "stimulus"
         /\ at[i] = "stimulus" => AfterPhase(i) = "wait"
         /\ at[i] = "wait" => AfterPhase(i) = "daemon"
         /\ at[i] = "daemon" => AfterPhase(i) = "fresh"
         /\ at[i] = "fresh" => AfterPhase(i) = "sources"
         /\ at[i] = "sources" => AfterPhase(i) = IF i \in Compose THEN "clients" ELSE "find"
         /\ at[i] = "fixture" => AfterPhase(i) = IF i \in Compose THEN "register" ELSE "success"
<1>1. CASE i \in Compose
  BY <1>1, ComposeRunStep DEF ComposeRun
<1>2. CASE i \in Direct
  BY <1>2, DirectRunStep, BuildAssumption DEF DirectRun
<1> QED BY <1>1, <1>2 DEF Invocations

(* The phases that only the adapter has *)
LEMMA AfterAdapter ==
  ASSUME NEW i \in Compose
  PROVE  /\ at[i] = "capacity" => AfterPhase(i) = "fixture"
         /\ at[i] = "register" => AfterPhase(i) = "image"
         /\ at[i] = "image" => AfterPhase(i) = "success"
         /\ at[i] = "clients" => AfterPhase(i) = "find"
         /\ at[i] = "builder" => AfterPhase(i) = "images"
         /\ at[i] = "images" => AfterPhase(i) = "rmi"
         /\ at[i] = "rmi" => AfterPhase(i) = "inventory"
         /\ at[i] = "trees" => AfterPhase(i) = "cleaned"
BY ComposeRunStep, CleanupPhaseStep DEF ComposeRun, CleanupPhases, Invocations

(* The phase after each phase of the cleanup *)
LEMMA AfterCleanup ==
  ASSUME NEW i \in Invocations
  PROVE  /\ at[i] = "find" => AfterPhase(i) = "stop"
         /\ at[i] = "stop" => AfterPhase(i) = "rm"
         /\ at[i] = "rm" => AfterPhase(i) = IF i \in Compose THEN "builder" ELSE "inventory"
         /\ at[i] = "inventory" => AfterPhase(i) = IF i \in Compose THEN "trees" ELSE "cleaned"
<1>1. CASE i \in Compose
  BY <1>1, CleanupPhaseStep DEF CleanupPhases
<1>2. CASE i \in Direct
  BY <1>2, CleanupPhaseStep, BuildAssumption DEF CleanupPhases
<1> QED BY <1>1, <1>2 DEF Invocations
-----------------------------------------------------------------------------
(* A step of one invocation                                                *)

OnlyOf(i) ==
    \A j \in Invocations \ {i} :
        /\ at'[j] = at[j] /\ object'[j] = object[j] /\ server'[j] = server[j]
        /\ pending'[j] = pending[j] /\ builder'[j] = builder[j] /\ images'[j] = images[j]
        /\ session'[j] = session[j] /\ client'[j] = client[j] /\ workers'[j] = workers[j]
        /\ unproven'[j] = unproven[j] /\ receipt'[j] = receipt[j]

Keeps(i) ==
    /\ BuildTypeOK' /\ OnlyOf(i) /\ Account(i)' /\ lease' = lease
    /\ Active(i)' \/ Left(i)' => Active(i) \/ Left(i)

LEMMA OthersKeep ==
  ASSUME BuildInv, NEW i \in Invocations, OnlyOf(i), Account(i)'
  PROVE  \A j \in Invocations : Account(j)'
<1> SUFFICES ASSUME NEW j \in Invocations, j # i PROVE Account(j)'
  OBVIOUS
<1>1. Account(j)
  BY DEF BuildInv
<1>2. Accounted(j)'
  BY <1>1 DEF OnlyOf, Account, Accounted
<1>3. RunSoFar(j)'
  BY <1>1 DEF OnlyOf, Account, RunSoFar
<1>4. CleanupSoFar(j)'
  BY <1>1 DEF OnlyOf, Account, CleanupSoFar
<1>5. VerdictSoFar(j)'
  BY <1>1 DEF OnlyOf, Account, VerdictSoFar, Left
<1> QED BY <1>2, <1>3, <1>4, <1>5 DEF Account

LEMMA KeepsInv ==
  ASSUME BuildInv, NEW i \in Invocations, Keeps(i)
  PROVE  BuildInv'
<1>1. \A j \in Invocations : Account(j)'
  BY OthersKeep DEF Keeps
<1>2. ASSUME NEW j \in Invocations, Active(j)' \/ Left(j)' PROVE lease' = j
  <2>1. CASE j = i
    BY <1>2, <2>1 DEF Keeps, BuildInv, LeaseHeld
  <2>2. CASE j # i
    <3>1. Active(j)' = Active(j) /\ Left(j)' = Left(j)
      BY <2>2 DEF Keeps, OnlyOf, Active, Left
    <3> QED BY <1>2, <3>1 DEF Keeps, BuildInv, LeaseHeld
  <2> QED BY <2>1, <2>2
<1> QED BY <1>1, <1>2 DEF Keeps, BuildInv, LeaseHeld

(* What is known of the invocation that moves. *)
InPhase(i) == at[i] \in RunNames \cup CleanNames

LEMMA PhaseIsActive ==
  ASSUME BuildInv, NEW i \in Invocations, InPhase(i)
  PROVE  Active(i) /\ receipt[i] # "PASS"
BY DEF BuildInv, Account, VerdictSoFar, InPhase, Active, RunNames, CleanNames

LEMMA FailedMemory ==
  ASSUME BuildTypeOK, NEW i \in Invocations, Fails(i)
  PROVE  /\ object' \in [Invocations -> Memory] /\ at' \in [Invocations -> Places]
         /\ at'[i] \in {"uncleaned", "clients", "find"}
         /\ at'[i] = "clients" => i \in Compose
         /\ object'[i].failure
         /\ object'[i].intended = object[i].intended
         /\ object'[i].cid = object[i].cid
         /\ object'[i].builder_intended = object[i].builder_intended
         /\ object'[i].image_intended = object[i].image_intended
         /\ object'[i].stimulated = object[i].stimulated
         /\ \A j \in Invocations \ {i} : at'[j] = at[j] /\ object'[j] = object[j]
<1> DEFINE o == [object[i] EXCEPT !.failure = TRUE]
<1>1. object[i] \in Memory
  BY DEF BuildTypeOK
<1>2. o \in Memory
  BY <1>1 DEF Memory
<1>3. o.failure /\ o.intended = object[i].intended /\ o.cid = object[i].cid
      /\ o.builder_intended = object[i].builder_intended
      /\ o.image_intended = object[i].image_intended
      /\ o.stimulated = object[i].stimulated
  BY <1>1 DEF Memory
<1>4. object' = [object EXCEPT ![i] = o] /\ at' = [at EXCEPT ![i] = WhenFailed(i)]
  BY DEF Fails, Remember
<1> HIDE DEF o
<1>5. WhenFailed(i) \in Places
  BY InProgram DEF Places, CleanNames
<1>6. at'[i] = WhenFailed(i) /\ object'[i] = o
  BY <1>4 DEF BuildTypeOK
<1>7. object' \in [Invocations -> Memory] /\ at' \in [Invocations -> Places]
  BY <1>2, <1>4, <1>5 DEF BuildTypeOK
<1>8. \A j \in Invocations \ {i} : at'[j] = at[j] /\ object'[j] = object[j]
  BY <1>4 DEF BuildTypeOK
<1> QED BY <1>3, <1>6, <1>7, <1>8, InProgram

(* A failed phase owes nothing to the run or to the cleanup any more. *)
LEMMA FailedClaims ==
  ASSUME BuildInv, NEW i \in Invocations, InPhase(i), Fails(i), receipt' = receipt
  PROVE  /\ RunSoFar(i)' /\ CleanupSoFar(i)' /\ Active(i)
         /\ at'[i] \in CleanNames \cup {"cleaned"} /\ ~object'[i].failure => workers'[i] = "cancelled"
         /\ receipt'[i] # "PASS"
<1>1. at'[i] \in {"uncleaned", "clients", "find"} /\ (at'[i] = "clients" => i \in Compose)
      /\ object'[i].failure
  BY FailedMemory DEF BuildInv
<1>2. RunSoFar(i)'
  BY <1>1 DEF RunSoFar, BeforeCreate, BeforeCancel, AfterCreate, AfterImage, AfterWait,
           OfTheAdapter
<1>3. CleanupSoFar(i)'
  BY <1>1 DEF CleanupSoFar, AfterFind, AfterStop, AfterRemove, AfterRemoveBuilder, AfterRemoveImages
<1> QED BY <1>1, <1>2, <1>3, PhaseIsActive

LEMMA RefusesKeeps ==
  ASSUME BuildInv, NEW i \in Invocations, InPhase(i), Refuses(i)
  PROVE  Keeps(i)
<1>1. Fails(i) /\ UNCHANGED <<daemon, load, outcome, unproven, foreign>>
  BY DEF Refuses
<1>2. BuildTypeOK'
  BY <1>1, FailedMemory DEF BuildInv, BuildTypeOK, daemon, load, outcome
<1>3. OnlyOf(i)
  BY <1>1, FailedMemory DEF BuildInv, OnlyOf, daemon, load, outcome
<1>4. Accounted(i) /\ VerdictSoFar(i)
  BY DEF BuildInv, Account
<1>5. Accounted(i)'
  BY <1>1, <1>4, FailedMemory DEF BuildInv, Accounted, daemon, load, outcome
<1>6. VerdictSoFar(i)'
  BY <1>1, <1>4, FailedMemory, FailedClaims DEF BuildInv, VerdictSoFar, daemon, load, outcome
<1> QED BY <1>1, <1>2, <1>3, <1>5, <1>6, FailedClaims DEF Keeps, Account, daemon, load, outcome

(* A phase whose check passes, or that has nothing to do. *)
Passes(i) == Advance(i) /\ UNCHANGED <<object, daemon, load, outcome, unproven, foreign, faults>>

LEMMA ChecksIs ==
  ASSUME NEW i, NEW STATE ok, Checks(i, ok)
  PROVE  (ok /\ Passes(i)) \/ (~ok /\ Refuses(i))
BY DEF Checks, Passes

LEMMA PassesKeeps ==
  ASSUME BuildInv, NEW i \in Invocations, InPhase(i), Passes(i),
         AfterPhase(i) \in RunNames \cup CleanNames \cup {"cleaned"},
         RunSoFar(i)', CleanupSoFar(i)',
         at'[i] \in CleanNames \cup {"cleaned"} /\ ~object[i].failure => workers[i] = "cancelled"
  PROVE  Keeps(i)
<1>1. at' = [at EXCEPT ![i] = AfterPhase(i)] /\ UNCHANGED <<object, daemon, load, outcome, unproven, foreign>>
  BY DEF Passes, Advance
<1>2. BuildTypeOK'
  BY <1>1 DEF BuildInv, BuildTypeOK, Places, daemon, load, outcome
<1>3. OnlyOf(i)
  BY <1>1 DEF BuildInv, BuildTypeOK, OnlyOf, daemon, load, outcome
<1>4. Accounted(i) /\ VerdictSoFar(i)
  BY DEF BuildInv, Account
<1>5. Accounted(i)'
  BY <1>1, <1>4 DEF Accounted, daemon, load, outcome
<1>6. VerdictSoFar(i)'
  BY <1>1, <1>4, PhaseIsActive DEF VerdictSoFar, daemon, load, outcome
<1> QED BY <1>1, <1>2, <1>3, <1>5, <1>6, PhaseIsActive DEF Keeps, Account, daemon, load, outcome
-----------------------------------------------------------------------------
(* The phases of the run that only look                                    *)

LEMMA ProbePasses ==
  ASSUME BuildInv, NEW i \in Invocations, Passes(i),
         at[i] \in {"prepare", "scope", "ready", "cgroup", "mounts", "capacity", "fixture",
                    "fault", "daemon", "sources"}
  PROVE  Keeps(i)
<1>1. /\ at' = [at EXCEPT ![i] = AfterPhase(i)] /\ object' = object /\ client' = client
      /\ workers' = workers /\ at \in [Invocations -> Places]
  BY DEF Passes, Advance, load, BuildInv, BuildTypeOK
<1>2. at'[i] = AfterPhase(i)
  BY <1>1
<1>3. RunSoFar(i)
  BY DEF BuildInv, Account
<1>4. at[i] \in OfTheAdapter => i \in Compose
  BY <1>3 DEF RunSoFar
<1>5. /\ AfterPhase(i) \in {"baseline", "create", "cgroup", "mounts", "capacity", "fixture", "register",
                            "success", "cancel", "fresh", "clients", "find"}
      /\ AfterPhase(i) \in {"capacity", "register", "clients"} => i \in Compose
      /\ AfterPhase(i) = "success" => i \notin Compose
      /\ AfterPhase(i) \in {"baseline", "create"} => at[i] \in {"prepare", "scope"}
      /\ AfterPhase(i) \in {"clients", "find"} => at[i] = "sources"
      /\ AfterPhase(i) = "fresh" => at[i] = "daemon"
      /\ AfterPhase(i) \notin {"fresh", "clients", "find"} => at[i] \in BeforeCancel
      /\ AfterPhase(i) \notin {"baseline", "create"} => at[i] \in AfterCreate
  BY <1>4, AfterRun, AfterAdapter DEF OfTheAdapter, BeforeCancel, BeforeCreate, AfterCreate
<1>6. RunSoFar(i)'
  <2>1. CASE AfterPhase(i) \in {"clients", "find"}
    BY <1>2, <1>5, <2>1
       DEF RunSoFar, BeforeCreate, BeforeCancel, AfterCreate, AfterImage, AfterWait,
           OfTheAdapter
  <2>2. CASE AfterPhase(i) = "fresh"
    BY <1>1, <1>2, <1>3, <1>5, <2>2
       DEF RunSoFar, BeforeCreate, BeforeCancel, AfterCreate, AfterImage, AfterWait,
           OfTheAdapter
  <2>3. CASE AfterPhase(i) \in {"baseline", "create", "cgroup", "mounts", "capacity", "fixture",
                                "register", "success"}
    <3>1. client'[i] = "none" /\ workers'[i] = "none" /\ ~object'[i].stimulated
      BY <1>1, <1>3, <1>5, <2>3 DEF RunSoFar
    <3>2. at'[i] \in {"baseline", "create"} => ~object'[i].intended /\ ~object'[i].cid
      BY <1>1, <1>2, <1>3, <1>5 DEF RunSoFar, BeforeCreate
    <3>3. at'[i] \notin {"baseline", "create"} => object'[i].intended /\ object'[i].cid
      BY <1>1, <1>2, <1>3, <1>5 DEF RunSoFar
    <3> QED BY <1>2, <1>5, <2>3, <3>1, <3>2, <3>3
            DEF RunSoFar, BeforeCreate, BeforeCancel, AfterCreate, AfterImage, AfterWait,
           OfTheAdapter
  <2>4. CASE AfterPhase(i) = "cancel"
    <3>1. client'[i] = "none" /\ workers'[i] = "none" /\ ~object'[i].stimulated
      BY <1>1, <1>3, <1>5, <2>4 DEF RunSoFar
    <3>2. at[i] = "fault"
      BY <1>5, <2>4, AfterRun, AfterAdapter, <1>4 DEF OfTheAdapter
    <3>3. (i \in Compose => object'[i].image_intended) /\ object'[i].intended /\ object'[i].cid
      BY <1>1, <1>3, <3>2 DEF RunSoFar, AfterImage, AfterCreate
    <3> QED BY <1>2, <2>4, <3>1, <3>3
            DEF RunSoFar, BeforeCreate, BeforeCancel, AfterCreate, AfterImage, AfterWait,
           OfTheAdapter
  <2> QED BY <1>5, <2>1, <2>2, <2>3, <2>4
<1>7. CleanupSoFar(i)'
  BY <1>2, <1>5 DEF CleanupSoFar, AfterFind, AfterStop, AfterRemove, AfterRemoveBuilder,
                    AfterRemoveImages
<1>8. at'[i] \in CleanNames \cup {"cleaned"} => workers[i] = "cancelled"
  BY <1>2, <1>3, <1>5 DEF RunSoFar, CleanNames, AfterWait
<1>9. InPhase(i) /\ AfterPhase(i) \in RunNames \cup CleanNames \cup {"cleaned"}
  BY <1>5 DEF InPhase, RunNames, CleanNames
<1> QED BY <1>6, <1>7, <1>8, <1>9, PassesKeeps

LEMMA ProbeKeeps ==
  ASSUME BuildInv, NEW i \in Invocations, NEW STATE ok, Checks(i, ok),
         at[i] \in {"prepare", "scope", "ready", "cgroup", "mounts", "capacity", "fixture",
                    "fault", "daemon", "sources"}
  PROVE  Keeps(i)
<1>1. InPhase(i)
  BY DEF InPhase, RunNames
<1>2. Passes(i) \/ Refuses(i)
  BY ChecksIs
<1> QED BY <1>1, <1>2, ProbePasses, RefusesKeeps

LEMMA ProbesKeep ==
  ASSUME BuildInv, NEW i \in Invocations,
         Prepare(i) \/ NoServerOfThisScope(i) \/ Ready(i) \/ KernelBounds(i) \/ EffectiveMounts(i)
           \/ Capacity(i) \/ Fixture(i) \/ FaultRejected(i) \/ DaemonStillRuns(i) \/ SourcesUnchanged(i)
  PROVE  Keeps(i)
<1>1. CASE Prepare(i)
  BY <1>1, ProbeKeeps DEF Prepare
<1>2. CASE NoServerOfThisScope(i)
  BY <1>2, ProbeKeeps DEF NoServerOfThisScope
<1>3. CASE Ready(i)
  BY <1>3, ProbeKeeps DEF Ready
<1>4. CASE KernelBounds(i)
  BY <1>4, ProbeKeeps DEF KernelBounds
<1>5. CASE EffectiveMounts(i)
  BY <1>5, ProbeKeeps DEF EffectiveMounts
<1>6. CASE Capacity(i)
  BY <1>6, ProbeKeeps DEF Capacity
<1>7. CASE Fixture(i)
  BY <1>7, ProbeKeeps DEF Fixture
<1>8. CASE FaultRejected(i)
  BY <1>8, ProbeKeeps DEF FaultRejected
<1>9. CASE DaemonStillRuns(i)
  BY <1>9, ProbeKeeps DEF DaemonStillRuns
<1>10. CASE SourcesUnchanged(i)
  BY <1>10, ProbeKeeps DEF SourcesUnchanged
<1> QED BY <1>1, <1>2, <1>3, <1>4, <1>5, <1>6, <1>7, <1>8, <1>9, <1>10

LEMMA SeeWorkersKeeps ==
  ASSUME BuildInv, NEW i \in Invocations, SeeWorkers(i)
  PROVE  Keeps(i)
<1>0. at[i] = "workers" /\ InPhase(i) /\ at \in [Invocations -> Places]
  BY DEF SeeWorkers, InPhase, RunNames, BuildInv, BuildTypeOK
<1>1. CASE Refuses(i)
  BY <1>0, <1>1, RefusesKeeps
<1>2. CASE workers[i] = "alive" /\ Passes(i)
  <2>1. at'[i] = "stimulus" /\ AfterPhase(i) = "stimulus" /\ object' = object /\ workers' = workers
    BY <1>0, <1>2, AfterRun DEF Passes, Advance, load
  <2>2. RunSoFar(i)
    BY DEF BuildInv, Account
  <2>3. RunSoFar(i)'
    BY <1>0, <1>2, <2>1, <2>2
       DEF RunSoFar, BeforeCreate, BeforeCancel, AfterCreate, AfterImage, AfterWait,
           OfTheAdapter
  <2>4. CleanupSoFar(i)'
    BY <2>1 DEF CleanupSoFar, AfterFind, AfterStop, AfterRemove, AfterRemoveBuilder,
                AfterRemoveImages
  <2> QED BY <1>0, <1>2, <2>1, <2>3, <2>4, PassesKeeps DEF RunNames, CleanNames
<1> QED
  <2>1. ASSUME Checks(i, TRUE) PROVE Passes(i)
    BY <2>1 DEF Checks, Passes
  <2> QED BY <1>1, <1>2, <2>1 DEF SeeWorkers

LEMMA AwaitCancelledKeeps ==
  ASSUME BuildInv, NEW i \in Invocations, AwaitCancelled(i)
  PROVE  Keeps(i)
<1>0. at[i] = "wait" /\ InPhase(i) /\ at \in [Invocations -> Places]
  BY DEF AwaitCancelled, InPhase, RunNames, BuildInv, BuildTypeOK
<1>1. CASE Refuses(i)
  BY <1>0, <1>1, RefusesKeeps
<1>2. CASE CancellationProven(i) /\ Passes(i)
  <2>1. at'[i] = "daemon" /\ AfterPhase(i) = "daemon" /\ object' = object /\ workers' = workers
    BY <1>0, <1>2, AfterRun DEF Passes, Advance, load
  <2>2. RunSoFar(i) /\ VerdictSoFar(i)
    BY DEF BuildInv, Account
  <2>3. workers[i] = "cancelled"
    BY <1>0, <1>2, <2>2 DEF CancellationProven, RunSoFar, VerdictSoFar
  <2>4. RunSoFar(i)'
    BY <1>0, <2>1, <2>2, <2>3
       DEF RunSoFar, BeforeCreate, BeforeCancel, AfterCreate, AfterImage, AfterWait,
           OfTheAdapter
  <2>5. CleanupSoFar(i)'
    BY <2>1 DEF CleanupSoFar, AfterFind, AfterStop, AfterRemove, AfterRemoveBuilder,
                AfterRemoveImages
  <2> QED BY <1>0, <1>2, <2>1, <2>4, <2>5, PassesKeeps DEF RunNames, CleanNames
<1> QED
  <2>1. ASSUME Checks(i, TRUE) PROVE Passes(i)
    BY <2>1 DEF Checks, Passes
  <2> QED BY <1>1, <1>2, <2>1 DEF AwaitCancelled
-----------------------------------------------------------------------------
(* Phases with an effect                                                   *)

LEMMA Assemble ==
  ASSUME BuildInv, NEW i \in Invocations, InPhase(i), BuildTypeOK', OnlyOf(i), lease' = lease,
         Accounted(i)', RunSoFar(i)', CleanupSoFar(i)', VerdictSoFar(i)'
  PROVE  Keeps(i)
BY PhaseIsActive DEF Keeps, Account

DockerOK ==
    /\ server \in [Invocations -> {"absent", "created", "running", "exited"}]
    /\ pending \in [Invocations -> BOOLEAN]
    /\ builder \in [Invocations -> BOOLEAN]
    /\ images \in [Invocations -> SUBSET Tags]
    /\ session \in [Invocations -> BOOLEAN]
    /\ client \in [Invocations -> {"none", "running", "exited"}]
    /\ workers \in [Invocations -> {"none", "alive", "cancelled", "ended with client",
                                    "ended with server"}]

DockerOnlyOf(i) ==
    \A j \in Invocations \ {i} :
        /\ server'[j] = server[j] /\ pending'[j] = pending[j] /\ builder'[j] = builder[j]
        /\ images'[j] = images[j] /\ session'[j] = session[j] /\ client'[j] = client[j]
        /\ workers'[j] = workers[j]

WorkersVerdict(i) ==
    /\ workers[i] = "ended with client" => client[i] = "exited"
    /\ workers[i] = "ended with server" => server[i] # "running"
    /\ workers[i] = "cancelled" => object[i].stimulated

LEMMA TreeTyped ==
  ASSUME BuildTypeOK, NEW i \in Invocations, TreeMayStay(i) \/ unproven' = unproven
  PROVE  /\ unproven' \in [Invocations -> BOOLEAN]
         /\ \A j \in Invocations \ {i} : unproven'[j] = unproven[j]
<1>1. CASE TreeMayStay(i)
  <2>1. PICK t \in BOOLEAN : unproven' = [unproven EXCEPT ![i] = unproven[i] \/ t]
    BY <1>1 DEF TreeMayStay
  <2>2. (unproven[i] \/ t) \in BOOLEAN
    OBVIOUS
  <2> QED BY <2>1, <2>2 DEF BuildTypeOK
<1>2. CASE unproven' = unproven
  BY <1>2 DEF BuildTypeOK
<1> QED BY <1>1, <1>2

(* A phase that fails, whatever its command did to docker. *)
LEMMA AssembleFailed ==
  ASSUME BuildInv, NEW i \in Invocations, InPhase(i), Fails(i),
         TreeMayStay(i) \/ unproven' = unproven,
         lease' = lease, receipt' = receipt, foreign' = foreign,
         DockerOK', DockerOnlyOf(i), Accounted(i)', WorkersVerdict(i)'
  PROVE  Keeps(i)
<1>1. /\ unproven' \in [Invocations -> BOOLEAN]
      /\ \A j \in Invocations \ {i} : unproven'[j] = unproven[j]
  BY TreeTyped DEF BuildInv
<1>2. BuildTypeOK'
  BY <1>1, FailedMemory DEF BuildInv, BuildTypeOK, DockerOK
<1>3. OnlyOf(i)
  BY <1>1, FailedMemory DEF BuildInv, OnlyOf, DockerOnlyOf
<1>4. VerdictSoFar(i)'
  BY FailedClaims DEF VerdictSoFar, WorkersVerdict
<1> QED BY <1>2, <1>3, <1>4, FailedClaims, Assemble

LEMMA LostKeeps ==
  ASSUME BuildInv, NEW i \in Invocations, InPhase(i), AnswerLost(i),
         UNCHANGED <<outcome, foreign>>, DockerOK', DockerOnlyOf(i), Accounted(i)', WorkersVerdict(i)'
  PROVE  Keeps(i)
BY AssembleFailed DEF AnswerLost, outcome

LEMMA CallFailsKeeps ==
  ASSUME BuildInv, NEW i \in Invocations, CallFails(i)
  PROVE  Keeps(i)
<1>1. InPhase(i)
  BY InProgram DEF CallFails, InPhase
<1>2. UNCHANGED <<daemon, load, outcome, foreign>> /\ Fails(i)
  BY DEF CallFails, AnswerLost
<1>3. DockerOK' /\ DockerOnlyOf(i)
  BY <1>2 DEF BuildInv, BuildTypeOK, DockerOK, DockerOnlyOf, daemon, load
<1>4. Accounted(i) /\ VerdictSoFar(i)
  BY DEF BuildInv, Account
<1>5. Accounted(i)'
  BY <1>2, <1>4, FailedMemory DEF BuildInv, Accounted, daemon, load
<1>6. WorkersVerdict(i)'
  BY <1>2, <1>4, FailedMemory DEF BuildInv, VerdictSoFar, WorkersVerdict, daemon, load
<1> QED BY <1>1, <1>2, <1>3, <1>5, <1>6, LostKeeps DEF CallFails

LEMMA Known ==
  ASSUME BuildInv, NEW i \in Invocations
  PROVE  /\ BuildTypeOK /\ Accounted(i) /\ RunSoFar(i) /\ CleanupSoFar(i) /\ VerdictSoFar(i)
         /\ object[i] \in Memory
BY DEF BuildInv, BuildTypeOK, Account

LEMMA Remembers ==
  ASSUME BuildTypeOK, NEW i \in Invocations, NEW STATE o, o \in Memory, Remember(i, o)
  PROVE  /\ object' \in [Invocations -> Memory] /\ object'[i] = o
         /\ \A j \in Invocations \ {i} : object'[j] = object[j]
BY DEF BuildTypeOK, Remember

LEMMA BaselineMemory ==
  ASSUME BuildTypeOK, NEW i \in Invocations, Inventory \in Inventories,
         Remember(i, [object[i] EXCEPT !.baseline = Inventory])
  PROVE  /\ object' \in [Invocations -> Memory]
         /\ \A j \in Invocations \ {i} : object'[j] = object[j]
         /\ object'[i].intended = object[i].intended
         /\ object'[i].cid = object[i].cid
         /\ object'[i].builder_intended = object[i].builder_intended
         /\ object'[i].image_intended = object[i].image_intended
         /\ object'[i].stimulated = object[i].stimulated
         /\ object'[i].failure = object[i].failure
<1> DEFINE o == [object[i] EXCEPT !.baseline = Inventory]
<1>1. object[i] \in Memory
  BY DEF BuildTypeOK
<1>2. o \in Memory
  BY <1>1 DEF Memory
<1>3. /\ o.intended = object[i].intended
      /\ o.cid = object[i].cid
      /\ o.builder_intended = object[i].builder_intended
      /\ o.image_intended = object[i].image_intended
      /\ o.stimulated = object[i].stimulated
      /\ o.failure = object[i].failure
  BY <1>1 DEF Memory
<1>4. Remember(i, o)
  OBVIOUS
<1> HIDE DEF o
<1> QED BY <1>2, <1>3, <1>4, Remembers

LEMMA CreatedMemory ==
  ASSUME BuildTypeOK, NEW i \in Invocations,
         Remember(i, [object[i] EXCEPT !.intended = TRUE, !.cid = TRUE])
  PROVE  /\ object' \in [Invocations -> Memory]
         /\ \A j \in Invocations \ {i} : object'[j] = object[j]
         /\ object'[i].intended = TRUE
         /\ object'[i].cid = TRUE
         /\ object'[i].builder_intended = object[i].builder_intended
         /\ object'[i].image_intended = object[i].image_intended
         /\ object'[i].stimulated = object[i].stimulated
         /\ object'[i].failure = object[i].failure
<1> DEFINE o == [object[i] EXCEPT !.intended = TRUE, !.cid = TRUE]
<1>1. object[i] \in Memory
  BY DEF BuildTypeOK
<1>2. o \in Memory
  BY <1>1 DEF Memory
<1>3. /\ o.intended = TRUE
      /\ o.cid = TRUE
      /\ o.builder_intended = object[i].builder_intended
      /\ o.image_intended = object[i].image_intended
      /\ o.stimulated = object[i].stimulated
      /\ o.failure = object[i].failure
  BY <1>1 DEF Memory
<1>4. Remember(i, o)
  OBVIOUS
<1> HIDE DEF o
<1> QED BY <1>2, <1>3, <1>4, Remembers

LEMMA UnansweredMemory ==
  ASSUME BuildTypeOK, NEW i \in Invocations,
         Remember(i, [object[i] EXCEPT !.intended = TRUE, !.failure = TRUE])
  PROVE  /\ object' \in [Invocations -> Memory]
         /\ \A j \in Invocations \ {i} : object'[j] = object[j]
         /\ object'[i].intended = TRUE
         /\ object'[i].cid = object[i].cid
         /\ object'[i].builder_intended = object[i].builder_intended
         /\ object'[i].image_intended = object[i].image_intended
         /\ object'[i].stimulated = object[i].stimulated
         /\ object'[i].failure = TRUE
<1> DEFINE o == [object[i] EXCEPT !.intended = TRUE, !.failure = TRUE]
<1>1. object[i] \in Memory
  BY DEF BuildTypeOK
<1>2. o \in Memory
  BY <1>1 DEF Memory
<1>3. /\ o.intended = TRUE
      /\ o.cid = object[i].cid
      /\ o.builder_intended = object[i].builder_intended
      /\ o.image_intended = object[i].image_intended
      /\ o.stimulated = object[i].stimulated
      /\ o.failure = TRUE
  BY <1>1 DEF Memory
<1>4. Remember(i, o)
  OBVIOUS
<1> HIDE DEF o
<1> QED BY <1>2, <1>3, <1>4, Remembers

LEMMA RegisteredMemory ==
  ASSUME BuildTypeOK, NEW i \in Invocations,
         Remember(i, [object[i] EXCEPT !.builder_intended = TRUE])
  PROVE  /\ object' \in [Invocations -> Memory]
         /\ \A j \in Invocations \ {i} : object'[j] = object[j]
         /\ object'[i].intended = object[i].intended
         /\ object'[i].cid = object[i].cid
         /\ object'[i].builder_intended = TRUE
         /\ object'[i].image_intended = object[i].image_intended
         /\ object'[i].stimulated = object[i].stimulated
         /\ object'[i].failure = object[i].failure
<1> DEFINE o == [object[i] EXCEPT !.builder_intended = TRUE]
<1>1. object[i] \in Memory
  BY DEF BuildTypeOK
<1>2. o \in Memory
  BY <1>1 DEF Memory
<1>3. /\ o.intended = object[i].intended
      /\ o.cid = object[i].cid
      /\ o.builder_intended = TRUE
      /\ o.image_intended = object[i].image_intended
      /\ o.stimulated = object[i].stimulated
      /\ o.failure = object[i].failure
  BY <1>1 DEF Memory
<1>4. Remember(i, o)
  OBVIOUS
<1> HIDE DEF o
<1> QED BY <1>2, <1>3, <1>4, Remembers

LEMMA UnregisteredMemory ==
  ASSUME BuildTypeOK, NEW i \in Invocations,
         Remember(i, [object[i] EXCEPT !.builder_intended = TRUE, !.failure = TRUE])
  PROVE  /\ object' \in [Invocations -> Memory]
         /\ \A j \in Invocations \ {i} : object'[j] = object[j]
         /\ object'[i].intended = object[i].intended
         /\ object'[i].cid = object[i].cid
         /\ object'[i].builder_intended = TRUE
         /\ object'[i].image_intended = object[i].image_intended
         /\ object'[i].stimulated = object[i].stimulated
         /\ object'[i].failure = TRUE
<1> DEFINE o == [object[i] EXCEPT !.builder_intended = TRUE, !.failure = TRUE]
<1>1. object[i] \in Memory
  BY DEF BuildTypeOK
<1>2. o \in Memory
  BY <1>1 DEF Memory
<1>3. /\ o.intended = object[i].intended
      /\ o.cid = object[i].cid
      /\ o.builder_intended = TRUE
      /\ o.image_intended = object[i].image_intended
      /\ o.stimulated = object[i].stimulated
      /\ o.failure = TRUE
  BY <1>1 DEF Memory
<1>4. Remember(i, o)
  OBVIOUS
<1> HIDE DEF o
<1> QED BY <1>2, <1>3, <1>4, Remembers

LEMMA ImageMemory ==
  ASSUME BuildTypeOK, NEW i \in Invocations,
         Remember(i, [object[i] EXCEPT !.image_intended = TRUE])
  PROVE  /\ object' \in [Invocations -> Memory]
         /\ \A j \in Invocations \ {i} : object'[j] = object[j]
         /\ object'[i].intended = object[i].intended
         /\ object'[i].cid = object[i].cid
         /\ object'[i].builder_intended = object[i].builder_intended
         /\ object'[i].image_intended = TRUE
         /\ object'[i].stimulated = object[i].stimulated
         /\ object'[i].failure = object[i].failure
<1> DEFINE o == [object[i] EXCEPT !.image_intended = TRUE]
<1>1. object[i] \in Memory
  BY DEF BuildTypeOK
<1>2. o \in Memory
  BY <1>1 DEF Memory
<1>3. /\ o.intended = object[i].intended
      /\ o.cid = object[i].cid
      /\ o.builder_intended = object[i].builder_intended
      /\ o.image_intended = TRUE
      /\ o.stimulated = object[i].stimulated
      /\ o.failure = object[i].failure
  BY <1>1 DEF Memory
<1>4. Remember(i, o)
  OBVIOUS
<1> HIDE DEF o
<1> QED BY <1>2, <1>3, <1>4, Remembers

LEMMA AcknowledgedMemory ==
  ASSUME BuildTypeOK, NEW i \in Invocations,
         Remember(i, [object[i] EXCEPT !.image_acknowledged = i \in Compose])
  PROVE  /\ object' \in [Invocations -> Memory]
         /\ \A j \in Invocations \ {i} : object'[j] = object[j]
         /\ object'[i].intended = object[i].intended
         /\ object'[i].cid = object[i].cid
         /\ object'[i].builder_intended = object[i].builder_intended
         /\ object'[i].image_intended = object[i].image_intended
         /\ object'[i].stimulated = object[i].stimulated
         /\ object'[i].failure = object[i].failure
<1> DEFINE b == i \in Compose
           o == [object[i] EXCEPT !.image_acknowledged = b]
<1>1. object[i] \in Memory
  BY DEF BuildTypeOK
<1> b \in BOOLEAN
  OBVIOUS
<1> HIDE DEF b
<1>2. o \in Memory
  BY <1>1 DEF Memory
<1>3. /\ o.intended = object[i].intended
      /\ o.cid = object[i].cid
      /\ o.builder_intended = object[i].builder_intended
      /\ o.image_intended = object[i].image_intended
      /\ o.stimulated = object[i].stimulated
      /\ o.failure = object[i].failure
  BY <1>1 DEF Memory
<1>4. Remember(i, o)
  BY DEF b
<1> HIDE DEF o
<1> QED BY <1>2, <1>3, <1>4, Remembers

LEMMA StimulusMemory ==
  ASSUME BuildTypeOK, NEW i \in Invocations,
         Remember(i, [object[i] EXCEPT !.stimulated = TRUE])
  PROVE  /\ object' \in [Invocations -> Memory]
         /\ \A j \in Invocations \ {i} : object'[j] = object[j]
         /\ object'[i].intended = object[i].intended
         /\ object'[i].cid = object[i].cid
         /\ object'[i].builder_intended = object[i].builder_intended
         /\ object'[i].image_intended = object[i].image_intended
         /\ object'[i].stimulated = TRUE
         /\ object'[i].failure = object[i].failure
<1> DEFINE o == [object[i] EXCEPT !.stimulated = TRUE]
<1>1. object[i] \in Memory
  BY DEF BuildTypeOK
<1>2. o \in Memory
  BY <1>1 DEF Memory
<1>3. /\ o.intended = object[i].intended
      /\ o.cid = object[i].cid
      /\ o.builder_intended = object[i].builder_intended
      /\ o.image_intended = object[i].image_intended
      /\ o.stimulated = TRUE
      /\ o.failure = object[i].failure
  BY <1>1 DEF Memory
<1>4. Remember(i, o)
  OBVIOUS
<1> HIDE DEF o
<1> QED BY <1>2, <1>3, <1>4, Remembers

LEMMA FoundMemory ==
  ASSUME BuildTypeOK, NEW i \in Invocations,
         Remember(i, [object[i] EXCEPT !.cid = @ \/ object[i].intended])
  PROVE  /\ object' \in [Invocations -> Memory]
         /\ \A j \in Invocations \ {i} : object'[j] = object[j]
         /\ object'[i].intended = object[i].intended
         /\ object'[i].cid = (object[i].cid \/ object[i].intended)
         /\ object'[i].builder_intended = object[i].builder_intended
         /\ object'[i].image_intended = object[i].image_intended
         /\ object'[i].stimulated = object[i].stimulated
         /\ object'[i].failure = object[i].failure
<1> DEFINE o == [object[i] EXCEPT !.cid = @ \/ object[i].intended]
<1>1. object[i] \in Memory
  BY DEF BuildTypeOK
<1>2. o \in Memory
  BY <1>1 DEF Memory
<1>3. /\ o.intended = object[i].intended
      /\ o.cid = (object[i].cid \/ object[i].intended)
      /\ o.builder_intended = object[i].builder_intended
      /\ o.image_intended = object[i].image_intended
      /\ o.stimulated = object[i].stimulated
      /\ o.failure = object[i].failure
  BY <1>1 DEF Memory
<1>4. Remember(i, o)
  OBVIOUS
<1> HIDE DEF o
<1> QED BY <1>2, <1>3, <1>4, Remembers

LEMMA InventoryTyped ==
  ASSUME BuildTypeOK
  PROVE  Inventory \in Inventories
BY DEF BuildTypeOK, Inventory, Inventories

LEMMA BaselineKeeps ==
  ASSUME BuildInv, NEW i \in Invocations, Baseline(i)
  PROVE  Keeps(i)
<1>1. /\ at[i] = "baseline" /\ InPhase(i) /\ AfterPhase(i) = "scope" /\ "scope" \in Places
      /\ at' = [at EXCEPT ![i] = "scope"]
  BY AfterRun DEF Baseline, Advance, InPhase, RunNames, Places
<1>2. UNCHANGED <<lease, server, pending, builder, images, session, client, workers, unproven,
                  receipt, foreign>>
  BY DEF Baseline, daemon, load, outcome
<1>3. Remember(i, [object[i] EXCEPT !.baseline = Inventory]) /\ Inventory \in Inventories
  BY Known, InventoryTyped DEF Baseline
<1>4. /\ object' \in [Invocations -> Memory]
      /\ \A j \in Invocations \ {i} : object'[j] = object[j]
      /\ object'[i].intended = object[i].intended
      /\ object'[i].cid = object[i].cid
      /\ object'[i].builder_intended = object[i].builder_intended
      /\ object'[i].image_intended = object[i].image_intended
      /\ object'[i].stimulated = object[i].stimulated
      /\ object'[i].failure = object[i].failure
  BY <1>3, Known, BaselineMemory
<1>a. BuildTypeOK'
  BY Known, <1>1, <1>2, <1>4 DEF BuildTypeOK
<1>b. OnlyOf(i)
  BY Known, <1>1, <1>2, <1>4 DEF BuildTypeOK, OnlyOf
<1>c. Accounted(i)'
  BY Known, <1>1, <1>2, <1>4 DEF BuildTypeOK, Accounted
<1>d. RunSoFar(i)'
  BY Known, <1>1, <1>2, <1>4
     DEF BuildTypeOK, RunSoFar, BeforeCreate, BeforeCancel, AfterCreate, AfterImage, AfterWait, OfTheAdapter
<1>e. CleanupSoFar(i)'
  BY ZenonT(40), Known, <1>1, <1>2, <1>4
     DEF BuildTypeOK, CleanupSoFar, Accounted, AfterFind, AfterStop, AfterRemove, AfterRemoveBuilder, AfterRemoveImages
<1>f. VerdictSoFar(i)'
  BY Known, <1>1, <1>2, <1>4, PhaseIsActive DEF BuildTypeOK, VerdictSoFar, CleanNames
<1> QED BY <1>1, <1>2, <1>4, <1>a, <1>b, <1>c, <1>d, <1>e, <1>f, Assemble

LEMMA CreateKeeps ==
  ASSUME BuildInv, NEW i \in Invocations, Create(i)
  PROVE  Keeps(i)
<1>1. /\ at[i] = "create" /\ InPhase(i) /\ AfterPhase(i) = "start" /\ "start" \in Places
      /\ UNCHANGED <<lease, builder, images, session, client, workers, receipt, foreign>>
  BY AfterRun DEF Create, InPhase, RunNames, Places, load, outcome
<1>2. CASE /\ server' = [server EXCEPT ![i] = "created"]
           /\ Remember(i, [object[i] EXCEPT !.intended = TRUE, !.cid = TRUE])
           /\ Advance(i)
           /\ UNCHANGED <<pending, unproven, faults>>
  <2>1. /\ at' = [at EXCEPT ![i] = "start"]
        /\ server' = [server EXCEPT ![i] = "created"] /\ pending' = pending /\ unproven' = unproven
    BY <1>1, <1>2 DEF Advance
  <2>2. /\ object' \in [Invocations -> Memory]
        /\ \A j \in Invocations \ {i} : object'[j] = object[j]
        /\ object'[i].intended = TRUE
        /\ object'[i].cid = TRUE
        /\ object'[i].builder_intended = object[i].builder_intended
        /\ object'[i].image_intended = object[i].image_intended
        /\ object'[i].stimulated = object[i].stimulated
        /\ object'[i].failure = object[i].failure
    BY <1>2, Known, CreatedMemory
  <2>3. ~pending[i] /\ server[i] = "absent"
    BY <1>1, Known DEF Accounted, RunSoFar, BeforeCreate
  <2>4. ~session[i] /\ workers[i] # "alive" /\ workers[i] = "none"
    BY <1>1, Known DEF RunSoFar, Accounted, BeforeCreate, BeforeCancel
  <2>a. BuildTypeOK'
    BY Known, <1>1, <2>1, <2>2, <2>3, <2>4 DEF BuildTypeOK
  <2>b. OnlyOf(i)
    BY Known, <1>1, <2>1, <2>2, <2>3, <2>4 DEF BuildTypeOK, OnlyOf
  <2>c. Accounted(i)'
    BY Known, <1>1, <2>1, <2>2, <2>3, <2>4 DEF BuildTypeOK, Accounted
  <2>d. RunSoFar(i)'
    BY Known, <1>1, <2>1, <2>2, <2>3, <2>4
       DEF BuildTypeOK, RunSoFar, BeforeCreate, BeforeCancel, AfterCreate, AfterImage, AfterWait, OfTheAdapter
  <2>e. CleanupSoFar(i)'
    BY Known, <1>1, <2>1, <2>2, <2>3, <2>4
       DEF BuildTypeOK, CleanupSoFar, Accounted, AfterFind, AfterStop, AfterRemove, AfterRemoveBuilder, AfterRemoveImages
  <2>f. VerdictSoFar(i)'
    BY Known, <1>1, <2>1, <2>2, <2>3, <2>4, PhaseIsActive DEF BuildTypeOK, VerdictSoFar, CleanNames
  <2> QED BY <1>1, <2>1, <2>2, <2>3, <2>4, <2>a, <2>b, <2>c, <2>d, <2>e, <2>f, Assemble
<1>3. CASE /\ pending' = [pending EXCEPT ![i] = TRUE]
           /\ Remember(i, [object[i] EXCEPT !.intended = TRUE, !.failure = TRUE])
           /\ at' = [at EXCEPT ![i] = WhenFailed(i)]
           /\ TreeMayStay(i)
           /\ UNCHANGED server
  <2>1. /\ object' \in [Invocations -> Memory]
        /\ \A j \in Invocations \ {i} : object'[j] = object[j]
        /\ object'[i].intended = TRUE
        /\ object'[i].cid = object[i].cid
        /\ object'[i].builder_intended = object[i].builder_intended
        /\ object'[i].image_intended = object[i].image_intended
        /\ object'[i].stimulated = object[i].stimulated
        /\ object'[i].failure = TRUE
    BY <1>3, Known, UnansweredMemory
  <2>2. ~object[i].cid /\ server[i] = "absent"
    BY <1>1, Known DEF Accounted, RunSoFar, BeforeCreate
  <2>3. at'[i] = WhenFailed(i) /\ at' \in [Invocations -> Places]
        /\ \A j \in Invocations \ {i} : at'[j] = at[j]
    BY <1>3, InProgram, Known DEF BuildTypeOK, Places, CleanNames
  <2>4. /\ unproven' \in [Invocations -> BOOLEAN]
        /\ \A j \in Invocations \ {i} : unproven'[j] = unproven[j]
    BY <1>3, Known, TreeTyped
  <2>5. UNCHANGED <<lease, builder, images, session, client, workers, receipt, foreign, server>>
        /\ pending' = [pending EXCEPT ![i] = TRUE]
    BY <1>1, <1>3
  <2>6. at'[i] \in {"uncleaned", "clients", "find"} /\ (at'[i] = "clients" => i \in Compose)
    BY <2>3, InProgram
  <2>a. BuildTypeOK'
    BY Known, <1>1, <2>1, <2>2, <2>3, <2>4, <2>5, <2>6 DEF BuildTypeOK
  <2>b. OnlyOf(i)
    BY Known, <1>1, <2>1, <2>2, <2>3, <2>4, <2>5, <2>6 DEF BuildTypeOK, OnlyOf
  <2>c. Accounted(i)'
    BY Known, <1>1, <2>1, <2>2, <2>3, <2>4, <2>5, <2>6 DEF BuildTypeOK, Accounted
  <2>d. RunSoFar(i)'
    BY Known, <1>1, <2>1, <2>2, <2>3, <2>4, <2>5, <2>6
       DEF BuildTypeOK, RunSoFar, BeforeCreate, BeforeCancel, AfterCreate, AfterImage, AfterWait, OfTheAdapter
  <2>e. CleanupSoFar(i)'
    BY Known, <1>1, <2>1, <2>2, <2>3, <2>4, <2>5, <2>6
       DEF BuildTypeOK, CleanupSoFar, Accounted, AfterFind, AfterStop, AfterRemove, AfterRemoveBuilder, AfterRemoveImages
  <2>f. VerdictSoFar(i)'
    BY Known, <1>1, <2>1, <2>2, <2>3, <2>4, <2>5, <2>6, PhaseIsActive DEF BuildTypeOK, VerdictSoFar, CleanNames
  <2> QED BY <1>1, <2>1, <2>2, <2>3, <2>4, <2>5, <2>6, <2>a, <2>b, <2>c, <2>d, <2>e, <2>f, Assemble
<1> QED BY <1>2, <1>3 DEF Create

LEMMA StartKeeps ==
  ASSUME BuildInv, NEW i \in Invocations, Start(i)
  PROVE  Keeps(i)
<1>1. /\ at[i] = "start" /\ InPhase(i) /\ AfterPhase(i) = "ready" /\ "ready" \in Places
      /\ server' = [server EXCEPT ![i] = "running"]
      /\ UNCHANGED <<lease, pending, builder, images, session, client, workers, receipt, foreign>>
  BY AfterRun DEF Start, InPhase, RunNames, Places, load, outcome
<1>2. workers[i] = "none" /\ client[i] = "none"
  BY <1>1, Known DEF RunSoFar, BeforeCancel
<1>3. object[i].intended /\ ~pending[i]
  BY <1>1, Known DEF RunSoFar, AfterCreate, Accounted
<1>4. CASE Advance(i) /\ UNCHANGED <<object, unproven, faults>>
  <2>1. at' = [at EXCEPT ![i] = "ready"] /\ object' = object /\ unproven' = unproven
    BY <1>1, <1>4 DEF Advance
  <2>a. BuildTypeOK'
    BY Known, <1>1, <1>2, <1>3, <2>1 DEF BuildTypeOK
  <2>b. OnlyOf(i)
    BY Known, <1>1, <1>2, <1>3, <2>1 DEF BuildTypeOK, OnlyOf
  <2>c. Accounted(i)'
    BY Known, <1>1, <1>2, <1>3, <2>1 DEF BuildTypeOK, Accounted
  <2>d. RunSoFar(i)'
    BY Known, <1>1, <1>2, <1>3, <2>1
       DEF BuildTypeOK, RunSoFar, BeforeCreate, BeforeCancel, AfterCreate, AfterImage, AfterWait, OfTheAdapter
  <2>e. CleanupSoFar(i)'
    BY Known, <1>1, <1>2, <1>3, <2>1
       DEF BuildTypeOK, CleanupSoFar, Accounted, AfterFind, AfterStop, AfterRemove, AfterRemoveBuilder, AfterRemoveImages
  <2>f. VerdictSoFar(i)'
    BY Known, <1>1, <1>2, <1>3, <2>1, PhaseIsActive DEF BuildTypeOK, VerdictSoFar, CleanNames
  <2> QED BY <1>1, <1>2, <1>3, <2>1, <2>a, <2>b, <2>c, <2>d, <2>e, <2>f, Assemble
<1>5. CASE AnswerLost(i)
  <2>1. Fails(i) /\ TreeMayStay(i)
    BY <1>5 DEF AnswerLost
  <2>a. DockerOK'
    BY Known, <1>1, <1>2, <1>3, <2>1 DEF BuildTypeOK, DockerOK
  <2>b. DockerOnlyOf(i)
    BY Known, <1>1, <1>2, <1>3, <2>1 DEF BuildTypeOK, DockerOnlyOf
  <2>c. Accounted(i)'
    BY ZenonT(40), Known, <1>1, <1>2, <1>3, <2>1, FailedMemory DEF BuildTypeOK, Accounted
  <2>d. WorkersVerdict(i)'
    BY Known, <1>1, <1>2, <1>3, <2>1, FailedMemory DEF BuildTypeOK, WorkersVerdict, VerdictSoFar
  <2> QED BY <1>1, <1>2, <1>3, <2>1, <2>a, <2>b, <2>c, <2>d, AssembleFailed
<1> QED BY <1>4, <1>5 DEF Start

LEMMA RegisterKeeps ==
  ASSUME BuildInv, NEW i \in Invocations, Register(i)
  PROVE  Keeps(i)
<1>0. at[i] = "register" /\ InPhase(i)
  BY DEF Register, InPhase, RunNames
<1>1. i \in Compose
  BY <1>0, Known DEF RunSoFar, OfTheAdapter
<1>2. /\ AfterPhase(i) = "image" /\ "image" \in Places
      /\ UNCHANGED <<lease, server, pending, images, session, client, workers, receipt, foreign>>
  BY <1>0, <1>1, AfterAdapter DEF Register, RunNames, Places, load, outcome
<1>3. CASE /\ builder' = [builder EXCEPT ![i] = TRUE]
           /\ Advance(i)
           /\ Remember(i, [object[i] EXCEPT !.builder_intended = TRUE])
           /\ UNCHANGED <<unproven, faults>>
  <2>1. /\ at' = [at EXCEPT ![i] = "image"]
        /\ builder' = [builder EXCEPT ![i] = TRUE] /\ unproven' = unproven
    BY <1>2, <1>3 DEF Advance
  <2>2. /\ object' \in [Invocations -> Memory]
        /\ \A j \in Invocations \ {i} : object'[j] = object[j]
        /\ object'[i].intended = object[i].intended
        /\ object'[i].cid = object[i].cid
        /\ object'[i].builder_intended = TRUE
        /\ object'[i].image_intended = object[i].image_intended
        /\ object'[i].stimulated = object[i].stimulated
        /\ object'[i].failure = object[i].failure
    BY <1>3, Known, RegisteredMemory
  <2>a. BuildTypeOK'
    BY Known, <1>0, <1>1, <1>2, <2>1, <2>2 DEF BuildTypeOK
  <2>b. OnlyOf(i)
    BY Known, <1>0, <1>1, <1>2, <2>1, <2>2 DEF BuildTypeOK, OnlyOf
  <2>c. Accounted(i)'
    BY Known, <1>0, <1>1, <1>2, <2>1, <2>2 DEF BuildTypeOK, Accounted
  <2>d. RunSoFar(i)'
    BY Known, <1>0, <1>1, <1>2, <2>1, <2>2
       DEF BuildTypeOK, RunSoFar, BeforeCreate, BeforeCancel, AfterCreate, AfterImage, AfterWait, OfTheAdapter
  <2>e. CleanupSoFar(i)'
    BY ZenonT(40), Known, <1>0, <1>1, <1>2, <2>1, <2>2
       DEF BuildTypeOK, CleanupSoFar, Accounted, AfterFind, AfterStop, AfterRemove, AfterRemoveBuilder, AfterRemoveImages
  <2>f. VerdictSoFar(i)'
    BY Known, <1>0, <1>1, <1>2, <2>1, <2>2, PhaseIsActive DEF BuildTypeOK, VerdictSoFar, CleanNames
  <2> QED BY <1>0, <1>1, <1>2, <2>1, <2>2, <2>a, <2>b, <2>c, <2>d, <2>e, <2>f, Assemble
<1>4. CASE /\ \E done \in BOOLEAN : builder' = [builder EXCEPT ![i] = done]
           /\ Remember(i, [object[i] EXCEPT !.builder_intended = TRUE, !.failure = TRUE])
           /\ at' = [at EXCEPT ![i] = WhenFailed(i)]
           /\ TreeMayStay(i)
  <2>1. /\ object' \in [Invocations -> Memory]
        /\ \A j \in Invocations \ {i} : object'[j] = object[j]
        /\ object'[i].intended = object[i].intended
        /\ object'[i].cid = object[i].cid
        /\ object'[i].builder_intended = TRUE
        /\ object'[i].image_intended = object[i].image_intended
        /\ object'[i].stimulated = object[i].stimulated
        /\ object'[i].failure = TRUE
    BY <1>4, Known, UnregisteredMemory
  <2>2. at'[i] = WhenFailed(i) /\ at' \in [Invocations -> Places]
        /\ \A j \in Invocations \ {i} : at'[j] = at[j]
    BY <1>4, InProgram, Known DEF BuildTypeOK, Places, CleanNames
  <2>3. at'[i] \in {"uncleaned", "clients", "find"}
    BY <2>2, InProgram
  <2>4. /\ unproven' \in [Invocations -> BOOLEAN]
        /\ \A j \in Invocations \ {i} : unproven'[j] = unproven[j]
    BY <1>4, Known, TreeTyped
  <2>5. /\ builder' \in [Invocations -> BOOLEAN]
        /\ \A j \in Invocations \ {i} : builder'[j] = builder[j]
    BY <1>4, Known DEF BuildTypeOK
  <2>a. BuildTypeOK'
    BY Known, <1>0, <1>1, <1>2, <2>1, <2>2, <2>3, <2>4, <2>5 DEF BuildTypeOK
  <2>b. OnlyOf(i)
    BY Known, <1>0, <1>1, <1>2, <2>1, <2>2, <2>3, <2>4, <2>5 DEF BuildTypeOK, OnlyOf
  <2>c. Accounted(i)'
    BY Known, <1>0, <1>1, <1>2, <2>1, <2>2, <2>3, <2>4, <2>5 DEF BuildTypeOK, Accounted
  <2>d. RunSoFar(i)'
    BY Known, <1>0, <1>1, <1>2, <2>1, <2>2, <2>3, <2>4, <2>5
       DEF BuildTypeOK, RunSoFar, BeforeCreate, BeforeCancel, AfterCreate, AfterImage, AfterWait, OfTheAdapter
  <2>e. CleanupSoFar(i)'
    BY Known, <1>0, <1>1, <1>2, <2>1, <2>2, <2>3, <2>4, <2>5
       DEF BuildTypeOK, CleanupSoFar, Accounted, AfterFind, AfterStop, AfterRemove, AfterRemoveBuilder, AfterRemoveImages
  <2>f. VerdictSoFar(i)'
    BY Known, <1>0, <1>1, <1>2, <2>1, <2>2, <2>3, <2>4, <2>5, PhaseIsActive DEF BuildTypeOK, VerdictSoFar, CleanNames
  <2> QED BY <1>0, <1>1, <1>2, <2>1, <2>2, <2>3, <2>4, <2>5, <2>a, <2>b, <2>c, <2>d, <2>e, <2>f, Assemble
<1> QED BY <1>3, <1>4 DEF Register

LEMMA NoImageYetKeeps ==
  ASSUME BuildInv, NEW i \in Invocations, NoImageYet(i)
  PROVE  Keeps(i)
<1>0. at[i] = "image" /\ InPhase(i)
  BY DEF NoImageYet, InPhase, RunNames
<1>1. i \in Compose
  BY <1>0, Known DEF RunSoFar, OfTheAdapter
<1>2. CASE Refuses(i)
  BY <1>0, <1>2, RefusesKeeps
<1>3. CASE /\ Remember(i, [object[i] EXCEPT !.image_intended = TRUE])
           /\ Advance(i)
           /\ UNCHANGED <<daemon, load, outcome, unproven, foreign, faults>>
  <2>1. /\ at' = [at EXCEPT ![i] = "success"] /\ "success" \in Places
        /\ UNCHANGED <<lease, server, pending, builder, images, session, client, workers, unproven,
                       receipt, foreign>>
    BY <1>0, <1>1, <1>3, AfterAdapter DEF Advance, daemon, load, outcome, Places, RunNames
  <2>2. /\ object' \in [Invocations -> Memory]
        /\ \A j \in Invocations \ {i} : object'[j] = object[j]
        /\ object'[i].intended = object[i].intended
        /\ object'[i].cid = object[i].cid
        /\ object'[i].builder_intended = object[i].builder_intended
        /\ object'[i].image_intended = TRUE
        /\ object'[i].stimulated = object[i].stimulated
        /\ object'[i].failure = object[i].failure
    BY <1>3, Known, ImageMemory
  <2>a. BuildTypeOK'
    BY Known, <1>0, <1>1, <2>1, <2>2 DEF BuildTypeOK
  <2>b. OnlyOf(i)
    BY Known, <1>0, <1>1, <2>1, <2>2 DEF BuildTypeOK, OnlyOf
  <2>c. Accounted(i)'
    BY Known, <1>0, <1>1, <2>1, <2>2 DEF BuildTypeOK, Accounted
  <2>d. RunSoFar(i)'
    BY ZenonT(40), Known, <1>0, <1>1, <2>1, <2>2
       DEF BuildTypeOK, RunSoFar, BeforeCreate, BeforeCancel, AfterCreate, AfterImage, AfterWait, OfTheAdapter
  <2>e. CleanupSoFar(i)'
    BY ZenonT(40), Known, <1>0, <1>1, <2>1, <2>2
       DEF BuildTypeOK, CleanupSoFar, Accounted, AfterFind, AfterStop, AfterRemove, AfterRemoveBuilder, AfterRemoveImages
  <2>f. VerdictSoFar(i)'
    BY ZenonT(40), Known, <1>0, <1>1, <2>1, <2>2, PhaseIsActive DEF BuildTypeOK, VerdictSoFar, CleanNames
  <2> QED BY <1>0, <1>1, <2>1, <2>2, <2>a, <2>b, <2>c, <2>d, <2>e, <2>f, Assemble
<1> QED BY <1>2, <1>3 DEF NoImageYet

LEMMA BuildKeeps ==
  ASSUME BuildInv, NEW i \in Invocations, Build(i)
  PROVE  Keeps(i)
<1>0. at[i] \in {"success", "fresh"} /\ InPhase(i)
  BY DEF Build, InPhase, RunNames
<1>1. i \in Compose => object[i].image_intended
  BY <1>0, Known DEF RunSoFar, AfterImage
<1>2. CASE Refuses(i)
  BY <1>0, <1>2, RefusesKeeps
<1>3. CASE /\ images' = [images EXCEPT ![i] = IF i \in Compose THEN @ \cup {at[i]} ELSE @]
           /\ Advance(i)
           /\ Remember(i, [object[i] EXCEPT !.image_acknowledged = i \in Compose])
           /\ UNCHANGED <<server, pending, builder, session, load, outcome,
                          unproven, foreign, faults>>
  <2>1. /\ at' = [at EXCEPT ![i] = IF at[i] = "success" THEN "fault" ELSE "sources"]
        /\ "fault" \in Places /\ "sources" \in Places
        /\ UNCHANGED <<lease, server, pending, builder, session, client, workers, unproven,
                       receipt, foreign>>
    BY <1>0, <1>3, AfterRun DEF Advance, load, outcome, Places, RunNames
  <2>2. /\ object' \in [Invocations -> Memory]
        /\ \A j \in Invocations \ {i} : object'[j] = object[j]
        /\ object'[i].intended = object[i].intended
        /\ object'[i].cid = object[i].cid
        /\ object'[i].builder_intended = object[i].builder_intended
        /\ object'[i].image_intended = object[i].image_intended
        /\ object'[i].stimulated = object[i].stimulated
        /\ object'[i].failure = object[i].failure
    BY <1>3, Known, AcknowledgedMemory
  <2>3. /\ images' \in [Invocations -> SUBSET Tags]
        /\ \A j \in Invocations \ {i} : images'[j] = images[j]
        /\ i \notin Compose => images'[i] = images[i]
    BY <1>0, <1>3, Known DEF BuildTypeOK, Tags
  <2>a. BuildTypeOK'
    BY Known, <1>0, <1>1, <2>1, <2>2, <2>3 DEF BuildTypeOK
  <2>b. OnlyOf(i)
    BY Known, <1>0, <1>1, <2>1, <2>2, <2>3 DEF BuildTypeOK, OnlyOf
  <2>c. Accounted(i)'
    BY Known, <1>0, <1>1, <2>1, <2>2, <2>3 DEF BuildTypeOK, Accounted
  <2>d. RunSoFar(i)'
    BY ZenonT(40), Known, <1>0, <1>1, <2>1, <2>2, <2>3
       DEF BuildTypeOK, RunSoFar, BeforeCreate, BeforeCancel, AfterCreate, AfterImage, AfterWait, OfTheAdapter
  <2>e. CleanupSoFar(i)'
    BY ZenonT(40), Known, <1>0, <1>1, <2>1, <2>2, <2>3
       DEF BuildTypeOK, CleanupSoFar, Accounted, AfterFind, AfterStop, AfterRemove, AfterRemoveBuilder, AfterRemoveImages
  <2>f. VerdictSoFar(i)'
    BY Known, <1>0, <1>1, <2>1, <2>2, <2>3, PhaseIsActive DEF BuildTypeOK, VerdictSoFar, CleanNames
  <2> QED BY <1>0, <1>1, <2>1, <2>2, <2>3, <2>a, <2>b, <2>c, <2>d, <2>e, <2>f, Assemble
<1>4. CASE /\ server[i] = "running"
           /\ i \in Compose
           /\ AnswerLost(i)
           /\ session' = [session EXCEPT ![i] = TRUE]
           /\ UNCHANGED <<server, pending, builder, images, load, outcome, foreign>>
  <2>1. /\ Fails(i) /\ TreeMayStay(i) /\ server[i] = "running" /\ i \in Compose
        /\ session' = [session EXCEPT ![i] = TRUE]
        /\ UNCHANGED <<lease, server, pending, builder, images, client, workers, receipt, foreign>>
    BY <1>4 DEF AnswerLost, load, outcome
  <2>a. DockerOK'
    BY Known, <1>0, <1>1, <2>1 DEF BuildTypeOK, DockerOK
  <2>b. DockerOnlyOf(i)
    BY Known, <1>0, <1>1, <2>1 DEF BuildTypeOK, DockerOnlyOf
  <2>c. Accounted(i)'
    BY Known, <1>0, <1>1, <2>1, FailedMemory DEF BuildTypeOK, Accounted
  <2>d. WorkersVerdict(i)'
    BY Known, <1>0, <1>1, <2>1, FailedMemory DEF BuildTypeOK, WorkersVerdict, VerdictSoFar
  <2> QED BY <1>0, <1>1, <2>1, <2>a, <2>b, <2>c, <2>d, AssembleFailed
<1> QED BY <1>2, <1>3, <1>4 DEF Build

LEMMA StartCancelKeeps ==
  ASSUME BuildInv, NEW i \in Invocations, StartCancel(i)
  PROVE  Keeps(i)
<1>0. at[i] = "cancel" /\ InPhase(i)
  BY DEF StartCancel, InPhase, RunNames
<1>1. CASE Refuses(i)
  BY <1>0, <1>1, RefusesKeeps
<1>2. CASE /\ client' = [client EXCEPT ![i] = "running"]
           /\ \/ Advance(i) /\ UNCHANGED <<object, unproven, faults>>
              \/ i \in Direct /\ AnswerLost(i)
           /\ UNCHANGED <<daemon, workers, outcome, foreign>>
  <2>1. /\ client' = [client EXCEPT ![i] = "running"] /\ workers[i] = "none" /\ "workers" \in Places
        /\ UNCHANGED <<lease, server, pending, builder, images, session, workers, receipt, foreign>>
    BY <1>0, <1>2, Known DEF daemon, outcome, RunSoFar, BeforeCancel, Places, RunNames
  <2>2. CASE Advance(i) /\ UNCHANGED <<object, unproven>>
    <3>1. at' = [at EXCEPT ![i] = "workers"] /\ object' = object /\ unproven' = unproven
      BY <1>0, <2>2, AfterRun DEF Advance
    <3>a. BuildTypeOK'
      BY Known, <1>0, <2>1, <3>1 DEF BuildTypeOK
    <3>b. OnlyOf(i)
      BY Known, <1>0, <2>1, <3>1 DEF BuildTypeOK, OnlyOf
    <3>c. Accounted(i)'
      BY Known, <1>0, <2>1, <3>1 DEF BuildTypeOK, Accounted
    <3>d. RunSoFar(i)'
      BY Known, <1>0, <2>1, <3>1
         DEF BuildTypeOK, RunSoFar, BeforeCreate, BeforeCancel, AfterCreate, AfterImage, AfterWait, OfTheAdapter
    <3>e. CleanupSoFar(i)'
      BY Known, <1>0, <2>1, <3>1
         DEF BuildTypeOK, CleanupSoFar, Accounted, AfterFind, AfterStop, AfterRemove, AfterRemoveBuilder, AfterRemoveImages
    <3>f. VerdictSoFar(i)'
      BY Known, <1>0, <2>1, <3>1, PhaseIsActive DEF BuildTypeOK, VerdictSoFar, CleanNames
    <3> QED BY <1>0, <2>1, <3>1, <3>a, <3>b, <3>c, <3>d, <3>e, <3>f, Assemble
  <2>3. CASE AnswerLost(i)
    <3>1. Fails(i) /\ TreeMayStay(i)
      BY <2>3 DEF AnswerLost
    <3>a. DockerOK'
      BY Known, <1>0, <2>1, <3>1 DEF BuildTypeOK, DockerOK
    <3>b. DockerOnlyOf(i)
      BY Known, <1>0, <2>1, <3>1 DEF BuildTypeOK, DockerOnlyOf
    <3>c. Accounted(i)'
      BY Known, <1>0, <2>1, <3>1, FailedMemory DEF BuildTypeOK, Accounted
    <3>d. WorkersVerdict(i)'
      BY Known, <1>0, <2>1, <3>1, FailedMemory DEF BuildTypeOK, WorkersVerdict, VerdictSoFar
    <3> QED BY <1>0, <2>1, <3>1, <3>a, <3>b, <3>c, <3>d, AssembleFailed
  <2> QED BY <1>2, <2>2, <2>3
<1> QED BY <1>1, <1>2 DEF StartCancel

LEMMA StimulusKeeps ==
  ASSUME BuildInv, NEW i \in Invocations, Stimulus(i)
  PROVE  Keeps(i)
<1>0. at[i] = "stimulus" /\ InPhase(i)
  BY DEF Stimulus, InPhase, RunNames
<1>1. CASE Refuses(i)
  BY <1>0, <1>1, RefusesKeeps
<1>2. CASE /\ server[i] = "running" /\ client[i] = "running"
           /\ Remember(i, [object[i] EXCEPT !.stimulated = TRUE])
           /\ Advance(i)
           /\ UNCHANGED <<daemon, load, outcome, unproven, foreign, faults>>
  <2>1. /\ at' = [at EXCEPT ![i] = "wait"] /\ "wait" \in Places
        /\ UNCHANGED <<lease, server, pending, builder, images, session, client, workers, unproven,
                       receipt, foreign>>
    BY <1>0, <1>2, AfterRun DEF Advance, daemon, load, outcome, Places, RunNames
  <2>2. /\ object' \in [Invocations -> Memory]
        /\ \A j \in Invocations \ {i} : object'[j] = object[j]
        /\ object'[i].intended = object[i].intended
        /\ object'[i].cid = object[i].cid
        /\ object'[i].builder_intended = object[i].builder_intended
        /\ object'[i].image_intended = object[i].image_intended
        /\ object'[i].stimulated = TRUE
        /\ object'[i].failure = object[i].failure
    BY <1>2, Known, StimulusMemory
  <2>3. workers[i] = "alive"
    BY <1>0, <1>2, Known DEF RunSoFar, VerdictSoFar, BuildTypeOK
  <2>a. BuildTypeOK'
    BY Known, <1>0, <2>1, <2>2, <2>3 DEF BuildTypeOK
  <2>b. OnlyOf(i)
    BY Known, <1>0, <2>1, <2>2, <2>3 DEF BuildTypeOK, OnlyOf
  <2>c. Accounted(i)'
    BY Known, <1>0, <2>1, <2>2, <2>3 DEF BuildTypeOK, Accounted
  <2>d. RunSoFar(i)'
    BY Known, <1>0, <2>1, <2>2, <2>3
       DEF BuildTypeOK, RunSoFar, BeforeCreate, BeforeCancel, AfterCreate, AfterImage, AfterWait, OfTheAdapter
  <2>e. CleanupSoFar(i)'
    BY Known, <1>0, <2>1, <2>2, <2>3
       DEF BuildTypeOK, CleanupSoFar, Accounted, AfterFind, AfterStop, AfterRemove, AfterRemoveBuilder, AfterRemoveImages
  <2>f. VerdictSoFar(i)'
    BY Known, <1>0, <2>1, <2>2, <2>3, PhaseIsActive DEF BuildTypeOK, VerdictSoFar, CleanNames
  <2> QED BY <1>0, <2>1, <2>2, <2>3, <2>a, <2>b, <2>c, <2>d, <2>e, <2>f, Assemble
<1> QED BY <1>1, <1>2 DEF Stimulus
-----------------------------------------------------------------------------
(* The cleanup                                                             *)

(* A phase of the cleanup that has nothing to do, or whose check passes. *)
LEMMA CleanupPasses ==
  ASSUME BuildInv, NEW i \in Invocations, at[i] \in CleanNames, Passes(i),
         AfterPhase(i) \in CleanNames \cup {"cleaned"}, AfterPhase(i) # "clients",
         AfterPhase(i) \in OfTheAdapter => i \in Compose, CleanupSoFar(i)'
  PROVE  Keeps(i)
<1>1. at'[i] = AfterPhase(i)
  BY Known DEF Passes, Advance, BuildTypeOK
<1>2. RunSoFar(i)'
  BY <1>1 DEF RunSoFar, BeforeCreate, BeforeCancel, AfterCreate, AfterImage, AfterWait, OfTheAdapter, CleanNames
<1>3. ~object[i].failure => workers[i] = "cancelled"
  BY Known DEF VerdictSoFar
<1>4. InPhase(i)
  BY DEF InPhase
<1> QED BY <1>2, <1>3, <1>4, PassesKeeps

LEMMA EndClientsKeeps ==
  ASSUME BuildInv, NEW i \in Invocations, EndClients(i)
  PROVE  Keeps(i)
<1>0. at[i] = "clients" /\ InPhase(i)
  BY DEF EndClients, InPhase, CleanNames
<1>1. i \in Compose
  BY <1>0, Known DEF RunSoFar, OfTheAdapter
<1>2. /\ client' = [client EXCEPT ![i] = IF client[i] = "running" THEN "exited" ELSE client[i]]
      /\ at' = [at EXCEPT ![i] = "find"] /\ "find" \in Places
      /\ UNCHANGED <<lease, object, server, pending, builder, images, session, workers, receipt, foreign>>
  BY <1>0, <1>1, AfterAdapter DEF EndClients, Advance, daemon, outcome, Places, CleanNames
<1>3. /\ unproven' \in [Invocations -> BOOLEAN]
      /\ \A j \in Invocations \ {i} : unproven'[j] = unproven[j]
  BY Known DEF EndClients, BuildTypeOK
<1>a. BuildTypeOK'
  BY Known, <1>0, <1>1, <1>2, <1>3 DEF BuildTypeOK
<1>b. OnlyOf(i)
  BY Known, <1>0, <1>1, <1>2, <1>3 DEF BuildTypeOK, OnlyOf
<1>c. Accounted(i)'
  BY Known, <1>0, <1>1, <1>2, <1>3 DEF BuildTypeOK, Accounted
<1>d. RunSoFar(i)'
  BY Known, <1>0, <1>1, <1>2, <1>3
     DEF BuildTypeOK, RunSoFar, BeforeCreate, BeforeCancel, AfterCreate, AfterImage, AfterWait, OfTheAdapter
<1>e. CleanupSoFar(i)'
  BY Known, <1>0, <1>1, <1>2, <1>3
     DEF BuildTypeOK, CleanupSoFar, Accounted, AfterFind, AfterStop, AfterRemove, AfterRemoveBuilder, AfterRemoveImages
<1>f. VerdictSoFar(i)'
  BY Known, <1>0, <1>1, <1>2, <1>3, PhaseIsActive DEF BuildTypeOK, VerdictSoFar, CleanNames
<1> QED BY <1>0, <1>1, <1>2, <1>3, <1>a, <1>b, <1>c, <1>d, <1>e, <1>f, Assemble

LEMMA FindServerKeeps ==
  ASSUME BuildInv, NEW i \in Invocations, FindServer(i)
  PROVE  Keeps(i)
<1>0. at[i] = "find" /\ InPhase(i)
  BY DEF FindServer, InPhase, CleanNames
<1>1. CASE object[i].intended /\ ~object[i].cid /\ server[i] = "absent"
  BY <1>0, <1>1, RefusesKeeps DEF FindServer
<1>2. CASE ~(object[i].intended /\ ~object[i].cid /\ server[i] = "absent")
  <2>1. /\ at' = [at EXCEPT ![i] = "stop"] /\ "stop" \in Places
        /\ UNCHANGED <<lease, server, pending, builder, images, session, client, workers, unproven,
                       receipt, foreign>>
    BY <1>0, <1>2, AfterCleanup DEF FindServer, Advance, daemon, load, outcome, Places, CleanNames
  <2>2. /\ object' \in [Invocations -> Memory]
        /\ \A j \in Invocations \ {i} : object'[j] = object[j]
        /\ object'[i].intended = object[i].intended
        /\ object'[i].cid = (object[i].cid \/ object[i].intended)
        /\ object'[i].builder_intended = object[i].builder_intended
        /\ object'[i].image_intended = object[i].image_intended
        /\ object'[i].stimulated = object[i].stimulated
        /\ object'[i].failure = object[i].failure
    BY <1>2, Known, FoundMemory DEF FindServer
  <2>3. ~pending[i]
    BY <1>2, Known DEF Accounted
  <2>a. BuildTypeOK'
    BY Known, <1>0, <1>2, <2>1, <2>2, <2>3 DEF BuildTypeOK
  <2>b. OnlyOf(i)
    BY Known, <1>0, <1>2, <2>1, <2>2, <2>3 DEF BuildTypeOK, OnlyOf
  <2>c. Accounted(i)'
    BY Known, <1>0, <1>2, <2>1, <2>2, <2>3 DEF BuildTypeOK, Accounted
  <2>d. RunSoFar(i)'
    BY Known, <1>0, <1>2, <2>1, <2>2, <2>3
       DEF BuildTypeOK, RunSoFar, BeforeCreate, BeforeCancel, AfterCreate, AfterImage, AfterWait, OfTheAdapter
  <2>e. CleanupSoFar(i)'
    BY Known, <1>0, <1>2, <2>1, <2>2, <2>3
       DEF BuildTypeOK, CleanupSoFar, Accounted, AfterFind, AfterStop, AfterRemove, AfterRemoveBuilder, AfterRemoveImages
  <2>f. VerdictSoFar(i)'
    BY Known, <1>0, <1>2, <2>1, <2>2, <2>3, PhaseIsActive DEF BuildTypeOK, VerdictSoFar, CleanNames
  <2> QED BY <1>0, <1>2, <2>1, <2>2, <2>3, <2>a, <2>b, <2>c, <2>d, <2>e, <2>f, Assemble
<1> QED BY <1>1, <1>2

LEMMA StopServerKeeps ==
  ASSUME BuildInv, NEW i \in Invocations, StopServer(i)
  PROVE  Keeps(i)
<1>0. at[i] = "stop" /\ at[i] \in CleanNames /\ InPhase(i) /\ AfterPhase(i) = "rm" /\ "rm" \in Places
  BY AfterCleanup DEF StopServer, InPhase, CleanNames, Places
<1>1. CASE ~object[i].cid
  <2>1. Passes(i)
    BY <1>1 DEF StopServer, Checks, Passes
  <2>2. at'[i] = "rm" /\ object' = object /\ server' = server
    BY <1>0, <2>1, Known DEF Passes, Advance, daemon, BuildTypeOK
  <2>3. server[i] = "absent"
    BY <1>0, <1>1, Known DEF CleanupSoFar, AfterFind, Accounted
  <2>4. CleanupSoFar(i)'
    BY <1>0, <2>2, <2>3, Known DEF CleanupSoFar, AfterFind, AfterStop, AfterRemove, AfterRemoveBuilder, AfterRemoveImages
  <2> QED BY <1>0, <2>1, <2>4, CleanupPasses DEF CleanNames, OfTheAdapter
<1>2. CASE object[i].cid
  <2>1. /\ EndServer(i, "exited")
        /\ UNCHANGED <<lease, pending, builder, images, receipt, foreign>>
    BY <1>2 DEF StopServer, outcome
  <2>2. /\ server' = [server EXCEPT ![i] = "exited"]
        /\ session' = [session EXCEPT ![i] = FALSE]
        /\ workers' = [workers EXCEPT ![i] = IF workers[i] = "alive" THEN "ended with server" ELSE workers[i]]
        /\ client' = [client EXCEPT ![i] = IF client[i] = "running" THEN "exited" ELSE client[i]]
    BY <2>1 DEF EndServer
  <2>3. ~pending[i] /\ object[i].intended
    BY <1>2, Known DEF Accounted
  <2>4. CASE Advance(i) /\ UNCHANGED <<object, unproven>>
    <3>1. at' = [at EXCEPT ![i] = "rm"] /\ object' = object /\ unproven' = unproven
      BY <1>0, <2>4 DEF Advance
    <3>a. BuildTypeOK'
      BY Known, <1>0, <1>2, <2>1, <2>2, <2>3, <3>1 DEF BuildTypeOK
    <3>b. OnlyOf(i)
      BY Known, <1>0, <1>2, <2>1, <2>2, <2>3, <3>1 DEF BuildTypeOK, OnlyOf
    <3>c. Accounted(i)'
      BY Known, <1>0, <1>2, <2>1, <2>2, <2>3, <3>1 DEF BuildTypeOK, Accounted
    <3>d. RunSoFar(i)'
      BY Known, <1>0, <1>2, <2>1, <2>2, <2>3, <3>1
         DEF BuildTypeOK, RunSoFar, BeforeCreate, BeforeCancel, AfterCreate, AfterImage, AfterWait, OfTheAdapter
    <3>e. CleanupSoFar(i)'
      BY Known, <1>0, <1>2, <2>1, <2>2, <2>3, <3>1
         DEF BuildTypeOK, CleanupSoFar, Accounted, AfterFind, AfterStop, AfterRemove, AfterRemoveBuilder, AfterRemoveImages
    <3>f. VerdictSoFar(i)'
      BY Known, <1>0, <1>2, <2>1, <2>2, <2>3, <3>1, PhaseIsActive DEF BuildTypeOK, VerdictSoFar, CleanNames
    <3> QED BY <1>0, <1>2, <2>1, <2>2, <2>3, <3>1, <3>a, <3>b, <3>c, <3>d, <3>e, <3>f, Assemble
  <2>5. CASE AnswerLost(i)
    <3>1. Fails(i) /\ TreeMayStay(i)
      BY <2>5 DEF AnswerLost
    <3>2. /\ server'[i] = "exited" /\ ~session'[i] /\ pending'[i] = pending[i]
          /\ builder'[i] = builder[i] /\ images'[i] = images[i]
          /\ workers'[i] = IF workers[i] = "alive" THEN "ended with server" ELSE workers[i]
          /\ client'[i] = IF client[i] = "running" THEN "exited" ELSE client[i]
      BY <2>1, <2>2, Known DEF BuildTypeOK
    <3>3. /\ object'[i].intended = object[i].intended
          /\ object'[i].cid = object[i].cid
          /\ object'[i].builder_intended = object[i].builder_intended
          /\ object'[i].image_intended = object[i].image_intended
          /\ object'[i].stimulated = object[i].stimulated
      BY <3>1, Known, FailedMemory
    <3>a. DockerOK'
      BY Known, <2>1, <2>2 DEF BuildTypeOK, DockerOK
    <3>b. DockerOnlyOf(i)
      BY Known, <2>1, <2>2 DEF BuildTypeOK, DockerOnlyOf
    <3>c. Accounted(i)'
      BY Known, <2>3, <3>2, <3>3 DEF Accounted
    <3>d. WorkersVerdict(i)'
      BY Known, <3>2, <3>3 DEF WorkersVerdict, VerdictSoFar
    <3> QED BY <1>0, <2>1, <3>1, <3>a, <3>b, <3>c, <3>d, AssembleFailed
  <2> QED BY <1>2, <2>4, <2>5 DEF StopServer
<1> QED BY <1>1, <1>2

LEMMA RemoveServerKeeps ==
  ASSUME BuildInv, NEW i \in Invocations, RemoveServer(i)
  PROVE  Keeps(i)
<1>0. /\ at[i] = "rm" /\ at[i] \in CleanNames /\ InPhase(i)
      /\ AfterPhase(i) = IF i \in Compose THEN "builder" ELSE "inventory"
      /\ "builder" \in Places /\ "inventory" \in Places
  BY AfterCleanup DEF RemoveServer, InPhase, CleanNames, Places
<1>1. (object[i].intended => object[i].cid) /\ server[i] # "running" /\ ~session[i] /\ workers[i] # "alive"
      /\ ~pending[i]
  BY <1>0, Known DEF CleanupSoFar, AfterFind, AfterStop, Accounted
<1>2. i \notin Compose => ~builder[i] /\ images[i] = {}
  BY Known DEF Accounted
<1>3. CASE ~object[i].cid
  <2>1. Passes(i)
    BY <1>3 DEF RemoveServer, Checks, Passes
  <2>2. at'[i] = AfterPhase(i) /\ object' = object /\ UNCHANGED <<server, builder, images>>
    BY <1>0, <2>1, Known DEF Passes, Advance, daemon, BuildTypeOK
  <2>3. server[i] = "absent"
    BY <1>1, <1>3, Known DEF Accounted
  <2>4. CleanupSoFar(i)'
    BY <1>0, <1>1, <1>2, <2>2, <2>3 DEF CleanupSoFar, AfterFind, AfterStop, AfterRemove, AfterRemoveBuilder, AfterRemoveImages
  <2> QED BY <1>0, <2>1, <2>4, CleanupPasses DEF CleanNames, OfTheAdapter
<1>4. CASE object[i].cid
  <2>1. /\ server' = [server EXCEPT ![i] = "absent"]
        /\ UNCHANGED <<lease, pending, builder, images, session, client, workers, receipt, foreign>>
    BY <1>4 DEF RemoveServer, load, outcome
  <2>2. CASE Advance(i) /\ UNCHANGED <<object, unproven>>
    <3>1. /\ at' = [at EXCEPT ![i] = IF i \in Compose THEN "builder" ELSE "inventory"]
          /\ object' = object /\ unproven' = unproven
      BY <1>0, <2>2 DEF Advance
    <3>a. BuildTypeOK'
      BY Known, <1>0, <1>1, <1>2, <1>4, <2>1, <3>1 DEF BuildTypeOK
    <3>b. OnlyOf(i)
      BY Known, <1>0, <1>1, <1>2, <1>4, <2>1, <3>1 DEF BuildTypeOK, OnlyOf
    <3>c. Accounted(i)'
      BY Known, <1>0, <1>1, <1>2, <1>4, <2>1, <3>1 DEF BuildTypeOK, Accounted
    <3>d. RunSoFar(i)'
      BY Known, <1>0, <1>1, <1>2, <1>4, <2>1, <3>1
         DEF BuildTypeOK, RunSoFar, BeforeCreate, BeforeCancel, AfterCreate, AfterImage, AfterWait, OfTheAdapter
    <3>e. CleanupSoFar(i)'
      BY Known, <1>0, <1>1, <1>2, <1>4, <2>1, <3>1
         DEF BuildTypeOK, CleanupSoFar, Accounted, AfterFind, AfterStop, AfterRemove, AfterRemoveBuilder, AfterRemoveImages
    <3>f. VerdictSoFar(i)'
      BY Known, <1>0, <1>1, <1>2, <1>4, <2>1, <3>1, PhaseIsActive DEF BuildTypeOK, VerdictSoFar, CleanNames
    <3> QED BY <1>0, <1>1, <1>2, <1>4, <2>1, <3>1, <3>a, <3>b, <3>c, <3>d, <3>e, <3>f, Assemble
  <2>3. CASE AnswerLost(i)
    <3>1. Fails(i) /\ TreeMayStay(i)
      BY <2>3 DEF AnswerLost
    <3>a. DockerOK'
      BY Known, <1>0, <1>1, <1>4, <2>1, <3>1 DEF BuildTypeOK, DockerOK
    <3>b. DockerOnlyOf(i)
      BY Known, <1>0, <1>1, <1>4, <2>1, <3>1 DEF BuildTypeOK, DockerOnlyOf
    <3>c. Accounted(i)'
      BY Known, <1>0, <1>1, <1>4, <2>1, <3>1, FailedMemory DEF BuildTypeOK, Accounted
    <3>d. WorkersVerdict(i)'
      BY ZenonT(40), Known, <1>0, <1>1, <1>4, <2>1, <3>1, FailedMemory DEF BuildTypeOK, WorkersVerdict, VerdictSoFar
    <3> QED BY <1>0, <1>1, <1>4, <2>1, <3>1, <3>a, <3>b, <3>c, <3>d, AssembleFailed
  <2> QED BY <1>4, <2>2, <2>3 DEF RemoveServer
<1> QED BY <1>3, <1>4

LEMMA RemoveBuilderKeeps ==
  ASSUME BuildInv, NEW i \in Invocations, RemoveBuilder(i)
  PROVE  Keeps(i)
<1>0. at[i] = "builder" /\ at[i] \in CleanNames /\ InPhase(i) /\ "images" \in Places
  BY DEF RemoveBuilder, InPhase, CleanNames, Places
<1>1. i \in Compose
  BY <1>0, Known DEF RunSoFar, OfTheAdapter
<1>2. AfterPhase(i) = "images"
  BY <1>0, <1>1, AfterAdapter
<1>3. (object[i].intended => object[i].cid) /\ server[i] = "absent"
  BY <1>0, Known DEF CleanupSoFar, AfterFind, AfterStop, AfterRemove, AfterRemoveBuilder, AfterRemoveImages
<1>4. CASE Refuses(i)
  BY <1>0, <1>4, RefusesKeeps
<1>5. CASE ~object[i].builder_intended
  <2>1. Passes(i)
    BY <1>5 DEF RemoveBuilder, Checks, Passes
  <2>2. at'[i] = "images" /\ object' = object /\ UNCHANGED <<server, builder, images>>
    BY <1>2, <2>1, Known DEF Passes, Advance, daemon, BuildTypeOK
  <2>3. ~builder[i]
    BY <1>5, Known DEF Accounted
  <2>4. CleanupSoFar(i)'
    BY <1>3, <2>2, <2>3 DEF CleanupSoFar, AfterFind, AfterStop, AfterRemove, AfterRemoveBuilder, AfterRemoveImages
  <2> QED BY <1>0, <1>1, <1>2, <2>1, <2>4, CleanupPasses DEF CleanNames
<1>6. CASE /\ builder' = [builder EXCEPT ![i] = FALSE]
           /\ \/ Advance(i) /\ UNCHANGED <<object, unproven, faults>>
              \/ AnswerLost(i)
           /\ UNCHANGED <<server, pending, images, session, load, outcome, foreign>>
  <2>1. /\ builder' = [builder EXCEPT ![i] = FALSE]
        /\ UNCHANGED <<lease, server, pending, images, session, client, workers, receipt, foreign>>
    BY <1>6 DEF load, outcome
  <2>2. CASE Advance(i) /\ UNCHANGED <<object, unproven>>
    <3>1. at' = [at EXCEPT ![i] = "images"] /\ object' = object /\ unproven' = unproven
      BY <1>2, <2>2 DEF Advance
    <3>a. BuildTypeOK'
      BY Known, <1>0, <1>1, <1>3, <2>1, <3>1 DEF BuildTypeOK
    <3>b. OnlyOf(i)
      BY Known, <1>0, <1>1, <1>3, <2>1, <3>1 DEF BuildTypeOK, OnlyOf
    <3>c. Accounted(i)'
      BY Known, <1>0, <1>1, <1>3, <2>1, <3>1 DEF BuildTypeOK, Accounted
    <3>d. RunSoFar(i)'
      BY Known, <1>0, <1>1, <1>3, <2>1, <3>1
         DEF BuildTypeOK, RunSoFar, BeforeCreate, BeforeCancel, AfterCreate, AfterImage, AfterWait, OfTheAdapter
    <3>e. CleanupSoFar(i)'
      BY Known, <1>0, <1>1, <1>3, <2>1, <3>1
         DEF BuildTypeOK, CleanupSoFar, Accounted, AfterFind, AfterStop, AfterRemove, AfterRemoveBuilder, AfterRemoveImages
    <3>f. VerdictSoFar(i)'
      BY Known, <1>0, <1>1, <1>3, <2>1, <3>1, PhaseIsActive DEF BuildTypeOK, VerdictSoFar, CleanNames
    <3> QED BY <1>0, <1>1, <1>3, <2>1, <3>1, <3>a, <3>b, <3>c, <3>d, <3>e, <3>f, Assemble
  <2>3. CASE AnswerLost(i)
    <3>1. Fails(i) /\ TreeMayStay(i)
      BY <2>3 DEF AnswerLost
    <3>2. /\ object'[i].intended = object[i].intended
          /\ object'[i].cid = object[i].cid
          /\ object'[i].builder_intended = object[i].builder_intended
          /\ object'[i].image_intended = object[i].image_intended
          /\ object'[i].stimulated = object[i].stimulated
      BY <3>1, Known, FailedMemory
    <3>3. ~builder'[i]
      BY <2>1, Known DEF BuildTypeOK
    <3>a. DockerOK'
      BY Known, <2>1 DEF BuildTypeOK, DockerOK
    <3>b. DockerOnlyOf(i)
      BY Known, <2>1 DEF BuildTypeOK, DockerOnlyOf
    <3>c. Accounted(i)'
      BY Known, <2>1, <3>2, <3>3 DEF Accounted
    <3>d. WorkersVerdict(i)'
      BY Known, <2>1, <3>2 DEF WorkersVerdict, VerdictSoFar
    <3> QED BY <1>0, <2>1, <3>1, <3>a, <3>b, <3>c, <3>d, AssembleFailed
  <2> QED BY <1>6, <2>2, <2>3
<1> QED BY <1>4, <1>5, <1>6 DEF RemoveBuilder

LEMMA RemoveImagesKeeps ==
  ASSUME BuildInv, NEW i \in Invocations, RemoveImages(i)
  PROVE  Keeps(i)
<1>0. at[i] = "rmi" /\ at[i] \in CleanNames /\ InPhase(i) /\ "inventory" \in Places
  BY DEF RemoveImages, InPhase, CleanNames, Places
<1>1. i \in Compose
  BY <1>0, Known DEF RunSoFar, OfTheAdapter
<1>2. AfterPhase(i) = "inventory"
  BY <1>0, <1>1, AfterAdapter
<1>3. (object[i].intended => object[i].cid) /\ server[i] = "absent" /\ ~builder[i] /\ ~session[i]
  BY <1>0, Known DEF CleanupSoFar, Accounted, AfterFind, AfterStop, AfterRemove, AfterRemoveBuilder, AfterRemoveImages
<1>4. CASE ~object[i].image_intended
  <2>1. Passes(i)
    BY <1>4 DEF RemoveImages, Checks, Passes
  <2>2. at'[i] = "inventory" /\ object' = object /\ UNCHANGED <<server, builder, images>>
    BY <1>2, <2>1, Known DEF Passes, Advance, daemon, BuildTypeOK
  <2>3. images[i] = {}
    BY <1>4, Known DEF Accounted
  <2>4. CleanupSoFar(i)'
    BY <1>3, <2>2, <2>3 DEF CleanupSoFar, AfterFind, AfterStop, AfterRemove, AfterRemoveBuilder, AfterRemoveImages
  <2> QED BY <1>0, <1>1, <1>2, <2>1, <2>4, CleanupPasses DEF CleanNames
<1>5. CASE object[i].image_intended
  <2>1. /\ images' = [images EXCEPT ![i] = {}]
        /\ UNCHANGED <<lease, server, pending, builder, session, client, workers, receipt, foreign>>
    BY <1>5 DEF RemoveImages, load, outcome
  <2>2. CASE Advance(i) /\ UNCHANGED <<object, unproven>>
    <3>1. at' = [at EXCEPT ![i] = "inventory"] /\ object' = object /\ unproven' = unproven
      BY <1>2, <2>2 DEF Advance
    <3>a. BuildTypeOK'
      BY Known, <1>0, <1>1, <1>3, <2>1, <3>1 DEF BuildTypeOK
    <3>b. OnlyOf(i)
      BY Known, <1>0, <1>1, <1>3, <2>1, <3>1 DEF BuildTypeOK, OnlyOf
    <3>c. Accounted(i)'
      BY Known, <1>0, <1>1, <1>3, <2>1, <3>1 DEF BuildTypeOK, Accounted
    <3>d. RunSoFar(i)'
      BY Known, <1>0, <1>1, <1>3, <2>1, <3>1
         DEF BuildTypeOK, RunSoFar, BeforeCreate, BeforeCancel, AfterCreate, AfterImage, AfterWait, OfTheAdapter
    <3>e. CleanupSoFar(i)'
      BY Known, <1>0, <1>1, <1>3, <2>1, <3>1
         DEF BuildTypeOK, CleanupSoFar, Accounted, AfterFind, AfterStop, AfterRemove, AfterRemoveBuilder, AfterRemoveImages
    <3>f. VerdictSoFar(i)'
      BY Known, <1>0, <1>1, <1>3, <2>1, <3>1, PhaseIsActive DEF BuildTypeOK, VerdictSoFar, CleanNames
    <3> QED BY <1>0, <1>1, <1>3, <2>1, <3>1, <3>a, <3>b, <3>c, <3>d, <3>e, <3>f, Assemble
  <2>3. CASE AnswerLost(i)
    <3>1. Fails(i) /\ TreeMayStay(i)
      BY <2>3 DEF AnswerLost
    <3>a. DockerOK'
      BY Known, <1>0, <1>3, <2>1, <3>1 DEF BuildTypeOK, DockerOK
    <3>b. DockerOnlyOf(i)
      BY Known, <1>0, <1>3, <2>1, <3>1 DEF BuildTypeOK, DockerOnlyOf
    <3>c. Accounted(i)'
      BY ZenonT(40), Known, <1>0, <1>3, <2>1, <3>1, FailedMemory DEF BuildTypeOK, Accounted
    <3>d. WorkersVerdict(i)'
      BY Known, <1>0, <1>3, <2>1, <3>1, FailedMemory DEF BuildTypeOK, WorkersVerdict, VerdictSoFar
    <3> QED BY <1>0, <1>3, <2>1, <3>1, <3>a, <3>b, <3>c, <3>d, AssembleFailed
  <2> QED BY <1>5, <2>2, <2>3 DEF RemoveImages
<1> QED BY <1>4, <1>5

(* The phases of the cleanup that only look *)
LEMMA CleanupChecksKeep ==
  ASSUME BuildInv, NEW i \in Invocations, ListImages(i) \/ SameInventory(i) \/ TreesProven(i)
  PROVE  Keeps(i)
<1>0. at[i] \in {"images", "inventory", "trees"} /\ at[i] \in CleanNames /\ InPhase(i)
  BY DEF ListImages, SameInventory, TreesProven, InPhase, CleanNames
<1>1. at[i] \in {"images", "trees"} => i \in Compose
  BY Known DEF RunSoFar, OfTheAdapter
<1>2. (object[i].intended => object[i].cid) /\ server[i] = "absent" /\ ~builder[i]
      /\ (at[i] # "images" => images[i] = {})
  BY <1>0, Known DEF CleanupSoFar, AfterFind, AfterStop, AfterRemove, AfterRemoveBuilder, AfterRemoveImages
<1>3. CASE Refuses(i)
  BY <1>0, <1>3, RefusesKeeps
<1>4. CASE Passes(i) /\ (at[i] = "trees" => ~unproven[i])
  <2>1. /\ at'[i] = AfterPhase(i) /\ object' = object /\ unproven' = unproven
        /\ UNCHANGED <<server, builder, images>>
    BY <1>4, Known DEF Passes, Advance, daemon, BuildTypeOK
  <2>2. /\ at[i] = "images" => AfterPhase(i) = "rmi"
        /\ at[i] = "inventory" => AfterPhase(i) = IF i \in Compose THEN "trees" ELSE "cleaned"
        /\ at[i] = "trees" => AfterPhase(i) = "cleaned"
    BY <1>1, AfterAdapter, AfterCleanup
  <2>3. CleanupSoFar(i)'
    BY <1>0, <1>1, <1>2, <1>4, <2>1, <2>2 DEF CleanupSoFar, AfterFind, AfterStop, AfterRemove, AfterRemoveBuilder, AfterRemoveImages
  <2> QED BY <1>0, <1>1, <1>4, <2>2, <2>3, CleanupPasses DEF CleanNames, OfTheAdapter
<1>5. CASE ListImages(i)
  BY <1>3, <1>4, <1>5 DEF ListImages, Checks, Passes
<1>6. CASE SameInventory(i)
  BY <1>3, <1>4, <1>6 DEF SameInventory, Checks, Passes
<1>7. CASE TreesProven(i)
  BY <1>3, <1>4, <1>7 DEF TreesProven, Checks, Passes
<1> QED BY <1>5, <1>6, <1>7

(* Nothing is left of an invocation whose cleanup is proven. *)
LEMMA CleanedLeavesNothing ==
  ASSUME BuildInv, NEW i \in Invocations, at[i] \in {"cleaned", "release"}
  PROVE  ~Left(i)
BY Known DEF Left, Accounted, CleanupSoFar, BuildTypeOK, AfterFind, AfterStop, AfterRemove, AfterRemoveBuilder, AfterRemoveImages

LEMMA ReportKeeps ==
  ASSUME BuildInv, NEW i \in Invocations, Report(i)
  PROVE  Keeps(i)
<1>1. /\ at[i] \in {"cleaned", "uncleaned"} /\ "release" \in Places /\ "ended" \in Places
      /\ receipt' = [receipt EXCEPT ![i] =
            IF at[i] = "cleaned" /\ ~object[i].failure THEN "PASS" ELSE "FAILED"]
      /\ at' = [at EXCEPT ![i] = IF at[i] = "cleaned" THEN "release" ELSE "ended"]
      /\ UNCHANGED <<lease, object, server, pending, builder, images, session, client, workers,
                     unproven, foreign>>
  BY DEF Report, daemon, load, Places
<1>2. at'[i] = (IF at[i] = "cleaned" THEN "release" ELSE "ended")
      /\ receipt'[i] = IF at[i] = "cleaned" /\ ~object[i].failure THEN "PASS" ELSE "FAILED"
  BY <1>1, Known DEF BuildTypeOK
<1>3. BuildTypeOK'
  BY <1>1, Known DEF BuildTypeOK
<1>4. OnlyOf(i)
  BY <1>1, Known DEF BuildTypeOK, OnlyOf
<1>5. Accounted(i)'
  BY <1>1, Known DEF Accounted
<1>6. RunSoFar(i)'
  BY <1>2 DEF RunSoFar, BeforeCreate, BeforeCancel, AfterCreate, AfterImage, AfterWait, OfTheAdapter
<1>7. CleanupSoFar(i)'
  BY <1>1, <1>2, Known DEF CleanupSoFar, AfterFind, AfterStop, AfterRemove, AfterRemoveBuilder, AfterRemoveImages
<1>8. Left(i)' = Left(i)
  BY <1>1 DEF Left
<1>9. VerdictSoFar(i)'
  <2>1. receipt'[i] = "PASS" => at[i] = "cleaned" /\ ~object[i].failure
    BY <1>2
  <2>2. receipt'[i] = "PASS" => workers'[i] = "cancelled" /\ ~Left(i)' /\ at'[i] = "release"
    BY <1>1, <1>2, <1>8, <2>1, Known, CleanedLeavesNothing DEF VerdictSoFar
  <2>3. at'[i] \notin CleanNames \cup {"cleaned"}
    BY <1>2 DEF CleanNames
  <2> QED BY <1>1, <2>2, <2>3, Known DEF VerdictSoFar
<1>10. Active(i)
  BY <1>1 DEF Active
<1> QED BY <1>1, <1>3, <1>4, <1>5, <1>6, <1>7, <1>9, <1>10 DEF Keeps, Account

(* The lease passes on only when nothing is left of its holder. *)
LEMMA ReleaseInv ==
  ASSUME BuildInv, NEW i \in Invocations, Release(i)
  PROVE  BuildInv'
<1>1. /\ at[i] = "release" /\ "ended" \in Places
      /\ lease' = IF lease = i THEN NoInvocation ELSE lease
      /\ at' = [at EXCEPT ![i] = "ended"]
      /\ UNCHANGED <<object, server, pending, builder, images, session, client, workers,
                     unproven, receipt, foreign>>
  BY DEF Release, daemon, load, Places
<1>2. at'[i] = "ended" /\ Active(i)
  BY <1>1, Known DEF BuildTypeOK, Active
<1>3. BuildTypeOK'
  BY <1>1, Known DEF BuildTypeOK
<1>4. OnlyOf(i)
  BY <1>1, Known DEF BuildTypeOK, OnlyOf
<1>5. Accounted(i)'
  BY <1>1, Known DEF Accounted
<1>6. RunSoFar(i)'
  BY <1>2 DEF RunSoFar, BeforeCreate, BeforeCancel, AfterCreate, AfterImage, AfterWait, OfTheAdapter
<1>7. CleanupSoFar(i)'
  BY <1>2 DEF CleanupSoFar, AfterFind, AfterStop, AfterRemove, AfterRemoveBuilder, AfterRemoveImages
<1>8. \A j \in Invocations : Left(j)' = Left(j)
  BY <1>1 DEF Left
<1>9. VerdictSoFar(i)'
  BY <1>1, <1>2, <1>8, Known DEF VerdictSoFar, CleanNames
<1>10. \A j \in Invocations : Account(j)'
  BY <1>4, <1>5, <1>6, <1>7, <1>9, OthersKeep DEF Account
<1>11. lease = i
  BY <1>2 DEF BuildInv, LeaseHeld
<1>12. ASSUME NEW j \in Invocations PROVE ~(Active(j)' \/ Left(j)')
  <2>1. CASE j = i
    BY <1>1, <1>2, <1>8, <2>1, CleanedLeavesNothing DEF Active
  <2>2. CASE j # i
    <3>1. Active(j)' = Active(j)
      BY <1>4, <2>2 DEF Active, OnlyOf
    <3> QED BY <1>8, <1>11, <2>2, <3>1 DEF BuildInv, LeaseHeld
  <2> QED BY <2>1, <2>2
<1> QED BY <1>3, <1>10, <1>12 DEF BuildInv, LeaseHeld

LEMMA AcquireInv ==
  ASSUME BuildInv, NEW i \in Invocations, Acquire(i)
  PROVE  BuildInv'
<1>1. /\ at[i] = "idle" /\ lease = NoInvocation /\ lease' = i /\ "prepare" \in Places
      /\ at' = [at EXCEPT ![i] = "prepare"]
      /\ UNCHANGED <<object, server, pending, builder, images, session, client, workers,
                     unproven, receipt, foreign>>
  BY DEF Acquire, daemon, load, Places, RunNames
<1>2. at'[i] = "prepare"
  BY <1>1, Known DEF BuildTypeOK
<1>3. BuildTypeOK'
  BY <1>1, Known DEF BuildTypeOK
<1>4. OnlyOf(i)
  BY <1>1, Known DEF BuildTypeOK, OnlyOf
<1>5. Accounted(i)'
  BY <1>1, Known DEF Accounted
<1>6. RunSoFar(i)'
  BY <1>1, <1>2, Known DEF RunSoFar, BeforeCreate, BeforeCancel, AfterCreate, AfterImage, AfterWait, OfTheAdapter
<1>7. CleanupSoFar(i)'
  BY <1>2 DEF CleanupSoFar, AfterFind, AfterStop, AfterRemove, AfterRemoveBuilder, AfterRemoveImages
<1>8. VerdictSoFar(i)'
  BY <1>1, <1>2, Known DEF VerdictSoFar, CleanNames
<1>9. \A j \in Invocations : Account(j)'
  BY <1>4, <1>5, <1>6, <1>7, <1>8, OthersKeep DEF Account
<1>10. ASSUME NEW j \in Invocations, j # i PROVE ~(Active(j)' \/ Left(j)')
  <2>1. Active(j)' = Active(j) /\ Left(j)' = Left(j)
    BY <1>1, <1>4, <1>10 DEF Active, Left, OnlyOf
  <2> QED BY <1>1, <2>1, BuildAssumption DEF BuildInv, LeaseHeld, Invocations
<1> QED BY <1>1, <1>3, <1>9, <1>10 DEF BuildInv, LeaseHeld
-----------------------------------------------------------------------------
(* What happens around an invocation                                       *)

LEMMA DiesKeeps ==
  ASSUME BuildInv, NEW i \in Invocations, Dies(i)
  PROVE  Keeps(i)
<1>1. /\ Active(i) /\ at' = [at EXCEPT ![i] = "dead"] /\ "dead" \in Places
      /\ UNCHANGED <<lease, object, server, pending, builder, images, session, client, workers,
                     unproven, receipt, foreign>>
  BY DEF Dies, daemon, load, outcome, Places
<1>2. at'[i] = "dead"
  BY <1>1, Known DEF BuildTypeOK
<1>3. BuildTypeOK'
  BY <1>1, Known DEF BuildTypeOK
<1>4. OnlyOf(i)
  BY <1>1, Known DEF BuildTypeOK, OnlyOf
<1>5. Accounted(i)'
  BY <1>1, Known DEF Accounted
<1>6. RunSoFar(i)'
  BY <1>2 DEF RunSoFar, BeforeCreate, BeforeCancel, AfterCreate, AfterImage, AfterWait, OfTheAdapter
<1>7. CleanupSoFar(i)'
  BY <1>2 DEF CleanupSoFar, AfterFind, AfterStop, AfterRemove, AfterRemoveBuilder, AfterRemoveImages
<1>8. Left(i)' = Left(i)
  BY <1>1 DEF Left
<1>9. VerdictSoFar(i)'
  BY <1>1, <1>2, <1>8, Known DEF VerdictSoFar, CleanNames
<1> QED BY <1>1, <1>3, <1>4, <1>5, <1>6, <1>7, <1>9 DEF Keeps, Account

(* Docker may only move what is still there: then there is no PASS receipt. *)
LEMMA AssembleAround ==
  ASSUME BuildInv, NEW i \in Invocations,
         UNCHANGED <<lease, at, object, unproven, receipt, foreign>>,
         DockerOK', DockerOnlyOf(i), Left(i), Accounted(i)', RunSoFar(i)', CleanupSoFar(i)', WorkersVerdict(i)',
         workers[i] = "cancelled" => workers'[i] = "cancelled"
  PROVE  Keeps(i)
<1>1. BuildTypeOK'
  BY Known DEF BuildTypeOK, DockerOK
<1>2. OnlyOf(i)
  BY DEF OnlyOf, DockerOnlyOf
<1>3. VerdictSoFar(i)'
  BY Known DEF VerdictSoFar, WorkersVerdict
<1> QED BY <1>1, <1>2, <1>3 DEF Keeps, Account

LEMMA LateCreateKeeps ==
  ASSUME BuildInv, NEW i \in Invocations, LateCreate(i)
  PROVE  Keeps(i)
<1>1. /\ pending[i] /\ pending' = [pending EXCEPT ![i] = FALSE]
      /\ UNCHANGED <<lease, at, object, builder, images, session, client, workers, unproven, receipt, foreign>>
      /\ server' = [server EXCEPT ![i] = "created"] \/ server' = server
  BY DEF LateCreate, load, outcome
<1>2. object[i].intended /\ ~object[i].cid /\ server[i] = "absent" /\ ~session[i] /\ workers[i] # "alive"
  BY <1>1, Known DEF Accounted
<1>3. pending'[i] = FALSE /\ server'[i] \in {"absent", "created"}
  BY <1>1, <1>2, Known DEF BuildTypeOK
<1>4. DockerOK' /\ DockerOnlyOf(i)
  BY <1>1, Known DEF BuildTypeOK, DockerOK, DockerOnlyOf
<1>5. Accounted(i)'
  BY <1>1, <1>2, <1>3, Known DEF Accounted
<1>6. RunSoFar(i)'
  BY <1>1, Known DEF RunSoFar
<1>7. CleanupSoFar(i)'
  BY <1>1, <1>2, Known DEF CleanupSoFar, AfterFind, AfterStop, AfterRemove, AfterRemoveBuilder, AfterRemoveImages
<1>8. WorkersVerdict(i)'
  BY <1>1, <1>3, Known DEF VerdictSoFar, WorkersVerdict
<1>9. Left(i)
  BY <1>1 DEF Left
<1> QED BY <1>1, <1>4, <1>5, <1>6, <1>7, <1>8, <1>9, AssembleAround

LEMMA LateExportKeeps ==
  ASSUME BuildInv, NEW i \in Invocations, LateExport(i)
  PROVE  Keeps(i)
<1>1. /\ session[i] /\ server[i] = "running" /\ session' = [session EXCEPT ![i] = FALSE]
      /\ UNCHANGED <<lease, at, object, server, pending, builder, client, workers, unproven, receipt, foreign>>
      /\ images' = [images EXCEPT ![i] = images[i] \cup {"late"}] \/ images' = images
  BY DEF LateExport, load, outcome
<1>2. i \in Compose /\ object[i].image_intended
  BY <1>1, Known DEF Accounted
<1>3. DockerOK' /\ DockerOnlyOf(i)
  <2>1. images' \in [Invocations -> SUBSET Tags] /\ \A j \in Invocations \ {i} : images'[j] = images[j]
    <3>1. CASE images' = images
      BY <3>1, Known DEF BuildTypeOK
    <3>2. CASE images' = [images EXCEPT ![i] = images[i] \cup {"late"}]
      <4>1. images[i] \cup {"late"} \in SUBSET Tags
        BY Known DEF BuildTypeOK, Tags
      <4> QED BY <3>2, <4>1, Known DEF BuildTypeOK
    <3> QED BY <1>1, <3>1, <3>2
  <2> QED BY <1>1, <2>1, Known DEF BuildTypeOK, DockerOK, DockerOnlyOf
<1>4. session'[i] = FALSE
  BY <1>1, Known DEF BuildTypeOK
<1>5. Accounted(i)'
  BY <1>1, <1>2, <1>4, Known DEF Accounted
<1>6. RunSoFar(i)'
  BY <1>1, Known DEF RunSoFar
<1>7. CleanupSoFar(i)'
  BY <1>1, Known DEF CleanupSoFar, AfterFind, AfterStop, AfterRemove, AfterRemoveBuilder, AfterRemoveImages
<1>8. WorkersVerdict(i)'
  BY <1>1, Known DEF VerdictSoFar, WorkersVerdict
<1>9. Left(i)
  BY <1>1 DEF Left
<1> QED BY <1>1, <1>3, <1>5, <1>6, <1>7, <1>8, <1>9, AssembleAround

LEMMA WorkersStartKeeps ==
  ASSUME BuildInv, NEW i \in Invocations, WorkersStart(i)
  PROVE  Keeps(i)
<1>1. /\ client[i] = "running" /\ workers[i] = "none" /\ server[i] = "running"
      /\ workers' = [workers EXCEPT ![i] = "alive"]
      /\ UNCHANGED <<lease, at, object, server, pending, builder, images, session, client, unproven,
                     receipt, foreign>>
  BY DEF WorkersStart, daemon, outcome
<1>2. workers'[i] = "alive" /\ at[i] \notin BeforeCancel
  BY <1>1, Known DEF BuildTypeOK, RunSoFar
<1>3. DockerOK' /\ DockerOnlyOf(i)
  BY <1>1, Known DEF BuildTypeOK, DockerOK, DockerOnlyOf
<1>4. Accounted(i)'
  BY <1>1, Known DEF Accounted
<1>5. RunSoFar(i)'
  BY <1>1, <1>2, Known DEF RunSoFar
<1>6. CleanupSoFar(i)'
  BY <1>1, Known DEF CleanupSoFar
<1>7. WorkersVerdict(i)'
  BY <1>2 DEF WorkersVerdict
<1>8. Left(i)
  BY <1>1 DEF Left
<1> QED BY <1>1, <1>3, <1>4, <1>5, <1>6, <1>7, <1>8, AssembleAround

(* The client belongs to no part of what is left. *)
LEMMA ClientExitsKeeps ==
  ASSUME BuildInv, NEW i \in Invocations, ClientExits(i)
  PROVE  Keeps(i)
<1>1. /\ client[i] = "running" /\ client' = [client EXCEPT ![i] = "exited"]
      /\ UNCHANGED <<lease, at, object, server, pending, builder, images, session, workers, unproven,
                     receipt, foreign>>
  BY DEF ClientExits, daemon, outcome
<1>2. client'[i] = "exited" /\ at[i] \notin BeforeCancel
  BY <1>1, Known DEF BuildTypeOK, RunSoFar
<1>3. BuildTypeOK' /\ OnlyOf(i)
  BY <1>1, Known DEF BuildTypeOK, OnlyOf
<1>4. Accounted(i)'
  BY <1>1, Known DEF Accounted
<1>5. RunSoFar(i)'
  BY <1>1, <1>2, Known DEF RunSoFar
<1>6. CleanupSoFar(i)'
  BY <1>1, Known DEF CleanupSoFar
<1>7. Left(i)' = Left(i) /\ Active(i)' = Active(i)
  BY <1>1 DEF Left, Active
<1>8. VerdictSoFar(i)'
  BY <1>1, <1>2, <1>7, Known DEF VerdictSoFar
<1> QED BY <1>1, <1>3, <1>4, <1>5, <1>6, <1>7, <1>8 DEF Keeps, Account

LEMMA WorkersExitKeeps ==
  ASSUME BuildInv, NEW i \in Invocations, WorkersExit(i)
  PROVE  Keeps(i)
<1>1. /\ client[i] = "exited" /\ workers[i] = "alive" /\ server[i] = "running"
      /\ workers' = [workers EXCEPT ![i] =
            IF object[i].stimulated THEN "cancelled" ELSE "ended with client"]
      /\ UNCHANGED <<lease, at, object, server, pending, builder, images, session, client, unproven,
                     receipt, foreign>>
  BY DEF WorkersExit, daemon, outcome
<1>2. /\ object[i].stimulated => workers'[i] = "cancelled"
      /\ ~object[i].stimulated => workers'[i] = "ended with client"
      /\ at[i] \notin BeforeCancel
  BY <1>1, Known DEF BuildTypeOK, RunSoFar
<1>0. /\ client[i] = "exited" /\ workers[i] = "alive"
      /\ at'[i] = at[i] /\ object'[i] = object[i] /\ server'[i] = server[i] /\ client'[i] = client[i]
  BY <1>1
<1>3. DockerOK' /\ DockerOnlyOf(i)
  BY <1>1, Known DEF BuildTypeOK, DockerOK, DockerOnlyOf
<1>4. Accounted(i)'
  BY <1>1, <1>2, Known DEF Accounted
<1>5. RunSoFar(i)'
  <2>1. at[i] \notin AfterWait /\ (at[i] = "wait" => workers'[i] = "cancelled") /\ workers'[i] # "none"
    BY <1>0, <1>2, Known DEF RunSoFar, AfterWait
  <2> QED BY <1>0, <1>2, <2>1, Known DEF RunSoFar
<1>6. CleanupSoFar(i)'
  BY <1>1, Known DEF CleanupSoFar
<1>7. WorkersVerdict(i)'
  <2>1. CASE object[i].stimulated
    BY <1>0, <1>2, <2>1 DEF WorkersVerdict
  <2>2. CASE ~object[i].stimulated
    BY <1>0, <1>2, <2>2 DEF WorkersVerdict
  <2> QED BY <2>1, <2>2
<1>8. Left(i)
  BY <1>1 DEF Left
<1> QED BY <1>1, <1>3, <1>4, <1>5, <1>6, <1>7, <1>8, AssembleAround

LEMMA ServerDiesKeeps ==
  ASSUME BuildInv, NEW i \in Invocations, ServerDies(i)
  PROVE  Keeps(i)
<1>1. /\ server[i] = "running" /\ server' = [server EXCEPT ![i] = "exited"]
      /\ session' = [session EXCEPT ![i] = FALSE]
      /\ workers' = [workers EXCEPT ![i] = IF workers[i] = "alive" THEN "ended with server" ELSE workers[i]]
      /\ client' = [client EXCEPT ![i] = IF client[i] = "running" THEN "exited" ELSE client[i]]
      /\ UNCHANGED <<lease, at, object, pending, builder, images, unproven, receipt, foreign>>
  BY DEF ServerDies, EndServer, outcome
<1>2. /\ server'[i] = "exited" /\ session'[i] = FALSE
      /\ workers'[i] = IF workers[i] = "alive" THEN "ended with server" ELSE workers[i]
  BY <1>1, Known DEF BuildTypeOK
<1>3. client'[i] = IF client[i] = "running" THEN "exited" ELSE client[i]
  BY <1>1, Known DEF BuildTypeOK
<1>4. DockerOK' /\ DockerOnlyOf(i)
  BY <1>1, Known DEF BuildTypeOK, DockerOK, DockerOnlyOf
<1>5. Accounted(i)'
  <2>1. ~pending[i] /\ object[i].intended
    BY <1>1, Known DEF Accounted
  <2>2. workers'[i] # "alive" /\ ~session'[i]
    BY <1>2
  <2> QED BY <1>1, <2>1, <2>2, Known DEF Accounted
<1>6. RunSoFar(i)'
  <2>1. /\ workers[i] = "none" => workers'[i] = "none"
        /\ workers[i] # "none" => workers'[i] # "none"
        /\ client[i] = "none" => client'[i] = "none"
        /\ workers[i] = "cancelled" => workers'[i] = "cancelled"
        /\ workers[i] \in {"alive", "cancelled", "ended with server"} =>
              workers'[i] \in {"alive", "cancelled", "ended with server"}
    BY <1>2, <1>3
  <2> QED BY <1>1, <2>1, Known DEF RunSoFar
<1>7. CleanupSoFar(i)'
  BY <1>1, <1>2, Known DEF CleanupSoFar, AfterFind, AfterStop, AfterRemove, AfterRemoveBuilder, AfterRemoveImages
<1>8. WorkersVerdict(i)'
  <2>1. CASE workers[i] = "alive"
    <3>1. workers'[i] = "ended with server" /\ server'[i] = "exited"
      BY <1>2, <2>1
    <3> QED BY <3>1 DEF WorkersVerdict
  <2>2. CASE workers[i] # "alive"
    <3>1. workers'[i] = workers[i] /\ (client[i] = "exited" => client'[i] = "exited")
      BY <1>2, <1>3, <2>2
    <3> QED BY <1>1, <1>2, <3>1, Known DEF VerdictSoFar, WorkersVerdict
  <2> QED BY <2>1, <2>2
<1>9. Left(i)
  BY <1>1 DEF Left
<1> QED BY <1>1, <1>2, <1>4, <1>5, <1>6, <1>7, <1>8, <1>9, AssembleAround

LEMMA ForeignInv ==
  ASSUME BuildInv, ForeignChange
  PROVE  BuildInv'
<1>1. /\ foreign' = 1 - foreign
      /\ UNCHANGED <<lease, at, object, server, pending, builder, images, session, client, workers,
                     unproven, receipt>>
  BY DEF ForeignChange, daemon, load, outcome
<1>2. BuildTypeOK'
  <2>1. foreign' = 1 - foreign /\ foreign \in {0, 1}
    BY <1>1 DEF BuildInv, BuildTypeOK
  <2>2. foreign' \in {0, 1}
    BY <2>1
  <2> QED BY <1>1, <2>2 DEF BuildInv, BuildTypeOK
<1>3. ASSUME NEW i \in Invocations PROVE Account(i)' /\ (Active(i)' \/ Left(i)' => lease' = i)
  <2>1. Accounted(i)' /\ RunSoFar(i)' /\ CleanupSoFar(i)'
    BY <1>1, Known DEF Accounted, RunSoFar, CleanupSoFar
  <2>2. Left(i)' = Left(i) /\ Active(i)' = Active(i)
    BY <1>1 DEF Left, Active
  <2>3. VerdictSoFar(i)'
    BY <1>1, <2>2, Known DEF VerdictSoFar
  <2> QED BY <1>1, <2>1, <2>2, <2>3 DEF Account, BuildInv, LeaseHeld
<1> QED BY <1>2, <1>3 DEF BuildInv, LeaseHeld

-----------------------------------------------------------------------------
LEMMA BuildInit == Init => BuildInv
<1> SUFFICES ASSUME Init PROVE BuildInv
  OBVIOUS
<1>1. Fresh \in Memory
  BY DEF Fresh, Memory
<1>2. ~Fresh.intended /\ ~Fresh.cid /\ ~Fresh.stimulated
  BY DEF Fresh
<1>3. BuildTypeOK
  <2>1. at \in [Invocations -> Places]
    BY DEF Init, Places
  <2>2. object \in [Invocations -> Memory]
    BY <1>1 DEF Init
  <2> QED BY <2>1, <2>2 DEF Init, BuildTypeOK
<1>4. ASSUME NEW i \in Invocations PROVE Account(i) /\ ~Active(i) /\ ~Left(i)
  <2>1. /\ at[i] = "idle" /\ object[i] = Fresh /\ server[i] = "absent" /\ ~pending[i] /\ ~builder[i]
        /\ images[i] = {} /\ ~session[i] /\ client[i] = "none" /\ workers[i] = "none"
        /\ ~unproven[i] /\ receipt[i] = "none"
    BY DEF Init
  <2>2. Accounted(i)
    BY <1>2, <2>1 DEF Accounted
  <2>3. RunSoFar(i)
    BY <1>2, <2>1 DEF RunSoFar, BeforeCreate, BeforeCancel, AfterCreate, AfterImage, AfterWait, OfTheAdapter
  <2>4. CleanupSoFar(i)
    BY <2>1 DEF CleanupSoFar, AfterFind, AfterStop, AfterRemove, AfterRemoveBuilder, AfterRemoveImages
  <2>5. VerdictSoFar(i)
    BY <2>1 DEF VerdictSoFar, CleanNames
  <2> QED BY <2>1, <2>2, <2>3, <2>4, <2>5 DEF Account, Active, Left
<1> QED BY <1>3, <1>4 DEF BuildInv, LeaseHeld

LEMMA BuildStep ==
  ASSUME BuildInv, [Next]_vars
  PROVE  BuildInv'
<1>1. ASSUME NEW i \in Invocations, RunStep(i) PROVE BuildInv'
  <2>1. CASE Acquire(i)
    BY <2>1, AcquireInv
  <2>2. CASE Prepare(i) \/ NoServerOfThisScope(i) \/ Ready(i) \/ KernelBounds(i) \/ EffectiveMounts(i)
             \/ Capacity(i) \/ Fixture(i) \/ FaultRejected(i) \/ DaemonStillRuns(i) \/ SourcesUnchanged(i)
    BY <2>2, ProbesKeep, KeepsInv
  <2>3. CASE Baseline(i)
    BY <2>3, BaselineKeeps, KeepsInv
  <2>4. CASE Create(i)
    BY <2>4, CreateKeeps, KeepsInv
  <2>5. CASE Start(i)
    BY <2>5, StartKeeps, KeepsInv
  <2>6. CASE Register(i)
    BY <2>6, RegisterKeeps, KeepsInv
  <2>7. CASE NoImageYet(i)
    BY <2>7, NoImageYetKeeps, KeepsInv
  <2>8. CASE Build(i)
    BY <2>8, BuildKeeps, KeepsInv
  <2>9. CASE StartCancel(i)
    BY <2>9, StartCancelKeeps, KeepsInv
  <2>10. CASE SeeWorkers(i)
    BY <2>10, SeeWorkersKeeps, KeepsInv
  <2>11. CASE Stimulus(i)
    BY <2>11, StimulusKeeps, KeepsInv
  <2>12. CASE AwaitCancelled(i)
    BY <2>12, AwaitCancelledKeeps, KeepsInv
  <2> QED BY <1>1, <2>1, <2>2, <2>3, <2>4, <2>5, <2>6, <2>7, <2>8, <2>9, <2>10, <2>11, <2>12 DEF RunStep
<1>2. ASSUME NEW i \in Invocations, CleanupStep(i) PROVE BuildInv'
  <2>1. CASE EndClients(i)
    BY <2>1, EndClientsKeeps, KeepsInv
  <2>2. CASE FindServer(i)
    BY <2>2, FindServerKeeps, KeepsInv
  <2>3. CASE StopServer(i)
    BY <2>3, StopServerKeeps, KeepsInv
  <2>4. CASE RemoveServer(i)
    BY <2>4, RemoveServerKeeps, KeepsInv
  <2>5. CASE RemoveBuilder(i)
    BY <2>5, RemoveBuilderKeeps, KeepsInv
  <2>6. CASE RemoveImages(i)
    BY <2>6, RemoveImagesKeeps, KeepsInv
  <2>7. CASE ListImages(i) \/ SameInventory(i) \/ TreesProven(i)
    BY <2>7, CleanupChecksKeep, KeepsInv
  <2> QED BY <1>2, <2>1, <2>2, <2>3, <2>4, <2>5, <2>6, <2>7 DEF CleanupStep
<1>3. ASSUME NEW i \in Invocations, Around(i) PROVE BuildInv'
  <2>1. CASE Dies(i)
    BY <2>1, DiesKeeps, KeepsInv
  <2>2. CASE LateCreate(i)
    BY <2>2, LateCreateKeeps, KeepsInv
  <2>3. CASE LateExport(i)
    BY <2>3, LateExportKeeps, KeepsInv
  <2>4. CASE WorkersStart(i)
    BY <2>4, WorkersStartKeeps, KeepsInv
  <2>5. CASE ClientExits(i)
    BY <2>5, ClientExitsKeeps, KeepsInv
  <2>6. CASE WorkersExit(i)
    BY <2>6, WorkersExitKeeps, KeepsInv
  <2>7. CASE ServerDies(i)
    BY <2>7, ServerDiesKeeps, KeepsInv
  <2> QED BY <1>3, <2>1, <2>2, <2>3, <2>4, <2>5, <2>6, <2>7 DEF Around
<1>4. ASSUME NEW i \in Invocations, CallFails(i) \/ Report(i) PROVE BuildInv'
  BY <1>4, CallFailsKeeps, ReportKeeps, KeepsInv
<1>5. ASSUME NEW i \in Invocations, Release(i) PROVE BuildInv'
  BY <1>5, ReleaseInv
<1>6. CASE ForeignChange
  BY <1>6, ForeignInv
<1>7. CASE UNCHANGED vars
  <2>1. UNCHANGED <<lease, at, object, server, pending, builder, images, session, client, workers,
                    unproven, receipt, foreign>>
    BY <1>7 DEF vars
  <2>2. BuildTypeOK'
    BY <2>1 DEF BuildInv, BuildTypeOK
  <2>3. ASSUME NEW i \in Invocations PROVE Account(i)' /\ (Active(i)' \/ Left(i)' => lease' = i)
    BY <2>1 DEF BuildInv, Account, Accounted, RunSoFar, CleanupSoFar, VerdictSoFar, LeaseHeld, Active, Left
  <2> QED BY <2>2, <2>3 DEF BuildInv, LeaseHeld
<1> QED BY <1>1, <1>2, <1>3, <1>4, <1>5, <1>6, <1>7 DEF Next

(***************************************************************************)
(* The account of docker, phase by phase: what the controller has intended *)
(* covers what docker holds, what each phase of the run and of the cleanup *)
(* has established, and the lease over everything active or left.          *)
(***************************************************************************)
THEOREM BuildAccounted == Spec => []BuildInv
<1>1. BuildInv /\ [Next]_vars => BuildInv'
  BY BuildStep
<1> QED BY BuildInit, <1>1, PTL DEF Spec

(***************************************************************************)
(* For any number of adapters and qualifiers and any number of faults: the *)
(* lease stays with whoever may still have something in docker (execute,   *)
(* cleanup), so a second invocation never runs beside the leftovers of a   *)
(* first.                                                                  *)
(***************************************************************************)
THEOREM LeaseCoversLeftoversTheorem == Spec => []LeaseCoversLeftovers
<1>1. BuildInv => LeaseCoversLeftovers
  BY DEF BuildInv, LeaseHeld, LeaseCoversLeftovers
<1> QED BY BuildAccounted, <1>1, PTL

(***************************************************************************)
(* A PASS receipt (run, cleanup, the receipt in execute) always stands for *)
(* workers that ended by the cancellation of their client, and for a       *)
(* docker in which nothing of the invocation is left.                      *)
(***************************************************************************)
THEOREM PassIsCancellationTheorem == Spec => []PassIsCancellation
<1>1. BuildInv => PassIsCancellation
  BY DEF BuildInv, Account, VerdictSoFar, PassIsCancellation
<1> QED BY BuildAccounted, <1>1, PTL
=============================================================================

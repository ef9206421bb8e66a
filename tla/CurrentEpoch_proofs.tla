------------------------ MODULE CurrentEpoch_proofs ------------------------
(***************************************************************************)
(* What the boot directories of a current epoch say is earned, for every   *)
(* number of processes, owners, boots and failures.                        *)
(*                                                                         *)
(* BootIsEarned speaks of directories and containers; that a step keeps it *)
(* depends on what the process that takes the step relies on.  CurrentInv  *)
(* says that for every process (Claim): it holds the mutex of its tool,    *)
(* its work directory is begun, the containers of its owner are among what *)
(* it has listed as started unless a stop failed, but for the clones and   *)
(* workers that end by themselves and are never listed, the status it will *)
(* accept is that of the serve it started, and no other current epoch runs *)
(* beside it.  Two processes never share a mutex (Apart), so a step of one *)
(* leaves the claims of the others alone (OthersClaim); a killed process   *)
(* has no claims.                                                          *)
(***************************************************************************)
EXTENDS CurrentEpoch, SequenceTheorems, FiniteSetTheorems, TLAPS

Parts == {"pg", "redis", "serve", "restore", "worker", "catchup"}
States == {"none", "running", "pending", "stopped", "failed"}
StatusRec == [by : Nat, state : States, mark : Nat, at : Nat]
NewPlaces == {"pin", "create", "catchup", "serve", "first", "stop", "restart", "poll", "verify", "status", "pending",
              "receipt", "stop owned"}
BootPlaces == {"pg", "redis", "state", "restore", "verify restore", "unrestore", "retain", "catchup",
               "post", "redis state", "recheck", "serve", "wait", "complete", "cleanup"}
Places == NewPlaces \cup BootPlaces \cup {"idle", "admit"}
Tools == {"none", "successor", "epoch", "boot"}
JobRec == [tool : Tools, owner : Owners, at : Places, round : Nat, waits : BOOLEAN, started : Seq(Parts),
           held : StatusRec, seen : StatusRec, clean : BOOLEAN]
BootRec == [state : {"begun", "passed", "failed"}, seen : StatusRec, serve : Nat,
            clean : BOOLEAN, left : SUBSET Parts]

CurrentTypeOK ==
    /\ job \in [Procs -> JobRec]
    /\ mutex \in [{"successor", "current"} -> Procs \cup {NoProc}]
    /\ work \in [Owners -> {"absent", "begun", "failed", "passed"}]
    /\ signed \in [Owners -> StatusRec]
    /\ boots \in [Owners -> Seq(BootRec)]
    /\ up \in [Owners -> SUBSET Parts]
    /\ starts \in [Owners -> Nat]
    /\ audit \in [Owners -> Nat]
    /\ status \in [Owners -> StatusRec]
    /\ altered \in SUBSET Inputs
    /\ tick \in Nat

New(p) == job[p].tool \in {"epoch", "successor"}
Boot(p) == job[p].tool = "boot"
Admitted(p) == job[p].at # "admit"

(* A process that runs a tool holds the mutex of the tool; the places of a
   tool are its own. *)
HoldsMutex(p) ==
    /\ job[p].tool = "none" => job[p] = Idle
    /\ job[p].tool # "none" => /\ mutex[MutexOf(job[p].tool)] = p
                               /\ job[p].owner = Prior <=> job[p].tool = "successor"
    /\ New(p) => job[p].at \in NewPlaces \cup {"admit"}
    /\ Boot(p) => job[p].at \in BootPlaces \cup {"admit"}

(* A new epoch works in the directory that it began. *)
OwnsWork(p) == New(p) /\ Admitted(p) => work[Owner(p)] = "begun"

(* A boot knows what it started, and whose status it has seen. *)
OwnsBoot(p) ==
    LET o == Owner(p) IN
    /\ Boot(p) /\ ~Admitted(p) => job[p].started = <<>>
    /\ Boot(p) /\ Admitted(p) =>
         /\ boots[o] # <<>>
         /\ job[p].clean => up[o] \subseteq Range(job[p].started) \cup Transient
         /\ job[p].at = "serve" => status[o] = job[p].held /\ "serve" \notin up[o]
         /\ job[p].at = "wait" => status[o] = job[p].held \/ status[o].by = starts[o]
         /\ job[p].at = "complete" => /\ job[p].seen.by = starts[o]
                                      /\ job[p].seen.mark > signed[o].mark

(* An admitted current tool runs beside no other current epoch. *)
Alone(p) ==
    job[p].tool \in {"epoch", "boot"} /\ Admitted(p) =>
        \A o \in Owners \ {Prior} : up[o] # {} => o = Owner(p)

Claim(p) == HoldsMutex(p) /\ OwnsWork(p) /\ OwnsBoot(p) /\ Alone(p)

(* What the boot directories of an owner say. *)
Books(o) ==
    /\ boots[o] # <<>> => work[o] = "passed"
    /\ \A k \in 1 .. Len(boots[o]) :
          /\ boots[o][k].state = "passed" => /\ boots[o][k].seen.by = boots[o][k].serve
                                             /\ boots[o][k].seen.mark > signed[o].mark
          /\ k < Len(boots[o]) => boots[o][k].state = "passed"
          /\ boots[o][k].clean => boots[o][k].left \subseteq Transient

OneRuns == \A o, u \in Owners \ {Prior} : up[o] # {} /\ up[u] # {} => o = u

CurrentInv ==
    /\ CurrentTypeOK
    /\ \A p \in Procs : Claim(p)
    /\ \A o \in Owners : Books(o)
    /\ OneRuns

LEMMA EarnedFromInv == CurrentInv => BootIsEarned
<1> SUFFICES ASSUME CurrentInv PROVE BootIsEarned
  OBVIOUS
<1>1. \A o \in Owners : DOMAIN boots[o] = 1 .. Len(boots[o])
  BY DEF CurrentInv, CurrentTypeOK
<1>2. Cardinality(ActiveEpochs \ {Prior}) <= 1
  <2>1. \A o, u \in ActiveEpochs \ {Prior} : o = u
    BY DEF CurrentInv, OneRuns, ActiveEpochs
  <2>2. CASE ActiveEpochs \ {Prior} = {}
    BY <2>2, FS_EmptySet
  <2>3. CASE ActiveEpochs \ {Prior} # {}
    <3>1. PICK x : x \in ActiveEpochs \ {Prior}
      BY <2>3
    <3>2. ActiveEpochs \ {Prior} = {x}
      BY <2>1, <3>1
    <3> QED BY <3>2, FS_Singleton
  <2> QED BY <2>2, <2>3
<1> QED BY <1>1, <1>2 DEF CurrentInv, Books, BootIsEarned
-----------------------------------------------------------------------------
(* A step of one process                                                   *)

SameFor(o) ==
    /\ work'[o] = work[o] /\ signed'[o] = signed[o] /\ boots'[o] = boots[o]
    /\ up'[o] = up[o] /\ starts'[o] = starts[o] /\ status'[o] = status[o]

(* Two processes that run tools have different mutexes and owners. *)
LEMMA Apart ==
  ASSUME CurrentInv, NEW p \in Procs, NEW q \in Procs, p # q,
         job[p].tool # "none", job[q].tool # "none"
  PROVE  /\ MutexOf(job[p].tool) # MutexOf(job[q].tool)
         /\ Owner(p) # Owner(q)
         /\ job[q].tool \in {"epoch", "boot"} => Owner(p) = Prior
<1>1. /\ mutex[MutexOf(job[p].tool)] = p /\ (job[p].owner = Prior <=> job[p].tool = "successor")
      /\ mutex[MutexOf(job[q].tool)] = q /\ (job[q].owner = Prior <=> job[q].tool = "successor")
  BY DEF CurrentInv, Claim, HoldsMutex
<1>2. MutexOf(job[p].tool) # MutexOf(job[q].tool)
  BY <1>1
<1> QED BY <1>1, <1>2 DEF MutexOf, Owner

LEMMA OthersClaim ==
  ASSUME CurrentInv, NEW p \in Procs, job[p].tool # "none",
         \A q \in Procs \ {p} : job'[q] = job[q],
         \A o \in Owners \ {Owner(p)} : SameFor(o),
         \A m \in {"successor", "current"} \ {MutexOf(job[p].tool)} : mutex'[m] = mutex[m]
  PROVE  \A q \in Procs \ {p} : Claim(q)'
<1> SUFFICES ASSUME NEW q \in Procs, q # p PROVE Claim(q)'
  OBVIOUS
<1>1. Claim(q) /\ job'[q] = job[q] /\ Owner(q) \in Owners
  BY DEF CurrentInv, CurrentTypeOK, JobRec, Owner
<1>2. CASE job[q].tool = "none"
  BY <1>1, <1>2 DEF Claim, HoldsMutex, OwnsWork, OwnsBoot, Alone, New, Boot
<1>3. CASE job[q].tool # "none"
  <2>1. /\ MutexOf(job[p].tool) # MutexOf(job[q].tool) /\ Owner(p) # Owner(q)
        /\ job[q].tool \in {"epoch", "boot"} => Owner(p) = Prior
    BY <1>3, Apart
  <2>2. mutex'[MutexOf(job[q].tool)] = mutex[MutexOf(job[q].tool)]
    BY <2>1 DEF MutexOf
  <2>3. SameFor(Owner(q)) /\ Owner(q)' = Owner(q)
    BY <1>1, <2>1 DEF Owner
  <2>4. HoldsMutex(q)'
    BY <1>1, <2>2 DEF Claim, HoldsMutex, New, Boot
  <2>5. OwnsWork(q)'
    BY <1>1, <2>3 DEF Claim, OwnsWork, New, Admitted, SameFor
  <2>6. OwnsBoot(q)'
    BY <1>1, <2>3 DEF Claim, OwnsBoot, Boot, Admitted, SameFor
  <2>7. Alone(q)'
    BY <1>1, <2>1, <2>3 DEF Claim, Alone, Admitted, SameFor
  <2> QED BY <2>4, <2>5, <2>6, <2>7 DEF Claim
<1> QED BY <1>2, <1>3

LEMMA SameBooks ==
  ASSUME NEW o, Books(o), work'[o] = work[o], signed'[o] = signed[o], boots'[o] = boots[o]
  PROVE  Books(o)'
BY DEF Books

LEMMA StepInv ==
  ASSUME CurrentInv, NEW p \in Procs, job[p].tool # "none", CurrentTypeOK',
         \A q \in Procs \ {p} : job'[q] = job[q],
         \A o \in Owners \ {Owner(p)} : SameFor(o),
         \A m \in {"successor", "current"} \ {MutexOf(job[p].tool)} : mutex'[m] = mutex[m],
         Claim(p)', NEW w \in Owners, w = Owner(p), Books(w)', Admitted(p) \/ up' = up
  PROVE  CurrentInv'
<1>1. \A q \in Procs : Claim(q)'
  BY OthersClaim
<1>2. \A o \in Owners : Books(o)'
  <2> SUFFICES ASSUME NEW o \in Owners, o # w PROVE Books(o)'
    OBVIOUS
  <2>1. Books(o) /\ SameFor(o)
    BY DEF CurrentInv
  <2> QED BY <2>1, SameBooks DEF SameFor
<1>3. OneRuns'
  <2>1. CASE up' = up
    BY <2>1 DEF CurrentInv, OneRuns
  <2>2. CASE Admitted(p)
    <3>1. CASE Owner(p) = Prior
      BY <3>1 DEF CurrentInv, OneRuns, SameFor
    <3>2. CASE Owner(p) # Prior
      <4>1. job[p].tool \in {"epoch", "boot"}
        BY <3>2 DEF CurrentInv, CurrentTypeOK, JobRec, Tools, Claim, HoldsMutex, Owner
      <4>2. \A o \in Owners \ {Prior} : up'[o] # {} => o = Owner(p)
        BY <2>2, <4>1 DEF CurrentInv, Claim, Alone, SameFor
      <4> QED BY <4>2 DEF OneRuns
    <3> QED BY <3>1, <3>2
  <2> QED BY <2>1, <2>2
<1> QED BY <1>1, <1>2, <1>3 DEF CurrentInv

(* Places that a step of the tool keeps. *)
LEMMA AloneStays ==
  ASSUME NEW p \in Procs, Alone(p), Admitted(p), job'[p].tool = job[p].tool, job'[p].owner = job[p].owner,
         \A o \in Owners \ {Owner(p)} : up'[o] = up[o]
  PROVE  Alone(p)'
BY DEF Alone, Admitted, Owner

LEMMA MidStep ==
  ASSUME CurrentInv, NEW p \in Procs, job[p].tool # "none", Admitted(p),
         UNCHANGED <<mutex, work, signed, boots, altered, tick>>,
         job' \in [Procs -> JobRec], \A q \in Procs \ {p} : job'[q] = job[q],
         job'[p].tool = job[p].tool, job'[p].owner = job[p].owner,
         New(p) => job'[p].at \in NewPlaces, Boot(p) => job'[p].at \in BootPlaces,
         up' \in [Owners -> SUBSET Parts], starts' \in [Owners -> Nat], audit' \in [Owners -> Nat],
         status' \in [Owners -> StatusRec],
         \A o \in Owners \ {Owner(p)} : up'[o] = up[o] /\ starts'[o] = starts[o] /\ status'[o] = status[o],
         Boot(p) => OwnsBoot(p)'
  PROVE  CurrentInv'
<1>1. CurrentTypeOK'
  BY DEF CurrentInv, CurrentTypeOK
<1>2. \A o \in Owners \ {Owner(p)} : SameFor(o)
  BY DEF SameFor
<1>3. Claim(p) /\ Owner(p) \in Owners /\ Owner(p)' = Owner(p) /\ Books(Owner(p))
  BY DEF CurrentInv, CurrentTypeOK, JobRec, Owner
<1>4. HoldsMutex(p)'
  <2>1. job'[p].at # "admit"
    BY DEF CurrentInv, CurrentTypeOK, JobRec, Tools, New, Boot, NewPlaces, BootPlaces
  <2> QED BY <1>3 DEF Claim, HoldsMutex, New, Boot
<1>5. OwnsWork(p)'
  BY <1>3 DEF Claim, OwnsWork, New, Admitted
<1>6. OwnsBoot(p)'
  <2>1. CASE Boot(p)
    BY <2>1
  <2>2. CASE ~Boot(p)
    BY <2>2 DEF OwnsBoot, Boot
  <2> QED BY <2>1, <2>2
<1>7. Alone(p)'
  BY <1>3, AloneStays DEF Claim
<1>8. PICK w \in Owners : w = Owner(p)
  BY <1>3
<1>9. Books(w)'
  BY <1>3, <1>8, SameBooks
<1> QED BY <1>1, <1>2, <1>4, <1>5, <1>6, <1>7, <1>8, <1>9, StepInv DEF Claim
-----------------------------------------------------------------------------
(* What a step writes into its job                                         *)

LEMMA JobIs ==
  ASSUME CurrentTypeOK, NEW p \in Procs, NEW STATE r, r \in JobRec, job' = [job EXCEPT ![p] = r]
  PROVE  job' \in [Procs -> JobRec] /\ job'[p] = r /\ \A q \in Procs \ {p} : job'[q] = job[q]
BY DEF CurrentTypeOK

LEMMA GoesJob ==
  ASSUME CurrentTypeOK, NEW p \in Procs, NEW STATE step, step \in Places,
         job' = [job EXCEPT ![p].at = step]
  PROVE  /\ job' \in [Procs -> JobRec] /\ \A q \in Procs \ {p} : job'[q] = job[q]
         /\ job'[p].tool = job[p].tool /\ job'[p].owner = job[p].owner
         /\ job'[p].at = step /\ job'[p].started = job[p].started
         /\ job'[p].held = job[p].held /\ job'[p].seen = job[p].seen
         /\ job'[p].clean = job[p].clean
<1> DEFINE r == [job[p] EXCEPT !.at = step]
<1>1. job[p] \in JobRec
  BY DEF CurrentTypeOK
<1>2. r \in JobRec
  BY <1>1 DEF JobRec
<1>3. /\ r.tool = job[p].tool /\ r.owner = job[p].owner
      /\ r.at = step /\ r.started = job[p].started
      /\ r.held = job[p].held /\ r.seen = job[p].seen
      /\ r.clean = job[p].clean
  BY <1>1 DEF JobRec
<1>4. job' = [job EXCEPT ![p] = r]
  OBVIOUS
<1> HIDE DEF r
<1> QED BY <1>2, <1>3, <1>4, JobIs

LEMMA HeldJob ==
  ASSUME CurrentTypeOK, NEW p \in Procs, NEW STATE step, step \in Places, NEW STATE s, s \in StatusRec,
         job' = [job EXCEPT ![p].at = step, ![p].held = s]
  PROVE  /\ job' \in [Procs -> JobRec] /\ \A q \in Procs \ {p} : job'[q] = job[q]
         /\ job'[p].tool = job[p].tool /\ job'[p].owner = job[p].owner
         /\ job'[p].at = step /\ job'[p].started = job[p].started
         /\ job'[p].held = s /\ job'[p].seen = job[p].seen
         /\ job'[p].clean = job[p].clean
<1> DEFINE r == [job[p] EXCEPT !.at = step, !.held = s]
<1>1. job[p] \in JobRec
  BY DEF CurrentTypeOK
<1>2. r \in JobRec
  BY <1>1 DEF JobRec
<1>3. /\ r.tool = job[p].tool /\ r.owner = job[p].owner
      /\ r.at = step /\ r.started = job[p].started
      /\ r.held = s /\ r.seen = job[p].seen
      /\ r.clean = job[p].clean
  BY <1>1 DEF JobRec
<1>4. job' = [job EXCEPT ![p] = r]
  OBVIOUS
<1> HIDE DEF r
<1> QED BY <1>2, <1>3, <1>4, JobIs

LEMMA SeenJob ==
  ASSUME CurrentTypeOK, NEW p \in Procs, NEW STATE step, step \in Places, NEW STATE s, s \in StatusRec,
         job' = [job EXCEPT ![p].at = step, ![p].seen = s]
  PROVE  /\ job' \in [Procs -> JobRec] /\ \A q \in Procs \ {p} : job'[q] = job[q]
         /\ job'[p].tool = job[p].tool /\ job'[p].owner = job[p].owner
         /\ job'[p].at = step /\ job'[p].started = job[p].started
         /\ job'[p].held = job[p].held /\ job'[p].seen = s
         /\ job'[p].clean = job[p].clean
<1> DEFINE r == [job[p] EXCEPT !.at = step, !.seen = s]
<1>1. job[p] \in JobRec
  BY DEF CurrentTypeOK
<1>2. r \in JobRec
  BY <1>1 DEF JobRec
<1>3. /\ r.tool = job[p].tool /\ r.owner = job[p].owner
      /\ r.at = step /\ r.started = job[p].started
      /\ r.held = job[p].held /\ r.seen = s
      /\ r.clean = job[p].clean
  BY <1>1 DEF JobRec
<1>4. job' = [job EXCEPT ![p] = r]
  OBVIOUS
<1> HIDE DEF r
<1> QED BY <1>2, <1>3, <1>4, JobIs

LEMMA StartedJob ==
  ASSUME CurrentTypeOK, NEW p \in Procs, NEW STATE step, step \in Places, NEW STATE l, l \in Seq(Parts),
         job' = [job EXCEPT ![p].at = step, ![p].started = l]
  PROVE  /\ job' \in [Procs -> JobRec] /\ \A q \in Procs \ {p} : job'[q] = job[q]
         /\ job'[p].tool = job[p].tool /\ job'[p].owner = job[p].owner
         /\ job'[p].at = step /\ job'[p].started = l
         /\ job'[p].held = job[p].held /\ job'[p].seen = job[p].seen
         /\ job'[p].clean = job[p].clean
<1> DEFINE r == [job[p] EXCEPT !.at = step, !.started = l]
<1>1. job[p] \in JobRec
  BY DEF CurrentTypeOK
<1>2. r \in JobRec
  BY <1>1 DEF JobRec
<1>3. /\ r.tool = job[p].tool /\ r.owner = job[p].owner
      /\ r.at = step /\ r.started = l
      /\ r.held = job[p].held /\ r.seen = job[p].seen
      /\ r.clean = job[p].clean
  BY <1>1 DEF JobRec
<1>4. job' = [job EXCEPT ![p] = r]
  OBVIOUS
<1> HIDE DEF r
<1> QED BY <1>2, <1>3, <1>4, JobIs

LEMMA StoppedJob ==
  ASSUME CurrentTypeOK, NEW p \in Procs, NEW STATE l, l \in Seq(Parts),
         job' = [job EXCEPT ![p].started = l]
  PROVE  /\ job' \in [Procs -> JobRec] /\ \A q \in Procs \ {p} : job'[q] = job[q]
         /\ job'[p].tool = job[p].tool /\ job'[p].owner = job[p].owner
         /\ job'[p].at = job[p].at /\ job'[p].started = l
         /\ job'[p].held = job[p].held /\ job'[p].seen = job[p].seen
         /\ job'[p].clean = job[p].clean
<1> DEFINE r == [job[p] EXCEPT !.started = l]
<1>1. job[p] \in JobRec
  BY DEF CurrentTypeOK
<1>2. r \in JobRec
  BY <1>1 DEF JobRec
<1>3. /\ r.tool = job[p].tool /\ r.owner = job[p].owner
      /\ r.at = job[p].at /\ r.started = l
      /\ r.held = job[p].held /\ r.seen = job[p].seen
      /\ r.clean = job[p].clean
  BY <1>1 DEF JobRec
<1>4. job' = [job EXCEPT ![p] = r]
  OBVIOUS
<1> HIDE DEF r
<1> QED BY <1>2, <1>3, <1>4, JobIs

LEMMA UncleanJob ==
  ASSUME CurrentTypeOK, NEW p \in Procs, NEW STATE l, l \in Seq(Parts), NEW b \in BOOLEAN,
         job' = [job EXCEPT ![p].started = l, ![p].clean = b]
  PROVE  /\ job' \in [Procs -> JobRec] /\ \A q \in Procs \ {p} : job'[q] = job[q]
         /\ job'[p].tool = job[p].tool /\ job'[p].owner = job[p].owner
         /\ job'[p].at = job[p].at /\ job'[p].started = l
         /\ job'[p].held = job[p].held /\ job'[p].seen = job[p].seen
         /\ job'[p].clean = b
<1> DEFINE r == [job[p] EXCEPT !.started = l, !.clean = b]
<1>1. job[p] \in JobRec
  BY DEF CurrentTypeOK
<1>2. r \in JobRec
  BY <1>1 DEF JobRec
<1>3. /\ r.tool = job[p].tool /\ r.owner = job[p].owner
      /\ r.at = job[p].at /\ r.started = l
      /\ r.held = job[p].held /\ r.seen = job[p].seen
      /\ r.clean = b
  BY <1>1 DEF JobRec
<1>4. job' = [job EXCEPT ![p] = r]
  OBVIOUS
<1> HIDE DEF r
<1> QED BY <1>2, <1>3, <1>4, JobIs

LEMMA RoundJob ==
  ASSUME CurrentTypeOK, NEW p \in Procs, NEW STATE step, step \in Places, NEW STATE n, n \in Nat,
         job' = [job EXCEPT ![p].at = step, ![p].round = n]
  PROVE  /\ job' \in [Procs -> JobRec] /\ \A q \in Procs \ {p} : job'[q] = job[q]
         /\ job'[p].tool = job[p].tool /\ job'[p].owner = job[p].owner
         /\ job'[p].at = step /\ job'[p].started = job[p].started
         /\ job'[p].held = job[p].held /\ job'[p].seen = job[p].seen
         /\ job'[p].clean = job[p].clean
<1> DEFINE r == [job[p] EXCEPT !.at = step, !.round = n]
<1>1. job[p] \in JobRec
  BY DEF CurrentTypeOK
<1>2. r \in JobRec
  BY <1>1 DEF JobRec
<1>3. /\ r.tool = job[p].tool /\ r.owner = job[p].owner
      /\ r.at = step /\ r.started = job[p].started
      /\ r.held = job[p].held /\ r.seen = job[p].seen
      /\ r.clean = job[p].clean
  BY <1>1 DEF JobRec
<1>4. job' = [job EXCEPT ![p] = r]
  OBVIOUS
<1> HIDE DEF r
<1> QED BY <1>2, <1>3, <1>4, JobIs

LEMMA WaitsJob ==
  ASSUME CurrentTypeOK, NEW p \in Procs, NEW STATE step, step \in Places, NEW STATE b, b \in BOOLEAN,
         job' = [job EXCEPT ![p].waits = b, ![p].at = step]
  PROVE  /\ job' \in [Procs -> JobRec] /\ \A q \in Procs \ {p} : job'[q] = job[q]
         /\ job'[p].tool = job[p].tool /\ job'[p].owner = job[p].owner
         /\ job'[p].at = step /\ job'[p].started = job[p].started
         /\ job'[p].held = job[p].held /\ job'[p].seen = job[p].seen
         /\ job'[p].clean = job[p].clean
<1> DEFINE r == [job[p] EXCEPT !.waits = b, !.at = step]
<1>1. job[p] \in JobRec
  BY DEF CurrentTypeOK
<1>2. r \in JobRec
  BY <1>1 DEF JobRec
<1>3. /\ r.tool = job[p].tool /\ r.owner = job[p].owner
      /\ r.at = step /\ r.started = job[p].started
      /\ r.held = job[p].held /\ r.seen = job[p].seen
      /\ r.clean = job[p].clean
  BY <1>1 DEF JobRec
<1>4. job' = [job EXCEPT ![p] = r]
  OBVIOUS
<1> HIDE DEF r
<1> QED BY <1>2, <1>3, <1>4, JobIs

LEMMA FailedJob ==
  ASSUME CurrentTypeOK, NEW p \in Procs, NEW STATE step, step \in Places, NEW STATE l, l \in Seq(Parts),
         job' = [job EXCEPT ![p].at = step, ![p].waits = FALSE, ![p].started = l]
  PROVE  /\ job' \in [Procs -> JobRec] /\ \A q \in Procs \ {p} : job'[q] = job[q]
         /\ job'[p].tool = job[p].tool /\ job'[p].owner = job[p].owner
         /\ job'[p].at = step /\ job'[p].started = l
         /\ job'[p].held = job[p].held /\ job'[p].seen = job[p].seen
         /\ job'[p].clean = job[p].clean
<1> DEFINE r == [job[p] EXCEPT !.at = step, !.waits = FALSE, !.started = l]
<1>1. job[p] \in JobRec
  BY DEF CurrentTypeOK
<1>2. r \in JobRec
  BY <1>1 DEF JobRec
<1>3. /\ r.tool = job[p].tool /\ r.owner = job[p].owner
      /\ r.at = step /\ r.started = l
      /\ r.held = job[p].held /\ r.seen = job[p].seen
      /\ r.clean = job[p].clean
  BY <1>1 DEF JobRec
<1>4. job' = [job EXCEPT ![p] = r]
  OBVIOUS
<1> HIDE DEF r
<1> QED BY <1>2, <1>3, <1>4, JobIs

LEMMA InvokedJob ==
  ASSUME CurrentTypeOK, NEW p \in Procs, NEW STATE step, step \in Places, NEW t \in Tools, NEW o \in Owners,
         job' = [job EXCEPT ![p].tool = t, ![p].owner = o, ![p].at = step]
  PROVE  /\ job' \in [Procs -> JobRec] /\ \A q \in Procs \ {p} : job'[q] = job[q]
         /\ job'[p].tool = t /\ job'[p].owner = o
         /\ job'[p].at = step /\ job'[p].started = job[p].started
         /\ job'[p].held = job[p].held /\ job'[p].seen = job[p].seen
         /\ job'[p].clean = job[p].clean
<1> DEFINE r == [job[p] EXCEPT !.tool = t, !.owner = o, !.at = step]
<1>1. job[p] \in JobRec
  BY DEF CurrentTypeOK
<1>2. r \in JobRec
  BY <1>1 DEF JobRec
<1>3. /\ r.tool = t /\ r.owner = o
      /\ r.at = step /\ r.started = job[p].started
      /\ r.held = job[p].held /\ r.seen = job[p].seen
      /\ r.clean = job[p].clean
  BY <1>1 DEF JobRec
<1>4. job' = [job EXCEPT ![p] = r]
  OBVIOUS
<1> HIDE DEF r
<1> QED BY <1>2, <1>3, <1>4, JobIs

LEMMA IdleTyped == Idle \in JobRec /\ Idle.tool = "none" /\ Idle.started = <<>>
<1>1. NoStatus \in StatusRec
  BY DEF NoStatus, StatusRec, States
<1>2. <<>> \in Seq(Parts)
  OBVIOUS
<1> QED BY <1>1, <1>2, CurrentAssumption DEF Idle, JobRec, Tools, Places

LEMMA EndsClaims ==
  ASSUME CurrentInv, NEW p \in Procs, job[p].tool # "none", Ends(p)
  PROVE  /\ job' \in [Procs -> JobRec] /\ \A q \in Procs \ {p} : job'[q] = job[q]
         /\ mutex' \in [{"successor", "current"} -> Procs \cup {NoProc}]
         /\ \A m \in {"successor", "current"} \ {MutexOf(job[p].tool)} : mutex'[m] = mutex[m]
         /\ Claim(p)'
<1>1. job' = [job EXCEPT ![p] = Idle] /\ mutex' = [mutex EXCEPT ![MutexOf(job[p].tool)] = NoProc]
  BY DEF Ends
<1>2. job' \in [Procs -> JobRec] /\ job'[p] = Idle /\ \A q \in Procs \ {p} : job'[q] = job[q]
  BY <1>1, IdleTyped, JobIs DEF CurrentInv
<1>3. Claim(p)'
  BY <1>2, IdleTyped DEF Claim, HoldsMutex, OwnsWork, OwnsBoot, Alone, New, Boot
<1> QED BY <1>1, <1>2, <1>3 DEF CurrentInv, CurrentTypeOK

(* A process that ends, its owner's books in order. *)
LEMMA EndStep ==
  ASSUME CurrentInv, NEW p \in Procs, job[p].tool # "none", Ends(p),
         UNCHANGED <<altered, tick>>,
         work' \in [Owners -> {"absent", "begun", "failed", "passed"}],
         signed' \in [Owners -> StatusRec], boots' \in [Owners -> Seq(BootRec)],
         up' \in [Owners -> SUBSET Parts], starts' = starts, audit' = audit,
         status' \in [Owners -> StatusRec],
         \A o \in Owners \ {Owner(p)} : SameFor(o),
         NEW w \in Owners, w = Owner(p), Books(w)', Admitted(p) \/ up' = up
  PROVE  CurrentInv'
<1>1. CurrentTypeOK'
  BY EndsClaims DEF CurrentInv, CurrentTypeOK
<1> QED BY <1>1, EndsClaims, StepInv
-----------------------------------------------------------------------------
(* A new epoch                                                             *)

LEMMA Known ==
  ASSUME CurrentInv, NEW p \in Procs
  PROVE  /\ CurrentTypeOK /\ job[p] \in JobRec /\ Owner(p) \in Owners /\ Books(Owner(p))
         /\ HoldsMutex(p) /\ OwnsWork(p) /\ OwnsBoot(p) /\ Alone(p)
BY DEF CurrentInv, CurrentTypeOK, JobRec, Owner, Claim

LEMMA ToolAt ==
  ASSUME CurrentInv, NEW p \in Procs
  PROVE  /\ job[p].tool # "none" => New(p) \/ Boot(p)
         /\ New(p) \/ Boot(p) => job[p].tool # "none" /\ ~(New(p) /\ Boot(p))
         /\ job[p].at \in NewPlaces \ {"serve", "catchup"} => New(p) /\ Admitted(p)
         /\ job[p].at \in BootPlaces \ {"serve", "catchup"} => Boot(p) /\ Admitted(p)
         /\ job[p].at = "admit" => job[p].tool # "none"
         /\ job[p].at \in {"serve", "catchup"} => job[p].tool # "none" /\ Admitted(p)
<1>1. job[p].tool \in Tools
  BY Known DEF JobRec
<1>2. job[p].tool = "none" => job[p].at = "idle"
  BY Known DEF HoldsMutex, Idle
<1> QED BY <1>1, <1>2, Known DEF HoldsMutex, New, Boot, Admitted, Tools, NewPlaces, BootPlaces

LEMMA StatusTyped ==
  ASSUME CurrentTypeOK, NEW o \in Owners, NEW STATE s, s \in StatusAfterStop(o)
  PROVE  s \in StatusRec /\ (s = status[o] \/ s.by = starts[o])
<1>1. CASE s = status[o]
  BY <1>1 DEF CurrentTypeOK
<1>2. CASE s = [by |-> starts[o], state |-> "stopped", mark |-> audit[o], at |-> tick]
  BY <1>2 DEF CurrentTypeOK, StatusRec, States
<1> QED BY <1>1, <1>2 DEF StatusAfterStop

(* A step of a new epoch that only moves on, or fails. *)
LEMMA NewGoes ==
  ASSUME CurrentInv, NEW p \in Procs, New(p), Admitted(p), NEW STATE step, step \in NewPlaces, Goes(p, step),
         UNCHANGED <<mutex, places, up, starts, stores, others>>
  PROVE  CurrentInv'
<1>1. step \in Places /\ job' = [job EXCEPT ![p].at = step]
  BY DEF Goes, Places
<1>2. /\ job' \in [Procs -> JobRec] /\ \A q \in Procs \ {p} : job'[q] = job[q]
      /\ job'[p].tool = job[p].tool /\ job'[p].owner = job[p].owner
      /\ job'[p].at = step /\ job'[p].started = job[p].started
      /\ job'[p].held = job[p].held /\ job'[p].seen = job[p].seen
      /\ job'[p].clean = job[p].clean
  BY <1>1, Known, GoesJob
<1>3. UNCHANGED <<mutex, work, signed, boots, up, starts, audit, status, altered, tick>>
  BY DEF places, stores, others
<1> QED BY <1>2, <1>3, Known, ToolAt, MidStep DEF CurrentTypeOK

LEMMA NewFails ==
  ASSUME CurrentInv, NEW p \in Procs, New(p), Admitted(p), Failing(p),
         UNCHANGED <<mutex, places, up, starts, stores, others>>
  PROVE  CurrentInv'
<1>1. Goes(p, "stop owned")
  BY ToolAt DEF Failing, FailureStep, New
<1> QED BY <1>1, NewGoes DEF NewPlaces

LEMMA InvokeInv ==
  ASSUME CurrentInv, NEW p \in Procs, Invoke(p)
  PROVE  CurrentInv'
<1>1. PICK tool \in {"successor", "epoch", "boot"}, o \in Owners :
        /\ o = Prior <=> tool = "successor"
        /\ mutex[MutexOf(tool)] = NoProc
        /\ mutex' = [mutex EXCEPT ![MutexOf(tool)] = p]
        /\ job' = [job EXCEPT ![p].tool = tool, ![p].owner = o, ![p].at = "admit"]
  BY DEF Invoke
<1>2. job[p].tool = "none" /\ job[p] = Idle
  BY Known DEF Invoke, HoldsMutex
<1>3. UNCHANGED <<work, signed, boots, up, starts, audit, status, altered, tick>>
  BY DEF Invoke, places, stores, others
<1>4. /\ job' \in [Procs -> JobRec] /\ \A q \in Procs \ {p} : job'[q] = job[q]
      /\ job'[p].tool = tool /\ job'[p].owner = o
      /\ job'[p].at = "admit" /\ job'[p].started = job[p].started
      /\ job'[p].held = job[p].held /\ job'[p].seen = job[p].seen
      /\ job'[p].clean = job[p].clean
  <2>1. tool \in Tools /\ "admit" \in Places
    BY DEF Tools, Places
  <2>2. job' = [job EXCEPT ![p].tool = tool, ![p].owner = o, ![p].at = "admit"]
    BY <1>1
  <2>3. CurrentTypeOK
    BY DEF CurrentInv
  <2> HIDE DEF CurrentInv
  <2> QED BY <2>1, <2>2, <2>3, InvokedJob
<1>5. MutexOf(tool) \in {"successor", "current"} /\ mutex \in [{"successor", "current"} -> Procs \cup {NoProc}]
  BY Known DEF MutexOf, CurrentTypeOK
<1>6. mutex'[MutexOf(tool)] = p /\ mutex' \in [{"successor", "current"} -> Procs \cup {NoProc}]
      /\ \A m \in {"successor", "current"} \ {MutexOf(tool)} : mutex'[m] = mutex[m]
  BY <1>1, <1>5
<1>7. CurrentTypeOK'
  BY <1>3, <1>4, <1>6, Known DEF CurrentTypeOK
<1>8. Claim(p)'
  <2>1. HoldsMutex(p)'
    BY <1>1, <1>4, <1>6 DEF HoldsMutex, New, Boot
  <2>2. OwnsWork(p)' /\ Alone(p)'
    BY <1>4 DEF OwnsWork, Alone, Admitted
  <2>3. OwnsBoot(p)'
    BY <1>2, <1>4, IdleTyped DEF OwnsBoot, Admitted
  <2> QED BY <2>1, <2>2, <2>3 DEF Claim
<1>9. ASSUME NEW q \in Procs, q # p PROVE Claim(q)'
  <2>1. job'[q] = job[q] /\ Owner(q)' = Owner(q) /\ Claim(q) /\ job[q].tool \in Tools
    BY <1>4, <1>9 DEF CurrentInv, Owner, CurrentTypeOK, JobRec
  <2>2. job[q].tool # "none" => mutex'[MutexOf(job[q].tool)] = q
    <3>1. job[q].tool # "none" => mutex[MutexOf(job[q].tool)] = q /\ MutexOf(job[q].tool) # MutexOf(tool)
      BY <1>1, <2>1, CurrentAssumption DEF Claim, HoldsMutex
    <3> QED BY <1>6, <3>1 DEF MutexOf
  <2>3. HoldsMutex(q)'
    BY <2>1, <2>2 DEF Claim, HoldsMutex, New, Boot
  <2>4. OwnsWork(q)' /\ OwnsBoot(q)' /\ Alone(q)'
    BY <1>3, <2>1 DEF Claim, OwnsWork, OwnsBoot, Alone, New, Boot, Admitted
  <2> QED BY <2>3, <2>4 DEF Claim
<1>10. \A u \in Owners : Books(u)'
  BY <1>3 DEF CurrentInv, Books
<1>11. OneRuns'
  BY <1>3 DEF CurrentInv, OneRuns
<1> QED BY <1>7, <1>8, <1>9, <1>10, <1>11 DEF CurrentInv

LEMMA AdmitNewInv ==
  ASSUME CurrentInv, NEW p \in Procs, AdmitNew(p)
  PROVE  CurrentInv'
<1>1. job[p].at = "admit" /\ New(p) /\ ~Boot(p) /\ ~Admitted(p) /\ job[p].tool # "none"
  BY ToolAt DEF AdmitNew, Runs, Boot, Admitted
<1>2. UNCHANGED <<signed, boots, up, starts, audit, status, altered, tick>>
  BY DEF AdmitNew, stores, others
<1>3. PICK w \in Owners : w = Owner(p)
  BY Known
<1>4. Books(w)
  BY <1>3, Known
<1>5. CASE Ends(p) /\ UNCHANGED work
  <2>1. Books(w)'
    BY <1>2, <1>4, <1>5, SameBooks
  <2>2. \A o \in Owners \ {Owner(p)} : SameFor(o)
    BY <1>2, <1>5 DEF SameFor
  <2> QED BY <1>1, <1>2, <1>3, <1>5, <2>1, <2>2, EndStep, Known DEF CurrentTypeOK
<1>6. CASE /\ ActiveEpochs = {} /\ RootIsFree(Owner(p))
           /\ work' = [work EXCEPT ![Owner(p)] = "begun"]
           /\ Goes(p, "pin") /\ UNCHANGED mutex
  <2>1. /\ job' \in [Procs -> JobRec] /\ \A q \in Procs \ {p} : job'[q] = job[q]
        /\ job'[p].tool = job[p].tool /\ job'[p].owner = job[p].owner
        /\ job'[p].at = "pin" /\ job'[p].started = job[p].started
        /\ job'[p].held = job[p].held /\ job'[p].seen = job[p].seen
        /\ job'[p].clean = job[p].clean
    BY <1>6, Known, GoesJob DEF Goes, Places, NewPlaces
  <2>2. /\ work' \in [Owners -> {"absent", "begun", "failed", "passed"}] /\ work'[w] = "begun"
        /\ \A o \in Owners \ {w} : work'[o] = work[o]
    BY <1>3, <1>6, Known DEF CurrentTypeOK
  <2>3. CurrentTypeOK'
    BY <1>2, <1>6, <2>1, <2>2, Known DEF CurrentTypeOK
  <2>4. boots[w] = <<>>
    BY <1>3, <1>4, <1>6 DEF Books, RootIsFree
  <2>5. Books(w)'
    <3>1. Len(boots'[w]) = 0
      BY <1>2, <2>4
    <3>2. boots'[w] = <<>>
      BY <1>2, <2>4
    <3>3. 1 .. Len(boots'[w]) = {}
      BY <3>1
    <3> QED BY <3>2, <3>3 DEF Books
  <2>6. HoldsMutex(p)'
    BY ZenonT(40), <1>1, <1>6, <2>1, Known DEF HoldsMutex, New, Boot, NewPlaces
  <2>7. OwnsWork(p)'
    BY <1>3, <2>1, <2>2 DEF OwnsWork, Owner
  <2>8. OwnsBoot(p)'
    BY <1>1, <2>1 DEF OwnsBoot, Boot
  <2>9. Alone(p)'
    BY <1>2, <1>6 DEF Alone, ActiveEpochs
  <2>10. \A o \in Owners \ {Owner(p)} : SameFor(o)
    BY <1>2, <1>3, <2>2 DEF SameFor
  <2> QED BY <1>1, <1>2, <1>3, <1>6, <2>1, <2>3, <2>5, <2>6, <2>7, <2>8, <2>9, <2>10, StepInv DEF Claim
<1> QED BY <1>5, <1>6 DEF AdmitNew

LEMMA PinPreservedInv ==
  ASSUME CurrentInv, NEW p \in Procs, PinPreserved(p)
  PROVE  CurrentInv'
<1>1. job[p].at = "pin" /\ New(p) /\ Admitted(p) /\ job[p].tool # "none" /\ ~Boot(p)
  BY ToolAt DEF PinPreserved, Runs, NewPlaces
<1> QED BY <1>1, NewGoes, NewFails DEF PinPreserved, NewPlaces

LEMMA VerifyPreservedInv ==
  ASSUME CurrentInv, NEW p \in Procs, VerifyPreserved(p)
  PROVE  CurrentInv'
<1>1. job[p].at = "verify" /\ New(p) /\ Admitted(p) /\ job[p].tool # "none" /\ ~Boot(p)
  BY ToolAt DEF VerifyPreserved, Runs, NewPlaces
<1>2. UNCHANGED <<mutex, places, up, starts, stores, others>>
  BY DEF VerifyPreserved
<1>3. Failing(p) \/ Goes(p, "status") \/ Goes(p, "receipt")
  BY DEF VerifyPreserved
<1> QED BY <1>1, <1>2, <1>3, NewGoes, NewFails DEF NewPlaces

LEMMA FinalStatusInv ==
  ASSUME CurrentInv, NEW p \in Procs, FinalStatus(p)
  PROVE  CurrentInv'
<1>1. job[p].at = "status" /\ New(p) /\ Admitted(p) /\ job[p].tool # "none" /\ ~Boot(p)
  BY ToolAt DEF FinalStatus, Runs, NewPlaces
<1>2. UNCHANGED <<mutex, places, up, starts, stores, others>>
  BY DEF FinalStatus
<1>3. Goes(p, "pending") \/ Goes(p, "receipt") \/ Goes(p, "stop owned")
  BY DEF FinalStatus
<1> QED BY <1>1, <1>2, <1>3, NewGoes DEF NewPlaces

LEMMA WaitPendingInv ==
  ASSUME CurrentInv, NEW p \in Procs, WaitPending(p)
  PROVE  CurrentInv'
<1>1. job[p].at = "pending" /\ New(p) /\ Admitted(p) /\ job[p].tool # "none" /\ ~Boot(p)
  BY ToolAt DEF WaitPending, Runs, NewPlaces
<1>2. UNCHANGED <<mutex, places, up, starts, stores, others>>
  BY DEF WaitPending
<1>3. Goes(p, "receipt") \/ Failing(p)
  BY DEF WaitPending
<1> QED BY <1>1, <1>2, <1>3, NewGoes, NewFails DEF NewPlaces

LEMMA FirstStatusInv ==
  ASSUME CurrentInv, NEW p \in Procs, FirstStatus(p)
  PROVE  CurrentInv'
<1>1. job[p].at = "first" /\ New(p) /\ Admitted(p) /\ job[p].tool # "none" /\ ~Boot(p)
  BY ToolAt DEF FirstStatus, Runs, NewPlaces
<1>2. /\ job' = [job EXCEPT ![p].at = "stop", ![p].held = status[Owner(p)]]
      /\ UNCHANGED <<mutex, work, signed, boots, up, starts, audit, status, altered, tick>>
  BY DEF FirstStatus, places, stores, others
<1>3. "stop" \in Places /\ "stop" \in NewPlaces /\ status[Owner(p)] \in StatusRec
  BY Known DEF Places, NewPlaces, CurrentTypeOK
<1>4. /\ job' \in [Procs -> JobRec] /\ \A q \in Procs \ {p} : job'[q] = job[q]
      /\ job'[p].tool = job[p].tool /\ job'[p].owner = job[p].owner
      /\ job'[p].at = "stop" /\ job'[p].started = job[p].started
      /\ job'[p].held = status[Owner(p)] /\ job'[p].seen = job[p].seen
      /\ job'[p].clean = job[p].clean
  BY <1>2, <1>3, Known, HeldJob
<1> QED BY <1>1, <1>2, <1>3, <1>4, Known, MidStep DEF CurrentTypeOK

LEMMA PollAdvancedInv ==
  ASSUME CurrentInv, NEW p \in Procs, PollAdvanced(p)
  PROVE  CurrentInv'
<1>1. job[p].at = "poll" /\ New(p) /\ Admitted(p) /\ job[p].tool # "none" /\ ~Boot(p)
  BY ToolAt DEF PollAdvanced, Runs, NewPlaces
<1>2. UNCHANGED <<mutex, places, up, starts, stores, others>>
  BY DEF PollAdvanced
<1>3. UNCHANGED <<mutex, work, signed, boots, up, starts, audit, status, altered, tick>>
  BY <1>2 DEF places, stores, others
<1>4. CASE Failing(p)
  BY <1>1, <1>2, <1>4, NewFails
<1>5. CASE job' = [job EXCEPT ![p].at = "verify", ![p].seen = status[Owner(p)]]
  <2>1. "verify" \in Places /\ "verify" \in NewPlaces /\ status[Owner(p)] \in StatusRec
    BY Known DEF Places, NewPlaces, CurrentTypeOK
  <2>2. /\ job' \in [Procs -> JobRec] /\ \A q \in Procs \ {p} : job'[q] = job[q]
        /\ job'[p].tool = job[p].tool /\ job'[p].owner = job[p].owner
        /\ job'[p].at = "verify" /\ job'[p].started = job[p].started
        /\ job'[p].held = job[p].held /\ job'[p].seen = status[Owner(p)]
        /\ job'[p].clean = job[p].clean
    BY <1>5, <2>1, Known, SeenJob
  <2> QED BY <1>1, <1>3, <2>1, <2>2, Known, MidStep DEF CurrentTypeOK
<1> QED BY <1>4, <1>5 DEF PollAdvanced

LEMMA CreateStoresInv ==
  ASSUME CurrentInv, NEW p \in Procs, CreateStores(p)
  PROVE  CurrentInv'
<1>1. job[p].at = "create" /\ New(p) /\ Admitted(p) /\ job[p].tool # "none" /\ ~Boot(p)
  BY ToolAt DEF CreateStores, Runs, NewPlaces
<1>2. UNCHANGED <<mutex, work, signed, boots, starts, audit, status, altered, tick>>
  BY DEF CreateStores, places, stores, others
<1>3. CASE Failing(p) /\ UNCHANGED up
  BY <1>1, <1>2, <1>3, NewFails DEF places, stores, others
<1>4. CASE up' = [up EXCEPT ![Owner(p)] = DataParts] /\ Goes(p, "catchup")
  <2>1. "catchup" \in Places /\ "catchup" \in NewPlaces /\ DataParts \in SUBSET Parts
    BY DEF Places, NewPlaces, DataParts, Parts
  <2>2. /\ job' \in [Procs -> JobRec] /\ \A q \in Procs \ {p} : job'[q] = job[q]
        /\ job'[p].tool = job[p].tool /\ job'[p].owner = job[p].owner
        /\ job'[p].at = "catchup" /\ job'[p].started = job[p].started
        /\ job'[p].held = job[p].held /\ job'[p].seen = job[p].seen
        /\ job'[p].clean = job[p].clean
    BY <1>4, <2>1, Known, GoesJob DEF Goes
  <2>3. /\ up' \in [Owners -> SUBSET Parts]
        /\ \A o \in Owners \ {Owner(p)} : up'[o] = up[o]
    BY <1>4, <2>1, Known DEF CurrentTypeOK
  <2> QED BY <1>1, <1>2, <2>1, <2>2, <2>3, Known, MidStep DEF CurrentTypeOK
<1> QED BY <1>3, <1>4 DEF CreateStores

LEMMA StartsServeFacts ==
  ASSUME CurrentInv, NEW p \in Procs, NEW STATE step, step \in Places, StartsServe(p, step)
  PROVE  /\ up' \in [Owners -> SUBSET Parts] /\ starts' \in [Owners -> Nat]
         /\ \A o \in Owners \ {Owner(p)} : up'[o] = up[o] /\ starts'[o] = starts[o]
         /\ up'[Owner(p)] = up[Owner(p)] \cup {"serve"}
         /\ job' \in [Procs -> JobRec] /\ \A q \in Procs \ {p} : job'[q] = job[q]
         /\ job'[p].tool = job[p].tool /\ job'[p].owner = job[p].owner
         /\ job'[p].at = step /\ job'[p].started = Append(job[p].started, "serve")
         /\ job'[p].held = job[p].held /\ job'[p].seen = job[p].seen
         /\ job'[p].clean = job[p].clean
<1>1. /\ up' = [up EXCEPT ![Owner(p)] = up[Owner(p)] \cup {"serve"}]
      /\ starts' = [starts EXCEPT ![Owner(p)] = starts[Owner(p)] + 1]
      /\ job' = [job EXCEPT ![p].at = step, ![p].started = Append(job[p].started, "serve")]
  BY DEF StartsServe
<1>2. Append(job[p].started, "serve") \in Seq(Parts) /\ up[Owner(p)] \cup {"serve"} \in SUBSET Parts
      /\ starts[Owner(p)] + 1 \in Nat
  BY Known DEF JobRec, Parts, CurrentTypeOK
<1>3. /\ job' \in [Procs -> JobRec] /\ \A q \in Procs \ {p} : job'[q] = job[q]
      /\ job'[p].tool = job[p].tool /\ job'[p].owner = job[p].owner
      /\ job'[p].at = step /\ job'[p].started = Append(job[p].started, "serve")
      /\ job'[p].held = job[p].held /\ job'[p].seen = job[p].seen
      /\ job'[p].clean = job[p].clean
  BY <1>1, <1>2, Known, StartedJob
<1>4. up' \in [Owners -> SUBSET Parts] /\ starts' \in [Owners -> Nat]
  BY <1>1, <1>2, Known DEF CurrentTypeOK
<1>5. \A o \in Owners \ {Owner(p)} : up'[o] = up[o] /\ starts'[o] = starts[o]
  BY <1>1, Known DEF CurrentTypeOK
<1>6. up'[Owner(p)] = up[Owner(p)] \cup {"serve"}
  BY <1>1, Known DEF CurrentTypeOK
<1> QED BY <1>3, <1>4, <1>5, <1>6

LEMMA NewServes ==
  ASSUME CurrentInv, NEW p \in Procs, New(p), ~Boot(p), Admitted(p), NEW STATE step, step \in NewPlaces, step \in Places,
         StartsServe(p, step), UNCHANGED <<mutex, places, stores, others>>
  PROVE  CurrentInv'
<1>1. UNCHANGED <<mutex, work, signed, boots, audit, status, altered, tick>>
  BY DEF places, stores, others
<1>2. /\ up' \in [Owners -> SUBSET Parts] /\ starts' \in [Owners -> Nat]
      /\ \A o \in Owners \ {Owner(p)} : up'[o] = up[o] /\ starts'[o] = starts[o]
      /\ up'[Owner(p)] = up[Owner(p)] \cup {"serve"}
      /\ job' \in [Procs -> JobRec] /\ \A q \in Procs \ {p} : job'[q] = job[q]
      /\ job'[p].tool = job[p].tool /\ job'[p].owner = job[p].owner
      /\ job'[p].at = step /\ job'[p].started = Append(job[p].started, "serve")
      /\ job'[p].held = job[p].held /\ job'[p].seen = job[p].seen
      /\ job'[p].clean = job[p].clean
  BY StartsServeFacts
<1>3. job[p].tool # "none" /\ CurrentTypeOK
  BY ToolAt, Known
<1> QED BY <1>1, <1>2, <1>3, MidStep DEF CurrentTypeOK

LEMMA FirstServeInv ==
  ASSUME CurrentInv, NEW p \in Procs, FirstServe(p)
  PROVE  CurrentInv'
<1>1. New(p) /\ ~Boot(p) /\ Admitted(p)
  BY ToolAt DEF FirstServe, Runs, Boot
<1> QED BY <1>1, NewServes DEF FirstServe, NewPlaces, Places

LEMMA RestartInv ==
  ASSUME CurrentInv, NEW p \in Procs, RestartServeAndValidate(p)
  PROVE  CurrentInv'
<1>1. New(p) /\ ~Boot(p) /\ Admitted(p)
  BY ToolAt DEF RestartServeAndValidate, Runs, NewPlaces
<1> QED BY <1>1, NewServes DEF RestartServeAndValidate, NewPlaces, Places

LEMMA StopForRestartInv ==
  ASSUME CurrentInv, NEW p \in Procs, StopForRestart(p)
  PROVE  CurrentInv'
<1>1. job[p].at = "stop" /\ New(p) /\ Admitted(p) /\ job[p].tool # "none" /\ ~Boot(p)
  BY ToolAt DEF StopForRestart, Runs, NewPlaces
<1>2. UNCHANGED <<mutex, work, signed, boots, starts, audit, altered, tick>>
  BY DEF StopForRestart, places, others
<1>3. CASE Failing(p) /\ UNCHANGED <<up, status>>
  BY <1>1, <1>2, <1>3, NewFails DEF places, stores, others
<1>4. CASE /\ up' = [up EXCEPT ![Owner(p)] = @ \ {"serve"}]
           /\ \E s \in StatusAfterStop(Owner(p)) : status' = [status EXCEPT ![Owner(p)] = s]
           /\ Goes(p, "restart")
  <2>1. "restart" \in Places /\ "restart" \in NewPlaces
    BY DEF Places, NewPlaces
  <2>2. /\ job' \in [Procs -> JobRec] /\ \A q \in Procs \ {p} : job'[q] = job[q]
        /\ job'[p].tool = job[p].tool /\ job'[p].owner = job[p].owner
        /\ job'[p].at = "restart" /\ job'[p].started = job[p].started
        /\ job'[p].held = job[p].held /\ job'[p].seen = job[p].seen
        /\ job'[p].clean = job[p].clean
    BY <1>4, <2>1, Known, GoesJob DEF Goes
  <2>3. up' \in [Owners -> SUBSET Parts] /\ \A o \in Owners \ {Owner(p)} : up'[o] = up[o]
    BY <1>4, Known DEF CurrentTypeOK
  <2>4. status' \in [Owners -> StatusRec] /\ \A o \in Owners \ {Owner(p)} : status'[o] = status[o]
    BY <1>4, Known, StatusTyped DEF CurrentTypeOK
  <2> QED BY <1>1, <1>2, <2>1, <2>2, <2>3, <2>4, Known, MidStep DEF CurrentTypeOK
<1> QED BY <1>3, <1>4 DEF StopForRestart

LEMMA SaveRunReceiptInv ==
  ASSUME CurrentInv, NEW p \in Procs, SaveRunReceipt(p)
  PROVE  CurrentInv'
<1>1. job[p].at = "receipt" /\ New(p) /\ Admitted(p) /\ job[p].tool # "none" /\ ~Boot(p)
  BY ToolAt DEF SaveRunReceipt, Runs, NewPlaces
<1>2. UNCHANGED <<boots, up, starts, audit, status, altered, tick>> /\ Ends(p)
  BY DEF SaveRunReceipt, stores, others
<1>3. PICK w \in Owners : w = Owner(p)
  BY Known
<1>4. /\ work' = [work EXCEPT ![w] = "passed"] /\ signed' = [signed EXCEPT ![w] = job[p].seen]
      /\ job[p].seen \in StatusRec
  BY <1>3, Known DEF SaveRunReceipt, JobRec
<1>5. /\ work' \in [Owners -> {"absent", "begun", "failed", "passed"}] /\ signed' \in [Owners -> StatusRec]
      /\ \A o \in Owners \ {w} : work'[o] = work[o] /\ signed'[o] = signed[o]
  BY <1>4, Known DEF CurrentTypeOK
<1>6. boots'[w] = <<>>
  BY <1>1, <1>2, <1>3, Known DEF OwnsWork, Books
<1>7. Books(w)'
  <2>1. 1 .. Len(boots'[w]) = {}
    BY <1>6
  <2> QED BY <1>6, <2>1 DEF Books
<1>8. \A o \in Owners \ {Owner(p)} : SameFor(o)
  BY <1>2, <1>3, <1>5 DEF SameFor
<1> QED BY <1>1, <1>2, <1>3, <1>5, <1>7, <1>8, EndStep, Known DEF CurrentTypeOK

LEMMA StopOwnedInv ==
  ASSUME CurrentInv, NEW p \in Procs, StopOwned(p)
  PROVE  CurrentInv'
<1>1. job[p].at = "stop owned" /\ New(p) /\ Admitted(p) /\ job[p].tool # "none" /\ ~Boot(p)
  BY ToolAt DEF StopOwned, Runs, NewPlaces
<1>2. UNCHANGED <<signed, boots, starts, audit, altered, tick>> /\ Ends(p)
  BY DEF StopOwned, others
<1>3. PICK w \in Owners : w = Owner(p)
  BY Known
<1>4. work' = [work EXCEPT ![w] = "failed"]
  BY <1>3 DEF StopOwned
<1>5. /\ work' \in [Owners -> {"absent", "begun", "failed", "passed"}]
      /\ \A o \in Owners \ {w} : work'[o] = work[o]
  BY <1>4, Known DEF CurrentTypeOK
<1>6. boots'[w] = <<>>
  BY <1>1, <1>2, <1>3, Known DEF OwnsWork, Books
<1>7. Books(w)'
  <2>1. 1 .. Len(boots'[w]) = {}
    BY <1>6
  <2> QED BY <1>6, <2>1 DEF Books
<1>8. /\ up' \in [Owners -> SUBSET Parts] /\ status' \in [Owners -> StatusRec]
      /\ \A o \in Owners \ {w} : up'[o] = up[o] /\ status'[o] = status[o]
  <2>1. PICK stays \in SUBSET (up[w] \ DataParts) :
          /\ up' = [up EXCEPT ![w] = (up[w] \intersect DataParts) \union stays]
          /\ \E s \in StatusAfterStop(w) :
                status' = [status EXCEPT ![w] = IF "serve" \in up[w] \ stays THEN s ELSE status[w]]
    BY <1>3 DEF StopOwned
  <2>2. up[w] \in SUBSET Parts /\ (up[w] \intersect DataParts) \union stays \in SUBSET Parts
    BY Known DEF CurrentTypeOK
  <2>3. up' \in [Owners -> SUBSET Parts] /\ \A o \in Owners \ {w} : up'[o] = up[o]
    BY <2>1, <2>2, Known DEF CurrentTypeOK
  <2>4. PICK s \in StatusAfterStop(w) :
          status' = [status EXCEPT ![w] = IF "serve" \in up[w] \ stays THEN s ELSE status[w]]
    BY <2>1
  <2>5. s \in StatusRec /\ status[w] \in StatusRec
    BY Known, StatusTyped DEF CurrentTypeOK
  <2>6. status' \in [Owners -> StatusRec] /\ \A o \in Owners \ {w} : status'[o] = status[o]
    BY <2>4, <2>5, Known DEF CurrentTypeOK
  <2> QED BY <2>3, <2>6
<1>9. \A o \in Owners \ {Owner(p)} : SameFor(o)
  BY <1>2, <1>3, <1>5, <1>8 DEF SameFor
<1> QED BY <1>1, <1>2, <1>3, <1>5, <1>7, <1>8, <1>9, EndStep, Known DEF CurrentTypeOK
-----------------------------------------------------------------------------
(* A boot                                                                  *)

LEMMA RangeAppend ==
  ASSUME NEW S, NEW l \in Seq(S), NEW x \in S
  PROVE  Range(Append(l, x)) = Range(l) \cup {x}
<1>1. /\ Len(Append(l, x)) = Len(l) + 1 /\ DOMAIN Append(l, x) = 1 .. Len(l) + 1
      /\ Append(l, x)[Len(l) + 1] = x /\ DOMAIN l = 1 .. Len(l) /\ Len(l) \in Nat
      /\ \A k \in 1 .. Len(l) : Append(l, x)[k] = l[k]
  OBVIOUS
<1>2. \A y : y \in Range(Append(l, x)) => y \in Range(l) \cup {x}
  BY <1>1 DEF Range
<1>3. \A y \in Range(l) : y \in Range(Append(l, x))
  <2> SUFFICES ASSUME NEW k \in 1 .. Len(l) PROVE l[k] \in Range(Append(l, x))
    BY <1>1 DEF Range
  <2>1. k \in 1 .. Len(l) + 1 /\ l[k] = Append(l, x)[k]
    BY <1>1
  <2> QED BY <1>1, <2>1 DEF Range
<1>4. x \in Range(Append(l, x))
  BY <1>1 DEF Range
<1> QED BY <1>2, <1>3, <1>4

LEMMA FrontIs ==
  ASSUME NEW S, NEW l \in Seq(S), l # <<>>
  PROVE  /\ Front(l) \in Seq(S) /\ Len(Front(l)) = Len(l) - 1 /\ Len(l) \in Nat \ {0}
         /\ Last(l) \in S /\ \A k \in 1 .. Len(l) - 1 : Front(l)[k] = l[k]
<1>1. Len(l) \in Nat \ {0} /\ \A k \in 1 .. Len(l) : l[k] \in S
  BY EmptySeq
<1>2. Front(l) = SubSeq(l, 1, Len(l) - 1) /\ Last(l) = l[Len(l)]
  BY DEF Front, Last
<1>3. \A k \in 1 .. Len(l) - 1 : k \in 1 .. Len(l) /\ l[k] \in S
  BY <1>1
<1>4. SubSeq(l, 1, Len(l) - 1) \in Seq(S) /\ Len(SubSeq(l, 1, Len(l) - 1)) = Len(l) - 1
  <2>1. Len(l) - 1 \in Int /\ 1 \in Int
    BY <1>1
  <2>2. /\ SubSeq(l, 1, Len(l) - 1) \in Seq(S)
        /\ Len(SubSeq(l, 1, Len(l) - 1)) = IF 1 <= Len(l) - 1 THEN Len(l) - 1 - 1 + 1 ELSE 0
    BY <1>3, <2>1, SubSeqProperties
  <2>3. CASE Len(l) = 1
    <3>1. ~(1 <= Len(l) - 1) /\ Len(l) - 1 = 0
      BY <2>3
    <3> QED BY <2>2, <3>1
  <2>4. CASE Len(l) # 1
    <3>1. \A n \in Nat \ {0} : n # 1 => 1 <= n - 1 /\ n - 1 - 1 + 1 = n - 1
      OBVIOUS
    <3>2. 1 <= Len(l) - 1 /\ Len(l) - 1 - 1 + 1 = Len(l) - 1
      BY <1>1, <2>4, <3>1
    <3> QED BY <2>2, <3>2
  <2> QED BY <2>3, <2>4
<1>5. \A k \in 1 .. Len(l) - 1 : SubSeq(l, 1, Len(l) - 1)[k] = l[k]
  BY <1>1, <1>3
<1> QED BY <1>1, <1>2, <1>4, <1>5

LEMMA RangeFront ==
  ASSUME NEW S, NEW l \in Seq(S), l # <<>>
  PROVE  Range(l) \subseteq Range(Front(l)) \cup {Last(l)}
<1>1. /\ DOMAIN Front(l) = 1 .. Len(l) - 1 /\ DOMAIN l = 1 .. Len(l) /\ Len(l) \in Nat \ {0}
      /\ \A k \in 1 .. Len(l) - 1 : Front(l)[k] = l[k]
  BY FrontIs
<1> SUFFICES ASSUME NEW k \in 1 .. Len(l), l[k] # Last(l) PROVE l[k] \in Range(Front(l))
  BY <1>1 DEF Range
<1>2. k \in 1 .. Len(l) - 1
  BY <1>1 DEF Last
<1> QED BY <1>1, <1>2 DEF Range

(* The last boot directory is replaced. *)
LEMMA ReplaceLast ==
  ASSUME NEW S, NEW l \in Seq(S), l # <<>>, NEW r \in S
  PROVE  /\ Append(Front(l), r) \in Seq(S) /\ Len(Append(Front(l), r)) = Len(l)
         /\ Append(Front(l), r)[Len(l)] = r
         /\ \A k \in 1 .. Len(l) - 1 : Append(Front(l), r)[k] = l[k]
<1>1. /\ Front(l) \in Seq(S) /\ Len(Front(l)) = Len(l) - 1 /\ Len(l) \in Nat \ {0}
      /\ \A k \in 1 .. Len(l) - 1 : Front(l)[k] = l[k]
  BY FrontIs
<1> QED BY <1>1

(* A step of a boot between its admission and its end. *)
LEMMA BootMid ==
  ASSUME CurrentInv, NEW p \in Procs, Boot(p), Admitted(p), NEW w \in Owners, w = Owner(p),
         UNCHANGED <<mutex, work, signed, boots, altered, tick>>,
         job' \in [Procs -> JobRec], \A q \in Procs \ {p} : job'[q] = job[q],
         job'[p].tool = job[p].tool, job'[p].owner = job[p].owner, job'[p].at \in BootPlaces,
         up' \in [Owners -> SUBSET Parts], starts' \in [Owners -> Nat], audit' \in [Owners -> Nat],
         status' \in [Owners -> StatusRec],
         \A o \in Owners \ {w} : up'[o] = up[o] /\ starts'[o] = starts[o] /\ status'[o] = status[o],
         job'[p].clean => up'[w] \subseteq Range(job'[p].started) \cup Transient,
         job'[p].at = "serve" => status'[w] = job'[p].held /\ "serve" \notin up'[w],
         job'[p].at = "wait" => status'[w] = job'[p].held \/ status'[w].by = starts'[w],
         job'[p].at = "complete" => job'[p].seen.by = starts'[w] /\ job'[p].seen.mark > signed[w].mark
  PROVE  CurrentInv'
<1>1. Owner(p)' = w /\ boots'[w] # <<>> /\ signed'[w] = signed[w]
  BY Known DEF OwnsBoot, Owner
<1>2. Admitted(p)'
  BY DEF Admitted, BootPlaces
<1>3. OwnsBoot(p)'
  BY <1>1, <1>2 DEF OwnsBoot
<1>4. job[p].tool # "none" /\ ~New(p)
  BY ToolAt
<1> HIDE DEF CurrentInv
<1> QED BY <1>3, <1>4, MidStep

(* A boot that only moves to a place where nothing is claimed. *)
LEMMA BootGoes ==
  ASSUME CurrentInv, NEW p \in Procs, Boot(p), Admitted(p), NEW STATE step,
         step \in BootPlaces \ {"serve", "wait", "complete"}, Goes(p, step),
         UNCHANGED <<mutex, places, up, starts, status, others>>, audit' \in [Owners -> Nat]
  PROVE  CurrentInv'
<1>1. step \in Places /\ job' = [job EXCEPT ![p].at = step]
  BY DEF Goes, Places
<1>2. /\ job' \in [Procs -> JobRec] /\ \A q \in Procs \ {p} : job'[q] = job[q]
      /\ job'[p].tool = job[p].tool /\ job'[p].owner = job[p].owner
      /\ job'[p].at = step /\ job'[p].started = job[p].started
      /\ job'[p].held = job[p].held /\ job'[p].seen = job[p].seen
      /\ job'[p].clean = job[p].clean
  BY <1>1, Known, GoesJob
<1>3. UNCHANGED <<mutex, work, signed, boots, up, starts, status, altered, tick>>
  BY DEF places, others
<1>4. PICK w \in Owners : w = Owner(p)
  BY Known
<1>5. job'[p].clean => up'[w] \subseteq Range(job'[p].started) \cup Transient
  BY <1>2, <1>3, <1>4, Known DEF OwnsBoot
<1> QED BY ZenonT(40), <1>2, <1>3, <1>4, <1>5, Known, BootMid DEF CurrentTypeOK

LEMMA BootFails ==
  ASSUME CurrentInv, NEW p \in Procs, Boot(p), Admitted(p), Failing(p),
         UNCHANGED <<mutex, places, up, starts, stores, others>>
  PROVE  CurrentInv'
<1>1. PICK step \in {"cleanup", "retain"} : step = FailureStep(p)
  BY DEF FailureStep, Boot
<1>2. Goes(p, step) /\ audit' \in [Owners -> Nat] /\ status' = status
  BY <1>1, Known DEF Failing, stores, CurrentTypeOK
<1> QED BY <1>1, <1>2, BootGoes DEF BootPlaces

LEMMA AdmitBootInv ==
  ASSUME CurrentInv, NEW p \in Procs, AdmitBoot(p)
  PROVE  CurrentInv'
<1>1. job[p].at = "admit" /\ Boot(p) /\ ~New(p) /\ ~Admitted(p) /\ job[p].tool # "none"
  BY ToolAt DEF AdmitBoot, Runs, Boot, Admitted
<1>2. UNCHANGED <<work, signed, up, starts, audit, status, altered, tick>>
  BY DEF AdmitBoot, stores, others
<1>3. PICK w \in Owners : w = Owner(p)
  BY Known
<1>4. Books(w)
  BY <1>3, Known
<1>5. CASE Ends(p) /\ UNCHANGED boots
  <2>1. Books(w)'
    BY <1>2, <1>4, <1>5, SameBooks
  <2>2. \A o \in Owners \ {Owner(p)} : SameFor(o)
    BY <1>2, <1>5 DEF SameFor
  <2> QED BY <1>1, <1>2, <1>3, <1>5, <2>1, <2>2, EndStep, Known DEF CurrentTypeOK
<1>6. CASE /\ work[w] = "passed" /\ LatchesHold(w, FALSE) /\ ReadyToStart(w)
           /\ boots' = [boots EXCEPT ![w] = Append(boots[w], BootBegun)]
           /\ Goes(p, "pg") /\ UNCHANGED mutex
  <2>1. /\ job' \in [Procs -> JobRec] /\ \A q \in Procs \ {p} : job'[q] = job[q]
        /\ job'[p].tool = job[p].tool /\ job'[p].owner = job[p].owner
        /\ job'[p].at = "pg" /\ job'[p].started = job[p].started
        /\ job'[p].held = job[p].held /\ job'[p].seen = job[p].seen
        /\ job'[p].clean = job[p].clean
    BY <1>6, Known, GoesJob DEF Goes, Places, BootPlaces
  <2>2. BootBegun \in BootRec /\ BootBegun.state = "begun" /\ BootBegun.clean = FALSE
    BY DEF BootBegun, BootRec, NoStatus, StatusRec, States
  <2>3. boots[w] \in Seq(BootRec)
    BY Known DEF CurrentTypeOK
  <2>4. /\ boots' \in [Owners -> Seq(BootRec)] /\ boots'[w] = Append(boots[w], BootBegun)
        /\ \A o \in Owners \ {w} : boots'[o] = boots[o]
    BY <1>6, <2>2, <2>3, Known DEF CurrentTypeOK
  <2>5. CurrentTypeOK'
    BY <1>2, <1>6, <2>1, <2>4, Known DEF CurrentTypeOK
  <2>6. /\ Len(boots'[w]) = Len(boots[w]) + 1 /\ Len(boots[w]) \in Nat
        /\ boots'[w][Len(boots[w]) + 1] = BootBegun
        /\ \A k \in 1 .. Len(boots[w]) : boots'[w][k] = boots[w][k] /\ boots[w][k].state = "passed"
    BY <1>6, <2>2, <2>3, <2>4 DEF LatchesHold, LatchesPass
  <2>7. Books(w)'
    <3> SUFFICES ASSUME NEW k \in 1 .. Len(boots[w]) + 1
                 PROVE  /\ boots'[w][k].state = "passed" =>
                             /\ boots'[w][k].seen.by = boots'[w][k].serve
                             /\ boots'[w][k].seen.mark > signed'[w].mark
                        /\ k < Len(boots[w]) + 1 => boots'[w][k].state = "passed"
                        /\ boots'[w][k].clean => boots'[w][k].left \subseteq Transient
      BY <1>2, <1>6, <2>6 DEF Books
    <3>1. CASE k = Len(boots[w]) + 1
      BY <2>2, <2>6, <3>1
    <3>2. CASE k \in 1 .. Len(boots[w])
      BY <1>2, <1>4, <2>6, <3>2 DEF Books
    <3> QED BY <2>6, <3>1, <3>2
  <2>8. HoldsMutex(p)'
    <3>1. ~New(p)' /\ job'[p].tool # "none"
      BY <1>1, <2>1 DEF New
    <3>2. HoldsMutex(p) /\ mutex' = mutex
      BY <1>6, Known
    <3>3. /\ mutex'[MutexOf(job'[p].tool)] = p
          /\ job'[p].owner = Prior <=> job'[p].tool = "successor"
      BY <1>1, <2>1, <3>2 DEF HoldsMutex
    <3>4. job'[p].at \in BootPlaces
      BY <2>1 DEF BootPlaces
    <3> QED BY <3>1, <3>3, <3>4 DEF HoldsMutex
  <2>9. OwnsWork(p)'
    BY <1>1, <2>1 DEF OwnsWork, New
  <2>10. OwnsBoot(p)'
    <3>1. Owner(p)' = w /\ up'[w] = {} /\ boots'[w] # <<>>
      BY <1>2, <1>3, <1>6, <2>1, <2>2, <2>3, <2>4 DEF Owner, ReadyToStart
    <3> QED BY <2>1, <3>1 DEF OwnsBoot, Admitted
  <2>11. Alone(p)'
    BY <1>2, <1>6 DEF Alone, ActiveEpochs, ReadyToStart
  <2>12. \A o \in Owners \ {Owner(p)} : SameFor(o)
    BY <1>2, <1>3, <2>4 DEF SameFor
  <2> QED BY <1>1, <1>2, <1>3, <1>6, <2>1, <2>5, <2>7, <2>8, <2>9, <2>10, <2>11, <2>12, StepInv DEF Claim
<1> QED BY <1>3, <1>5, <1>6 DEF AdmitBoot

LEMMA StartStoreInv ==
  ASSUME CurrentInv, NEW p \in Procs, StartStore(p)
  PROVE  CurrentInv'
<1>1. job[p].at \in {"pg", "redis"} /\ Boot(p) /\ Admitted(p) /\ job[p].tool # "none" /\ ~New(p)
  BY ToolAt DEF StartStore, DataParts, BootPlaces
<1>2. PICK w \in Owners : w = Owner(p)
  BY Known
<1>3. job[p].clean => up[w] \subseteq Range(job[p].started) \cup Transient
  BY <1>1, <1>2, Known DEF OwnsBoot
<1>4. PICK part \in {"pg", "redis"} : part = job[p].at
  BY <1>1
<1>5. PICK step \in {"redis", "state"} : step = IF part = "pg" THEN "redis" ELSE "state"
  OBVIOUS
<1>6. PICK l : l = Append(job[p].started, part)
  OBVIOUS
<1>7. l \in Seq(Parts) /\ Range(l) = Range(job[p].started) \cup {part} /\ part \in Parts
  <2>1. part \in Parts /\ job[p].started \in Seq(Parts)
    BY Known DEF Parts, JobRec
  <2> QED BY <1>6, <2>1, RangeAppend
<1>8. /\ up' = [up EXCEPT ![w] = up[w] \cup {part}]
      /\ job' = [job EXCEPT ![p].started = l, ![p].at = step]
  BY <1>2, <1>4, <1>5, <1>6 DEF StartStore
<1>9. UNCHANGED <<mutex, work, signed, boots, starts, audit, status, altered, tick>>
  BY DEF StartStore, places, stores, others
<1>10. step \in Places /\ step \in BootPlaces /\ step \notin {"serve", "wait", "complete"}
  BY <1>5 DEF Places, BootPlaces
<1>11. job' = [job EXCEPT ![p].at = step, ![p].started = l]
  BY <1>8
<1>12. /\ job' \in [Procs -> JobRec] /\ \A q \in Procs \ {p} : job'[q] = job[q]
       /\ job'[p].tool = job[p].tool /\ job'[p].owner = job[p].owner
       /\ job'[p].at = step /\ job'[p].started = l
       /\ job'[p].held = job[p].held /\ job'[p].seen = job[p].seen
       /\ job'[p].clean = job[p].clean
  BY <1>7, <1>10, <1>11, Known, StartedJob
<1>13. /\ up' \in [Owners -> SUBSET Parts] /\ up'[w] = up[w] \cup {part}
       /\ \A o \in Owners \ {w} : up'[o] = up[o]
  BY <1>7, <1>8, Known DEF CurrentTypeOK
<1>14. job'[p].clean => up'[w] \subseteq Range(job'[p].started) \cup Transient
  BY <1>3, <1>7, <1>12, <1>13
<1>15. starts' \in [Owners -> Nat] /\ audit' \in [Owners -> Nat] /\ status' \in [Owners -> StatusRec]
           /\ up' \in [Owners -> SUBSET Parts]
  BY <1>1, <1>2, <1>9, <1>10, <1>12, <1>13, <1>14, Known DEF CurrentTypeOK
<1> QED BY <1>1, <1>2, <1>9, <1>10, <1>12, <1>13, <1>14, <1>15, BootMid

LEMMA CreateRestoreInv ==
  ASSUME CurrentInv, NEW p \in Procs, CreateRestore(p)
  PROVE  CurrentInv'
<1>1. job[p].at = "restore" /\ Boot(p) /\ Admitted(p) /\ job[p].tool # "none" /\ ~New(p)
  BY ToolAt DEF CreateRestore, Runs, BootPlaces
<1>2. PICK w \in Owners : w = Owner(p)
  BY Known
<1>3. job[p].clean => up[w] \subseteq Range(job[p].started) \cup Transient
  BY <1>1, <1>2, Known DEF OwnsBoot
<1>4. /\ up' = [up EXCEPT ![w] = up[w] \cup {"restore"}]
      /\ job' = [job EXCEPT ![p].at = "verify restore", ![p].round = job[p].round + 1]
      /\ UNCHANGED <<mutex, work, signed, boots, starts, audit, status, altered, tick>>
  BY <1>2 DEF CreateRestore, places, stores, others
<1>5. "verify restore" \in Places /\ "verify restore" \in BootPlaces /\ job[p].round + 1 \in Nat /\ "restore" \in Parts
  <2>1. "verify restore" \in Places /\ "verify restore" \in BootPlaces /\ "restore" \in Parts
    BY DEF Places, BootPlaces, Parts
  <2>2. job[p].round + 1 \in Nat
    BY Known DEF JobRec
  <2> QED BY <2>1, <2>2
<1>6. /\ job' \in [Procs -> JobRec] /\ \A q \in Procs \ {p} : job'[q] = job[q]
      /\ job'[p].tool = job[p].tool /\ job'[p].owner = job[p].owner
      /\ job'[p].at = "verify restore" /\ job'[p].started = job[p].started
      /\ job'[p].held = job[p].held /\ job'[p].seen = job[p].seen
      /\ job'[p].clean = job[p].clean
  BY <1>4, <1>5, Known, RoundJob
<1>7. /\ up' \in [Owners -> SUBSET Parts] /\ up'[w] = up[w] \cup {"restore"}
      /\ \A o \in Owners \ {w} : up'[o] = up[o]
  BY <1>4, <1>5, Known DEF CurrentTypeOK
<1>8. job'[p].clean => up'[w] \subseteq Range(job'[p].started) \cup Transient
  BY <1>3, <1>6, <1>7 DEF Transient
<1>9. starts' \in [Owners -> Nat] /\ audit' \in [Owners -> Nat] /\ status' \in [Owners -> StatusRec]
           /\ up' \in [Owners -> SUBSET Parts]
  BY <1>1, <1>2, <1>4, <1>5, <1>6, <1>7, <1>8, Known DEF CurrentTypeOK
<1>10. job'[p].at \in BootPlaces /\ job'[p].at \notin {"serve", "wait", "complete"}
  BY <1>5, <1>6
<1>11. \A o \in Owners \ {w} : up'[o] = up[o] /\ starts'[o] = starts[o] /\ status'[o] = status[o]
  BY <1>4, <1>7
<1>12. UNCHANGED <<mutex, work, signed, boots, altered, tick>>
  BY <1>4
<1>13. /\ job' \in [Procs -> JobRec] /\ \A q \in Procs \ {p} : job'[q] = job[q]
       /\ job'[p].tool = job[p].tool /\ job'[p].owner = job[p].owner
  BY <1>6
<1> QED BY <1>1, <1>2, <1>8, <1>9, <1>10, <1>11, <1>12, <1>13, BootMid

LEMMA RetainRestoreInv ==
  ASSUME CurrentInv, NEW p \in Procs, RetainRestore(p)
  PROVE  CurrentInv'
<1>1. job[p].at \in {"unrestore", "retain"} /\ Boot(p) /\ Admitted(p) /\ job[p].tool # "none" /\ ~New(p)
  BY ToolAt DEF RetainRestore, Runs, BootPlaces
<1>2. PICK w \in Owners : w = Owner(p)
  BY Known
<1>3. job[p].clean => up[w] \subseteq Range(job[p].started) \cup Transient
  BY <1>1, <1>2, Known DEF OwnsBoot
<1>4. PICK step \in {"cleanup", "catchup", "redis state"} :
        step = IF job[p].at = "retain" THEN "cleanup"
               ELSE IF job[p].round = 1 THEN "catchup" ELSE "redis state"
  OBVIOUS
<1>5. /\ up' = [up EXCEPT ![w] = up[w] \ {"restore"}]
      /\ job' = [job EXCEPT ![p].at = step]
      /\ UNCHANGED <<mutex, work, signed, boots, starts, audit, status, altered, tick>>
  BY <1>2, <1>4 DEF RetainRestore, Goes, places, stores, others
<1>6. step \in Places /\ step \in BootPlaces /\ step \notin {"serve", "wait", "complete"}
  BY <1>4 DEF Places, BootPlaces
<1>7. /\ job' \in [Procs -> JobRec] /\ \A q \in Procs \ {p} : job'[q] = job[q]
      /\ job'[p].tool = job[p].tool /\ job'[p].owner = job[p].owner
      /\ job'[p].at = step /\ job'[p].started = job[p].started
      /\ job'[p].held = job[p].held /\ job'[p].seen = job[p].seen
      /\ job'[p].clean = job[p].clean
  BY <1>5, <1>6, Known, GoesJob
<1>8. /\ up' \in [Owners -> SUBSET Parts] /\ up'[w] = up[w] \ {"restore"}
      /\ \A o \in Owners \ {w} : up'[o] = up[o]
  BY <1>5, Known DEF CurrentTypeOK
<1>9. job'[p].clean => up'[w] \subseteq Range(job'[p].started) \cup Transient
  BY <1>3, <1>7, <1>8
<1>10. starts' \in [Owners -> Nat] /\ audit' \in [Owners -> Nat] /\ status' \in [Owners -> StatusRec]
           /\ up' \in [Owners -> SUBSET Parts]
  BY <1>1, <1>2, <1>5, <1>6, <1>7, <1>8, <1>9, Known DEF CurrentTypeOK
<1>11. job'[p].at \in BootPlaces /\ job'[p].at \notin {"serve", "wait", "complete"}
  BY <1>6, <1>7
<1>12. \A o \in Owners \ {w} : up'[o] = up[o] /\ starts'[o] = starts[o] /\ status'[o] = status[o]
  BY <1>5, <1>8
<1>13. UNCHANGED <<mutex, work, signed, boots, altered, tick>>
  BY <1>5
<1>14. /\ job' \in [Procs -> JobRec] /\ \A q \in Procs \ {p} : job'[q] = job[q]
       /\ job'[p].tool = job[p].tool /\ job'[p].owner = job[p].owner
  BY <1>7
<1> QED BY <1>1, <1>2, <1>9, <1>10, <1>11, <1>12, <1>13, <1>14, BootMid

(* A phase, of a new epoch or of a boot: its worker comes and goes. *)
LEMMA PhaseStep ==
  ASSUME CurrentInv, NEW p \in Procs, job[p].at \in Phases, NEW w \in Owners, w = Owner(p),
         NEW STATE step, NEW STATE b, b \in BOOLEAN, job' = [job EXCEPT ![p].waits = b, ![p].at = step],
         New(p) => step \in NewPlaces, Boot(p) => step \in BootPlaces \ {"serve", "wait", "complete"},
         NEW STATE u, u \in SUBSET Parts, u \subseteq up[w] \cup Transient, up' = [up EXCEPT ![w] = u],
         audit' \in [Owners -> Nat],
         UNCHANGED <<mutex, work, signed, boots, starts, status, altered, tick>>
  PROVE  CurrentInv'
<1>1. Admitted(p) /\ job[p].tool # "none" /\ (New(p) \/ Boot(p)) /\ ~(New(p) /\ Boot(p))
  BY ToolAt DEF Phases, BootPlaces
<1>2. step \in Places
  BY <1>1 DEF Places
<1>3. /\ job' \in [Procs -> JobRec] /\ \A q \in Procs \ {p} : job'[q] = job[q]
      /\ job'[p].tool = job[p].tool /\ job'[p].owner = job[p].owner
      /\ job'[p].at = step /\ job'[p].started = job[p].started
      /\ job'[p].held = job[p].held /\ job'[p].seen = job[p].seen
      /\ job'[p].clean = job[p].clean
  BY <1>2, Known, WaitsJob
<1>4. up' \in [Owners -> SUBSET Parts] /\ up'[w] = u /\ \A o \in Owners \ {w} : up'[o] = up[o]
  BY Known DEF CurrentTypeOK
<1>5. starts' \in [Owners -> Nat] /\ status' \in [Owners -> StatusRec]
  BY Known DEF CurrentTypeOK
<1>6. \A o \in Owners \ {w} : up'[o] = up[o] /\ starts'[o] = starts[o] /\ status'[o] = status[o]
  BY <1>4
<1>7. CASE New(p)
  <2>1. ~Boot(p) /\ job'[p].at \in NewPlaces
    BY <1>1, <1>3, <1>7
  <2> QED BY <1>1, <1>3, <1>4, <1>5, <1>6, <2>1, MidStep
<1>8. CASE Boot(p)
  <2>1. job[p].clean => up[w] \subseteq Range(job[p].started) \cup Transient
    BY <1>1, <1>8, Known DEF OwnsBoot
  <2>2. job'[p].clean => up'[w] \subseteq Range(job'[p].started) \cup Transient
    BY <1>3, <1>4, <2>1
  <2>3. job'[p].at \in BootPlaces /\ job'[p].at \notin {"serve", "wait", "complete"}
    BY <1>3, <1>8
  <2> QED BY <1>1, <1>3, <1>4, <1>5, <1>6, <1>8, <2>2, <2>3, BootMid
<1> QED BY <1>1, <1>7, <1>8

LEMMA WorkerTyped ==
  ASSUME NEW phase
  PROVE  WorkerOf(phase) \in Transient /\ Transient \subseteq Parts
BY DEF WorkerOf, Transient, Parts

LEMMA StartPhaseInv ==
  ASSUME CurrentInv, NEW p \in Procs, StartPhase(p)
  PROVE  CurrentInv'
<1>1. PICK w \in Owners : w = Owner(p)
  BY Known
<1>2. PICK step : step = job[p].at
  OBVIOUS
<1>3. PICK u : u = up[w] \cup {WorkerOf(step)}
  OBVIOUS
<1>4. u \in SUBSET Parts /\ u \subseteq up[w] \cup Transient /\ up[w] \in SUBSET Parts
  BY <1>3, WorkerTyped, Known DEF CurrentTypeOK
<1>5. /\ job[p].at \in Phases /\ up' = [up EXCEPT ![w] = u]
      /\ UNCHANGED <<mutex, work, signed, boots, starts, audit, status, altered, tick>>
  BY <1>1, <1>2, <1>3 DEF StartPhase, places, stores, others
<1>6. job' = [job EXCEPT ![p].waits = TRUE, ![p].at = step]
  <2>1. job \in [Procs -> JobRec] /\ job[p] \in JobRec
    BY Known DEF CurrentTypeOK
  <2>2. [job[p] EXCEPT !.waits = TRUE, !.at = job[p].at] = [job[p] EXCEPT !.waits = TRUE]
    BY <2>1 DEF JobRec
  <2> QED BY <1>2, <2>2 DEF StartPhase
<1>7. New(p) => step \in NewPlaces
  BY <1>2, <1>5, Known DEF HoldsMutex, Phases
<1>8. Boot(p) => step \in BootPlaces \ {"serve", "wait", "complete"}
  BY <1>2, <1>5 DEF Phases, BootPlaces
<1>9. audit' \in [Owners -> Nat] /\ TRUE \in BOOLEAN
  BY <1>5, Known DEF CurrentTypeOK
<1> QED BY <1>1, <1>4, <1>5, <1>6, <1>7, <1>8, <1>9, PhaseStep

LEMMA AuditTyped ==
  ASSUME CurrentTypeOK, NEW o \in Owners, NEW part, NEW last \in AuditAfter(o, part),
         audit' = [audit EXCEPT ![o] = last]
  PROVE  audit' \in [Owners -> Nat]
BY DEF CurrentTypeOK, AuditAfter

LEMMA EndPhaseInv ==
  ASSUME CurrentInv, NEW p \in Procs, EndPhase(p)
  PROVE  CurrentInv'
<1>1. PICK w \in Owners : w = Owner(p)
  BY Known
<1>2. PICK passed \in BOOLEAN, last \in AuditAfter(w, WorkerOf(job[p].at)) :
        /\ job' = [job EXCEPT ![p].waits = FALSE,
                              ![p].at = IF passed THEN StepAfter(p) ELSE FailureStep(p)]
        /\ audit' = [audit EXCEPT ![w] = last]
  BY <1>1 DEF EndPhase
<1>3. PICK step : step = IF passed THEN StepAfter(p) ELSE FailureStep(p)
  OBVIOUS
<1>4. PICK u : u = up[w] \ {WorkerOf(job[p].at)}
  OBVIOUS
<1>5. u \in SUBSET Parts /\ u \subseteq up[w] \cup Transient /\ up[w] \in SUBSET Parts
  BY <1>4, Known DEF CurrentTypeOK
<1>6. /\ job[p].at \in Phases /\ up' = [up EXCEPT ![w] = u]
      /\ UNCHANGED <<mutex, work, signed, boots, starts, status, altered, tick>>
  BY <1>1, <1>4 DEF EndPhase, places, others
<1>7. audit' \in [Owners -> Nat] /\ FALSE \in BOOLEAN
  BY <1>2, Known, AuditTyped
<1>8. New(p) => step \in NewPlaces
  <2>1. New(p) => job[p].at = "catchup" /\ job[p].tool # "boot"
    BY <1>6, Known DEF HoldsMutex, Phases, NewPlaces, New
  <2>2. New(p) => step \in {"serve", "stop owned"}
    BY <1>3, <2>1 DEF StepAfter, FailureStep
  <2> QED BY <2>2 DEF NewPlaces
<1>9. Boot(p) => step \in BootPlaces \ {"serve", "wait", "complete"}
  <2>1. Boot(p) => StepAfter(p) \in {"restore", "unrestore", "post", "recheck"}
    BY <1>6 DEF StepAfter, Phases, Boot
  <2>2. Boot(p) => FailureStep(p) \in {"cleanup", "retain"}
    BY DEF FailureStep, Boot
  <2> QED BY <1>3, <2>1, <2>2 DEF BootPlaces
<1>10. job' = [job EXCEPT ![p].waits = FALSE, ![p].at = step]
  BY <1>2, <1>3
<1> QED BY <1>1, <1>5, <1>6, <1>7, <1>8, <1>9, <1>10, PhaseStep

LEMMA RecheckBeforeServeInv ==
  ASSUME CurrentInv, NEW p \in Procs, RecheckBeforeServe(p)
  PROVE  CurrentInv'
<1>1. job[p].at = "recheck" /\ Boot(p) /\ Admitted(p) /\ job[p].tool # "none" /\ ~New(p)
  BY ToolAt DEF RecheckBeforeServe, Runs, BootPlaces
<1>2. PICK w \in Owners : w = Owner(p)
  BY Known
<1>3. job[p].clean => up[w] \subseteq Range(job[p].started) \cup Transient
  BY <1>1, <1>2, Known DEF OwnsBoot
<1>4. UNCHANGED <<mutex, places, up, starts, stores, others>>
  BY DEF RecheckBeforeServe
<1>5. CASE Failing(p)
  BY <1>1, <1>4, <1>5, BootFails
<1>6. CASE /\ up[w] = DataParts
           /\ job' = [job EXCEPT ![p].at = "serve", ![p].held = status[w]]
  <2>1. "serve" \in Places /\ "serve" \in BootPlaces /\ status[w] \in StatusRec /\ "serve" \notin DataParts
    BY Known DEF Places, BootPlaces, CurrentTypeOK, DataParts
  <2>2. /\ job' \in [Procs -> JobRec] /\ \A q \in Procs \ {p} : job'[q] = job[q]
        /\ job'[p].tool = job[p].tool /\ job'[p].owner = job[p].owner
        /\ job'[p].at = "serve" /\ job'[p].started = job[p].started
        /\ job'[p].held = status[w] /\ job'[p].seen = job[p].seen
        /\ job'[p].clean = job[p].clean
    BY <1>6, <2>1, Known, HeldJob
  <2>3. UNCHANGED <<mutex, work, signed, boots, up, starts, audit, status, altered, tick>>
    BY <1>4 DEF places, stores, others
  <2>4. job'[p].clean => up'[w] \subseteq Range(job'[p].started) \cup Transient
    BY <1>3, <2>2, <2>3
  <2>5. status'[w] = job'[p].held /\ "serve" \notin up'[w]
    BY <1>6, <2>1, <2>2, <2>3
  <2>6. starts' \in [Owners -> Nat] /\ audit' \in [Owners -> Nat] /\ status' \in [Owners -> StatusRec]
           /\ up' \in [Owners -> SUBSET Parts]
    BY <1>1, <1>2, <2>1, <2>2, <2>3, <2>4, <2>5, Known DEF CurrentTypeOK
  <2> QED BY <1>1, <1>2, <2>1, <2>2, <2>3, <2>4, <2>5, <2>6, BootMid
<1> QED BY <1>2, <1>5, <1>6 DEF RecheckBeforeServe

LEMMA BootServeInv ==
  ASSUME CurrentInv, NEW p \in Procs, BootServe(p)
  PROVE  CurrentInv'
<1>1. job[p].at = "serve" /\ Boot(p) /\ Admitted(p) /\ job[p].tool # "none" /\ ~New(p)
  BY ToolAt DEF BootServe, Runs, Boot
<1>2. PICK w \in Owners : w = Owner(p)
  BY Known
<1>3. /\ job[p].clean => up[w] \subseteq Range(job[p].started) \cup Transient
      /\ status[w] = job[p].held
  BY <1>1, <1>2, Known DEF OwnsBoot
<1>4. UNCHANGED <<mutex, work, signed, boots, audit, status, altered, tick>> /\ StartsServe(p, "wait")
  BY DEF BootServe, places, stores, others
<1>5. "wait" \in Places /\ "wait" \in BootPlaces /\ "serve" \in Parts /\ job[p].started \in Seq(Parts)
  BY Known DEF Places, BootPlaces, Parts, JobRec
<1>6. /\ up' \in [Owners -> SUBSET Parts] /\ starts' \in [Owners -> Nat]
      /\ \A o \in Owners \ {w} : up'[o] = up[o] /\ starts'[o] = starts[o]
      /\ up'[w] = up[w] \cup {"serve"}
      /\ job' \in [Procs -> JobRec] /\ \A q \in Procs \ {p} : job'[q] = job[q]
      /\ job'[p].tool = job[p].tool /\ job'[p].owner = job[p].owner
      /\ job'[p].at = "wait" /\ job'[p].started = Append(job[p].started, "serve")
      /\ job'[p].held = job[p].held /\ job'[p].seen = job[p].seen
      /\ job'[p].clean = job[p].clean
  BY <1>2, <1>4, <1>5, StartsServeFacts
<1>7. Range(job'[p].started) = Range(job[p].started) \cup {"serve"}
  BY <1>5, <1>6, RangeAppend
<1>8. job'[p].clean => up'[w] \subseteq Range(job'[p].started) \cup Transient
  BY <1>3, <1>6, <1>7
<1>9. status'[w] = job'[p].held
  BY <1>3, <1>4, <1>6
<1>10. starts' \in [Owners -> Nat] /\ audit' \in [Owners -> Nat] /\ status' \in [Owners -> StatusRec]
           /\ up' \in [Owners -> SUBSET Parts]
  BY <1>1, <1>2, <1>4, <1>5, <1>6, <1>8, <1>9, Known DEF CurrentTypeOK
<1>11. \A o \in Owners \ {w} : up'[o] = up[o] /\ starts'[o] = starts[o] /\ status'[o] = status[o]
  BY <1>4, <1>6
<1>12. UNCHANGED <<mutex, work, signed, boots, altered, tick>>
  BY <1>4
<1>13. /\ job' \in [Procs -> JobRec] /\ \A q \in Procs \ {p} : job'[q] = job[q]
       /\ job'[p].tool = job[p].tool /\ job'[p].owner = job[p].owner /\ job'[p].at = "wait"
  BY <1>6
<1>14. job'[p].at # "serve" /\ job'[p].at # "complete" /\ job'[p].at \in BootPlaces
  BY <1>5, <1>13
<1> QED BY <1>1, <1>2, <1>8, <1>9, <1>10, <1>11, <1>12, <1>13, <1>14, BootMid

LEMMA WaitAdvancedInv ==
  ASSUME CurrentInv, NEW p \in Procs, WaitAdvanced(p)
  PROVE  CurrentInv'
<1>1. job[p].at = "wait" /\ Boot(p) /\ Admitted(p) /\ job[p].tool # "none" /\ ~New(p)
  BY ToolAt DEF WaitAdvanced, Runs, BootPlaces
<1>2. PICK w \in Owners : w = Owner(p)
  BY Known
<1>3. job[p].clean => up[w] \subseteq Range(job[p].started) \cup Transient
  BY <1>1, <1>2, Known DEF OwnsBoot
<1>4. UNCHANGED <<mutex, places, up, starts, stores, others>>
  BY DEF WaitAdvanced
<1>5. CASE Failing(p)
  BY <1>1, <1>4, <1>5, BootFails
<1>6. CASE /\ Look(status[w], signed[w], job[p].held, "serve" \in up[w]) = "advanced"
           /\ job' = [job EXCEPT ![p].at = "complete", ![p].seen = status[w]]
  <2>1. "complete" \in Places /\ "complete" \in BootPlaces /\ status[w] \in StatusRec
    BY Known DEF Places, BootPlaces, CurrentTypeOK
  <2>2. /\ job' \in [Procs -> JobRec] /\ \A q \in Procs \ {p} : job'[q] = job[q]
        /\ job'[p].tool = job[p].tool /\ job'[p].owner = job[p].owner
        /\ job'[p].at = "complete" /\ job'[p].started = job[p].started
        /\ job'[p].held = job[p].held /\ job'[p].seen = status[w]
        /\ job'[p].clean = job[p].clean
    BY <1>6, <2>1, Known, SeenJob
  <2>3. UNCHANGED <<mutex, work, signed, boots, up, starts, audit, status, altered, tick>>
    BY <1>4 DEF places, stores, others
  <2>4. job'[p].clean => up'[w] \subseteq Range(job'[p].started) \cup Transient
    BY <1>3, <2>2, <2>3
  <2>5. status[w] # job[p].held /\ status[w].mark > signed[w].mark
    BY <1>6 DEF Look, LookBeyond
  <2>6. status[w].by = starts[w]
    BY <1>1, <1>2, <2>5, Known DEF OwnsBoot
  <2>7. job'[p].seen.by = starts'[w] /\ job'[p].seen.mark > signed[w].mark
    BY <2>2, <2>3, <2>5, <2>6
  <2>8. starts' \in [Owners -> Nat] /\ audit' \in [Owners -> Nat] /\ status' \in [Owners -> StatusRec]
           /\ up' \in [Owners -> SUBSET Parts]
    BY <1>1, <1>2, <2>1, <2>2, <2>3, <2>4, <2>7, Known DEF CurrentTypeOK
  <2> QED BY <1>1, <1>2, <2>1, <2>2, <2>3, <2>4, <2>7, <2>8, BootMid
<1> QED BY <1>2, <1>5, <1>6 DEF WaitAdvanced

(* The end of a boot: its directory gets its result. *)
LEMMA BootEndsWith ==
  ASSUME CurrentInv, NEW p \in Procs, Boot(p), Admitted(p), NEW w \in Owners, w = Owner(p), Ends(p),
         UNCHANGED <<work, signed, up, starts, stores, others>>,
         NEW STATE r, r \in BootRec, boots' = [boots EXCEPT ![w] = Append(Front(boots[w]), r)],
         r.state = "passed" => r.seen.by = r.serve /\ r.seen.mark > signed[w].mark,
         r.clean => r.left \subseteq Transient
  PROVE  CurrentInv'
<1>1. boots[w] # <<>> /\ boots[w] \in Seq(BootRec) /\ Books(w) /\ job[p].tool # "none"
  BY Known, ToolAt DEF OwnsBoot, CurrentTypeOK
<1>2. /\ Append(Front(boots[w]), r) \in Seq(BootRec) /\ Len(Append(Front(boots[w]), r)) = Len(boots[w])
      /\ Append(Front(boots[w]), r)[Len(boots[w])] = r
      /\ \A k \in 1 .. Len(boots[w]) - 1 : Append(Front(boots[w]), r)[k] = boots[w][k]
  BY <1>1, ReplaceLast
<1>3. /\ boots' \in [Owners -> Seq(BootRec)] /\ boots'[w] = Append(Front(boots[w]), r)
      /\ \A o \in Owners \ {w} : boots'[o] = boots[o]
  BY <1>2, Known DEF CurrentTypeOK
<1>4. UNCHANGED <<work, signed, up, starts, audit, status, altered, tick>>
  BY DEF stores, others
<1>5. /\ Len(boots'[w]) = Len(boots[w]) /\ boots'[w][Len(boots[w])] = r /\ Len(boots[w]) \in Nat
      /\ \A k \in 1 .. Len(boots[w]) - 1 : boots'[w][k] = boots[w][k]
  BY <1>1, <1>2, <1>3
<1>6. Books(w)'
  <2> SUFFICES ASSUME NEW k \in 1 .. Len(boots[w])
               PROVE  /\ boots'[w][k].state = "passed" =>
                           /\ boots'[w][k].seen.by = boots'[w][k].serve
                           /\ boots'[w][k].seen.mark > signed'[w].mark
                      /\ k < Len(boots[w]) => boots'[w][k].state = "passed"
                      /\ boots'[w][k].clean => boots'[w][k].left \subseteq Transient
    BY <1>1, <1>4, <1>5 DEF Books
  <2>1. CASE k = Len(boots[w])
    BY <1>4, <1>5, <2>1
  <2>2. CASE k \in 1 .. Len(boots[w]) - 1
    <3>1. boots'[w][k] = boots[w][k] /\ k \in 1 .. Len(boots[w])
      BY <1>5, <2>2
    <3> QED BY <1>1, <1>4, <3>1 DEF Books
  <2> QED BY <1>5, <2>1, <2>2
<1>7. \A o \in Owners \ {Owner(p)} : SameFor(o)
  BY <1>3, <1>4 DEF SameFor
<1> QED BY ZenonT(40), <1>1, <1>3, <1>4, <1>6, <1>7, EndStep, Known DEF CurrentTypeOK

LEMMA CompleteBootInv ==
  ASSUME CurrentInv, NEW p \in Procs, CompleteBoot(p)
  PROVE  CurrentInv'
<1>1. job[p].at = "complete" /\ Boot(p) /\ Admitted(p) /\ job[p].tool # "none" /\ ~New(p)
  BY ToolAt DEF CompleteBoot, Runs, BootPlaces
<1>2. PICK w \in Owners : w = Owner(p)
  BY Known
<1>3. job[p].clean => up[w] \subseteq Range(job[p].started) \cup Transient
  BY <1>1, <1>2, Known DEF OwnsBoot
<1>4. NoStatus \in StatusRec /\ starts[w] \in Nat /\ up[w] \in SUBSET Parts /\ job[p].seen \in StatusRec
      /\ job[p].clean \in BOOLEAN
  BY Known DEF NoStatus, StatusRec, States, CurrentTypeOK, JobRec
<1>5. PICK b \in BOOLEAN : b = job[p].clean
  BY <1>4
<1> DEFINE r == [[BootBegun EXCEPT !.state = "passed", !.seen = job[p].seen] EXCEPT !.serve = starts[w]]
<1>7. r \in BootRec
  BY <1>4 DEF BootRec, BootBegun
<1>8. r.seen = job[p].seen /\ r.serve = starts[w] /\ ~r.clean
  BY DEF BootBegun
<1>9. boots' = [boots EXCEPT ![w] = Append(Front(boots[w]), r)]
  BY <1>2 DEF CompleteBoot, SaveBoot
<1>10. job[p].seen.by = starts[w] /\ job[p].seen.mark > signed[w].mark
  BY <1>1, <1>2, Known DEF OwnsBoot
<1> HIDE DEF r
<1> QED BY <1>1, <1>2, <1>7, <1>8, <1>9, <1>10, BootEndsWith DEF CompleteBoot

LEMMA FailBootInv ==
  ASSUME CurrentInv, NEW p \in Procs, FailBoot(p)
  PROVE  CurrentInv'
<1>1. job[p].at = "cleanup" /\ Boot(p) /\ Admitted(p) /\ job[p].tool # "none" /\ ~New(p)
  BY ToolAt DEF FailBoot, Runs, BootPlaces
<1>2. PICK w \in Owners : w = Owner(p)
  BY Known
<1>3. job[p].clean => up[w] \subseteq Range(job[p].started) \cup Transient
  BY <1>1, <1>2, Known DEF OwnsBoot
<1>4. NoStatus \in StatusRec /\ starts[w] \in Nat /\ up[w] \in SUBSET Parts /\ job[p].seen \in StatusRec
      /\ job[p].clean \in BOOLEAN
  BY Known DEF NoStatus, StatusRec, States, CurrentTypeOK, JobRec
<1>5. PICK b \in BOOLEAN : b = job[p].clean
  BY <1>4
<1> DEFINE r == [[BootBegun EXCEPT !.state = "failed", !.clean = b, !.left = up[w]] EXCEPT !.serve = starts[w]]
<1>7. r \in BootRec
  BY <1>4 DEF BootRec, BootBegun
<1>8. r.state = "failed" /\ r.left = up[w] /\ r.clean = b
  BY DEF BootBegun
<1>9. boots' = [boots EXCEPT ![w] = Append(Front(boots[w]), r)]
  BY <1>2, <1>5 DEF FailBoot, SaveBoot
<1>10. Range(job[p].started) = {}
  BY DEF FailBoot, Range
<1> HIDE DEF r
<1>11. r.clean => r.left \subseteq Transient
  BY <1>3, <1>5, <1>8, <1>10
<1> QED BY <1>1, <1>2, <1>7, <1>8, <1>9, <1>11, BootEndsWith DEF FailBoot

LEMMA CleanupBootInv ==
  ASSUME CurrentInv, NEW p \in Procs, CleanupBoot(p)
  PROVE  CurrentInv'
<1>1. job[p].at = "cleanup" /\ Boot(p) /\ Admitted(p) /\ job[p].tool # "none" /\ ~New(p)
  BY ToolAt DEF CleanupBoot, Runs, BootPlaces
<1>2. PICK w \in Owners : w = Owner(p)
  BY Known
<1>3. job[p].clean => up[w] \subseteq Range(job[p].started) \cup Transient
  BY <1>1, <1>2, Known DEF OwnsBoot
<1>4. PICK l, part : l = Front(job[p].started) /\ part = Last(job[p].started)
  OBVIOUS
<1>5. l \in Seq(Parts) /\ Range(job[p].started) \subseteq Range(l) \cup {part}
  <2>1. job[p].started \in Seq(Parts) /\ job[p].started # <<>>
    BY Known DEF JobRec, CleanupBoot
  <2> QED BY <1>4, <2>1, FrontIs, RangeFront
<1>6. UNCHANGED <<mutex, work, signed, boots, starts, audit, altered, tick>>
  BY DEF CleanupBoot, places, others
<1>7. CASE /\ up' = [up EXCEPT ![w] = up[w] \ {part}]
           /\ job' = [job EXCEPT ![p].started = l]
           /\ status' = status \/ \E s \in StatusAfterStop(w) : status' = [status EXCEPT ![w] = s]
  <2>1. /\ job' \in [Procs -> JobRec] /\ \A q \in Procs \ {p} : job'[q] = job[q]
        /\ job'[p].tool = job[p].tool /\ job'[p].owner = job[p].owner
        /\ job'[p].at = job[p].at /\ job'[p].started = l
        /\ job'[p].held = job[p].held /\ job'[p].seen = job[p].seen
        /\ job'[p].clean = job[p].clean
    BY <1>5, <1>7, Known, StoppedJob
  <2>2. /\ up' \in [Owners -> SUBSET Parts] /\ up'[w] = up[w] \ {part}
        /\ \A o \in Owners \ {w} : up'[o] = up[o]
    BY <1>7, Known DEF CurrentTypeOK
  <2>3. status' \in [Owners -> StatusRec] /\ \A o \in Owners \ {w} : status'[o] = status[o]
    BY <1>7, Known, StatusTyped DEF CurrentTypeOK
  <2>4. job'[p].clean => up'[w] \subseteq Range(job'[p].started) \cup Transient
    BY <1>3, <1>5, <2>1, <2>2
  <2>5. starts' \in [Owners -> Nat] /\ audit' \in [Owners -> Nat] /\ job'[p].at = "cleanup" /\ "cleanup" \in BootPlaces
    BY <1>1, <1>6, <2>1, Known DEF CurrentTypeOK, BootPlaces
  <2> QED BY <1>1, <1>2, <1>6, <2>1, <2>2, <2>3, <2>4, <2>5, BootMid
<1>8. CASE job' = [job EXCEPT ![p].started = l, ![p].clean = FALSE] /\ UNCHANGED <<up, status>>
  <2>1. /\ job' \in [Procs -> JobRec] /\ \A q \in Procs \ {p} : job'[q] = job[q]
        /\ job'[p].tool = job[p].tool /\ job'[p].owner = job[p].owner
        /\ job'[p].at = job[p].at /\ job'[p].started = l
        /\ job'[p].held = job[p].held /\ job'[p].seen = job[p].seen
        /\ job'[p].clean = FALSE
    BY <1>5, <1>8, Known, UncleanJob
  <2>2. /\ starts' \in [Owners -> Nat] /\ audit' \in [Owners -> Nat] /\ up' \in [Owners -> SUBSET Parts]
        /\ status' \in [Owners -> StatusRec] /\ job'[p].at = "cleanup" /\ "cleanup" \in BootPlaces
    BY <1>1, <1>6, <1>8, <2>1, Known DEF CurrentTypeOK, BootPlaces
  <2> QED BY <1>1, <1>2, <1>6, <1>8, <2>1, <2>2, BootMid
<1> QED BY <1>2, <1>4, <1>7, <1>8 DEF CleanupBoot
-----------------------------------------------------------------------------
(* Failures, serve and everyone else                                       *)

(* What a failing command leaves of the containers. *)
LEMMA CommandLeaves ==
  ASSUME CurrentInv, NEW p \in Procs, CommandFailsCurrent(p), NEW w \in Owners, w = Owner(p)
  PROVE  /\ up' \in [Owners -> SUBSET Parts] /\ starts' \in [Owners -> Nat]
         /\ \A o \in Owners \ {w} : up'[o] = up[o] /\ starts'[o] = starts[o]
         /\ job[p].at \notin {"create", "restart"} =>
               up'[w] \subseteq up[w] \cup Transient \cup ({job[p].at} \cap Full)
<1>1. PICK effect \in BOOLEAN :
        /\ up' = [up EXCEPT ![w] = IF effect THEN Effect(p) ELSE up[w]]
        /\ starts' = [starts EXCEPT ![w] =
                 IF effect /\ job[p].at \in {"serve", "restart"} THEN @ + 1 ELSE @]
  BY DEF CommandFailsCurrent
<1>2. up[w] \in SUBSET Parts /\ starts[w] \in Nat /\ up \in [Owners -> SUBSET Parts] /\ starts \in [Owners -> Nat]
  BY Known DEF CurrentTypeOK
<1> DEFINE x == IF effect THEN Effect(p) ELSE up[w]
<1> DEFINE Fits(y) == /\ y \in SUBSET Parts
                      /\ job[p].at \notin {"create", "restart"} =>
                            y \subseteq up[w] \cup Transient \cup ({job[p].at} \cap Full)
<1>3. Fits(up[w])
  BY <1>2
<1>4. Fits(x)
  <2>1. CASE ~effect
    BY <1>3, <2>1
  <2>2. CASE effect /\ job[p].at \in DataParts \union {"restore"}
    <3>1. x = up[w] \union {job[p].at}
      BY <2>2 DEF DataParts, Effect, Phases
    <3> QED BY <1>2, <2>2, <3>1 DEF DataParts, Parts, Full, Transient
  <2>3. CASE effect /\ job[p].at = "create"
    <3>1. x = DataParts
      BY <2>3 DEF DataParts, Effect, Phases
    <3> QED BY <2>3, <3>1 DEF DataParts, Parts
  <2>4. CASE effect /\ job[p].at \in {"serve", "restart"}
    <3>1. x = up[w] \union {"serve"}
      BY <2>4 DEF DataParts, Effect, Phases
    <3> QED BY <1>2, <2>4, <3>1 DEF Parts, Full
  <2>5. CASE effect /\ job[p].at \in {"unrestore", "retain"}
    <3>1. x = up[w] \ {"restore"}
      BY <2>5 DEF DataParts, Effect, Phases
    <3> QED BY <1>2, <3>1
  <2>6. CASE effect /\ job[p].at \in Phases /\ ~job[p].waits
    <3>1. x = up[w] \union {WorkerOf(job[p].at)}
      BY <2>6 DEF DataParts, Effect, Phases
    <3> QED BY <1>2, <3>1, WorkerTyped
  <2>7. CASE /\ effect /\ ~(job[p].at \in Phases /\ ~job[p].waits)
             /\ job[p].at \notin DataParts \union {"restore", "create", "serve", "restart", "unrestore", "retain"}
    <3>1. x = up[w]
      BY <2>7 DEF Effect
    <3> QED BY <1>3, <3>1
  <2> QED BY <2>1, <2>2, <2>3, <2>4, <2>5, <2>6, <2>7
<1>5. up' = [up EXCEPT ![w] = x]
  BY <1>1
<1> HIDE DEF x
<1>6. up' \in [Owners -> SUBSET Parts] /\ up'[w] = x /\ \A o \in Owners \ {w} : up'[o] = up[o]
  BY <1>2, <1>4, <1>5
<1>7. starts' \in [Owners -> Nat] /\ \A o \in Owners \ {w} : starts'[o] = starts[o]
  BY <1>1, <1>2
<1> QED BY <1>4, <1>6, <1>7

LEMMA CommandFailsInv ==
  ASSUME CurrentInv, NEW p \in Procs, CommandFailsCurrent(p)
  PROVE  CurrentInv'
<1>1. job[p].tool # "none" /\ Admitted(p)
  BY ToolAt DEF CommandFailsCurrent, DataParts, Phases, NewPlaces, BootPlaces
<1>2. PICK w \in Owners : w = Owner(p)
  BY Known
<1>3. UNCHANGED <<mutex, work, signed, boots, audit, status, altered, tick>>
  BY DEF CommandFailsCurrent, places, stores, others
<1>4. /\ up' \in [Owners -> SUBSET Parts] /\ starts' \in [Owners -> Nat]
      /\ \A o \in Owners \ {w} : up'[o] = up[o] /\ starts'[o] = starts[o]
      /\ job[p].at \notin {"create", "restart"} =>
            up'[w] \subseteq up[w] \cup Transient \cup ({job[p].at} \cap Full)
  BY <1>2, CommandLeaves
<1>5. PICK l : l = IF job[p].at \in Full THEN Append(job[p].started, job[p].at) ELSE job[p].started
  OBVIOUS
<1>6. job[p].started \in Seq(Parts) /\ Full \subseteq Parts
  BY Known DEF JobRec, Full, Parts
<1>7. l \in Seq(Parts) /\ Range(l) = Range(job[p].started) \cup ({job[p].at} \cap Full)
  <2>1. CASE job[p].at \in Full
    BY <1>5, <1>6, <2>1, RangeAppend
  <2>2. CASE job[p].at \notin Full
    BY <1>5, <1>6, <2>2
  <2> QED BY <2>1, <2>2
<1>8. PICK step : step = FailureStep(p)
  OBVIOUS
<1>9. /\ New(p) => step = "stop owned" /\ step \in NewPlaces /\ step \in Places
      /\ Boot(p) => step \in {"cleanup", "retain"} /\ step \in BootPlaces /\ step \in Places
      /\ (New(p) \/ Boot(p)) /\ ~(New(p) /\ Boot(p))
  BY <1>1, <1>8, ToolAt DEF FailureStep, New, Boot, NewPlaces, BootPlaces, Places
<1>10. job' = [job EXCEPT ![p].at = step, ![p].waits = FALSE, ![p].started = l]
  BY <1>5, <1>8 DEF CommandFailsCurrent
<1>11. step \in Places
  BY <1>9
<1>12. /\ job' \in [Procs -> JobRec] /\ \A q \in Procs \ {p} : job'[q] = job[q]
       /\ job'[p].tool = job[p].tool /\ job'[p].owner = job[p].owner
       /\ job'[p].at = step /\ job'[p].started = l
       /\ job'[p].held = job[p].held /\ job'[p].seen = job[p].seen
       /\ job'[p].clean = job[p].clean
  BY <1>7, <1>10, <1>11, Known, FailedJob
<1>13. audit' \in [Owners -> Nat] /\ status' \in [Owners -> StatusRec]
  BY <1>3, Known DEF CurrentTypeOK
<1>14. \A o \in Owners \ {w} : up'[o] = up[o] /\ starts'[o] = starts[o] /\ status'[o] = status[o]
  BY <1>3, <1>4
<1>15. CASE New(p)
  <2>1. ~Boot(p) /\ job'[p].at \in NewPlaces
    BY <1>9, <1>12, <1>15
  <2> QED BY <1>1, <1>2, <1>3, <1>4, <1>12, <1>13, <1>14, <2>1, MidStep
<1>16. CASE Boot(p)
  <2>1. job[p].at \notin {"create", "restart"}
    BY <1>16, Known DEF HoldsMutex, BootPlaces
  <2>2. job[p].clean => up[w] \subseteq Range(job[p].started) \cup Transient
    BY <1>1, <1>2, <1>16, Known DEF OwnsBoot
  <2>3. job'[p].clean => up'[w] \subseteq Range(job'[p].started) \cup Transient
    BY <1>4, <1>7, <1>12, <2>1, <2>2
  <2>4. job'[p].at \in {"cleanup", "retain"} /\ job'[p].at \in BootPlaces
    BY <1>9, <1>12, <1>16
  <2> QED BY <1>1, <1>2, <1>3, <1>4, <1>12, <1>13, <1>14, <1>16, <2>3, <2>4, BootMid
<1> QED BY <1>9, <1>15, <1>16

LEMMA ProcessDiesInv ==
  ASSUME CurrentInv, NEW p \in Procs, ProcessDies(p)
  PROVE  CurrentInv'
<1>1. UNCHANGED <<work, signed, boots, up, starts, audit, status, altered, tick>> /\ Ends(p) /\ job[p].tool # "none"
  BY DEF ProcessDies, places, stores, others
<1>2. PICK w \in Owners : w = Owner(p)
  BY Known
<1>3. Books(w)'
  BY <1>1, <1>2, Known, SameBooks
<1>4. \A o \in Owners \ {Owner(p)} : SameFor(o)
  BY <1>1 DEF SameFor
<1> QED BY <1>1, <1>2, <1>3, <1>4, EndStep, Known DEF CurrentTypeOK

LEMMA HostGoesDownInv ==
  ASSUME CurrentInv, HostGoesDown
  PROVE  CurrentInv'
<1>1. UNCHANGED <<work, signed, boots, starts, audit, status, altered, tick>>
  BY DEF HostGoesDown, places, stores, others
<1>2. /\ job' \in [Procs -> JobRec] /\ \A p \in Procs : job'[p] = Idle
      /\ up' \in [Owners -> SUBSET Parts] /\ \A o \in Owners : up'[o] = {}
  BY IdleTyped DEF HostGoesDown
<1>3. mutex' \in [{"successor", "current"} -> Procs \cup {NoProc}]
  BY DEF HostGoesDown, CurrentInv, CurrentTypeOK
<1>4. CurrentTypeOK'
  BY <1>1, <1>2, <1>3 DEF CurrentInv, CurrentTypeOK
<1>5. \A p \in Procs : Claim(p)'
  BY <1>2, IdleTyped DEF Claim, HoldsMutex, OwnsWork, OwnsBoot, Alone, New, Boot
<1>6. \A o \in Owners : Books(o)'
  BY <1>1 DEF CurrentInv, Books
<1>7. OneRuns'
  BY <1>2 DEF OneRuns
<1> QED BY <1>4, <1>5, <1>6, <1>7 DEF CurrentInv

(* A step that no tool takes: containers stop, and serve writes its status. *)
LEMMA EnvKeeps ==
  ASSUME CurrentInv, UNCHANGED <<job, mutex, work, signed, boots, starts>>, CurrentTypeOK',
         \A o \in Owners \ {Prior} : up'[o] \subseteq up[o],
         \A o \in Owners : status'[o] = status[o] \/ ("serve" \in up[o] /\ status'[o].by = starts[o])
  PROVE  CurrentInv'
<1>1. ASSUME NEW p \in Procs PROVE Claim(p)'
  <2>1. HoldsMutex(p)' /\ OwnsWork(p)'
    BY Known DEF HoldsMutex, OwnsWork, New, Boot, Admitted, Owner
  <2>2. Alone(p)'
    BY Known DEF Alone, Admitted, Owner
  <2>3. OwnsBoot(p)'
    <3>1. CASE Boot(p) /\ Admitted(p)
      <4>1. PICK w \in Owners : w = Owner(p)
        BY Known
      <4>2. w # Prior
        BY <3>1, <4>1, Known DEF HoldsMutex, Boot, Owner
      <4>3. /\ boots[w] # <<>>
            /\ job[p].clean => up[w] \subseteq Range(job[p].started) \cup Transient
            /\ job[p].at = "serve" => status[w] = job[p].held /\ "serve" \notin up[w]
            /\ job[p].at = "wait" => status[w] = job[p].held \/ status[w].by = starts[w]
            /\ job[p].at = "complete" => job[p].seen.by = starts[w] /\ job[p].seen.mark > signed[w].mark
        BY <3>1, <4>1, Known DEF OwnsBoot
      <4>4. up'[w] \subseteq up[w] /\ (status'[w] = status[w] \/ ("serve" \in up[w] /\ status'[w].by = starts[w]))
        BY <4>2
      <4>5. Owner(p)' = w
        BY <4>1 DEF Owner
      <4>6. /\ boots'[w] # <<>>
            /\ job'[p].clean => up'[w] \subseteq Range(job'[p].started) \cup Transient
            /\ job'[p].at = "serve" => status'[w] = job'[p].held /\ "serve" \notin up'[w]
            /\ job'[p].at = "wait" => status'[w] = job'[p].held \/ status'[w].by = starts'[w]
            /\ job'[p].at = "complete" => job'[p].seen.by = starts'[w] /\ job'[p].seen.mark > signed'[w].mark
        BY <4>3, <4>4
      <4>7. Boot(p)' /\ Admitted(p)'
        BY <3>1 DEF Boot, Admitted
      <4> QED BY <4>5, <4>6, <4>7 DEF OwnsBoot
    <3>2. CASE Boot(p) /\ ~Admitted(p)
      BY <3>2, Known DEF OwnsBoot, Boot, Admitted
    <3>3. CASE ~Boot(p)
      BY <3>3 DEF OwnsBoot, Boot
    <3> QED BY <3>1, <3>2, <3>3
  <2> QED BY <2>1, <2>2, <2>3 DEF Claim
<1>2. \A o \in Owners : Books(o)'
  BY DEF CurrentInv, Books
<1>3. OneRuns'
  BY DEF CurrentInv, OneRuns
<1> QED BY <1>1, <1>2, <1>3 DEF CurrentInv

LEMMA ServeSaysInv ==
  ASSUME CurrentInv, NEW o \in Owners, ServeSays(o)
  PROVE  CurrentInv'
<1>1. PICK state \in {"running", Pending} :
        /\ audit' = [audit EXCEPT ![o] = IF state = "running" THEN tick ELSE @]
        /\ status' = [status EXCEPT ![o] =
              [by |-> starts[o], state |-> state, mark |-> audit'[o], at |-> tick]]
  BY DEF ServeSays
<1>2. UNCHANGED <<job, mutex, work, signed, boots, up, starts, altered, tick>> /\ "serve" \in up[o]
  BY DEF ServeSays, places, others, Full
<1>3. CurrentTypeOK /\ tick \in Nat /\ starts[o] \in Nat
  BY DEF CurrentInv, CurrentTypeOK
<1>4. audit' \in [Owners -> Nat] /\ audit'[o] \in Nat
  BY <1>1, <1>3 DEF CurrentTypeOK
<1> DEFINE s == [by |-> starts[o], state |-> state, mark |-> audit'[o], at |-> tick]
<1>5. s \in StatusRec /\ s.by = starts[o]
  BY <1>3, <1>4 DEF StatusRec, States, Pending
<1>6. status' = [status EXCEPT ![o] = s]
  BY <1>1
<1> HIDE DEF s
<1>7. status' \in [Owners -> StatusRec] /\ status'[o] = s /\ \A u \in Owners \ {o} : status'[u] = status[u]
  BY <1>3, <1>5, <1>6 DEF CurrentTypeOK
<1>8. CurrentTypeOK'
  BY <1>2, <1>3, <1>4, <1>7 DEF CurrentTypeOK
<1>9. \A u \in Owners : status'[u] = status[u] \/ ("serve" \in up[u] /\ status'[u].by = starts[u])
  BY <1>2, <1>5, <1>7
<1>10. \A u \in Owners \ {Prior} : up'[u] \subseteq up[u]
  BY <1>2
<1> QED BY <1>2, <1>8, <1>9, <1>10, EnvKeeps

LEMMA ServeFailsClosedInv ==
  ASSUME CurrentInv, NEW o \in Owners, ServeFailsClosed(o)
  PROVE  CurrentInv'
<1> DEFINE s == [by |-> starts[o], state |-> "failed", mark |-> audit[o], at |-> tick]
<1>1. up' = [up EXCEPT ![o] = up[o] \ {"serve"}] /\ status' = [status EXCEPT ![o] = s]
  BY DEF ServeFailsClosed
<1>2. UNCHANGED <<job, mutex, work, signed, boots, starts, audit, altered, tick>> /\ "serve" \in up[o]
  BY DEF ServeFailsClosed, places, others
<1>3. CurrentTypeOK /\ tick \in Nat /\ starts[o] \in Nat /\ audit[o] \in Nat
  BY DEF CurrentInv, CurrentTypeOK
<1>4. s \in StatusRec /\ s.by = starts[o]
  BY <1>3 DEF StatusRec, States
<1> HIDE DEF s
<1>5. status' \in [Owners -> StatusRec] /\ status'[o] = s /\ \A u \in Owners \ {o} : status'[u] = status[u]
  BY <1>1, <1>3, <1>4 DEF CurrentTypeOK
<1>6. up' \in [Owners -> SUBSET Parts] /\ \A u \in Owners : up'[u] \subseteq up[u]
  BY <1>1, <1>3 DEF CurrentTypeOK
<1>7. CurrentTypeOK'
  BY <1>2, <1>3, <1>5, <1>6 DEF CurrentTypeOK
<1>8. \A u \in Owners : status'[u] = status[u] \/ ("serve" \in up[u] /\ status'[u].by = starts[u])
  BY <1>2, <1>4, <1>5
<1> QED BY <1>2, <1>6, <1>7, <1>8, EnvKeeps

LEMMA EpochStoppedInv ==
  ASSUME CurrentInv, NEW o \in Owners, EpochStopped(o)
  PROVE  CurrentInv'
<1>1. UNCHANGED <<job, mutex, work, signed, boots, starts, audit, altered, tick>>
  BY DEF EpochStopped, places, others
<1>2. CurrentTypeOK
  BY DEF CurrentInv
<1>3. up' \in [Owners -> SUBSET Parts] /\ \A u \in Owners : up'[u] \subseteq up[u]
  BY <1>2 DEF EpochStopped, CurrentTypeOK
<1>4. /\ status' \in [Owners -> StatusRec]
      /\ \A u \in Owners : status'[u] = status[u] \/ ("serve" \in up[u] /\ status'[u].by = starts[u])
  <2>2. CASE \E s \in StatusAfterStop(o) :
               status' = [status EXCEPT ![o] = IF "serve" \in up[o] THEN s ELSE @]
    <3>1. PICK s \in StatusAfterStop(o) :
            status' = [status EXCEPT ![o] = IF "serve" \in up[o] THEN s ELSE status[o]]
      BY <2>2
    <3>2. s \in StatusRec /\ (s = status[o] \/ s.by = starts[o]) /\ status[o] \in StatusRec
      BY <1>2, StatusTyped DEF CurrentTypeOK
    <3>3. CASE "serve" \in up[o]
      <4>1. status' = [status EXCEPT ![o] = s]
        BY <3>1, <3>3
      <4>2. /\ status' \in [Owners -> StatusRec] /\ status'[o] = s
            /\ \A u \in Owners \ {o} : status'[u] = status[u]
        BY <1>2, <3>2, <4>1 DEF CurrentTypeOK
      <4> QED BY <3>2, <3>3, <4>2
    <3>4. CASE "serve" \notin up[o]
      <4>1. status' = [status EXCEPT ![o] = status[o]]
        BY <3>1, <3>4
      <4> QED BY <1>2, <4>1 DEF CurrentTypeOK
    <3> QED BY <3>3, <3>4
  <2> QED BY <2>2 DEF EpochStopped
<1>5. CurrentTypeOK'
  BY <1>1, <1>2, <1>3, <1>4 DEF CurrentTypeOK
<1> QED BY <1>1, <1>3, <1>4, <1>5, EnvKeeps

LEMMA TransientEndsInv ==
  ASSUME CurrentInv, NEW o \in Owners, TransientEnds(o)
  PROVE  CurrentInv'
<1>1. UNCHANGED <<job, mutex, work, signed, boots, starts, status, altered, tick>>
  BY DEF TransientEnds, places, others
<1>2. PICK part : /\ up' = [up EXCEPT ![o] = up[o] \ {part}]
                  /\ \E last \in AuditAfter(o, part) : audit' = [audit EXCEPT ![o] = last]
  BY DEF TransientEnds
<1>3. up' \in [Owners -> SUBSET Parts] /\ \A u \in Owners : up'[u] \subseteq up[u]
  BY <1>2 DEF CurrentInv, CurrentTypeOK
<1>4. audit' \in [Owners -> Nat]
  BY <1>2, AuditTyped DEF CurrentInv
<1>5. CurrentTypeOK'
  BY <1>1, <1>3, <1>4 DEF CurrentInv, CurrentTypeOK
<1> QED BY <1>1, <1>3, <1>5, EnvKeeps

LEMMA OthersActInv ==
  ASSUME CurrentInv, OthersAct
  PROVE  CurrentInv'
<1>1. UNCHANGED <<job, mutex, work, signed, boots, starts, audit, status, tick>>
  BY DEF OthersAct, places, stores
<1>2. CurrentTypeOK /\ DataParts \in SUBSET Parts
  BY DEF CurrentInv, DataParts, Parts
<1>3. up' \in [Owners -> SUBSET Parts] /\ \A u \in Owners \ {Prior} : up'[u] \subseteq up[u]
  BY <1>2, CurrentAssumption DEF OthersAct, CurrentTypeOK
<1>4. altered' \in SUBSET Inputs
  BY <1>2 DEF OthersAct, CurrentTypeOK
<1>5. CurrentTypeOK'
  BY <1>1, <1>2, <1>3, <1>4 DEF CurrentTypeOK
<1> QED BY <1>1, <1>3, <1>5, EnvKeeps

LEMMA ClockTicksInv ==
  ASSUME CurrentInv, ClockTicks
  PROVE  CurrentInv'
<1>1. UNCHANGED <<job, mutex, work, signed, boots, up, starts, audit, status, altered>> /\ tick' = tick + 1
  BY DEF ClockTicks, places, stores
<1>2. CurrentTypeOK'
  BY <1>1 DEF CurrentInv, CurrentTypeOK
<1> QED BY <1>1, <1>2, EnvKeeps
-----------------------------------------------------------------------------
(* Every step                                                              *)

LEMMA CurrentInitInv == CurrentInit => CurrentInv
<1> SUFFICES ASSUME CurrentInit PROVE CurrentInv
  OBVIOUS
<1>1. \A p \in Procs : job[p] = Idle
  BY DEF CurrentInit
<1>2. \A o \in Owners : boots[o] = <<>> /\ up[o] = {}
  BY DEF CurrentInit
<1>3. CurrentTypeOK
  <2>1. NoStatus \in StatusRec
    BY DEF NoStatus, StatusRec, States
  <2>2. job \in [Procs -> JobRec] /\ mutex \in [{"successor", "current"} -> Procs \cup {NoProc}]
    BY IdleTyped DEF CurrentInit
  <2>3. work \in [Owners -> {"absent", "begun", "failed", "passed"}]
    BY DEF CurrentInit
  <2>4. signed \in [Owners -> StatusRec] /\ status \in [Owners -> StatusRec]
    BY <2>1 DEF CurrentInit
  <2>5. boots \in [Owners -> Seq(BootRec)] /\ up \in [Owners -> SUBSET Parts]
    BY DEF CurrentInit
  <2>6. /\ starts \in [Owners -> Nat] /\ audit \in [Owners -> Nat]
        /\ altered \in SUBSET Inputs /\ tick \in Nat
    BY DEF CurrentInit
  <2> QED BY <2>2, <2>3, <2>4, <2>5, <2>6 DEF CurrentTypeOK
<1>4. \A p \in Procs : Claim(p)
  BY <1>1, IdleTyped DEF Claim, HoldsMutex, OwnsWork, OwnsBoot, Alone, New, Boot
<1>5. \A o \in Owners : Books(o)
  <2> SUFFICES ASSUME NEW o \in Owners PROVE Books(o)
    OBVIOUS
  <2>1. boots[o] = <<>> /\ 1 .. Len(boots[o]) = {}
    BY <1>2
  <2> QED BY <2>1 DEF Books
<1>6. OneRuns
  BY <1>2 DEF OneRuns
<1> QED BY <1>3, <1>4, <1>5, <1>6 DEF CurrentInv

LEMMA NewEpochStepInv ==
  ASSUME CurrentInv, NEW p \in Procs, NewEpochStep(p)
  PROVE  CurrentInv'
BY InvokeInv, AdmitNewInv, PinPreservedInv, CreateStoresInv, StartPhaseInv, EndPhaseInv, FirstServeInv, FirstStatusInv, StopForRestartInv,
   RestartInv, PollAdvancedInv, VerifyPreservedInv, FinalStatusInv, WaitPendingInv, SaveRunReceiptInv,
   StopOwnedInv DEF NewEpochStep

LEMMA BootStepInv ==
  ASSUME CurrentInv, NEW p \in Procs, BootStep(p)
  PROVE  CurrentInv'
BY AdmitBootInv, StartStoreInv, CreateRestoreInv, RetainRestoreInv, RecheckBeforeServeInv,
   BootServeInv, WaitAdvancedInv, CompleteBootInv, CleanupBootInv, FailBootInv DEF BootStep

LEMMA CurrentStutter ==
  ASSUME CurrentInv, UNCHANGED currentVars
  PROVE  CurrentInv'
<1>1. UNCHANGED <<job, mutex, work, signed, boots, up, starts, audit, status, altered, tick>>
  BY DEF currentVars, places, stores, others
<1>2. CurrentTypeOK'
  BY <1>1 DEF CurrentInv, CurrentTypeOK
<1> QED BY <1>1, <1>2, EnvKeeps

LEMMA CurrentNextInv == CurrentInv /\ [CurrentNext]_currentVars => CurrentInv'
<1> SUFFICES ASSUME CurrentInv, [CurrentNext]_currentVars PROVE CurrentInv'
  OBVIOUS
<1>1. CASE \E p \in Procs : NewEpochStep(p) \/ BootStep(p) \/ CommandFailsCurrent(p) \/ ProcessDies(p)
  BY <1>1, NewEpochStepInv, BootStepInv, CommandFailsInv, ProcessDiesInv
<1>2. CASE \E o \in Owners : ServeSays(o) \/ ServeFailsClosed(o) \/ EpochStopped(o) \/ TransientEnds(o)
  BY <1>2, ServeSaysInv, ServeFailsClosedInv, EpochStoppedInv, TransientEndsInv
<1>3. CASE HostGoesDown
  BY <1>3, HostGoesDownInv
<1>4. CASE OthersAct
  BY <1>4, OthersActInv
<1>5. CASE ClockTicks
  BY <1>5, ClockTicksInv
<1>6. CASE UNCHANGED currentVars
  BY <1>6, CurrentStutter
<1> QED BY <1>1, <1>2, <1>3, <1>4, <1>5, <1>6 DEF CurrentNext

(* Whatever is killed, stopped or fails, and in whatever order the tools are
   invoked: a tool holds its mutex, a new epoch its work directory, a boot the
   last boot directory of its owner and the list of what it started; no other
   current epoch runs beside an admitted tool. *)
THEOREM CurrentKeepsInv == CurrentSpec => []CurrentInv
BY CurrentInitInv, CurrentNextInv, PTL DEF CurrentSpec

(* A boot directory says only what was earned: a completed boot (main of
   runtime_epoch_current_boot.py saves its receipt after
   wait_for_advanced_status) saw a status of the serve it started itself,
   beyond the signed watermark; nothing follows a boot that did not complete;
   a failed boot that claims its cleanup left none of the epoch's database,
   Redis and serve running, but at most a restore's clone and a worker that
   end by themselves; and at most one current epoch runs. *)
THEOREM BootIsEarnedTheorem == CurrentSpec => []BootIsEarned
BY CurrentKeepsInv, EarnedFromInv, PTL
=============================================================================

---------------------------- MODULE BoundedBuild ----------------------------
(***************************************************************************)
(* The two synthetic BuildKit qualifications: the Compose adapter          *)
(* scripts/bounded_build.py and the direct qualifier                       *)
(* scripts/buildkit_resource_gate.py.  Both own one throw-away BuildKit    *)
(* server, show that a cancelled build really stops its workers inside the *)
(* server, and clean up after themselves; a create-only lease they share   *)
(* keeps every other invocation out until the cleanup is proven.           *)
(*                                                                         *)
(* Each docker command may succeed, fail, or take effect and lose its      *)
(* answer; its process tree on the host may end unproven; the daemon may   *)
(* finish a create after its client is gone, a build session that lost its *)
(* client may still export an image, and the server or the script itself   *)
(* may die.  MaxFaults bounds how many of these happen.                    *)
(***************************************************************************)
EXTENDS Naturals, FiniteSets, Sequences

CONSTANTS
    Compose,        \* invocations of bounded_build.py
    Direct,         \* invocations of buildkit_resource_gate.py
    NoInvocation,
    MaxFaults       \* bound on the failures of one behaviour

ASSUME BuildAssumption ==
    /\ Compose \cap Direct = {}
    /\ NoInvocation \notin Compose \cup Direct
    /\ MaxFaults \in Nat

Invocations == Compose \cup Direct

(***************************************************************************)
(* What one invocation does, in order.  The registration of a private      *)
(* builder and the image belong to the Compose adapter: the direct         *)
(* qualifier builds into a directory of its server.                        *)
(***************************************************************************)
RunPhases(i) ==
    <<"prepare", "baseline", "scope", "create", "start", "ready", "cgroup", "mounts">>
    \o (IF i \in Compose THEN <<"capacity", "fixture", "register", "image">>
        ELSE <<"fixture">>)
    \o <<"success", "fault", "cancel", "workers", "stimulus", "wait", "daemon",
         "fresh", "sources">>

CleanupPhases(i) ==
    IF i \in Compose
    THEN <<"clients", "find", "stop", "rm", "builder", "images", "rmi", "inventory",
           "trees">>
    ELSE <<"find", "stop", "rm", "inventory">>

VARIABLES
    lease,      \* who holds execution.lease
    at,         \* phase of each invocation
    object,     \* its attributes: what the controller remembers
    server,     \* its container: "absent", "created", "running", "exited"
    pending,    \* the daemon may still finish a create it never answered
    builder,    \* its registration in the private buildx configuration
    images,     \* the images that carry its labels
    session,    \* a build without a client that may still export an image
    client,     \* the client of the cancelled build
    workers,    \* the processes of the cancelled build inside the server
    unproven,   \* some CLI tree was not proven empty
    receipt,    \* "none", "PASS", "FAILED"
    foreign,    \* somebody else's docker objects
    faults

vars == <<lease, at, object, server, pending, builder, images, session, client,
          workers, unproven, receipt, foreign, faults>>

daemon == <<server, pending, builder, images, session>>
load == <<client, workers>>
outcome == <<lease, receipt>>

\* Controller.__init__
Fresh == [baseline |-> <<>>, intended |-> FALSE, cid |-> FALSE,
          builder_intended |-> FALSE, image_intended |-> FALSE,
          image_acknowledged |-> FALSE, stimulated |-> FALSE,
          failure |-> FALSE, cleanup |-> FALSE]

Init ==
    /\ lease = NoInvocation
    /\ at = [i \in Invocations |-> "idle"]
    /\ object = [i \in Invocations |-> Fresh]
    /\ server = [i \in Invocations |-> "absent"]
    /\ pending = [i \in Invocations |-> FALSE]
    /\ builder = [i \in Invocations |-> FALSE]
    /\ images = [i \in Invocations |-> {}]
    /\ session = [i \in Invocations |-> FALSE]
    /\ client = [i \in Invocations |-> "none"]
    /\ workers = [i \in Invocations |-> "none"]
    /\ unproven = [i \in Invocations |-> FALSE]
    /\ receipt = [i \in Invocations |-> "none"]
    /\ foreign = 0
    /\ faults = 0

Inventory == <<{i \in Invocations : server[i] # "absent"}, images, foreign>>

-----------------------------------------------------------------------------
(* Control *)

Follows(seq, phase, last) ==
    LET n == CHOOSE k \in DOMAIN seq : seq[k] = phase
    IN  IF n = Len(seq) THEN last ELSE seq[n + 1]

Running(i) == \E k \in DOMAIN RunPhases(i) : RunPhases(i)[k] = at[i]
Cleaning(i) == \E k \in DOMAIN CleanupPhases(i) : CleanupPhases(i)[k] = at[i]

AfterPhase(i) ==
    IF Running(i) THEN Follows(RunPhases(i), at[i], CleanupPhases(i)[1])
    ELSE Follows(CleanupPhases(i), at[i], "cleaned")

Advance(i) == at' = [at EXCEPT ![i] = AfterPhase(i)]

(* The finally of execute(): a failed run is cleaned up, a failed cleanup is
   not tried again, and before the controller exists there is nothing to do. *)
WhenFailed(i) ==
    IF at[i] = "prepare" \/ Cleaning(i) THEN "uncleaned" ELSE CleanupPhases(i)[1]

Remember(i, changes) == object' = [object EXCEPT ![i] = changes]

Fails(i) ==
    /\ at' = [at EXCEPT ![i] = WhenFailed(i)]
    /\ Remember(i, [object[i] EXCEPT !.failure = TRUE])

Fault == faults < MaxFaults /\ faults' = faults + 1

(* bounded_finish may not see the tree of a failed call end. *)
TreeMayStay(i) == \E t \in BOOLEAN : unproven' = [unproven EXCEPT ![i] = @ \/ t]

(* A call whose effect, or its absence, is in the other conjuncts. *)
AnswerLost(i) == Fault /\ Fails(i) /\ TreeMayStay(i)

(* A call that had no effect.  The two calls whose intention is recorded
   first have failures of their own. *)
CallFails(i) ==
    /\ Running(i) \/ Cleaning(i)
    /\ at[i] \notin {"create", "register"}
    /\ AnswerLost(i)
    /\ UNCHANGED <<daemon, load, outcome, foreign>>

(* A check of the code that does not hold: no fault is spent. *)
Refuses(i) ==
    /\ Fails(i)
    /\ UNCHANGED <<daemon, load, outcome, unproven, foreign, faults>>

Checks(i, ok) ==
    IF ok THEN /\ Advance(i)
               /\ UNCHANGED <<object, daemon, load, outcome, unproven, foreign, faults>>
          ELSE Refuses(i)

-----------------------------------------------------------------------------
(* The run *)

(* lease.open("xb"): an existing lease is never adopted or deleted. *)
Acquire(i) ==
    /\ at[i] = "idle"
    /\ lease = NoInvocation
    /\ lease' = i
    /\ at' = [at EXCEPT ![i] = "prepare"]
    /\ UNCHANGED <<object, daemon, load, unproven, receipt, foreign, faults>>

Prepare(i) == at[i] = "prepare" /\ Checks(i, TRUE)

Baseline(i) ==
    /\ at[i] = "baseline"
    /\ Remember(i, [object[i] EXCEPT !.baseline = Inventory])
    /\ Advance(i)
    /\ UNCHANGED <<daemon, load, outcome, unproven, foreign, faults>>

NoServerOfThisScope(i) ==
    /\ at[i] = "scope"
    /\ Checks(i, \A j \in Invocations : server[j] = "absent")

Create(i) ==
    /\ at[i] = "create"
    /\ \/ /\ server' = [server EXCEPT ![i] = "created"]
          /\ Remember(i, [object[i] EXCEPT !.intended = TRUE, !.cid = TRUE])
          /\ Advance(i)
          /\ UNCHANGED <<pending, unproven, faults>>
       \/ /\ Fault
          /\ pending' = [pending EXCEPT ![i] = TRUE]
          /\ Remember(i, [object[i] EXCEPT !.intended = TRUE, !.failure = TRUE])
          /\ at' = [at EXCEPT ![i] = WhenFailed(i)]
          /\ TreeMayStay(i)
          /\ UNCHANGED server
    /\ UNCHANGED <<builder, images, session, load, outcome, foreign>>

Start(i) ==
    /\ at[i] = "start"
    /\ server' = [server EXCEPT ![i] = "running"]
    /\ \/ Advance(i) /\ UNCHANGED <<object, unproven, faults>>
       \/ AnswerLost(i)
    /\ UNCHANGED <<pending, builder, images, session, load, outcome, foreign>>

(* The probes inside the server, before anything is built there. *)
Ready(i) == at[i] = "ready" /\ Checks(i, server[i] = "running")
KernelBounds(i) == at[i] = "cgroup" /\ Checks(i, server[i] = "running")
EffectiveMounts(i) == at[i] = "mounts" /\ Checks(i, server[i] = "running")
Capacity(i) == at[i] = "capacity" /\ Checks(i, server[i] = "running")
Fixture(i) == at[i] = "fixture" /\ Checks(i, server[i] = "running")

Register(i) ==
    /\ at[i] = "register"
    /\ \/ /\ builder' = [builder EXCEPT ![i] = TRUE]
          /\ Advance(i)
          /\ Remember(i, [object[i] EXCEPT !.builder_intended = TRUE])
          /\ UNCHANGED <<unproven, faults>>
       \/ /\ Fault
          /\ \E done \in BOOLEAN : builder' = [builder EXCEPT ![i] = done]
          /\ Remember(i, [object[i] EXCEPT !.builder_intended = TRUE, !.failure = TRUE])
          /\ at' = [at EXCEPT ![i] = WhenFailed(i)]
          /\ TreeMayStay(i)
    /\ UNCHANGED <<server, pending, images, session, load, outcome, foreign>>

(* registration(): the private instance is there and nothing else selects it. *)
RegistrationIntact(i) == i \in Compose => builder[i]

NoImageYet(i) ==
    /\ at[i] = "image"
    /\ IF images[i] = {}
       THEN /\ Remember(i, [object[i] EXCEPT !.image_intended = TRUE])
            /\ Advance(i)
            /\ UNCHANGED <<daemon, load, outcome, unproven, foreign, faults>>
       ELSE Refuses(i)

(* Both successful builds.  When the client is lost the server may go on:
   the session may still export. *)
Build(i) ==
    /\ at[i] \in {"success", "fresh"}
    /\ \/ /\ server[i] # "running" \/ ~RegistrationIntact(i)
          /\ Refuses(i)
       \/ /\ server[i] = "running" /\ RegistrationIntact(i)
          /\ images' = [images EXCEPT ![i] = IF i \in Compose THEN @ \cup {at[i]} ELSE @]
          /\ Advance(i)
          /\ Remember(i, [object[i] EXCEPT !.image_acknowledged = i \in Compose])
          /\ UNCHANGED <<server, pending, builder, session, load, outcome,
                         unproven, foreign, faults>>
       \/ /\ server[i] = "running"
          /\ i \in Compose
          /\ AnswerLost(i)
          /\ session' = [session EXCEPT ![i] = TRUE]
          /\ UNCHANGED <<server, pending, builder, images, load, outcome, foreign>>

FaultRejected(i) == at[i] = "fault" /\ Checks(i, server[i] = "running")

StartCancel(i) ==
    /\ at[i] = "cancel"
    /\ IF server[i] = "running"
       THEN /\ client' = [client EXCEPT ![i] = "running"]
            /\ \/ Advance(i) /\ UNCHANGED <<object, unproven, faults>>
               \/ i \in Direct /\ AnswerLost(i)
            /\ UNCHANGED <<daemon, workers, outcome, foreign>>
       ELSE Refuses(i)

(* Only the adapter polls its client while it waits for the workers. *)
SeeWorkers(i) ==
    /\ at[i] = "workers"
    /\ \/ workers[i] = "alive" /\ server[i] = "running" /\ Checks(i, TRUE)
       \/ server[i] # "running" /\ Refuses(i)
       \/ i \in Compose /\ client[i] = "exited" /\ Refuses(i)

(* TERM to the transports, then a forced disconnect of those that remain;
   the direct qualifier sends TERM to the client it identified. *)
Stimulus(i) ==
    /\ at[i] = "stimulus"
    /\ IF server[i] = "running" /\ client[i] = "running"
       THEN /\ Remember(i, [object[i] EXCEPT !.stimulated = TRUE])
            /\ Advance(i)
            /\ UNCHANGED <<daemon, load, outcome, unproven, foreign, faults>>
       ELSE Refuses(i)

(* mutant: the exit of the client is taken for the end of its workers *)
CancellationByClientExit(i) == client[i] = "exited" /\ server[i] = "running"

(* The client failed, no worker is left and the very workers seen before
   are gone; all of it is asked inside the running server. *)
CancellationProven(i) ==
    /\ client[i] = "exited"
    /\ workers[i] # "alive"
    /\ server[i] = "running"

AwaitCancelled(i) ==
    /\ at[i] = "wait"
    /\ \/ CancellationProven(i) /\ Checks(i, TRUE)
       \/ server[i] # "running" /\ Refuses(i)

DaemonStillRuns(i) == at[i] = "daemon" /\ Checks(i, server[i] = "running")
SourcesUnchanged(i) == at[i] = "sources" /\ Checks(i, server[i] = "running")

RunStep(i) ==
    \/ Acquire(i) \/ Prepare(i) \/ Baseline(i) \/ NoServerOfThisScope(i) \/ Create(i)
    \/ Start(i) \/ Ready(i) \/ KernelBounds(i) \/ EffectiveMounts(i) \/ Capacity(i)
    \/ Fixture(i) \/ Register(i) \/ NoImageYet(i) \/ Build(i)
    \/ FaultRejected(i) \/ StartCancel(i) \/ SeeWorkers(i) \/ Stimulus(i)
    \/ AwaitCancelled(i) \/ DaemonStillRuns(i) \/ SourcesUnchanged(i)

-----------------------------------------------------------------------------
(* Controller.cleanup *)

(* The server is stopped before the images are listed: a session that lost
   its client ends with the server, so no image can appear afterwards. *)
EndServer(i, state) ==
    /\ server' = [server EXCEPT ![i] = state]
    /\ session' = [session EXCEPT ![i] = FALSE]
    /\ workers' = [workers EXCEPT ![i] = IF @ = "alive" THEN "ended with server" ELSE @]
    /\ client' = [client EXCEPT ![i] = IF @ = "running" THEN "exited" ELSE @]

(* process.finish(cancel=True) of every process; a tree that cannot be proven
   ended is remembered and the cleanup goes on. *)
EndClients(i) ==
    /\ at[i] = "clients"
    /\ client' = [client EXCEPT ![i] = IF @ = "running" THEN "exited" ELSE @]
    /\ Advance(i)
    /\ \/ UNCHANGED <<unproven, faults>>
       \/ client[i] = "running" /\ Fault /\ unproven' = [unproven EXCEPT ![i] = TRUE]
    /\ UNCHANGED <<object, daemon, workers, outcome, foreign>>

(* mutant: no row is taken for a container that was never created *)
FindServerOrNone(i) ==
    /\ at[i] = "find"
    /\ Remember(i, [object[i] EXCEPT !.cid = @ \/ server[i] # "absent"])
    /\ Advance(i)
    /\ UNCHANGED <<daemon, load, outcome, unproven, foreign, faults>>

(* A create without an answer: exactly one container carries the labels, or
   its outcome is unknown and the lease stays. *)
FindServer(i) ==
    /\ at[i] = "find"
    /\ IF object[i].intended /\ ~object[i].cid /\ server[i] = "absent"
       THEN Refuses(i)
       ELSE /\ Remember(i, [object[i] EXCEPT !.cid = @ \/ object[i].intended])
            /\ Advance(i)
            /\ UNCHANGED <<daemon, load, outcome, unproven, foreign, faults>>

StopServer(i) ==
    /\ at[i] = "stop"
    /\ IF object[i].cid
       THEN /\ EndServer(i, "exited")
            /\ \/ Advance(i) /\ UNCHANGED <<object, unproven, faults>>
               \/ AnswerLost(i)
            /\ UNCHANGED <<pending, builder, images, outcome, foreign>>
       ELSE Checks(i, TRUE)

RemoveServer(i) ==
    /\ at[i] = "rm"
    /\ IF object[i].cid
       THEN /\ server' = [server EXCEPT ![i] = "absent"]
            /\ \/ Advance(i) /\ UNCHANGED <<object, unproven, faults>>
               \/ AnswerLost(i)
            /\ UNCHANGED <<pending, builder, images, session, load, outcome, foreign>>
       ELSE Checks(i, TRUE)

RemoveBuilder(i) ==
    /\ at[i] = "builder"
    /\ IF ~object[i].builder_intended THEN Checks(i, TRUE)
       ELSE IF ~RegistrationIntact(i) THEN Refuses(i)
       ELSE /\ builder' = [builder EXCEPT ![i] = FALSE]
            /\ \/ Advance(i) /\ UNCHANGED <<object, unproven, faults>>
               \/ AnswerLost(i)
            /\ UNCHANGED <<server, pending, images, session, load, outcome, foreign>>

(* owned_images(): an image that was intended, never acknowledged and not
   found has an unknown outcome. *)
ListImages(i) ==
    /\ at[i] = "images"
    /\ Checks(i, object[i].image_intended /\ images[i] = {} => object[i].image_acknowledged)

RemoveImages(i) ==
    /\ at[i] = "rmi"
    /\ IF object[i].image_intended
       THEN /\ images' = [images EXCEPT ![i] = {}]
            /\ \/ Advance(i) /\ UNCHANGED <<object, unproven, faults>>
               \/ AnswerLost(i)
            /\ UNCHANGED <<server, pending, builder, session, load, outcome, foreign>>
       ELSE Checks(i, TRUE)

SameInventory(i) == at[i] = "inventory" /\ Checks(i, Inventory = object[i].baseline)
TreesProven(i) == at[i] = "trees" /\ Checks(i, ~unproven[i])

CleanupStep(i) ==
    \/ EndClients(i) \/ FindServer(i) \/ StopServer(i) \/ RemoveServer(i)
    \/ RemoveBuilder(i) \/ ListImages(i) \/ RemoveImages(i) \/ SameInventory(i) \/ TreesProven(i)

(* The receipt is written first; then the lease is freed after a proven
   cleanup, even when the run itself failed. *)
Report(i) ==
    /\ at[i] \in {"cleaned", "uncleaned"}
    /\ receipt' = [receipt EXCEPT ![i] =
            IF at[i] = "cleaned" /\ ~object[i].failure THEN "PASS" ELSE "FAILED"]
    /\ at' = [at EXCEPT ![i] = IF at[i] = "cleaned" THEN "release" ELSE "ended"]
    /\ UNCHANGED <<object, daemon, load, lease, unproven, foreign, faults>>

Release(i) ==
    /\ at[i] = "release"
    /\ lease' = IF lease = i THEN NoInvocation ELSE lease
    /\ at' = [at EXCEPT ![i] = "ended"]
    /\ UNCHANGED <<object, daemon, load, receipt, unproven, foreign, faults>>

-----------------------------------------------------------------------------
(* What happens around an invocation *)

Active(i) == at[i] \notin {"idle", "ended", "dead"}

Dies(i) ==
    /\ Active(i)
    /\ Fault
    /\ at' = [at EXCEPT ![i] = "dead"]
    /\ UNCHANGED <<object, daemon, load, outcome, unproven, foreign>>

LateCreate(i) ==
    /\ pending[i]
    /\ pending' = [pending EXCEPT ![i] = FALSE]
    /\ \/ server' = [server EXCEPT ![i] = "created"]
       \/ UNCHANGED server
    /\ UNCHANGED <<at, object, builder, images, session, load, outcome, unproven,
                   foreign, faults>>

LateExport(i) ==
    /\ session[i] /\ server[i] = "running"
    /\ session' = [session EXCEPT ![i] = FALSE]
    /\ \/ images' = [images EXCEPT ![i] = @ \cup {"late"}]
       \/ UNCHANGED images
    /\ UNCHANGED <<at, object, server, pending, builder, load, outcome, unproven,
                   foreign, faults>>

(* The cancelled build: its workers appear while its client runs, and end
   some time after the client has gone. *)
WorkersStart(i) ==
    /\ client[i] = "running" /\ workers[i] = "none" /\ server[i] = "running"
    /\ workers' = [workers EXCEPT ![i] = "alive"]
    /\ UNCHANGED <<at, object, daemon, client, outcome, unproven, foreign, faults>>

ClientExits(i) ==
    /\ client[i] = "running"
    /\ client' = [client EXCEPT ![i] = "exited"]
    /\ IF object[i].stimulated THEN UNCHANGED faults ELSE Fault
    /\ UNCHANGED <<at, object, daemon, workers, outcome, unproven, foreign>>

WorkersExit(i) ==
    /\ client[i] = "exited" /\ workers[i] = "alive" /\ server[i] = "running"
    /\ workers' = [workers EXCEPT ![i] =
            IF object[i].stimulated THEN "cancelled" ELSE "ended with client"]
    /\ UNCHANGED <<at, object, daemon, client, outcome, unproven, foreign, faults>>

ServerDies(i) ==
    /\ server[i] = "running"
    /\ Fault
    /\ EndServer(i, "exited")
    /\ UNCHANGED <<at, object, pending, builder, images, outcome, unproven, foreign>>

ForeignChange ==
    /\ Fault
    /\ foreign' = 1 - foreign
    /\ UNCHANGED <<at, object, daemon, load, outcome, unproven>>

Around(i) ==
    \/ Dies(i) \/ LateCreate(i) \/ LateExport(i) \/ WorkersStart(i)
    \/ ClientExits(i) \/ WorkersExit(i) \/ ServerDies(i)

Next ==
    \/ \E i \in Invocations :
          RunStep(i) \/ CleanupStep(i) \/ CallFails(i) \/ Report(i) \/ Release(i) \/ Around(i)
    \/ ForeignChange

Spec == Init /\ [][Next]_vars

-----------------------------------------------------------------------------
(* Properties *)

Left(i) ==
    \/ server[i] # "absent"
    \/ pending[i]
    \/ builder[i]
    \/ images[i] # {}
    \/ session[i]
    \/ workers[i] = "alive"
    \/ i \in Compose /\ unproven[i]

(***************************************************************************)
(* Whatever an invocation may still have in docker - a server, even one    *)
(* the daemon creates after its client gave up, a builder, an image a      *)
(* retained session exports late, running workers, a CLI tree of the       *)
(* adapter that was not proven ended - the shared lease is still its own   *)
(* (execute, cleanup), so no other invocation starts beside it.            *)
(***************************************************************************)
LeaseCoversLeftovers == \A i \in Invocations : Left(i) => lease = i

(***************************************************************************)
(* A PASS receipt is written only when the workers of the cancelled build  *)
(* were seen and ended because their client was cancelled - not because    *)
(* the server died or the client had gone by itself - and nothing of the   *)
(* invocation is left (run, cleanup, the receipt in execute).              *)
(***************************************************************************)
PassIsCancellation ==
    \A i \in Invocations :
        receipt[i] = "PASS" => workers[i] = "cancelled" /\ ~Left(i)

=============================================================================

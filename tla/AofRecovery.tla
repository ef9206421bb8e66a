---------------------------- MODULE AofRecovery ----------------------------
(***************************************************************************)
(* scripts/runtime_epoch_redis_recovery.py with its parser                 *)
(* (runtime_epoch_redis_aof.py), its copies (runtime_epoch_redis_aof_      *)
(* clone.py) and the later review of one failed run                        *)
(* (runtime_epoch_redis_adjudication.py).                                  *)
(*                                                                         *)
(* A restarted Redis replays its append-only file, and the commands inside *)
(* a MULTI run with the rights of the default user: with an ACL that gives *)
(* that user none, the publication receipts are gone.  The recovery        *)
(* replays a copy of the file under a candidate ACL (qualification), an    *)
(* operator then installs the ACL and restarts the original, and a second  *)
(* run proves that the original now holds what the copy held               *)
(* (verification).  Neither run stops anybody from writing to Redis.       *)
(***************************************************************************)
EXTENDS Naturals, Sequences, FiniteSets, SequencesExt

CONSTANTS
    Rows,           \* EXPECTED_ROWS: the outbox rows are 1..Rows
    MaxAofWrites,   \* bound on what others do to the original
    MaxAofFaults    \* bound on failing docker calls

ASSUME AofAssumption == Rows \in Nat \ {0} /\ MaxAofWrites \in Nat /\ MaxAofFaults \in Nat

VARIABLES
    original,   \* the running Redis: its file, its memory, its ACL
    backup,     \* BACKUP_VOLUME
    replica,    \* CLONE_VOLUME
    rec,        \* latches, evidence and the run in progress
    awrites, afaults

aofVars == <<original, backup, replica, rec, awrites, afaults>>

ExpectedStream == Rows + 1      \* one duplicate delivery of an earlier qualification

Cmd(op, id, key, msg) == [op |-> op, id |-> id, key |-> key, msg |-> msg]
Xadd(id, msg) == Cmd("xadd", id, 0, msg)
Hset(key, msg, id) == Cmd("hset", id, key, msg)
Bare(op) == Cmd(op, 0, 0, 0)
SetId(id) == Cmd("setid", id, 0, 0)

-----------------------------------------------------------------------------
(* Redis: what replaying a file leaves in memory.  External. *)

(* A key more, or another value of one. *)
Put(f, key, value) == [k \in DOMAIN f \cup {key} |-> IF k = key THEN value ELSE f[k]]

EmptyMemory == [stream |-> <<>>, receipts |-> <<>>, group |-> FALSE, last |-> 0]

Run(m, c) ==
    CASE c.op = "xadd" /\ (\A i \in DOMAIN m.stream : i < c.id)
                        -> [m EXCEPT !.stream = Put(@, c.id, c.msg)]
      [] c.op = "hset" -> [m EXCEPT !.receipts = Put(@, c.key, <<c.msg, c.id>>)]
      [] c.op = "xgroup" -> [m EXCEPT !.group = TRUE]
      [] c.op = "setid" -> [m EXCEPT !.last = c.id]
      [] c.op = "flush" -> EmptyMemory
      [] OTHER -> m

(* A transaction works on memory that only its EXEC makes the server's. *)
ReplayCommand(s, c, rights) ==
    CASE c.op = "multi" -> [s EXCEPT !.multi = TRUE, !.pending = s.memory]
      [] c.op = "exec" -> [s EXCEPT !.multi = FALSE, !.memory = IF s.multi THEN s.pending ELSE @]
      [] c.op \notin {"multi", "exec"} /\ s.multi
                       -> [s EXCEPT !.pending = IF c.op \in rights THEN Run(@, c) ELSE @]
      [] OTHER -> [s EXCEPT !.memory = Run(@, c)]

ReplayStart == [multi |-> FALSE, pending |-> EmptyMemory, memory |-> EmptyMemory]

Replay(log, rights) ==
    LET after[k \in 0..Len(log)] ==
          IF k = 0 THEN ReplayStart ELSE ReplayCommand(after[k - 1], log[k], rights)
    IN  after[Len(log)].memory

(* candidate_acl: the default user, still off, may do what was proven to be
   in the file; in the original ACL it may do nothing. *)
Rights(acl) == IF acl = "candidate" THEN {"xadd", "hset", "xgroup", "setid", "xack"} ELSE {}

-----------------------------------------------------------------------------
(* inventory_bytes *)

(* The pair is of this transaction and of the file, and no receipt is rewritten. *)
ReceiptMatches(s, c) ==
    /\ s.multi
    /\ <<c.msg, c.id>> \in s.tx \cap s.added
    /\ c.key \in DOMAIN s.receipts => s.receipts[c.key] = <<c.msg, c.id>>

ParseCommand(s, c) ==
    CASE c.op = "multi" -> [s EXCEPT !.ok = @ /\ ~s.multi, !.multi = TRUE, !.tx = {},
                                     !.hset = FALSE, !.xadd = FALSE]
      [] c.op = "exec" -> [s EXCEPT !.ok = @ /\ s.multi /\ s.hset = s.xadd, !.multi = FALSE]
      [] c.op = "xadd" -> [s EXCEPT !.ok = @ /\ c.id \notin s.ids, !.ids = @ \cup {c.id},
                                    !.added = @ \cup {<<c.msg, c.id>>},
                                    !.tx = IF s.multi THEN @ \cup {<<c.msg, c.id>>} ELSE @,
                                    !.xadd = @ \/ s.multi]
      [] c.op = "hset" -> [s EXCEPT !.ok = @ /\ ReceiptMatches(s, c), !.hset = TRUE,
                                    !.receipts = Put(@, c.key, <<c.msg, c.id>>)]
      [] c.op \in {"xgroup", "setid", "xack"} -> s
      [] OTHER -> [s EXCEPT !.ok = FALSE]       \* unknown command, torn tail

ParseStart == [ok |-> TRUE, multi |-> FALSE, tx |-> {}, added |-> {}, ids |-> {},
               receipts |-> <<>>, hset |-> FALSE, xadd |-> FALSE]

Parsed(log) ==
    LET after[k \in 0..Len(log)] ==
          IF k = 0 THEN ParseStart ELSE ParseCommand(after[k - 1], log[k])
    IN  after[Len(log)]

Count(log, op) == Cardinality({k \in DOMAIN log : log[k].op = op})

(* validate_aof_inventory *)
InventoryAccepted(log) ==
    LET p == Parsed(log) IN
    /\ log # <<>> /\ p.ok /\ ~p.multi
    /\ Cardinality(DOMAIN p.receipts) = Rows
    /\ Count(log, "hset") = Rows
    /\ Count(log, "xadd") = ExpectedStream
    /\ Count(log, "xgroup") = 1
    /\ Count(log, "setid") >= 1 /\ Count(log, "xack") >= 1

Publications(log) == DOMAIN Parsed(log).receipts

(* The worker's proof: every outbox row has its receipt and its one entry,
   one more entry repeats a row, the group has read to the end. *)
WorkerProof(m) ==
    /\ \A r \in 1..Rows : /\ r \in DOMAIN m.receipts
                          /\ m.receipts[r][1] = r
                          /\ m.receipts[r][2] \in DOMAIN m.stream
                          /\ m.stream[m.receipts[r][2]] = r
    /\ Cardinality({m.receipts[r][2] : r \in 1..Rows}) = Rows
    /\ Cardinality(DOMAIN m.stream) = ExpectedStream
    /\ \A i \in DOMAIN m.stream : m.stream[i] \in 1..Rows
    /\ m.group /\ m.last \in DOMAIN m.stream /\ \A i \in DOMAIN m.stream : i <= m.last

-----------------------------------------------------------------------------
(* A volume: the append-only file, whether its manifest has the end offset
   of a clean shutdown, the root dump.rdb, and the metadata of each. *)

NoVolume == [there |-> FALSE, log |-> <<>>, closed |-> FALSE, rdb |-> 0, stamp |-> 0]

Manifest(v) == [log |-> v.log, closed |-> v.closed, rdb |-> v.rdb, stamp |-> v.stamp]

(* Only the end offset of one reviewed segment may differ. *)
ReviewedSegment == <<Bare("xgroup")>> \o
    FlattenSeq([r \in 1..Rows |-> <<Bare("multi"), Xadd(r, r), Hset(r, r, r), Bare("exec")>>])
    \o <<Xadd(Rows + 1, 1), SetId(Rows + 1), Bare("xack")>>

SameAuthority(v, w) == v.log = w.log /\ (v.closed = w.closed \/ v.log = ReviewedSegment)

(* validate_readonly_manifest_stability: the dump.rdb cache alone may move. *)
OnlyCacheMoved(v, w) == v.log = w.log /\ v.closed = w.closed /\ v.stamp = w.stamp

(* Files a damaged or foreign volume may hold: one group, three blocks. *)
Blocks(i) ==
    LET ids == {1, i} IN
    {<<Bare("multi"), Xadd(j, m), Hset(k, m, j), Bare("exec")>> : j \in ids, m \in 1..2, k \in 1..2}
    \cup {<<Xadd(j, m)>> : j \in ids, m \in 1..3}
    \cup {<<Bare("multi"), Xadd(i, m), Hset(m, 1, 1), Bare("exec")>> : m \in 1..2}
    \cup {<<Hset(2, 2, i)>>, <<Bare("multi"), Xadd(i, 2)>>, <<Bare("torn")>>, <<Bare("flush")>>}

File(a, b, c) == <<Bare("xgroup")>> \o a \o b \o c \o <<SetId(3), Bare("xack")>>

Files == {ReviewedSegment} \cup
         {File(a, b, c) : a \in Blocks(1), b \in Blocks(2), c \in Blocks(3)}

AofInit ==
    /\ \E f \in Files, acl \in {"original", "candidate"} :
          original = [there |-> TRUE, log |-> f, closed |-> FALSE, rdb |-> 0, stamp |-> 0,
                      live |-> Replay(f, Rights("original")), acl |-> acl, starts |-> 1]
    /\ backup = NoVolume /\ replica = NoVolume
    /\ rec = [pc |-> "none", lease |-> FALSE, failure |-> "none", receipt |-> FALSE,
              adjudicated |-> FALSE, latch |-> FALSE, vlease |-> FALSE, verified |-> FALSE,
              source |-> Manifest(NoVolume), pristine |-> Manifest(NoVolume), ids |-> {},
              seen |-> Manifest(NoVolume), starts |-> 0]
    /\ awrites = 0 /\ afaults = 0

-----------------------------------------------------------------------------
(* Others, at any time of a run and between the runs: external.  What happens
   before the first manifest is another initial state. *)

OthersWrite ==
    /\ rec.pc \notin {"none", "admission", "source before", "verified"} /\ rec.failure # "other"
    /\ awrites < MaxAofWrites
    /\ awrites' = awrites + 1
    /\ \/ \E c \in {Bare("xack"), Xadd(Rows + 2, 1)} :
             original' = [original EXCEPT !.log = Append(@, c), !.live = Run(@, c), !.stamp = @ + 1]
       \/ original' = [original EXCEPT !.rdb = @ + 1]       \* a background save
       \/ original' = [original EXCEPT !.acl = "candidate"]
       \/ \E closed \in BOOLEAN :                           \* a clean restart
             original' = [original EXCEPT !.live = Replay(original.log, Rights(original.acl)),
                              !.closed = closed, !.rdb = @ + 1,
                              !.stamp = @ + 1, !.starts = @ + 1]
    /\ UNCHANGED <<backup, replica, rec, afaults>>

-----------------------------------------------------------------------------
RecAt(phase) == rec.pc = phase
RecOnly(r) == rec' = r /\ UNCHANGED <<original, backup, replica, awrites, afaults>>

(* The except of main: owned containers are stopped, nothing is removed, the
   failure is written beside the evidence, and the latches stay. *)
FailClosed(reason) == [rec EXCEPT !.pc = "failed", !.failure = reason]

Check(condition, next) == RecOnly(IF condition THEN next ELSE FailClosed("other"))

(* _create_run: ROOT is new, so one qualification, ever. *)
CreateRun ==
    /\ RecAt("none") /\ ~rec.lease
    /\ RecOnly([rec EXCEPT !.lease = TRUE, !.pc = "admission"])

(* validate_admission: the failed boot with its evidence, Redis running; the
   private ACL must still be the one the candidate is made from. *)
Admission ==
    /\ RecAt("admission")
    /\ Check(original.acl = "original",
             [rec EXCEPT !.pc = "source before", !.starts = original.starts])

SourceBefore ==
    /\ RecAt("source before")
    /\ RecOnly([rec EXCEPT !.pc = "inventory before", !.source = Manifest(original)])

InventoryBefore ==
    /\ RecAt("inventory before")
    /\ Check(InventoryAccepted(original.log),
             [rec EXCEPT !.pc = "backup", !.seen.log = original.log, !.ids = Publications(original.log)])

(* copy_volume: before and after the copy the source is what its manifest
   said (the copy itself, file by file, is the subject of ColdRedis). *)
CopyVolume(from, stamp) == [there |-> TRUE, log |-> from.log, closed |-> from.closed,
                            rdb |-> from.rdb, stamp |-> stamp]

CopyBackup ==
    /\ RecAt("backup")
    /\ IF Manifest(original) = rec.source
       THEN /\ backup' = CopyVolume(original, 1)
            /\ rec' = [rec EXCEPT !.pc = "clone", !.pristine = Manifest(CopyVolume(original, 1))]
       ELSE backup' = [NoVolume EXCEPT !.there = TRUE] /\ rec' = FailClosed("other")
    /\ UNCHANGED <<original, replica, awrites, afaults>>

CopyClone ==
    /\ RecAt("clone")
    /\ replica' = CopyVolume(backup, 1)
    /\ rec' = [rec EXCEPT !.pc = "inventories"]
    /\ UNCHANGED <<original, backup, awrites, afaults>>

CopiesAgree ==
    /\ RecAt("inventories")
    /\ Check(/\ backup.log = rec.seen.log /\ replica.log = rec.seen.log
             /\ SameAuthority(backup, rec.source) /\ SameAuthority(replica, rec.source),
             [rec EXCEPT !.pc = "clone proof"])

(* _run_clone_proof: the clone replays under the candidate and is stopped in
   the finally, which closes its segment and saves its dump. *)
CloneProof ==
    /\ RecAt("clone proof")
    /\ rec' = IF WorkerProof(Replay(replica.log, Rights("candidate"))) /\ rec.ids = 1..Rows
              THEN [rec EXCEPT !.pc = "source after"] ELSE FailClosed("other")
    /\ replica' = [replica EXCEPT !.closed = TRUE, !.rdb = @ + 1, !.stamp = @ + 1]
    /\ UNCHANGED <<original, backup, awrites, afaults>>

(* Inventory and manifest once more, then _assert_preserved_after.  The
   retained run failed here because docker listed the mounts in another order. *)
SourceAfter ==
    /\ RecAt("source after")
    /\ \/ Check(Manifest(original) = rec.source, [rec EXCEPT !.pc = "preserved"])
       \/ Manifest(original) = rec.source /\ RecOnly(FailClosed("mounts"))

Preserved ==
    /\ RecAt("preserved")
    /\ Check(Manifest(original) = rec.source /\ original.starts = rec.starts,
             [rec EXCEPT !.pc = "qualified", !.receipt = TRUE])

(* Adjudication: once per latch, for the mount-order failure only. *)
Adjudicate ==
    /\ RecAt("failed") /\ rec.failure = "mounts" /\ ~rec.receipt /\ ~rec.latch
    /\ RecOnly([rec EXCEPT !.latch = TRUE, !.pc = "adjudicate"])

AdjudicateVolumes ==
    /\ RecAt("adjudicate")
    /\ RecOnly(IF /\ original.acl = "original" /\ original.starts = rec.starts
                  /\ Manifest(original) = rec.source
                  /\ Manifest(backup) = rec.pristine
                  /\ SameAuthority(replica, rec.source)
               THEN [rec EXCEPT !.pc = "adjudicate after"]
               ELSE [rec EXCEPT !.pc = "failed"])

AdjudicateAfter ==
    /\ RecAt("adjudicate after")
    /\ RecOnly(IF /\ Manifest(original) = rec.source /\ Manifest(backup) = rec.pristine
                  /\ original.acl = "original" /\ original.starts = rec.starts
               THEN [rec EXCEPT !.pc = "qualified", !.receipt = TRUE, !.adjudicated = TRUE]
               ELSE [rec EXCEPT !.pc = "failed"])

-----------------------------------------------------------------------------
(* run_verify_original.  The latch is written before the receipt is examined. *)

CreateVerification ==
    /\ rec.pc = "qualified" /\ rec.receipt /\ rec.lease /\ ~rec.vlease
    /\ RecOnly([rec EXCEPT !.vlease = TRUE, !.pc = "load receipt"])

LoadReceipt ==
    /\ RecAt("load receipt")
    /\ Check(/\ rec.failure # "none" => rec.adjudicated
             /\ original.acl = "candidate",
             [rec EXCEPT !.pc = "verify before", !.starts = original.starts])

VerifyBefore ==
    /\ RecAt("verify before")
    /\ Check(SameAuthority(original, rec.source) /\ Manifest(backup) = rec.pristine,
             [rec EXCEPT !.pc = "verify inventory", !.seen = Manifest(original)])

VerifyInventory ==
    /\ RecAt("verify inventory")
    /\ Check(original.log = rec.source.log, [rec EXCEPT !.pc = "verify state"])

VerifyState ==
    /\ RecAt("verify state")
    /\ Check(WorkerProof(original.live), [rec EXCEPT !.pc = "verify after"])

(* mutant: only the container is compared again *)
UnmovedSinceByContainer == original.starts = rec.starts

UnmovedSince ==
    /\ original.log = rec.source.log
    /\ SameAuthority(original, rec.seen)
    /\ OnlyCacheMoved(original, rec.seen)
    /\ original.starts = rec.starts

VerifyAfter ==
    /\ RecAt("verify after")
    /\ Check(UnmovedSince, [rec EXCEPT !.pc = "verified", !.verified = TRUE,
                                       !.seen = Manifest(original)])

(* A docker call fails, or the script ends, anywhere in a run. *)
RunFails ==
    /\ rec.pc \notin {"none", "failed", "qualified", "verified"}
    /\ afaults < MaxAofFaults
    /\ afaults' = afaults + 1
    /\ rec' = IF rec.pc \in {"adjudicate", "adjudicate after"} THEN [rec EXCEPT !.pc = "failed"]
              ELSE FailClosed("other")
    /\ UNCHANGED <<original, backup, replica, awrites>>

AofNext ==
    \/ OthersWrite \/ CreateRun \/ Admission \/ SourceBefore \/ InventoryBefore
    \/ CopyBackup \/ CopyClone \/ CopiesAgree \/ CloneProof \/ SourceAfter \/ Preserved
    \/ Adjudicate \/ AdjudicateVolumes \/ AdjudicateAfter
    \/ CreateVerification \/ LoadReceipt \/ VerifyBefore \/ VerifyInventory \/ VerifyState
    \/ VerifyAfter \/ RunFails

AofSpec == AofInit /\ [][AofNext]_aofVars

-----------------------------------------------------------------------------
(***************************************************************************)
(* A verified recovery is one the file supports: as long as nobody has     *)
(* touched the original since, its memory is what the untouched backup     *)
(* replays to under the installed ACL, with a receipt and an entry for     *)
(* every outbox row - also when the original was written, saved or         *)
(* restarted in the middle of either run, and when the qualification was   *)
(* accepted by adjudication (inventory_bytes, run_qualification,           *)
(* adjudicate, run_verify_original).                                       *)
(***************************************************************************)
VerifiedIsReplay ==
    rec.verified /\ Manifest(original) = rec.seen /\ original.starts = rec.starts =>
        /\ backup.log = original.log
        /\ original.live = Replay(backup.log, Rights("candidate"))
        /\ WorkerProof(original.live)
=============================================================================

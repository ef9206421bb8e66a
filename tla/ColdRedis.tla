------------------------------ MODULE ColdRedis ------------------------------
(***************************************************************************)
(* scripts/cold_redis_acceptance.py: whether a stopped Redis had accepted  *)
(* one message.  The script copies the volume of the stopped container     *)
(* into a volume of its own, starts a Redis on the copy and pages through  *)
(* the stream.  Nothing keeps an operator from starting the original       *)
(* meanwhile: its append-only files then grow and are rewritten under the  *)
(* copy, and only the checks before, between and after tell.               *)
(*                                                                         *)
(* A volume is its append-only parts, the order in which a Redis loads     *)
(* them, and the root dump.rdb, if there is one.  The order is that of     *)
(* the manifest in appendonlydir; a Redis before 7 has the one file        *)
(* appendonly.aof, and one that only saves has no part.  stamp stands for  *)
(* the times and hashes of the files' metadata.  An entry is the wanted    *)
(* message or another one.                                                 *)
(***************************************************************************)
EXTENDS Naturals, Sequences, FiniteSets, SequencesExt

CONSTANTS
    MaxScan,        \* MAX_XRANGE_ENTRIES
    PageSize,       \* XRANGE_PAGE_SIZE
    MaxColdWrites,  \* bound on what an operator's Redis does to the source
    MaxColdFaults   \* bound on failing docker calls

ASSUME ColdAssumption ==
    /\ MaxScan \in Nat /\ PageSize \in Nat \ {0}
    /\ MaxColdWrites \in Nat /\ MaxColdFaults \in Nat

VARIABLES
    source,     \* the original container and its volume
    cold,       \* what the script holds
    clone,      \* the files of the owned volume
    owned,      \* docker objects with this owner's labels
    cwrites, cfaults

coldVars == <<source, cold, clone, owned, cwrites, cfaults>>

Entries == {"target", "other"}
Base == 1..2        \* part n is base n, part 10 + n increment n
LegacyAof == 50        \* appendonly.aof itself
Containers == {"prepare", "copy", "redis", "observer", "verify"}

Stream(volume) == FlattenSeq([k \in DOMAIN volume.manifest |-> volume.files[volume.manifest[k]]])

Occurrences(s) == Cardinality({k \in DOMAIN s : s[k] = "target"})

(* rdb is <<>> without a dump.rdb, <<s>> with one that holds the stream s. *)
Dump(volume) == IF volume.rdb = <<>> THEN <<>> ELSE volume.rdb[1]

(* What the clone serves: with --appendonly yes a Redis loads the parts and
   never dump.rdb, so on a volume without a part it starts empty; the
   historical mode has --appendonly no and loads dump.rdb. *)
Served(volume, historical) == IF historical THEN Dump(volume) ELSE Stream(volume)

(* What the volume was stopped with. *)
Holds(volume, historical) ==
    IF historical \/ volume.manifest = <<>> THEN Dump(volume) ELSE Stream(volume)

(* A file more, or another content of one. *)
With(files, n, content) ==
    [m \in DOMAIN files \cup {n} |-> IF m = n THEN content ELSE files[m]]

UpTo(n) == UNION {[1..k -> Entries] : k \in 0..n}

NoObservation == [scanned |-> 0, matches |-> 0, complete |-> FALSE, state |-> "none"]

DumpFiles == {<<>>} \cup {<<s>> : s \in UpTo(1)}

Volume(files, manifest, rdb) ==
    [running |-> FALSE, files |-> files, manifest |-> manifest, rdb |-> rdb, stamp |-> 0]

ColdInit ==
    /\ \/ \E b \in UpTo(2), i \in UpTo(1), r \in DumpFiles :
             source = Volume([n \in {1, 11} |-> IF n = 1 THEN b ELSE i], <<1, 11>>, r)
       \/ \E b \in UpTo(2), r \in DumpFiles : source = Volume([n \in {LegacyAof} |-> b], <<LegacyAof>>, r)
       \/ \E s \in UpTo(2) : source = Volume(<<>>, <<>>, <<s>>)
    /\ \E h \in BOOLEAN :
          cold = [pc |-> "idle", historical |-> h, attempted |-> {}, todo |-> {},
                  before |-> 0, layout |-> <<>>, proof |-> 0, seen |-> NoObservation,
                  error |-> FALSE, cleanup_ok |-> TRUE, result |-> "none"]
    /\ clone = [files |-> <<>>, manifest |-> <<>>, rdb |-> <<>>]
    /\ owned = {}
    /\ cwrites = 0 /\ cfaults = 0

-----------------------------------------------------------------------------
(* An operator and the original Redis: external to the script. *)

Touched(new) == source' = [new EXCEPT !.stamp = @ + 1]

(* The original appends to its last part; a Redis that finds appendonly.aof
   may make it the first part of a manifest (7 and later); a rewrite opens its
   increment first and joins the older parts into a base; a save writes
   dump.rdb, and where there is no part it alone has what was added. *)
SourceMoves ==
    /\ cold.pc \notin {"ended", "refused"}
    /\ cwrites < MaxColdWrites
    /\ cwrites' = cwrites + 1
    /\ \/ source' = [source EXCEPT !.running = ~@]
       \/ /\ source.running /\ source.manifest = <<>>
          /\ Touched([source EXCEPT !.rdb = <<Append(Dump(source), "target")>>])
       \/ /\ source.running /\ source.manifest # <<>>
          /\ LET parts == source.manifest
                 last == Last(parts)
             IN
             \/ Touched([source EXCEPT !.files[last] = Append(@, "target")])
             \/ \E n \in {11, 12} :
                   /\ <<last, n>> \in {<<LegacyAof, 11>>, <<11, 12>>}
                   /\ Touched([source EXCEPT !.manifest = Append(@, n),
                                             !.files = With(@, n, <<>>)])
             \/ /\ Len(parts) = 3
                /\ Touched([source EXCEPT !.manifest = <<2, last>>,
                       !.files = [n \in {2, last} |-> IF n = 2 THEN @[parts[1]] \o @[parts[2]]
                                                      ELSE @[last]]])
             \/ Touched([source EXCEPT !.rdb = <<Stream(source)>>])
    /\ UNCHANGED <<cold, clone, owned, cfaults>>

-----------------------------------------------------------------------------
(* The script *)

ColdAt(phase) == cold.pc = phase

(* The except of execute(): every failure goes to the cleanup. *)
ToCleanup(c) == [c EXCEPT !.error = TRUE, !.pc = "verify gone"]

ColdFault == cfaults < MaxColdFaults /\ cfaults' = cfaults + 1

(* _inspect_source: exited, the same container on the same volume. *)
SourceIsCold == ~source.running

Proceed(c) == cold' = c /\ UNCHANGED <<source, clone, owned, cwrites, cfaults>>

(* The create-only revision directory is made and the source inspected
   before anything exists that would need a cleanup. *)
LaunchCopy ==
    /\ ColdAt("idle")
    /\ Proceed([cold EXCEPT !.pc = IF SourceIsCold THEN "volume" ELSE "refused"])

(* docker create of the step's object: attempted is noted first, so a lost
   answer is cleaned up too. *)
CreateOwned(name, next) ==
    /\ \/ /\ owned' = owned \cup {name}
          /\ cold' = [cold EXCEPT !.attempted = @ \cup {name}, !.pc = next]
          /\ UNCHANGED cfaults
       \/ /\ ColdFault
          /\ owned' \in {owned, owned \cup {name}}
          /\ cold' = ToCleanup([cold EXCEPT !.attempted = @ \cup {name}])
    /\ UNCHANGED <<source, clone, cwrites>>

NewVolume == ColdAt("volume") /\ CreateOwned("volume", "prepare")
PrepareTarget == ColdAt("prepare") /\ CreateOwned("prepare", "copy")
CopyWorker == ColdAt("copy") /\ CreateOwned("copy", "manifest before")

(* _persistence_layout: the manifest lists exactly the files that are there,
   one of them a base (REDIS_MULTIPART_AOF; a first part that was once
   appendonly.aof is no base); or there is no manifest, and appendonly.aof
   (REDIS_LEGACY_AOF) or else dump.rdb (REDIS_RDB_FALLBACK).  The historical
   mode needs a dump.rdb. *)
LayoutAccepted(volume) ==
    /\ cold.historical => volume.rdb # <<>>
    /\ DOMAIN volume.files = ToSet(volume.manifest)
    /\ \/ Cardinality(DOMAIN volume.files \cap Base) = 1
       \/ volume.manifest = <<LegacyAof>>
       \/ volume.manifest = <<>> /\ volume.rdb # <<>>

ManifestBefore ==
    /\ ColdAt("manifest before")
    /\ Proceed(IF LayoutAccepted(source)
               THEN [cold EXCEPT !.before = source.stamp, !.layout = source.manifest,
                                 !.todo = DOMAIN source.files \cup {0, 99}, !.pc = "copy tree"]
               ELSE ToCleanup(cold))

(* _copy_tree, one file at a time: 0 is dump.rdb, 99 the manifest. *)
CopyFile(n) ==
    CASE n = 0 -> [clone EXCEPT !.rdb = source.rdb]
      [] n = 99 -> [clone EXCEPT !.manifest = source.manifest]
      [] OTHER -> [clone EXCEPT !.files = With(@, n, source.files[n])]

CopyTree ==
    /\ ColdAt("copy tree")
    /\ IF cold.todo = {} THEN Proceed([cold EXCEPT !.pc = "manifest after"])
       ELSE LET n == CHOOSE m \in cold.todo : \A k \in cold.todo : m <= k IN
            IF n \in DOMAIN source.files \cup {0, 99}
            THEN /\ clone' = CopyFile(n)
                 /\ cold' = [cold EXCEPT !.todo = @ \ {n}]
                 /\ UNCHANGED <<source, owned, cwrites, cfaults>>
            ELSE Proceed(ToCleanup(cold))

(* before = after, the layout too, and the copy has the content of both. *)
CopyIsConsistent ==
    /\ source.stamp = cold.before /\ source.manifest = cold.layout
    /\ \A part \in DOMAIN clone : clone[part] = source[part]

ManifestAfter ==
    /\ ColdAt("manifest after")
    /\ Proceed(IF CopyIsConsistent
               THEN [cold EXCEPT !.proof = cold.before, !.pc = "source after copy"]
               ELSE ToCleanup(cold))

SourceAfterCopy ==
    /\ ColdAt("source after copy")
    /\ Proceed(IF SourceIsCold THEN [cold EXCEPT !.pc = "redis"] ELSE ToCleanup(cold))

StartClone == ColdAt("redis") /\ CreateOwned("redis", "observer")
StartObserver == ColdAt("observer") /\ CreateOwned("observer", "scan")

(* XRANGE from the cursor, a page at a time; a second match ends the scan,
   and so does a page that is not full. *)
ScanPage ==
    LET stream == Served(clone, cold.historical)
        from == cold.seen.scanned
        count == IF PageSize < MaxScan - from THEN PageSize ELSE MaxScan - from
        page == SubSeq(stream, from + 1, IF from + count < Len(stream) THEN from + count
                                         ELSE Len(stream))
    IN  [cold.seen EXCEPT !.scanned = from + Len(page),
                          !.matches = @ + Occurrences(page),
                          !.complete = Len(page) < count]

(* mutant: one match is enough, whatever the scan has not reached *)
ClassificationOfPart(seen) ==
    IF seen.matches > 1 THEN "CONFLICT"
    ELSE IF seen.matches = 1 THEN "POSITIVE_ACCEPTED"
    ELSE IF seen.complete THEN "INCONCLUSIVE_ZERO_MATCH"
    ELSE "INCONCLUSIVE_SCAN_LIMIT"

Classification(seen) ==
    IF seen.matches > 1 THEN "CONFLICT"
    ELSE IF seen.complete /\ seen.matches = 1 THEN "POSITIVE_ACCEPTED"
    ELSE IF seen.complete THEN "INCONCLUSIVE_ZERO_MATCH"
    ELSE "INCONCLUSIVE_SCAN_LIMIT"

Scan ==
    /\ ColdAt("scan")
    /\ LET seen == cold.seen
           over == seen.complete \/ seen.matches > 1 \/ seen.scanned >= MaxScan
       IN  Proceed(IF over
                   THEN [cold EXCEPT !.seen.state = Classification(seen), !.pc = "verify"]
                   ELSE [cold EXCEPT !.seen = ScanPage])

VerifyWorker == ColdAt("verify") /\ CreateOwned("verify", "manifest probe")

(* The manifest once more, and the container, after the whole probe. *)
SourceAfterProbe ==
    /\ ColdAt("manifest probe")
    /\ Proceed(IF source.stamp = cold.proof /\ SourceIsCold
               THEN [cold EXCEPT !.pc = "verify gone"]
               ELSE ToCleanup(cold))

(* A docker call inside the try fails without an effect. *)
CallFailsCold ==
    /\ cold.pc \in {"volume", "manifest before", "copy tree", "manifest after",
                    "source after copy", "scan", "manifest probe"}
    /\ ColdFault
    /\ cold' = ToCleanup(cold)
    /\ UNCHANGED <<source, clone, owned, cwrites>>

-----------------------------------------------------------------------------
(* The finally: one object at a time, each failure remembered, none fatal. *)

CleanupOrder == <<"verify", "observer", "copy", "prepare", "redis", "volume">>
CleanupPhase == <<"verify gone", "observer gone", "copy gone", "prepare gone", "redis gone",
                  "volume gone", "source at end">>

(* _remove_owned: what was attempted must be there, carry the labels and go;
   an answer may be lost with or without the effect. *)
RemoveOwned(k) ==
    LET name == CleanupOrder[k]
        next == [cold EXCEPT !.pc = CleanupPhase[k + 1]]
    IN
    /\ ColdAt(CleanupPhase[k])
    /\ \/ /\ name \notin cold.attempted
          /\ Proceed(next)
       \/ /\ name \in cold.attempted
          /\ cold' = IF name \in owned THEN next ELSE [next EXCEPT !.cleanup_ok = FALSE]
          /\ owned' = owned \ {name}
          /\ UNCHANGED <<source, clone, cwrites, cfaults>>
       \/ /\ name \in cold.attempted
          /\ ColdFault
          /\ cold' = [next EXCEPT !.cleanup_ok = FALSE]
          /\ owned' \in {owned, owned \ {name}}
          /\ UNCHANGED <<source, clone, cwrites>>

SourceAtEnd ==
    /\ ColdAt("source at end")
    /\ \/ Proceed([cold EXCEPT !.error = @ \/ ~cold.cleanup_ok \/ ~SourceIsCold,
                               !.pc = "receipt"])
       \/ /\ ColdFault
          /\ cold' = [cold EXCEPT !.error = TRUE, !.pc = "receipt"]
          /\ UNCHANGED <<source, clone, owned, cwrites>>

(* _receipt_classification: a historical image admits nothing. *)
ReceiptClassification(state, historical) ==
    IF ~historical THEN state
    ELSE CASE state = "POSITIVE_ACCEPTED" -> "HISTORICAL_RDB_MATCH_OBSERVED_ONLY"
           [] state = "CONFLICT" -> "HISTORICAL_RDB_CONFLICT_NO_ADMISSION"
           [] state = "INCONCLUSIVE_ZERO_MATCH" -> "HISTORICAL_RDB_INCONCLUSIVE_ZERO_MATCH"
           [] OTHER -> "HISTORICAL_RDB_INCONCLUSIVE_SCAN_LIMIT"

ColdReceipt ==
    /\ ColdAt("receipt")
    /\ Proceed([cold EXCEPT !.pc = "ended",
            !.result = IF cold.error \/ cold.seen.state = "none" THEN "FAILED_CLOSED"
                       ELSE ReceiptClassification(cold.seen.state, cold.historical)])

ColdNext ==
    \/ SourceMoves \/ LaunchCopy \/ NewVolume \/ PrepareTarget \/ CopyWorker \/ ManifestBefore
    \/ CopyTree \/ ManifestAfter \/ SourceAfterCopy \/ StartClone \/ StartObserver \/ Scan
    \/ VerifyWorker \/ SourceAfterProbe \/ CallFailsCold
    \/ \E k \in DOMAIN CleanupOrder : RemoveOwned(k)
    \/ SourceAtEnd \/ ColdReceipt

ColdSpec == ColdInit /\ [][ColdNext]_coldVars

-----------------------------------------------------------------------------
(***************************************************************************)
(* What a receipt says of the source is true of it: as long as the         *)
(* original has not been written since the copy, exactly one acceptance,   *)
(* a conflict or none are what it was stopped with (its dump.rdb in the    *)
(* historical mode) - however it was started and rewritten during the      *)
(* copy - and a receipt that is not FAILED_CLOSED leaves no container and  *)
(* no volume behind.  Of a volume with only a dump.rdb the default mode    *)
(* can say nothing but "inconclusive": its clone does not load the dump,   *)
(* and a missing record is never the proof that there is none              *)
(* (execute, _persistence_layout, _copy_worker, _inspect_stream).          *)
(***************************************************************************)
ReceiptIsTrue ==
    LET n == Occurrences(Holds(source, cold.historical))
        unread == source.manifest = <<>> /\ ~cold.historical
    IN
    cold.result \notin {"none", "FAILED_CLOSED"} =>
        /\ owned = {}
        /\ source.stamp = cold.proof =>
             /\ cold.seen.state = "POSITIVE_ACCEPTED" => n = 1
             /\ cold.seen.state = "CONFLICT" => n > 1
             /\ cold.seen.state = "INCONCLUSIVE_ZERO_MATCH" => n = 0 \/ unread
        /\ cold.historical => cold.result # "POSITIVE_ACCEPTED"
=============================================================================

-------------------------- MODULE Evidence_proofs --------------------------
(***************************************************************************)
(* The two scripts that judge a Redis by its files: ReceiptIsTrue of the   *)
(* cold acceptance, for every page size, every scan limit, any number of   *)
(* writes to the original and any number of failing docker calls, and      *)
(* VerifiedIsReplay of the recovery of the append-only files, for every    *)
(* number of rows, writes, restarts and faults.                            *)
(*                                                                         *)
(* ReceiptIsTrue compares the verdict with a count over a stream that the  *)
(* script never reads in one piece.  Three facts carry it from the copy to *)
(* the receipt: a clone that was accepted is the original as long as its   *)
(* stamp stands (Taken), the scan has counted exactly the hits of the      *)
(* prefix it has passed (Counted, by HitsMore), and the cleanup has        *)
(* removed what it has passed or remembers that it could not (Cleaned).    *)
(*                                                                         *)
(* VerifiedIsReplay says that a verified memory is the replay of the file  *)
(* with the rights that transactions need.  The recovery never sees which  *)
(* of the two replays the memory is: that the worker found a receipt rules *)
(* the other one out, because a log that the inventory accepts leaves no   *)
(* receipt when its transactions are denied (DeniedLeavesNone, by          *)
(* induction over the log).  AofInv says phase by phase what the evidence  *)
(* of the run is about.                                                    *)
(***************************************************************************)
EXTENDS ColdRedis, AofRecovery, SequenceTheorems, FiniteSetTheorems,
        FunctionTheorems, WellFoundedInduction, TLAPS

(* The cold acceptance. *)

Names == {"verify", "observer", "copy", "prepare", "redis", "volume"}
BeforeScan == {"idle", "refused", "volume", "prepare", "copy", "manifest before", "copy tree",
               "manifest after", "source after copy", "redis", "observer"}
AfterCopy == {"source after copy", "redis", "observer", "scan", "verify", "manifest probe"}
Cleanups == {"verify gone", "observer gone", "copy gone", "prepare gone", "redis gone",
             "volume gone", "source at end"}
Phases == BeforeScan \cup AfterCopy \cup Cleanups \cup {"receipt", "ended"}
Verdicts == {"none", "CONFLICT", "POSITIVE_ACCEPTED",
             "INCONCLUSIVE_ZERO_MATCH", "INCONCLUSIVE_SCAN_LIMIT"}
Historical == {"HISTORICAL_RDB_MATCH_OBSERVED_ONLY", "HISTORICAL_RDB_CONFLICT_NO_ADMISSION",
               "HISTORICAL_RDB_INCONCLUSIVE_ZERO_MATCH", "HISTORICAL_RDB_INCONCLUSIVE_SCAN_LIMIT"}
SeenRec == [scanned : Nat, matches : Nat, complete : BOOLEAN, state : Verdicts]
ColdRec == [pc : Phases, historical : BOOLEAN, attempted : SUBSET Names, todo : SUBSET Nat,
            before : Nat, layout : Seq(Nat), proof : Nat, seen : SeenRec,
            error : BOOLEAN, cleanup_ok : BOOLEAN,
            result : Verdicts \cup Historical \cup {"FAILED_CLOSED"}]

(* A volume that a Redis can be started on: what is to be loaded is there. *)
Whole(files, manifest, rdb) ==
    /\ rdb = <<>> \/ \E d \in Seq(Entries) : rdb = <<d>>
    /\ manifest \in Seq(Nat)
    /\ files \in [ToSet(manifest) -> Seq(Entries)]

ColdTypeOK ==
    /\ DOMAIN source = {"running", "files", "manifest", "rdb", "stamp"}
    /\ source.running \in BOOLEAN /\ source.stamp \in Nat
    /\ Whole(source.files, source.manifest, source.rdb)
    /\ cold \in ColdRec
    /\ DOMAIN clone = {"files", "manifest", "rdb"}
    /\ owned \subseteq cold.attempted

(* Nothing is known of the stream before the scan. *)
Unseen == cold.pc \in BeforeScan => cold.seen = NoObservation

(* From the accepted copy on the clone is whole, and what the original holds
   as long as its files have not been touched. *)
Taken ==
    /\ cold.before <= source.stamp /\ cold.proof <= source.stamp
    /\ cold.pc \in AfterCopy \/ cold.seen.state # "none" =>
         /\ Whole(clone.files, clone.manifest, clone.rdb)
         /\ source.stamp = cold.proof => /\ clone.files = source.files
                                         /\ clone.manifest = source.manifest
                                         /\ clone.rdb = source.rdb

(* The entries of a stream that are the wanted one, as far as n. *)
Hits(s, n) == Cardinality({k \in 1..n : s[k] = "target"})

(* The scan has counted what it has passed, and knows the end when it met it. *)
Counted ==
    LET stream == Served(clone, cold.historical) IN
    cold.pc = "scan" =>
        /\ cold.seen.state = "none"
        /\ cold.seen.scanned <= Len(stream)
        /\ cold.seen.matches = Hits(stream, cold.seen.scanned)
        /\ cold.seen.complete => cold.seen.scanned = Len(stream)

Judgement(stream, state) ==
    /\ state = "POSITIVE_ACCEPTED" => Occurrences(stream) = 1
    /\ state = "CONFLICT" => Occurrences(stream) > 1
    /\ state = "INCONCLUSIVE_ZERO_MATCH" => Occurrences(stream) = 0

Judged == cold.seen.state # "none" => Judgement(Served(clone, cold.historical), cold.seen.state)

(* The cleanup has removed what it has passed, or remembers that it failed. *)
Cleaned ==
    \A k \in 1..7 : cold.pc = CleanupPhase[k] /\ cold.cleanup_ok =>
        \A j \in 1..6 : j < k => CleanupOrder[j] \notin owned

Reported ==
    /\ cold.pc \in {"receipt", "ended"} /\ ~cold.error => owned = {}
    /\ cold.result # "none" => cold.pc = "ended"
    /\ cold.result \notin {"none", "FAILED_CLOSED"} =>
         /\ ~cold.error
         /\ cold.historical => cold.result # "POSITIVE_ACCEPTED"

ColdInv == ColdTypeOK /\ Unseen /\ Taken /\ Counted /\ Judged /\ Cleaned /\ Reported

-----------------------------------------------------------------------------
(* Induction over the naturals, with a set in place of the predicate. *)
LEMMA SetInduction ==
  ASSUME NEW T, 0 \in T, \A k \in Nat : k \in T => k + 1 \in T
  PROVE  \A n \in Nat : n \in T
<1> DEFINE U == {n \in Nat : n \notin T}
           Less == OpToRel(<, Nat)
<1> SUFFICES ASSUME U # {} PROVE FALSE
  OBVIOUS
<1>1. U \subseteq Nat
  OBVIOUS
<1>2. IsWellFoundedOn(Less, Nat)
  BY NatLessThanWellFounded
<1>3. \E u \in U : \A v \in U : ~ (<<v, u>> \in Less)
  <2> HIDE DEF U, Less
  <2> QED BY <1>1, <1>2, WFMin
<1>4. PICK u \in U : \A v \in U : ~ (<<v, u>> \in Less)
  BY <1>3
<1>5. u \in Nat /\ u \notin T /\ u # 0
  OBVIOUS
<1>6. u - 1 \in Nat /\ u - 1 < u /\ (u - 1) + 1 = u
  BY <1>5
<1>7. u - 1 \in U
  BY <1>5, <1>6
<1>8. ~ (<<u - 1, u>> \in {ss \in Nat \X Nat : ss[1] < ss[2]})
  BY <1>4, <1>7 DEF OpToRel
<1> HIDE DEF U
<1> QED BY <1>5, <1>6, <1>8

(* The sequence of prefixes that FlattenSeq takes its last member from. *)
Joining(s, n, f) == f = [i \in 1..n |-> IF i = 1 THEN s[i] ELSE f[i - 1] \o s[i]]

LEMMA FlattenExists ==
  ASSUME NEW s
  PROVE  \A n \in Nat : \E f : Joining(s, n, f)
<1> DEFINE T == {n \in Nat : \E f : Joining(s, n, f)}
<1>1. 0 \in T
  <2>1. [i \in 1..0 |-> 0] = [i \in 1..0 |-> IF i = 1 THEN s[i] ELSE [j \in 1..0 |-> 0][i - 1] \o s[i]]
    OBVIOUS
  <2>2. Joining(s, 0, [i \in 1..0 |-> 0])
    BY <2>1 DEF Joining
  <2> QED BY <2>2
<1>2. ASSUME NEW n \in Nat, n \in T PROVE n + 1 \in T
  <2>1. PICK g : Joining(s, n, g)
    BY <1>2
  <2> DEFINE h == [i \in 1..(n + 1) |-> IF i = n + 1 THEN IF i = 1 THEN s[i] ELSE g[n] \o s[i]
                                        ELSE g[i]]
  <2>2. \A i \in 1..n : g[i] = IF i = 1 THEN s[i] ELSE g[i - 1] \o s[i]
    BY <2>1 DEF Joining
  <2>3. \A i \in 1..(n + 1) : h[i] = IF i = 1 THEN s[i] ELSE h[i - 1] \o s[i]
    <3> TAKE i \in 1..(n + 1)
    <3>1. CASE i = n + 1
      <4>1. CASE i = 1
        BY <3>1, <4>1
      <4>2. CASE i # 1
        <5>1. i - 1 = n /\ n \in 1..(n + 1) /\ n # n + 1
          BY <3>1, <4>2
        <5> QED BY <3>1, <4>2, <5>1
      <4> QED BY <4>1, <4>2
    <3>2. CASE i # n + 1
      <4>1. i \in 1..n /\ h[i] = g[i]
        BY <3>2
      <4>2. CASE i = 1
        <5> HIDE DEF h
        <5> QED BY <2>2, <4>1, <4>2
      <4>3. CASE i # 1
        <5>1. i - 1 \in 1..(n + 1) /\ i - 1 # n + 1
          BY <3>2, <4>3
        <5>2. h[i - 1] = g[i - 1]
          BY <5>1
        <5> HIDE DEF h
        <5> QED BY <2>2, <4>1, <4>3, <5>2
      <4> QED BY <4>2, <4>3
    <3> QED BY <3>1, <3>2
  <2>4. h = [i \in 1..(n + 1) |-> h[i]]
    OBVIOUS
  <2> HIDE DEF h
  <2>5. h = [i \in 1..(n + 1) |-> IF i = 1 THEN s[i] ELSE h[i - 1] \o s[i]]
    BY <2>3, <2>4
  <2>6. Joining(s, n + 1, h)
    BY <2>5 DEF Joining
  <2> QED BY <2>6
<1>3. \A n \in Nat : n \in T
  <2> HIDE DEF T
  <2> QED BY <1>1, <1>2, SetInduction
<1> QED BY <1>3

LEMMA FlattenTyped ==
  ASSUME NEW S, NEW s \in Seq(Seq(S))
  PROVE  FlattenSeq(s) \in Seq(S)
<1>0. CASE Len(s) = 0
  <2>1. FlattenSeq(s) = s /\ s = <<>>
    BY <1>0, EmptySeq DEF FlattenSeq
  <2> QED BY <2>1
<1> SUFFICES ASSUME Len(s) # 0 PROVE FlattenSeq(s) \in Seq(S)
  BY <1>0
<1> DEFINE f == CHOOSE f : f = [i \in 1..Len(s) |-> IF i = 1 THEN s[i] ELSE f[i - 1] \o s[i]]
<1>1. FlattenSeq(s) = f[Len(s)]
  BY DEF FlattenSeq
<1>2. PICK g : Joining(s, Len(s), g)
  <2>1. Len(s) \in Nat
    OBVIOUS
  <2> QED BY <2>1, FlattenExists
<1>3. f = [i \in 1..Len(s) |-> IF i = 1 THEN s[i] ELSE f[i - 1] \o s[i]]
  BY <1>2 DEF Joining
<1> HIDE DEF f
<1>4. \A i \in 1..Len(s) : f[i] = IF i = 1 THEN s[i] ELSE f[i - 1] \o s[i]
  BY <1>3
<1> DEFINE T == {k \in Nat : k + 1 <= Len(s) => f[k + 1] \in Seq(S)}
<1>5. 0 \in T
  <2>1. 0 + 1 = 1 /\ 1 \in 1..Len(s)
    OBVIOUS
  <2>2. f[1] = s[1] /\ s[1] \in Seq(S)
    BY <1>4, <2>1
  <2> QED BY <2>1, <2>2
<1>6. ASSUME NEW k \in Nat, k \in T PROVE k + 1 \in T
  <2> SUFFICES ASSUME (k + 1) + 1 <= Len(s) PROVE f[(k + 1) + 1] \in Seq(S)
    OBVIOUS
  <2> DEFINE i == (k + 1) + 1
  <2>1. i \in 1..Len(s) /\ i # 1 /\ i - 1 = k + 1 /\ k + 1 <= Len(s)
    OBVIOUS
  <2>2. f[i] = f[k + 1] \o s[i] /\ s[i] \in Seq(S)
    <3> HIDE DEF i
    <3>1. f[i] = f[i - 1] \o s[i]
      BY <1>4, <2>1
    <3>2. s[i] \in Seq(S)
      BY <2>1
    <3> QED BY <2>1, <3>1, <3>2
  <2>3. f[k + 1] \in Seq(S)
    BY <1>6, <2>1
  <2> QED BY <2>2, <2>3
<1>7. \A k \in Nat : k \in T
  <2> HIDE DEF T
  <2> QED BY <1>5, <1>6, SetInduction
<1>8. Len(s) - 1 \in Nat /\ (Len(s) - 1) + 1 = Len(s)
  OBVIOUS
<1>9. f[(Len(s) - 1) + 1] \in Seq(S)
  <2> DEFINE k == Len(s) - 1
  <2>1. k \in Nat /\ k + 1 <= Len(s)
    BY <1>8
  <2> HIDE DEF k
  <2>2. f[k + 1] \in Seq(S)
    BY <1>7, <2>1
  <2> QED BY <2>2 DEF k
<1> QED BY <1>1, <1>8, <1>9

(* What a Redis on a whole volume serves is a stream, and so is its dump. *)
LEMMA DumpTyped ==
  ASSUME NEW v, Whole(v.files, v.manifest, v.rdb)
  PROVE  Dump(v) \in Seq(Entries)
<1>1. CASE v.rdb = <<>>
  BY <1>1 DEF Dump
<1>2. CASE v.rdb # <<>>
  <2>1. PICK d \in Seq(Entries) : v.rdb = <<d>>
    BY <1>2 DEF Whole
  <2>2. v.rdb[1] = d
    BY <2>1
  <2> QED BY <1>2, <2>2 DEF Dump
<1> QED BY <1>1, <1>2

LEMMA StreamTyped ==
  ASSUME NEW v, Whole(v.files, v.manifest, v.rdb), NEW h \in BOOLEAN
  PROVE  Stream(v) \in Seq(Entries) /\ Served(v, h) \in Seq(Entries)
<1> DEFINE m == v.manifest
           f == v.files
           s == [k \in DOMAIN m |-> f[m[k]]]
<1>1. m \in Seq(Nat) /\ f \in [ToSet(m) -> Seq(Entries)]
  BY DEF Whole
<1>2. Stream(v) = FlattenSeq(s)
  BY DEF Stream
<1> HIDE DEF m, f
<1>3. s \in Seq(Seq(Entries))
  <2>1. DOMAIN m = 1..Len(m) /\ Len(m) \in Nat
    BY <1>1
  <2>2. \A k \in DOMAIN m : f[m[k]] \in Seq(Entries)
    BY <1>1 DEF ToSet
  <2>3. s \in [1..Len(m) -> Seq(Entries)]
    BY <2>1, <2>2
  <2> QED BY <2>1, <2>3
<1> HIDE DEF s
<1>4. Stream(v) \in Seq(Entries)
  BY <1>2, <1>3, FlattenTyped
<1> QED BY <1>4, DumpTyped DEF Served

(* What a scan has counted up to n and counts on the next page. *)
LEMMA HitsMore ==
  ASSUME NEW s \in Seq(Entries), NEW n \in Nat, NEW m \in Nat, n <= m, m <= Len(s)
  PROVE  Hits(s, m) = Hits(s, n) + Occurrences(SubSeq(s, n + 1, m))
<1> DEFINE p == SubSeq(s, n + 1, m)
           A == {k \in 1..n : s[k] = "target"}
           B == {k \in (n + 1)..m : s[k] = "target"}
           C == {k \in 1..m : s[k] = "target"}
           P == {k \in DOMAIN p : p[k] = "target"}
           f == [k \in P |-> k + n]
<1>1. IsFiniteSet(A) /\ IsFiniteSet(B) /\ IsFiniteSet(C)
  <2>1. 1 \in Int /\ n \in Int /\ n + 1 \in Int /\ m \in Int
    OBVIOUS
  <2>2. IsFiniteSet(1..n) /\ IsFiniteSet((n + 1)..m) /\ IsFiniteSet(1..m)
    BY <2>1, FS_Interval, Zenon
  <2>3. A \in SUBSET (1..n) /\ B \in SUBSET ((n + 1)..m) /\ C \in SUBSET (1..m)
    OBVIOUS
  <2> HIDE DEF A, B, C
  <2> QED BY <2>2, <2>3, FS_Subset, Zenon
<1>2. C = A \cup B /\ A \cap B = {}
  OBVIOUS
<1>3. Cardinality(C) = Cardinality(A) + Cardinality(B)
  <2> HIDE DEF A, B, C
  <2>1. Cardinality(A \cap B) = 0
    BY <1>2, FS_EmptySet
  <2>2. Cardinality(A) \in Nat /\ Cardinality(B) \in Nat
    BY <1>1, FS_CardinalityType
  <2>3. Cardinality(A \cup B) = Cardinality(A) + Cardinality(B) - Cardinality(A \cap B)
    BY <1>1, FS_Union, Zenon
  <2> QED BY <1>2, <2>1, <2>2, <2>3
<1>4. Cardinality(B) = Cardinality(P)
  <2>1. p \in Seq(Entries) /\ Len(p) = m - n /\ DOMAIN p = 1..(m - n)
    OBVIOUS
  <2>2. \A k \in 1..(m - n) : p[k] = s[k + n]
    OBVIOUS
  <2>3. f \in Bijection(P, B)
    <3> HIDE DEF p
    <3>1. \A k \in P : k \in Nat /\ k + n \in B
      BY <2>1, <2>2
    <3>2. \A k \in B : k - n \in P /\ (k - n) + n = k
      BY <2>1, <2>2
    <3>3. f \in [P -> B]
      BY <3>1
    <3>4. \A a, b \in P : f[a] = f[b] => a = b
      BY <3>1
    <3>5. \A b \in B : \E a \in P : f[a] = b
      BY <3>2
    <3> QED BY <3>3, <3>4, <3>5, Fun_IsBij
  <2>4. IsFiniteSet(P)
    <3>1. 1 \in Int /\ m - n \in Int
      OBVIOUS
    <3>2. IsFiniteSet(1..(m - n))
      BY <3>1, FS_Interval, Zenon
    <3>3. P \in SUBSET (1..(m - n))
      BY <2>1
    <3> QED BY <3>2, <3>3, FS_Subset, Zenon
  <2> HIDE DEF P, B, f
  <2> QED BY <2>3, <2>4, FS_Bijection DEF ExistsBijection
<1> QED BY <1>3, <1>4 DEF Hits, Occurrences

LEMMA HitsBounded ==
  ASSUME NEW s \in Seq(Entries), NEW n \in Nat, n <= Len(s)
  PROVE  Hits(s, n) \in Nat /\ Occurrences(s) \in Nat /\ Hits(s, n) <= Occurrences(s)
         /\ (n = Len(s) => Hits(s, n) = Occurrences(s))
<1> DEFINE A == {k \in 1..n : s[k] = "target"}
           C == {k \in DOMAIN s : s[k] = "target"}
<1>1. IsFiniteSet(A) /\ IsFiniteSet(C) /\ A \in SUBSET C
  <2>1. 1 \in Int /\ Len(s) \in Int /\ DOMAIN s = 1..Len(s)
    OBVIOUS
  <2>2. IsFiniteSet(1..Len(s))
    BY <2>1, FS_Interval, Zenon
  <2>3. C \in SUBSET (1..Len(s)) /\ A \in SUBSET C
    OBVIOUS
  <2> HIDE DEF A, C
  <2> QED BY <2>2, <2>3, FS_Subset, Zenon
<1>2. n = Len(s) => A = C
  OBVIOUS
<1> HIDE DEF A, C
<1>3. Cardinality(A) \in Nat /\ Cardinality(C) \in Nat /\ Cardinality(A) <= Cardinality(C)
  BY <1>1, FS_Subset, FS_CardinalityType
<1> QED BY <1>2, <1>3 DEF Hits, Occurrences, A, C

LEMMA PageCounted ==
  ASSUME NEW s \in Seq(Entries)
  PROVE  Occurrences(s) \in Nat
BY HitsBounded

LEMMA HitsNone ==
  ASSUME NEW s
  PROVE  Hits(s, 0) = 0
<1>1. {k \in 1..0 : s[k] = "target"} = {}
  OBVIOUS
<1> QED BY <1>1, FS_EmptySet DEF Hits

-----------------------------------------------------------------------------
(* The phases as a step may name them. *)
LEMMA PhaseNames ==
  /\ BeforeScan \subseteq Phases /\ AfterCopy \subseteq Phases /\ Cleanups \subseteq Phases
  /\ "receipt" \in Phases /\ "ended" \in Phases /\ "verify gone" \in Cleanups
  /\ "receipt" \notin BeforeScan \cup AfterCopy \cup Cleanups
  /\ "ended" \notin BeforeScan \cup AfterCopy \cup Cleanups
  /\ \A p \in Cleanups : p \notin BeforeScan /\ p \notin AfterCopy /\ p # "scan"
                         /\ p \notin {"receipt", "ended"}
BY DEF Phases, BeforeScan, AfterCopy, Cleanups

LEMMA PhaseOrder ==
  /\ DOMAIN CleanupOrder = 1..6
  /\ \A k \in 1..7 : CleanupPhase[k] \in Cleanups
  /\ \A k \in 1..7, j \in 1..7 : CleanupPhase[k] = CleanupPhase[j] => k = j
  /\ \A p \in BeforeScan \cup AfterCopy \cup {"verify gone", "receipt", "ended"} :
        \A k \in 1..7 : p = CleanupPhase[k] => k = 1
  /\ CleanupPhase[7] = "source at end" /\ CleanupPhase[1] = "verify gone"
  /\ \A name \in Names : \E j \in 1..6 : name = CleanupOrder[j]
<1>1. /\ CleanupPhase[1] = "verify gone" /\ CleanupPhase[2] = "observer gone"
      /\ CleanupPhase[3] = "copy gone" /\ CleanupPhase[4] = "prepare gone"
      /\ CleanupPhase[5] = "redis gone" /\ CleanupPhase[6] = "volume gone"
      /\ CleanupPhase[7] = "source at end"
  BY DEF CleanupPhase
<1>2. /\ CleanupOrder[1] = "verify" /\ CleanupOrder[2] = "observer" /\ CleanupOrder[3] = "copy"
      /\ CleanupOrder[4] = "prepare" /\ CleanupOrder[5] = "redis" /\ CleanupOrder[6] = "volume"
      /\ DOMAIN CleanupOrder = 1..6
  BY DEF CleanupOrder
<1>3. \A k \in 1..7 : k = 1 \/ k = 2 \/ k = 3 \/ k = 4 \/ k = 5 \/ k = 6 \/ k = 7
  OBVIOUS
<1>4. \A k \in 1..7 : CleanupPhase[k] \in Cleanups
  BY <1>1, <1>3 DEF Cleanups
<1>5. \A k \in 1..7, j \in 1..7 : CleanupPhase[k] = CleanupPhase[j] => k = j
  BY <1>1, <1>3
<1>6. \A p \in BeforeScan \cup AfterCopy \cup {"verify gone", "receipt", "ended"} :
        \A k \in 1..7 : p = CleanupPhase[k] => k = 1
  BY <1>1, <1>3 DEF BeforeScan, AfterCopy
<1>7. \A name \in Names : \E j \in 1..6 : name = CleanupOrder[j]
  <2>1. 1 \in 1..6 /\ 2 \in 1..6 /\ 3 \in 1..6 /\ 4 \in 1..6 /\ 5 \in 1..6 /\ 6 \in 1..6
    OBVIOUS
  <2> QED BY <1>2, <2>1, Zenon DEF Names
<1> QED BY <1>1, <1>2, <1>4, <1>5, <1>6, <1>7

LEMMA FirstIsFirst == \A j \in 1..6 : ~(j < 1)
OBVIOUS

(* The fields of what the script holds. *)
LEMMA ColdFields ==
  ASSUME NEW c \in ColdRec
  PROVE  /\ c.pc \in Phases /\ c.historical \in BOOLEAN /\ c.attempted \in SUBSET Names
         /\ c.todo \in SUBSET Nat /\ c.before \in Nat /\ c.layout \in Seq(Nat)
         /\ c.proof \in Nat /\ c.seen \in SeenRec /\ c.error \in BOOLEAN
         /\ c.cleanup_ok \in BOOLEAN
         /\ c.result \in Verdicts \cup Historical \cup {"FAILED_CLOSED"}
BY DEF ColdRec

LEMMA SeenFields ==
  ASSUME NEW c \in SeenRec
  PROVE  c.scanned \in Nat /\ c.matches \in Nat /\ c.complete \in BOOLEAN /\ c.state \in Verdicts
BY DEF SeenRec

LEMMA Nothing ==
  /\ NoObservation \in SeenRec /\ NoObservation.scanned = 0 /\ NoObservation.matches = 0
  /\ NoObservation.complete = FALSE /\ NoObservation.state = "none"
BY DEF NoObservation, SeenRec, Verdicts

(* A step of the script that neither copies, nor scans, nor cleans up. *)
LEMMA Frame ==
  ASSUME ColdInv, cold' \in ColdRec, source' = source, clone' = clone,
         owned' \subseteq cold'.attempted,
         cold.pc \in BeforeScan \cup AfterCopy,
         cold'.pc \in BeforeScan \cup AfterCopy \cup {"verify gone"},
         cold'.seen = cold.seen, cold'.historical = cold.historical,
         cold'.proof = cold.proof, cold'.result = cold.result,
         cold'.before <= source.stamp,
         cold'.pc \in BeforeScan => cold.pc \in BeforeScan,
         cold'.pc \in AfterCopy => cold.pc \in AfterCopy,
         cold'.pc = "scan" => cold.pc = "observer"
  PROVE  ColdInv'
<1> USE DEF ColdInv
<1>1. ColdTypeOK'
  BY DEF ColdTypeOK
<1>2. Unseen'
  BY DEF Unseen
<1>3. Taken'
  BY DEF Taken
<1>4. Counted'
  <2> SUFFICES ASSUME cold'.pc = "scan" PROVE Counted'
    BY DEF Counted
  <2> DEFINE stream == Served(clone, cold.historical)
  <2>1. cold.pc = "observer" /\ cold.pc \in AfterCopy /\ cold.seen = NoObservation
    BY DEF Unseen, BeforeScan, AfterCopy
  <2>2. Whole(clone.files, clone.manifest, clone.rdb) /\ cold.historical \in BOOLEAN
    BY <2>1, ColdFields DEF Taken, ColdTypeOK
  <2>3. stream \in Seq(Entries)
    BY <2>2, StreamTyped
  <2>4. Served(clone, cold.historical)' = stream
    BY DEF Served, Stream, Dump
  <2>5. Hits(stream, 0) = 0
    BY HitsNone
  <2> HIDE DEF stream
  <2>6. 0 <= Len(stream)
    BY <2>3
  <2> QED BY <2>1, <2>4, <2>5, <2>6, Nothing DEF Counted
<1>5. Judged'
  <2>1. Served(clone, cold.historical)' = Served(clone, cold.historical)
    BY DEF Served, Stream, Dump
  <2> QED BY <2>1 DEF Judged
<1>6. Cleaned'
  <2>1. \A k \in 1..7 : cold'.pc = CleanupPhase[k] => k = 1
    BY PhaseOrder, Zenon
  <2>2. \A j \in 1..6 : ~(j < 1)
    BY FirstIsFirst
  <2>3. CleanupPhase' = CleanupPhase /\ CleanupOrder' = CleanupOrder
    BY DEF CleanupPhase, CleanupOrder
  <2> QED BY <2>1, <2>2, <2>3 DEF Cleaned
<1>7. Reported'
  <2>1. cold'.pc \notin {"receipt", "ended"} /\ cold.pc # "ended"
    BY PhaseNames
  <2>2. cold.result = "none"
    BY <2>1 DEF Reported
  <2> QED BY <2>1, <2>2 DEF Reported
<1> QED BY <1>1, <1>2, <1>3, <1>4, <1>5, <1>6, <1>7

-----------------------------------------------------------------------------
LEMMA ColdInitially == ColdInit => ColdInv
<1> SUFFICES ASSUME ColdInit PROVE ColdInv
  OBVIOUS
<1>2. PICK h \in BOOLEAN :
        cold = [pc |-> "idle", historical |-> h, attempted |-> {}, todo |-> {},
                before |-> 0, layout |-> <<>>, proof |-> 0, seen |-> NoObservation,
                error |-> FALSE, cleanup_ok |-> TRUE, result |-> "none"]
  BY DEF ColdInit
<1>3. \A n \in Nat : \A s \in UpTo(n) : s \in Seq(Entries)
  <2> TAKE n \in Nat
  <2> TAKE s \in UpTo(n)
  <2>1. PICK k \in 0..n : s \in [1..k -> Entries]
    BY DEF UpTo
  <2>2. k \in Nat
    OBVIOUS
  <2> QED BY <2>1, <2>2
<1>4. /\ \A q \in UpTo(1) : q \in Seq(Entries)
      /\ \A q \in UpTo(2) : q \in Seq(Entries)
  <2>1. 1 \in Nat /\ 2 \in Nat
    OBVIOUS
  <2> QED BY <1>3, <2>1, Zenon
<1>d. ASSUME NEW r \in DumpFiles PROVE r = <<>> \/ \E d \in Seq(Entries) : r = <<d>>
  BY <1>4, <1>d, Zenon DEF DumpFiles
<1>1. \E f, m, r : source = Volume(f, m, r) /\ Whole(f, m, r)
  <2>1. ASSUME NEW b \in UpTo(2), NEW i \in UpTo(1), NEW r \in DumpFiles
        PROVE  Whole([n \in {1, 11} |-> IF n = 1 THEN b ELSE i], <<1, 11>>, r)
    <3>1. <<1, 11>> \in Seq(Nat) /\ ToSet(<<1, 11>>) = {1, 11}
      BY DEF ToSet
    <3>2. b \in Seq(Entries) /\ i \in Seq(Entries)
      BY <1>4
    <3>3. [n \in {1, 11} |-> IF n = 1 THEN b ELSE i] \in [{1, 11} -> Seq(Entries)]
      BY <3>2
    <3> QED BY <1>d, <3>1, <3>3 DEF Whole
  <2>2. ASSUME NEW b \in UpTo(2), NEW r \in DumpFiles
        PROVE  Whole([n \in {LegacyAof} |-> b], <<LegacyAof>>, r)
    <3>1. <<LegacyAof>> \in Seq(Nat) /\ ToSet(<<LegacyAof>>) = {LegacyAof}
      BY DEF ToSet, LegacyAof
    <3>2. [n \in {LegacyAof} |-> b] \in [{LegacyAof} -> Seq(Entries)]
      BY <1>4
    <3> QED BY <1>d, <3>1, <3>2 DEF Whole
  <2>3. ASSUME NEW q \in UpTo(2) PROVE Whole(<<>>, <<>>, <<q>>)
    <3>1. <<>> \in Seq(Nat) /\ ToSet(<<>>) = {} /\ q \in Seq(Entries)
      BY <1>4 DEF ToSet
    <3>2. <<>> \in [{} -> Seq(Entries)]
      OBVIOUS
    <3> QED BY <3>1, <3>2 DEF Whole
  <2>4. CASE \E b \in UpTo(2), i \in UpTo(1), r \in DumpFiles :
               source = Volume([n \in {1, 11} |-> IF n = 1 THEN b ELSE i], <<1, 11>>, r)
    BY <2>1, <2>4
  <2>5. CASE \E b \in UpTo(2), r \in DumpFiles :
               source = Volume([n \in {LegacyAof} |-> b], <<LegacyAof>>, r)
    BY <2>2, <2>5
  <2>6. CASE \E q \in UpTo(2) : source = Volume(<<>>, <<>>, <<q>>)
    BY <2>3, <2>6
  <2> QED BY <2>4, <2>5, <2>6 DEF ColdInit
<1>5. /\ DOMAIN source = {"running", "files", "manifest", "rdb", "stamp"}
      /\ source.running = FALSE /\ source.stamp = 0
      /\ Whole(source.files, source.manifest, source.rdb)
  BY <1>1 DEF Volume
<1>6. cold \in ColdRec
  <2>1. "idle" \in Phases /\ "none" \in Verdicts /\ <<>> \in Seq(Nat)
    BY DEF Phases, BeforeScan, Verdicts
  <2> QED BY <1>2, <2>1, Nothing DEF ColdRec
<1>7. ColdTypeOK
  <2>1. DOMAIN clone = {"files", "manifest", "rdb"}
    BY DEF ColdInit
  <2>2. owned \subseteq cold.attempted
    BY DEF ColdInit
  <2>3. source.running \in BOOLEAN /\ source.stamp \in Nat
    <3>1. FALSE \in BOOLEAN /\ 0 \in Nat
      OBVIOUS
    <3> QED BY <1>5, <3>1, Zenon
  <2> QED BY <1>5, <1>6, <2>1, <2>2, <2>3, Zenon DEF ColdTypeOK
<1>8. cold.pc = "idle" /\ cold.seen = NoObservation /\ cold.before = 0 /\ cold.proof = 0
      /\ cold.result = "none" /\ source.stamp = 0
  BY <1>2, <1>5
<1>9. "idle" \in BeforeScan /\ "idle" \notin AfterCopy /\ "idle" \notin {"receipt", "ended"}
  BY DEF BeforeScan, AfterCopy
<1>10. Cleaned
  <2>1. \A k \in 1..7 : cold.pc = CleanupPhase[k] => k = 1
    BY <1>8, <1>9, PhaseOrder, Zenon
  <2> QED BY <2>1, FirstIsFirst DEF Cleaned
<1> QED BY <1>7, <1>8, <1>9, <1>10, Nothing DEF ColdInv, Unseen, Taken, Counted, Judged, Reported

(* A part more at the end, which a Redis loads last. *)
LEMMA AddPart ==
  ASSUME NEW m \in Seq(Nat), NEW n \in Nat, NEW f \in [ToSet(m) -> Seq(Entries)]
  PROVE  Append(m, n) \in Seq(Nat) /\ With(f, n, <<>>) \in [ToSet(Append(m, n)) -> Seq(Entries)]
<1> DEFINE t == Append(m, n)
<1>1. /\ t \in Seq(Nat) /\ Len(t) = Len(m) + 1 /\ t[Len(m) + 1] = n
      /\ \A k \in 1..Len(m) : t[k] = m[k]
  OBVIOUS
<1>2. DOMAIN m = 1..Len(m) /\ DOMAIN t = 1..(Len(m) + 1) /\ Len(m) \in Nat
  OBVIOUS
<1> HIDE DEF t
<1>3. ToSet(t) = ToSet(m) \cup {n}
  <2>1. ASSUME NEW e \in ToSet(t) PROVE e \in ToSet(m) \cup {n}
    <3>1. PICK k \in 1..(Len(m) + 1) : e = t[k]
      BY <1>2 DEF ToSet
    <3>2. CASE k = Len(m) + 1
      BY <1>1, <3>1, <3>2
    <3>3. CASE k # Len(m) + 1
      <4>1. k \in 1..Len(m)
        BY <1>2, <3>3
      <4> QED BY <1>1, <1>2, <3>1, <4>1 DEF ToSet
    <3> QED BY <3>2, <3>3
  <2>2. ASSUME NEW k \in 1..Len(m) PROVE m[k] \in ToSet(t)
    <3>1. k \in 1..(Len(m) + 1) /\ m[k] = t[k]
      BY <1>1, <1>2
    <3> QED BY <1>2, <3>1 DEF ToSet
  <2>3. n \in ToSet(t)
    <3>1. Len(m) + 1 \in 1..(Len(m) + 1)
      BY <1>2
    <3> QED BY <1>1, <1>2, <3>1 DEF ToSet
  <2>4. \A e \in ToSet(m) : \E k \in 1..Len(m) : e = m[k]
    BY <1>2 DEF ToSet
  <2> QED BY <2>1, <2>2, <2>3, <2>4
<1>4. With(f, n, <<>>) \in [ToSet(m) \cup {n} -> Seq(Entries)]
  <2>1. <<>> \in Seq(Entries) /\ DOMAIN f = ToSet(m)
    OBVIOUS
  <2> QED BY <2>1 DEF With
<1> QED BY <1>1, <1>3, <1>4 DEF t

(* The older parts joined into a base. *)
LEMMA JoinParts ==
  ASSUME NEW m \in Seq(Nat), Len(m) = 3, NEW f \in [ToSet(m) -> Seq(Entries)]
  PROVE  /\ <<2, Last(m)>> \in Seq(Nat)
         /\ [n \in {2, Last(m)} |-> IF n = 2 THEN f[m[1]] \o f[m[2]] ELSE f[Last(m)]]
              \in [ToSet(<<2, Last(m)>>) -> Seq(Entries)]
<1>1. m[1] \in ToSet(m) /\ m[2] \in ToSet(m) /\ m[3] \in ToSet(m) /\ m[3] \in Nat
  <2>1. 1 \in DOMAIN m /\ 2 \in DOMAIN m /\ 3 \in DOMAIN m
    OBVIOUS
  <2>2. m[3] \in Nat
    <3>1. 3 \in 1..Len(m)
      OBVIOUS
    <3> QED BY <3>1, ElementOfSeq
  <2> QED BY <2>1, <2>2, Zenon DEF ToSet
<1>2. Last(m) = m[3]
  BY DEF Last
<1> DEFINE c == m[3]
           b == f[m[1]] \o f[m[2]]
           d == f[m[3]]
<1>3. b \in Seq(Entries) /\ d \in Seq(Entries)
  <2>1. f[m[1]] \in Seq(Entries) /\ f[m[2]] \in Seq(Entries)
    BY <1>1
  <2> QED BY <1>1, <2>1
<1>4. c \in Nat
  BY <1>1
<1> HIDE DEF b, c, d
<1>5. <<2, c>> \in Seq(Nat) /\ ToSet(<<2, c>>) = {2, c}
  BY <1>4 DEF ToSet
<1>6. [n \in {2, c} |-> IF n = 2 THEN b ELSE d] \in [{2, c} -> Seq(Entries)]
  BY <1>3
<1> QED BY <1>2, <1>5, <1>6 DEF b, c, d

(* What an operator's Redis leaves is a volume again. *)
LEMMA TouchedWhole ==
  ASSUME ColdTypeOK, SourceMoves
  PROVE  /\ DOMAIN source' = {"running", "files", "manifest", "rdb", "stamp"}
         /\ source'.running \in BOOLEAN
         /\ Whole(source'.files, source'.manifest, source'.rdb)
         /\ \/ /\ source'.stamp = source.stamp /\ source'.files = source.files
               /\ source'.manifest = source.manifest /\ source'.rdb = source.rdb
            \/ source'.stamp = source.stamp + 1
<1> DEFINE m == source.manifest
           f == source.files
           last == Last(m)
<1>0. /\ DOMAIN source = {"running", "files", "manifest", "rdb", "stamp"}
      /\ source.running \in BOOLEAN /\ source.stamp \in Nat
      /\ Whole(f, m, source.rdb)
  BY DEF ColdTypeOK
<1>m. m \in Seq(Nat) /\ f \in [ToSet(m) -> Seq(Entries)]
  BY <1>0 DEF Whole
<1>t. "target" \in Entries
  BY DEF Entries
<1>1. CASE source' = [source EXCEPT !.running = ~@]
  BY <1>0, <1>1
<1>2. CASE Touched([source EXCEPT !.files[last] = Append(@, "target")])
  <2>1. /\ source'.files = [f EXCEPT ![last] = Append(@, "target")]
        /\ source'.manifest = m /\ source'.rdb = source.rdb
        /\ source'.running = source.running /\ source'.stamp = source.stamp + 1
        /\ DOMAIN source' = {"running", "files", "manifest", "rdb", "stamp"}
    BY <1>0, <1>2 DEF Touched
  <2>2. [f EXCEPT ![last] = Append(@, "target")] \in [ToSet(m) -> Seq(Entries)]
    <3> HIDE DEF f, m, last
    <3>1. \A k \in ToSet(m) : f[k] \in Seq(Entries) /\ Append(f[k], "target") \in Seq(Entries)
      BY <1>m, <1>t
    <3> QED BY <1>m, <3>1
  <2> QED BY <1>0, <2>1, <2>2 DEF Whole
<1>3. ASSUME NEW n \in {11, 12},
             Touched([source EXCEPT !.manifest = Append(@, n), !.files = With(@, n, <<>>)])
      PROVE  /\ DOMAIN source' = {"running", "files", "manifest", "rdb", "stamp"}
             /\ source'.running \in BOOLEAN
             /\ Whole(source'.files, source'.manifest, source'.rdb)
             /\ source'.stamp = source.stamp + 1
  <2>1. /\ source'.files = With(f, n, <<>>)
        /\ source'.manifest = Append(m, n) /\ source'.rdb = source.rdb
        /\ source'.running = source.running /\ source'.stamp = source.stamp + 1
        /\ DOMAIN source' = {"running", "files", "manifest", "rdb", "stamp"}
    BY <1>0, <1>3 DEF Touched
  <2>2. n \in Nat
    OBVIOUS
  <2>3. /\ Append(m, n) \in Seq(Nat)
        /\ With(f, n, <<>>) \in [ToSet(Append(m, n)) -> Seq(Entries)]
    <3> HIDE DEF f, m
    <3> QED BY <1>m, <2>2, AddPart
  <2> QED BY <1>0, <2>1, <2>3 DEF Whole
<1>4. CASE /\ Len(m) = 3
           /\ Touched([source EXCEPT !.manifest = <<2, last>>,
                  !.files = [n \in {2, last} |-> IF n = 2 THEN @[m[1]] \o @[m[2]] ELSE @[last]]])
  <2>1. /\ source'.files = [n \in {2, last} |-> IF n = 2 THEN f[m[1]] \o f[m[2]] ELSE f[last]]
        /\ source'.manifest = <<2, last>> /\ source'.rdb = source.rdb
        /\ source'.running = source.running /\ source'.stamp = source.stamp + 1
        /\ DOMAIN source' = {"running", "files", "manifest", "rdb", "stamp"}
    BY <1>0, <1>4 DEF Touched
  <2>2. /\ <<2, last>> \in Seq(Nat)
        /\ [n \in {2, last} |-> IF n = 2 THEN f[m[1]] \o f[m[2]] ELSE f[last]]
             \in [ToSet(<<2, last>>) -> Seq(Entries)]
    <3> HIDE DEF f, m
    <3> QED BY <1>m, <1>4, JoinParts
  <2> QED BY <1>0, <2>1, <2>2 DEF Whole
<1>5. ASSUME NEW d \in Seq(Entries), Touched([source EXCEPT !.rdb = <<d>>])
      PROVE  /\ DOMAIN source' = {"running", "files", "manifest", "rdb", "stamp"}
             /\ source'.running \in BOOLEAN
             /\ Whole(source'.files, source'.manifest, source'.rdb)
             /\ source'.stamp = source.stamp + 1
  <2>1. /\ source'.files = f /\ source'.manifest = m /\ source'.rdb = <<d>>
        /\ source'.running = source.running /\ source'.stamp = source.stamp + 1
        /\ DOMAIN source' = {"running", "files", "manifest", "rdb", "stamp"}
    BY <1>0, <1>5 DEF Touched
  <2> QED BY <1>0, <2>1 DEF Whole
<1>6. Stream(source) \in Seq(Entries) /\ Append(Dump(source), "target") \in Seq(Entries)
  <2>1. Stream(source) \in Seq(Entries) /\ Dump(source) \in Seq(Entries)
    BY <1>0, StreamTyped, DumpTyped
  <2> QED BY <1>t, <2>1
<1>7. CASE \/ Touched([source EXCEPT !.rdb = <<Append(Dump(source), "target")>>])
           \/ Touched([source EXCEPT !.rdb = <<Stream(source)>>])
  BY <1>5, <1>6, <1>7
<1> QED BY <1>1, <1>2, <1>3, <1>4, <1>7 DEF SourceMoves

LEMMA MovesKeeps == ASSUME ColdInv, SourceMoves PROVE ColdInv'
<1> USE DEF ColdInv
<1>1. cold' = cold /\ clone' = clone /\ owned' = owned
  BY DEF SourceMoves
<1>2. /\ DOMAIN source' = {"running", "files", "manifest", "rdb", "stamp"}
      /\ source'.running \in BOOLEAN
      /\ Whole(source'.files, source'.manifest, source'.rdb)
      /\ \/ /\ source'.stamp = source.stamp /\ source'.files = source.files
            /\ source'.manifest = source.manifest /\ source'.rdb = source.rdb
         \/ source'.stamp = source.stamp + 1
  BY TouchedWhole
<1>3. source.stamp \in Nat /\ cold.before \in Nat /\ cold.proof \in Nat
  BY ColdFields DEF ColdTypeOK
<1>4. ColdTypeOK'
  BY <1>1, <1>2, <1>3 DEF ColdTypeOK
<1>5. Taken'
  <2>1. CASE source'.stamp = source.stamp + 1
    <3>1. source'.stamp # cold.proof /\ cold.before <= source'.stamp /\ cold.proof <= source'.stamp
      BY <1>3, <2>1 DEF Taken
    <3> QED BY <1>1, <3>1 DEF Taken
  <2>2. CASE source'.stamp = source.stamp /\ source'.files = source.files
             /\ source'.manifest = source.manifest /\ source'.rdb = source.rdb
    BY <1>1, <2>2 DEF Taken
  <2> QED BY <1>2, <2>1, <2>2
<1>6. Served(clone, cold.historical)' = Served(clone, cold.historical)
  BY <1>1 DEF Served, Stream, Dump
<1>7. Unseen' /\ Counted' /\ Judged'
  BY <1>1, <1>6 DEF Unseen, Counted, Judged
<1>8. Cleaned' /\ Reported'
  BY <1>1 DEF Cleaned, Reported, CleanupPhase, CleanupOrder
<1> QED BY <1>4, <1>5, <1>7, <1>8

-----------------------------------------------------------------------------
(* The except of execute() keeps everything but the phase and the error. *)
LEMMA CleanupFields ==
  ASSUME NEW c \in ColdRec
  PROVE  /\ ToCleanup(c) \in ColdRec /\ ToCleanup(c).pc = "verify gone"
         /\ ToCleanup(c).seen = c.seen /\ ToCleanup(c).historical = c.historical
         /\ ToCleanup(c).proof = c.proof /\ ToCleanup(c).result = c.result
         /\ ToCleanup(c).before = c.before /\ ToCleanup(c).attempted = c.attempted
<1>1. "verify gone" \in Phases
  BY PhaseNames
<1>2. ToCleanup(c) \in ColdRec
  BY <1>1 DEF ToCleanup, ColdRec
<1> QED BY <1>2 DEF ToCleanup, ColdRec

LEMMA PhaseFields ==
  ASSUME NEW c \in ColdRec, NEW p \in Phases
  PROVE  /\ [c EXCEPT !.pc = p] \in ColdRec /\ [c EXCEPT !.pc = p].pc = p
         /\ [c EXCEPT !.pc = p].seen = c.seen /\ [c EXCEPT !.pc = p].historical = c.historical
         /\ [c EXCEPT !.pc = p].proof = c.proof /\ [c EXCEPT !.pc = p].result = c.result
         /\ [c EXCEPT !.pc = p].before = c.before /\ [c EXCEPT !.pc = p].attempted = c.attempted
         /\ [c EXCEPT !.pc = p].cleanup_ok = c.cleanup_ok /\ [c EXCEPT !.pc = p].error = c.error
BY DEF ColdRec

LEMMA AttemptFields ==
  ASSUME NEW c \in ColdRec, NEW a \in SUBSET Names
  PROVE  LET d == [c EXCEPT !.attempted = a] IN
         /\ d \in ColdRec /\ d.attempted = a /\ d.pc = c.pc /\ d.seen = c.seen
         /\ d.historical = c.historical /\ d.proof = c.proof /\ d.result = c.result
         /\ d.before = c.before
BY DEF ColdRec

(* A failure anywhere in the try. *)
LEMMA FailureKeeps ==
  ASSUME ColdInv, cold.pc \in BeforeScan \cup AfterCopy, cold' = ToCleanup(cold),
         source' = source, clone' = clone, owned' = owned
  PROVE  ColdInv'
<1>1. cold \in ColdRec /\ owned \subseteq cold.attempted /\ cold.before <= source.stamp
  BY DEF ColdInv, ColdTypeOK, Taken
<1>2. "verify gone" \notin BeforeScan /\ "verify gone" \notin AfterCopy
  BY PhaseNames
<1> QED BY <1>1, <1>2, CleanupFields, Frame

(* A check that lets the script on, or not. *)
LEMMA AdvanceKeeps ==
  ASSUME ColdInv, NEW p \in BeforeScan \cup AfterCopy \cup {"verify gone"},
         cold.pc \in BeforeScan \cup AfterCopy, cold' = [cold EXCEPT !.pc = p],
         p \in BeforeScan => cold.pc \in BeforeScan,
         p \in AfterCopy => cold.pc \in AfterCopy,
         p = "scan" => cold.pc = "observer",
         source' = source, clone' = clone, owned' = owned
  PROVE  ColdInv'
<1>1. cold \in ColdRec /\ owned \subseteq cold.attempted /\ cold.before <= source.stamp
  BY DEF ColdInv, ColdTypeOK, Taken
<1>2. p \in Phases
  BY PhaseNames
<1> QED BY <1>1, <1>2, PhaseFields, Frame

LEMMA CreateKeeps ==
  ASSUME ColdInv, NEW name \in Names, NEW p \in BeforeScan \cup AfterCopy,
         cold.pc \in BeforeScan \cup AfterCopy, CreateOwned(name, p),
         p \in BeforeScan => cold.pc \in BeforeScan,
         p \in AfterCopy => cold.pc \in AfterCopy,
         p = "scan" => cold.pc = "observer"
  PROVE  ColdInv'
<1> DEFINE a == cold.attempted \cup {name}
           d == [cold EXCEPT !.attempted = a]
<1>1. /\ cold \in ColdRec /\ owned \subseteq cold.attempted /\ cold.before <= source.stamp
      /\ cold.attempted \in SUBSET Names
  BY ColdFields DEF ColdInv, ColdTypeOK, Taken
<1>2. source' = source /\ clone' = clone
  BY DEF CreateOwned
<1>3. /\ d \in ColdRec /\ d.attempted = a /\ d.seen = cold.seen
      /\ d.historical = cold.historical /\ d.proof = cold.proof /\ d.result = cold.result
      /\ d.before = cold.before
  BY <1>1, AttemptFields
<1>4. p \in Phases
  BY PhaseNames
<1>5. "verify gone" \notin BeforeScan /\ "verify gone" \notin AfterCopy
  BY PhaseNames
<1>6. owned' \subseteq a
  BY <1>1 DEF CreateOwned
<1>7. CASE cold' = ToCleanup(d)
  <2> HIDE DEF d
  <2> QED BY <1>1, <1>2, <1>3, <1>5, <1>6, <1>7, CleanupFields, Frame
<1>8. CASE cold' = [d EXCEPT !.pc = p]
  <2> HIDE DEF d
  <2>1. /\ cold' \in ColdRec /\ cold'.pc = p /\ cold'.seen = d.seen
        /\ cold'.historical = d.historical /\ cold'.proof = d.proof /\ cold'.result = d.result
        /\ cold'.before = d.before /\ cold'.attempted = d.attempted
    BY <1>3, <1>4, <1>8, PhaseFields
  <2> QED BY <1>1, <1>2, <1>3, <1>6, <2>1, Frame
<1>9. [cold EXCEPT !.attempted = @ \cup {name}, !.pc = p] = [d EXCEPT !.pc = p]
  OBVIOUS
<1> QED BY <1>7, <1>8, <1>9 DEF CreateOwned


LEMMA CreationsKeep ==
  ASSUME ColdInv,
         NewVolume \/ PrepareTarget \/ CopyWorker \/ StartClone \/ StartObserver \/ VerifyWorker
  PROVE  ColdInv'
<1>1. CASE NewVolume
  <2>1. cold.pc = "volume" /\ CreateOwned("volume", "prepare")
    BY <1>1 DEF NewVolume, ColdAt
  <2>2. /\ "volume" \in BeforeScan /\ "prepare" \in BeforeScan
        /\ "prepare" \notin AfterCopy /\ "volume" \in Names
    BY DEF BeforeScan, AfterCopy, Names
  <2> QED BY <2>1, <2>2, CreateKeeps
<1>2. CASE PrepareTarget
  <2>1. cold.pc = "prepare" /\ CreateOwned("prepare", "copy")
    BY <1>2 DEF PrepareTarget, ColdAt
  <2>2. /\ "prepare" \in BeforeScan /\ "copy" \in BeforeScan
        /\ "copy" \notin AfterCopy /\ "prepare" \in Names
    BY DEF BeforeScan, AfterCopy, Names
  <2> QED BY <2>1, <2>2, CreateKeeps
<1>3. CASE CopyWorker
  <2>1. cold.pc = "copy" /\ CreateOwned("copy", "manifest before")
    BY <1>3 DEF CopyWorker, ColdAt
  <2>2. /\ "copy" \in BeforeScan /\ "manifest before" \in BeforeScan
        /\ "manifest before" \notin AfterCopy /\ "copy" \in Names
    BY DEF BeforeScan, AfterCopy, Names
  <2> QED BY <2>1, <2>2, CreateKeeps
<1>4. CASE StartClone
  <2>1. cold.pc = "redis" /\ CreateOwned("redis", "observer")
    BY <1>4 DEF StartClone, ColdAt
  <2>2. /\ "redis" \in BeforeScan /\ "redis" \in AfterCopy
        /\ "observer" \in BeforeScan /\ "redis" \in Names
    BY DEF BeforeScan, AfterCopy, Names
  <2> QED BY <2>1, <2>2, CreateKeeps
<1>5. CASE StartObserver
  <2>1. cold.pc = "observer" /\ CreateOwned("observer", "scan")
    BY <1>5 DEF StartObserver, ColdAt
  <2>2. /\ "observer" \in AfterCopy /\ "scan" \in AfterCopy
        /\ "scan" \notin BeforeScan /\ "observer" \in Names
    BY DEF BeforeScan, AfterCopy, Names
  <2> QED BY <2>1, <2>2, CreateKeeps
<1>6. CASE VerifyWorker
  <2>1. cold.pc = "verify" /\ CreateOwned("verify", "manifest probe")
    BY <1>6 DEF VerifyWorker, ColdAt
  <2>2. /\ "verify" \in AfterCopy /\ "manifest probe" \in AfterCopy /\ "manifest probe" \notin BeforeScan
        /\ "verify" \in Names
    BY DEF BeforeScan, AfterCopy, Names
  <2> QED BY <2>1, <2>2, CreateKeeps
<1> QED BY <1>1, <1>2, <1>3, <1>4, <1>5, <1>6

LEMMA ChecksKeep ==
  ASSUME ColdInv, LaunchCopy \/ SourceAfterCopy \/ SourceAfterProbe \/ CallFailsCold
  PROVE  ColdInv'
<1>1. CASE LaunchCopy
  <2>1. /\ cold.pc = "idle" /\ source' = source /\ clone' = clone /\ owned' = owned
        /\ \E p \in {"volume", "refused"} : cold' = [cold EXCEPT !.pc = p]
    BY <1>1 DEF LaunchCopy, ColdAt, Proceed
  <2>2. /\ "idle" \in BeforeScan
        /\ \A p \in {"volume", "refused"} : p \in BeforeScan /\ p \notin AfterCopy /\ p # "scan"
    BY DEF BeforeScan, AfterCopy
  <2> QED BY <2>1, <2>2, AdvanceKeeps
<1>2. CASE SourceAfterCopy
  <2>1. /\ cold.pc = "source after copy" /\ source' = source /\ clone' = clone /\ owned' = owned
        /\ cold' = [cold EXCEPT !.pc = "redis"] \/ cold' = ToCleanup(cold)
    BY <1>2 DEF SourceAfterCopy, ColdAt, Proceed
  <2>2. /\ "source after copy" \in BeforeScan /\ "source after copy" \in AfterCopy
        /\ "redis" \in BeforeScan
    BY DEF BeforeScan, AfterCopy
  <2> QED BY <2>1, <2>2, AdvanceKeeps, FailureKeeps
<1>3. CASE SourceAfterProbe
  <2>1. /\ cold.pc = "manifest probe" /\ source' = source /\ clone' = clone /\ owned' = owned
        /\ cold' = [cold EXCEPT !.pc = "verify gone"] \/ cold' = ToCleanup(cold)
    BY <1>3 DEF SourceAfterProbe, ColdAt, Proceed
  <2>2. /\ "manifest probe" \in AfterCopy /\ "verify gone" \notin BeforeScan
        /\ "verify gone" \notin AfterCopy
    BY DEF BeforeScan, AfterCopy
  <2> QED BY <2>1, <2>2, AdvanceKeeps, FailureKeeps
<1>4. CASE CallFailsCold
  <2>1. /\ source' = source /\ clone' = clone /\ owned' = owned /\ cold' = ToCleanup(cold)
        /\ cold.pc \in {"volume", "manifest before", "copy tree", "manifest after",
                        "source after copy", "scan", "manifest probe"}
    BY <1>4 DEF CallFailsCold
  <2>2. cold.pc \in BeforeScan \cup AfterCopy
    BY <2>1 DEF BeforeScan, AfterCopy
  <2> QED BY <2>1, <2>2, FailureKeeps
<1> QED BY <1>1, <1>2, <1>3, <1>4

-----------------------------------------------------------------------------
LEMMA BeforeKeeps == ASSUME ColdInv, ManifestBefore PROVE ColdInv'
<1>1. cold.pc = "manifest before" /\ source' = source /\ clone' = clone /\ owned' = owned
  BY DEF ManifestBefore, ColdAt, Proceed
<1>2. /\ cold \in ColdRec /\ owned \subseteq cold.attempted /\ cold.before <= source.stamp
      /\ source.stamp \in Nat /\ Whole(source.files, source.manifest, source.rdb)
  BY DEF ColdInv, ColdTypeOK, Taken
<1>3. /\ "manifest before" \in BeforeScan /\ "copy tree" \in BeforeScan
      /\ "copy tree" \notin AfterCopy
  BY DEF BeforeScan, AfterCopy
<1>4. CASE cold' = ToCleanup(cold)
  BY <1>1, <1>3, <1>4, FailureKeeps
<1>5. CASE cold' = [cold EXCEPT !.before = source.stamp, !.layout = source.manifest,
                                !.todo = DOMAIN source.files \cup {0, 99}, !.pc = "copy tree"]
  <2>1. source.manifest \in Seq(Nat) /\ DOMAIN source.files \cup {0, 99} \in SUBSET Nat
    <3>1. source.manifest \in Seq(Nat) /\ DOMAIN source.files = ToSet(source.manifest)
      BY <1>2 DEF Whole
    <3>2. ToSet(source.manifest) \subseteq Nat
      BY <3>1 DEF ToSet
    <3> QED BY <3>1, <3>2
  <2>2. "copy tree" \in Phases
    BY <1>3, PhaseNames
  <2> DEFINE m == source.manifest
             d == DOMAIN source.files \cup {0, 99}
             n == source.stamp
  <2> HIDE DEF m, d, n
  <2>3. cold' = [cold EXCEPT !.before = n, !.layout = m, !.todo = d, !.pc = "copy tree"]
    BY <1>5 DEF m, d, n
  <2>4. m \in Seq(Nat) /\ d \in SUBSET Nat /\ n \in Nat
    BY <1>2, <2>1 DEF m, d, n
  <2>5. cold' \in ColdRec
    BY <1>2, <2>2, <2>3, <2>4 DEF ColdRec
  <2>6. /\ cold'.pc = "copy tree" /\ cold'.seen = cold.seen /\ cold'.historical = cold.historical
        /\ cold'.proof = cold.proof /\ cold'.result = cold.result /\ cold'.before = n
        /\ cold'.attempted = cold.attempted
    BY <1>2, <2>3 DEF ColdRec
  <2>7. n <= source.stamp
    BY <1>2 DEF n
  <2> QED BY <1>1, <1>2, <1>3, <2>5, <2>6, <2>7, Frame
<1> QED BY <1>4, <1>5 DEF ManifestBefore, Proceed

(* While the tree is copied nothing is claimed of the clone. *)
LEMMA CopyKeeps == ASSUME ColdInv, CopyTree PROVE ColdInv'
<1>1. cold.pc = "copy tree" /\ source' = source /\ owned' = owned
  BY DEF CopyTree, ColdAt, Proceed
<1>2. /\ cold \in ColdRec /\ owned \subseteq cold.attempted
      /\ DOMAIN clone = {"files", "manifest", "rdb"}
  BY DEF ColdInv, ColdTypeOK
<1>3. /\ "copy tree" \in BeforeScan /\ "manifest after" \in BeforeScan /\ "copy tree" \notin AfterCopy
      /\ "manifest after" \notin AfterCopy
  BY DEF BeforeScan, AfterCopy
<1>4. CASE cold' = ToCleanup(cold) /\ clone' = clone
  BY <1>1, <1>3, <1>4, FailureKeeps
<1>5. CASE cold' = [cold EXCEPT !.pc = "manifest after"] /\ clone' = clone
  BY <1>1, <1>3, <1>5, AdvanceKeeps
<1>6. ASSUME NEW n, clone' = CopyFile(n), cold' = [cold EXCEPT !.todo = @ \ {n}] PROVE ColdInv'
  <2>1. cold.seen = NoObservation /\ cold.result = "none"
    BY <1>1, <1>3 DEF ColdInv, Unseen, Reported
  <2>2. DOMAIN clone' = {"files", "manifest", "rdb"}
    BY <1>2, <1>6 DEF CopyFile
  <2>3. cold' \in ColdRec
    BY <1>2, <1>6 DEF ColdRec
  <2>4. /\ cold'.pc = cold.pc /\ cold'.seen = cold.seen /\ cold'.historical = cold.historical
        /\ cold'.proof = cold.proof /\ cold'.result = cold.result /\ cold'.before = cold.before
        /\ cold'.attempted = cold.attempted
    BY <1>2, <1>6 DEF ColdRec
  <2>5. ColdTypeOK'
    BY <1>1, <1>2, <2>2, <2>3, <2>4 DEF ColdInv, ColdTypeOK
  <2>6. Taken'
    BY <1>1, <1>3, <2>1, <2>4, Nothing DEF ColdInv, Taken
  <2>7. Unseen' /\ Judged' /\ Counted'
    BY <1>1, <1>3, <2>1, <2>4, Nothing DEF Unseen, Judged, Counted
  <2>8. Cleaned'
    <3>1. \A k \in 1..7 : cold'.pc = CleanupPhase[k] => k = 1
      BY <1>1, <1>3, <2>4, PhaseOrder, Zenon
    <3>2. CleanupPhase' = CleanupPhase /\ CleanupOrder' = CleanupOrder
      BY DEF CleanupPhase, CleanupOrder
    <3> QED BY <3>1, <3>2, FirstIsFirst DEF Cleaned
  <2>9. Reported'
    BY <1>1, <2>1, <2>4 DEF Reported
  <2> QED BY <2>5, <2>6, <2>7, <2>8, <2>9 DEF ColdInv
<1> QED BY <1>4, <1>5, <1>6 DEF CopyTree, Proceed

(* The copy is accepted: it is what the original holds now. *)
LEMMA AfterKeeps == ASSUME ColdInv, ManifestAfter PROVE ColdInv'
<1>1. cold.pc = "manifest after" /\ source' = source /\ clone' = clone /\ owned' = owned
  BY DEF ManifestAfter, ColdAt, Proceed
<1>2. /\ cold \in ColdRec /\ owned \subseteq cold.attempted
      /\ DOMAIN clone = {"files", "manifest", "rdb"}
      /\ cold.before \in Nat /\ cold.before <= source.stamp
      /\ Whole(source.files, source.manifest, source.rdb)
  BY ColdFields DEF ColdInv, ColdTypeOK, Taken
<1>3. "manifest after" \in BeforeScan /\ "source after copy" \in BeforeScan
  BY DEF BeforeScan, AfterCopy
<1>4. CASE cold' = ToCleanup(cold)
  BY <1>1, <1>3, <1>4, FailureKeeps
<1>5. CASE CopyIsConsistent /\ cold' = [cold EXCEPT !.proof = cold.before, !.pc = "source after copy"]
  <2>1. clone.files = source.files /\ clone.manifest = source.manifest /\ clone.rdb = source.rdb
    BY <1>2, <1>5 DEF CopyIsConsistent
  <2>2. "source after copy" \in Phases
    BY <1>3, PhaseNames
  <2>3. cold' \in ColdRec
    <3> DEFINE n == cold.before
    <3> HIDE DEF n
    <3>1. n \in Nat /\ cold' = [cold EXCEPT !.proof = n, !.pc = "source after copy"]
      BY <1>2, <1>5 DEF n
    <3> QED BY <1>2, <2>2, <3>1 DEF ColdRec
  <2>4. /\ cold'.pc = "source after copy" /\ cold'.seen = cold.seen
        /\ cold'.proof = cold.before /\ cold'.result = cold.result /\ cold'.before = cold.before
        /\ cold'.attempted = cold.attempted
    BY <1>2, <1>5 DEF ColdRec
  <2>5. cold.seen = NoObservation /\ cold.result = "none"
    BY <1>1, <1>3 DEF ColdInv, Unseen, Reported
  <2>6. ColdTypeOK'
    BY <1>1, <2>3, <2>4 DEF ColdInv, ColdTypeOK
  <2>7. Taken'
    BY <1>1, <1>2, <2>1, <2>4 DEF Taken
  <2>8. Unseen' /\ Judged' /\ Counted'
    BY <2>4, <2>5, Nothing DEF Unseen, Judged, Counted
  <2>9. Cleaned'
    <3>1. \A k \in 1..7 : cold'.pc = CleanupPhase[k] => k = 1
      BY <1>3, <2>4, PhaseOrder, Zenon
    <3>2. CleanupPhase' = CleanupPhase /\ CleanupOrder' = CleanupOrder
      BY DEF CleanupPhase, CleanupOrder
    <3> QED BY <3>1, <3>2, FirstIsFirst DEF Cleaned
  <2>10. Reported'
    BY <2>4, <2>5 DEF Reported
  <2> QED BY <2>6, <2>7, <2>8, <2>9, <2>10 DEF ColdInv
<1> QED BY <1>4, <1>5 DEF ManifestAfter, Proceed

-----------------------------------------------------------------------------
(* A page carries the count on, and a page that is not full is the last. *)
LEMMA PageIsRight ==
  ASSUME ColdInv, cold.pc = "scan", cold.seen.scanned < MaxScan
  PROVE  LET stream == Served(clone, cold.historical)
             seen == ScanPage
         IN  /\ seen \in SeenRec /\ seen.state = cold.seen.state
             /\ seen.scanned <= Len(stream) /\ seen.matches = Hits(stream, seen.scanned)
             /\ seen.complete => seen.scanned = Len(stream)
<1> DEFINE stream == Served(clone, cold.historical)
           from == cold.seen.scanned
           count == IF PageSize < MaxScan - from THEN PageSize ELSE MaxScan - from
           to == IF from + count < Len(stream) THEN from + count ELSE Len(stream)
           page == SubSeq(stream, from + 1, to)
           seen == [cold.seen EXCEPT !.scanned = from + Len(page),
                                     !.matches = @ + Occurrences(page),
                                     !.complete = Len(page) < count]
<1>1. /\ cold.seen \in SeenRec /\ cold.historical \in BOOLEAN
      /\ Whole(clone.files, clone.manifest, clone.rdb)
  <2>1. "scan" \in AfterCopy
    BY DEF AfterCopy
  <2> QED BY <2>1, ColdFields DEF ColdInv, ColdTypeOK, Taken
<1>2. stream \in Seq(Entries)
  BY <1>1, StreamTyped
<1>3. from \in Nat /\ from <= Len(stream) /\ cold.seen.matches = Hits(stream, from)
      /\ cold.seen.matches \in Nat
  BY <1>1, SeenFields DEF ColdInv, Counted
<1>4. ScanPage = seen
  BY DEF ScanPage
<1> HIDE DEF stream
<1>5. Len(stream) \in Nat
  BY <1>2
<1>6. from < MaxScan /\ MaxScan \in Nat /\ PageSize \in Nat /\ PageSize > 0
  BY ColdAssumption
<1>7. count \in Nat
  BY <1>3, <1>6
<1>8. to \in Nat /\ from <= to /\ to <= Len(stream) /\ (to - from < count => to = Len(stream))
  <2> HIDE DEF count
  <2> QED BY <1>3, <1>5, <1>7
<1> HIDE DEF to, from, count
<1>9. page \in Seq(Entries) /\ Len(page) = to - from /\ from + Len(page) = to
  BY <1>2, <1>3, <1>5, <1>8
<1>10. Hits(stream, to) = Hits(stream, from) + Occurrences(page)
  BY <1>2, <1>3, <1>8, HitsMore
<1>11. Occurrences(page) \in Nat
  BY <1>9, PageCounted
<1> HIDE DEF page
<1>12. /\ seen.scanned = to /\ seen.matches = Hits(stream, to)
       /\ seen.complete = (Len(page) < count) /\ seen.state = cold.seen.state
  <2>1. /\ seen.scanned = from + Len(page) /\ seen.matches = cold.seen.matches + Occurrences(page)
        /\ seen.complete = (Len(page) < count) /\ seen.state = cold.seen.state
    BY <1>1 DEF SeenRec
  <2> QED BY <1>3, <1>9, <1>10, <2>1
<1>13. seen \in SeenRec
  <2> DEFINE a == from + Len(page)
             b == cold.seen.matches + Occurrences(page)
             c == Len(page) < count
  <2>1. a \in Nat /\ b \in Nat
    BY <1>3, <1>8, <1>9, <1>11
  <2>2. c \in BOOLEAN
    OBVIOUS
  <2>3. seen = [cold.seen EXCEPT !.scanned = a, !.matches = b, !.complete = c]
    OBVIOUS
  <2> HIDE DEF a, b, c, seen
  <2> QED BY <1>1, <2>1, <2>2, <2>3 DEF SeenRec
<1>14. seen.complete => to = Len(stream)
  BY <1>8, <1>9, <1>12
<1> QED BY <1>4, <1>8, <1>12, <1>13, <1>14 DEF stream

LEMMA ScanKeeps == ASSUME ColdInv, Scan PROVE ColdInv'
<1> DEFINE stream == Served(clone, cold.historical)
           seen == cold.seen
           over == seen.complete \/ seen.matches > 1 \/ seen.scanned >= MaxScan
<1>1. cold.pc = "scan" /\ source' = source /\ clone' = clone /\ owned' = owned
  BY DEF Scan, ColdAt, Proceed
<1>2. /\ cold \in ColdRec /\ owned \subseteq cold.attempted /\ seen \in SeenRec
      /\ cold.historical \in BOOLEAN
  BY ColdFields DEF ColdInv, ColdTypeOK
<1>3. /\ "scan" \in AfterCopy /\ "verify" \in AfterCopy
      /\ "scan" \notin BeforeScan /\ "verify" \notin BeforeScan
  BY DEF BeforeScan, AfterCopy
<1>4. Whole(clone.files, clone.manifest, clone.rdb)
  BY <1>1, <1>3 DEF ColdInv, Taken
<1>5. stream \in Seq(Entries)
  BY <1>2, <1>4, StreamTyped
<1>6. /\ seen.state = "none" /\ seen.scanned <= Len(stream)
      /\ seen.matches = Hits(stream, seen.scanned)
      /\ seen.complete => seen.scanned = Len(stream)
  BY <1>1 DEF ColdInv, Counted
<1>7. /\ seen.scanned \in Nat /\ seen.matches \in Nat /\ seen.complete \in BOOLEAN
  BY <1>2, SeenFields
<1>8. cold.result = "none"
  BY <1>1 DEF ColdInv, Reported
<1>9. ASSUME cold' \in ColdRec, cold'.pc \in {"scan", "verify"}, cold'.historical = cold.historical,
             cold'.proof = cold.proof, cold'.before = cold.before, cold'.result = cold.result,
             cold'.attempted = cold.attempted,
             cold'.pc = "scan" => /\ cold'.seen.state = "none"
                                  /\ cold'.seen.scanned <= Len(stream)
                                  /\ cold'.seen.matches = Hits(stream, cold'.seen.scanned)
                                  /\ cold'.seen.complete => cold'.seen.scanned = Len(stream),
             cold'.seen.state # "none" => Judgement(stream, cold'.seen.state)
      PROVE  ColdInv'
  <2>1. Served(clone, cold.historical)' = stream
    BY <1>1, <1>9 DEF Served, Stream, Dump
  <2> HIDE DEF stream
  <2>2. ColdTypeOK'
    BY <1>1, <1>2, <1>9 DEF ColdInv, ColdTypeOK
  <2>3. Unseen'
    BY <1>3, <1>9 DEF Unseen
  <2>4. Taken'
    BY <1>1, <1>3, <1>9 DEF ColdInv, Taken
  <2>5. Counted'
    BY <1>9, <2>1 DEF Counted
  <2>6. Judged'
    BY <1>9, <2>1 DEF Judged
  <2>7. Cleaned'
    <3>1. cold'.pc \in AfterCopy
      BY <1>3, <1>9
    <3>2. \A k \in 1..7 : cold'.pc = CleanupPhase[k] => k = 1
      BY <3>1, PhaseOrder, Zenon
    <3>3. CleanupPhase' = CleanupPhase /\ CleanupOrder' = CleanupOrder
      BY DEF CleanupPhase, CleanupOrder
    <3> QED BY <3>2, <3>3, FirstIsFirst DEF Cleaned
  <2>8. Reported'
    BY <1>8, <1>9 DEF Reported
  <2> QED BY <2>2, <2>3, <2>4, <2>5, <2>6, <2>7, <2>8 DEF ColdInv
<1>10. CASE over
  <2>1. cold' = [cold EXCEPT !.seen.state = Classification(seen), !.pc = "verify"]
    BY <1>10 DEF Scan, Proceed
  <2> DEFINE v == Classification(seen)
  <2>2. v \in Verdicts /\ v # "none" /\ Judgement(stream, v)
    <3>1. Hits(stream, seen.scanned) \in Nat /\ Occurrences(stream) \in Nat
          /\ Hits(stream, seen.scanned) <= Occurrences(stream)
          /\ (seen.scanned = Len(stream) => Hits(stream, seen.scanned) = Occurrences(stream))
      <4> HIDE DEF stream
      <4> QED BY <1>5, <1>6, <1>7, HitsBounded
    <3>2. v \in Verdicts /\ v # "none"
      BY DEF Classification, Verdicts
    <3>3. v = "POSITIVE_ACCEPTED" => seen.complete /\ seen.matches = 1
      BY DEF Classification
    <3>4. v = "CONFLICT" => seen.matches > 1
      BY DEF Classification
    <3>5. v = "INCONCLUSIVE_ZERO_MATCH" => seen.complete /\ ~(seen.matches > 1) /\ seen.matches # 1
      BY DEF Classification
    <3> HIDE DEF stream, v
    <3>6. v = "POSITIVE_ACCEPTED" => Occurrences(stream) = 1
      BY <1>6, <3>1, <3>3
    <3>7. v = "CONFLICT" => Occurrences(stream) > 1
      BY <1>6, <1>7, <3>1, <3>4
    <3>8. v = "INCONCLUSIVE_ZERO_MATCH" => Occurrences(stream) = 0
      BY <1>6, <1>7, <3>1, <3>5
    <3> QED BY <3>2, <3>6, <3>7, <3>8 DEF Judgement
  <2> HIDE DEF v, stream
  <2>3. cold' = [cold EXCEPT !.seen.state = v, !.pc = "verify"]
    BY <2>1 DEF v
  <2>4. "verify" \in Phases
    BY <1>3, PhaseNames
  <2>5. cold' \in ColdRec
    <3>1. [cold.seen EXCEPT !.state = v] \in SeenRec
      BY <1>2, <2>2 DEF SeenRec
    <3> DEFINE w == [cold.seen EXCEPT !.state = v]
    <3>2. cold' = [cold EXCEPT !.seen = w, !.pc = "verify"]
      BY <2>3
    <3> HIDE DEF w
    <3>3. w \in SeenRec
      BY <3>1 DEF w
    <3> QED BY <1>2, <2>4, <3>2, <3>3 DEF ColdRec
  <2>6. /\ cold'.pc = "verify" /\ cold'.historical = cold.historical
        /\ cold'.proof = cold.proof /\ cold'.before = cold.before /\ cold'.result = cold.result
        /\ cold'.attempted = cold.attempted /\ cold'.seen = [cold.seen EXCEPT !.state = v]
    BY <1>2, <2>3 DEF ColdRec
  <2>7. cold'.seen.state = v
    BY <1>2, <2>6 DEF SeenRec
  <2> QED BY <1>9, <2>2, <2>5, <2>6, <2>7
<1>11. CASE ~over
  <2>1. cold' = [cold EXCEPT !.seen = ScanPage]
    BY <1>11 DEF Scan, Proceed
  <2>2. seen.scanned < MaxScan
    BY <1>7, <1>11, ColdAssumption
  <2>3. /\ ScanPage \in SeenRec /\ ScanPage.state = cold.seen.state
        /\ ScanPage.scanned <= Len(stream) /\ ScanPage.matches = Hits(stream, ScanPage.scanned)
        /\ ScanPage.complete => ScanPage.scanned = Len(stream)
    BY <1>1, <2>2, PageIsRight
  <2>4. cold' \in ColdRec
    BY <1>2, <2>1, <2>3 DEF ColdRec
  <2>5. /\ cold'.pc = cold.pc /\ cold'.historical = cold.historical
        /\ cold'.proof = cold.proof /\ cold'.before = cold.before /\ cold'.result = cold.result
        /\ cold'.attempted = cold.attempted /\ cold'.seen = ScanPage
    BY <1>2, <2>1 DEF ColdRec
  <2> HIDE DEF stream
  <2> QED BY <1>1, <1>6, <1>9, <2>3, <2>4, <2>5
<1> QED BY <1>10, <1>11

-----------------------------------------------------------------------------
(* A step after the try: nothing seen or taken changes any more. *)
LEMMA TailFrame ==
  ASSUME ColdInv, cold' \in ColdRec, source' = source, clone' = clone,
         owned' \subseteq cold'.attempted,
         cold'.pc \in Cleanups \cup {"receipt", "ended"},
         cold'.seen = cold.seen, cold'.historical = cold.historical,
         cold'.proof = cold.proof, cold'.before = cold.before,
         Cleaned', Reported'
  PROVE  ColdInv'
<1>1. cold'.pc \notin BeforeScan /\ cold'.pc \notin AfterCopy /\ cold'.pc # "scan"
  <2>1. "receipt" # "scan" /\ "ended" # "scan"
    OBVIOUS
  <2> QED BY <2>1, PhaseNames
<1>2. ColdTypeOK'
  BY DEF ColdInv, ColdTypeOK
<1>3. Served(clone, cold.historical)' = Served(clone, cold.historical)
  BY DEF Served, Stream, Dump
<1>4. Unseen' /\ Counted'
  BY <1>1 DEF Unseen, Counted
<1>5. Judged'
  BY <1>3 DEF ColdInv, Judged
<1>6. Taken'
  BY <1>1 DEF ColdInv, Taken
<1> QED BY <1>2, <1>4, <1>5, <1>6 DEF ColdInv

LEMMA RemoveKeeps ==
  ASSUME ColdInv, NEW k \in DOMAIN CleanupOrder, RemoveOwned(k)
  PROVE  ColdInv'
<1> DEFINE name == CleanupOrder[k]
           next == [cold EXCEPT !.pc = CleanupPhase[k + 1]]
<1>1. k \in 1..6 /\ k \in 1..7 /\ k + 1 \in 1..7 /\ \A j \in 1..6 : j < k + 1 => j < k \/ j = k
  <2>1. k \in 1..6
    BY PhaseOrder
  <2> QED BY <2>1
<1>2. cold.pc = CleanupPhase[k] /\ source' = source /\ clone' = clone
  BY DEF RemoveOwned, ColdAt, Proceed
<1>3. /\ cold \in ColdRec /\ owned \subseteq cold.attempted
  BY DEF ColdInv, ColdTypeOK
<1>4. CleanupPhase[k + 1] \in Cleanups /\ cold.pc \in Cleanups /\ CleanupPhase[k + 1] \in Phases
  BY <1>1, <1>2, PhaseOrder, PhaseNames
<1>5. /\ next \in ColdRec /\ next.pc = CleanupPhase[k + 1]
      /\ next.seen = cold.seen /\ next.historical = cold.historical
      /\ next.proof = cold.proof /\ next.result = cold.result
      /\ next.before = cold.before /\ next.attempted = cold.attempted
      /\ next.cleanup_ok = cold.cleanup_ok
  BY <1>3, <1>4, PhaseFields
<1> HIDE DEF next
<1>6. /\ [next EXCEPT !.cleanup_ok = FALSE] \in ColdRec
      /\ [next EXCEPT !.cleanup_ok = FALSE].pc = next.pc
      /\ [next EXCEPT !.cleanup_ok = FALSE].seen = next.seen
      /\ [next EXCEPT !.cleanup_ok = FALSE].historical = next.historical
      /\ [next EXCEPT !.cleanup_ok = FALSE].proof = next.proof
      /\ [next EXCEPT !.cleanup_ok = FALSE].result = next.result
      /\ [next EXCEPT !.cleanup_ok = FALSE].before = next.before
      /\ [next EXCEPT !.cleanup_ok = FALSE].attempted = next.attempted
      /\ [next EXCEPT !.cleanup_ok = FALSE].cleanup_ok = FALSE
  BY <1>5 DEF ColdRec
<1>7. /\ owned' \subseteq owned
      /\ cold' = next \/ cold' = [next EXCEPT !.cleanup_ok = FALSE]
      /\ cold' = [next EXCEPT !.cleanup_ok = FALSE] \/ name \notin owned'
  <2>1. CASE name \notin cold.attempted /\ Proceed(next)
    BY <1>3, <2>1 DEF Proceed
  <2>2. CASE /\ cold' = IF name \in owned THEN next ELSE [next EXCEPT !.cleanup_ok = FALSE]
             /\ owned' = owned \ {name}
    BY <2>2
  <2>3. CASE cold' = [next EXCEPT !.cleanup_ok = FALSE] /\ owned' \in {owned, owned \ {name}}
    BY <2>3
  <2> QED BY <2>1, <2>2, <2>3 DEF RemoveOwned, next
<1>8. /\ cold' \in ColdRec /\ cold'.pc = CleanupPhase[k + 1]
      /\ cold'.seen = cold.seen /\ cold'.historical = cold.historical
      /\ cold'.proof = cold.proof /\ cold'.result = cold.result
      /\ cold'.before = cold.before /\ cold'.attempted = cold.attempted
  BY <1>5, <1>6, <1>7
<1>9. cold'.cleanup_ok => cold.cleanup_ok /\ name \notin owned'
  BY <1>5, <1>6, <1>7
<1>10. Cleaned'
  <2>1. CleanupPhase' = CleanupPhase /\ CleanupOrder' = CleanupOrder
    BY DEF CleanupPhase, CleanupOrder
  <2>2. ASSUME cold'.cleanup_ok, NEW j \in 1..6, j < k + 1 PROVE CleanupOrder[j] \notin owned'
    <3>1. CASE j = k
      BY <1>9, <2>2, <3>1
    <3>2. CASE j < k
      <4>1. CleanupOrder[j] \notin owned
        BY <1>1, <1>2, <1>9, <2>2, <3>2 DEF ColdInv, Cleaned
      <4> QED BY <1>7, <4>1
    <3> QED BY <1>1, <2>2, <3>1, <3>2
  <2>3. \A m \in 1..7 : cold'.pc = CleanupPhase[m] => m = k + 1
    <3>1. k + 1 \in 1..7
      BY <1>1
    <3>2. \A m \in 1..7, j \in 1..7 : CleanupPhase[m] = CleanupPhase[j] => m = j
      BY PhaseOrder
    <3> QED BY <1>8, <3>1, <3>2, Zenon
  <2> QED BY <2>1, <2>2, <2>3 DEF Cleaned
<1>11. Reported'
  <2>1. cold.pc \notin {"receipt", "ended"} /\ cold'.pc \notin {"receipt", "ended"}
    BY <1>4, <1>8, PhaseNames
  <2>2. cold.result = "none"
    BY <2>1 DEF ColdInv, Reported
  <2> QED BY <1>8, <2>1, <2>2 DEF Reported
<1>12. owned' \subseteq cold'.attempted
  BY <1>3, <1>7, <1>8
<1> QED BY <1>2, <1>4, <1>8, <1>10, <1>11, <1>12, TailFrame

LEMMA EndKeeps == ASSUME ColdInv, SourceAtEnd PROVE ColdInv'
<1>1. cold.pc = "source at end" /\ source' = source /\ clone' = clone /\ owned' = owned
  BY DEF SourceAtEnd, ColdAt, Proceed
<1>2. /\ cold \in ColdRec /\ owned \subseteq cold.attempted /\ cold.attempted \in SUBSET Names
      /\ cold.error \in BOOLEAN /\ cold.cleanup_ok \in BOOLEAN /\ source.running \in BOOLEAN
  BY ColdFields DEF ColdInv, ColdTypeOK
<1>3. PICK e \in BOOLEAN : /\ cold' = [cold EXCEPT !.error = e, !.pc = "receipt"]
                           /\ e \/ cold.cleanup_ok
  <2>1. CASE cold' = [cold EXCEPT !.error = @ \/ ~cold.cleanup_ok \/ ~SourceIsCold, !.pc = "receipt"]
    <3> DEFINE e == cold.error \/ ~cold.cleanup_ok \/ ~SourceIsCold
    <3>1. e \in BOOLEAN /\ (e \/ cold.cleanup_ok)
      BY <1>2
    <3>2. cold' = [cold EXCEPT !.error = e, !.pc = "receipt"]
      BY <2>1
    <3> QED BY <3>1, <3>2
  <2>2. CASE cold' = [cold EXCEPT !.error = TRUE, !.pc = "receipt"]
    BY <2>2
  <2> QED BY <2>1, <2>2 DEF SourceAtEnd, Proceed
<1>4. cold' \in ColdRec
  BY <1>2, <1>3, PhaseNames DEF ColdRec
<1>5. /\ cold'.pc = "receipt" /\ cold'.seen = cold.seen /\ cold'.historical = cold.historical
      /\ cold'.proof = cold.proof /\ cold'.result = cold.result /\ cold'.error = e
      /\ cold'.before = cold.before /\ cold'.attempted = cold.attempted
  BY <1>2, <1>3 DEF ColdRec
<1>6. cold.cleanup_ok => owned = {}
  <2> SUFFICES ASSUME cold.cleanup_ok, NEW n \in owned PROVE FALSE
    OBVIOUS
  <2>1. PICK j \in 1..6 : n = CleanupOrder[j]
    BY <1>2, PhaseOrder
  <2>2. 7 \in 1..7 /\ j < 7
    OBVIOUS
  <2> QED BY <1>1, <2>1, <2>2, PhaseOrder DEF ColdInv, Cleaned
<1>7. cold.result = "none"
  BY <1>1 DEF ColdInv, Reported
<1>8. Reported'
  BY <1>1, <1>3, <1>5, <1>6, <1>7 DEF Reported
<1>9. Cleaned'
  <2>1. \A k \in 1..7 : cold'.pc = CleanupPhase[k] => k = 1
    BY <1>5, PhaseOrder, Zenon
  <2>2. CleanupPhase' = CleanupPhase /\ CleanupOrder' = CleanupOrder
    BY DEF CleanupPhase, CleanupOrder
  <2> QED BY <2>1, <2>2, FirstIsFirst DEF Cleaned
<1> QED BY <1>1, <1>2, <1>4, <1>5, <1>8, <1>9, TailFrame

(* A historical image never admits, whatever was seen. *)
LEMMA ClassificationTyped ==
  ASSUME NEW state \in Verdicts, NEW h \in BOOLEAN, state # "none"
  PROVE  /\ ReceiptClassification(state, h) \in Verdicts \cup Historical
         /\ h => ReceiptClassification(state, h) # "POSITIVE_ACCEPTED"
BY DEF ReceiptClassification, Verdicts, Historical

LEMMA ReceiptKeeps == ASSUME ColdInv, ColdReceipt PROVE ColdInv'
<1> DEFINE r == IF cold.error \/ cold.seen.state = "none" THEN "FAILED_CLOSED"
                ELSE ReceiptClassification(cold.seen.state, cold.historical)
<1>1. /\ cold.pc = "receipt" /\ source' = source /\ clone' = clone /\ owned' = owned
      /\ cold' = [cold EXCEPT !.pc = "ended", !.result = r]
  BY DEF ColdReceipt, ColdAt, Proceed
<1>2. /\ cold \in ColdRec /\ owned \subseteq cold.attempted /\ cold.seen \in SeenRec
      /\ cold.error \in BOOLEAN /\ cold.historical \in BOOLEAN
  BY ColdFields DEF ColdInv, ColdTypeOK
<1>3. cold.seen.state \in Verdicts
  BY <1>2, SeenFields
<1>4. /\ r \in Verdicts \cup Historical \cup {"FAILED_CLOSED"}
      /\ r # "FAILED_CLOSED" => /\ ~cold.error
                                /\ cold.historical => r # "POSITIVE_ACCEPTED"
  BY <1>2, <1>3, ClassificationTyped
<1> HIDE DEF r
<1>5. cold' \in ColdRec
  BY <1>1, <1>2, <1>4, PhaseNames DEF ColdRec
<1>6. /\ cold'.pc = "ended" /\ cold'.seen = cold.seen /\ cold'.historical = cold.historical
      /\ cold'.proof = cold.proof /\ cold'.result = r /\ cold'.error = cold.error
      /\ cold'.before = cold.before /\ cold'.attempted = cold.attempted
  BY <1>1, <1>2 DEF ColdRec
<1>7. Reported'
  BY <1>1, <1>4, <1>6 DEF ColdInv, Reported
<1>8. Cleaned'
  <2>1. \A k \in 1..7 : cold'.pc = CleanupPhase[k] => k = 1
    BY <1>6, PhaseOrder, Zenon
  <2>2. CleanupPhase' = CleanupPhase /\ CleanupOrder' = CleanupOrder
    BY DEF CleanupPhase, CleanupOrder
  <2> QED BY <2>1, <2>2, FirstIsFirst DEF Cleaned
<1> QED BY <1>1, <1>2, <1>5, <1>6, <1>7, <1>8, TailFrame

-----------------------------------------------------------------------------
LEMMA ColdStep == ASSUME ColdInv, [ColdNext]_coldVars PROVE ColdInv'
<1>1. CASE UNCHANGED coldVars
  <2>1. cold' = cold /\ source' = source /\ clone' = clone /\ owned' = owned
    BY <1>1 DEF coldVars
  <2>2. Served(clone, cold.historical)' = Served(clone, cold.historical)
    BY <2>1 DEF Served, Stream, Dump
  <2>3. ColdTypeOK' /\ Unseen' /\ Taken' /\ Counted' /\ Judged'
    BY <2>1, <2>2 DEF ColdInv, ColdTypeOK, Unseen, Taken, Counted, Judged
  <2>4. Cleaned' /\ Reported'
    BY <2>1 DEF ColdInv, Cleaned, Reported, CleanupPhase, CleanupOrder
  <2> QED BY <2>3, <2>4 DEF ColdInv
<1>2. CASE ColdNext
  <2>1. CASE SourceMoves
    BY <2>1, MovesKeeps
  <2>2. CASE NewVolume \/ PrepareTarget \/ CopyWorker \/ StartClone \/ StartObserver \/ VerifyWorker
    BY <2>2, CreationsKeep
  <2>3. CASE LaunchCopy \/ SourceAfterCopy \/ SourceAfterProbe \/ CallFailsCold
    BY <2>3, ChecksKeep
  <2>4. CASE ManifestBefore
    BY <2>4, BeforeKeeps
  <2>5. CASE CopyTree
    BY <2>5, CopyKeeps
  <2>6. CASE ManifestAfter
    BY <2>6, AfterKeeps
  <2>7. CASE Scan
    BY <2>7, ScanKeeps
  <2>8. CASE \E k \in DOMAIN CleanupOrder : RemoveOwned(k)
    BY <2>8, RemoveKeeps
  <2>9. CASE SourceAtEnd
    BY <2>9, EndKeeps
  <2>10. CASE ColdReceipt
    BY <2>10, ReceiptKeeps
  <2> QED BY <1>2, <2>1, <2>2, <2>3, <2>4, <2>5, <2>6, <2>7, <2>8, <2>9, <2>10 DEF ColdNext
<1> QED BY <1>1, <1>2

(* What the invariant says of a receipt. *)
LEMMA InvReceipt == ASSUME ColdInv PROVE ReceiptIsTrue
<1> DEFINE n == Occurrences(Holds(source, cold.historical))
           unread == source.manifest = <<>> /\ ~cold.historical
<1> SUFFICES ASSUME cold.result \notin {"none", "FAILED_CLOSED"}
             PROVE  /\ owned = {}
                    /\ source.stamp = cold.proof =>
                         /\ cold.seen.state = "POSITIVE_ACCEPTED" => n = 1
                         /\ cold.seen.state = "CONFLICT" => n > 1
                         /\ cold.seen.state = "INCONCLUSIVE_ZERO_MATCH" => n = 0 \/ unread
                    /\ cold.historical => cold.result # "POSITIVE_ACCEPTED"
  BY DEF ReceiptIsTrue
<1>1. owned = {} /\ (cold.historical => cold.result # "POSITIVE_ACCEPTED")
  BY DEF ColdInv, Reported
<1>2. ASSUME source.stamp = cold.proof, cold.seen.state # "none"
      PROVE  Judgement(Served(source, cold.historical), cold.seen.state)
  <2>1. clone.files = source.files /\ clone.manifest = source.manifest /\ clone.rdb = source.rdb
    BY <1>2 DEF ColdInv, Taken
  <2>2. Served(clone, cold.historical) = Served(source, cold.historical)
    BY <2>1 DEF Served, Stream, Dump
  <2> QED BY <1>2, <2>2 DEF ColdInv, Judged
<1>3. CASE ~unread
  <2>1. Holds(source, cold.historical) = Served(source, cold.historical)
    BY <1>3 DEF Holds, Served
  <2> QED BY <1>1, <1>2, <2>1 DEF Judgement
<1>4. CASE unread
  <2>1. Occurrences(Served(source, cold.historical)) = 0
    <3>1. Served(source, cold.historical) = FlattenSeq(<<>>)
      <4>1. [k \in DOMAIN source.manifest |-> source.files[source.manifest[k]]] = <<>>
        BY <1>4
      <4> QED BY <1>4, <4>1 DEF Served, Stream, Dump
    <3>2. FlattenSeq(<<>>) = <<>>
      BY DEF FlattenSeq
    <3>3. {k \in DOMAIN <<>> : <<>>[k] = "target"} = {}
      OBVIOUS
    <3> QED BY <3>1, <3>2, <3>3, FS_EmptySet DEF Occurrences
  <2> HIDE DEF n
  <2> QED BY <1>1, <1>2, <1>4, <2>1 DEF Judgement
<1> QED BY <1>3, <1>4

(***************************************************************************)
(* Whatever an operator's Redis does to the original while the script      *)
(* runs, and wherever docker calls fail or lose their answers: a receipt   *)
(* that is not FAILED_CLOSED leaves nothing behind, says of the original   *)
(* what it was stopped with as long as its files are those that were       *)
(* copied - whatever their layout, except that of an original with only a  *)
(* dump.rdb the default mode says nothing - and never admits from a        *)
(* historical image (execute, _persistence_layout, _copy_worker,           *)
(* _inspect_stream, _remove_owned).                                        *)
(***************************************************************************)
THEOREM ReceiptIsTrueTheorem == ColdSpec => []ReceiptIsTrue
<1>1. ColdInit => ColdInv
  BY ColdInitially
<1>2. ColdInv /\ [ColdNext]_coldVars => ColdInv'
  BY ColdStep
<1>3. ColdInv => ReceiptIsTrue
  BY InvReceipt
<1> QED BY <1>1, <1>2, <1>3, PTL DEF ColdSpec

-----------------------------------------------------------------------------
(* The recovery of the append-only files. *)

(* The commands of a log, and the fields of the records: their values are
   never compared in this proof, only kept. *)
Ops == {"multi", "exec", "xadd", "hset", "xgroup", "setid", "xack", "torn", "flush"}
Commands == [op : Ops, id : Nat, key : Nat, msg : Nat]

RecFields == {"pc", "lease", "failure", "receipt", "adjudicated", "latch", "vlease", "verified",
              "source", "pristine", "ids", "seen", "starts"}
OriginalFields == {"there", "log", "closed", "rdb", "stamp", "live", "acl", "starts"}
ManifestFields == {"log", "closed", "rdb", "stamp"}

(* Before the first manifest; while the inventory is the latest evidence; from
   the backup on; from the comparison of the copies on. *)
Early == {"none", "admission", "source before"}
Backing == {"backup", "clone", "inventories"}
Agreed == {"clone proof", "source after", "preserved", "qualified", "adjudicate",
           "adjudicate after", "load receipt", "verify before", "verify inventory",
           "verify state", "verify after", "verified"}
Copied == {"clone", "inventories"} \cup Agreed

(* A log is a sequence of commands, and a run never counts more starts of the
   original than there were. *)
RecShape ==
    /\ DOMAIN original = OriginalFields /\ original.log \in Seq(Commands)
    /\ original.starts \in Nat /\ original.acl \in {"original", "candidate"}
    /\ DOMAIN rec = RecFields /\ DOMAIN rec.seen = ManifestFields
    /\ rec.source.log \in Seq(Commands)
    /\ rec.starts \in Nat /\ rec.starts <= original.starts

(* Only the failure over the mounts leaves evidence to go on from. *)
Ended == /\ rec.failure = "other" => rec.pc = "failed"
         /\ rec.failure = "mounts" => rec.pc \in Agreed \cup {"failed"}
         /\ rec.verified => rec.pc = "verified"

(* Until the first manifest the memory is that of the start without rights. *)
Fresh == rec.pc \in Early => original.live = Replay(original.log, Rights("original"))

(* As long as the file is that of the manifest, the memory is a replay of it. *)
Kept ==
    rec.pc \notin Early /\ rec.failure # "other" =>
        /\ Len(rec.source.log) <= Len(original.log)
        /\ Len(rec.source.log) = Len(original.log) =>
             /\ original.log = rec.source.log
             /\ original.live \in {Replay(original.log, Rights("original")),
                                   Replay(original.log, Rights("candidate"))}

(* The backup is the file of the manifest, and the inventory accepted it. *)
Sound ==
    /\ rec.pc \in Backing => InventoryAccepted(rec.seen.log)
    /\ rec.pc \in Copied \/ rec.failure = "mounts" => backup.log = rec.source.log
    /\ rec.pc \in Agreed \/ rec.failure = "mounts" => InventoryAccepted(rec.source.log)

(* What the worker proved holds until the original is written or restarted. *)
Proved ==
    /\ /\ rec.pc = "verify after"
       /\ original.starts = rec.starts /\ original.log = rec.source.log
       => WorkerProof(original.live)
    /\ rec.verified => original.log = rec.source.log /\ WorkerProof(original.live)

AofInv == RecShape /\ Ended /\ Fresh /\ Kept /\ Sound /\ Proved

-----------------------------------------------------------------------------
(* The runs of the two folds over a log exist. *)
Replaying(log, rights, n, g) ==
    g = [k \in 0..n |-> IF k = 0 THEN ReplayStart ELSE ReplayCommand(g[k - 1], log[k], rights)]
Parsing(log, n, g) ==
    g = [k \in 0..n |-> IF k = 0 THEN ParseStart ELSE ParseCommand(g[k - 1], log[k])]

LEMMA ReplayExists ==
  ASSUME NEW log, NEW rights
  PROVE  \A n \in Nat : \E g : Replaying(log, rights, n, g)
<1> DEFINE T == {n \in Nat : \E g : Replaying(log, rights, n, g)}
<1>1. 0 \in T
  <2>1. [k \in 0..0 |-> ReplayStart] = [k \in 0..0 |-> IF k = 0 THEN ReplayStart ELSE
             ReplayCommand([j \in 0..0 |-> ReplayStart][k - 1], log[k], rights)]
    OBVIOUS
  <2>2. Replaying(log, rights, 0, [k \in 0..0 |-> ReplayStart])
    BY <2>1 DEF Replaying
  <2> QED BY <2>2
<1>2. ASSUME NEW n \in Nat, n \in T PROVE n + 1 \in T
  <2>1. PICK g : Replaying(log, rights, n, g)
    BY <1>2
  <2> DEFINE h == [k \in 0..(n + 1) |-> IF k = n + 1 THEN ReplayCommand(g[n], log[n + 1], rights)
                                        ELSE g[k]]
  <2>2. \A k \in 0..n : g[k] = IF k = 0 THEN ReplayStart ELSE ReplayCommand(g[k - 1], log[k], rights)
    BY <2>1 DEF Replaying
  <2>3. \A k \in 0..(n + 1) : h[k] = IF k = 0 THEN ReplayStart ELSE ReplayCommand(h[k - 1], log[k], rights)
    <3> TAKE k \in 0..(n + 1)
    <3>1. CASE k = n + 1
      <4>1. k # 0 /\ k - 1 = n /\ n \in 0..(n + 1) /\ n # n + 1
        BY <3>1
      <4> QED BY <3>1, <4>1
    <3>2. CASE k = 0
      <4>1. k \in 0..n /\ k # n + 1
        BY <3>2
      <4> QED BY <2>2, <3>2, <4>1
    <3>3. CASE k # 0 /\ k # n + 1
      <4>1. k \in 0..n /\ k - 1 \in 0..(n + 1) /\ k - 1 # n + 1
        BY <3>3
      <4>2. h[k] = g[k] /\ h[k - 1] = g[k - 1]
        BY <3>3, <4>1
      <4> HIDE DEF h
      <4> QED BY <2>2, <3>3, <4>1, <4>2
    <3> QED BY <3>1, <3>2, <3>3
  <2>4. h = [k \in 0..(n + 1) |-> h[k]]
    OBVIOUS
  <2> HIDE DEF h
  <2>5. h = [k \in 0..(n + 1) |-> IF k = 0 THEN ReplayStart ELSE ReplayCommand(h[k - 1], log[k], rights)]
    BY <2>3, <2>4
  <2>6. Replaying(log, rights, n + 1, h)
    BY <2>5 DEF Replaying
  <2> QED BY <2>6
<1>3. \A n \in Nat : n \in T
  <2> HIDE DEF T
  <2> QED BY <1>1, <1>2, SetInduction
<1> QED BY <1>3

LEMMA ReplayRun ==
  ASSUME NEW log, Len(log) \in Nat, NEW rights
  PROVE  \E g : Replaying(log, rights, Len(log), g) /\ Replay(log, rights) = g[Len(log)].memory
<1> DEFINE f == CHOOSE f : f = [k \in 0..Len(log) |-> IF k = 0 THEN ReplayStart
                                                      ELSE ReplayCommand(f[k - 1], log[k], rights)]
<1>1. Replay(log, rights) = f[Len(log)].memory
  BY DEF Replay
<1>2. PICK g : Replaying(log, rights, Len(log), g)
  BY ReplayExists
<1>3. f = [k \in 0..Len(log) |-> IF k = 0 THEN ReplayStart ELSE ReplayCommand(f[k - 1], log[k], rights)]
  BY <1>2 DEF Replaying
<1> HIDE DEF f
<1> QED BY <1>1, <1>3 DEF Replaying

LEMMA ParseExists ==
  ASSUME NEW log
  PROVE  \A n \in Nat : \E g : Parsing(log, n, g)
<1> DEFINE T == {n \in Nat : \E g : Parsing(log, n, g)}
<1>1. 0 \in T
  <2>1. [k \in 0..0 |-> ParseStart] = [k \in 0..0 |-> IF k = 0 THEN ParseStart ELSE
             ParseCommand([j \in 0..0 |-> ParseStart][k - 1], log[k])]
    OBVIOUS
  <2>2. Parsing(log, 0, [k \in 0..0 |-> ParseStart])
    BY <2>1 DEF Parsing
  <2> QED BY <2>2
<1>2. ASSUME NEW n \in Nat, n \in T PROVE n + 1 \in T
  <2>1. PICK g : Parsing(log, n, g)
    BY <1>2
  <2> DEFINE h == [k \in 0..(n + 1) |-> IF k = n + 1 THEN ParseCommand(g[n], log[n + 1])
                                        ELSE g[k]]
  <2>2. \A k \in 0..n : g[k] = IF k = 0 THEN ParseStart ELSE ParseCommand(g[k - 1], log[k])
    BY <2>1 DEF Parsing
  <2>3. \A k \in 0..(n + 1) : h[k] = IF k = 0 THEN ParseStart ELSE ParseCommand(h[k - 1], log[k])
    <3> TAKE k \in 0..(n + 1)
    <3>1. CASE k = n + 1
      <4>1. k # 0 /\ k - 1 = n /\ n \in 0..(n + 1) /\ n # n + 1
        BY <3>1
      <4> QED BY <3>1, <4>1
    <3>2. CASE k = 0
      <4>1. k \in 0..n /\ k # n + 1
        BY <3>2
      <4> QED BY <2>2, <3>2, <4>1
    <3>3. CASE k # 0 /\ k # n + 1
      <4>1. k \in 0..n /\ k - 1 \in 0..(n + 1) /\ k - 1 # n + 1
        BY <3>3
      <4>2. h[k] = g[k] /\ h[k - 1] = g[k - 1]
        BY <3>3, <4>1
      <4> HIDE DEF h
      <4> QED BY <2>2, <3>3, <4>1, <4>2
    <3> QED BY <3>1, <3>2, <3>3
  <2>4. h = [k \in 0..(n + 1) |-> h[k]]
    OBVIOUS
  <2> HIDE DEF h
  <2>5. h = [k \in 0..(n + 1) |-> IF k = 0 THEN ParseStart ELSE ParseCommand(h[k - 1], log[k])]
    BY <2>3, <2>4
  <2>6. Parsing(log, n + 1, h)
    BY <2>5 DEF Parsing
  <2> QED BY <2>6
<1>3. \A n \in Nat : n \in T
  <2> HIDE DEF T
  <2> QED BY <1>1, <1>2, SetInduction
<1> QED BY <1>3

LEMMA ParseRun ==
  ASSUME NEW log, Len(log) \in Nat
  PROVE  \E g : Parsing(log, Len(log), g) /\ Parsed(log) = g[Len(log)]
<1> DEFINE f == CHOOSE f : f = [k \in 0..Len(log) |-> IF k = 0 THEN ParseStart
                                                      ELSE ParseCommand(f[k - 1], log[k])]
<1>1. Parsed(log) = f[Len(log)]
  BY DEF Parsed
<1>2. PICK g : Parsing(log, Len(log), g)
  BY ParseExists
<1>3. f = [k \in 0..Len(log) |-> IF k = 0 THEN ParseStart ELSE ParseCommand(f[k - 1], log[k])]
  BY <1>2 DEF Parsing
<1> HIDE DEF f
<1> QED BY <1>1, <1>3 DEF Parsing

-----------------------------------------------------------------------------
(* Memory without a receipt. *)
NoReceipts(m) == DOMAIN m = {"stream", "receipts", "group", "last"} /\ m.receipts = <<>>

ParserShape(p) ==
    /\ DOMAIN p = {"ok", "multi", "tx", "added", "ids", "receipts", "hset", "xadd"}
    /\ p.ok \in BOOLEAN /\ p.multi \in BOOLEAN

(* What parser and server have in common while the transactions are denied. *)
Denied(s, p) ==
    /\ ParserShape(p)
    /\ p.ok => /\ DOMAIN s = {"multi", "pending", "memory"}
               /\ s.multi = p.multi
               /\ NoReceipts(s.pending) /\ NoReceipts(s.memory)

LEMMA RunAddsNone ==
  ASSUME NEW m, NEW c, NoReceipts(m), c.op # "hset"
  PROVE  NoReceipts(Run(m, c))
BY DEF NoReceipts, Run, EmptyMemory

(* What the parser has learnt from a command that it lets pass: a receipt is
   written only inside a transaction. *)
Advanced(p, c, q) ==
    /\ q.ok => p.ok
    /\ q.ok /\ c.op = "hset" => p.multi
    /\ q.multi = IF c.op = "multi" THEN TRUE ELSE IF c.op = "exec" THEN FALSE ELSE p.multi

LEMMA ParsedCommand ==
  ASSUME NEW p, NEW c, ParserShape(p)
  PROVE  ParserShape(ParseCommand(p, c)) /\ Advanced(p, c, ParseCommand(p, c))
<1> USE DEF ParserShape, Advanced
<1>1. CASE c.op = "multi"
  BY <1>1 DEF ParseCommand
<1>2. CASE c.op = "exec"
  BY <1>2 DEF ParseCommand
<1>3. CASE c.op = "xadd"
  BY <1>3 DEF ParseCommand
<1>4. CASE c.op = "hset"
  BY <1>4 DEF ParseCommand, ReceiptMatches
<1>5. CASE c.op \in {"xgroup", "setid", "xack"}
  BY <1>5 DEF ParseCommand
<1>6. CASE c.op \notin {"multi", "exec", "xadd", "hset", "xgroup", "setid", "xack"}
  BY <1>6 DEF ParseCommand
<1> QED BY <1>1, <1>2, <1>3, <1>4, <1>5, <1>6

LEMMA DeniedStep ==
  ASSUME NEW s, NEW p, NEW c, Denied(s, p)
  PROVE  Denied(ReplayCommand(s, c, {}), ParseCommand(p, c))
<1> DEFINE q == ParseCommand(p, c)
           r == ReplayCommand(s, c, {})
<1>1. ParserShape(q) /\ Advanced(p, c, q)
  BY ParsedCommand DEF Denied
<1> HIDE DEF q
<1>2. SUFFICES ASSUME q.ok
               PROVE  /\ DOMAIN r = {"multi", "pending", "memory"}
                      /\ r.multi = q.multi
                      /\ NoReceipts(r.pending) /\ NoReceipts(r.memory)
  BY <1>1 DEF Denied, q
<1>3. /\ DOMAIN s = {"multi", "pending", "memory"} /\ s.multi = p.multi /\ p.multi \in BOOLEAN
      /\ NoReceipts(s.pending) /\ NoReceipts(s.memory)
  BY <1>1, <1>2 DEF Denied, Advanced, ParserShape
<1>4. CASE c.op = "multi"
  <2>1. r = [s EXCEPT !.multi = TRUE, !.pending = s.memory]
    BY <1>4 DEF ReplayCommand
  <2> HIDE DEF r
  <2> QED BY <1>1, <1>3, <1>4, <2>1 DEF Advanced
<1>5. CASE c.op = "exec"
  <2>1. r = [s EXCEPT !.multi = FALSE, !.memory = IF s.multi THEN s.pending ELSE @]
    BY <1>5 DEF ReplayCommand
  <2> HIDE DEF r
  <2> QED BY <1>1, <1>3, <1>5, <2>1 DEF Advanced
<1>6. CASE c.op \notin {"multi", "exec"} /\ s.multi
  <2>1. r = [s EXCEPT !.pending = IF c.op \in {} THEN Run(@, c) ELSE @]
    BY <1>6 DEF ReplayCommand
  <2> HIDE DEF r
  <2> QED BY <1>1, <1>3, <1>6, <2>1 DEF Advanced
<1>7. CASE c.op \notin {"multi", "exec"} /\ ~s.multi
  <2>1. r = [s EXCEPT !.memory = Run(@, c)]
    BY <1>7 DEF ReplayCommand
  <2>2. c.op # "hset"
    BY <1>1, <1>2, <1>3, <1>7 DEF Advanced
  <2>3. NoReceipts(Run(s.memory, c))
    BY <1>3, <2>2, RunAddsNone
  <2> HIDE DEF r
  <2> QED BY <1>1, <1>3, <1>7, <2>1, <2>3 DEF Advanced
<1> QED BY <1>4, <1>5, <1>6, <1>7

(* A log that the parser accepts leaves no receipt when nothing inside a
   transaction may run. *)
LEMMA DeniedLeavesNone ==
  ASSUME NEW log, Len(log) \in Nat, Parsed(log).ok
  PROVE  Replay(log, {}).receipts = <<>>
<1>1. PICK g : Replaying(log, {}, Len(log), g) /\ Replay(log, {}) = g[Len(log)].memory
  BY ReplayRun
<1>2. PICK h : Parsing(log, Len(log), h) /\ Parsed(log) = h[Len(log)]
  BY ParseRun
<1> DEFINE T == {k \in Nat : k <= Len(log) => Denied(g[k], h[k])}
<1>3. 0 \in T
  <2>1. 0 \in 0..Len(log)
    OBVIOUS
  <2>2. g[0] = ReplayStart /\ h[0] = ParseStart
    BY <1>1, <1>2, <2>1 DEF Replaying, Parsing
  <2>3. Denied(ReplayStart, ParseStart)
    BY DEF Denied, ParserShape, ReplayStart, ParseStart, EmptyMemory, NoReceipts
  <2> QED BY <2>2, <2>3
<1>4. ASSUME NEW k \in Nat, k \in T PROVE k + 1 \in T
  <2> SUFFICES ASSUME k + 1 <= Len(log) PROVE Denied(g[k + 1], h[k + 1])
    OBVIOUS
  <2>1. k + 1 \in 0..Len(log) /\ k + 1 # 0 /\ (k + 1) - 1 = k /\ k <= Len(log)
    OBVIOUS
  <2>2. g[k + 1] = ReplayCommand(g[k], log[k + 1], {}) /\ h[k + 1] = ParseCommand(h[k], log[k + 1])
    BY <1>1, <1>2, <2>1 DEF Replaying, Parsing
  <2>3. Denied(g[k], h[k])
    BY <1>4, <2>1
  <2> QED BY <2>2, <2>3, DeniedStep
<1>5. \A k \in Nat : k \in T
  <2> HIDE DEF T
  <2> QED BY <1>3, <1>4, SetInduction
<1>6. Denied(g[Len(log)], h[Len(log)])
  BY <1>5
<1> QED BY <1>1, <1>2, <1>6 DEF Denied, NoReceipts

(* So the memory of such a replay does not pass the worker's proof. *)
LEMMA DeniedIsSeen ==
  ASSUME NEW log \in Seq(Commands), InventoryAccepted(log)
  PROVE  ~WorkerProof(Replay(log, Rights("original")))
<1>1. Rights("original") = {}
  BY DEF Rights
<1>2. Replay(log, {}).receipts = <<>>
  BY DeniedLeavesNone DEF InventoryAccepted
<1>3. 1 \in 1..Rows
  BY AofAssumption
<1> DEFINE m == Replay(log, Rights("original"))
<1> SUFFICES ASSUME WorkerProof(m) PROVE FALSE
  OBVIOUS
<1>4. \A r \in 1..Rows : r \in DOMAIN m.receipts
  <2> HIDE DEF m
  <2> QED BY DEF WorkerProof
<1>5. m.receipts = <<>>
  BY <1>1, <1>2
<1>6. 1 \notin DOMAIN <<>>
  OBVIOUS
<1> QED BY <1>3, <1>4, <1>5, <1>6

-----------------------------------------------------------------------------
(* Every file of an initial state is a sequence of commands. *)
LEMMA CommandsTyped ==
  /\ \A i \in Nat, m \in Nat : Xadd(i, m) \in Commands
  /\ \A i \in Nat, m \in Nat, k \in Nat : Hset(k, m, i) \in Commands
  /\ \A i \in Nat : SetId(i) \in Commands
  /\ \A op \in Ops : Bare(op) \in Commands
BY DEF Xadd, Hset, SetId, Bare, Cmd, Commands, Ops

LEMMA ReviewedTyped == ReviewedSegment \in Seq(Commands)
<1> DEFINE s == [r \in 1..Rows |-> <<Bare("multi"), Xadd(r, r), Hset(r, r, r), Bare("exec")>>]
           head == <<Bare("xgroup")>>
           tail == <<Xadd(Rows + 1, 1), SetId(Rows + 1), Bare("xack")>>
<1>1. Rows \in Nat /\ Rows # 0 /\ Rows + 1 \in Nat
  BY AofAssumption
<1>2. "multi" \in Ops /\ "exec" \in Ops /\ "xgroup" \in Ops /\ "xack" \in Ops
  BY DEF Ops
<1>3. \A r \in 1..Rows : <<Bare("multi"), Xadd(r, r), Hset(r, r, r), Bare("exec")>> \in Seq(Commands)
  <2> TAKE r \in 1..Rows
  <2>1. r \in Nat
    BY <1>1
  <2>2. Bare("multi") \in Commands /\ Xadd(r, r) \in Commands /\ Hset(r, r, r) \in Commands
        /\ Bare("exec") \in Commands
    BY <1>2, <2>1, CommandsTyped, Zenon
  <2> QED BY <2>2
<1>4. s \in Seq(Seq(Commands)) /\ Len(s) # 0
  <2>1. s \in [1..Rows -> Seq(Commands)]
    BY <1>3
  <2>2. Len(s) = Rows
    BY <1>1
  <2> HIDE DEF s
  <2> QED BY <1>1, <2>1, <2>2
<1>5. FlattenSeq(s) \in Seq(Commands)
  <2> HIDE DEF s
  <2> QED BY <1>4, FlattenTyped
<1>6. head \in Seq(Commands) /\ tail \in Seq(Commands)
  <2>1. Bare("xgroup") \in Commands /\ Xadd(Rows + 1, 1) \in Commands
        /\ SetId(Rows + 1) \in Commands /\ Bare("xack") \in Commands
    <3>1. 1 \in Nat
      OBVIOUS
    <3> QED BY <1>1, <1>2, <3>1, CommandsTyped, Zenon
  <2> QED BY <2>1
<1>7. ReviewedSegment = head \o FlattenSeq(s) \o tail
  BY DEF ReviewedSegment
<1> HIDE DEF head, tail, s
<1> QED BY <1>5, <1>6, <1>7

LEMMA BlocksTyped ==
  ASSUME NEW i \in 1..3, NEW b \in Blocks(i)
  PROVE  b \in Seq(Commands)
<1>1. {"multi", "exec", "torn", "flush"} \subseteq Ops
  BY DEF Ops
<1>2. \A n \in {1, i} \cup 1..3 : n \in Nat
  OBVIOUS
<1>3. \A op \in {"multi", "exec", "torn", "flush"} : Bare(op) \in Commands
  BY <1>1, CommandsTyped, Zenon
<1>4. \A j \in {1, i} \cup 1..3, m \in 1..3, k \in 1..2 :
        Xadd(j, m) \in Commands /\ Hset(k, m, j) \in Commands
  <2>1. \A m \in 1..3 : m \in Nat
    OBVIOUS
  <2>2. \A k \in 1..2 : k \in Nat
    OBVIOUS
  <2> QED BY <1>2, <2>1, <2>2, CommandsTyped, Zenon
<1>5. \/ \E j \in {1, i}, m \in 1..2, k \in 1..2 :
            b = <<Bare("multi"), Xadd(j, m), Hset(k, m, j), Bare("exec")>>
      \/ \E j \in {1, i}, m \in 1..3 : b = <<Xadd(j, m)>>
      \/ \E m \in 1..2 : b = <<Bare("multi"), Xadd(i, m), Hset(m, 1, 1), Bare("exec")>>
      \/ b \in {<<Hset(2, 2, i)>>, <<Bare("multi"), Xadd(i, 2)>>, <<Bare("torn")>>, <<Bare("flush")>>}
  BY DEF Blocks
<1>6. ASSUME NEW j \in {1, i}, NEW m \in 1..2, NEW k \in 1..2,
             b = <<Bare("multi"), Xadd(j, m), Hset(k, m, j), Bare("exec")>>
      PROVE  b \in Seq(Commands)
  <2>1. Bare("multi") \in Commands /\ Xadd(j, m) \in Commands /\ Hset(k, m, j) \in Commands
        /\ Bare("exec") \in Commands
    BY <1>3, <1>4
  <2> QED BY <1>6, <2>1
<1>7. ASSUME NEW j \in {1, i}, NEW m \in 1..3, b = <<Xadd(j, m)>> PROVE b \in Seq(Commands)
  <2>1. Xadd(j, m) \in Commands
    <3>1. 1 \in 1..2
      OBVIOUS
    <3> QED BY <1>4, <3>1
  <2> QED BY <1>7, <2>1
<1>8. ASSUME NEW m \in 1..2, b = <<Bare("multi"), Xadd(i, m), Hset(m, 1, 1), Bare("exec")>>
      PROVE  b \in Seq(Commands)
  <2>1. Bare("multi") \in Commands /\ Xadd(i, m) \in Commands /\ Hset(m, 1, 1) \in Commands
        /\ Bare("exec") \in Commands
    BY <1>3, <1>4
  <2> QED BY <1>8, <2>1
<1>9. CASE b \in {<<Hset(2, 2, i)>>, <<Bare("multi"), Xadd(i, 2)>>, <<Bare("torn")>>, <<Bare("flush")>>}
  <2>1. Bare("multi") \in Commands /\ Xadd(i, 2) \in Commands /\ Hset(2, 2, i) \in Commands
        /\ Bare("torn") \in Commands /\ Bare("flush") \in Commands
    BY <1>3, <1>4
  <2>2. /\ <<Hset(2, 2, i)>> \in Seq(Commands) /\ <<Bare("multi"), Xadd(i, 2)>> \in Seq(Commands)
        /\ <<Bare("torn")>> \in Seq(Commands) /\ <<Bare("flush")>> \in Seq(Commands)
    BY <2>1
  <2> QED BY <1>9, <2>2, Zenon
<1> QED BY <1>5, <1>6, <1>7, <1>8, <1>9, Zenon

LEMMA FilesTyped == ASSUME NEW f \in Files PROVE f \in Seq(Commands)
<1>1. CASE f = ReviewedSegment
  BY <1>1, ReviewedTyped
<1>2. ASSUME NEW a \in Blocks(1), NEW b \in Blocks(2), NEW c \in Blocks(3),
             f = File(a, b, c)
      PROVE  f \in Seq(Commands)
  <2>1. 1 \in 1..3 /\ 2 \in 1..3 /\ 3 \in 1..3 /\ 3 \in Nat /\ "xgroup" \in Ops /\ "xack" \in Ops
    BY DEF Ops
  <2>2. a \in Seq(Commands) /\ b \in Seq(Commands) /\ c \in Seq(Commands)
    BY <2>1, BlocksTyped, Zenon
  <2>3. Bare("xgroup") \in Commands /\ SetId(3) \in Commands /\ Bare("xack") \in Commands
    BY <2>1, CommandsTyped, Zenon
  <2>4. <<Bare("xgroup")>> \in Seq(Commands) /\ <<SetId(3), Bare("xack")>> \in Seq(Commands)
    BY <2>3
  <2> QED BY <1>2, <2>2, <2>4 DEF File
<1>3. \/ f = ReviewedSegment
      \/ \E a \in Blocks(1), b \in Blocks(2), c \in Blocks(3) :
            f = File(a, b, c)
  BY DEF Files
<1> QED BY <1>1, <1>2, <1>3, Zenon

-----------------------------------------------------------------------------
LEMMA AofInitially == AofInit => AofInv
<1> SUFFICES ASSUME AofInit PROVE AofInv
  OBVIOUS
<1>1. PICK f \in Files, acl \in {"original", "candidate"} :
        original = [there |-> TRUE, log |-> f, closed |-> FALSE, rdb |-> 0, stamp |-> 0,
                    live |-> Replay(f, Rights("original")), acl |-> acl, starts |-> 1]
  BY DEF AofInit
<1>2. rec = [pc |-> "none", lease |-> FALSE, failure |-> "none", receipt |-> FALSE,
             adjudicated |-> FALSE, latch |-> FALSE, vlease |-> FALSE, verified |-> FALSE,
             source |-> Manifest(NoVolume), pristine |-> Manifest(NoVolume), ids |-> {},
             seen |-> Manifest(NoVolume), starts |-> 0]
  BY DEF AofInit
<1>3. f \in Seq(Commands)
  BY FilesTyped
<1>4. DOMAIN Manifest(NoVolume) = ManifestFields /\ Manifest(NoVolume).log = <<>>
  BY DEF Manifest, NoVolume, ManifestFields
<1>5. DOMAIN original = OriginalFields /\ original.log = f /\ original.starts = 1
      /\ original.acl = acl /\ original.live = Replay(f, Rights("original"))
  BY <1>1 DEF OriginalFields
<1>6. DOMAIN rec = RecFields /\ rec.pc = "none" /\ rec.failure = "none" /\ ~rec.verified
      /\ rec.source = Manifest(NoVolume) /\ rec.seen = Manifest(NoVolume) /\ rec.starts = 0
  BY <1>2 DEF RecFields
<1>7. RecShape
  <2>1. rec.source.log \in Seq(Commands)
    <3>1. <<>> \in Seq(Commands)
      OBVIOUS
    <3> QED BY <1>4, <1>6, <3>1, Zenon
  <2>2. original.starts \in Nat /\ rec.starts \in Nat /\ rec.starts <= original.starts
    BY <1>5, <1>6
  <2>3. DOMAIN rec.seen = ManifestFields
    BY <1>4, <1>6
  <2>4. original.log \in Seq(Commands) /\ original.acl \in {"original", "candidate"}
    BY <1>3, <1>5
  <2> QED BY <1>5, <1>6, <2>1, <2>2, <2>3, <2>4 DEF RecShape
<1>8. "none" \in Early /\ "none" \notin Backing /\ "none" \notin Copied /\ "none" \notin Agreed
  BY DEF Early, Backing, Copied, Agreed
<1> QED BY <1>5, <1>6, <1>7, <1>8 DEF AofInv, Ended, Fresh, Kept, Sound, Proved

(* A step that does not touch the original. *)
LEMMA RunFrame ==
  ASSUME AofInv, original' = original,
         DOMAIN rec' = RecFields, DOMAIN rec'.seen = ManifestFields,
         rec'.source = rec.source, rec'.starts \in Nat, rec'.starts <= original.starts,
         rec.failure # "other", rec'.failure = "other" => rec'.pc = "failed",
         rec'.failure = "mounts" => rec'.pc \in Agreed \cup {"failed"},
         rec'.verified => rec'.pc = "verified",
         rec'.pc \in Early <=> rec.pc \in Early,
         Sound', Proved'
  PROVE  AofInv'
<1> USE DEF AofInv
<1>1. RecShape'
  BY DEF RecShape
<1>2. Ended'
  BY DEF Ended
<1>3. Fresh'
  BY DEF Fresh
<1>4. Kept'
  BY DEF Kept
<1> QED BY <1>1, <1>2, <1>3, <1>4

(* A step within one and the same stage of the evidence. *)
LEMMA StageFrame ==
  ASSUME AofInv, original' = original, backup'.log = backup.log,
         DOMAIN rec' = RecFields, DOMAIN rec'.seen = ManifestFields,
         rec'.source = rec.source, rec'.starts \in Nat, rec'.starts <= original.starts,
         rec.failure # "other", rec'.failure # "other",
         rec'.failure = "mounts" => rec'.pc \in Agreed \cup {"failed"},
         ~rec'.verified,
         rec'.pc \in Early <=> rec.pc \in Early,
         rec'.pc \in Backing => rec.pc \in Backing /\ rec'.seen = rec.seen,
         rec'.pc \in Copied \/ rec'.failure = "mounts" => rec.pc \in Copied \/ rec.failure = "mounts",
         rec'.pc \in Agreed \/ rec'.failure = "mounts" => rec.pc \in Agreed \/ rec.failure = "mounts",
         rec'.pc # "verify after"
  PROVE  AofInv'
<1>1. Sound'
  BY DEF AofInv, Sound
<1>2. Proved'
  BY DEF Proved
<1> QED BY <1>1, <1>2, RunFrame

LEMMA FailedKeeps ==
  ASSUME AofInv, rec' = FailClosed("other"), original' = original, ~rec.verified
  PROVE  AofInv'
<1>1. DOMAIN rec = RecFields
  BY DEF AofInv, RecShape
<1>2. /\ DOMAIN rec' = RecFields /\ rec'.pc = "failed" /\ rec'.failure = "other"
      /\ rec'.verified = rec.verified /\ rec'.source = rec.source /\ rec'.seen = rec.seen
      /\ rec'.starts = rec.starts
  BY <1>1 DEF FailClosed, RecFields
<1>3. "failed" \notin Early /\ "failed" \notin Backing /\ "failed" \notin Copied /\ "failed" \notin Agreed
  BY DEF Early, Backing, Copied, Agreed
<1>4. RecShape'
  BY <1>2 DEF AofInv, RecShape
<1>5. Ended' /\ Fresh' /\ Kept' /\ Sound' /\ Proved'
  BY <1>2, <1>3 DEF Ended, Fresh, Kept, Sound, Proved
<1> QED BY <1>4, <1>5 DEF AofInv

-----------------------------------------------------------------------------
(* What holds of the run before any step of it. *)
LEMMA RunFacts ==
  ASSUME AofInv
  PROVE  /\ DOMAIN rec = RecFields /\ DOMAIN rec.seen = ManifestFields
         /\ rec.starts \in Nat /\ rec.starts <= original.starts /\ original.starts \in Nat
         /\ rec.pc # "failed" => rec.failure # "other"
         /\ rec.failure = "mounts" => rec.pc \in Agreed \cup {"failed"}
         /\ rec.pc # "verified" => ~rec.verified
BY DEF AofInv, RecShape, Ended

(* The phases of the stages. *)
LEMMA Stages ==
  /\ \A p \in {"none", "admission", "source before"} :
        p \in Early /\ p \notin Backing /\ p \notin Copied /\ p \notin Agreed
  /\ \A p \in {"failed", "inventory before"} :
        p \notin Early /\ p \notin Backing /\ p \notin Copied /\ p \notin Agreed
  /\ "backup" \in Backing /\ "backup" \notin Early \cup Copied \cup Agreed
  /\ \A p \in {"clone", "inventories"} :
        p \in Backing /\ p \in Copied /\ p \notin Agreed /\ p \notin Early
  /\ \A p \in {"clone proof", "source after", "preserved", "qualified", "adjudicate",
               "adjudicate after", "load receipt", "verify before", "verify inventory",
               "verify state", "verify after", "verified"} :
        p \in Agreed /\ p \in Copied /\ p \notin Early /\ p \notin Backing
BY DEF Early, Backing, Copied, Agreed

(* A step of the run that only moves its phase. *)
LEMMA PhaseMoves ==
  ASSUME AofInv, NEW p, rec' = [rec EXCEPT !.pc = p],
         original' = original, backup' = backup, rec.failure # "other", ~rec.verified,
         p \in Early <=> rec.pc \in Early,
         p \in Backing => rec.pc \in Backing,
         p \in Copied => rec.pc \in Copied \/ rec.failure = "mounts",
         p \in Agreed => rec.pc \in Agreed \/ rec.failure = "mounts",
         rec.failure = "mounts" => p \in Agreed \cup {"failed"},
         p # "verify after"
  PROVE  AofInv'
<1>1. /\ DOMAIN rec' = RecFields /\ rec'.pc = p /\ rec'.failure = rec.failure
      /\ rec'.verified = rec.verified /\ rec'.source = rec.source /\ rec'.seen = rec.seen
      /\ rec'.starts = rec.starts
  BY RunFacts DEF RecFields
<1> QED BY <1>1, RunFacts, StageFrame

LEMMA StartKeeps ==
  ASSUME AofInv, CreateRun \/ Admission PROVE AofInv'
<1>1. CASE CreateRun
  <2>1. rec.pc = "none" /\ original' = original /\ backup' = backup
        /\ rec' = [rec EXCEPT !.lease = TRUE, !.pc = "admission"]
    BY <1>1 DEF CreateRun, RecAt, RecOnly
  <2>2. /\ DOMAIN rec' = RecFields /\ rec'.pc = "admission" /\ rec'.failure = rec.failure
        /\ rec'.verified = rec.verified /\ rec'.source = rec.source /\ rec'.seen = rec.seen
        /\ rec'.starts = rec.starts
    BY <2>1, RunFacts DEF RecFields
  <2> QED BY <2>1, <2>2, RunFacts, Stages, StageFrame
<1>2. CASE Admission
  <2>1. rec.pc = "admission" /\ original' = original /\ backup' = backup
    BY <1>2 DEF Admission, RecAt, Check, RecOnly
  <2>2. CASE rec' = FailClosed("other")
    BY <2>1, <2>2, RunFacts, FailedKeeps
  <2>3. CASE rec' = [rec EXCEPT !.pc = "source before", !.starts = original.starts]
    <3>1. /\ DOMAIN rec' = RecFields /\ rec'.pc = "source before" /\ rec'.failure = rec.failure
          /\ rec'.verified = rec.verified /\ rec'.source = rec.source /\ rec'.seen = rec.seen
          /\ rec'.starts = original.starts
      BY <2>3, RunFacts DEF RecFields
    <3>2. original.starts <= original.starts
      BY RunFacts
    <3> QED BY <2>1, <3>1, <3>2, RunFacts, Stages, StageFrame
  <2> QED BY <1>2, <2>2, <2>3 DEF Admission, Check, RecOnly
<1> QED BY <1>1, <1>2

LEMMA ManifestTyped ==
  ASSUME NEW v
  PROVE  DOMAIN Manifest(v) = ManifestFields /\ Manifest(v).log = v.log
BY DEF Manifest, ManifestFields

(* The first manifest: from here on the original may move. *)
LEMMA SourceKeeps == ASSUME AofInv, SourceBefore PROVE AofInv'
<1>1. rec.pc = "source before" /\ original' = original /\ backup' = backup
      /\ rec' = [rec EXCEPT !.pc = "inventory before", !.source = Manifest(original)]
  BY DEF SourceBefore, RecAt, RecOnly
<1>2. /\ DOMAIN rec' = RecFields /\ rec'.pc = "inventory before" /\ rec'.failure = rec.failure
      /\ rec'.verified = rec.verified /\ rec'.source = Manifest(original) /\ rec'.seen = rec.seen
      /\ rec'.starts = rec.starts
  BY <1>1, RunFacts DEF RecFields
<1>3. rec'.source.log = original.log /\ original.log \in Seq(Commands)
  BY <1>2, ManifestTyped DEF AofInv, RecShape
<1>4. rec.failure # "other" /\ ~rec.verified
  BY <1>1, RunFacts
<1>5. RecShape'
  BY <1>1, <1>2, <1>3 DEF AofInv, RecShape
<1>6. Kept'
  <2>1. original.live = Replay(original.log, Rights("original"))
    BY <1>1, Stages DEF AofInv, Fresh
  <2>2. Len(original.log) <= Len(original.log)
    BY <1>3
  <2> QED BY <1>1, <1>3, <2>1, <2>2 DEF Kept
<1>7. rec.failure # "mounts"
  BY <1>1, RunFacts, Stages
<1>8. Ended' /\ Fresh' /\ Sound' /\ Proved'
  BY <1>1, <1>2, <1>4, <1>7, Stages DEF Ended, Fresh, Sound, Proved
<1> QED BY <1>5, <1>6, <1>8 DEF AofInv

LEMMA InventoryKeeps == ASSUME AofInv, InventoryBefore PROVE AofInv'
<1>1. rec.pc = "inventory before" /\ original' = original /\ backup' = backup
  BY DEF InventoryBefore, RecAt, Check, RecOnly
<1>2. rec.failure # "other" /\ ~rec.verified /\ rec.failure # "mounts"
  BY <1>1, RunFacts, Stages
<1>3. CASE rec' = FailClosed("other")
  BY <1>1, <1>2, <1>3, FailedKeeps
<1>4. CASE /\ InventoryAccepted(original.log)
           /\ rec' = [rec EXCEPT !.pc = "backup", !.seen.log = original.log,
                                 !.ids = Publications(original.log)]
  <2>1. /\ DOMAIN rec' = RecFields /\ rec'.pc = "backup" /\ rec'.failure = rec.failure
        /\ rec'.verified = rec.verified /\ rec'.source = rec.source
        /\ rec'.seen = [rec.seen EXCEPT !.log = original.log] /\ rec'.starts = rec.starts
    BY <1>4, RunFacts DEF RecFields
  <2>2. DOMAIN rec'.seen = ManifestFields /\ rec'.seen.log = original.log
    BY <2>1, RunFacts DEF ManifestFields
  <2>3. Sound' /\ Proved'
    BY <1>2, <1>4, <2>1, <2>2, Stages DEF Sound, Proved
  <2> QED BY <1>1, <1>2, <2>1, <2>2, <2>3, RunFacts, Stages, RunFrame
<1> QED BY <1>3, <1>4 DEF InventoryBefore, Check, RecOnly

LEMMA BackupKeeps == ASSUME AofInv, CopyBackup PROVE AofInv'
<1>1. rec.pc = "backup" /\ original' = original
  BY DEF CopyBackup, RecAt
<1>2. rec.failure # "other" /\ ~rec.verified /\ rec.failure # "mounts"
  BY <1>1, RunFacts, Stages
<1>3. CASE rec' = FailClosed("other")
  BY <1>1, <1>2, <1>3, FailedKeeps
<1>4. CASE /\ Manifest(original) = rec.source /\ backup' = CopyVolume(original, 1)
           /\ rec' = [rec EXCEPT !.pc = "clone", !.pristine = Manifest(CopyVolume(original, 1))]
  <2>1. /\ DOMAIN rec' = RecFields /\ rec'.pc = "clone" /\ rec'.failure = rec.failure
        /\ rec'.verified = rec.verified /\ rec'.source = rec.source
        /\ rec'.seen = rec.seen /\ rec'.starts = rec.starts
    BY <1>4, RunFacts DEF RecFields
  <2>2. backup'.log = original.log
    BY <1>4 DEF CopyVolume
  <2>3. rec.source.log = original.log
    BY <1>4, ManifestTyped
  <2>4. InventoryAccepted(rec.seen.log)
    BY <1>1, Stages DEF AofInv, Sound
  <2>5. Sound' /\ Proved'
    BY <1>2, <2>1, <2>2, <2>3, <2>4, Stages DEF Sound, Proved
  <2> QED BY <1>1, <1>2, <2>1, <2>5, RunFacts, Stages, RunFrame
<1> QED BY <1>3, <1>4 DEF CopyBackup

LEMMA CloneKeeps == ASSUME AofInv, CopyClone PROVE AofInv'
<1>1. rec.pc = "clone" /\ original' = original /\ backup' = backup
      /\ rec' = [rec EXCEPT !.pc = "inventories"]
  BY DEF CopyClone, RecAt
<1>2. rec.failure # "other" /\ ~rec.verified /\ rec.failure # "mounts"
  BY <1>1, RunFacts, Stages
<1> QED BY <1>1, <1>2, Stages, PhaseMoves

LEMMA AgreeKeeps == ASSUME AofInv, CopiesAgree PROVE AofInv'
<1>1. rec.pc = "inventories" /\ original' = original /\ backup' = backup
  BY DEF CopiesAgree, RecAt, Check, RecOnly
<1>2. rec.failure # "other" /\ ~rec.verified /\ rec.failure # "mounts"
  BY <1>1, RunFacts, Stages
<1>3. CASE rec' = FailClosed("other")
  BY <1>1, <1>2, <1>3, FailedKeeps
<1>4. CASE backup.log = rec.seen.log /\ rec' = [rec EXCEPT !.pc = "clone proof"]
  <2>1. /\ DOMAIN rec' = RecFields /\ rec'.pc = "clone proof" /\ rec'.failure = rec.failure
        /\ rec'.verified = rec.verified /\ rec'.source = rec.source
        /\ rec'.seen = rec.seen /\ rec'.starts = rec.starts
    BY <1>4, RunFacts DEF RecFields
  <2>2. InventoryAccepted(rec.seen.log) /\ backup.log = rec.source.log
    BY <1>1, Stages DEF AofInv, Sound
  <2>3. Sound' /\ Proved'
    BY <1>1, <1>2, <1>4, <2>1, <2>2, Stages DEF Sound, Proved
  <2> QED BY <1>1, <1>2, <2>1, <2>3, RunFacts, Stages, RunFrame
<1> QED BY <1>3, <1>4 DEF CopiesAgree, Check, RecOnly

LEMMA ProofKeeps == ASSUME AofInv, CloneProof PROVE AofInv'
<1>1. rec.pc = "clone proof" /\ original' = original /\ backup' = backup
      /\ (rec' = [rec EXCEPT !.pc = "source after"] \/ rec' = FailClosed("other"))
  BY DEF CloneProof, RecAt
<1>2. rec.failure # "other" /\ ~rec.verified
  BY <1>1, RunFacts
<1> QED BY <1>1, <1>2, Stages, PhaseMoves, FailedKeeps

(* The source once more; the failure over the order of the mounts keeps the
   evidence that a later review relies on. *)
LEMMA PreservedKeeps == ASSUME AofInv, SourceAfter \/ Preserved PROVE AofInv'
<1>1. CASE SourceAfter
  <2>1. rec.pc = "source after" /\ original' = original /\ backup' = backup
        /\ \/ rec' = [rec EXCEPT !.pc = "preserved"] \/ rec' = FailClosed("other")
           \/ rec' = FailClosed("mounts")
    BY <1>1 DEF SourceAfter, RecAt, Check, RecOnly
  <2>2. rec.failure # "other" /\ ~rec.verified
    BY <2>1, RunFacts
  <2>3. CASE rec' = FailClosed("mounts")
    <3>1. /\ DOMAIN rec' = RecFields /\ rec'.pc = "failed" /\ rec'.failure = "mounts"
          /\ rec'.verified = rec.verified /\ rec'.source = rec.source /\ rec'.seen = rec.seen
          /\ rec'.starts = rec.starts
      BY <2>3, RunFacts DEF FailClosed, RecFields
    <3> QED BY <2>1, <2>2, <3>1, RunFacts, Stages, StageFrame
  <2> QED BY <2>1, <2>2, <2>3, Stages, PhaseMoves, FailedKeeps
<1>2. CASE Preserved
  <2>1. rec.pc = "preserved" /\ original' = original /\ backup' = backup
        /\ \/ rec' = [rec EXCEPT !.pc = "qualified", !.receipt = TRUE]
           \/ rec' = FailClosed("other")
    BY <1>2 DEF Preserved, RecAt, Check, RecOnly
  <2>2. rec.failure # "other" /\ ~rec.verified
    BY <2>1, RunFacts
  <2>3. CASE rec' = [rec EXCEPT !.pc = "qualified", !.receipt = TRUE]
    <3>1. /\ DOMAIN rec' = RecFields /\ rec'.pc = "qualified" /\ rec'.failure = rec.failure
          /\ rec'.verified = rec.verified /\ rec'.source = rec.source /\ rec'.seen = rec.seen
          /\ rec'.starts = rec.starts
      BY <2>3, RunFacts DEF RecFields
    <3> QED BY <2>1, <2>2, <3>1, RunFacts, Stages, StageFrame
  <2> QED BY <2>1, <2>2, <2>3, FailedKeeps
<1> QED BY <1>1, <1>2

LEMMA AdjudicationKeeps ==
  ASSUME AofInv, Adjudicate \/ AdjudicateVolumes \/ AdjudicateAfter PROVE AofInv'
<1>1. CASE Adjudicate
  <2>1. rec.pc = "failed" /\ rec.failure = "mounts" /\ original' = original /\ backup' = backup
        /\ rec' = [rec EXCEPT !.latch = TRUE, !.pc = "adjudicate"]
    BY <1>1 DEF Adjudicate, RecAt, RecOnly
  <2>2. /\ DOMAIN rec' = RecFields /\ rec'.pc = "adjudicate" /\ rec'.failure = rec.failure
        /\ rec'.verified = rec.verified /\ rec'.source = rec.source /\ rec'.seen = rec.seen
        /\ rec'.starts = rec.starts
    BY <2>1, RunFacts DEF RecFields
  <2> QED BY <2>1, <2>2, RunFacts, Stages, StageFrame
<1>2. CASE AdjudicateVolumes
  <2>1. rec.pc = "adjudicate" /\ original' = original /\ backup' = backup
        /\ \/ rec' = [rec EXCEPT !.pc = "adjudicate after"]
           \/ rec' = [rec EXCEPT !.pc = "failed"]
    BY <1>2 DEF AdjudicateVolumes, RecAt, RecOnly
  <2>2. rec.failure # "other" /\ ~rec.verified
    BY <2>1, RunFacts
  <2> QED BY <2>1, <2>2, Stages, PhaseMoves
<1>3. CASE AdjudicateAfter
  <2>1. rec.pc = "adjudicate after" /\ original' = original /\ backup' = backup
        /\ \/ rec' = [rec EXCEPT !.pc = "qualified", !.receipt = TRUE, !.adjudicated = TRUE]
           \/ rec' = [rec EXCEPT !.pc = "failed"]
    BY <1>3 DEF AdjudicateAfter, RecAt, RecOnly
  <2>2. rec.failure # "other" /\ ~rec.verified
    BY <2>1, RunFacts
  <2>3. CASE rec' = [rec EXCEPT !.pc = "qualified", !.receipt = TRUE, !.adjudicated = TRUE]
    <3>1. /\ DOMAIN rec' = RecFields /\ rec'.pc = "qualified" /\ rec'.failure = rec.failure
          /\ rec'.verified = rec.verified /\ rec'.source = rec.source /\ rec'.seen = rec.seen
          /\ rec'.starts = rec.starts
      BY <2>3, RunFacts DEF RecFields
    <3> QED BY <2>1, <2>2, <3>1, RunFacts, Stages, StageFrame
  <2> QED BY <2>1, <2>2, <2>3, Stages, PhaseMoves
<1> QED BY <1>1, <1>2, <1>3

LEMMA VerificationKeeps ==
  ASSUME AofInv, CreateVerification \/ LoadReceipt \/ VerifyBefore \/ VerifyInventory PROVE AofInv'
<1>1. CASE CreateVerification
  <2>1. rec.pc = "qualified" /\ original' = original /\ backup' = backup
        /\ rec' = [rec EXCEPT !.vlease = TRUE, !.pc = "load receipt"]
    BY <1>1 DEF CreateVerification, RecOnly
  <2>2. /\ DOMAIN rec' = RecFields /\ rec'.pc = "load receipt" /\ rec'.failure = rec.failure
        /\ rec'.verified = rec.verified /\ rec'.source = rec.source /\ rec'.seen = rec.seen
        /\ rec'.starts = rec.starts
    BY <2>1, RunFacts DEF RecFields
  <2> QED BY <2>1, <2>2, RunFacts, Stages, StageFrame
<1>2. CASE LoadReceipt
  <2>1. rec.pc = "load receipt" /\ original' = original /\ backup' = backup
    BY <1>2 DEF LoadReceipt, RecAt, Check, RecOnly
  <2>2. rec.failure # "other" /\ ~rec.verified
    BY <2>1, RunFacts
  <2>3. CASE rec' = FailClosed("other")
    BY <2>1, <2>2, <2>3, FailedKeeps
  <2>4. CASE rec' = [rec EXCEPT !.pc = "verify before", !.starts = original.starts]
    <3>1. /\ DOMAIN rec' = RecFields /\ rec'.pc = "verify before" /\ rec'.failure = rec.failure
          /\ rec'.verified = rec.verified /\ rec'.source = rec.source /\ rec'.seen = rec.seen
          /\ rec'.starts = original.starts
      BY <2>4, RunFacts DEF RecFields
    <3>2. original.starts <= original.starts
      BY RunFacts
    <3> QED BY <2>1, <2>2, <3>1, <3>2, RunFacts, Stages, StageFrame
  <2> QED BY <1>2, <2>3, <2>4 DEF LoadReceipt, Check, RecOnly
<1>3. CASE VerifyBefore
  <2>1. rec.pc = "verify before" /\ original' = original /\ backup' = backup
    BY <1>3 DEF VerifyBefore, RecAt, Check, RecOnly
  <2>2. rec.failure # "other" /\ ~rec.verified
    BY <2>1, RunFacts
  <2>3. CASE rec' = FailClosed("other")
    BY <2>1, <2>2, <2>3, FailedKeeps
  <2>4. CASE rec' = [rec EXCEPT !.pc = "verify inventory", !.seen = Manifest(original)]
    <3>1. /\ DOMAIN rec' = RecFields /\ rec'.pc = "verify inventory" /\ rec'.failure = rec.failure
          /\ rec'.verified = rec.verified /\ rec'.source = rec.source
          /\ rec'.seen = Manifest(original) /\ rec'.starts = rec.starts
      BY <2>4, RunFacts DEF RecFields
    <3>2. DOMAIN rec'.seen = ManifestFields
      BY <3>1, ManifestTyped
    <3> QED BY <2>1, <2>2, <3>1, <3>2, RunFacts, Stages, StageFrame
  <2> QED BY <1>3, <2>3, <2>4 DEF VerifyBefore, Check, RecOnly
<1>4. CASE VerifyInventory
  <2>1. rec.pc = "verify inventory" /\ original' = original /\ backup' = backup
        /\ (rec' = [rec EXCEPT !.pc = "verify state"] \/ rec' = FailClosed("other"))
    BY <1>4 DEF VerifyInventory, RecAt, Check, RecOnly
  <2>2. rec.failure # "other" /\ ~rec.verified
    BY <2>1, RunFacts
  <2> QED BY <2>1, <2>2, Stages, PhaseMoves, FailedKeeps
<1> QED BY <1>1, <1>2, <1>3, <1>4

LEMMA StateKeeps == ASSUME AofInv, VerifyState PROVE AofInv'
<1>1. rec.pc = "verify state" /\ original' = original /\ backup' = backup
  BY DEF VerifyState, RecAt, Check, RecOnly
<1>2. rec.failure # "other" /\ ~rec.verified
  BY <1>1, RunFacts
<1>3. CASE rec' = FailClosed("other")
  BY <1>1, <1>2, <1>3, FailedKeeps
<1>4. CASE WorkerProof(original.live) /\ rec' = [rec EXCEPT !.pc = "verify after"]
  <2>1. /\ DOMAIN rec' = RecFields /\ rec'.pc = "verify after" /\ rec'.failure = rec.failure
        /\ rec'.verified = rec.verified /\ rec'.source = rec.source
        /\ rec'.seen = rec.seen /\ rec'.starts = rec.starts
    BY <1>4, RunFacts DEF RecFields
  <2>2. WorkerProof(original'.live)
    BY <1>1, <1>4, Zenon
  <2>3. InventoryAccepted(rec.source.log) /\ backup.log = rec.source.log
    BY <1>1, Stages DEF AofInv, Sound
  <2>4. Sound'
    BY <1>1, <2>1, <2>3, Stages DEF Sound
  <2>5. Proved'
    BY <1>2, <2>1, <2>2 DEF Proved
  <2> QED BY <1>1, <1>2, <2>1, <2>4, <2>5, RunFacts, Stages, RunFrame
<1> QED BY <1>3, <1>4 DEF VerifyState, Check, RecOnly

LEMMA VerifiedKeeps == ASSUME AofInv, VerifyAfter PROVE AofInv'
<1>1. rec.pc = "verify after" /\ original' = original /\ backup' = backup
  BY DEF VerifyAfter, RecAt, Check, RecOnly
<1>2. rec.failure # "other" /\ ~rec.verified
  BY <1>1, RunFacts
<1>3. CASE rec' = FailClosed("other")
  BY <1>1, <1>2, <1>3, FailedKeeps
<1>4. CASE UnmovedSince /\ rec' = [rec EXCEPT !.pc = "verified", !.verified = TRUE,
                                              !.seen = Manifest(original)]
  <2>1. /\ DOMAIN rec' = RecFields /\ rec'.pc = "verified" /\ rec'.failure = rec.failure
        /\ rec'.source = rec.source /\ rec'.seen = Manifest(original) /\ rec'.starts = rec.starts
    BY <1>4, RunFacts DEF RecFields
  <2>2. DOMAIN rec'.seen = ManifestFields
    BY <2>1, ManifestTyped
  <2>3. original.log = rec.source.log /\ original.starts = rec.starts
    BY <1>4 DEF UnmovedSince
  <2>4. WorkerProof(original.live)
    BY <1>1, <2>3 DEF AofInv, Proved
  <2>5. InventoryAccepted(rec.source.log) /\ backup.log = rec.source.log
    BY <1>1, Stages DEF AofInv, Sound
  <2>6. Sound'
    BY <1>1, <2>1, <2>5, Stages DEF Sound
  <2>7. Proved'
    BY <1>1, <2>1, <2>3, <2>4 DEF Proved
  <2> QED BY <1>1, <1>2, <2>1, <2>2, <2>6, <2>7, RunFacts, Stages, RunFrame
<1> QED BY <1>3, <1>4 DEF VerifyAfter, Check, RecOnly

LEMMA FailsKeeps == ASSUME AofInv, RunFails PROVE AofInv'
<1>1. /\ rec.pc \notin {"none", "failed", "qualified", "verified"}
      /\ original' = original /\ backup' = backup
      /\ \/ rec.pc \in {"adjudicate", "adjudicate after"} /\ rec' = [rec EXCEPT !.pc = "failed"]
         \/ rec' = FailClosed("other")
  BY DEF RunFails
<1>2. rec.failure # "other" /\ ~rec.verified
  BY <1>1, RunFacts
<1> QED BY <1>1, <1>2, Stages, PhaseMoves, FailedKeeps

(* A write makes the file longer than the manifest's, a restart is counted,
   and a restart on the manifest's file replays it. *)
LEMMA OthersKeep == ASSUME AofInv, OthersWrite PROVE AofInv'
<1>1. /\ rec.pc \notin Early /\ rec.pc # "verified" /\ rec.failure # "other" /\ ~rec.verified
      /\ rec' = rec /\ backup' = backup
  BY RunFacts DEF OthersWrite, Early
<1>2. /\ DOMAIN original = OriginalFields /\ original.log \in Seq(Commands)
      /\ original.starts \in Nat /\ original.acl \in {"original", "candidate"}
      /\ rec.starts \in Nat /\ rec.starts <= original.starts /\ rec.source.log \in Seq(Commands)
  BY DEF AofInv, RecShape
<1>3. /\ Len(rec.source.log) <= Len(original.log)
      /\ Len(rec.source.log) = Len(original.log) =>
           /\ original.log = rec.source.log
           /\ original.live \in {Replay(original.log, Rights("original")),
                                 Replay(original.log, Rights("candidate"))}
  BY <1>1 DEF AofInv, Kept
<1>4. Len(rec.source.log) \in Nat /\ Len(original.log) \in Nat
  BY <1>2
<1>5. ASSUME DOMAIN original' = OriginalFields, original'.log \in Seq(Commands),
             original'.starts \in Nat, original.starts <= original'.starts,
             original'.acl \in {"original", "candidate"},
             \/ Len(original'.log) = Len(original.log) + 1
             \/ /\ original'.log = original.log
                /\ \/ original'.live = original.live /\ original'.starts = original.starts
                   \/ /\ original'.starts = original.starts + 1
                      /\ original'.live \in {Replay(original.log, Rights("original")),
                                             Replay(original.log, Rights("candidate"))}
      PROVE  AofInv'
  <2>1. rec.starts <= original'.starts
    BY <1>2, <1>5
  <2>2. RecShape'
    BY <1>1, <1>2, <1>5, <2>1 DEF AofInv, RecShape
  <2>3. Ended' /\ Fresh' /\ Sound'
    BY <1>1 DEF AofInv, Ended, Fresh, Sound
  <2>4. CASE Len(original'.log) = Len(original.log) + 1
    <3>1. Len(rec.source.log) < Len(original'.log) /\ original'.log # rec.source.log
      BY <1>3, <1>4, <2>4
    <3>2. Len(rec.source.log) <= Len(original'.log) /\ Len(rec.source.log) # Len(original'.log)
      BY <1>3, <1>4, <2>4
    <3>3. Kept' /\ Proved'
      BY <1>1, <3>1, <3>2 DEF Kept, Proved
    <3> QED BY <2>2, <2>3, <3>3 DEF AofInv
  <2>5. CASE original'.log = original.log /\ original'.live = original.live
             /\ original'.starts = original.starts
    <3>1. Kept' /\ Proved'
      BY <1>1, <2>5 DEF AofInv, Kept, Proved
    <3> QED BY <2>2, <2>3, <3>1 DEF AofInv
  <2>6. CASE /\ original'.log = original.log /\ original'.starts = original.starts + 1
             /\ original'.live \in {Replay(original.log, Rights("original")),
                                    Replay(original.log, Rights("candidate"))}
    <3>1. original'.starts # rec.starts
      BY <1>2, <2>6
    <3>2. Kept' /\ Proved'
      BY <1>1, <1>3, <2>6, <3>1 DEF Kept, Proved
    <3> QED BY <2>2, <2>3, <3>2 DEF AofInv
  <2> QED BY <1>5, <2>4, <2>5, <2>6
<1>6. original.starts <= original.starts /\ original.starts <= original.starts + 1
      /\ original.starts + 1 \in Nat
  BY <1>2
<1>7. ASSUME NEW c \in {Bare("xack"), Xadd(Rows + 2, 1)},
             original' = [original EXCEPT !.log = Append(@, c), !.live = Run(@, c), !.stamp = @ + 1]
      PROVE  AofInv'
  <2>1. c \in Commands
    <3>1. Rows + 2 \in Nat /\ 1 \in Nat /\ "xack" \in Ops
      BY AofAssumption DEF Ops
    <3> QED BY <3>1, CommandsTyped
  <2>2. /\ DOMAIN original' = OriginalFields /\ original'.log = Append(original.log, c)
        /\ original'.starts = original.starts /\ original'.acl = original.acl
    BY <1>2, <1>7 DEF OriginalFields
  <2>3. Append(original.log, c) \in Seq(Commands) /\ Len(Append(original.log, c)) = Len(original.log) + 1
    BY <1>2, <2>1
  <2> QED BY <1>2, <1>5, <1>6, <2>2, <2>3
<1>8. CASE original' = [original EXCEPT !.rdb = @ + 1]
  <2>1. /\ DOMAIN original' = OriginalFields /\ original'.log = original.log
        /\ original'.starts = original.starts /\ original'.acl = original.acl
        /\ original'.live = original.live
    BY <1>2, <1>8 DEF OriginalFields
  <2> QED BY <1>2, <1>5, <1>6, <2>1
<1>9. CASE original' = [original EXCEPT !.acl = "candidate"]
  <2>1. /\ DOMAIN original' = OriginalFields /\ original'.log = original.log
        /\ original'.starts = original.starts /\ original'.acl = "candidate"
        /\ original'.live = original.live
    BY <1>2, <1>9 DEF OriginalFields
  <2> QED BY <1>2, <1>5, <1>6, <2>1
<1>10. ASSUME NEW closed \in BOOLEAN,
              original' = [original EXCEPT !.live = Replay(original.log, Rights(original.acl)),
                              !.closed = closed, !.rdb = @ + 1, !.stamp = @ + 1, !.starts = @ + 1]
       PROVE  AofInv'
  <2>1. /\ DOMAIN original' = OriginalFields /\ original'.log = original.log
        /\ original'.starts = original.starts + 1 /\ original'.acl = original.acl
        /\ original'.live = Replay(original.log, Rights(original.acl))
    BY <1>2, <1>10 DEF OriginalFields
  <2>2. original'.live \in {Replay(original.log, Rights("original")),
                            Replay(original.log, Rights("candidate"))}
    BY <1>2, <2>1
  <2> QED BY <1>2, <1>5, <1>6, <2>1, <2>2
<1> QED BY <1>7, <1>8, <1>9, <1>10 DEF OthersWrite

-----------------------------------------------------------------------------
LEMMA AofStep == ASSUME AofInv, [AofNext]_aofVars PROVE AofInv'
<1>1. CASE UNCHANGED aofVars
  <2>1. original' = original /\ backup' = backup /\ rec' = rec
    BY <1>1 DEF aofVars
  <2> QED BY <2>1 DEF AofInv, RecShape, Ended, Fresh, Kept, Sound, Proved
<1>2. CASE AofNext
  <2>1. CASE OthersWrite
    BY <2>1, OthersKeep
  <2>2. CASE CreateRun \/ Admission
    BY <2>2, StartKeeps
  <2>3. CASE SourceBefore
    BY <2>3, SourceKeeps
  <2>4. CASE InventoryBefore
    BY <2>4, InventoryKeeps
  <2>5. CASE CopyBackup
    BY <2>5, BackupKeeps
  <2>6. CASE CopyClone
    BY <2>6, CloneKeeps
  <2>7. CASE CopiesAgree
    BY <2>7, AgreeKeeps
  <2>8. CASE CloneProof
    BY <2>8, ProofKeeps
  <2>9. CASE SourceAfter \/ Preserved
    BY <2>9, PreservedKeeps
  <2>10. CASE Adjudicate \/ AdjudicateVolumes \/ AdjudicateAfter
    BY <2>10, AdjudicationKeeps
  <2>11. CASE CreateVerification \/ LoadReceipt \/ VerifyBefore \/ VerifyInventory
    BY <2>11, VerificationKeeps
  <2>12. CASE VerifyState
    BY <2>12, StateKeeps
  <2>13. CASE VerifyAfter
    BY <2>13, VerifiedKeeps
  <2>14. CASE RunFails
    BY <2>14, FailsKeeps
  <2> QED BY <1>2, <2>1, <2>2, <2>3, <2>4, <2>5, <2>6, <2>7, <2>8, <2>9, <2>10, <2>11, <2>12,
             <2>13, <2>14 DEF AofNext
<1> QED BY <1>1, <1>2

LEMMA InvVerified == ASSUME AofInv PROVE VerifiedIsReplay
<1> SUFFICES ASSUME rec.verified
             PROVE  /\ backup.log = original.log
                    /\ original.live = Replay(backup.log, Rights("candidate"))
                    /\ WorkerProof(original.live)
  BY DEF VerifiedIsReplay
<1>1. rec.pc = "verified" /\ rec.failure # "other"
  BY DEF AofInv, Ended
<1>2. original.log = rec.source.log /\ WorkerProof(original.live)
  BY DEF AofInv, Proved
<1>3. backup.log = rec.source.log /\ InventoryAccepted(rec.source.log)
  BY <1>1, Stages DEF AofInv, Sound
<1>4. original.live \in {Replay(original.log, Rights("original")),
                         Replay(original.log, Rights("candidate"))}
  BY <1>1, <1>2, Stages DEF AofInv, Kept
<1>5. original.log \in Seq(Commands)
  BY DEF AofInv, RecShape
<1>6. ~WorkerProof(Replay(original.log, Rights("original")))
  BY <1>2, <1>3, <1>5, DeniedIsSeen
<1>7. original.live = Replay(original.log, Rights("candidate"))
  BY <1>2, <1>4, <1>6
<1> QED BY <1>2, <1>3, <1>7

(***************************************************************************)
(* For any number of outbox rows, outside writes and failing calls: a      *)
(* verified recovery left the original with what the backup replays to     *)
(* under the candidate ACL, and with every receipt (run_qualification,     *)
(* adjudicate, run_verify_original).                                       *)
(***************************************************************************)
THEOREM VerifiedIsReplayTheorem == AofSpec => []VerifiedIsReplay
<1>1. AofInit => AofInv
  BY AofInitially
<1>2. AofInv /\ [AofNext]_aofVars => AofInv'
  BY AofStep
<1>3. AofInv => VerifiedIsReplay
  BY InvVerified
<1> QED BY <1>1, <1>2, <1>3, PTL DEF AofSpec
=============================================================================

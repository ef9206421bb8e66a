----------------------- MODULE EpochDelivery_proofs -----------------------
(***************************************************************************)
(* Safety of EpochDelivery for every set of symbols, every cap and every   *)
(* bound on time, faults and restarts: the batch arithmetic and the type   *)
(* invariant, then exactly-once acceptance and acknowledgement after       *)
(* completion, then order, bounds, truthfulness and the refinement of      *)
(* BarDelivery.                                                            *)
(***************************************************************************)
EXTENDS EpochDelivery, FiniteSetTheorems, WellFoundedInduction, TLAPS

-----------------------------------------------------------------------------
(* The batch arithmetic, for every set of symbols, every cap and every     *)
(* watermark vector.                                                       *)

\* A non-empty set of naturals below a bound has a maximum.
LEMMA BoundedMax ==
  ASSUME NEW B \in Nat, NEW T, T \subseteq 0..B, T # {}
  PROVE  \E x \in T : \A y \in T : y <= x
<1> DEFINE U == {B - y : y \in T}
           Less == OpToRel(<, Nat)
<1>1. U \subseteq Nat /\ U # {}
  <2>1. \A y \in T : y \in 0..B
    OBVIOUS
  <2>2. \A y \in T : B - y \in Nat
    BY <2>1
  <2>3. PICK y \in T : TRUE
    OBVIOUS
  <2>4. B - y \in U
    BY <2>3
  <2> QED BY <2>2, <2>4
<1>2. IsWellFoundedOn(Less, Nat)
  BY NatLessThanWellFounded
<1>3. \E u \in U : \A v \in U : ~ (<<v, u>> \in Less)
  <2> HIDE DEF U, Less
  <2> QED BY <1>1, <1>2, WFMin
<1>4. PICK u \in U : \A v \in U : ~ (<<v, u>> \in Less)
  BY <1>3
<1>5. \A v \in U : u <= v
  <2> TAKE v \in U
  <2>1. u \in Nat /\ v \in Nat
    BY <1>1
  <2>2. ~ (<<v, u>> \in {ss \in Nat \X Nat : ss[1] < ss[2]})
    BY <1>4 DEF OpToRel
  <2> HIDE DEF U
  <2>3. ~ (v < u)
    BY <2>1, <2>2
  <2> QED BY <2>1, <2>3
<1>6. PICK x \in T : u = B - x
  BY <1>4
<1>7. \A y \in T : y <= x
  <2> TAKE y \in T
  <2>1. x \in 0..B /\ y \in 0..B
    OBVIOUS
  <2>2. B - y \in U
    OBVIOUS
  <2>3. u <= B - y
    BY <1>5, <2>2
  <2> QED BY <1>6, <2>1, <2>3
<1> QED BY <1>7

\* latest is one of the watermarks and none lies beyond it.
LEMMA LatestIsMax ==
  ASSUME NEW B \in Nat, NEW w \in [Symbols -> 0..B]
  PROVE  /\ latest(w) \in 0..B
         /\ \A s \in Symbols : w[s] <= latest(w)
<1> DEFINE T == {w[s] : s \in Symbols}
<1>1. T \subseteq 0..B /\ T # {}
  BY SymbolsAssumption
<1>2. \E x \in T : \A y \in T : x >= y
  <2>1. \E x \in T : \A y \in T : y <= x
    <3> HIDE DEF T
    <3> QED BY <1>1, BoundedMax
  <2> QED BY <1>1, <2>1
<1>3. latest(w) \in T /\ \A y \in T : latest(w) >= y
  BY <1>2 DEF latest, Max
<1> QED BY <1>1, <1>3

\* The bars of a batch are finitely many.
LEMMA BatchFinite ==
  ASSUME NEW w, NEW e \in Nat
  PROVE  /\ IsFiniteSet(BatchBars(w, e))
         /\ required_bars(w, e) \in Nat
<1>1. IsFiniteSet(1..e)
  BY FS_Interval
<1>2. IsFiniteSet(Symbols \X (1..e))
  BY <1>1, FS_Product, SymbolsAssumption
<1>3. IsFiniteSet(BatchBars(w, e))
  BY <1>2, FS_Subset DEF BatchBars
<1> QED BY <1>3, FS_CardinalityType DEF required_bars

\* A batch up to e holds the bars that level the symbols and, beyond the
\* furthest one, at most one bar per symbol and minute.
LEMMA BatchGrowth ==
  ASSUME NEW w, NEW l \in Nat, NEW e \in Nat, l <= e
  PROVE  required_bars(w, e) <= required_bars(w, l) + Cardinality(Symbols) * (e - l)
<1> DEFINE A == BatchBars(w, l)
           R == Symbols \X ((l + 1)..e)
<1>1. IsFiniteSet(A) /\ Cardinality(A) \in Nat
  BY BatchFinite DEF required_bars
<1>2. /\ IsFiniteSet((l + 1)..e)
      /\ Cardinality((l + 1)..e) = e - l
  <2>1. l + 1 \in Int /\ e \in Int
    OBVIOUS
  <2>2. Cardinality((l + 1)..e) = IF l + 1 > e THEN 0 ELSE e - (l + 1) + 1
    BY <2>1, FS_Interval
  <2>3. IsFiniteSet((l + 1)..e)
    BY <2>1, FS_Interval
  <2> QED BY <2>2, <2>3
<1>3. IsFiniteSet(R) /\ Cardinality(R) = Cardinality(Symbols) * (e - l)
  BY <1>2, FS_Product, SymbolsAssumption
<1>4. BatchBars(w, e) \subseteq A \union R
  <2> SUFFICES ASSUME NEW b \in BatchBars(w, e) PROVE b \in A \union R
    OBVIOUS
  <2>1. b \in Symbols \X (1..e) /\ w[b[1]] < b[2]
    BY DEF BatchBars
  <2>2. PICK s \in Symbols, m \in 1..e : b = <<s, m>>
    BY <2>1
  <2>3. CASE m <= l
    BY <2>1, <2>2, <2>3 DEF BatchBars
  <2>4. CASE m > l
    BY <2>2, <2>4
  <2> QED BY <2>2, <2>3, <2>4
<1>5. /\ IsFiniteSet(A \union R) /\ IsFiniteSet(A \intersect R)
      /\ Cardinality(A \union R) = Cardinality(A) + Cardinality(R) - Cardinality(A \intersect R)
  <2> HIDE DEF A, R
  <2> QED BY <1>1, <1>3, FS_Union, FS_Intersection
<1>6. Cardinality(A \intersect R) \in Nat /\ Cardinality(R) \in Nat
  <2> HIDE DEF A, R
  <2> QED BY <1>3, <1>5, FS_CardinalityType
<1>7. /\ Cardinality(BatchBars(w, e)) <= Cardinality(A \union R)
      /\ Cardinality(BatchBars(w, e)) \in Nat
  <2> HIDE DEF A, R
  <2> QED BY <1>4, <1>5, FS_Subset, FS_CardinalityType
<1>8. Cardinality(BatchBars(w, e)) <= Cardinality(A) + Cardinality(R)
  <2> HIDE DEF A, R
  <2> QED BY <1>1, <1>5, <1>6, <1>7
<1> QED BY <1>3, <1>8 DEF required_bars

\* What whole minutes of capacity cost never exceeds what is left.
LEMMA QuotientFits ==
  ASSUME NEW x \in Nat, NEW n \in Nat, n > 0, NEW k \in Nat, k <= x \div n
  PROVE  n * k <= x
<1>1. x \div n \in Nat /\ n * (x \div n) <= x
  OBVIOUS
<1>2. n * k <= n * (x \div n)
  <2> DEFINE q == x \div n
  <2>1. q \in Nat /\ k <= q
    BY <1>1
  <2> HIDE DEF q
  <2>2. n * k <= n * q
    BY <2>1
  <2> QED BY <2>2 DEF q
<1>3. n * k \in Nat /\ n * (x \div n) \in Nat
  BY <1>1
<1> QED BY <1>1, <1>2, <1>3

\* The two early refusals are enough: the end of a batch they let through
\* lies between the furthest symbol and the finalized target, no symbol lies
\* beyond it, and the batch fits under the cap, so the last check of
\* bounded_runtime_end and those of required_bars and recover never refuse.
THEOREM AdmittedBatch ==
  ASSUME NEW B \in Nat, NEW w \in [Symbols -> 0..B], NEW closed \in Nat,
         ~ ClockRegressed(w, closed), ~ SkewExceedsCap(w)
  PROVE  /\ bounded_runtime_end(w, closed) \in latest(w)..closed
         /\ FixedInterval(w, bounded_runtime_end(w, closed))
         /\ required_bars(w, bounded_runtime_end(w, closed)) <= MaxPending
         /\ ~ BatchRefused(w, closed)
<1> DEFINE n == Cardinality(Symbols)
           l == latest(w)
           r == required_bars(w, l)
           c == capacity_minutes(w)
           e == bounded_runtime_end(w, closed)
<1>1. l \in Nat /\ \A s \in Symbols : w[s] <= l
  BY LatestIsMax
<1>2. n \in Nat /\ n > 0
  BY SymbolsAssumption, FS_CardinalityType, FS_EmptySet
<1>3. r \in Nat
  BY <1>1, BatchFinite
<1>4. l <= closed /\ r <= MaxPending
  BY <1>1, <1>3, BatchAssumption DEF ClockRegressed, SkewExceedsCap
<1>5. MaxPending - r \in Nat /\ c = (MaxPending - r) \div n
  BY <1>3, <1>4, BatchAssumption DEF capacity_minutes
<1>6. c \in Nat
  <2> HIDE DEF c, r, n
  <2> QED BY <1>2, <1>5
<1>7. e \in l..closed /\ e - l \in Nat /\ e - l <= c
  <2>1. e = IF closed <= l + c THEN closed ELSE l + c
    BY DEF bounded_runtime_end
  <2> HIDE DEF e, l, c
  <2> QED BY <1>1, <1>4, <1>6, <2>1
<1>8. e \in Nat
  <2> HIDE DEF e, l
  <2> QED BY <1>1, <1>7
<1>9. required_bars(w, e) \in Nat
  BY <1>8, BatchFinite
<1>10. required_bars(w, e) <= r + n * (e - l)
  <2> HIDE DEF e, l
  <2>1. l <= e
    BY <1>1, <1>7
  <2> QED BY <1>1, <1>8, <2>1, BatchGrowth
<1>11. n * (e - l) <= MaxPending - r /\ n * (e - l) \in Nat
  <2> HIDE DEF e, l, c, n, r
  <2> QED BY <1>2, <1>5, <1>7, QuotientFits
<1>12. required_bars(w, e) <= MaxPending
  <2> DEFINE q == required_bars(w, e)
             k == n * (e - l)
  <2>1. q \in Nat /\ k \in Nat /\ q <= r + k /\ k <= MaxPending - r
    BY <1>9, <1>10, <1>11
  <2> HIDE DEF q, k, r
  <2>2. q <= MaxPending
    BY <1>3, <2>1, BatchAssumption
  <2> QED BY <2>2 DEF q
<1>13. FixedInterval(w, e)
  <2>1. \A s \in Symbols : w[s] \in Nat
    OBVIOUS
  <2> HIDE DEF e, l
  <2> QED BY <1>1, <1>7, <1>8, <2>1 DEF FixedInterval
<1>14. ~ BatchRefused(w, closed)
  BY <1>9, <1>12, BatchAssumption DEF BatchRefused
<1> QED BY <1>7, <1>12, <1>13, <1>14

-----------------------------------------------------------------------------
(* The worker.                                                             *)

(***************************************************************************)
(* TypeOK is not inductive: that a retry counter stays below its limit and *)
(* that the current entry and row exist depend on where the tasks are, and *)
(* that no consumer task outlives its process.                             *)
(***************************************************************************)
ControlInv == /\ cpc # "dead" => failures < RedisAttempts /\ tries < RedisAttempts
              /\ cpc \in {"claim", "handle", "xack"} => cur # 0
              /\ spc = "mark" => row # 0
              /\ spc \in Ended => cpc = "down"

TypeInv == TypeOK /\ ControlInv

USE RedisAssumption, ConsumerAssumption, DeliveryAssumption, BatchAssumption
USE DEF redisVars, consumerVars, dbVars, cycleVars, flushVars, modeVars,
        reportVars, otherVars, supVars, vars

LEMMA InitType == Init => TypeInv
<1> SUFFICES ASSUME Init PROVE TypeInv
  OBVIOUS
<1> USE DEF Init, RedisInit, ConsumerInit
<1>1. RedisTypeOK
  BY DEF RedisTypeOK
<1>2. ConsumerTypeOK
  BY DEF ConsumerTypeOK, InboxState, ConsumerPC
<1>3. DbTypeOK
  BY DEF DbTypeOK
<1>4. FlagTypeOK
  BY DEF FlagTypeOK
<1>5. SupervisorTypeOK
  BY DEF SupervisorTypeOK, Live, Ended, NoFailure, Failures
<1>6. ControlInv
  BY DEF ControlInv, Ended
<1> QED BY <1>1, <1>2, <1>3, <1>4, <1>5, <1>6 DEF TypeInv, TypeOK

(***************************************************************************)
(* What each Redis command does to the types.                              *)
(***************************************************************************)
LEMMA XreadgroupType ==
  ASSUME RedisTypeOK, NEW c \in Instances, XREADGROUP(c)
  PROVE  /\ RedisTypeOK'
         /\ UNCHANGED <<stream, ledger>>
         /\ lastDelivered <= lastDelivered'
         /\ NewRows \subseteq 1..lastDelivered'
<1> USE DEF RedisTypeOK, XREADGROUP
<1>1. Len(stream) \in Nat /\ lastDelivered \in Nat
  OBVIOUS
<1>2. NewCursor \in lastDelivered..Len(stream)
  BY <1>1 DEF NewCursor
<1>3. NewRows \subseteq 1..lastDelivered'
  BY <1>1, <1>2 DEF NewRows
<1>4. pel' \subseteq (1..lastDelivered') \X Instances
  <2>1. pel \subseteq (1..lastDelivered') \X Instances
    BY <1>1, <1>2
  <2>2. NewRows \X {c} \subseteq (1..lastDelivered') \X Instances
    BY <1>3
  <2> QED BY <2>1, <2>2
<1> QED BY <1>1, <1>2, <1>3, <1>4

LEMMA XautoclaimType ==
  ASSUME RedisTypeOK, NEW c \in Instances,
         NEW ids \in SUBSET {e[1] : e \in pel}, XAUTOCLAIM(ids, c)
  PROVE  /\ RedisTypeOK'
         /\ UNCHANGED <<stream, ledger, lastDelivered>>
         /\ ids \subseteq 1..lastDelivered
BY DEF RedisTypeOK, XAUTOCLAIM

LEMMA XackType ==
  ASSUME RedisTypeOK, NEW i, XACK(i)
  PROVE  RedisTypeOK' /\ UNCHANGED <<stream, ledger, lastDelivered>>
BY DEF RedisTypeOK, XACK

LEMMA XaddType ==
  ASSUME RedisTypeOK, NEW b \in Bars, stream' = Append(stream, b),
         UNCHANGED <<lastDelivered, pel>>, ledger' \in [Bars -> Nat]
  PROVE  RedisTypeOK' /\ Len(stream') = Len(stream) + 1
<1>1. stream' \in Seq(Bars) /\ Len(stream') = Len(stream) + 1
  BY DEF RedisTypeOK
<1> QED BY <1>1 DEF RedisTypeOK

LEMMA LuaType ==
  ASSUME RedisTypeOK, NEW b \in Bars, PublicationLua(b)
  PROVE  /\ RedisTypeOK' /\ UNCHANGED <<lastDelivered, pel>>
         /\ Len(stream) <= Len(stream')
<1>1. CASE ledger[b] # 0
  BY <1>1 DEF PublicationLua, RedisTypeOK
<1>2. CASE ledger[b] = 0
  <2>1. ledger' \in [Bars -> Nat]
    BY <1>2 DEF PublicationLua, RedisTypeOK
  <2>2. stream' = Append(stream, b) /\ UNCHANGED <<lastDelivered, pel>>
    BY <1>2 DEF PublicationLua
  <2> QED BY <2>1, <2>2, XaddType DEF RedisTypeOK
<1> QED BY <1>1, <1>2

\* The steps of the consumer task keep the types.
LEMMA ConsumerType == TypeInv /\ (Consumer \/ ConsumerFails) => TypeInv'
<1> SUFFICES ASSUME TypeInv, spc \in Live, UNCHANGED supVars,
                    ConsumerStep \/ ConsumerFault
             PROVE  TypeInv'
  BY DEF Consumer, ConsumerFails
<1>1. DbTypeOK'
  BY DEF TypeInv, TypeOK, DbTypeOK
<1>2. ASSUME RedisTypeOK', ConsumerTypeOK', ControlInv', replay' \in BOOLEAN,
             Len(stream) <= Len(stream')
      PROVE  TypeInv'
  <2>1. FlagTypeOK'
    BY <1>2 DEF TypeInv, TypeOK, FlagTypeOK
  <2>2. SupervisorTypeOK'
    BY <1>2 DEF TypeInv, TypeOK, RedisTypeOK, SupervisorTypeOK
  <2> QED BY <1>1, <1>2, <2>1, <2>2 DEF TypeInv, TypeOK
<1> HIDE DEF supVars
<1>3. RedisTypeOK /\ ConsumerTypeOK /\ ControlInv /\ replay \in BOOLEAN
  BY DEF TypeInv, TypeOK, FlagTypeOK
<1>4. spc' = spc /\ row' = row /\ spc \notin Ended
  BY DEF supVars, Live, Ended
<1>5. Len(stream) \in Nat
  BY <1>3 DEF RedisTypeOK
<1> USE DEF ConsumerTypeOK, ControlInv, InboxState, ConsumerPC, Fault
<1>6. CASE EnsureGroup
  BY <1>2, <1>3, <1>4, <1>5, <1>6 DEF EnsureGroup, RedisTypeOK
<1>7. CASE PendingRead
  <2>1. RedisTypeOK' /\ Len(stream) <= Len(stream')
    BY <1>3, <1>5, <1>7 DEF PendingRead, RedisTypeOK
  <2>2. replay' \in BOOLEAN
    BY <1>7 DEF PendingRead
  <2>3. ConsumerTypeOK' /\ ControlInv'
    BY <1>3, <1>4, <1>7 DEF PendingRead, Fetched, FirstRows, OwnPending
  <2> QED BY <1>2, <2>1, <2>2, <2>3
<1>8. ASSUME NEW ids \in SUBSET {e[1] : e \in pel}, Reclaim(ids)
      PROVE  TypeInv'
  <2>1. /\ RedisTypeOK' /\ UNCHANGED <<stream, lastDelivered>>
        /\ ids \subseteq 1..lastDelivered
    BY <1>3, <1>8, XautoclaimType DEF Reclaim
  <2>2. ConsumerTypeOK' /\ ControlInv' /\ replay' \in BOOLEAN
    BY <1>3, <1>4, <1>8, <2>1 DEF Reclaim, Fetched
  <2> QED BY <1>2, <1>5, <2>1, <2>2
<1>9. CASE NewRead
  <2>1. /\ RedisTypeOK' /\ UNCHANGED stream
        /\ lastDelivered <= lastDelivered' /\ NewRows \subseteq 1..lastDelivered'
    BY <1>3, <1>9, XreadgroupType DEF NewRead
  <2>2. lastDelivered \in Nat /\ lastDelivered' \in Nat
    BY <1>3, <2>1 DEF RedisTypeOK
  <2>3. ConsumerTypeOK'
    BY <1>3, <1>9, <2>1, <2>2 DEF NewRead, Fetched
  <2>4. ControlInv' /\ replay' \in BOOLEAN
    BY <1>3, <1>4, <1>9 DEF NewRead, Fetched
  <2> QED BY <1>2, <1>5, <2>1, <2>3, <2>4
<1>10. CASE RecoveryDeadline
  BY <1>2, <1>3, <1>4, <1>5, <1>10 DEF RecoveryDeadline, RedisTypeOK
<1>11. ASSUME NEW i \in batch, Yield(i)
       PROVE  TypeInv'
  BY <1>2, <1>3, <1>4, <1>5, <1>11 DEF Yield, RedisTypeOK
<1>12. CASE BatchDone
  BY <1>2, <1>3, <1>4, <1>5, <1>12 DEF BatchDone, RedisTypeOK
<1>13. CASE ClaimInbox
  BY <1>2, <1>3, <1>4, <1>5, <1>13 DEF ClaimInbox, RedisTypeOK
<1>23. CASE RejectBar
  BY <1>2, <1>3, <1>4, <1>5, <1>23 DEF RejectBar, RedisTypeOK
<1>14. CASE CommitInbox
  BY <1>2, <1>3, <1>4, <1>5, <1>14 DEF CommitInbox, RedisTypeOK
<1>15. CASE Ack
  <2>1. RedisTypeOK' /\ UNCHANGED <<stream, lastDelivered>>
    BY <1>3, <1>15, XackType DEF Ack
  <2>2. lastDelivered \in Nat
    BY <1>3 DEF RedisTypeOK
  <2>3. ConsumerTypeOK'
    BY <1>3, <1>15, <2>1, <2>2 DEF Ack
  <2>4. ControlInv' /\ replay' \in BOOLEAN
    BY <1>3, <1>4, <1>15 DEF Ack
  <2> QED BY <1>2, <1>5, <2>1, <2>3, <2>4
<1>16. CASE EnsureFault
  BY <1>2, <1>3, <1>4, <1>5, <1>16 DEF EnsureFault, CallFailed, RedisTypeOK
<1>17. CASE AckFault
  <2>1. RedisTypeOK' /\ UNCHANGED <<stream, lastDelivered>>
    BY <1>3, <1>17, XackType DEF AckFault, RedisTypeOK
  <2> QED BY <1>2, <1>3, <1>4, <1>5, <1>17, <2>1 DEF AckFault, CallFailed
<1>18. ASSUME ReadFailed, Fault, cpc \in {"loop", "new"}, RedisTypeOK',
              UNCHANGED stream, lastDelivered <= lastDelivered'
       PROVE  TypeInv'
  <2>1. lastDelivered \in Nat /\ lastDelivered' \in Nat
    BY <1>3, <1>18 DEF RedisTypeOK
  <2>2. replay' \in BOOLEAN
    BY <1>3, <1>18 DEF ReadFailed
  <2>3. ControlInv'
    BY <1>3, <1>4, <1>18 DEF ReadFailed
  <2>4. ConsumerTypeOK'
    BY <1>3, <1>18, <2>1 DEF ReadFailed
  <2> QED BY <1>2, <1>5, <1>18, <2>2, <2>3, <2>4
<1>19. CASE PendingReadFault
  <2>1. lastDelivered <= lastDelivered'
    BY <1>3, <1>19 DEF PendingReadFault, RedisTypeOK
  <2> QED BY <1>3, <1>18, <1>19, <2>1 DEF PendingReadFault, RedisTypeOK
<1>20. ASSUME NEW ids \in SUBSET {e[1] : e \in pel}, ReclaimFault(ids)
       PROVE  TypeInv'
  <2>1. RedisTypeOK' /\ UNCHANGED <<stream, lastDelivered>>
    BY <1>3, <1>20, XautoclaimType DEF ReclaimFault
  <2>2. lastDelivered <= lastDelivered'
    BY <1>3, <2>1 DEF RedisTypeOK
  <2> QED BY <1>18, <1>20, <2>1, <2>2 DEF ReclaimFault
<1>21. CASE NewReadFault
  <2>1. RedisTypeOK' /\ UNCHANGED stream /\ lastDelivered <= lastDelivered'
    BY <1>3, <1>21, XreadgroupType DEF NewReadFault, RedisTypeOK
  <2> QED BY <1>18, <1>21, <2>1 DEF NewReadFault
<1>22. CASE TaskFails
  BY <1>2, <1>3, <1>4, <1>5, <1>22 DEF TaskFails, RedisTypeOK
<1> QED BY <1>23, <1>6, <1>7, <1>8, <1>9, <1>10, <1>11, <1>12, <1>13, <1>14, <1>15, <1>16,
           <1>17, <1>19, <1>20, <1>21, <1>22 DEF ConsumerStep, ConsumerFault

\* Raising leaves everything but the supervisor's place as it was.
LEMMA RaiseType ==
  ASSUME TypeInv, Raise, UNCHANGED <<redisVars, consumerVars>>,
         faults' \in 0..MaxFaults
  PROVE  TypeInv'
<1>1. RedisTypeOK' /\ ConsumerTypeOK' /\ DbTypeOK'
  BY DEF TypeInv, TypeOK, Raise, RedisTypeOK, ConsumerTypeOK, DbTypeOK
<1>2. FlagTypeOK'
  BY DEF TypeInv, TypeOK, Raise, FlagTypeOK
<1>3. SupervisorTypeOK'
  BY DEF TypeInv, TypeOK, Raise, SupervisorTypeOK, Live, Ended
<1>4. ControlInv'
  BY DEF TypeInv, Raise, ControlInv, Ended
<1> QED BY <1>1, <1>2, <1>3, <1>4 DEF TypeInv, TypeOK

\* The steps of the supervisor keep the types.
LEMMA SupervisorType == TypeInv /\ Supervisor => TypeInv'
<1> SUFFICES ASSUME TypeInv, Supervisor
             PROVE  TypeInv'
  OBVIOUS
<1>0. /\ RedisTypeOK /\ ConsumerTypeOK /\ DbTypeOK /\ FlagTypeOK
      /\ SupervisorTypeOK /\ ControlInv
  BY DEF TypeInv, TypeOK
<1>r. faults \in 0..MaxFaults
  BY <1>0 DEF ConsumerTypeOK
<1>o. ASSUME UNCHANGED otherVars
      PROVE  RedisTypeOK' /\ ConsumerTypeOK' /\ replay' \in BOOLEAN
  BY <1>0, <1>o DEF RedisTypeOK, ConsumerTypeOK, FlagTypeOK
<1>u. Unpublished \subseteq 1..Len(outbox)
  BY DEF Unpublished
<1>1. CASE ConsumerStopped
  BY <1>1, <1>r, RaiseType DEF ConsumerStopped
<1>2. CASE Top
  <2>1. DbTypeOK' /\ FlagTypeOK'
    BY <1>0, <1>2 DEF Top, StartFlush, DbTypeOK, FlagTypeOK
  <2>2. SupervisorTypeOK' /\ ControlInv'
    BY <1>0, <1>2, <1>u DEF Top, StartFlush, SupervisorTypeOK, ControlInv, Live, Ended
  <2> QED BY <1>o, <1>2, <2>1, <2>2 DEF Top, TypeInv, TypeOK
<1>3. ASSUME NEW i \in todo, Publish(i)
      PROVE  TypeInv'
  <2>1. i \in 1..Len(outbox) /\ outbox[i] \in Bars
    BY <1>0, <1>3 DEF SupervisorTypeOK, DbTypeOK
  <2>2. RedisTypeOK' /\ UNCHANGED lastDelivered /\ Len(stream) <= Len(stream')
    BY <1>0, <1>3, <2>1, LuaType DEF Publish
  <2>3. ConsumerTypeOK' /\ DbTypeOK' /\ FlagTypeOK'
    BY <1>0, <1>3, <2>2 DEF Publish, ConsumerTypeOK, DbTypeOK, FlagTypeOK
  <2>4. Len(stream) \in Nat /\ Len(stream') \in Nat
    BY <1>0, <2>2 DEF RedisTypeOK
  <2>5. SupervisorTypeOK'
    BY <1>0, <1>3, <2>1, <2>2, <2>4 DEF Publish, SupervisorTypeOK, Live
  <2>6. ControlInv'
    BY <1>0, <1>3, <2>1 DEF Publish, ControlInv, Ended
  <2> QED BY <2>2, <2>3, <2>5, <2>6 DEF TypeInv, TypeOK
<1>4. CASE Mark
  <2>1. row \in 1..Len(outbox)
    BY <1>0, <1>4 DEF Mark, ControlInv, SupervisorTypeOK, DbTypeOK
  <2>2. DbTypeOK' /\ FlagTypeOK'
    BY <1>0, <1>4, <2>1 DEF Mark, DbTypeOK, FlagTypeOK
  <2>3. SupervisorTypeOK' /\ ControlInv'
    BY <1>0, <1>4, <2>1 DEF Mark, SupervisorTypeOK, ControlInv, Live, Ended, DbTypeOK
  <2> QED BY <1>o, <1>4, <2>2, <2>3 DEF Mark, TypeInv, TypeOK
<1>5. CASE FlushDone
  <2>1. DbTypeOK' /\ FlagTypeOK'
    BY <1>0, <1>5 DEF FlushDone, DbTypeOK, FlagTypeOK
  <2>2. SupervisorTypeOK' /\ ControlInv'
    BY <1>0, <1>5 DEF FlushDone, SupervisorTypeOK, ControlInv, Live, Ended
  <2> QED BY <1>o, <1>5, <2>1, <2>2 DEF FlushDone, TypeInv, TypeOK
<1>6. CASE Bound
  <2>1. DbTypeOK' /\ FlagTypeOK'
    BY <1>0, <1>6 DEF Bound, DbTypeOK, FlagTypeOK
  <2>2. end' \in latest(watermark)..target
    BY <1>0, <1>6, AdmittedBatch DEF Bound, BatchRefused, DbTypeOK, SupervisorTypeOK
  <2>3. latest(watermark) \in 0..MaxMinute
    BY <1>0, LatestIsMax DEF DbTypeOK
  <2>4. end' \in 0..MaxMinute
    BY <1>0, <2>2, <2>3 DEF SupervisorTypeOK
  <2>5. SupervisorTypeOK' /\ ControlInv'
    BY <1>0, <1>6, <2>4 DEF Bound, SupervisorTypeOK, ControlInv, Live, Ended,
                            NoFailure, Failures
  <2> QED BY <1>o, <1>6, <2>1, <2>5 DEF Bound, TypeInv, TypeOK
<1>7. ASSUME NEW s \in Symbols, AppendBar(s)
      PROVE  TypeInv'
  <2>1. watermark[s] \in 0..MaxMinute /\ watermark[s] + 1 \in 1..MaxMinute
    BY <1>0, <1>7 DEF AppendBar, DbTypeOK, SupervisorTypeOK
  <2>2. <<s, watermark[s] + 1>> \in Bars
    BY <2>1 DEF Bars
  <2>3. outbox' \in Seq(Bars) /\ Len(outbox') = Len(outbox) + 1
    BY <1>0, <1>7, <2>2 DEF AppendBar, DbTypeOK
  <2>4. watermark' \in [Symbols -> 0..MaxMinute]
    BY <1>0, <1>7, <2>1 DEF AppendBar, DbTypeOK
  <2>5. DbTypeOK' /\ FlagTypeOK'
    BY <1>0, <1>7, <2>3, <2>4 DEF AppendBar, DbTypeOK, FlagTypeOK
  <2>6. Len(outbox) \in Nat
    BY <1>0 DEF DbTypeOK
  <2>7. SupervisorTypeOK' /\ ControlInv'
    BY <1>0, <1>7, <2>3, <2>6 DEF AppendBar, SupervisorTypeOK, ControlInv
  <2> QED BY <1>o, <1>7, <2>5, <2>7 DEF AppendBar, TypeInv, TypeOK
<1>8. CASE RecoverDone
  <2>1. DbTypeOK' /\ FlagTypeOK'
    BY <1>0, <1>8 DEF RecoverDone, StartFlush, DbTypeOK, FlagTypeOK
  <2>2. SupervisorTypeOK' /\ ControlInv'
    BY <1>0, <1>8, <1>u DEF RecoverDone, StartFlush, SupervisorTypeOK, ControlInv,
                            Live, Ended
  <2> QED BY <1>o, <1>8, <2>1, <2>2 DEF RecoverDone, TypeInv, TypeOK
<1>9. CASE ReadPending
  <2>1. DbTypeOK' /\ FlagTypeOK'
    BY <1>0, <1>9 DEF ReadPending, DbTypeOK, FlagTypeOK
  <2>2. SupervisorTypeOK' /\ ControlInv'
    BY <1>0, <1>9 DEF ReadPending, SupervisorTypeOK, ControlInv, Live, Ended
  <2> QED BY <1>o, <1>9, <2>1, <2>2 DEF ReadPending, TypeInv, TypeOK
<1>10. CASE ReadUncompleted
  <2>1. DbTypeOK' /\ FlagTypeOK'
    BY <1>0, <1>10 DEF ReadUncompleted, DbTypeOK, FlagTypeOK
  <2>2. SupervisorTypeOK' /\ ControlInv'
    BY <1>0, <1>10 DEF ReadUncompleted, SupervisorTypeOK, ControlInv, Live, Ended
  <2> QED BY <1>o, <1>10, <2>1, <2>2 DEF ReadUncompleted, TypeInv, TypeOK
<1>11. CASE Sample
  <2>1. DbTypeOK' /\ FlagTypeOK'
    BY <1>0, <1>11 DEF Sample, Fresh, DbTypeOK, FlagTypeOK
  <2>2. SupervisorTypeOK' /\ ControlInv'
    BY <1>0, <1>11 DEF Sample, SupervisorTypeOK, ControlInv, Live, Ended
  <2> QED BY <1>o, <1>11, <2>1, <2>2 DEF Sample, TypeInv, TypeOK
<1>12. ASSUME NEW i \in published, AddDuplicate(i)
       PROVE  TypeInv'
  <2>1. outbox[i] \in Bars
    BY <1>0 DEF DbTypeOK
  <2>2. RedisTypeOK' /\ UNCHANGED lastDelivered /\ Len(stream') = Len(stream) + 1
    <3>1. stream' = Append(stream, outbox[i]) /\ UNCHANGED <<lastDelivered, pel>>
      BY <1>12 DEF AddDuplicate, XADD
    <3>2. ledger' \in [Bars -> Nat]
      BY <1>0, <1>12 DEF AddDuplicate, XADD, RedisTypeOK
    <3> QED BY <1>0, <2>1, <3>1, <3>2, XaddType
  <2>3. ConsumerTypeOK' /\ DbTypeOK' /\ FlagTypeOK'
    BY <1>0, <1>12, <2>2 DEF AddDuplicate, ConsumerTypeOK, DbTypeOK, FlagTypeOK
  <2>4. Len(stream) \in Nat
    BY <1>0 DEF RedisTypeOK
  <2>5. SupervisorTypeOK' /\ ControlInv'
    BY <1>0, <1>12, <2>2, <2>4 DEF AddDuplicate, SupervisorTypeOK, ControlInv
  <2> QED BY <2>2, <2>3, <2>5 DEF TypeInv, TypeOK
<1>13. CASE DuplicateAcked
  <2>1. DbTypeOK' /\ FlagTypeOK'
    BY <1>0, <1>13 DEF DuplicateAcked, DbTypeOK, FlagTypeOK
  <2>2. SupervisorTypeOK' /\ ControlInv'
    BY <1>0, <1>13 DEF DuplicateAcked, SupervisorTypeOK, ControlInv, Live, Ended
  <2> QED BY <1>o, <1>13, <2>1, <2>2 DEF DuplicateAcked, TypeInv, TypeOK
<1>14. CASE Report
  <2>1. DbTypeOK' /\ FlagTypeOK'
    BY <1>0, <1>14 DEF Report, DbTypeOK, FlagTypeOK
  <2>2. spc' \in {"closing", "wait", "idle", "top"}
    BY <1>14 DEF Report, AfterReport
  <2>3. SupervisorTypeOK' /\ ControlInv'
    BY <1>0, <1>14, <2>2 DEF Report, SupervisorTypeOK, ControlInv, Live, Ended
  <2> QED BY <1>o, <1>14, <2>1, <2>3 DEF Report, TypeInv, TypeOK
<1>15. CASE WaitEnds
  <2>1. DbTypeOK' /\ FlagTypeOK'
    BY <1>0, <1>15 DEF WaitEnds, DbTypeOK, FlagTypeOK
  <2>2. SupervisorTypeOK' /\ ControlInv'
    BY <1>0, <1>15 DEF WaitEnds, SupervisorTypeOK, ControlInv, Live, Ended
  <2> QED BY <1>o, <1>15, <2>1, <2>2 DEF WaitEnds, TypeInv, TypeOK
<1>16. CASE IdleEnds
  <2>1. DbTypeOK' /\ FlagTypeOK'
    BY <1>0, <1>16 DEF IdleEnds, DbTypeOK, FlagTypeOK
  <2>2. SupervisorTypeOK' /\ ControlInv'
    BY <1>0, <1>16 DEF IdleEnds, SupervisorTypeOK, ControlInv, Live, Ended
  <2> QED BY <1>o, <1>16, <2>1, <2>2 DEF IdleEnds, TypeInv, TypeOK
<1>17. CASE Refuse
  BY <1>17, <1>r, RaiseType DEF Refuse
<1>18. CASE Close
  <2>1. RedisTypeOK' /\ inbox' \in [Bars -> InboxState] /\ UNCHANGED stream
    <3>1. me \in Instances /\ inbox \in [Bars -> InboxState]
      BY <1>0 DEF ConsumerTypeOK
    <3> QED BY <1>0, <1>18, <3>1, XackType, XreadgroupType, XautoclaimType
            DEF Close, CancelTask, RedisTypeOK, InboxState
  <2>2. lastDelivered' \in Nat
    BY <2>1 DEF RedisTypeOK
  <2>3. ConsumerTypeOK'
    BY <1>0, <1>18, <2>1, <2>2 DEF Close, CancelTask, TaskGone, ConsumerTypeOK,
                                   ConsumerPC
  <2>4. DbTypeOK'
    BY <1>0, <1>18 DEF Close, DbTypeOK
  <2>5. FlagTypeOK'
    BY <1>0, <1>18 DEF Close, CancelTask, TaskGone, ProcessGone, FlagTypeOK
  <2>6. SupervisorTypeOK'
    BY <1>0, <1>18, <2>1 DEF Close, ProcessGone, SupervisorTypeOK, Ended, DbTypeOK,
                             NoFailure, Failures
  <2>7. ControlInv'
    BY <1>0, <1>18 DEF Close, CancelTask, TaskGone, ControlInv, SupervisorTypeOK
  <2> QED BY <2>1, <2>3, <2>4, <2>5, <2>6, <2>7 DEF TypeInv, TypeOK
<1>19. CASE SourceWait
  <2>1. DbTypeOK' /\ FlagTypeOK'
    BY <1>0, <1>19 DEF SourceWait, StartFlush, DbTypeOK, FlagTypeOK
  <2>2. SupervisorTypeOK' /\ ControlInv'
    BY <1>0, <1>19, <1>u DEF SourceWait, StartFlush, SupervisorTypeOK, ControlInv,
                             Live, Ended
  <2> QED BY <1>o, <1>19, <2>1, <2>2 DEF SourceWait, TypeInv, TypeOK
<1>20. CASE RecoverFails
  BY <1>20, <1>r, RaiseType DEF RecoverFails
<1> QED BY <1>1, <1>2, <1>3, <1>4, <1>5, <1>6, <1>7, <1>8, <1>9, <1>10, <1>11,
           <1>12, <1>13, <1>14, <1>15, <1>16, <1>17, <1>18, <1>19, <1>20
        DEF Supervisor

\* The steps of the environment keep the types.
LEMMA EnvironmentType == TypeInv /\ Environment => TypeInv'
<1> SUFFICES ASSUME TypeInv, Environment
             PROVE  TypeInv'
  OBVIOUS
<1>0. /\ RedisTypeOK /\ ConsumerTypeOK /\ DbTypeOK /\ FlagTypeOK
      /\ SupervisorTypeOK /\ ControlInv
  BY DEF TypeInv, TypeOK
<1>f. faults \in 0..MaxFaults /\ (Fault => faults' \in 0..MaxFaults)
  BY <1>0 DEF ConsumerTypeOK, Fault
<1>o. ASSUME UNCHANGED <<redisVars, consumerVars>>, faults' \in 0..MaxFaults
      PROVE  RedisTypeOK' /\ ConsumerTypeOK' /\ replay' \in BOOLEAN
  BY <1>0, <1>o DEF RedisTypeOK, ConsumerTypeOK, FlagTypeOK
<1>1. CASE ConsumerFails
  BY <1>1, ConsumerType
<1>2. ASSUME NEW s \in Symbols, NEW k \in Failures, SymbolFails(s, k)
      PROVE  TypeInv'
  <2>1. DbTypeOK' /\ FlagTypeOK'
    BY <1>0, <1>2 DEF SymbolFails, Fault, DbTypeOK, FlagTypeOK
  <2>2. failure' \in [Symbols -> Failures]
    BY <1>0, <1>2 DEF SymbolFails, SupervisorTypeOK
  <2>3. SupervisorTypeOK' /\ ControlInv'
    BY <1>0, <1>2, <2>2 DEF SymbolFails, SupervisorTypeOK, ControlInv
  <2>4. faults' \in 0..MaxFaults
    BY <1>f, <1>2 DEF SymbolFails
  <2> QED BY <1>o, <1>2, <2>1, <2>3, <2>4 DEF SymbolFails, TypeInv, TypeOK
<1>3. CASE DeadlinePassed
  BY <1>3, <1>f, RaiseType DEF DeadlinePassed
<1>4. CASE SupervisorFails
  BY <1>4, <1>f, RaiseType DEF SupervisorFails
<1>5. CASE CloseFails
  BY <1>5, <1>f, RaiseType DEF CloseFails
<1>6. CASE Sigterm
  <2>1. DbTypeOK' /\ FlagTypeOK'
    BY <1>0, <1>6 DEF Sigterm, DbTypeOK, FlagTypeOK
  <2>2. SupervisorTypeOK' /\ ControlInv'
    BY <1>0, <1>6 DEF Sigterm, SupervisorTypeOK, ControlInv
  <2> QED BY <1>f, <1>o, <1>6, <2>1, <2>2 DEF Sigterm, TypeInv, TypeOK
<1>7. CASE Kill
  <2>1. RedisTypeOK' /\ DbTypeOK'
    BY <1>0, <1>7 DEF Kill, RedisTypeOK, DbTypeOK
  <2>2. lastDelivered \in Nat
    BY <1>0 DEF RedisTypeOK
  <2>3. ConsumerTypeOK'
    BY <1>0, <1>7, <1>f, <2>2 DEF Kill, TaskGone, ConsumerTypeOK, ConsumerPC
  <2>4. FlagTypeOK'
    BY <1>0, <1>7 DEF Kill, TaskGone, ProcessGone, FlagTypeOK
  <2>5. SupervisorTypeOK'
    BY <1>0, <1>7 DEF Kill, ProcessGone, SupervisorTypeOK, Ended, DbTypeOK,
                      NoFailure, Failures
  <2>6. ControlInv'
    BY <1>0, <1>7 DEF Kill, TaskGone, ControlInv
  <2> QED BY <2>1, <2>3, <2>4, <2>5, <2>6 DEF TypeInv, TypeOK
<1>8. CASE Tick
  <2>1. DbTypeOK' /\ FlagTypeOK'
    BY <1>0, <1>8 DEF Tick, DbTypeOK, FlagTypeOK
  <2>2. SupervisorTypeOK' /\ ControlInv'
    BY <1>0, <1>8 DEF Tick, SupervisorTypeOK, ControlInv
  <2> QED BY <1>f, <1>o, <1>8, <2>1, <2>2 DEF Tick, TypeInv, TypeOK
<1>9. CASE ClockStepsBack
  <2>1. DbTypeOK' /\ FlagTypeOK'
    BY <1>0, <1>9 DEF ClockStepsBack, DbTypeOK, FlagTypeOK
  <2>2. SupervisorTypeOK' /\ ControlInv'
    BY <1>0, <1>9 DEF ClockStepsBack, SupervisorTypeOK, ControlInv
  <2> QED BY <1>f, <1>o, <1>9, <2>1, <2>2 DEF ClockStepsBack, TypeInv, TypeOK
<1>10. CASE Start
  <2>1. RedisTypeOK' /\ DbTypeOK'
    BY <1>0, <1>10 DEF Start, RedisTypeOK, DbTypeOK
  <2>2. FlagTypeOK'
    BY <1>0, <1>10 DEF Start, CreateTask, FlagTypeOK
  <2>3. SupervisorTypeOK'
    BY <1>0, <1>10 DEF Start, SupervisorTypeOK, Live
  <2>4. spc # "failed" /\ spc \in Ended
    BY <1>10 DEF Start
  <2>5. ConsumerTypeOK'
    BY <1>0, <1>10 DEF Start, CreateTask, ConsumerTypeOK, ConsumerPC
  <2>6. ControlInv'
    BY <1>0, <1>10 DEF Start, CreateTask, ControlInv, Ended
  <2> QED BY <2>1, <2>2, <2>3, <2>5, <2>6 DEF TypeInv, TypeOK
<1> QED BY <1>1, <1>2, <1>3, <1>4, <1>5, <1>6, <1>7, <1>8, <1>9, <1>10
        DEF Environment

LEMMA TypeInvInductive == TypeInv /\ [Next]_vars => TypeInv'
<1> SUFFICES ASSUME TypeInv, [Next]_vars
             PROVE  TypeInv'
  OBVIOUS
<1>1. CASE Next
  BY <1>1, ConsumerType, SupervisorType, EnvironmentType DEF Next
<1>2. CASE UNCHANGED vars
  BY <1>2 DEF TypeInv, TypeOK, RedisTypeOK, ConsumerTypeOK, DbTypeOK, FlagTypeOK,
              SupervisorTypeOK, ControlInv
<1> QED BY <1>1, <1>2

\* Every reachable state of the runtime epoch is well typed; in particular
\* the retry counters of runtime_redis_call and of the read loop never pass
\* RUNTIME_REDIS_ATTEMPTS and the end of a batch never passes the clock's range.
THEOREM TypeCorrect == Spec => []TypeOK
<1>1. Spec => []TypeInv
  BY InitType, TypeInvInductive, PTL DEF Spec
<1>2. TypeInv => TypeOK
  BY DEF TypeInv
<1> QED BY <1>1, <1>2, PTL

-----------------------------------------------------------------------------
(* Exactly-once acceptance and acknowledgement after completion            *)

(***************************************************************************)
(* The ledger and the stream describe the same set of accepted bars: every *)
(* receipt points at its entry, and every entry but the duplicate is the   *)
(* one its bar's receipt points at.  The supervisor holds a receipt for    *)
(* each row it has marked or is about to mark.                             *)
(***************************************************************************)
ReceiptHasEntry == \A b \in Bars : ledger[b] # 0 =>
                     ledger[b] \in 1..Len(stream) /\ stream[ledger[b]] = b

EntryHasReceipt == \A i \in 1..Len(stream) :
                     \/ ledger[stream[i]] = i
                     \/ i = dup /\ ledger[stream[i]] # 0

MarkedHasReceipt == /\ \A i \in published : ledger[outbox[i]] # 0
                    /\ spc = "mark" => ledger[outbox[row]] # 0

LedgerInv == ReceiptHasEntry /\ EntryHasReceipt /\ MarkedHasReceipt

\* Steps that touch neither the stream, the ledger nor the outbox.
LedgerFrame == /\ UNCHANGED <<stream, ledger, published, outbox, dup>>
               /\ spc' = "mark" => spc = "mark" /\ row' = row

LEMMA FrameKeepsLedger ==
  ASSUME LedgerInv, LedgerFrame PROVE LedgerInv'
BY DEF LedgerInv, LedgerFrame, ReceiptHasEntry, EntryHasReceipt, MarkedHasReceipt

\* Only publishing, marking, appending and the duplicate leave the frame.
LEMMA LedgerSteps ==
  ASSUME TypeInv, Next
  PROVE  \/ LedgerFrame
         \/ \E i \in todo : Publish(i)
         \/ Mark
         \/ \E s \in Symbols : AppendBar(s)
         \/ \E i \in published : AddDuplicate(i)
<1>1. CASE Consumer \/ ConsumerFails
  <2>1. UNCHANGED <<stream, ledger>>
    BY <1>1 DEF Consumer, ConsumerFails, ConsumerStep, ConsumerFault, EnsureGroup,
       PendingRead, Reclaim, NewRead, RecoveryDeadline, Yield, BatchDone, ClaimInbox, RejectBar,
       CommitInbox, Ack, EnsureFault, PendingReadFault, ReclaimFault, NewReadFault,
       AckFault, TaskFails, XREADGROUP, XAUTOCLAIM, XACK
  <2> QED BY <1>1, <2>1 DEF Consumer, ConsumerFails, LedgerFrame
<1>2. CASE ConsumerStopped \/ Refuse \/ RecoverFails \/ DeadlinePassed
           \/ SupervisorFails \/ CloseFails
  BY <1>2 DEF ConsumerStopped, Refuse, RecoverFails, DeadlinePassed, SupervisorFails,
              CloseFails, Raise, LedgerFrame
<1>3. CASE Top \/ RecoverDone \/ SourceWait
  BY <1>3 DEF Top, RecoverDone, SourceWait, StartFlush, LedgerFrame
<1>4. CASE FlushDone \/ Bound \/ ReadPending \/ ReadUncompleted \/ Sample
           \/ DuplicateAcked \/ WaitEnds \/ IdleEnds
  BY <1>4 DEF FlushDone, Bound, ReadPending, ReadUncompleted, Sample, DuplicateAcked,
              WaitEnds, IdleEnds, LedgerFrame
<1>5. CASE Report
  BY <1>5 DEF Report, AfterReport, LedgerFrame
<1>6. CASE Sigterm \/ Kill \/ Tick \/ ClockStepsBack \/ Start
  BY <1>6 DEF Sigterm, Kill, Tick, ClockStepsBack, Start, LedgerFrame
<1>7. CASE Close
  <2>1. outcome # "mark"
    BY DEF TypeInv, TypeOK, SupervisorTypeOK
  <2>2. UNCHANGED <<stream, ledger>>
    BY <1>7 DEF Close, CancelTask, XREADGROUP, XAUTOCLAIM, XACK
  <2> QED BY <1>7, <2>1, <2>2 DEF Close, LedgerFrame
<1>8. ASSUME NEW s \in Symbols, NEW k \in Failures, SymbolFails(s, k)
      PROVE  LedgerFrame
  BY <1>8 DEF SymbolFails, LedgerFrame
<1> QED BY <1>1, <1>2, <1>3, <1>4, <1>5, <1>6, <1>7, <1>8 DEF Next, Supervisor,
           Environment

\* Appending b to the stream together with its receipt.
LEMMA AcceptKeepsLedger ==
  ASSUME TypeInv, ReceiptHasEntry, EntryHasReceipt,
         NEW b \in Bars, ~ LuaRefuses(b), PublicationLua(b), UNCHANGED dup
  PROVE  /\ ReceiptHasEntry' /\ EntryHasReceipt'
         /\ ledger'[b] # 0
         /\ \A c \in Bars : ledger[c] # 0 => ledger'[c] # 0
<1>0. /\ stream \in Seq(Bars) /\ Len(stream) \in Nat /\ ledger \in [Bars -> Nat]
      /\ dup \in 0..Len(stream)
  BY DEF TypeInv, TypeOK, RedisTypeOK, SupervisorTypeOK
<1>1. CASE ledger[b] # 0
  BY <1>1 DEF PublicationLua, ReceiptHasEntry, EntryHasReceipt
<1>2. CASE ledger[b] = 0
  <2>1. /\ stream' = Append(stream, b)
        /\ ledger' = [ledger EXCEPT ![b] = Len(stream) + 1]
    BY <1>2 DEF PublicationLua
  <2>2. /\ Len(stream') = Len(stream) + 1
        /\ stream'[Len(stream) + 1] = b
        /\ \A i \in 1..Len(stream) : stream'[i] = stream[i]
    BY <1>0, <2>1
  <2>3. \A c \in Bars : ledger'[c] = IF c = b THEN Len(stream) + 1 ELSE ledger[c]
    BY <1>0, <2>1
  <2>4. ReceiptHasEntry'
    BY <1>0, <2>2, <2>3 DEF ReceiptHasEntry
  <2>5. \A i \in 1..Len(stream) : stream[i] \in Bars /\ stream[i] # b
    BY <1>0, <1>2 DEF EntryHasReceipt
  <2>6. EntryHasReceipt'
    <3> SUFFICES ASSUME NEW i \in 1..Len(stream')
                 PROVE  \/ ledger'[stream'[i]] = i
                        \/ i = dup' /\ ledger'[stream'[i]] # 0
      BY DEF EntryHasReceipt
    <3>1. CASE i = Len(stream) + 1
      BY <2>2, <2>3, <3>1
    <3>2. CASE i # Len(stream) + 1
      <4>1. i \in 1..Len(stream)
        BY <1>0, <2>2, <3>2
      <4>2. stream'[i] = stream[i] /\ ledger'[stream[i]] = ledger[stream[i]]
        BY <2>2, <2>3, <2>5, <4>1
      <4> QED BY <4>1, <4>2 DEF EntryHasReceipt
    <3> QED BY <3>1, <3>2
  <2> QED BY <1>0, <2>3, <2>4, <2>6
<1> QED BY <1>1, <1>2

LEMMA LedgerInvInductive ==
  ASSUME TypeInv, LedgerInv, [Next]_vars PROVE LedgerInv'
<1>0. /\ outbox \in Seq(Bars) /\ Len(outbox) \in Nat /\ published \subseteq 1..Len(outbox)
      /\ todo \subseteq 1..Len(outbox) /\ row \in 0..Len(outbox)
      /\ stream \in Seq(Bars) /\ Len(stream) \in Nat /\ ledger \in [Bars -> Nat]
      /\ dup \in 0..Len(stream)
  BY DEF TypeInv, TypeOK, DbTypeOK, SupervisorTypeOK, RedisTypeOK
<1>1. CASE UNCHANGED vars
  BY <1>1, FrameKeepsLedger DEF LedgerFrame
<1>2. ASSUME NEW i \in todo, Publish(i)
      PROVE  LedgerInv'
  <2>1. outbox[i] \in Bars
    BY <1>0
  <2>2. ~ LuaRefuses(outbox[i]) /\ PublicationLua(outbox[i]) /\ UNCHANGED dup
    BY <1>2 DEF Publish
  <2>3. /\ ReceiptHasEntry' /\ EntryHasReceipt'
        /\ ledger'[outbox[i]] # 0
        /\ \A c \in Bars : ledger[c] # 0 => ledger'[c] # 0
    BY <2>1, <2>2, AcceptKeepsLedger DEF LedgerInv
  <2>4. MarkedHasReceipt'
    BY <1>0, <1>2, <2>3 DEF Publish, LedgerInv, MarkedHasReceipt
  <2> QED BY <2>3, <2>4 DEF LedgerInv
<1>3. CASE Mark
  BY <1>3 DEF Mark, LedgerInv, ReceiptHasEntry, EntryHasReceipt, MarkedHasReceipt
<1>4. ASSUME NEW s \in Symbols, AppendBar(s)
      PROVE  LedgerInv'
  <2>1. UNCHANGED <<stream, ledger, published, dup, spc, row>> /\ spc = "recover"
    BY <1>4 DEF AppendBar
  <2>2. \A j \in 1..Len(outbox) : outbox'[j] = outbox[j]
    BY <1>0, <1>4 DEF AppendBar
  <2>3. MarkedHasReceipt'
    BY <1>0, <2>1, <2>2 DEF LedgerInv, MarkedHasReceipt
  <2> QED BY <2>1, <2>3 DEF LedgerInv, ReceiptHasEntry, EntryHasReceipt
<1>5. ASSUME NEW i \in published, AddDuplicate(i)
      PROVE  LedgerInv'
  <2>1. /\ stream' = Append(stream, outbox[i]) /\ ledger' = ledger
        /\ dup = 0 /\ dup' = Len(stream) + 1 /\ ledger[outbox[i]] # 0
        /\ UNCHANGED <<published, outbox, spc, row>>
    BY <1>5 DEF AddDuplicate, XADD
  <2>2. /\ outbox[i] \in Bars /\ Len(stream') = Len(stream) + 1
        /\ stream'[Len(stream) + 1] = outbox[i]
        /\ \A j \in 1..Len(stream) : stream'[j] = stream[j]
    BY <1>0, <2>1
  <2>3. ReceiptHasEntry'
    BY <1>0, <2>1, <2>2 DEF LedgerInv, ReceiptHasEntry
  <2>4. EntryHasReceipt'
    BY <1>0, <2>1, <2>2 DEF LedgerInv, EntryHasReceipt
  <2>5. MarkedHasReceipt'
    BY <2>1 DEF LedgerInv, MarkedHasReceipt
  <2> QED BY <2>3, <2>4, <2>5 DEF LedgerInv
<1> QED BY <1>1, <1>2, <1>3, <1>4, <1>5, LedgerSteps, FrameKeepsLedger

LEMMA SpecTypeInv == Spec => []TypeInv
BY InitType, TypeInvInductive, PTL DEF Spec

LEMMA SpecLedgerInv == Spec => []LedgerInv
<1>1. Init => LedgerInv
  BY DEF Init, RedisInit, LedgerInv, ReceiptHasEntry, EntryHasReceipt, MarkedHasReceipt
<1>2. TypeInv /\ LedgerInv /\ [Next]_vars => LedgerInv'
  BY LedgerInvInductive
<1> QED BY <1>1, <1>2, SpecTypeInv, PTL DEF Spec

\* However the process dies between the publication script and the update of
\* published_at, and however often it is started again, Redis holds at most
\* one entry of a bar besides the qualification's duplicate.
THEOREM ExactlyOnceAcceptance == Spec => []AcceptedOnce
<1>1. TypeInv /\ LedgerInv => AcceptedOnce
  <2> SUFFICES ASSUME TypeInv, LedgerInv, NEW i \in 1..Len(stream),
                      NEW j \in 1..Len(stream), stream[i] = stream[j]
               PROVE  i = j \/ dup \in {i, j}
    BY DEF AcceptedOnce
  <2> QED BY DEF LedgerInv, EntryHasReceipt
<1> QED BY <1>1, SpecTypeInv, SpecLedgerInv, PTL

\* No row is marked published without a receipt, and the publication script
\* never finds a receipt it has to refuse.
THEOREM PublicationReceipts == Spec => []PublishedIsAccepted
<1>1. TypeInv /\ LedgerInv => PublishedIsAccepted
  BY DEF LedgerInv, ReceiptHasEntry, MarkedHasReceipt, PublishedIsAccepted, LuaRefuses
<1> QED BY <1>1, SpecTypeInv, SpecLedgerInv, PTL

\* The publication script and the update of published_at are not one
\* transaction, and still a bar is accepted exactly as the ledger says.
THEOREM AcceptanceIsExact == Spec => []AcceptedExactly
<1>1. AcceptedOnce /\ PublishedIsAccepted => AcceptedExactly
  BY DEF AcceptedExactly
<1> QED BY <1>1, ExactlyOnceAcceptance, PublicationReceipts, PTL

----------------------------------------------------------------------------
(***************************************************************************)
(* Acknowledgement.  AckedOnlyCompleted needs to know that the message of  *)
(* an XACK in flight is completed.                                         *)
(***************************************************************************)
AckInv == /\ AckedOnlyCompleted
          /\ cpc = "xack" => inbox[stream[cur]] = "COMPLETED"

\* A completed inbox row stays completed.
InboxGrows == \A b \in Bars : inbox[b] = "COMPLETED" => inbox'[b] = "COMPLETED"

\* What is delivered stays pending until it is completed.
GroupKeeps == /\ lastDelivered' \in Nat
              /\ \A i \in 1..lastDelivered : stream'[i] = stream[i]
              /\ \A i \in 1..lastDelivered' :
                   \/ Pending(i)'
                   \/ i \in 1..lastDelivered /\ (Pending(i) => inbox[stream[i]] = "COMPLETED")

AckFrame == /\ InboxGrows /\ GroupKeeps
            /\ cpc' = "xack" => \/ cpc = "xack" /\ cur' = cur
                                \/ cur' = cur /\ inbox'[stream[cur]] = "COMPLETED"

LEMMA AckFrameKeeps ==
  ASSUME TypeInv, TypeInv', AckInv, AckFrame PROVE AckInv'
<1>1. /\ stream \in Seq(Bars) /\ lastDelivered \in 0..Len(stream) /\ cur \in 0..lastDelivered
      /\ Len(stream) \in Nat
      /\ \A i \in 1..lastDelivered : stream[i] \in Bars
  BY DEF TypeInv, TypeOK, RedisTypeOK, ConsumerTypeOK
<1>2. AckedOnlyCompleted'
  <2> SUFFICES ASSUME NEW i \in 1..lastDelivered', ~ Pending(i)'
               PROVE  inbox'[stream'[i]] = "COMPLETED"
    BY DEF AckedOnlyCompleted
  <2>1. i \in 1..lastDelivered /\ (Pending(i) => inbox[stream[i]] = "COMPLETED")
    BY DEF AckFrame, GroupKeeps
  <2>2. inbox[stream[i]] = "COMPLETED"
    BY <2>1 DEF AckInv, AckedOnlyCompleted
  <2> QED BY <1>1, <2>1, <2>2 DEF AckFrame, GroupKeeps, InboxGrows
<1>3. ASSUME cpc' = "xack" PROVE inbox'[stream'[cur']] = "COMPLETED"
  <2>1. cur' = cur /\ cur' # 0
    BY <1>3 DEF AckFrame, TypeInv, ControlInv
  <2>2. cur \in 1..lastDelivered /\ stream'[cur] = stream[cur] /\ stream[cur] \in Bars
    BY <1>1, <2>1 DEF AckFrame, GroupKeeps
  <2> QED BY <1>3, <2>1, <2>2 DEF AckFrame, InboxGrows, AckInv
<1> QED BY <1>2, <1>3 DEF AckInv

\* What each command of the group does to deliveries.
LEMMA SameGroupKeeps ==
  ASSUME TypeInv, UNCHANGED <<stream, lastDelivered, pel>> PROVE GroupKeeps
<1>1. lastDelivered \in Nat
  BY DEF TypeInv, TypeOK, RedisTypeOK
<1>2. \A i \in 1..lastDelivered : Pending(i) => Pending(i)'
  BY DEF Pending
<1> QED BY <1>1, <1>2 DEF GroupKeeps

LEMMA AppendKeeps ==
  ASSUME TypeInv, NEW b \in Bars, stream' = Append(stream, b),
         UNCHANGED <<lastDelivered, pel>>
  PROVE  GroupKeeps
<1>1. lastDelivered \in Nat /\ lastDelivered \in 0..Len(stream) /\ stream \in Seq(Bars)
  BY DEF TypeInv, TypeOK, RedisTypeOK
<1>2. \A i \in 1..lastDelivered : Pending(i) => Pending(i)'
  BY DEF Pending
<1>3. \A i \in 1..lastDelivered : stream'[i] = stream[i]
  BY <1>1
<1> QED BY <1>1, <1>2, <1>3 DEF GroupKeeps

LEMMA XreadgroupKeeps ==
  ASSUME TypeInv, XREADGROUP(me) PROVE GroupKeeps
<1>1. RedisTypeOK /\ me \in Instances
  BY DEF TypeInv, TypeOK, ConsumerTypeOK
<1>2. RedisTypeOK' /\ stream' = stream /\ lastDelivered' = NewCursor
  BY <1>1, XreadgroupType DEF XREADGROUP
<1>3. lastDelivered' \in Nat /\ lastDelivered \in Nat
  BY <1>1, <1>2 DEF RedisTypeOK
<1>4. ASSUME NEW i \in 1..lastDelivered'
      PROVE  Pending(i)' \/ (i \in 1..lastDelivered /\ (Pending(i) => Pending(i)'))
  <2>1. CASE i \in NewRows
    <3>1. <<i, me>> \in pel'
      BY <2>1 DEF XREADGROUP
    <3> QED BY <1>1, <3>1 DEF Pending
  <2>2. CASE i \notin NewRows
    <3>1. i \in 1..lastDelivered
      BY <1>2, <1>3, <2>2 DEF NewRows
    <3>2. Pending(i) => Pending(i)'
      BY DEF Pending, XREADGROUP
    <3> QED BY <3>1, <3>2
  <2> QED BY <2>1, <2>2
<1> QED BY <1>2, <1>3, <1>4 DEF GroupKeeps

LEMMA XautoclaimKeeps ==
  ASSUME TypeInv, NEW ids, XAUTOCLAIM(ids, me) PROVE GroupKeeps
<1>1. me \in Instances /\ lastDelivered \in Nat
  BY DEF TypeInv, TypeOK, ConsumerTypeOK, RedisTypeOK
<1>2. ASSUME NEW i \in 1..lastDelivered, Pending(i)
      PROVE  Pending(i)'
  <2>1. CASE i \in ids
    BY <1>1, <2>1 DEF Pending, XAUTOCLAIM
  <2>2. CASE i \notin ids
    <3>1. PICK c \in Instances : <<i, c>> \in pel
      BY <1>2 DEF Pending
    <3>2. <<i, c>> \in pel'
      BY <2>2, <3>1 DEF XAUTOCLAIM
    <3> QED BY <3>2 DEF Pending
  <2> QED BY <2>1, <2>2
<1> QED BY <1>1, <1>2 DEF GroupKeeps, XAUTOCLAIM

LEMMA XackKeeps ==
  ASSUME TypeInv, XACK(cur), inbox[stream[cur]] = "COMPLETED" PROVE GroupKeeps
<1>1. lastDelivered \in Nat
  BY DEF TypeInv, TypeOK, RedisTypeOK
<1>2. ASSUME NEW i \in 1..lastDelivered, Pending(i), i # cur
      PROVE  Pending(i)'
  <2>1. PICK c \in Instances : <<i, c>> \in pel
    BY <1>2 DEF Pending
  <2>2. <<i, c>> \in pel'
    BY <1>2, <2>1 DEF XACK
  <2> QED BY <2>2 DEF Pending
<1> QED BY <1>1, <1>2 DEF GroupKeeps, XACK

LEMMA ConsumerAckFrame ==
  ASSUME TypeInv, AckInv, ConsumerStep \/ ConsumerFault PROVE AckFrame
<1>0. inbox \in [Bars -> InboxState]
  BY DEF TypeInv, TypeOK, ConsumerTypeOK
<1>1. CASE ClaimInbox \/ CommitInbox
  <2>1. GroupKeeps
    BY <1>1, SameGroupKeeps DEF ClaimInbox, CommitInbox
  <2>2. InboxGrows /\ (cpc' = "xack" => inbox'[stream[cur]] = "COMPLETED") /\ cur' = cur
    <3>1. stream[cur] \in Bars
      BY <1>1 DEF ClaimInbox, CommitInbox, TypeInv, TypeOK, ControlInv, RedisTypeOK,
                  ConsumerTypeOK
    <3>2. CASE ClaimInbox
      BY <1>0, <3>1, <3>2 DEF ClaimInbox, InboxGrows
    <3>3. CASE CommitInbox
      BY <1>0, <3>1, <3>3 DEF CommitInbox, InboxGrows
    <3> QED BY <1>1, <3>2, <3>3
  <2> QED BY <2>1, <2>2 DEF AckFrame
<1>2. CASE ~ (ClaimInbox \/ CommitInbox)
  <2>1. inbox' = inbox
    BY <1>2 DEF ConsumerStep, ConsumerFault, EnsureGroup, PendingRead, Reclaim, NewRead,
       RecoveryDeadline, Yield, BatchDone, RejectBar, Ack, EnsureFault, PendingReadFault,
       ReclaimFault, NewReadFault, AckFault, TaskFails, Fetched, CallFailed, ReadFailed
  <2>2. cpc' = "xack" => cpc = "xack" /\ cur' = cur
    BY <1>2 DEF ConsumerStep, ConsumerFault, EnsureGroup, PendingRead, Reclaim, NewRead,
       RecoveryDeadline, Yield, BatchDone, RejectBar, Ack, EnsureFault, PendingReadFault,
       ReclaimFault, NewReadFault, AckFault, TaskFails, Fetched, CallFailed, ReadFailed,
       TypeInv, TypeOK, ConsumerTypeOK
  <2>3. GroupKeeps
    <3>1. CASE EnsureGroup \/ PendingRead \/ RecoveryDeadline \/ RejectBar \/ BatchDone \/ EnsureFault
               \/ PendingReadFault \/ TaskFails \/ \E i \in batch : Yield(i)
      BY <3>1, SameGroupKeeps DEF EnsureGroup, PendingRead, RecoveryDeadline, RejectBar, BatchDone,
         EnsureFault, PendingReadFault, TaskFails, Yield
    <3>2. CASE \E ids \in SUBSET {e[1] : e \in pel} : Reclaim(ids) \/ ReclaimFault(ids)
      BY <3>2, XautoclaimKeeps DEF Reclaim, ReclaimFault
    <3>3. CASE NewRead \/ NewReadFault
      BY <3>3, XreadgroupKeeps, SameGroupKeeps DEF NewRead, NewReadFault
    <3>4. CASE Ack \/ AckFault
      BY <3>4, XackKeeps, SameGroupKeeps DEF Ack, AckFault, AckInv
    <3> QED BY <1>2, <3>1, <3>2, <3>3, <3>4 DEF ConsumerStep, ConsumerFault
  <2> QED BY <2>1, <2>2, <2>3 DEF AckFrame, InboxGrows
<1> QED BY <1>1, <1>2

LEMMA CancelAckFrame ==
  ASSUME TypeInv, AckInv, CancelTask PROVE AckFrame
<1>0. inbox \in [Bars -> InboxState]
  BY DEF TypeInv, TypeOK, ConsumerTypeOK
<1>1. cpc' = "down"
  BY DEF CancelTask, TaskGone
<1>2. GroupKeeps
  BY SameGroupKeeps, XackKeeps, XreadgroupKeeps, XautoclaimKeeps DEF CancelTask, AckInv
<1>3. InboxGrows
  <2>1. cpc \in {"claim", "handle"} => stream[cur] \in Bars
    BY DEF TypeInv, TypeOK, ControlInv, RedisTypeOK, ConsumerTypeOK
  <2> QED BY <1>0, <2>1 DEF CancelTask, InboxGrows
<1> QED BY <1>1, <1>2, <1>3 DEF AckFrame

LEMMA NextAckFrame ==
  ASSUME TypeInv, AckInv, [Next]_vars PROVE AckFrame
<1>1. CASE Consumer \/ ConsumerFails
  BY <1>1, ConsumerAckFrame DEF Consumer, ConsumerFails
<1>2. CASE Close
  BY <1>2, CancelAckFrame DEF Close
<1>3. CASE Kill \/ Start
  <2>1. GroupKeeps
    BY <1>3, SameGroupKeeps DEF Kill, Start
  <2>2. inbox' = inbox /\ cpc' # "xack"
    BY <1>3 DEF Kill, Start, TaskGone, CreateTask
  <2> QED BY <2>1, <2>2 DEF AckFrame, InboxGrows
<1>4. CASE UNCHANGED consumerVars
  <2>1. GroupKeeps
    <3>1. CASE UNCHANGED redisVars
      BY <3>1, SameGroupKeeps
    <3>2. ASSUME NEW i \in 1..Len(outbox), PublicationLua(outbox[i])
          PROVE  GroupKeeps
      <4>1. outbox[i] \in Bars
        BY DEF TypeInv, TypeOK, DbTypeOK
      <4> QED BY <3>2, <4>1, SameGroupKeeps, AppendKeeps DEF PublicationLua
    <3>3. ASSUME NEW i \in 1..Len(outbox), XADD(outbox[i])
          PROVE  GroupKeeps
      <4>1. outbox[i] \in Bars
        BY DEF TypeInv, TypeOK, DbTypeOK
      <4> QED BY <3>3, <4>1, AppendKeeps DEF XADD
    <3>4. \/ UNCHANGED redisVars
          \/ \E i \in 1..Len(outbox) : PublicationLua(outbox[i]) \/ XADD(outbox[i])
          \/ Consumer \/ ConsumerFails \/ Close \/ Kill \/ Start
      <4>1. todo \subseteq 1..Len(outbox) /\ published \subseteq 1..Len(outbox)
        BY DEF TypeInv, TypeOK, DbTypeOK, SupervisorTypeOK
      <4> QED
        BY <4>1 DEF Next, Supervisor, Environment, ConsumerStopped, Top, Publish, Mark,
           FlushDone, Bound, AppendBar, RecoverDone, ReadPending, ReadUncompleted, Sample,
           AddDuplicate, DuplicateAcked, Report, WaitEnds, IdleEnds, Refuse, SourceWait,
           RecoverFails, Raise, SymbolFails,
           DeadlinePassed, SupervisorFails, CloseFails, Sigterm, Tick, ClockStepsBack
    <3> QED BY <1>1, <1>2, <1>3, <3>1, <3>2, <3>3, <3>4 DEF AckFrame
  <2> QED BY <1>4, <2>1 DEF AckFrame, InboxGrows
<1> QED
  <2>1. \/ UNCHANGED consumerVars
        \/ Consumer \/ ConsumerFails \/ Close \/ Kill \/ Start
    BY DEF Next, Supervisor, Environment, ConsumerStopped, Top, Publish, Mark,
       FlushDone, Bound, AppendBar, RecoverDone, ReadPending, ReadUncompleted, Sample,
       AddDuplicate, DuplicateAcked, Report, WaitEnds, IdleEnds, Refuse, SourceWait,
           RecoverFails, Raise, SymbolFails,
       DeadlinePassed, SupervisorFails, CloseFails, Sigterm, Tick, ClockStepsBack
  <2> QED BY <1>1, <1>2, <1>3, <1>4, <2>1

LEMMA SpecAckInv == Spec => []AckInv
<1>1. Init => AckInv
  BY DEF Init, RedisInit, ConsumerInit, AckInv, AckedOnlyCompleted
<1>2. TypeInv /\ TypeInv' /\ AckInv /\ [Next]_vars => AckInv'
  BY NextAckFrame, AckFrameKeeps
<1> QED BY <1>1, <1>2, SpecTypeInv, PTL DEF Spec

\* A lost answer, a retry, a reclaim by another process, a cancelled task or a
\* kill never lets an acknowledgement run ahead of the durable completion.
THEOREM AckAfterCompletion == Spec => []AckedOnlyCompleted
<1>1. AckInv => AckedOnlyCompleted
  BY DEF AckInv
<1> QED BY <1>1, SpecAckInv, PTL

\* No redelivery reopens a completed message.
THEOREM CompletionIsFinal == Spec => CompletedIsFinal
<1>1. TypeInv /\ AckInv /\ [Next]_vars
        => [\A b \in Bars : inbox[b] = "COMPLETED" => inbox'[b] = "COMPLETED"]_vars
  BY NextAckFrame DEF AckFrame, InboxGrows
<1> QED BY <1>1, SpecTypeInv, SpecAckInv, PTL DEF Spec, CompletedIsFinal

-----------------------------------------------------------------------------
(* Order, bounds and truthfulness of delivery, and the refinement of       *)
(* BarDelivery.                                                            *)

(***************************************************************************)
(* The outbox holds the chain of every symbol in market order and nothing  *)
(* beyond the watermarks.                                                  *)
(***************************************************************************)
ChainEnqueued == \A s \in Symbols : \A m \in 1..watermark[s] :
                   \E i \in 1..Len(outbox) : outbox[i] = <<s, m>>

WithinWatermark == \A i \in 1..Len(outbox) :
                     outbox[i][2] <= watermark[outbox[i][1]]

OutboxOrdered == \A i, j \in 1..Len(outbox) :
                   /\ i < j
                   /\ outbox[i][1] = outbox[j][1]
                   => outbox[i][2] < outbox[j][2]

OutboxInv == ChainEnqueued /\ WithinWatermark /\ OutboxOrdered

(***************************************************************************)
(* Rows are published from the front.  A flush works on all unpublished    *)
(* rows, because nothing is appended while it runs; a crash can leave one  *)
(* accepted row unmarked, and only the first unpublished one.              *)
(***************************************************************************)
FlushInv == /\ spc \in {"publish", "mark"} => todo = Unpublished
            /\ spc = "mark" => NextRow(row)
            /\ spc = "bound" => Unpublished = {}
            /\ \A i \in published : \A j \in 1..(i - 1) : j \in published

ReceiptHasRow == \A b \in Bars : ledger[b] # 0 =>
                   \E i \in 1..Len(outbox) : outbox[i] = b

AcceptedInFront == \A i \in 1..Len(outbox) : ledger[outbox[i]] # 0 =>
                     \A j \in 1..(i - 1) : j \in published

AcceptedInOrder == \A i, j \in 1..Len(outbox) :
                     /\ i < j
                     /\ ledger[outbox[i]] # 0 /\ ledger[outbox[j]] # 0
                     => ledger[outbox[i]] < ledger[outbox[j]]

FlowInv == /\ OutboxInv /\ FlushInv
           /\ ReceiptHasRow /\ AcceptedInFront /\ AcceptedInOrder

\* Steps that move neither rows nor receipts; a flush may start or end.
FlowFrame == /\ UNCHANGED <<watermark, outbox, published, ledger>>
             /\ spc' \in {"publish", "mark"} =>
                  \/ spc' = "publish" /\ todo' = Unpublished
                  \/ UNCHANGED <<spc, todo, row>>
             /\ spc' = "bound" => spc = "bound" \/ (spc = "publish" /\ todo = {})

LEMMA FrameKeepsFlow ==
  ASSUME FlowInv, FlowFrame PROVE FlowInv'
<1>1. Unpublished' = Unpublished
  BY DEF FlowFrame, Unpublished
<1>2. OutboxInv'
  BY DEF FlowInv, FlowFrame, OutboxInv, ChainEnqueued, WithinWatermark, OutboxOrdered
<1>3. FlushInv'
  BY <1>1 DEF FlowInv, FlowFrame, FlushInv, NextRow
<1> QED BY <1>2, <1>3 DEF FlowInv, FlowFrame, ReceiptHasRow, AcceptedInFront,
                          AcceptedInOrder

LEMMA FlowSteps ==
  ASSUME TypeInv, Next
  PROVE  \/ FlowFrame
         \/ \E i \in todo : Publish(i)
         \/ Mark
         \/ \E s \in Symbols : AppendBar(s)
<1>1. CASE Consumer \/ ConsumerFails
  <2>1. UNCHANGED ledger
    BY <1>1 DEF Consumer, ConsumerFails, ConsumerStep, ConsumerFault, EnsureGroup,
       PendingRead, Reclaim, NewRead, RecoveryDeadline, Yield, BatchDone, ClaimInbox,
       RejectBar, CommitInbox, Ack, EnsureFault, PendingReadFault, ReclaimFault,
       NewReadFault, AckFault, TaskFails, XREADGROUP, XAUTOCLAIM, XACK
  <2> QED BY <1>1, <2>1 DEF Consumer, ConsumerFails, FlowFrame
<1>2. CASE ConsumerStopped \/ Refuse \/ RecoverFails \/ DeadlinePassed
           \/ SupervisorFails \/ CloseFails
  BY <1>2 DEF ConsumerStopped, Refuse, RecoverFails, DeadlinePassed, SupervisorFails,
              CloseFails, Raise, FlowFrame
<1>3. CASE Top \/ RecoverDone \/ SourceWait
  BY <1>3 DEF Top, RecoverDone, SourceWait, StartFlush, FlowFrame
<1>4. CASE FlushDone \/ Bound \/ ReadPending \/ ReadUncompleted \/ Sample
           \/ DuplicateAcked \/ WaitEnds \/ IdleEnds
  BY <1>4 DEF FlushDone, Bound, ReadPending, ReadUncompleted, Sample, DuplicateAcked,
              WaitEnds, IdleEnds, FlowFrame
<1>5. CASE Report
  BY <1>5 DEF Report, AfterReport, FlowFrame
<1>6. CASE Sigterm \/ Kill \/ Tick \/ ClockStepsBack \/ Start
  BY <1>6 DEF Sigterm, Kill, Tick, ClockStepsBack, Start, FlowFrame
<1>7. CASE Close
  <2>1. outcome \notin {"publish", "mark", "bound"}
    BY DEF TypeInv, TypeOK, SupervisorTypeOK
  <2>2. UNCHANGED ledger
    BY <1>7 DEF Close, CancelTask, XREADGROUP, XAUTOCLAIM, XACK
  <2> QED BY <1>7, <2>1, <2>2 DEF Close, FlowFrame
<1>8. ASSUME NEW s \in Symbols, NEW k \in Failures, SymbolFails(s, k)
      PROVE  FlowFrame
  BY <1>8 DEF SymbolFails, FlowFrame
<1>9. ASSUME NEW i \in published, AddDuplicate(i)
      PROVE  FlowFrame
  BY <1>9 DEF AddDuplicate, XADD, FlowFrame
<1> QED BY <1>1, <1>2, <1>3, <1>4, <1>5, <1>6, <1>7, <1>8, <1>9
        DEF Next, Supervisor, Environment

\* A row is accepted: the first unpublished one, after all earlier ones.
LEMMA PublishKeepsFlow ==
  ASSUME TypeInv, LedgerInv, FlowInv, NEW r \in todo, Publish(r)
  PROVE  FlowInv'
<1>0. /\ outbox \in Seq(Bars) /\ Len(outbox) \in Nat /\ published \subseteq 1..Len(outbox)
      /\ todo \subseteq 1..Len(outbox)
      /\ Len(stream) \in Nat /\ ledger \in [Bars -> Nat]
      /\ \A i \in 1..Len(outbox) : outbox[i] \in Bars
  BY DEF TypeInv, TypeOK, DbTypeOK, SupervisorTypeOK, RedisTypeOK
<1>1. /\ spc = "publish" /\ spc' = "mark" /\ NextRow(r) /\ row' = r
      /\ UNCHANGED <<watermark, outbox, published, todo>>
      /\ todo = Unpublished
  BY DEF Publish, FlowInv, FlushInv
<1>2. r \in 1..Len(outbox) /\ r \notin published
      /\ \A j \in 1..(r - 1) : j \in published
  <2>1. r \in 1..Len(outbox) /\ r \notin published
    BY <1>1 DEF Unpublished
  <2>2. \A j \in todo : r <= j
    BY <1>1 DEF NextRow
  <2> QED BY <1>0, <1>1, <2>1, <2>2 DEF Unpublished
<1>3. OutboxInv'
  BY <1>1 DEF FlowInv, OutboxInv, ChainEnqueued, WithinWatermark, OutboxOrdered
<1>4. FlushInv'
  <2>1. Unpublished' = Unpublished
    BY <1>1 DEF Unpublished
  <2>2. NextRow(row)'
    BY <1>1 DEF NextRow
  <2> QED BY <1>1, <2>1, <2>2 DEF FlowInv, FlushInv
<1>5. CASE ledger[outbox[r]] # 0
  <2>1. UNCHANGED ledger
    BY <1>5 DEF Publish, PublicationLua
  <2> QED BY <1>1, <1>3, <1>4, <2>1 DEF FlowInv, ReceiptHasRow, AcceptedInFront,
                                        AcceptedInOrder
<1>6. CASE ledger[outbox[r]] = 0
  <2>1. ledger' = [ledger EXCEPT ![outbox[r]] = Len(stream) + 1]
    BY <1>6 DEF Publish, PublicationLua
  <2>2. outbox[r] \in Bars
    BY <1>0, <1>2
  <2>3. \A b \in Bars : ledger'[b] = IF b = outbox[r] THEN Len(stream) + 1 ELSE ledger[b]
    BY <1>0, <2>1, <2>2
  <2>4. \A i \in 1..Len(outbox) : ledger[outbox[i]] # 0 => i < r /\ ledger[outbox[i]] <= Len(stream)
    <3> SUFFICES ASSUME NEW i \in 1..Len(outbox), ledger[outbox[i]] # 0
                 PROVE  i < r /\ ledger[outbox[i]] <= Len(stream)
      OBVIOUS
    <3>1. ledger[outbox[i]] \in 1..Len(stream)
      BY <1>0 DEF LedgerInv, ReceiptHasEntry
    <3>2. \A j \in 1..(i - 1) : j \in published
      BY DEF FlowInv, AcceptedInFront
    <3>3. ~ (r < i)
      BY <1>2, <3>2
    <3>4. r # i
      BY <1>6
    <3> QED BY <1>0, <1>2, <3>1, <3>3, <3>4
  <2>5. \A i \in 1..Len(outbox) : outbox[i] = outbox[r] => i = r
    <3> SUFFICES ASSUME NEW i \in 1..Len(outbox), outbox[i] = outbox[r], i # r
                 PROVE  FALSE
      OBVIOUS
    <3>1. outbox[r][2] \in 1..MaxMinute
      BY <2>2 DEF Bars
    <3>2. i < r \/ r < i
      BY <1>0, <1>2
    <3> QED BY <1>2, <3>1, <3>2 DEF FlowInv, OutboxInv, OutboxOrdered
  <2>6. ReceiptHasRow'
    BY <1>1, <1>2, <2>3 DEF FlowInv, ReceiptHasRow
  <2>7. AcceptedInFront'
    <3> SUFFICES ASSUME NEW i \in 1..Len(outbox), ledger'[outbox[i]] # 0,
                        NEW j \in 1..(i - 1)
                 PROVE  j \in published
      BY <1>1 DEF AcceptedInFront
    <3>1. CASE i = r
      BY <1>2, <3>1
    <3>2. CASE i # r
      BY <1>0, <2>3, <2>5, <3>2 DEF FlowInv, AcceptedInFront
    <3> QED BY <3>1, <3>2
  <2>8. AcceptedInOrder'
    <3> SUFFICES ASSUME NEW i \in 1..Len(outbox), NEW j \in 1..Len(outbox), i < j,
                        ledger'[outbox[i]] # 0, ledger'[outbox[j]] # 0
                 PROVE  ledger'[outbox[i]] < ledger'[outbox[j]]
      BY <1>1 DEF AcceptedInOrder
    <3>1. \A k \in 1..Len(outbox) :
            ledger'[outbox[k]] = IF k = r THEN Len(stream) + 1 ELSE ledger[outbox[k]]
      BY <1>0, <2>3, <2>5
    <3>2. i # r
      BY <1>0, <1>2, <2>4, <3>1
    <3>3. CASE j = r
      BY <1>0, <2>4, <3>1, <3>2, <3>3
    <3>4. CASE j # r
      BY <3>1, <3>2, <3>4 DEF FlowInv, AcceptedInOrder
    <3> QED BY <3>3, <3>4
  <2> QED BY <1>3, <1>4, <2>6, <2>7, <2>8 DEF FlowInv
<1> QED BY <1>5, <1>6, <1>0, <1>2

\* The row just accepted is marked; it was the first unpublished one.
LEMMA MarkKeepsFlow ==
  ASSUME TypeInv, FlowInv, Mark PROVE FlowInv'
<1>0. /\ Len(outbox) \in Nat /\ published \subseteq 1..Len(outbox)
  BY DEF TypeInv, TypeOK, DbTypeOK
<1>1. /\ spc = "mark" /\ spc' = "publish" /\ NextRow(row) /\ todo = Unpublished
      /\ published' = published \union {row} /\ todo' = todo \ {row}
      /\ UNCHANGED <<watermark, outbox, ledger>>
  BY DEF Mark, FlowInv, FlushInv
<1>2. row \in 1..Len(outbox) /\ \A j \in Unpublished : row <= j
  BY <1>1 DEF NextRow, Unpublished
<1>3. todo' = Unpublished'
  BY <1>1 DEF Unpublished
<1>4. \A j \in 1..(row - 1) : j \in published
  BY <1>0, <1>2 DEF Unpublished
<1>5. FlushInv'
  BY <1>1, <1>3, <1>4 DEF FlowInv, FlushInv
<1>6. OutboxInv'
  BY <1>1 DEF FlowInv, OutboxInv, ChainEnqueued, WithinWatermark, OutboxOrdered
<1> QED BY <1>1, <1>5, <1>6 DEF FlowInv, ReceiptHasRow, AcceptedInFront,
                                AcceptedInOrder

\* A bar continues the chain of its symbol.
LEMMA AppendKeepsFlow ==
  ASSUME TypeInv, FlowInv, NEW s \in Symbols, AppendBar(s) PROVE FlowInv'
<1> DEFINE n == Len(outbox) + 1
           b == <<s, watermark[s] + 1>>
<1>0. /\ outbox \in Seq(Bars) /\ Len(outbox) \in Nat /\ published \subseteq 1..Len(outbox)
      /\ watermark \in [Symbols -> 0..MaxMinute] /\ end \in 0..MaxMinute
      /\ ledger \in [Bars -> Nat]
      /\ \A i \in 1..Len(outbox) : outbox[i] \in Bars
  BY DEF TypeInv, TypeOK, DbTypeOK, SupervisorTypeOK, RedisTypeOK
<1>1. /\ spc = "recover" /\ spc' = "recover" /\ watermark[s] < end
      /\ watermark' = [watermark EXCEPT ![s] = @ + 1]
      /\ outbox' = Append(outbox, b)
      /\ UNCHANGED <<published, ledger>>
  BY DEF AppendBar
<1>2. b \in Bars
  BY <1>0, <1>1 DEF Bars
<1>3. /\ Len(outbox') = n /\ outbox'[n] = b
      /\ \A i \in 1..Len(outbox) : outbox'[i] = outbox[i]
  BY <1>0, <1>1, <1>2
<1>4. \A u \in Symbols : watermark'[u] = IF u = s THEN watermark[s] + 1 ELSE watermark[u]
  BY <1>0, <1>1
<1>5. \A i \in 1..Len(outbox) : outbox[i][1] \in Symbols /\ outbox[i][2] \in 1..MaxMinute
  BY <1>0 DEF Bars
<1>6. \A i \in 1..Len(outbox) : outbox[i] # b
  BY <1>0, <1>5 DEF FlowInv, OutboxInv, WithinWatermark
<1>7. ledger[b] = 0
  BY <1>2, <1>6 DEF FlowInv, ReceiptHasRow
<1> HIDE DEF b
<1>8. ChainEnqueued'
  <2> SUFFICES ASSUME NEW u \in Symbols, NEW m \in 1..watermark'[u]
               PROVE  \E i \in 1..n : outbox'[i] = <<u, m>>
    BY <1>3 DEF ChainEnqueued
  <2>1. CASE u = s /\ m = watermark[s] + 1
    BY <1>0, <1>3, <2>1, SMTT(30) DEF b
  <2>2. CASE ~ (u = s /\ m = watermark[s] + 1)
    <3>1. m \in 1..watermark[u]
      BY <1>0, <1>4, <2>2
    <3>2. PICK i \in 1..Len(outbox) : outbox[i] = <<u, m>>
      BY <3>1 DEF FlowInv, OutboxInv, ChainEnqueued
    <3>3. i \in 1..n /\ outbox'[i] = <<u, m>>
      BY <1>0, <1>3, <3>2
    <3> QED BY <3>3
  <2> QED BY <2>1, <2>2
<1>9. WithinWatermark'
  <2> SUFFICES ASSUME NEW i \in 1..n
               PROVE  outbox'[i][2] <= watermark'[outbox'[i][1]]
    BY <1>3 DEF WithinWatermark
  <2>1. CASE i = n
    BY <1>0, <1>3, <1>4, <2>1 DEF b
  <2>2. CASE i \in 1..Len(outbox)
    <3>1. outbox[i][2] <= watermark[outbox[i][1]]
      BY <2>2 DEF FlowInv, OutboxInv, WithinWatermark
    <3>2. watermark[outbox[i][1]] <= watermark'[outbox[i][1]]
          /\ watermark[outbox[i][1]] \in Nat /\ watermark'[outbox[i][1]] \in Nat
      BY <1>0, <1>4, <1>5, <2>2, SMTT(30)
    <3> QED BY <1>3, <1>5, <2>2, <3>1, <3>2
  <2> QED BY <1>0, <2>1, <2>2
<1>10. OutboxOrdered'
  <2> SUFFICES ASSUME NEW i \in 1..n, NEW j \in 1..n, i < j,
                      outbox'[i][1] = outbox'[j][1]
               PROVE  outbox'[i][2] < outbox'[j][2]
    BY <1>3 DEF OutboxOrdered
  <2>1. i \in 1..Len(outbox) /\ outbox'[i] = outbox[i]
    BY <1>0, <1>3
  <2>2. CASE j = n
    <3>1. outbox[i][2] <= watermark[outbox[i][1]]
      BY <2>1 DEF FlowInv, OutboxInv, WithinWatermark
    <3>2. outbox'[j][1] = s /\ outbox'[j][2] = watermark[s] + 1
      BY <1>3, <2>2 DEF b
    <3> QED BY <1>0, <1>5, <2>1, <3>1, <3>2
  <2>3. CASE j \in 1..Len(outbox)
    BY <1>3, <2>1, <2>3 DEF FlowInv, OutboxInv, OutboxOrdered
  <2> QED BY <1>0, <2>2, <2>3
<1>11. FlushInv'
  BY <1>1 DEF FlowInv, FlushInv
<1>12. ReceiptHasRow'
  <2> SUFFICES ASSUME NEW c \in Bars, ledger[c] # 0
               PROVE  \E i \in 1..n : outbox'[i] = c
    BY <1>1, <1>3 DEF ReceiptHasRow
  <2>1. PICK i \in 1..Len(outbox) : outbox[i] = c
    BY DEF FlowInv, ReceiptHasRow
  <2> QED BY <1>0, <1>3, <2>1, SMTT(30)
<1>13. \A i \in 1..n : ledger[outbox'[i]] # 0 => i \in 1..Len(outbox) /\ outbox'[i] = outbox[i]
  BY <1>0, <1>3, <1>7
<1>14. AcceptedInFront' /\ AcceptedInOrder'
  BY <1>1, <1>3, <1>13 DEF FlowInv, AcceptedInFront, AcceptedInOrder
<1> QED BY <1>8, <1>9, <1>10, <1>11, <1>12, <1>14 DEF FlowInv, OutboxInv

LEMMA SpecFlowInv == Spec => []FlowInv
<1>1. Init => FlowInv
  BY DEF Init, RedisInit, FlowInv, OutboxInv, ChainEnqueued, WithinWatermark,
         OutboxOrdered, FlushInv, ReceiptHasRow, AcceptedInFront, AcceptedInOrder
<1>2. TypeInv /\ LedgerInv /\ FlowInv /\ [Next]_vars => FlowInv'
  <2> SUFFICES ASSUME TypeInv, LedgerInv, FlowInv, [Next]_vars PROVE FlowInv'
    OBVIOUS
  <2>1. CASE UNCHANGED vars
    BY <2>1, FrameKeepsFlow DEF FlowFrame
  <2>2. CASE Next
    BY <2>2, FlowSteps, FrameKeepsFlow, PublishKeepsFlow, MarkKeepsFlow, AppendKeepsFlow
  <2> QED BY <2>1, <2>2
<1> QED BY <1>1, <1>2, SpecTypeInv, SpecLedgerInv, PTL DEF Spec

----------------------------------------------------------------------------
(***************************************************************************)
(* The order of the stream and the bound of the outbox.                    *)
(***************************************************************************)

\* Two entries of a symbol stand in the stream as their rows do in the outbox.
LEMMA FlowOrdersStream == TypeInv /\ LedgerInv /\ FlowInv => StreamOrdered
<1> SUFFICES ASSUME TypeInv, LedgerInv, FlowInv,
                    NEW i \in 1..Len(stream), NEW j \in 1..Len(stream),
                    i < j, dup \notin {i, j}, stream[i][1] = stream[j][1]
             PROVE  stream[i][2] < stream[j][2]
  BY DEF StreamOrdered
<1>0. stream \in Seq(Bars) /\ Len(stream) \in Nat /\ Len(outbox) \in Nat
  BY DEF TypeInv, TypeOK, RedisTypeOK, DbTypeOK
<1>1. stream[i] \in Bars /\ stream[j] \in Bars
  BY <1>0
<1>2. ledger[stream[i]] = i /\ ledger[stream[j]] = j
  BY DEF LedgerInv, EntryHasReceipt
<1>3. PICK p \in 1..Len(outbox) : outbox[p] = stream[i]
  BY <1>0, <1>1, <1>2 DEF FlowInv, ReceiptHasRow
<1>4. PICK q \in 1..Len(outbox) : outbox[q] = stream[j]
  BY <1>0, <1>1, <1>2 DEF FlowInv, ReceiptHasRow
<1>5. p # q
  BY <1>0, <1>2, <1>3, <1>4
<1>6. ~ (q < p)
  BY <1>0, <1>2, <1>3, <1>4 DEF FlowInv, AcceptedInOrder
<1>7. p < q
  BY <1>0, <1>3, <1>4, <1>5, <1>6
<1> QED BY <1>3, <1>4, <1>7 DEF FlowInv, OutboxInv, OutboxOrdered

(***************************************************************************)
(* What is unpublished, with what the batch in progress still appends,     *)
(* stays within the cap: the batch was admitted on an empty outbox.        *)
(***************************************************************************)
CapInv == /\ PendingWithinCap
          /\ spc = "recover" =>
               Cardinality(Unpublished) + required_bars(watermark, end) <= MaxPending

CapFrame == /\ Unpublished' \subseteq Unpublished
            /\ UNCHANGED watermark
            /\ spc' = "recover" => spc = "recover" /\ UNCHANGED end

LEMMA CapSteps ==
  ASSUME TypeInv, Next
  PROVE  CapFrame \/ Bound \/ \E s \in Symbols : AppendBar(s)
<1>1. CASE Consumer \/ ConsumerFails
  BY <1>1 DEF Consumer, ConsumerFails, CapFrame, Unpublished
<1>2. CASE ConsumerStopped \/ Refuse \/ RecoverFails \/ DeadlinePassed
           \/ SupervisorFails \/ CloseFails
  BY <1>2 DEF ConsumerStopped, Refuse, RecoverFails, DeadlinePassed, SupervisorFails,
              CloseFails, Raise, CapFrame, Unpublished
<1>3. CASE Top \/ RecoverDone \/ SourceWait
  BY <1>3 DEF Top, RecoverDone, SourceWait, StartFlush, CapFrame, Unpublished
<1>4. CASE FlushDone \/ ReadPending \/ ReadUncompleted \/ Sample
           \/ DuplicateAcked \/ WaitEnds \/ IdleEnds
  BY <1>4 DEF FlushDone, ReadPending, ReadUncompleted, Sample, DuplicateAcked,
              WaitEnds, IdleEnds, CapFrame, Unpublished
<1>5. CASE Report
  BY <1>5 DEF Report, AfterReport, CapFrame, Unpublished
<1>6. CASE Sigterm \/ Kill \/ Tick \/ ClockStepsBack \/ Start
  BY <1>6 DEF Sigterm, Kill, Tick, ClockStepsBack, Start, CapFrame, Unpublished
<1>7. CASE Close
  <2>1. outcome # "recover"
    BY DEF TypeInv, TypeOK, SupervisorTypeOK
  <2> QED BY <1>7, <2>1 DEF Close, CapFrame, Unpublished
<1>8. ASSUME NEW s \in Symbols, NEW k \in Failures, SymbolFails(s, k)
      PROVE  CapFrame
  BY <1>8 DEF SymbolFails, CapFrame, Unpublished
<1>9. CASE \E i \in published : AddDuplicate(i)
  BY <1>9 DEF AddDuplicate, CapFrame, Unpublished
<1>10. CASE Mark \/ \E i \in todo : Publish(i)
  BY <1>10 DEF Mark, Publish, CapFrame, Unpublished
<1> QED BY <1>1, <1>2, <1>3, <1>4, <1>5, <1>6, <1>7, <1>8, <1>9, <1>10
        DEF Next, Supervisor, Environment

LEMMA UnpublishedFinite ==
  ASSUME TypeInv
  PROVE  IsFiniteSet(Unpublished) /\ Cardinality(Unpublished) \in Nat
<1>1. IsFiniteSet(1..Len(outbox))
  BY FS_Interval DEF TypeInv, TypeOK, DbTypeOK
<1>2. Unpublished \subseteq 1..Len(outbox)
  BY DEF Unpublished
<1> QED BY <1>1, <1>2, FS_Subset, FS_CardinalityType

\* An appended bar is one of those the batch still had to append.
LEMMA AppendKeepsCap ==
  ASSUME TypeInv, TypeInv', CapInv, NEW s \in Symbols, AppendBar(s)
  PROVE  CapInv'
<1> DEFINE b == <<s, watermark[s] + 1>>
           n == Len(outbox) + 1
<1>0. /\ outbox \in Seq(Bars) /\ Len(outbox) \in Nat /\ published \subseteq 1..Len(outbox)
      /\ watermark \in [Symbols -> 0..MaxMinute] /\ end \in Nat
  <2>1. DbTypeOK /\ end \in 0..MaxMinute
    BY DEF TypeInv, TypeOK, SupervisorTypeOK
  <2> QED BY <2>1 DEF DbTypeOK
<1>1. /\ spc = "recover" /\ spc' = "recover" /\ watermark[s] < end
      /\ watermark' = [watermark EXCEPT ![s] = @ + 1]
      /\ outbox' = Append(outbox, b)
      /\ UNCHANGED <<published, end>>
  BY DEF AppendBar
<1>2. Len(outbox') = n
  BY <1>0, <1>1
<1>3. Unpublished' = Unpublished \union {n} /\ n \notin Unpublished
  BY <1>0, <1>1, <1>2 DEF Unpublished
<1>4. Cardinality(Unpublished') = Cardinality(Unpublished) + 1
  BY <1>3, UnpublishedFinite, FS_AddElement
<1>5. /\ b \in BatchBars(watermark, end)
      /\ BatchBars(watermark', end) = BatchBars(watermark, end) \ {b}
  <2>1. b \in BatchBars(watermark, end)
    BY <1>0, <1>1 DEF BatchBars
  <2>2. \A u \in Symbols : watermark'[u] = IF u = s THEN watermark[s] + 1 ELSE watermark[u]
    BY <1>0, <1>1
  <2>3. ASSUME NEW u \in Symbols, NEW m \in 1..end
        PROVE  <<u, m>> \in BatchBars(watermark', end)
                 <=> <<u, m>> \in BatchBars(watermark, end) \ {b}
    <3>1. watermark'[u] < m <=> watermark[u] < m /\ <<u, m>> # b
      BY <1>0, <2>2
    <3> QED BY <3>1 DEF BatchBars
  <2>4. \A c \in BatchBars(watermark', end) \union BatchBars(watermark, end) :
          \E u \in Symbols, m \in 1..end : c = <<u, m>>
    BY DEF BatchBars
  <2> QED BY <2>1, <2>3, <2>4
<1>6. required_bars(watermark', end) = required_bars(watermark, end) - 1
  <2> DEFINE S == BatchBars(watermark, end)
  <2>1. IsFiniteSet(S)
    BY <1>0, BatchFinite
  <2> HIDE DEF S, b
  <2>2. Cardinality(S \ {b}) = IF b \in S THEN Cardinality(S) - 1 ELSE Cardinality(S)
    BY <2>1, FS_RemoveElement
  <2> QED BY <1>5, <2>2 DEF S, required_bars
<1>7. /\ required_bars(watermark, end) \in Nat /\ required_bars(watermark', end) \in Nat
      /\ Cardinality(Unpublished) \in Nat
  BY <1>0, BatchFinite, UnpublishedFinite
<1>8. Cardinality(Unpublished) + required_bars(watermark, end) <= MaxPending
  BY <1>1 DEF CapInv
<1>9. /\ Cardinality(Unpublished') + required_bars(watermark', end) <= MaxPending
      /\ Cardinality(Unpublished') <= MaxPending
  <2> DEFINE c == Cardinality(Unpublished)
             r == required_bars(watermark, end)
  <2>1. c \in Nat /\ r \in Nat /\ r - 1 \in Nat /\ c + r <= MaxPending
    BY <1>6, <1>7, <1>8
  <2> HIDE DEF c, r
  <2>2. c + 1 + (r - 1) <= MaxPending /\ c + 1 <= MaxPending
    BY <2>1
  <2> QED BY <1>4, <1>6, <2>2 DEF c, r
<1> QED BY <1>1, <1>9 DEF CapInv, PendingWithinCap

LEMMA SpecCapInv == Spec => []CapInv
<1>1. Init => CapInv
  BY FS_EmptySet DEF Init, CapInv, PendingWithinCap, Unpublished
<1>2. TypeInv /\ TypeInv' /\ FlowInv /\ CapInv /\ [Next]_vars => CapInv'
  <2> SUFFICES ASSUME TypeInv, TypeInv', FlowInv, CapInv, [Next]_vars PROVE CapInv'
    OBVIOUS
  <2>1. CASE CapFrame
    <3>1. Cardinality(Unpublished') <= Cardinality(Unpublished)
          /\ Cardinality(Unpublished') \in Nat /\ Cardinality(Unpublished) \in Nat
      BY <2>1, UnpublishedFinite, FS_Subset, FS_CardinalityType DEF CapFrame
    <3>2. end \in Nat
      BY DEF TypeInv, TypeOK, SupervisorTypeOK
    <3>3. required_bars(watermark, end) \in Nat
      BY <3>2, BatchFinite
    <3> QED BY <2>1, <3>1, <3>3 DEF CapFrame, CapInv, PendingWithinCap
  <2>2. CASE Bound
    <3>1. Unpublished = {} /\ UNCHANGED <<watermark, outbox, published>>
      BY <2>2 DEF Bound, FlowInv, FlushInv
    <3>2. Cardinality(Unpublished') = 0
      BY <3>1, FS_EmptySet DEF Unpublished
    <3>3. end' \in Nat /\ watermark \in [Symbols -> 0..MaxMinute] /\ target \in Nat
      BY DEF TypeInv, TypeOK, SupervisorTypeOK, DbTypeOK
    <3>4. required_bars(watermark', end') <= MaxPending
      BY <2>2, <3>1, <3>3, AdmittedBatch DEF Bound, BatchRefused
    <3>5. required_bars(watermark', end') \in Nat
      BY <3>3, BatchFinite
    <3> QED BY <3>2, <3>4, <3>5 DEF CapInv, PendingWithinCap
  <2>3. CASE UNCHANGED vars
    BY <2>3 DEF CapInv, PendingWithinCap, Unpublished
  <2> QED BY <2>1, <2>2, <2>3, CapSteps, AppendKeepsCap
<1> QED BY <1>1, <1>2, SpecTypeInv, SpecFlowInv, PTL DEF Spec

\* Whatever cuts a batch or a flush, and over any number of processes, the
\* bars of a symbol enter the stream in market order and flush never meets
\* more rows than MAX_PENDING.
THEOREM CatchupKeepsOrder == Spec => []CatchupIsOrderly
<1>1. StreamOrdered /\ PendingWithinCap => CatchupIsOrderly
  BY DEF CatchupIsOrderly
<1>2. CapInv => PendingWithinCap
  BY DEF CapInv
<1> QED BY <1>1, <1>2, FlowOrdersStream, SpecTypeInv, SpecLedgerInv, SpecFlowInv,
           SpecCapInv, PTL

----------------------------------------------------------------------------
(***************************************************************************)
(* A drained epoch: when the supervisor leaves the drain loop all rows are *)
(* published and completed, although it read its counters one by one, and  *)
(* they stay so until the next batch.                                      *)
(***************************************************************************)
Settled == Unpublished = {} /\ Uncompleted = {}

AfterDrain == \/ spc \in {"sample", "dup", "report", "wait", "idle"}
              \/ spc = "closing" /\ outcome # "failed"
              \/ spc \in {"stopped", "qualified"}

DrainInv == /\ spc = "drained" /\ clean => Unpublished = {}
            /\ AfterDrain => Settled

FreshInv == spc \in {"dup", "report"} /\ fresh =>
              \A s \in Symbols : watermark[s] >= target

WaitInv == /\ spc = "recover" => ~ waiting
           /\ spc = "wait" => waiting
           /\ waiting => Deferrable

\* Inbox rows exist only for accepted bars.
InboxInv == \A b \in Bars : inbox[b] # "none" => ledger[b] # 0

LEMMA ConsumerTouchesAccepted ==
  ASSUME TypeInv, LedgerInv, ConsumerStep \/ ConsumerFault \/ CancelTask
  PROVE  \A b \in Bars : inbox'[b] # inbox[b] => ledger[b] # 0
<1>0. inbox \in [Bars -> InboxState] /\ cur \in 0..lastDelivered /\ Len(stream) \in Nat
      /\ lastDelivered \in 0..Len(stream)
  BY DEF TypeInv, TypeOK, ConsumerTypeOK, RedisTypeOK
<1>1. cpc \in {"claim", "handle"} => ledger[stream[cur]] # 0
  <2> SUFFICES ASSUME cpc \in {"claim", "handle"} PROVE ledger[stream[cur]] # 0
    OBVIOUS
  <2>1. cur \in 1..Len(stream)
    BY <1>0 DEF TypeInv, ControlInv
  <2> QED BY <2>1 DEF LedgerInv, EntryHasReceipt
<1>2. \/ inbox' = inbox
      \/ /\ cpc \in {"claim", "handle"}
         /\ \E v \in InboxState : inbox' = [inbox EXCEPT ![stream[cur]] = v]
  BY DEF ConsumerStep, ConsumerFault, EnsureGroup, PendingRead, Reclaim, NewRead,
     RecoveryDeadline, Yield, BatchDone, ClaimInbox, RejectBar, CommitInbox, Ack,
     EnsureFault, PendingReadFault, ReclaimFault, NewReadFault, AckFault, TaskFails,
     Fetched, CallFailed, ReadFailed, CancelTask, InboxState
<1> QED BY <1>0, <1>1, <1>2

LEMMA NextTouchesAccepted ==
  ASSUME TypeInv, LedgerInv, [Next]_vars
  PROVE  \A b \in Bars : inbox'[b] # inbox[b] => ledger[b] # 0
<1>1. CASE Consumer \/ ConsumerFails \/ Close
  BY <1>1, ConsumerTouchesAccepted DEF Consumer, ConsumerFails, Close
<1>2. CASE ~ (Consumer \/ ConsumerFails \/ Close)
  <2>1. UNCHANGED inbox
    BY <1>2 DEF Next, Supervisor, Environment, ConsumerStopped, Top, Publish, Mark,
       FlushDone, Bound, AppendBar, RecoverDone, ReadPending, ReadUncompleted, Sample,
       AddDuplicate, DuplicateAcked, Report, WaitEnds, IdleEnds, Refuse, SourceWait,
       RecoverFails, Raise, SymbolFails, DeadlinePassed, SupervisorFails, CloseFails,
       Sigterm, Tick, ClockStepsBack, Kill, Start, CreateTask
  <2> QED BY <2>1
<1> QED BY <1>1, <1>2

LEMMA LedgerGrows ==
  ASSUME TypeInv, [Next]_vars
  PROVE  \A b \in Bars : ledger[b] # 0 => ledger'[b] # 0
<1>1. CASE \E i \in todo : Publish(i)
  <2>1. PICK i \in todo : Publish(i)
    BY <1>1
  <2>2. ledger \in [Bars -> Nat] /\ Len(stream) \in Nat /\ outbox[i] \in Bars
    BY DEF TypeInv, TypeOK, RedisTypeOK, DbTypeOK, SupervisorTypeOK
  <2> QED BY <2>1, <2>2 DEF Publish, PublicationLua
<1>2. CASE ~ \E i \in todo : Publish(i)
  BY <1>2, FlowSteps DEF FlowFrame, Mark, AppendBar
<1> QED BY <1>1, <1>2

LEMMA SpecInboxInv == Spec => []InboxInv
<1>1. Init => InboxInv
  BY DEF Init, ConsumerInit, InboxInv
<1>2. TypeInv /\ LedgerInv /\ InboxInv /\ [Next]_vars => InboxInv'
  BY NextTouchesAccepted, LedgerGrows DEF InboxInv
<1> QED BY <1>1, <1>2, SpecTypeInv, SpecLedgerInv, PTL DEF Spec

\* Nothing becomes unpublished or uncompleted while no bar is appended.
LEMMA SettledStays ==
  ASSUME TypeInv, InboxGrows, UNCHANGED <<outbox, published>>
  PROVE  (Unpublished = {} => Unpublished' = {}) /\ (Settled => Settled')
<1>1. published \subseteq 1..Len(outbox) /\ \A i \in 1..Len(outbox) : outbox[i] \in Bars
  BY DEF TypeInv, TypeOK, DbTypeOK
<1>2. Unpublished' = Unpublished
  BY DEF Unpublished
<1>3. Uncompleted' \subseteq Uncompleted
  BY <1>1 DEF Uncompleted, InboxGrows
<1> QED BY <1>2, <1>3 DEF Settled

LEMMA DrainInvStep ==
  ASSUME TypeInv, AckInv, DrainInv, [Next]_vars PROVE DrainInv'
<1>0. InboxGrows
  BY NextAckFrame DEF AckFrame
<1>1. CASE UNCHANGED <<outbox, published>>
  <2>0. (Unpublished = {} => Unpublished' = {}) /\ (Settled => Settled')
    BY <1>0, <1>1, SettledStays
  <2>1. CASE Consumer \/ ConsumerFails \/ Tick \/ ClockStepsBack \/ UNCHANGED vars
    BY <2>0, <2>1 DEF Consumer, ConsumerFails, Tick, ClockStepsBack, DrainInv, AfterDrain
  <2>2. CASE ConsumerStopped \/ Refuse \/ RecoverFails \/ DeadlinePassed
             \/ SupervisorFails \/ CloseFails
    BY <2>2 DEF ConsumerStopped, Refuse, RecoverFails, DeadlinePassed, SupervisorFails,
                CloseFails, Raise, DrainInv, AfterDrain
  <2>3. CASE \/ Top \/ RecoverDone \/ SourceWait \/ FlushDone \/ Bound
             \/ (\E i \in todo : Publish(i)) \/ Mark \/ IdleEnds \/ Kill \/ Start
             \/ \E s \in Symbols : AppendBar(s)
             \/ \E s \in Symbols : \E k \in Failures : SymbolFails(s, k)
    BY <2>3 DEF Top, RecoverDone, SourceWait, StartFlush, FlushDone, Bound, Publish,
       Mark, IdleEnds, Kill, Start, AppendBar, SymbolFails, DrainInv, AfterDrain
  <2>4. CASE ReadPending
    BY <2>0, <2>4 DEF ReadPending, DrainInv, AfterDrain
  <2>5. CASE ReadUncompleted
    BY <2>0, <2>5 DEF ReadUncompleted, Drained, Settled, DrainInv, AfterDrain
  <2>6. CASE Sample \/ DuplicateAcked \/ \E i \in published : AddDuplicate(i)
    BY <2>0, <2>6 DEF Sample, DuplicateAcked, AddDuplicate, DrainInv, AfterDrain
  <2>7. CASE Report \/ WaitEnds
    BY <2>0, <2>7 DEF Report, AfterReport, WaitEnds, DrainInv, AfterDrain
  <2>8. CASE Close
    <3>1. outcome \in {"stopped", "qualified", "failed"}
      BY DEF TypeInv, TypeOK, SupervisorTypeOK
    <3> QED BY <2>0, <2>8, <3>1 DEF Close, DrainInv, AfterDrain
  <2>9. CASE Sigterm
    BY <2>0, <2>9 DEF Sigterm, DrainInv, AfterDrain
  <2> QED BY <2>1, <2>2, <2>3, <2>4, <2>5, <2>6, <2>7, <2>8, <2>9
          DEF Next, Supervisor, Environment
<1>2. CASE ~ UNCHANGED <<outbox, published>>
  <2>1. Mark \/ \E s \in Symbols : AppendBar(s)
    BY <1>2, FlowSteps DEF FlowFrame, Publish
  <2> QED BY <2>1 DEF Mark, AppendBar, DrainInv, AfterDrain
<1> QED BY <1>1, <1>2

LEMMA SpecDrainInv == Spec => []DrainInv
<1>1. Init => DrainInv
  BY DEF Init, DrainInv, AfterDrain
<1>2. TypeInv /\ AckInv /\ DrainInv /\ [Next]_vars => DrainInv'
  BY DrainInvStep
<1> QED BY <1>1, <1>2, SpecTypeInv, SpecAckInv, PTL DEF Spec

LEMMA SpecFreshInv == Spec => []FreshInv
<1>1. Init => FreshInv
  BY DEF Init, FreshInv
<1>2. TypeInv /\ FreshInv /\ [Next]_vars => FreshInv'
  <2> SUFFICES ASSUME TypeInv, FreshInv, [Next]_vars PROVE FreshInv'
    OBVIOUS
  <2>1. CASE Sample
    BY <2>1 DEF Sample, Fresh, FreshInv
  <2>2. CASE Close
    BY <2>2 DEF Close, FreshInv, TypeInv, TypeOK, SupervisorTypeOK
  <2>3. CASE ~ (Sample \/ Close)
    <3>1. spc' \in {"dup", "report"} =>
            spc \in {"dup", "report"} /\ UNCHANGED <<watermark, fresh, target>>
      BY <2>3 DEF Next, Supervisor, Environment, Consumer, ConsumerFails,
         ConsumerStopped, Top, StartFlush, Publish, Mark,
         FlushDone, Bound, AppendBar, RecoverDone, ReadPending, ReadUncompleted,
         AddDuplicate, DuplicateAcked, Report, AfterReport, WaitEnds, IdleEnds, Refuse,
         SourceWait, RecoverFails, Raise, SymbolFails, DeadlinePassed, SupervisorFails,
         CloseFails, Sigterm, Tick, ClockStepsBack, Kill, Start
    <3> QED BY <3>1 DEF FreshInv
  <2> QED BY <2>1, <2>2, <2>3
<1> QED BY <1>1, <1>2, SpecTypeInv, PTL DEF Spec

LEMMA SpecWaitInv == Spec => []WaitInv
<1>1. Init => WaitInv
  BY DEF Init, WaitInv
<1>2. TypeInv /\ WaitInv /\ [Next]_vars => WaitInv'
  <2> SUFFICES ASSUME TypeInv, WaitInv, [Next]_vars PROVE WaitInv'
    OBVIOUS
  <2>1. CASE Bound
    BY <2>1 DEF Bound, WaitInv
  <2>2. CASE SourceWait
    <3>1. waiting' /\ UNCHANGED failure /\ Deferrable /\ spc' = "publish"
      BY <2>2 DEF SourceWait, StartFlush, Deferred
    <3>2. Deferrable'
      BY <3>1 DEF Deferrable, Leaves
    <3> QED BY <3>1, <3>2 DEF WaitInv
  <2>3. CASE Close \/ Kill
    <3>1. outcome \notin {"recover", "wait"}
      BY DEF TypeInv, TypeOK, SupervisorTypeOK
    <3>2. ~ waiting' /\ spc' \notin {"recover", "wait"}
      BY <2>3, <3>1 DEF Close, Kill, ProcessGone
    <3> QED BY <3>2 DEF WaitInv
  <2>4. ASSUME NEW s \in Symbols, NEW k \in Failures, SymbolFails(s, k)
        PROVE  WaitInv'
    BY <2>4 DEF SymbolFails, WaitInv
  <2>5. CASE Report
    <3>1. UNCHANGED <<failure, waiting>> /\ spc' # "recover" /\ (spc' = "wait" => waiting)
      BY <2>5 DEF Report, AfterReport
    <3>2. Deferrable' <=> Deferrable
      BY <3>1 DEF Deferrable, Leaves
    <3> QED BY <3>1, <3>2 DEF WaitInv
  <2>6. CASE /\ ~ (Bound \/ SourceWait \/ Close \/ Kill \/ Report)
             /\ ~ \E s \in Symbols : \E k \in Failures : SymbolFails(s, k)
    <3>1. /\ UNCHANGED <<failure, waiting>>
          /\ spc' \in {"recover", "wait"} => spc' = spc
      BY <2>6 DEF Next, Supervisor, Environment, Consumer, ConsumerFails,
         ConsumerStopped, Top, StartFlush, Publish, Mark,
         FlushDone, AppendBar, RecoverDone, ReadPending, ReadUncompleted, Sample,
         AddDuplicate, DuplicateAcked, WaitEnds, IdleEnds, Refuse,
         RecoverFails, Raise, DeadlinePassed, SupervisorFails,
         CloseFails, Sigterm, Tick, ClockStepsBack, Start
    <3>2. Deferrable' <=> Deferrable
      BY <3>1 DEF Deferrable, Leaves
    <3> QED BY <3>1, <3>2 DEF WaitInv
  <2> QED BY <2>1, <2>2, <2>3, <2>4, <2>5, <2>6
<1> QED BY <1>1, <1>2, SpecTypeInv, PTL DEF Spec

\* In a drained epoch every bar up to the watermarks is completed, and so is
\* every accepted one.
LEMMA SettledIsCompleted ==
  ASSUME TypeInv, FlowInv, Settled
  PROVE  /\ \A s \in Symbols : \A m \in 1..watermark[s] : inbox[<<s, m>>] = "COMPLETED"
         /\ \A b \in Bars : ledger[b] # 0 => inbox[b] = "COMPLETED"
<1>1. \A i \in 1..Len(outbox) : inbox[outbox[i]] = "COMPLETED"
  BY DEF Settled, Unpublished, Uncompleted
<1>2. ASSUME NEW s \in Symbols, NEW m \in 1..watermark[s]
      PROVE  inbox[<<s, m>>] = "COMPLETED"
  BY <1>1 DEF FlowInv, OutboxInv, ChainEnqueued
<1>3. ASSUME NEW b \in Bars, ledger[b] # 0
      PROVE  inbox[b] = "COMPLETED"
  BY <1>1, <1>3 DEF FlowInv, ReceiptHasRow
<1> QED BY <1>2, <1>3

LEMMA SpecRunning == Spec => []RunningIsTruthful
<1>1. Init => RunningIsTruthful
  BY DEF Init, RunningIsTruthful
<1>2. TypeInv /\ TypeInv' /\ AckInv /\ FlowInv /\ DrainInv /\ FreshInv /\ RunningIsTruthful
        /\ [Next]_vars => RunningIsTruthful'
  <2> SUFFICES ASSUME TypeInv, TypeInv', AckInv, FlowInv, DrainInv, FreshInv,
                      RunningIsTruthful, [Next]_vars
               PROVE  RunningIsTruthful'
    OBVIOUS
  <2>0. InboxGrows
    BY NextAckFrame DEF AckFrame
  <2>1. CASE Report
    <3> SUFFICES ASSUME status' = "RUNNING", NEW s \in Symbols, NEW m \in 1..statusTarget'
                 PROVE  inbox'[<<s, m>>] = "COMPLETED"
      BY DEF RunningIsTruthful
    <3>1. spc = "report" /\ fresh /\ statusTarget' = target /\ UNCHANGED inbox
      BY <2>1 DEF Report
    <3>2. Settled /\ watermark[s] >= target
      BY <3>1 DEF DrainInv, AfterDrain, FreshInv
    <3>3. target \in Nat /\ watermark[s] \in Nat
      BY DEF TypeInv, TypeOK, SupervisorTypeOK, DbTypeOK
    <3>4. m \in 1..watermark[s]
      BY <3>1, <3>2, <3>3
    <3> QED BY <3>1, <3>2, <3>4, SettledIsCompleted
  <2>2. CASE ~ Report
    <3>1. UNCHANGED statusTarget /\ (status' = status \/ status' = "FAILED_CLOSED")
      BY <2>2 DEF Next, Supervisor, Environment, Consumer, ConsumerFails,
         ConsumerStopped, Top, StartFlush, Publish, Mark, Bound, Close, Kill,
         FlushDone, AppendBar, RecoverDone, ReadPending, ReadUncompleted, Sample,
         AddDuplicate, DuplicateAcked, WaitEnds, IdleEnds, Refuse, SourceWait,
         RecoverFails, Raise, SymbolFails, DeadlinePassed, SupervisorFails,
         CloseFails, Sigterm, Tick, ClockStepsBack, Start
    <3>2. ASSUME NEW s \in Symbols, NEW m \in 1..statusTarget PROVE <<s, m>> \in Bars
      <4>1. statusTarget \in 0..MaxMinute
        BY DEF TypeInv, TypeOK, SupervisorTypeOK
      <4>2. m \in 1..MaxMinute
        BY <4>1
      <4> QED BY <4>2 DEF Bars
    <3> QED BY <2>0, <3>1, <3>2 DEF RunningIsTruthful, InboxGrows
  <2> QED BY <2>1, <2>2
<1> QED BY <1>1, <1>2, SpecTypeInv, SpecAckInv, SpecFlowInv, SpecDrainInv, SpecFreshInv,
           PTL DEF Spec

\* status.json never claims more than was delivered, and an epoch waits for
\* nothing but the source: whatever was killed, restarted, reread or regressed.
THEOREM StatusTellsTheTruth == Spec => []StatusIsTruthful
<1>1. WaitInv /\ DrainInv => WaitingIsForTheSource
  <2> SUFFICES ASSUME WaitInv, DrainInv, spc = "wait" PROVE WaitingIsForTheSource
    BY DEF WaitingIsForTheSource
  <2>1. Settled /\ Deferrable
    BY DEF WaitInv, DrainInv, AfterDrain
  <2>2. PICK k \in SourceReasons : Leaves = {k}
    BY <2>1 DEF Deferrable
  <2>3. \A s \in Symbols : failure[s] # "none" => failure[s] = k
    BY <2>2 DEF Leaves
  <2>4. k # "other"
    BY DEF SourceReasons
  <2> QED BY <2>1, <2>3, <2>4 DEF WaitingIsForTheSource, Settled
<1>2. RunningIsTruthful /\ WaitingIsForTheSource => StatusIsTruthful
  BY DEF StatusIsTruthful
<1> QED BY <1>1, <1>2, SpecRunning, SpecWaitInv, SpecDrainInv, PTL

\* Cancelling the consumer task at a graceful stop interrupts no delivery.
THEOREM StopIsClean == Spec => []StopLeavesNothingOpen
<1>1. TypeInv /\ FlowInv /\ InboxInv /\ DrainInv => StopLeavesNothingOpen
  <2> SUFFICES ASSUME TypeInv, FlowInv, InboxInv, DrainInv, spc = "stopped"
               PROVE  Unpublished = {} /\ Uncompleted = {} /\ Unresolved = {}
    BY DEF StopLeavesNothingOpen
  <2>1. Settled
    BY DEF DrainInv, AfterDrain
  <2>2. Unresolved = {}
    BY <2>1, SettledIsCompleted DEF Unresolved, InboxInv
  <2> QED BY <2>1, <2>2 DEF Settled
<1> QED BY <1>1, SpecTypeInv, SpecFlowInv, SpecInboxInv, SpecDrainInv, PTL

\* While the duplicate proof runs nothing is left that could complete, so it
\* cannot mistake an ordinary delivery for an effect of the duplicate.
THEOREM DuplicateIsHarmless == Spec => DuplicateHasNoEffect
<1>1. TypeInv /\ LedgerInv /\ AckInv /\ FlowInv /\ DrainInv /\ [Next]_vars
        => [spc = "dup" /\ spc' \in {"dup", "report"} => Completed' = Completed]_vars
  <2> SUFFICES ASSUME TypeInv, LedgerInv, AckInv, FlowInv, DrainInv, [Next]_vars,
                      spc = "dup"
               PROVE  Completed' = Completed
    OBVIOUS
  <2>1. Settled
    BY DEF DrainInv, AfterDrain
  <2>2. InboxGrows
    BY NextAckFrame DEF AckFrame
  <2>3. \A b \in Bars : inbox'[b] # inbox[b] => ledger[b] # 0
    BY NextTouchesAccepted
  <2>4. \A b \in Bars : inbox'[b] = "COMPLETED" <=> inbox[b] = "COMPLETED"
    BY <2>1, <2>2, <2>3, SettledIsCompleted DEF InboxGrows
  <2> QED BY <2>4 DEF Completed
<1> QED BY <1>1, SpecTypeInv, SpecLedgerInv, SpecAckInv, SpecFlowInv, SpecDrainInv,
           PTL DEF Spec, DuplicateHasNoEffect

----------------------------------------------------------------------------
(***************************************************************************)
(* EpochDelivery implements BarDelivery.  An append enqueues the next bar  *)
(* of its symbol, the first run of the publication script for a row        *)
(* accepts it, the commit of an inbox row completes it, also when the      *)
(* commit takes effect while its task is cancelled; every other step       *)
(* stutters.                                                               *)
(***************************************************************************)
Stage == [b \in Bars |-> StageOf(b)]

\* One bar moves to a stage and the others stay.
Moves(b, st) == \A c \in Bars : StageOf(c)' = IF c = b THEN st ELSE StageOf(c)

LEMMA SameStage ==
  ASSUME \A b \in Bars : StageOf(b)' = StageOf(b)
  PROVE  Stage' = Stage
BY DEF Stage

LEMMA MovedStage ==
  ASSUME NEW b \in Bars, NEW st, Moves(b, st)
  PROVE  Stage' = [Stage EXCEPT ![b] = st]
BY DEF Stage, Moves

\* An enqueued bar and its predecessor.
LEMMA AppendEnqueues ==
  ASSUME TypeInv, FlowInv, InboxInv, NEW s \in Symbols, AppendBar(s)
  PROVE  [Abstract!Next]_Stage
<1> DEFINE b == <<s, watermark[s] + 1>>
<1>0. /\ outbox \in Seq(Bars) /\ Len(outbox) \in Nat
      /\ watermark \in [Symbols -> 0..MaxMinute] /\ end \in 0..MaxMinute
      /\ \A i \in 1..Len(outbox) : outbox[i] \in Bars
  BY DEF TypeInv, TypeOK, DbTypeOK, SupervisorTypeOK
<1>1. /\ watermark[s] < end /\ outbox' = Append(outbox, b)
      /\ UNCHANGED <<ledger, inbox>>
  BY DEF AppendBar
<1>2. b \in Bars
  BY <1>0, <1>1 DEF Bars
<1>3. Enqueued' = Enqueued \union {b}
  <2>1. /\ Len(outbox') = Len(outbox) + 1 /\ outbox'[Len(outbox) + 1] = b
        /\ \A i \in 1..Len(outbox) : outbox'[i] = outbox[i]
    BY <1>0, <1>1, <1>2
  <2> HIDE DEF b
  <2>2. 1..Len(outbox') = 1..Len(outbox) \union {Len(outbox) + 1}
    BY <1>0, <2>1
  <2>3. Enqueued \subseteq Enqueued' /\ b \in Enqueued'
    BY <1>0, <2>1, <2>2 DEF Enqueued
  <2>4. Enqueued' \subseteq Enqueued \union {b}
    BY <1>0, <2>1, <2>2 DEF Enqueued
  <2> QED BY <2>3, <2>4
<1>4. b \notin Enqueued
  <2> SUFFICES ASSUME NEW i \in 1..Len(outbox), outbox[i] = b PROVE FALSE
    BY DEF Enqueued
  <2>1. watermark[s] + 1 <= watermark[s]
    BY DEF FlowInv, OutboxInv, WithinWatermark
  <2> QED BY <1>0, <2>1
<1>5. ledger[b] = 0
  BY <1>2, <1>4 DEF FlowInv, ReceiptHasRow, Enqueued
<1>6. inbox[b] # "COMPLETED"
  BY <1>2, <1>5 DEF InboxInv
<1>7. StageOf(b) = "absent" /\ Moves(b, "enqueued")
  <2> HIDE DEF b
  <2> QED BY <1>1, <1>3, <1>4, <1>5, <1>6 DEF StageOf, Moves
<1>8. b[2] > 1 => /\ <<b[1], b[2] - 1>> \in Bars
                  /\ StageOf(<<b[1], b[2] - 1>>) # "absent"
  <2>0. <<b[1], b[2] - 1>> = <<s, watermark[s]>> /\ (b[2] > 1 => watermark[s] >= 1)
    BY <1>0
  <2>1. ASSUME watermark[s] >= 1
        PROVE  <<s, watermark[s]>> \in Bars /\ StageOf(<<s, watermark[s]>>) # "absent"
    <3>1. watermark[s] \in 1..watermark[s] /\ watermark[s] \in 1..MaxMinute
      BY <1>0, <2>1
    <3>2. <<s, watermark[s]>> \in Enqueued
      BY <3>1 DEF FlowInv, OutboxInv, ChainEnqueued, Enqueued
    <3> QED BY <3>1, <3>2 DEF StageOf, Bars
  <2> HIDE DEF b
  <2> QED BY <2>0, <2>1
<1>9. Abstract!Enqueue(b)
  <2> HIDE DEF b
  <2>1. Stage' = [Stage EXCEPT ![b] = "enqueued"]
    BY <1>2, <1>7, MovedStage
  <2>2. Stage[b] = "absent"
    BY <1>2, <1>7 DEF Stage
  <2>3. b[2] > 1 => Stage[<<b[1], b[2] - 1>>] \in {"enqueued", "accepted", "completed"}
    BY <1>8 DEF Stage, StageOf
  <2> QED BY <2>1, <2>2, <2>3 DEF Abstract!Enqueue, Abstract!PredecessorIn, Abstract!Stages,
                                  Stage
<1> QED BY <1>2, <1>9 DEF Abstract!Next, Abstract!Bars, Bars

\* An accepted bar and its predecessor.
LEMMA PublishAccepts ==
  ASSUME TypeInv, LedgerInv, FlowInv, InboxInv, NEW i \in todo, Publish(i)
  PROVE  [Abstract!Next]_Stage
<1> DEFINE b == outbox[i]
           p == <<b[1], b[2] - 1>>
<1>0. /\ outbox \in Seq(Bars) /\ Len(outbox) \in Nat /\ todo \subseteq 1..Len(outbox)
      /\ watermark \in [Symbols -> 0..MaxMinute]
      /\ ledger \in [Bars -> Nat] /\ Len(stream) \in Nat
      /\ \A k \in 1..Len(outbox) : outbox[k] \in Bars
  BY DEF TypeInv, TypeOK, DbTypeOK, SupervisorTypeOK, RedisTypeOK
<1>1. i \in 1..Len(outbox) /\ b \in Bars /\ b[1] \in Symbols /\ b[2] \in 1..MaxMinute
  BY <1>0 DEF Bars
<1>2. UNCHANGED <<outbox, inbox>> /\ PublicationLua(b)
  BY DEF Publish
<1>3. CASE ledger[b] # 0
  <2>1. UNCHANGED ledger
    BY <1>2, <1>3 DEF PublicationLua
  <2>2. \A c \in Bars : StageOf(c)' = StageOf(c)
    BY <1>2, <2>1 DEF StageOf, Enqueued
  <2> QED BY <2>2, SameStage
<1>4. CASE ledger[b] = 0
  <2>1. ledger' = [ledger EXCEPT ![b] = Len(stream) + 1]
    BY <1>2, <1>4 DEF PublicationLua
  <2>2. \A c \in Bars : ledger'[c] = IF c = b THEN Len(stream) + 1 ELSE ledger[c]
    BY <1>0, <1>1, <2>1
  <2>3. inbox[b] # "COMPLETED"
    BY <1>1, <1>4 DEF InboxInv
  <2>4. b \in Enqueued /\ Enqueued' = Enqueued
    BY <1>1, <1>2 DEF Enqueued
  <2>5. StageOf(b) = "enqueued" /\ Moves(b, "accepted")
    <3> HIDE DEF b
    <3> QED BY <1>0, <1>2, <1>4, <2>2, <2>3, <2>4 DEF StageOf, Moves
  <2>6. b[2] > 1 => p \in Bars /\ StageOf(p) \in {"accepted", "completed"}
    <3> SUFFICES ASSUME b[2] > 1
                 PROVE  p \in Bars /\ StageOf(p) \in {"accepted", "completed"}
      OBVIOUS
    <3>1. b[2] <= watermark[b[1]]
      BY <1>1 DEF FlowInv, OutboxInv, WithinWatermark
    <3>2. b[2] - 1 \in 1..watermark[b[1]] /\ p \in Bars
      BY <1>0, <1>1, <3>1, SMTT(30) DEF Bars
    <3>3. PICK k \in 1..Len(outbox) : outbox[k] = p
      BY <1>1, <3>2 DEF FlowInv, OutboxInv, ChainEnqueued
    <3>4. p[1] = b[1] /\ p[2] = b[2] - 1
      OBVIOUS
    <3>5. k < i
      <4>1. k # i
        BY <1>1, <3>3, <3>4
      <4>2. ~ (i < k)
        BY <1>1, <3>3, <3>4 DEF FlowInv, OutboxInv, OutboxOrdered
      <4> QED BY <1>0, <1>1, <4>1, <4>2
    <3>6. k \in published
      <4>1. todo = Unpublished /\ \A j \in todo : i <= j
        BY DEF Publish, NextRow, FlowInv, FlushInv
      <4> QED BY <1>0, <1>1, <3>5, <4>1 DEF Unpublished
    <3>7. ledger[p] # 0
      BY <3>3, <3>6 DEF LedgerInv, MarkedHasReceipt
    <3> QED BY <3>2, <3>7 DEF StageOf
  <2>7. Abstract!Accept(b)
    <3> HIDE DEF b
    <3>1. Stage' = [Stage EXCEPT ![b] = "accepted"]
      BY <1>1, <2>5, MovedStage
    <3>2. Stage[b] = "enqueued"
      BY <1>1, <2>5 DEF Stage
    <3>3. b[2] > 1 => Stage[<<b[1], b[2] - 1>>] \in {"accepted", "completed"}
      BY <2>6 DEF Stage
    <3> QED BY <3>1, <3>2, <3>3 DEF Abstract!Accept, Abstract!PredecessorIn, Stage
  <2> QED BY <1>1, <2>7 DEF Abstract!Next, Abstract!Bars, Bars
<1> QED BY <1>3, <1>4

\* The consumer touches one inbox row, of an accepted bar.
LEMMA InboxCompletes ==
  ASSUME TypeInv, LedgerInv, ConsumerStep \/ ConsumerFault \/ CancelTask,
         UNCHANGED <<outbox, ledger>>
  PROVE  [Abstract!Next]_Stage
<1> DEFINE b == stream[cur]
<1>0. /\ inbox \in [Bars -> InboxState] /\ cur \in 0..lastDelivered /\ Len(stream) \in Nat
      /\ lastDelivered \in 0..Len(stream) /\ stream \in Seq(Bars)
  BY DEF TypeInv, TypeOK, ConsumerTypeOK, RedisTypeOK
<1>1. \/ inbox' = inbox
      \/ /\ cpc \in {"claim", "handle"} /\ inbox[b] # "COMPLETED"
         /\ inbox' = [inbox EXCEPT ![b] = "PROCESSING"]
      \/ /\ cpc \in {"claim", "handle"}
         /\ inbox' = [inbox EXCEPT ![b] = "COMPLETED"]
  BY DEF ConsumerStep, ConsumerFault, EnsureGroup, PendingRead, Reclaim, NewRead,
     RecoveryDeadline, Yield, BatchDone, ClaimInbox, RejectBar, CommitInbox, Ack,
     EnsureFault, PendingReadFault, ReclaimFault, NewReadFault, AckFault, TaskFails,
     Fetched, CallFailed, ReadFailed, CancelTask
<1>2. Enqueued' = Enqueued
  BY DEF Enqueued
<1>3. cpc \in {"claim", "handle"} => b \in Bars /\ ledger[b] # 0
  <2> SUFFICES ASSUME cpc \in {"claim", "handle"} PROVE b \in Bars /\ ledger[b] # 0
    OBVIOUS
  <2>1. cur \in 1..Len(stream)
    BY <1>0 DEF TypeInv, ControlInv
  <2> QED BY <1>0, <2>1 DEF LedgerInv, EntryHasReceipt
<1> HIDE DEF b
<1>4. CASE inbox' = inbox
  BY <1>2, <1>4, SameStage DEF StageOf
<1>5. CASE /\ cpc \in {"claim", "handle"} /\ inbox[b] # "COMPLETED"
           /\ inbox' = [inbox EXCEPT ![b] = "PROCESSING"]
  <2>1. \A c \in Bars : inbox'[c] = "COMPLETED" <=> inbox[c] = "COMPLETED"
    BY <1>0, <1>3, <1>5
  <2> QED BY <1>2, <2>1, SameStage DEF StageOf
<1>6. CASE cpc \in {"claim", "handle"} /\ inbox' = [inbox EXCEPT ![b] = "COMPLETED"]
  <2>1. \A c \in Bars : inbox'[c] = IF c = b THEN "COMPLETED" ELSE inbox[c]
    BY <1>0, <1>3, <1>6
  <2>2. CASE inbox[b] = "COMPLETED"
    BY <1>2, <2>1, <2>2, SameStage DEF StageOf
  <2>3. CASE inbox[b] # "COMPLETED"
    <3>1. StageOf(b) = "accepted" /\ Moves(b, "completed")
      BY <1>2, <1>3, <1>6, <2>1, <2>3 DEF StageOf, Moves
    <3>2. Stage' = [Stage EXCEPT ![b] = "completed"] /\ Stage[b] = "accepted"
      BY <1>3, <1>6, <3>1, MovedStage DEF Stage
    <3>3. Abstract!Complete(b)
      BY <3>2 DEF Abstract!Complete, Stage
    <3> QED BY <1>3, <1>6, <3>3 DEF Abstract!Next, Abstract!Bars, Bars
  <2> QED BY <2>2, <2>3
<1> QED BY <1>1, <1>4, <1>5, <1>6

LEMMA StepRefines ==
  ASSUME TypeInv, LedgerInv, FlowInv, InboxInv, [Next]_vars
  PROVE  [Abstract!Next]_Stage
<1>1. CASE \E s \in Symbols : AppendBar(s)
  BY <1>1, AppendEnqueues
<1>2. CASE \E i \in todo : Publish(i)
  BY <1>2, PublishAccepts
<1>3. CASE Consumer \/ ConsumerFails \/ Close
  <2>1. UNCHANGED <<outbox, ledger>>
    BY <1>3, FlowSteps DEF FlowFrame, Publish, Mark, AppendBar, Consumer, ConsumerFails,
       Close, Next, Supervisor, Environment, Live
  <2> QED BY <1>3, <2>1, InboxCompletes DEF Consumer, ConsumerFails, Close
<1>4. CASE /\ ~ (Consumer \/ ConsumerFails \/ Close)
           /\ ~ \E s \in Symbols : AppendBar(s)
           /\ ~ \E i \in todo : Publish(i)
  <2>1. UNCHANGED inbox
    BY <1>4 DEF Next, Supervisor, Environment, ConsumerStopped, Top, Mark,
       FlushDone, Bound, RecoverDone, ReadPending, ReadUncompleted, Sample,
       AddDuplicate, DuplicateAcked, Report, WaitEnds, IdleEnds, Refuse, SourceWait,
       RecoverFails, Raise, SymbolFails, DeadlinePassed, SupervisorFails, CloseFails,
       Sigterm, Tick, ClockStepsBack, Kill, Start, CreateTask
  <2>2. UNCHANGED <<outbox, ledger>>
    BY <1>4, FlowSteps DEF FlowFrame, Mark
  <2> QED BY <2>1, <2>2, SameStage DEF StageOf, Enqueued
<1> QED BY <1>1, <1>2, <1>3, <1>4

\* Every step of the supervisor, the consumer and the environment moves at
\* most one bar by one stage, and never before its predecessor.
THEOREM DeliveryRefines == Spec => ImplementsBarDelivery
<1>1. Init => Abstract!Init
  BY DEF Init, RedisInit, ConsumerInit, Abstract!Init, Abstract!Bars, Bars, StageOf,
         Enqueued
<1>2. TypeInv /\ LedgerInv /\ FlowInv /\ InboxInv /\ [Next]_vars
        => [Abstract!Next]_[b \in Bars |-> StageOf(b)]
  BY StepRefines DEF Stage
<1> QED BY <1>1, <1>2, SpecTypeInv, SpecLedgerInv, SpecFlowInv, SpecInboxInv, PTL
        DEF Spec, ImplementsBarDelivery, Abstract!Spec

----------------------------------------------------------------------------
(***************************************************************************)
(* Completion order.  Until the first restart one consumer owns every      *)
(* pending entry.  While it reads and replay_pending is off, nothing that  *)
(* was delivered is open; while it holds fetched entries, an open entry is *)
(* among them or, during a replay, behind all of them.                     *)
(***************************************************************************)
OpenRows == {i \in 1..lastDelivered : inbox[stream[i]] # "COMPLETED"}

CompletedPrefix == \A i, j \in 1..Len(stream) :
                     i < j /\ inbox[stream[j]] = "COMPLETED"
                       => inbox[stream[i]] = "COMPLETED"

Unstarted == /\ spc = "down" /\ cpc = "down" /\ stream = <<>>
             /\ ~replay /\ batch = {} /\ cur = 0

ReadingInv == cpc \in {"ensure", "loop", "new"} =>
                /\ cur = 0
                /\ cpc = "new" => ~replay
                /\ ~replay => OpenRows = {}

HoldingInv == cpc \in {"yield", "claim", "handle", "xack"} =>
                /\ cpc = "yield" => cur = 0
                /\ \A j \in batch : cur < j
                /\ replay => after = "loop"
                /\ ~replay => OpenRows \subseteq batch \union {cur}
                /\ \A i \in OpenRows : \/ i \in batch \union {cur}
                                       \/ \A j \in batch \union {cur} : j < i

OneOwner == \A i \in 1..lastDelivered : \A c \in Instances : <<i, c>> \in pel => c = me

FirstProcess == /\ starts = 0 => Unstarted
                /\ OneOwner
                /\ dup # 0 => inbox[stream[dup]] = "COMPLETED"
                /\ CompletedPrefix
                /\ ReadingInv /\ HoldingInv

OrderInv == starts <= 1 => FirstProcess

OrderTypes == /\ stream \in Seq(Bars) /\ Len(stream) \in Nat
              /\ lastDelivered \in 0..Len(stream)
              /\ batch \subseteq 1..lastDelivered /\ cur \in 0..lastDelivered
              /\ \A i \in 1..Len(stream) : stream[i] \in Bars
              /\ inbox \in [Bars -> InboxState] /\ me \in Instances
              /\ dup \in 0..Len(stream)
              /\ starts \in Nat /\ replay \in BOOLEAN
              /\ pel \subseteq (1..lastDelivered) \X Instances
              /\ cpc \in {"claim", "handle", "xack"} => cur \in 1..lastDelivered

LEMMA TypesForOrder == ASSUME TypeInv PROVE OrderTypes
BY DEF TypeInv, TypeOK, ControlInv, RedisTypeOK, ConsumerTypeOK, SupervisorTypeOK,
       FlagTypeOK, OrderTypes

\* COUNT takes the oldest: what a read leaves behind is newer than its rows.
LEMMA FirstRowsAreOldest ==
  ASSUME NEW n \in Nat, NEW ids \in SUBSET (1..n),
         NEW i \in ids \ FirstRows(ids), NEW j \in FirstRows(ids)
  PROVE  j < i
<1> DEFINE Below(k) == {l \in ids : l < k}
<1>1. i \in 1..n /\ j \in 1..n /\ i # j /\ j \in ids
  BY DEF FirstRows
<1> SUFFICES ASSUME i < j PROVE FALSE
  BY <1>1
<1>2. IsFiniteSet(1..n)
  BY FS_Interval
<1>3. IsFiniteSet(Below(j))
  BY <1>2, FS_Subset
<1>4. Below(i) \subseteq Below(j)
  <2>1. \A l \in 1..n : l < i => l < j
    BY <1>1
  <2> QED BY <2>1
<1>5. IsFiniteSet(Below(i)) /\ Cardinality(Below(i)) <= Cardinality(Below(j))
  BY <1>3, <1>4, FS_Subset
<1>6. Cardinality(Below(i)) \in Nat /\ Cardinality(Below(j)) \in Nat
  BY <1>3, <1>5, FS_CardinalityType
<1>7. Cardinality(Below(j)) < ReadCount
  BY DEF FirstRows
<1>8. Cardinality(Below(i)) < ReadCount
  BY <1>5, <1>6, <1>7
<1> QED BY <1>1, <1>8 DEF FirstRows

\* An open entry is pending for the one consumer.
LEMMA OpenIsOwn ==
  ASSUME OrderTypes, AckInv, OneOwner PROVE OpenRows \subseteq OwnPending(me)
BY DEF OrderTypes, AckInv, AckedOnlyCompleted, Pending, OneOwner, OpenRows, OwnPending

\* Completing the entry at hand completes the oldest open one.
LEMMA CompletesOldest ==
  ASSUME OrderTypes, LedgerInv, FirstProcess, cpc = "handle",
         inbox' = [inbox EXCEPT ![stream[cur]] = "COMPLETED"], UNCHANGED stream
  PROVE  CompletedPrefix'
<1>1. cur \in 1..lastDelivered /\ cur \in 1..Len(stream) /\ stream[cur] \in Bars
  BY DEF OrderTypes
<1>2. \A b \in Bars : inbox'[b] = IF b = stream[cur] THEN "COMPLETED" ELSE inbox[b]
  BY <1>1 DEF OrderTypes
<1> SUFFICES ASSUME NEW i \in 1..Len(stream), NEW j \in 1..Len(stream),
                    i < j, inbox'[stream[j]] = "COMPLETED"
             PROVE  inbox'[stream[i]] = "COMPLETED"
  BY DEF CompletedPrefix
<1>3. stream[i] \in Bars /\ stream[j] \in Bars
  BY DEF OrderTypes
<1>4. CASE inbox[stream[j]] = "COMPLETED"
  BY <1>2, <1>3, <1>4 DEF FirstProcess, CompletedPrefix
<1>5. CASE inbox[stream[j]] # "COMPLETED"
  <2>1. stream[j] = stream[cur]
    BY <1>2, <1>3, <1>5
  <2>2. j # dup /\ cur # dup
    BY <1>1, <1>5, <2>1 DEF FirstProcess, OrderTypes
  <2>3. j = cur
    BY <1>1, <2>1, <2>2 DEF LedgerInv, EntryHasReceipt
  <2>4. i \notin OpenRows
    <3>1. \A k \in batch : cur < k
      BY DEF FirstProcess, HoldingInv
    <3>2. i \in OpenRows => i \in batch \union {cur} \/ cur < i
      BY DEF FirstProcess, HoldingInv
    <3> QED BY <1>1, <2>3, <3>1, <3>2
  <2>5. i \in 1..lastDelivered
    BY <1>1, <2>3 DEF OrderTypes
  <2> QED BY <1>2, <1>3, <2>4, <2>5 DEF OpenRows
<1> QED BY <1>4, <1>5

\* No command of the one consumer gives an entry to another name.
LEMMA OwnerStays ==
  ASSUME OrderTypes, OneOwner, UNCHANGED me,
         \/ UNCHANGED <<lastDelivered, pel>>
         \/ XREADGROUP(me)
         \/ XACK(cur)
         \/ \E ids \in SUBSET {e[1] : e \in pel} : XAUTOCLAIM(ids, me)
  PROVE  OneOwner'
<1>1. \A i, c : <<i, c>> \in pel => i \in 1..lastDelivered /\ c = me
  BY DEF OrderTypes, OneOwner
<1> SUFFICES ASSUME NEW i \in 1..lastDelivered', NEW c \in Instances, <<i, c>> \in pel'
             PROVE  c = me
  BY DEF OneOwner
<1>2. <<i, c>> \in pel \/ c = me
  BY DEF XREADGROUP, XACK, XAUTOCLAIM
<1> QED BY <1>1, <1>2

\* The inbox changes for no completed message, or one message is completed.
LEMMA PrefixStays ==
  ASSUME OrderTypes, LedgerInv, FirstProcess, UNCHANGED <<stream, dup>>,
         InboxGrows,
         \/ \A b \in Bars : inbox'[b] = "COMPLETED" => inbox[b] = "COMPLETED"
         \/ cpc = "handle" /\ inbox' = [inbox EXCEPT ![stream[cur]] = "COMPLETED"]
  PROVE  CompletedPrefix' /\ (dup' # 0 => inbox'[stream'[dup']] = "COMPLETED")
<1>1. \A i \in 1..Len(stream) : inbox[stream[i]] = "COMPLETED" => inbox'[stream[i]] = "COMPLETED"
  BY DEF OrderTypes, InboxGrows
<1>2. dup # 0 => inbox'[stream[dup]] = "COMPLETED"
  BY <1>1 DEF FirstProcess, OrderTypes
<1>3. CompletedPrefix'
  <2>1. CASE \A b \in Bars : inbox'[b] = "COMPLETED" => inbox[b] = "COMPLETED"
    <3>1. \A i \in 1..Len(stream) : inbox'[stream[i]] = "COMPLETED" => inbox[stream[i]] = "COMPLETED"
      BY <2>1 DEF OrderTypes
    <3> QED BY <1>1, <3>1 DEF FirstProcess, CompletedPrefix
  <2>2. CASE cpc = "handle" /\ inbox' = [inbox EXCEPT ![stream[cur]] = "COMPLETED"]
    BY <2>2, CompletesOldest
  <2> QED BY <2>1, <2>2
<1> QED BY <1>2, <1>3

\* What the consumer task does to the inbox.
LEMMA ConsumerInbox ==
  ASSUME OrderTypes, ConsumerStep \/ ConsumerFault \/ CancelTask
  PROVE  \/ \A b \in Bars : inbox'[b] = "COMPLETED" => inbox[b] = "COMPLETED"
         \/ cpc = "handle" /\ inbox' = [inbox EXCEPT ![stream[cur]] = "COMPLETED"]
<1>1. \/ UNCHANGED inbox
      \/ cpc = "claim" /\ inbox' = [inbox EXCEPT ![stream[cur]] = "PROCESSING"]
      \/ cpc = "handle" /\ inbox' = [inbox EXCEPT ![stream[cur]] = "COMPLETED"]
  BY DEF ConsumerStep, ConsumerFault, EnsureGroup, PendingRead, Reclaim, NewRead,
     RecoveryDeadline, Yield, BatchDone, ClaimInbox, RejectBar, CommitInbox, Ack,
     EnsureFault, PendingReadFault, ReclaimFault, NewReadFault, AckFault, TaskFails,
     Fetched, CallFailed, ReadFailed, CancelTask
<1>2. cpc = "claim" => stream[cur] \in Bars
  BY DEF OrderTypes
<1> QED BY <1>1, <1>2 DEF OrderTypes

\* The group commands of the consumer task.
LEMMA ConsumerGroup ==
  ASSUME ConsumerStep \/ ConsumerFault \/ CancelTask
  PROVE  /\ UNCHANGED <<stream, me>>
         /\ \/ UNCHANGED <<lastDelivered, pel>>
            \/ XREADGROUP(me)
            \/ XACK(cur)
            \/ \E ids \in SUBSET {e[1] : e \in pel} : XAUTOCLAIM(ids, me)
<1>1. \/ UNCHANGED <<stream, lastDelivered, pel>>
      \/ XREADGROUP(me)
      \/ XACK(cur)
      \/ \E ids \in SUBSET {e[1] : e \in pel} : XAUTOCLAIM(ids, me)
  BY DEF ConsumerStep, ConsumerFault, EnsureGroup, PendingRead, Reclaim, NewRead,
     RecoveryDeadline, Yield, BatchDone, ClaimInbox, RejectBar, CommitInbox, Ack,
     EnsureFault, PendingReadFault, ReclaimFault, NewReadFault, AckFault, TaskFails,
     CancelTask
<1>2. UNCHANGED me
  BY DEF ConsumerStep, ConsumerFault, EnsureGroup, PendingRead, Reclaim, NewRead,
     RecoveryDeadline, Yield, BatchDone, ClaimInbox, RejectBar, CommitInbox, Ack,
     EnsureFault, PendingReadFault, ReclaimFault, NewReadFault, AckFault, TaskFails,
     Fetched, CallFailed, ReadFailed, CancelTask, TaskGone
<1> QED BY <1>1, <1>2 DEF XREADGROUP, XACK, XAUTOCLAIM

\* Every step of the task keeps the open entries among those it holds, or
\* behind them.
LEMMA ConsumerHolds ==
  ASSUME TypeInv, AckInv, OneOwner, ReadingInv, HoldingInv, InboxGrows,
         ConsumerStep \/ ConsumerFault
  PROVE  ReadingInv' /\ HoldingInv'
<1>0. OrderTypes
  BY TypesForOrder
<1>1. stream' = stream
  BY ConsumerGroup
<1>2. lastDelivered' = lastDelivered => OpenRows' \subseteq OpenRows
  BY <1>0, <1>1 DEF OpenRows, InboxGrows, OrderTypes
<1>3. ASSUME cpc' = "dead" PROVE ReadingInv' /\ HoldingInv'
  BY <1>3 DEF ReadingInv, HoldingInv
<1>4. ASSUME UNCHANGED <<cpc, batch, after, cur, replay, lastDelivered>>
      PROVE  ReadingInv' /\ HoldingInv'
  BY <1>2, <1>4 DEF ReadingInv, HoldingInv
<1>5. CASE EnsureGroup
  BY <1>2, <1>5 DEF EnsureGroup, ReadingInv, HoldingInv
<1>6. CASE PendingRead
  <2>1. /\ cpc = "loop" /\ replay /\ lastDelivered' = lastDelivered
        /\ replay' = (OwnPending(me) # {})
        /\ batch' = FirstRows(OwnPending(me)) /\ after' = "loop" /\ cur' = cur
        /\ cpc' = IF batch' = {} THEN "loop" ELSE "yield"
    BY <1>6 DEF PendingRead, Fetched
  <2>2. OpenRows' \subseteq OwnPending(me)
    BY <1>0, <1>2, <2>1, OpenIsOwn
  <2>3. lastDelivered \in Nat /\ OwnPending(me) \subseteq 1..lastDelivered /\ cur = 0
    BY <1>0, <2>1 DEF OwnPending, ReadingInv, OrderTypes
  <2>4. \A i \in OpenRows' : i \in batch' \/ \A j \in batch' : j < i
    BY <2>1, <2>2, <2>3, FirstRowsAreOldest
  <2>5. \A j \in batch' : 0 < j
    BY <2>1, <2>3 DEF FirstRows
  <2>6. ReadingInv'
    BY <2>1, <2>2, <2>3 DEF ReadingInv
  <2>7. replay' => \A i \in OpenRows' : 0 < i
    BY <2>2, <2>3
  <2>8. HoldingInv'
    <3>1. CASE OwnPending(me) = {}
      BY <2>1, <2>2, <2>3, <3>1 DEF HoldingInv, FirstRows
    <3>2. CASE OwnPending(me) # {}
      BY <2>1, <2>3, <2>4, <2>5, <2>7, <3>2 DEF HoldingInv
    <3> QED BY <3>1, <3>2
  <2> QED BY <2>6, <2>8
<1>7. ASSUME NEW ids \in SUBSET {e[1] : e \in pel}, Reclaim(ids)
      PROVE  ReadingInv' /\ HoldingInv'
  <2>1. /\ cpc = "loop" /\ ~replay /\ lastDelivered' = lastDelivered
        /\ replay' = replay /\ batch' = ids /\ after' = "new" /\ cur' = cur
        /\ cpc' = IF ids = {} THEN "new" ELSE "yield"
    BY <1>7 DEF Reclaim, Fetched, XAUTOCLAIM
  <2>2. OpenRows' = {} /\ cur = 0
    BY <1>2, <2>1 DEF ReadingInv
  <2>3. \A j \in ids : 0 < j
    BY <1>0 DEF OrderTypes
  <2> QED BY <2>1, <2>2, <2>3 DEF ReadingInv, HoldingInv
<1>8. CASE NewRead
  <2>1. /\ cpc = "new" /\ lastDelivered' = NewCursor /\ inbox' = inbox
        /\ replay' = replay /\ batch' = NewRows /\ after' = "loop" /\ cur' = cur
        /\ cpc' = IF NewRows = {} THEN "loop" ELSE "yield"
    BY <1>8 DEF NewRead, Fetched, XREADGROUP
  <2>2. ~replay /\ OpenRows = {} /\ cur = 0
    BY <2>1 DEF ReadingInv
  <2>3. \A i \in 1..NewCursor : i \in 1..lastDelivered \/ i \in NewRows
    BY <1>0 DEF NewCursor, NewRows, OrderTypes
  <2>4. OpenRows' \subseteq NewRows
    BY <1>1, <2>1, <2>2, <2>3 DEF OpenRows
  <2>5. \A j \in NewRows : 0 < j
    BY <1>0 DEF NewCursor, NewRows, OrderTypes
  <2> QED BY <2>1, <2>2, <2>4, <2>5 DEF ReadingInv, HoldingInv
<1>9. CASE PendingReadFault \/ NewReadFault
           \/ \E ids \in SUBSET {e[1] : e \in pel} : ReclaimFault(ids)
  <2>1. /\ cpc \in {"loop", "new"} /\ cur' = cur
        /\ cpc' = "dead" \/ (cpc' = "loop" /\ replay')
    BY <1>9 DEF PendingReadFault, NewReadFault, ReclaimFault, ReadFailed
  <2> QED BY <2>1 DEF ReadingInv, HoldingInv
<1>10. CASE EnsureFault
  BY <1>3, <1>4, <1>10 DEF EnsureFault, CallFailed
<1>11. CASE RecoveryDeadline \/ RejectBar \/ TaskFails
  BY <1>3, <1>11 DEF RecoveryDeadline, RejectBar, TaskFails
<1>12. ASSUME NEW i \in batch, Yield(i)
       PROVE  ReadingInv' /\ HoldingInv'
  <2>1. /\ cpc = "yield" /\ cpc' = "claim" /\ cur' = i /\ batch' = batch \ {i}
        /\ UNCHANGED <<lastDelivered, after, replay>>
        /\ \A j \in batch : i <= j
    BY <1>12 DEF Yield
  <2>2. cur = 0 /\ batch' \union {cur'} = batch /\ batch \subseteq 1..lastDelivered
        /\ lastDelivered \in Nat
    BY <1>0, <2>1 DEF HoldingInv, OrderTypes
  <2>3. \A j \in batch' : cur' < j
    BY <2>1, <2>2
  <2>4. \A k \in OpenRows' : k # 0 /\ k \in OpenRows
    BY <1>0, <1>2, <2>1 DEF OpenRows, OrderTypes
  <2>5. \A k \in OpenRows' : k \in batch \/ \A j \in batch : j < k
    BY <2>1, <2>2, <2>4 DEF HoldingInv
  <2>6. ~replay' => OpenRows' \subseteq batch
    BY <2>1, <2>2, <2>4 DEF HoldingInv
  <2>7. replay' => after' = "loop"
    BY <2>1 DEF HoldingInv
  <2> QED BY <2>1, <2>2, <2>3, <2>5, <2>6, <2>7 DEF ReadingInv, HoldingInv
<1>13. CASE BatchDone
  <2>1. /\ cpc = "yield" /\ batch = {} /\ cpc' = after
        /\ UNCHANGED <<lastDelivered, after, replay, cur, batch>>
    BY <1>13 DEF BatchDone
  <2>2. cur = 0 /\ (replay => after = "loop") /\ (~replay => OpenRows \subseteq {0})
    BY <2>1 DEF HoldingInv
  <2>3. ~replay => OpenRows' = {}
    BY <1>0, <1>2, <2>1, <2>2 DEF OpenRows, OrderTypes
  <2>4. after \in {"loop", "new"}
    BY DEF TypeInv, TypeOK, ConsumerTypeOK
  <2> QED BY <2>1, <2>2, <2>3, <2>4 DEF ReadingInv, HoldingInv
<1>14. CASE ClaimInbox \/ CommitInbox
  <2>1. /\ cpc \in {"claim", "handle"} /\ cpc' \in {"handle", "xack"}
        /\ UNCHANGED <<lastDelivered, after, replay, cur, batch>>
    BY <1>14 DEF ClaimInbox, CommitInbox
  <2> QED BY <1>2, <2>1 DEF ReadingInv, HoldingInv
<1>15. CASE Ack
  <2>1. /\ cpc = "xack" /\ cpc' = "yield" /\ cur' = 0 /\ inbox' = inbox
        /\ UNCHANGED <<lastDelivered, after, replay, batch>>
    BY <1>15 DEF Ack, XACK
  <2>2. OpenRows' = OpenRows /\ cur \notin OpenRows
    BY <1>1, <2>1 DEF OpenRows, AckInv
  <2>3. \A k \in batch \union OpenRows : 0 < k
    BY <1>0 DEF OrderTypes, OpenRows
  <2>4. /\ \A i \in OpenRows : i \in batch \/ \A j \in batch : j < i
        /\ ~replay => OpenRows \subseteq batch
        /\ replay => after = "loop"
    BY <2>1, <2>2 DEF HoldingInv
  <2> QED BY <2>1, <2>2, <2>3, <2>4 DEF ReadingInv, HoldingInv
<1>16. CASE AckFault
  <2>1. lastDelivered' = lastDelivered
    BY <1>16 DEF AckFault, XACK
  <2> QED BY <1>3, <1>4, <1>16, <2>1 DEF AckFault, CallFailed
<1> QED BY <1>5, <1>6, <1>7, <1>8, <1>9, <1>10, <1>11, <1>12, <1>13, <1>14, <1>15, <1>16
        DEF ConsumerStep, ConsumerFault

LEMMA ConsumerKeepsOrder ==
  ASSUME TypeInv, LedgerInv, AckInv, FirstProcess, Consumer \/ ConsumerFails
  PROVE  FirstProcess'
<1>0. OrderTypes
  BY TypesForOrder
<1>1. ConsumerStep \/ ConsumerFault
  BY DEF Consumer, ConsumerFails
<1>2. UNCHANGED <<starts, dup, spc>> /\ spc # "down"
  BY DEF Consumer, ConsumerFails, Live
<1>3. InboxGrows
  BY <1>1, ConsumerAckFrame DEF AckFrame
<1>4. ReadingInv' /\ HoldingInv'
  BY <1>1, <1>3, ConsumerHolds DEF FirstProcess
<1>5. OneOwner'
  BY <1>0, <1>1, ConsumerGroup, OwnerStays DEF FirstProcess
<1>6. CompletedPrefix' /\ (dup' # 0 => inbox'[stream'[dup']] = "COMPLETED")
  BY <1>0, <1>1, <1>2, <1>3, ConsumerGroup, ConsumerInbox, PrefixStays
<1>7. starts # 0
  BY <1>2 DEF FirstProcess, Unstarted
<1> QED BY <1>2, <1>4, <1>5, <1>6, <1>7 DEF FirstProcess

LEMMA CloseKeepsOrder ==
  ASSUME TypeInv, LedgerInv, AckInv, FirstProcess, Close \/ Kill
  PROVE  FirstProcess'
<1>0. OrderTypes
  BY TypesForOrder
<1>2. UNCHANGED <<starts, dup>> /\ spc # "down" /\ cpc' = "down"
  BY DEF Close, Kill, Live, CancelTask, TaskGone
<1>3. ReadingInv' /\ HoldingInv' /\ starts # 0
  BY <1>2 DEF ReadingInv, HoldingInv, FirstProcess, Unstarted
<1>4. CASE Close
  <2>1. CancelTask
    BY <1>4 DEF Close
  <2>2. InboxGrows
    BY <2>1, CancelAckFrame DEF AckFrame
  <2>3. OneOwner'
    BY <1>0, <2>1, ConsumerGroup, OwnerStays DEF FirstProcess
  <2>4. CompletedPrefix' /\ (dup' # 0 => inbox'[stream'[dup']] = "COMPLETED")
    BY <1>0, <1>2, <2>1, <2>2, ConsumerGroup, ConsumerInbox, PrefixStays
  <2> QED BY <1>2, <1>3, <2>3, <2>4 DEF FirstProcess
<1>5. CASE Kill
  <2>1. UNCHANGED <<stream, lastDelivered, pel, inbox, me>>
    BY <1>5 DEF Kill, TaskGone
  <2> QED BY <1>2, <1>3, <2>1 DEF FirstProcess, OneOwner, CompletedPrefix
<1> QED BY <1>4, <1>5

\* An entry is added to the stream: its bar is not completed, or all are.
LEMMA EntryKeepsOrder ==
  ASSUME TypeInv, FirstProcess, NEW b \in Bars, stream' = Append(stream, b),
         UNCHANGED <<lastDelivered, pel, consumerVars, starts>>, spc # "down",
         \/ UNCHANGED dup /\ inbox[b] # "COMPLETED"
         \/ /\ dup' = Len(stream) + 1 /\ inbox[b] = "COMPLETED"
            /\ \A i \in 1..Len(stream) : inbox[stream[i]] = "COMPLETED"
  PROVE  FirstProcess'
<1>0. OrderTypes
  BY TypesForOrder
<1>1. /\ Len(stream') = Len(stream) + 1 /\ stream'[Len(stream) + 1] = b
      /\ \A i \in 1..Len(stream) : stream'[i] = stream[i]
  BY <1>0 DEF OrderTypes
<1>2. \A i \in 1..Len(stream') : i \in 1..Len(stream) \/ i = Len(stream) + 1
  BY <1>0, <1>1 DEF OrderTypes
<1>3. OpenRows' = OpenRows
  BY <1>0, <1>1 DEF OpenRows, OrderTypes
<1>4. ReadingInv' /\ HoldingInv'
  BY <1>3 DEF FirstProcess, ReadingInv, HoldingInv
<1>5. starts' # 0 /\ OneOwner'
  BY DEF FirstProcess, Unstarted, OneOwner
<1>6. CASE UNCHANGED dup /\ inbox[b] # "COMPLETED"
  <2>1. dup' # 0 => inbox'[stream'[dup']] = "COMPLETED"
    BY <1>0, <1>1, <1>6 DEF FirstProcess, OrderTypes
  <2>2. CompletedPrefix'
    <3> SUFFICES ASSUME NEW i \in 1..Len(stream'), NEW j \in 1..Len(stream'),
                        i < j, inbox[stream'[j]] = "COMPLETED"
                 PROVE  inbox[stream'[i]] = "COMPLETED"
      BY DEF CompletedPrefix
    <3>1. j \in 1..Len(stream)
      BY <1>1, <1>2, <1>6
    <3>2. i \in 1..Len(stream)
      BY <1>0, <3>1 DEF OrderTypes
    <3> QED BY <1>1, <3>1, <3>2 DEF FirstProcess, CompletedPrefix
  <2> QED BY <1>4, <1>5, <2>1, <2>2 DEF FirstProcess
<1>7. CASE /\ dup' = Len(stream) + 1 /\ inbox[b] = "COMPLETED"
           /\ \A i \in 1..Len(stream) : inbox[stream[i]] = "COMPLETED"
  <2>1. \A i \in 1..Len(stream') : inbox'[stream'[i]] = "COMPLETED"
    BY <1>1, <1>2, <1>7
  <2>2. dup' \in 1..Len(stream')
    BY <1>0, <1>1, <1>7 DEF OrderTypes
  <2> QED BY <1>4, <1>5, <2>1, <2>2 DEF FirstProcess, CompletedPrefix
<1> QED BY <1>6, <1>7

\* All other steps leave the consumer and its group alone.
OrderFrame == /\ UNCHANGED <<stream, lastDelivered, pel, consumerVars, dup, starts>>
              /\ spc = "down" => spc' = "down"

LEMMA OrderSteps ==
  ASSUME [Next]_vars
  PROVE  \/ OrderFrame \/ Consumer \/ ConsumerFails \/ Close \/ Kill \/ Start
         \/ \E i \in todo : Publish(i)
         \/ \E i \in published : AddDuplicate(i)
<1>1. CASE ConsumerStopped \/ Refuse \/ RecoverFails \/ DeadlinePassed
           \/ SupervisorFails \/ CloseFails
  BY <1>1 DEF ConsumerStopped, Refuse, Refused, RecoverFails, DeadlinePassed,
              SupervisorFails, CloseFails, Raise, OrderFrame, Live
<1>2. CASE Top \/ RecoverDone \/ SourceWait \/ Mark
  BY <1>2 DEF Top, RecoverDone, SourceWait, StartFlush, Mark, OrderFrame
<1>3. CASE FlushDone \/ Bound \/ ReadPending \/ ReadUncompleted \/ Sample
           \/ DuplicateAcked \/ WaitEnds \/ IdleEnds \/ Report
  BY <1>3 DEF FlushDone, Bound, ReadPending, ReadUncompleted, Sample, DuplicateAcked,
              WaitEnds, IdleEnds, Report, OrderFrame
<1>4. CASE Sigterm \/ Tick \/ ClockStepsBack
  BY <1>4 DEF Sigterm, Tick, ClockStepsBack, OrderFrame
<1>5. ASSUME NEW s \in Symbols, AppendBar(s) PROVE OrderFrame
  BY <1>5 DEF AppendBar, OrderFrame
<1>6. ASSUME NEW s \in Symbols, NEW k \in Failures, SymbolFails(s, k) PROVE OrderFrame
  BY <1>6 DEF SymbolFails, OrderFrame
<1>7. CASE UNCHANGED vars
  BY <1>7 DEF OrderFrame
<1> QED BY <1>1, <1>2, <1>3, <1>4, <1>5, <1>6, <1>7 DEF Next, Supervisor, Environment

LEMMA SpecOrderInv == Spec => []OrderInv
<1>1. Init => OrderInv
  <2> SUFFICES ASSUME Init PROVE FirstProcess
    BY DEF OrderInv
  <2>1. /\ Unstarted /\ dup = 0 /\ lastDelivered = 0 /\ Len(stream) = 0
    BY DEF Init, RedisInit, ConsumerInit, Unstarted
  <2>2. ReadingInv /\ HoldingInv
    BY <2>1 DEF Unstarted, ReadingInv, HoldingInv
  <2> QED BY <2>1, <2>2 DEF FirstProcess, OneOwner, CompletedPrefix
<1>2. TypeInv /\ LedgerInv /\ AckInv /\ FlowInv /\ InboxInv /\ DrainInv /\ OrderInv
        /\ [Next]_vars => OrderInv'
  <2> SUFFICES ASSUME TypeInv, LedgerInv, AckInv, FlowInv, InboxInv, DrainInv, OrderInv,
                      [Next]_vars, starts' <= 1
               PROVE  FirstProcess'
    BY DEF OrderInv
  <2>0. OrderTypes
    BY TypesForOrder
  <2>1. CASE Start
    <3>1. starts = 0
      BY <2>0, <2>1 DEF Start, OrderTypes
    <3>2. Unstarted /\ FirstProcess
      BY <3>1 DEF OrderInv, FirstProcess
    <3>3. /\ UNCHANGED <<stream, lastDelivered, pel, inbox, replay, cur, dup>>
          /\ cpc' = "ensure" /\ starts' = 1
      BY <2>1, <3>1 DEF Start, CreateTask
    <3>4. lastDelivered = 0 /\ Len(stream) = 0 /\ dup = 0
      BY <2>0, <3>2 DEF Unstarted, OrderTypes
    <3>5. ReadingInv' /\ HoldingInv'
      BY <3>2, <3>3, <3>4 DEF ReadingInv, HoldingInv, OpenRows, Unstarted
    <3> QED BY <3>3, <3>4, <3>5 DEF FirstProcess, OneOwner, CompletedPrefix
  <2>2. CASE ~ Start
    <3>1. starts' = starts
      BY <2>2, OrderSteps DEF OrderFrame, Consumer, ConsumerFails, Close, Kill, Publish,
         AddDuplicate
    <3>2. FirstProcess
      BY <3>1 DEF OrderInv
    <3>3. CASE OrderFrame
      BY <3>2, <3>3 DEF OrderFrame, FirstProcess, Unstarted, OneOwner, CompletedPrefix,
         ReadingInv, HoldingInv, OpenRows
    <3>4. CASE Consumer \/ ConsumerFails
      BY <3>2, <3>4, ConsumerKeepsOrder
    <3>5. CASE Close \/ Kill
      BY <3>2, <3>5, CloseKeepsOrder
    <3>6. ASSUME NEW i \in todo, Publish(i) PROVE FirstProcess'
      <4>1. outbox[i] \in Bars
        BY DEF TypeInv, TypeOK, DbTypeOK, SupervisorTypeOK
      <4>2. UNCHANGED <<consumerVars, starts, dup>> /\ spc = "publish" /\ spc' = "mark"
            /\ PublicationLua(outbox[i])
        BY <3>6 DEF Publish
      <4>3. CASE ledger[outbox[i]] # 0
        BY <3>2, <4>2, <4>3 DEF PublicationLua, FirstProcess, Unstarted, OneOwner,
           CompletedPrefix, ReadingInv, HoldingInv, OpenRows
      <4>4. CASE ledger[outbox[i]] = 0
        <5>1. inbox[outbox[i]] # "COMPLETED"
          BY <4>1, <4>4 DEF InboxInv
        <5>2. stream' = Append(stream, outbox[i]) /\ UNCHANGED <<lastDelivered, pel>>
          BY <4>2, <4>4 DEF PublicationLua
        <5> QED BY <3>2, <4>1, <4>2, <5>1, <5>2, EntryKeepsOrder
      <4> QED BY <4>3, <4>4
    <3>7. ASSUME NEW i \in published, AddDuplicate(i) PROVE FirstProcess'
      <4>1. outbox[i] \in Bars
        BY DEF TypeInv, TypeOK, DbTypeOK
      <4>2. /\ UNCHANGED <<consumerVars, starts, spc, lastDelivered, pel>> /\ spc = "dup"
            /\ ledger[outbox[i]] # 0 /\ dup' = Len(stream) + 1
            /\ stream' = Append(stream, outbox[i])
        BY <3>7 DEF AddDuplicate, XADD
      <4>3. \A b \in Bars : ledger[b] # 0 => inbox[b] = "COMPLETED"
        BY <4>2, SettledIsCompleted DEF DrainInv, AfterDrain
      <4>4. \A k \in 1..Len(stream) : inbox[stream[k]] = "COMPLETED"
        BY <2>0, <4>3 DEF LedgerInv, EntryHasReceipt, OrderTypes
      <4> QED BY <3>2, <4>1, <4>2, <4>3, <4>4, EntryKeepsOrder
    <3> QED BY <2>2, <3>3, <3>4, <3>5, <3>6, <3>7, OrderSteps
  <2> QED BY <2>1, <2>2
<1> QED BY <1>1, <1>2, SpecTypeInv, SpecLedgerInv, SpecAckInv, SpecFlowInv, SpecInboxInv,
           SpecDrainInv, PTL DEF Spec

\* However often a read fails after Redis executed it (consume), until the
\* first restart no message overtakes an older one.
THEOREM CompletionIsOrdered == Spec => []CompletesInOrder
<1>1. OrderInv => CompletesInOrder
  BY DEF OrderInv, FirstProcess, CompletedPrefix, CompletesInOrder
<1> QED BY <1>1, SpecOrderInv, PTL
=============================================================================

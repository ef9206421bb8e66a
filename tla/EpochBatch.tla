----------------------------- MODULE EpochBatch -----------------------------
(***************************************************************************)
(* The arithmetic that bounds one catch-up batch of a runtime epoch.       *)
(* A watermark is the close of the last appended bar of a symbol, in whole *)
(* minutes after the seed; an end is an exclusive minute.                  *)
(***************************************************************************)
EXTENDS EpochSymbols, FiniteSetsExt

CONSTANT MaxPending  \* MAX_PENDING

ASSUME BatchAssumption == MaxPending \in Nat

\* The bars a batch up to end appends.
BatchBars(w, end) == {b \in Symbols \X (1..end) : w[b[1]] < b[2]}

\* required_bars: refused when end lies before a watermark, else their number.
FixedInterval(w, end) == \A s \in Symbols : w[s] <= end
required_bars(w, end) == Cardinality(BatchBars(w, end))

\* The furthest symbol; the others are levelled to it before it moves on.
latest(w) == Max({w[s] : s \in Symbols})

(***************************************************************************)
(* bounded_runtime_end: where a batch ends, and why one is refused.        *)
(***************************************************************************)
capacity_minutes(w) ==
  (MaxPending - required_bars(w, latest(w))) \div Cardinality(Symbols)

bounded_runtime_end(w, target) ==
  LET cap == latest(w) + capacity_minutes(w)
  IN IF target <= cap THEN target ELSE cap

ClockRegressed(w, target) == latest(w) > target

SkewExceedsCap(w) == required_bars(w, latest(w)) > MaxPending

BatchRefused(w, target) ==
  \/ ClockRegressed(w, target)
  \/ SkewExceedsCap(w)
  \/ required_bars(w, bounded_runtime_end(w, target)) > MaxPending
=============================================================================

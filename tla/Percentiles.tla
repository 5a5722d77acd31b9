----------------------------- MODULE Percentiles -----------------------------
(***************************************************************************)
(* The percentiles of both benchmark reports: latencyStats and             *)
(* percentileMilliseconds of internal/benchmark/stats.go, which            *)
(* interpolate between two neighbours in the sorted durations.             *)
(*                                                                         *)
(* A quantile is a number of hundredths and durations are whole, so that   *)
(* a hundred times a percentile is whole: the rounding of float64 is left  *)
(* out.  Go counts the elements from 0, a sequence from 1.                 *)
(***************************************************************************)
EXTENDS Integers, Sequences

(* What slices.Sort leaves behind: at least one duration, in order.        *)
Sorted(values) ==
  /\ values \in Seq(Nat) /\ Len(values) > 0
  /\ \A i, j \in 1 .. Len(values) : i <= j => values[i] <= values[j]

Position(values, quantile) == (Len(values) - 1) * quantile

Lower(values, quantile) == Position(values, quantile) \div 100

Fraction(values, quantile) == Position(values, quantile) % 100

(* Mutant: not clamped. *)
UpperPast(values, quantile) == Lower(values, quantile) + 1

Upper(values, quantile) ==
  IF Lower(values, quantile) + 1 < Len(values) THEN Lower(values, quantile) + 1
  ELSE Len(values) - 1

(* A hundred times the percentile. *)
Percentile(values, quantile) ==
  LET low == values[Lower(values, quantile) + 1]
      high == values[Upper(values, quantile) + 1]
  IN  100 * low + (high - low) * Fraction(values, quantile)

-----------------------------------------------------------------------------
(* Both elements exist, and the percentile lies between them.              *)
BetweenNeighbours(values, quantile) ==
  LET l == Lower(values, quantile)
      u == Upper(values, quantile)
  IN  /\ l \in 0 .. Len(values) - 1 /\ u \in l .. Len(values) - 1
      /\ 100 * values[l + 1] <= Percentile(values, quantile)
      /\ Percentile(values, quantile) <= 100 * values[u + 1]

(* A higher quantile is never a smaller duration: P50 <= P95 <= P99, and   *)
(* all of them lie between the shortest and the longest.                   *)
Ordered(values) ==
  \A q, r \in 0 .. 100 :
    q <= r => /\ Percentile(values, q) <= Percentile(values, r)
              /\ 100 * values[1] <= Percentile(values, q)
              /\ Percentile(values, r) <= 100 * values[Len(values)]
=============================================================================

-------------------------- MODULE SampleStatistics --------------------------
(***************************************************************************)
(* What the receiver summarises.  One action per measured packet, which    *)
(* adds one latency and one time of reception, as the receiver does; the   *)
(* summaries are taken of what was measured so far.                        *)
(***************************************************************************)
EXTENDS SummaryStatistics

CONSTANTS
  Latencies,   \* latencies that a packet may have
  Periods,     \* times between two receptions
  MaxSamples   \* bound: packets measured

ASSUME StatisticsAssumption ==
  /\ Latencies \subseteq Int
  /\ Periods \subseteq Nat
  /\ MaxSamples \in Nat

VARIABLES
  values,   \* one_way_ns
  stamps    \* receive_monotonic_ns

vars == <<values, stamps>>

Init == values = <<>> /\ stamps = <<>>

Measure(latency, period) ==
  /\ Len(values) < MaxSamples
  /\ values' = Append(values, latency)
  /\ stamps' = Append(stamps, IF stamps = <<>> THEN 0 ELSE stamps[Len(stamps)] + period)

Next == \E latency \in Latencies, period \in Periods : Measure(latency, period)

Spec == Init /\ [][Next]_vars

-----------------------------------------------------------------------------
(* Properties *)

Below(x) == Cardinality({i \in DOMAIN values : 100 * values[i] < x})
Above(x) == Cardinality({i \in DOMAIN values : 100 * values[i] > x})

\* A percentile, characterised without sorting: of the len - 1 steps from the
\* least sample to the greatest, fewer than pct percent and one lie below it,
\* and fewer than the rest and one above it.
PercentilesSplitSamples ==
  values # <<>> =>
    \A pct \in Percents :
      LET p == Percentile(values, pct)
          steps == (Len(values) - 1) * pct
      IN  /\ 100 * Below(p) < steps + 100
          /\ 100 * Above(p) < 100 * (Len(values) - 1) - steps + 100

Uniform(low, step) == SeqExt!ToSet(values) = {low + k * step : k \in 0 .. Len(values) - 1}

\* Interpolation is linear between neighbours: samples that are spaced evenly,
\* in whatever order they came, have their percentiles at that fraction of
\* the way from the least to the greatest.
PercentilesInterpolate ==
  \A low, next \in SeqExt!ToSet(values) :
    low <= next /\ Uniform(low, next - low) =>
      \A pct \in Percents :
        Percentile(values, pct) = 100 * low + (Len(values) - 1) * (next - low) * pct

PairwiseSquares(s) ==
  LET square(i, j) == (s[i] - s[j]) * (s[i] - s[j])
  IN  Sum([j \in DOMAIN s |-> Sum([i \in 1 .. j - 1 |-> square(i, j)])])

\* The variance of n samples is the mean, over the n(n-1)/2 pairs, of half
\* the square of their difference: a definition without a mean.
DeviationIsPairwise ==
  Len(values) >= 2 =>
    LET v == SampleVariance(values)
    IN  v.num * Len(values) * (Len(values) - 1) = v.den * PairwiseSquares(values)

\* The jitter is zero for a stream with a constant period, whatever that is,
\* and for no other.
JitterMeansAperiodic ==
  Len(stamps) >= 3 =>
    (Jitter(stamps).num = 0 <=>
       \E period \in Periods :
         \A i \in 1 .. Len(stamps) - 1 : stamps[i + 1] = stamps[i] + period)
=============================================================================

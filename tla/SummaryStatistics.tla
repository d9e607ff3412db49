-------------------------- MODULE SummaryStatistics -------------------------
(***************************************************************************)
(* The summaries of a sequence of samples (utils/stats.py): percentiles,   *)
(* mean, deviation and jitter.  Arithmetic is exact where the code has     *)
(* floats.  A percentile is given in hundredths of the unit of the         *)
(* samples, a deviation by its square, as a fraction [num, den].           *)
(***************************************************************************)
EXTENDS Integers, Sequences, FiniteSets

SeqExt == INSTANCE SequencesExt   \* Last, Min, Max, ToSet

CONSTANT None

ASSUME NoneAssumption == None \notin Int

-----------------------------------------------------------------------------
(* percentile *)

Percents == {50, 90, 95, 99}   \* PERCENTILES

Unordered(s) == s                                             \* mutant

\* sorted: the smaller sample first and, as sorting is stable, of equal ones
\* the earlier.
Precedes(s, i, j) == s[i] < s[j] \/ (s[i] = s[j] /\ i <= j)

Place(s, i) == Cardinality({j \in DOMAIN s : Precedes(s, j, i)})

Ordered(s) == [k \in DOMAIN s |-> s[CHOOSE i \in DOMAIN s : Place(s, i) = k]]

\* rank = (len - 1) * pct / 100, with low and high the integers around it and
\* the weight of the upper one in hundredths.
Rank(n, pct) ==
  [low |-> ((n - 1) * pct) \div 100, high |-> ((n - 1) * pct + 99) \div 100,
   weight |-> ((n - 1) * pct) % 100]

Unweighted(lower, upper, weight) == 50 * lower + 50 * upper   \* mutant

Interpolate(lower, upper, weight) == lower * (100 - weight) + upper * weight

Percentile(s, pct) ==
  LET o == Ordered(s)
      r == Rank(Len(s), pct)
  IN  IF s = <<>> THEN None
      ELSE IF pct <= 0 THEN 100 * o[1]
      ELSE IF pct >= 100 THEN 100 * o[Len(s)]
      ELSE Interpolate(o[r.low + 1], o[r.high + 1], r.weight)

-----------------------------------------------------------------------------
(* fmean, sample_stddev and the jitter *)

\* A mean is this over Len(s).
Sum(s) ==
  LET sum[n \in 0 .. Len(s)] == IF n = 0 THEN 0 ELSE sum[n - 1] + s[n]
  IN  sum[Len(s)]

Squared(s) == [i \in DOMAIN s |-> s[i] * s[i]]

\* len(s) times the distance of each value to the mean.
DeviationTwice(s) == [i \in DOMAIN s |-> Len(s) * s[i] - Sum(s) + s[1]]   \* mutant

Deviations(s) == [i \in DOMAIN s |-> Len(s) * s[i] - Sum(s)]

\* The square of sample_stddev.
SampleVariance(s) ==
  CASE s = <<>>   -> None
    [] Len(s) = 1 -> [num |-> 0, den |-> 1]
    [] OTHER      -> [num |-> Sum(Squared(Deviations(s))),
                      den |-> Len(s) * Len(s) * (Len(s) - 1)]

FromFirst(s) == [i \in 1 .. Len(s) - 1 |-> s[i + 1] - s[1]]   \* mutant

\* The times between neighbours: zip(s, s[1:]).
PeriodsOf(s) == [i \in 1 .. Len(s) - 1 |-> s[i + 1] - s[i]]

\* The square of jitter_ms_from_timestamps.
Jitter(s) ==
  CASE Len(s) < 2 -> None
    [] Len(s) = 2 -> [num |-> 0, den |-> 1]
    [] OTHER      -> SampleVariance(PeriodsOf(s))
=============================================================================

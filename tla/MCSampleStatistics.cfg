SPECIFICATION Spec
CONSTANTS
  None = None
  Latencies <- MCLatencies
  Periods <- MCPeriods
  MaxSamples = 5
INVARIANTS
  PercentilesSplitSamples
  PercentilesInterpolate
  DeviationIsPairwise
  JitterMeansAperiodic
CHECK_DEADLOCK FALSE

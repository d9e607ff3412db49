------------------------- MODULE MCSampleStatistics -------------------------
(* Up to five samples with equal, near and far latencies, and packets that  *)
(* arrive together, in time, or late.                                       *)
EXTENDS SampleStatistics

MCLatencies == {-1, 1, 3, 6}
MCPeriods == 0 .. 2
=============================================================================

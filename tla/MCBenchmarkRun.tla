--------------------------- MODULE MCBenchmarkRun ---------------------------
EXTENDS BenchmarkRun

MCRecorders == <<"bag", "trace">>
=============================================================================

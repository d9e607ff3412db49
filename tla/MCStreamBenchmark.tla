-------------------------- MODULE MCStreamBenchmark -------------------------
(* A topic that only reorders packets, and one that does everything.        *)
EXTENDS StreamBenchmark

MCReorder == {"reorder"}
MCAll == {"loss", "duplicate", "reorder"}
=============================================================================

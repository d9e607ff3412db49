----------------------------- MODULE MCLocalRun -----------------------------
(* Enough signals to interrupt the script, its trap, and the trap inside    *)
(* the trap.                                                                *)
EXTENDS LocalRun

MCMaxSignals == 3
=============================================================================

--------------------------- MODULE MCSystemMonitor --------------------------
(* A sample every two units, room for four with late ones, and units in      *)
(* which the process is idle or busy and sends more than it receives.        *)
EXTENDS SystemMonitor

MCLoads == {[cpu |-> 0, rx |-> 0, tx |-> 0], [cpu |-> 1, rx |-> 1, tx |-> 2]}
=============================================================================

---------------------------- MODULE MCStreamSender --------------------------
(* Packets due every 2 ticks, a warm-up long enough for missed calls to pile *)
(* up, and a clock that runs past the end whenever the stream started.       *)
EXTENDS StreamSender
=============================================================================

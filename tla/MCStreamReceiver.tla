--------------------------- MODULE MCStreamReceiver -------------------------
(* Packets of two sessions with sequence numbers 0..2, the wall clock here   *)
(* one tick ahead of the sender's, and a clock offset that says so.          *)
EXTENDS StreamReceiver

MCPackets ==
  [session : {1}, seq : 0 .. 2, sentAt : {0}, size : {2}]
    \cup [session : {2}, seq : {1}, sentAt : {0}, size : {2}]
=============================================================================

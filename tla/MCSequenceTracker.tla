------------------------- MODULE MCSequenceTracker --------------------------
(* Five calls over the numbers 0..4, with the range starting at the first  *)
(* number, at 0, or at 2 (so that numbers below the start occur too).      *)
EXTENDS SequenceTracker

MCSeqs == 0 .. 4
MCStarts == {None, 0, 2}
=============================================================================

-------------------------- MODULE MCStreamRestart ---------------------------
(* A topic that does nothing but overflow: what goes wrong is the restart's. *)
(* The second process has the session id of the first or another one.        *)
EXTENDS StreamRestart

MCNone == {}
MCSessions == {SenderSession, 8}
=============================================================================

--------------------------- MODULE StreamRestart ----------------------------
(***************************************************************************)
(* A stream benchmark whose sender process dies and is started again while *)
(* the receiver goes on: a crash, a reboot of the sending host, or an      *)
(* operator who repeats the command.  The new process numbers its packets  *)
(* from 0; whether it is another session depends on where its session id   *)
(* comes from (drawn at random, or fixed with SESSION_ID as README.md does *)
(* for every cross-host example).                                          *)
(*                                                                         *)
(* The wait of StreamSender counts from time 0.  A second process waits    *)
(* from its own start, so the instances have a SenderTimeout that does     *)
(* not pass before MaxTime: the wait ends by discovery or by a signal.     *)
(***************************************************************************)
EXTENDS StreamBenchmark

CONSTANT SecondSessions   \* what config.session_id of the second may be

ASSUME RestartAssumption ==
  /\ SecondSessions \subseteq Nat \ {0}
  /\ SenderTimeout >= MaxTime

VARIABLES
  session,     \* config.session_id of the process that runs
  restarted,   \* the first process is dead, the second one runs
  former       \* what the first process published, in order

restartVars == <<session, restarted, former>>
allVars == <<vars, restartVars>>

SenderOf(id) == INSTANCE StreamSender WITH
  SessionId <- id, Warmup <- SenderWarmup, Duration <- SenderDuration,
  DiscoveryTimeout <- SenderTimeout, PayloadSize <- SenderPayload,
  interrupted <- sInterrupted, rpc <- sRpc,
  discoveryTime <- sDiscovery, measureStart <- sMeasureStart,
  measureEnd <- sMeasureEnd, finished <- sFinished, summary <- sSummary

RestartInit ==
  /\ Init
  /\ session = SenderSession
  /\ restarted = FALSE
  /\ former = <<>>

-----------------------------------------------------------------------------
(* The death of the first process and the start of the second *)

KeptNumber == UNCHANGED seq                                   \* mutant

\* StreamSender.__init__ numbers from 0, whatever was sent before it.
FirstNumber == seq' = 0

\* The variables of the process as __init__ and the first statements of run()
\* set them; it has discovered nothing yet.
FreshProcess ==
  /\ sRpc' = "wait"
  /\ FirstNumber
  /\ sentRows' = <<>>
  /\ published' = <<>>
  /\ sInterrupted' = FALSE
  /\ subscriberSeen' = FALSE
  /\ sFinished' = FALSE
  /\ sDiscovery' = None
  /\ startedAt' = None
  /\ sMeasureStart' = None
  /\ sMeasureEnd' = None
  /\ nextCall' = None
  /\ sSummary' = None

\* What the dead writer still held is lost: some of the oldest packets have
\* reached the receiver, the rest never will.
Restart ==
  /\ ~restarted
  /\ published # <<>>
  /\ restarted' = TRUE
  /\ session' \in SecondSessions
  /\ former' = published
  /\ FreshProcess
  /\ \E n \in 0 .. Len(queue) : queue' = SubSeq(queue, 1, n)
  /\ UNCHANGED <<now, rVars, heard>>

SecondStep ==
  /\ restarted
  /\ \E id \in SecondSessions : id = session /\ SenderOf(id)!RunStep
  /\ Transmit
  /\ UNCHANGED <<rVars, heard>>

FirstStep == ~restarted /\ SenderStep

RestartNext ==
  \/ Restart
  \/ /\ FirstStep \/ SecondStep \/ ReceiverStep \/ Deliver \/ Discover
        \/ Signal \/ Tick
     /\ UNCHANGED restartVars

RestartSpec == RestartInit /\ [][RestartNext]_allVars

-----------------------------------------------------------------------------
(* Properties *)

\* The packets behind the rows, when they are all of the stream s.
RowsOf(s) ==
  \A i \in DOMAIN rows :
    \E j \in DOMAIN s : /\ s[j].seq = rows[i].seq
                        /\ s[j].sentAt = rows[i].sentAt

\* With a session id of its own the second process cannot disturb the report,
\* nor can what is left of the first disturb that of a receiver which adopted
\* the second: every row is of one stream, no more is inferred sent than that
\* stream published, and nothing looks repeated or late.
SessionsKeptApart ==
  session # SenderSession =>
    /\ \E s \in {former, published} :
         RowsOf(s) /\ InferredSent(tracker) <= Len(s)
    /\ tracker.duplicates = 0
    /\ tracker.outOfOrder = 0

\* With the session id of the first process the two streams are one for the
\* receiver.  Of what that does to the report, this much is bounded: only rows
\* of the second process look repeated or late, with numbers that both have
\* used and at most as many as the first one published; and no more is inferred
\* sent than the longer stream published.  The loss has no better bound than
\* that: a number that only the first process used, and that was heard in the
\* warm-up, is counted lost when the rows go beyond it.
DamageIsBounded ==
  session = SenderSession =>
    /\ RowsOf(former \o published)
    /\ InferredSent(tracker) <= SeqExt!Max({Len(former), Len(published)})
    /\ tracker.duplicates + tracker.outOfOrder <= Len(former)
    /\ \A i \in DOMAIN rows :
         rows[i].duplicate \/ rows[i].reordered =>
           /\ restarted
           /\ rows[i].seq < Len(published)
           /\ rows[i].sentAt = published[rows[i].seq + 1].sentAt
=============================================================================

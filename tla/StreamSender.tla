---------------------------- MODULE StreamSender ----------------------------
(***************************************************************************)
(* The sender role: StreamSender (wait_for_subscription, start and the     *)
(* timer callback) and run() around it (nodes/stream_sender.py).  One      *)
(* action per step of the loops, so that time, signals and the ROS graph   *)
(* may change between any two reads of them.                               *)
(*                                                                         *)
(* Time is counted in ticks: monotonic_ns() and the wall clock of this     *)
(* host are both now, and discovery starts at time 0.  interrupted stands  *)
(* for "not rclpy.ok() or stop.requested".                                 *)
(***************************************************************************)
EXTENDS Integers, Sequences

CONSTANTS
  None,
  SessionId,          \* config.session_id
  Warmup, Duration,   \* config.warmup_s, config.duration_s
  Period,             \* timer_period(config.rate_hz)
  DiscoveryTimeout,   \* config.discovery_timeout_s
  PayloadSize,        \* config.payload_size
  LastStart,          \* bound: start() is called by this time
  MaxTime             \* bound: the clock stops here

ASSUME SenderAssumption ==
  /\ None \notin Int
  /\ {SessionId, PayloadSize, LastStart, MaxTime} \subseteq Nat
  /\ {Warmup, Duration, Period, DiscoveryTimeout} \subseteq Nat
  /\ LastStart <= MaxTime

VARIABLES
  now,              \* monotonic clock
  interrupted,      \* a signal or the shutdown of the ROS context was seen
  subscriberSeen,   \* node.count_subscribers(topic) > 0
  rpc,              \* next step of run()
  discoveryTime,    \* run(): discovery_time_ms
  startedAt, measureStart, measureEnd,
  nextCall,         \* when the timer is due, None while there is no timer
  finished, seq, sentRows,
  published,        \* every packet handed to publisher.publish, in order
  summary           \* what write_summary receives, None before

envVars    == <<now, interrupted, subscriberSeen>>
windowVars == <<startedAt, measureStart, measureEnd>>
streamVars == <<seq, sentRows, published>>
nodeVars   == <<windowVars, nextCall, finished, streamVars>>
vars == <<envVars, rpc, discoveryTime, nodeVars, summary>>

\* StreamSender.__init__ and the statements of run() before the wait.
Init ==
  /\ now = 0
  /\ interrupted = FALSE
  /\ subscriberSeen = FALSE
  /\ rpc = "wait"
  /\ discoveryTime = None
  /\ startedAt = None
  /\ measureStart = None
  /\ measureEnd = None
  /\ nextCall = None
  /\ finished = FALSE
  /\ seq = 0
  /\ sentRows = <<>>
  /\ published = <<>>
  /\ summary = None

-----------------------------------------------------------------------------
(* wait_for_subscription *)

\* A stop request ends the wait; the run goes on to start() all the same.
WaitInterrupted ==
  /\ rpc = "wait"
  /\ interrupted
  /\ rpc' = "start"
  /\ UNCHANGED <<envVars, discoveryTime, nodeVars, summary>>

SubscriberFound ==
  /\ subscriberSeen
  /\ discoveryTime' = now
  /\ rpc' = "start"

NoSubscriber ==
  /\ ~subscriberSeen
  /\ rpc' = "waitTimeout"
  /\ UNCHANGED discoveryTime

CheckSubscribers ==
  /\ rpc = "wait"
  /\ ~interrupted
  /\ SubscriberFound \/ NoSubscriber
  /\ UNCHANGED <<envVars, nodeVars, summary>>

\* After the timeout the stream is sent whether anyone listens or not.
CheckWaitTimeout ==
  /\ rpc = "waitTimeout"
  /\ rpc' = IF now > DiscoveryTimeout THEN "start" ELSE "wait"
  /\ UNCHANGED <<envVars, discoveryTime, nodeVars, summary>>

-----------------------------------------------------------------------------
(* start and the loop of run() *)

EagerStart ==                                                 \* mutant
  /\ rpc = "start"
  /\ startedAt' = now
  /\ measureStart' = now + Warmup
  /\ measureEnd' = measureStart' + Duration
  /\ nextCall' = now
  /\ rpc' = "loop"
  /\ UNCHANGED <<envVars, discoveryTime, finished, streamVars, summary>>

Start ==
  /\ rpc = "start"
  /\ startedAt' = now
  /\ measureStart' = now + Warmup
  /\ measureEnd' = measureStart' + Duration
  /\ nextCall' = now + Period
  /\ rpc' = "loop"
  /\ UNCHANGED <<envVars, discoveryTime, finished, streamVars, summary>>

UntilSignal == ~interrupted                                   \* mutant

Continue == ~interrupted /\ ~finished

EnterIteration ==
  /\ rpc = "loop"
  /\ Continue
  /\ rpc' = "spin"
  /\ UNCHANGED <<envVars, discoveryTime, nodeVars, summary>>

LeaveLoop ==
  /\ rpc = "loop"
  /\ ~Continue
  /\ rpc' = "finally"
  /\ UNCHANGED <<envVars, discoveryTime, nodeVars, summary>>

TimerDue == nextCall # None /\ now >= nextCall

\* spin_once returns after its timeout without having run a callback.
SpinIdle ==
  /\ rpc = "spin"
  /\ ~TimerDue
  /\ rpc' = "loop"
  /\ UNCHANGED <<envVars, discoveryTime, nodeVars, summary>>

-----------------------------------------------------------------------------
(* _on_timer, run by spin_once.  Its first test, of finished, never holds:  *)
(* the callback that sets finished cancels the timer.                       *)

\* The timer is periodic and keeps its phase: of the multiples of the period
\* after the one that was due, the first that is not past.  A period of 0 is
\* always due.
NextCall ==
  IF Period = 0 THEN now
  ELSE nextCall + Period *
    (IF now <= nextCall + Period THEN 1
     ELSE (now - nextCall + Period - 1) \div Period)

ShortStream == now >= startedAt + Duration                    \* mutant

WindowOver == now >= measureEnd

Finish ==
  /\ WindowOver
  /\ finished' = TRUE
  /\ nextCall' = None
  /\ UNCHANGED streamVars

AfterWarmup == now > measureStart                             \* mutant

InMeasurement == now >= measureStart

NumberedFromOne ==                                            \* mutant
  [session |-> SessionId, seq |-> seq + 1, sentAt |-> now, size |-> PayloadSize]

PacketToSend ==
  [session |-> SessionId, seq |-> seq, sentAt |-> now, size |-> PayloadSize]

StaleSeq == seq' = IF InMeasurement THEN seq + 1 ELSE seq     \* mutant

TakeSeq == seq' = seq + 1

Publish ==
  /\ ~WindowOver
  /\ nextCall' = NextCall
  /\ TakeSeq
  /\ published' = Append(published, PacketToSend)
  /\ sentRows' = IF InMeasurement
                 THEN Append(sentRows, [seq |-> seq, sentAt |-> now])
                 ELSE sentRows
  /\ UNCHANGED finished

OnTimer ==
  /\ rpc = "spin"
  /\ TimerDue
  /\ Finish \/ Publish
  /\ rpc' = "loop"
  /\ UNCHANGED <<envVars, discoveryTime, windowVars, summary>>

-----------------------------------------------------------------------------
(* The summary that the finally block writes *)

WriteSummary ==
  /\ rpc = "finally"
  /\ summary' = [ sent      |-> Len(sentRows),
                  bytes     |-> Len(sentRows) * PayloadSize,  \* over duration_s
                  discovery |-> discoveryTime,
                  ready     |-> discoveryTime ]
  /\ rpc' = "done"
  /\ UNCHANGED <<envVars, discoveryTime, nodeVars>>

-----------------------------------------------------------------------------
(* The environment *)

\* The bounds: the clock reaches MaxTime, and LastStart before start().
MayTick == now < (IF startedAt = None THEN LastStart ELSE MaxTime)

Tick ==
  /\ MayTick
  /\ now' = now + 1
  /\ UNCHANGED <<interrupted, subscriberSeen, rpc, discoveryTime, nodeVars,
                 summary>>

\* SIGINT or SIGTERM sets the ShutdownFlag, or the ROS context shuts down.
Interrupt ==
  /\ rpc # "done"
  /\ ~interrupted
  /\ interrupted' = TRUE
  /\ UNCHANGED <<now, subscriberSeen, rpc, discoveryTime, nodeVars, summary>>

\* The ROS graph gains or loses the last subscription of the topic.
GraphChange ==
  /\ rpc # "done"
  /\ subscriberSeen' = ~subscriberSeen
  /\ UNCHANGED <<now, interrupted, rpc, discoveryTime, nodeVars, summary>>

RunStep ==
  \/ WaitInterrupted \/ CheckSubscribers \/ CheckWaitTimeout
  \/ Start
  \/ EnterIteration \/ LeaveLoop
  \/ SpinIdle \/ OnTimer
  \/ WriteSummary

Environment == Tick \/ Interrupt \/ GraphChange

Next == RunStep \/ Environment

Spec == Init /\ [][Next]_vars

\* The process is scheduled and the clock runs.
Fairness == WF_vars(RunStep) /\ WF_vars(Tick)

FairSpec == Spec /\ Fairness

-----------------------------------------------------------------------------
(* Properties *)

Time == 0 .. MaxTime
Packet == [session : {SessionId}, seq : Nat, sentAt : Time, size : {PayloadSize}]

\* Every variable has its type, and the window is set as a whole by start().
TypeOK ==
  /\ now \in Time
  /\ interrupted \in BOOLEAN
  /\ subscriberSeen \in BOOLEAN
  /\ rpc \in {"wait", "waitTimeout", "start", "loop", "spin", "finally", "done"}
  /\ discoveryTime \in Time \cup {None}
  /\ \/ {startedAt, measureStart, measureEnd, nextCall} = {None}
     \/ /\ startedAt \in Time
        /\ measureStart = startedAt + Warmup
        /\ measureEnd = measureStart + Duration
        /\ nextCall \in IF finished THEN {None} ELSE Nat
  /\ finished \in BOOLEAN
  /\ seq \in Nat
  /\ sentRows \in Seq([seq : Nat, sentAt : Time])
  /\ published \in Seq(Packet)

\* The packets on the topic are numbered 0, 1, 2, ... without a hole, warm-up
\* included, so that any hole at the receiver is the network's.
NumberedWithoutGap ==
  /\ seq = Len(published)
  /\ \A i \in DOMAIN published : published[i].seq = i - 1

\* raw_samples.csv of the sender has exactly the packets published inside its
\* measurement window: the tail of the stream after the warm-up, end excluded.
RowsAreMeasuredTail ==
  LET skipped == Len(published) - Len(sentRows)
  IN  /\ skipped >= 0
      /\ \A i \in DOMAIN published :
           /\ published[i].sentAt < measureEnd
           /\ i <= skipped <=> published[i].sentAt < measureStart
           /\ i > skipped =>
                sentRows[i - skipped] =
                  [seq |-> published[i].seq, sentAt |-> published[i].sentAt]

\* The stream is never faster than the rate asked for: no burst makes up for
\* calls missed, and the measurement holds at most one packet more than the
\* window has room for.
RateNotExceeded ==
  /\ seq > 0 => seq * Period <= now - startedAt
  /\ sentRows # <<>> => (Len(sentRows) - 2) * Period < Duration

\* A stream is cut short only by an interruption.
ExitJustified ==
  rpc \in {"finally", "done"} /\ ~interrupted =>
    startedAt # None /\ now >= measureEnd

\* The sender ends and writes its summary, whether or not a subscription ever
\* appears.
Terminates == <>(rpc = "done")
=============================================================================

--------------------------- MODULE StreamReceiver ---------------------------
(***************************************************************************)
(* The receiver role: StreamReceiver (its subscription callback and its    *)
(* deadline check) and the loop of run() around it (nodes/                 *)
(* stream_receiver.py).  One action per step of the loop, so that time,    *)
(* signals and the ROS graph may change between any two reads of them.     *)
(*                                                                         *)
(* Time is counted in ticks.  monotonic_ns() is now; the wall clock of     *)
(* this host is now + WallSkew, that of the sending host is now.           *)
(* interrupted stands for "not rclpy.ok() or stop.requested", the only     *)
(* form in which the loop reads the two.                                   *)
(***************************************************************************)
EXTENDS SequenceTracking, Sequences

SeqExt == INSTANCE SequencesExt

CONSTANTS
  SessionId,          \* config.session_id; 0 adopts the first session heard
  Warmup, Duration,   \* config.warmup_s, config.duration_s
  DiscoveryTimeout,   \* config.discovery_timeout_s
  PayloadSize,        \* config.payload_size
  ClockSync,          \* config.clock_sync: "unknown", "ok" or "offset"
  ClockOffset,        \* config.clock_offset_ms, or None
  MaxClockOffset,     \* config.max_clock_offset_ms
  WallSkew,           \* wall clock here minus wall clock of the sender
  Packets,            \* BenchmarkPackets that may arrive
  MaxRows,            \* bound: packets measured
  LastStart,          \* bound: no stream starts after this time
  MaxTime             \* bound: the clock stops here

ASSUME ReceiverAssumption ==
  /\ {Warmup, Duration, DiscoveryTimeout, PayloadSize} \subseteq Nat
  /\ {MaxRows, LastStart, MaxTime} \subseteq Nat
  /\ SessionId \in Nat
  /\ WallSkew \in Int
  /\ ClockSync \in {"unknown", "ok", "offset"}
  /\ ClockOffset \in Int \cup {None}
  /\ ClockSync = "offset" => ClockOffset # None
  /\ MaxClockOffset \in Int
  /\ Packets \subseteq [session : Nat, seq : Nat, sentAt : Int, size : Nat]

VARIABLES
  now,            \* monotonic clock
  interrupted,    \* a signal or the shutdown of the ROS context was seen
  publisherSeen,  \* node.count_publishers(topic) > 0
  rpc,            \* next step of run()
  discoveryTime,  \* run(): discovery_time_ms
  activeSession, firstPacket, measureStart, measureEnd, finished,
  tracker, rows, oneWay,
  summary         \* what write_summary receives, None before

envVars    == <<now, interrupted, publisherSeen>>
windowVars == <<firstPacket, measureStart, measureEnd>>
sampleVars == <<tracker, rows, oneWay>>
nodeVars   == <<activeSession, windowVars, finished, sampleVars>>
vars == <<envVars, rpc, discoveryTime, nodeVars, summary>>

\* one_way_latency_valid(config)
OneWayValid ==
  \/ ClockSync = "ok"
  \/ /\ ClockSync = "offset"
     /\ ClockOffset \in -MaxClockOffset .. MaxClockOffset

\* int((clock_offset_ms or 0.0) * 1_000_000)
Offset == IF ClockOffset = None THEN 0 ELSE ClockOffset

\* StreamReceiver.__init__ and the statements of run() before the loop; the
\* clock is read as discovery_start_ns, which is time 0.
Init ==
  /\ now = 0
  /\ interrupted = FALSE
  /\ publisherSeen = FALSE
  /\ rpc = "loop"
  /\ discoveryTime = None
  /\ activeSession = IF SessionId = 0 THEN None ELSE SessionId
  /\ firstPacket = None
  /\ measureStart = None
  /\ measureEnd = None
  /\ finished = FALSE
  /\ tracker = NewTracker(None)
  /\ rows = <<>>
  /\ oneWay = <<>>
  /\ summary = None

-----------------------------------------------------------------------------
(* The loop of run() *)

Continue == ~interrupted /\ ~finished

EnterIteration ==
  /\ rpc = "loop"
  /\ Continue
  /\ rpc' = "spin"
  /\ UNCHANGED <<envVars, discoveryTime, nodeVars, summary>>

LeaveLoop ==
  /\ rpc = "loop"
  /\ ~Continue
  /\ rpc' = "finally"
  /\ UNCHANGED <<envVars, discoveryTime, nodeVars, summary>>

\* spin_once returns after its timeout without having run a callback.
SpinIdle ==
  /\ rpc = "spin"
  /\ rpc' = "discover"
  /\ UNCHANGED <<envVars, discoveryTime, nodeVars, summary>>

PublisherFound ==
  discoveryTime' =
    IF discoveryTime = None /\ publisherSeen THEN now ELSE discoveryTime

CheckDiscovery ==
  /\ rpc = "discover"
  /\ PublisherFound
  /\ rpc' = "timeout"
  /\ UNCHANGED <<envVars, nodeVars, summary>>

SilentTopic ==                                                \* mutant
  firstPacket = None /\ ~publisherSeen /\ now > DiscoveryTimeout

\* The break of the loop: nothing of the session arrived in time.
DiscoveryExpired == firstPacket = None /\ now > DiscoveryTimeout

CheckTimeout ==
  /\ rpc = "timeout"
  /\ rpc' = IF DiscoveryExpired THEN "finally" ELSE "deadline"
  /\ UNCHANGED <<envVars, discoveryTime, nodeVars, summary>>

DeadlineReached == measureEnd # None /\ now >= measureEnd     \* mutant

\* The condition of maybe_finish_after_deadline.
PastDeadline == measureEnd # None /\ now > measureEnd

CheckDeadline ==
  /\ rpc = "deadline"
  /\ finished' = (finished \/ PastDeadline)
  /\ rpc' = "loop"
  /\ UNCHANGED <<envVars, discoveryTime, activeSession, windowVars,
                 sampleVars, summary>>

-----------------------------------------------------------------------------
(* _on_packet, run by spin_once *)

LatestSession(p) == p.session                                 \* mutant

\* The session the packet is compared with: adopted from it if none is set.
SessionFor(p) == IF activeSession = None THEN p.session ELSE activeSession

OtherSession(p) ==
  /\ p.session # SessionFor(p)
  /\ UNCHANGED nodeVars

WarmupForgotten ==                                            \* mutant
  IF firstPacket = None
  THEN firstPacket' = now /\ measureStart' = now /\ measureEnd' = now + Duration
  ELSE UNCHANGED windowVars

\* The first packet of the session anchors the measurement window.
AnchorWindow ==
  IF firstPacket = None
  THEN /\ firstPacket' = now
       /\ measureStart' = now + Warmup
       /\ measureEnd' = measureStart' + Duration
  ELSE UNCHANGED windowVars

Accept(p) ==
  /\ p.session = SessionFor(p)
  /\ activeSession' = p.session
  /\ AnchorWindow

DuringWarmup(p) ==
  /\ Accept(p)
  /\ now < measureStart'
  /\ UNCHANGED <<finished, sampleVars>>

LeftToDeadline == FALSE                                       \* mutant

TooLate == now > measureEnd'

AfterWindow(p) ==
  /\ Accept(p)
  /\ TooLate
  /\ finished' = TRUE
  /\ UNCHANGED sampleVars

WallNow == now + WallSkew

AddedOffset(p) == WallNow - p.sentAt + Offset                 \* mutant

Latency(p) == WallNow - p.sentAt - Offset

RowFor(p) ==
  LET e == EventFor(tracker, p.seq)
  IN [ seq        |-> p.seq,
       sentAt     |-> p.sentAt,          \* send_time_ns
       receivedAt |-> WallNow,           \* receive_time_ns
       localAt    |-> now,               \* local_receive_monotonic_ns
       size       |-> p.size,            \* payload_size
       reordered  |-> e.outOfOrder,
       duplicate  |-> e.duplicate,
       lostGap    |-> e.lostGap,
       gapSize    |-> e.gapSize ]

Measure(p) ==
  /\ Accept(p)
  /\ now >= measureStart'
  /\ ~TooLate
  /\ tracker' = Observe(tracker, p.seq)
  /\ rows' = Append(rows, RowFor(p))
  /\ oneWay' = IF OneWayValid THEN Append(oneWay, Latency(p)) ELSE oneWay
  /\ UNCHANGED finished

OnPacket(p) ==
  OtherSession(p) \/ DuringWarmup(p) \/ AfterWindow(p) \/ Measure(p)

\* spin_once runs the callback for one packet.
SpinPacket(p) ==
  /\ rpc = "spin"
  /\ OnPacket(p)
  /\ rpc' = "discover"
  /\ UNCHANGED <<envVars, discoveryTime, summary>>

-----------------------------------------------------------------------------
(* The summary that the finally block writes *)

Summary ==
  [ activeSession |-> activeSession,
    sent       |-> InferredSent(tracker),
    received   |-> Len(rows),
    unique     |-> UniqueReceived(tracker),
    lost       |-> FinalLoss(tracker),
    duplicates |-> tracker.duplicates,
    outOfOrder |-> tracker.outOfOrder,
    gapEvents  |-> tracker.gapEvents,
    bytes      |-> Len(rows) * PayloadSize,   \* over duration_s
    latencies  |-> oneWay,
    timeouts   |-> IF firstPacket = None THEN 1 ELSE 0,
    discovery  |-> discoveryTime,
    ready      |-> firstPacket ]

WriteSummary ==
  /\ rpc = "finally"
  /\ summary' = Summary
  /\ rpc' = "done"
  /\ UNCHANGED <<envVars, discoveryTime, nodeVars>>

-----------------------------------------------------------------------------
(* The environment *)

Tick ==
  /\ now < MaxTime
  /\ now' = now + 1
  /\ UNCHANGED <<interrupted, publisherSeen, rpc, discoveryTime, nodeVars,
                 summary>>

\* SIGINT or SIGTERM sets the ShutdownFlag, or the ROS context shuts down.
Interrupt ==
  /\ rpc # "done"
  /\ ~interrupted
  /\ interrupted' = TRUE
  /\ UNCHANGED <<now, publisherSeen, rpc, discoveryTime, nodeVars, summary>>

\* The ROS graph gains or loses the last publisher of the topic.
GraphChange ==
  /\ rpc # "done"
  /\ publisherSeen' = ~publisherSeen
  /\ UNCHANGED <<now, interrupted, rpc, discoveryTime, nodeVars, summary>>

LoopStep ==
  \/ EnterIteration \/ LeaveLoop
  \/ SpinIdle
  \/ CheckDiscovery \/ CheckTimeout \/ CheckDeadline
  \/ WriteSummary

\* The bounds: a stream starts by LastStart, and at most MaxRows packets are
\* measured.
Arrival ==
  /\ firstPacket = None => now <= LastStart
  /\ Len(rows) < MaxRows
  /\ \E p \in Packets : SpinPacket(p)

Environment == Tick \/ Interrupt \/ GraphChange

Next == LoopStep \/ Arrival \/ Environment

Spec == Init /\ [][Next]_vars

\* The process is scheduled and the clock runs.
Fairness == WF_vars(LoopStep) /\ WF_vars(Tick)

FairSpec == Spec /\ Fairness

-----------------------------------------------------------------------------
(* Properties *)

Row ==
  [ seq : Nat, sentAt : Int, receivedAt : Int, localAt : Nat, size : Nat,
    reordered : BOOLEAN, duplicate : BOOLEAN, lostGap : BOOLEAN, gapSize : Nat ]

Time == 0 .. MaxTime

\* Every variable has its type; the window is set as a whole, with the first
\* packet.
TypeOK ==
  /\ now \in Time
  /\ interrupted \in BOOLEAN
  /\ publisherSeen \in BOOLEAN
  /\ rpc \in {"loop", "spin", "discover", "timeout", "deadline", "finally", "done"}
  /\ discoveryTime \in Time \cup {None}
  /\ activeSession \in Nat \cup {None}
  /\ \/ {firstPacket, measureStart, measureEnd} = {None}
     \/ /\ firstPacket \in Time
        /\ measureStart = firstPacket + Warmup
        /\ measureEnd = measureStart + Duration
  /\ finished \in BOOLEAN
  /\ tracker \in TrackerType({None})
  /\ rows \in Seq(Row)
  /\ oneWay \in Seq(Int)

\* Every measured packet was received inside the one measurement window,
\* both ends included, and the rows stand in the order of reception: neither
\* a warm-up packet nor one after the deadline is ever counted.
RowsInWindow ==
  /\ \A i \in DOMAIN rows :
       /\ firstPacket # None
       /\ rows[i].localAt \in measureStart .. measureEnd
       /\ rows[i].localAt <= now
  /\ \A i, j \in DOMAIN rows : i < j => rows[i].localAt <= rows[j].localAt

\* The loop is left only for a reason: an interruption, nothing heard within
\* the discovery timeout, or a window that lies entirely in the past.  A
\* measurement is never cut short.
ExitJustified ==
  rpc \in {"finally", "done"} =>
    \/ interrupted
    \/ firstPacket = None /\ now > DiscoveryTimeout
    \/ firstPacket # None /\ now > measureEnd

\* Rows and latencies are parallel: when latencies are valid every row has one,
\* else none; and if the offset given is the true skew of the two clocks, the
\* latency is the time from the publication to the reception.
LatenciesMatchRows ==
  /\ Len(oneWay) = IF OneWayValid THEN Len(rows) ELSE 0
  /\ Offset = WallSkew =>
       \A i \in DOMAIN oneWay : oneWay[i] = rows[i].localAt - rows[i].sentAt

RowSeqs == {rows[i].seq : i \in DOMAIN rows}
RowsWith(P(_)) == Cardinality({i \in DOMAIN rows : P(rows[i])})
Missing(S) == (UNION {a .. b : a, b \in S}) \ S

\* The counts in summary.json are those that a reader of raw_samples.csv
\* would compute from its rows, so the two artifacts never disagree.
SummaryMatchesRows ==
  rpc = "done" =>
    /\ summary.received = Len(rows)
    /\ summary.unique = Cardinality(RowSeqs)
    /\ summary.duplicates = RowsWith(LAMBDA r : r.duplicate)
    /\ summary.outOfOrder = RowsWith(LAMBDA r : r.reordered)
    /\ summary.gapEvents = RowsWith(LAMBDA r : r.lostGap)
    /\ summary.lost = Cardinality(Missing(RowSeqs))
    /\ summary.sent = summary.unique + summary.lost

\* The session and the measurement window, once taken from a packet, are kept
\* for the rest of the run: no other session and no later packet moves them.
AnchorKept ==
  [][ /\ activeSession # None => UNCHANGED activeSession
      /\ firstPacket # None => UNCHANGED windowVars ]_vars

\* The run ends and writes its summary whatever packets arrive or fail to:
\* by timeout when nothing is heard, by the deadline otherwise.
Terminates == <>(rpc = "done")
=============================================================================

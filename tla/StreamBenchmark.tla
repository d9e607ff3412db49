-------------------------- MODULE StreamBenchmark ---------------------------
(***************************************************************************)
(* One stream benchmark: the sender process, the receiver process and the  *)
(* topic between them.  The roles share nothing but the packets; each has  *)
(* its own options, signals and view of the ROS graph.  Both run on one    *)
(* clock here, which is what "sent at" and "received at" mean below; each  *)
(* measures its own window from its own first event.                       *)
(*                                                                         *)
(* The topic is the DDS middleware and the network, seen as the code uses  *)
(* them: publish() hands a packet over, keep_last history (utils/qos.py)   *)
(* holds at most Depth packets for a reader that has been discovered, and  *)
(* spin_once runs the callback for one of them.  Impairments says what     *)
(* else may happen to a packet (scripts/impair_network.sh).                *)
(***************************************************************************)
EXTENDS SequenceTracking, Sequences

SeqExt == INSTANCE SequencesExt   \* RemoveAt, Last, Min, Max

CONSTANTS
  \* the options of each process
  SenderSession, SenderWarmup, SenderDuration, SenderTimeout, SenderPayload,
  ReceiverSession, ReceiverWarmup, ReceiverDuration, ReceiverTimeout,
  ReceiverPayload,
  Period,        \* timer_period(config.rate_hz) of the sender
  Depth,         \* config.qos.depth
  Impairments,   \* among "loss", "duplicate" and "reorder"
  LastStart,     \* bound: the sender starts its stream by this time
  MaxTime,       \* bound: the clock stops here
  MaxHeard       \* bound: callbacks run

ASSUME BenchmarkAssumption ==
  /\ {SenderSession, SenderWarmup, SenderDuration, SenderTimeout,
      SenderPayload, Period} \subseteq Nat
  /\ {ReceiverSession, ReceiverWarmup, ReceiverDuration, ReceiverTimeout,
      ReceiverPayload} \subseteq Nat
  /\ Depth \in Nat \ {0}
  /\ Impairments \subseteq {"loss", "duplicate", "reorder"}
  /\ {LastStart, MaxTime, MaxHeard} \subseteq Nat

VARIABLES
  now,
  \* the sender process
  sInterrupted, subscriberSeen, sRpc, sDiscovery, startedAt, sMeasureStart,
  sMeasureEnd, nextCall, sFinished, seq, sentRows, published, sSummary,
  \* the receiver process
  rInterrupted, publisherSeen, rRpc, rDiscovery, activeSession, firstPacket,
  rMeasureStart, rMeasureEnd, rFinished, tracker, rows, oneWay, rSummary,
  \* the topic
  queue,   \* packets held for the receiver, oldest first
  heard    \* every packet given to the callback and when, in order

sVars == <<sInterrupted, subscriberSeen, sRpc, sDiscovery, startedAt,
           sMeasureStart, sMeasureEnd, nextCall, sFinished, seq, sentRows,
           published, sSummary>>
rVars == <<rInterrupted, publisherSeen, rRpc, rDiscovery, activeSession,
           firstPacket, rMeasureStart, rMeasureEnd, rFinished, tracker, rows,
           oneWay, rSummary>>
topicVars == <<queue, heard>>
vars == <<now, sVars, rVars, topicVars>>

Sender == INSTANCE StreamSender WITH
  SessionId <- SenderSession, Warmup <- SenderWarmup,
  Duration <- SenderDuration, DiscoveryTimeout <- SenderTimeout,
  PayloadSize <- SenderPayload, interrupted <- sInterrupted, rpc <- sRpc,
  discoveryTime <- sDiscovery, measureStart <- sMeasureStart,
  measureEnd <- sMeasureEnd, finished <- sFinished, summary <- sSummary

\* The clocks of the two hosts agree, and the receiver has been told so.
Receiver == INSTANCE StreamReceiver WITH
  SessionId <- ReceiverSession, Warmup <- ReceiverWarmup,
  Duration <- ReceiverDuration, DiscoveryTimeout <- ReceiverTimeout,
  PayloadSize <- ReceiverPayload, interrupted <- rInterrupted, rpc <- rRpc,
  discoveryTime <- rDiscovery, measureStart <- rMeasureStart,
  measureEnd <- rMeasureEnd, finished <- rFinished, summary <- rSummary,
  ClockSync <- "ok", ClockOffset <- None, MaxClockOffset <- 0, WallSkew <- 0,
  Packets <- [session : Nat, seq : Nat, sentAt : Int, size : Nat],
  MaxRows <- MaxHeard, LastStart <- MaxTime

Init ==
  /\ Sender!Init
  /\ Receiver!Init
  /\ queue = <<>>
  /\ heard = <<>>

-----------------------------------------------------------------------------
(* The topic *)

\* keep_last: a full history drops its oldest packet.
Enqueue(q, p) == Append(IF Len(q) < Depth THEN q ELSE Tail(q), p)

\* What becomes of a packet p on its way into the history q: it arrives once,
\* twice or not at all.
Arrivals(q, p) ==
  {Enqueue(q, p)}
    \cup (IF "loss" \in Impairments THEN {q} ELSE {})
    \cup (IF "duplicate" \in Impairments THEN {Enqueue(Enqueue(q, p), p)} ELSE {})

\* durability volatile: a reader not yet discovered never gets the packet.
Transmit ==
  IF published' # published /\ subscriberSeen
  THEN queue' \in Arrivals(queue, SeqExt!Last(published'))
  ELSE UNCHANGED queue

\* The packets the callback may get next.
Deliverable ==
  IF "reorder" \in Impairments THEN DOMAIN queue ELSE DOMAIN queue \cap {1}

-----------------------------------------------------------------------------
(* The processes *)

SenderStep ==
  /\ Sender!RunStep
  /\ Transmit
  /\ UNCHANGED <<rVars, heard>>

ReceiverStep ==
  /\ Receiver!LoopStep
  /\ UNCHANGED <<sVars, topicVars>>

Deliver ==
  /\ Len(heard) < MaxHeard
  /\ \E i \in Deliverable :
       /\ Receiver!SpinPacket(queue[i])
       /\ queue' = SeqExt!RemoveAt(queue, i)
       /\ heard' = Append(heard, [packet |-> queue[i], at |-> now])
  /\ UNCHANGED sVars

\* The sender discovers the receiver's subscription once.  (When the receiver
\* sees the publisher only dates a field of its summary: see StreamReceiver.)
Discover ==
  /\ ~subscriberSeen
  /\ Sender!GraphChange
  /\ UNCHANGED <<rVars, topicVars>>

Signal ==
  \/ Sender!Interrupt /\ UNCHANGED <<rVars, topicVars>>
  \/ Receiver!Interrupt /\ UNCHANGED <<sVars, topicVars>>

Tick == Sender!Tick /\ Receiver!Tick /\ UNCHANGED topicVars

Next ==
  \/ SenderStep \/ ReceiverStep
  \/ Deliver
  \/ Discover \/ Signal
  \/ Tick

Spec == Init /\ [][Next]_vars

-----------------------------------------------------------------------------
(* Properties *)

SeqsOf(s) == {s[i].seq : i \in DOMAIN s}

HeardSeqs == {heard[i].packet.seq : i \in DOMAIN heard}
RowSeqs == SeqsOf(rows)

\* What the receiver reports as lost, as numbers.
LostSeqs ==
  IF RowSeqs = {} THEN {} ELSE (SeqExt!Min(RowSeqs) .. SeqExt!Max(RowSeqs)) \ RowSeqs

\* No packet came to the callback after one with a greater number.
HeardInOrder ==
  \A i, j \in DOMAIN heard : i < j => heard[i].packet.seq <= heard[j].packet.seq

\* A number that the receiver counts as lost was published and never reached
\* its callback, not even as a warm-up packet: README.md promises "application-
\* level sequence loss".
LossIsNeverHeard ==
  /\ LostSeqs \subseteq SeqsOf(published) \ HeardSeqs
  /\ FinalLoss(tracker) = Cardinality(LostSeqs)

\* The loss reported is exactly that, whatever is lost or repeated on the way
\* or overflows the history, unless a packet was overtaken (stats.py, and the
\* tests before it in the callback).
LossIsNetworkLoss == HeardInOrder => LossIsNeverHeard

\* Duplicates and late packets are reported only where the callback was given
\* some: a session, a window or a history never makes one up.
FaultsAreReal ==
  /\ tracker.duplicates <= Len(heard) - Cardinality(HeardSeqs)
  /\ HeardInOrder => tracker.outOfOrder = 0

\* Whatever the topic does, the receiver never infers more messages sent than
\* the sender published, and each of its rows is one of them, with the time
\* the sender wrote into it.
ReportsOnlyPublished ==
  /\ InferredSent(tracker) <= Len(published)
  /\ \A i \in DOMAIN rows :
       /\ rows[i].seq < Len(published)
       /\ rows[i].sentAt = published[rows[i].seq + 1].sentAt
       /\ rows[i].sentAt <= rows[i].localAt

Transit(h) == h.at - h.packet.sentAt

\* The two windows have different anchors: start() of the sender, and the first
\* packet heard.  That comes a period later at least, and one more for every
\* packet before it that was not heard.  How far the windows differ for a packet
\* follows from that delay: one of the sender's warm-up is measured only if it
\* was on its way for longer than the receiver's window begins after the
\* sender's, one of its measurement is taken for the warm-up only if it was
\* faster, and one comes too late only if it was on its way for longer than
\* the receiver's window ends after the sender's.
WindowsShifted ==
  firstPacket # None =>
    LET first    == heard[1]
        delay    == first.at - startedAt
        shift    == delay + ReceiverWarmup - SenderWarmup
        endShift == shift + ReceiverDuration - SenderDuration
    IN  /\ delay >= (first.packet.seq + 1) * Period
        /\ \A i \in DOMAIN rows :
             rows[i].sentAt < sMeasureStart => rows[i].localAt - rows[i].sentAt > shift
        /\ \A i \in DOMAIN heard :
             /\ heard[i].packet.sentAt >= sMeasureStart /\ heard[i].at < rMeasureStart =>
                  Transit(heard[i]) < shift
             /\ heard[i].at > rMeasureEnd => Transit(heard[i]) > endShift
=============================================================================

-------------------------- MODULE SequenceTracker ---------------------------
(***************************************************************************)
(* One SequenceTracker object (utils/stats.py) fed with numbers in any     *)
(* order: lost, repeated and late numbers are simply the sequences of      *)
(* calls in which they are missing, repeated or late.  events collects     *)
(* what observe() returned, as the receiver's rows do.                     *)
(***************************************************************************)
EXTENDS SequenceTracking, Sequences

CONSTANTS
  Seqs,            \* sequence numbers that may be observed
  ExpectedStarts,  \* values of expected_start_seq
  MaxEvents        \* bound: calls of observe in a run

ASSUME TrackerAssumption ==
  /\ Seqs \subseteq Nat
  /\ ExpectedStarts \subseteq Nat \cup {None}
  /\ MaxEvents \in Nat

VARIABLES tracker, events

vars == <<tracker, events>>

Init ==
  /\ \E start \in ExpectedStarts : tracker = NewTracker(start)
  /\ events = <<>>

ObserveSeq(seq) ==
  /\ Len(events) < MaxEvents
  /\ tracker' = Observe(tracker, seq)
  /\ events' = Append(events, EventFor(tracker, seq))

Next == \E seq \in Seqs : ObserveSeq(seq)

Spec == Init /\ [][Next]_vars

-----------------------------------------------------------------------------
(* Properties *)

\* The tracker and the events it returned have their types; in particular no
\* counter and no gap size is ever negative.
TypeOK ==
  /\ tracker \in TrackerType(Nat \cup {None})
  /\ events \in Seq(Event)

FlaggedDuplicate  == {i \in DOMAIN events : events[i].duplicate}
FlaggedOutOfOrder == {i \in DOMAIN events : events[i].outOfOrder}
FlaggedGap        == {i \in DOMAIN events : events[i].lostGap}

\* The counters of the tracker are the numbers of events that carry the
\* corresponding flag, and every event that is no duplicate brought a number
\* that the tracker had not seen: summary.json and raw_samples.csv agree.
CountersMatchEvents ==
  /\ tracker.duplicates = Cardinality(FlaggedDuplicate)
  /\ tracker.outOfOrder = Cardinality(FlaggedOutOfOrder)
  /\ tracker.gapEvents = Cardinality(FlaggedGap)
  /\ Len(events) = UniqueReceived(tracker) + tracker.duplicates

\* No number below the start of the range was observed.
StartsInRange == tracker.maxSeen # None => RangeStart(tracker) <= tracker.minSeen

\* The loss counted from the set of missing numbers at the end equals the
\* loss counted online (gaps opened less late arrivals), corrected by what
\* lies between the first number observed and the start of the range; and the
\* inferred number of messages sent is what was received plus what was lost.
LossReconciles ==
  (tracker.maxSeen # None /\ StartsInRange) =>
    /\ FinalLoss(tracker) =
         tracker.gapCount - tracker.outOfOrder
           + events[1].seq - RangeStart(tracker)
    /\ InferredSent(tracker) = UniqueReceived(tracker) + FinalLoss(tracker)

\* How one call may change the final loss, for a tracker whose range starts
\* at the least number seen (the receiver's): a duplicate leaves it, a late
\* number inside the range repays exactly one, a number beyond the range on
\* either side adds exactly the numbers it skips.
LossStep ==
  LET e == events'[Len(events')]
      lost == FinalLoss(tracker)
  IN  (tracker.expectedStart = None /\ tracker.maxSeen # None) =>
        FinalLoss(tracker') =
          IF e.duplicate THEN lost
          ELSE IF e.seq > tracker.maxSeen THEN lost + e.gapSize
          ELSE IF e.seq < tracker.minSeen THEN lost + (tracker.minSeen - e.seq - 1)
          ELSE lost - 1

\* Each call of observe moves the final loss as LossStep says.
LossMovesByStep == [][LossStep]_vars

\* The counts of the tracker after any calls are those of the abstract audit
\* of the numbers observed.
Audit == INSTANCE SequenceAudit WITH
  start    <- tracker.expectedStart,
  arrivals <- [i \in DOMAIN events |-> events[i].seq],
  report   <- [ received   |-> Len(events),
                unique     |-> UniqueReceived(tracker),
                duplicates |-> tracker.duplicates,
                outOfOrder |-> tracker.outOfOrder,
                gapEvents  |-> tracker.gapEvents,
                gapCount   |-> tracker.gapCount,
                sent       |-> InferredSent(tracker),
                lost       |-> FinalLoss(tracker) ]

\* The tracker implements the audit.
ImplementsAudit == Audit!Spec
=============================================================================

----------------------- MODULE SequenceTrackerProofs ------------------------
(***************************************************************************)
(* Theorems about SequenceTracker, for any set of sequence numbers and any *)
(* number of calls of observe().                                           *)
(***************************************************************************)
EXTENDS SequenceTracker, SequenceTrackingLemmas, SequenceTheorems

-----------------------------------------------------------------------------
\* The tracker and the events it returns have their types throughout.
THEOREM TypeCorrect == Spec => []TypeOK
<1>1. Init => TypeOK
  <2> SUFFICES ASSUME Init PROVE TypeOK
    OBVIOUS
  <2>1. PICK start \in ExpectedStarts : tracker = NewTracker(start)
    BY DEF Init
  <2>2. tracker \in TrackerType(Starts)
    BY <2>1, TrackerAssumption DEF NewTracker, TrackerType, Starts
  <2>3. events \in Seq(Event)
    BY DEF Init
  <2>4. QED
    BY <2>2, <2>3 DEF TypeOK, Starts
<1>2. TypeOK /\ [Next]_vars => TypeOK'
  <2> SUFFICES ASSUME TypeOK, [Next]_vars PROVE TypeOK'
    OBVIOUS
  <2>1. ASSUME NEW seq \in Seqs, ObserveSeq(seq) PROVE TypeOK'
    <3>1. seq \in Nat /\ tracker \in TrackerType(Starts)
      BY TrackerAssumption DEF TypeOK, Starts
    <3>2. tracker' \in TrackerType(Starts)
      BY <2>1, <3>1, ObserveType DEF ObserveSeq
    <3>3. events' \in Seq(Event)
      BY <2>1, <3>1, ObserveType DEF ObserveSeq, TypeOK
    <3>4. QED
      BY <3>2, <3>3 DEF TypeOK, Starts
  <2>2. CASE UNCHANGED vars
    BY <2>2 DEF TypeOK, vars
  <2>3. QED
    BY <2>1, <2>2 DEF Next
<1>3. QED
  BY <1>1, <1>2, PTL DEF Spec

-----------------------------------------------------------------------------
(* The inductive invariant *)

\* Everything below the largest number was seen, lies in a gap that is still
\* open, or is below the first number.
Balance ==
  IF tracker.maxSeen = None
  THEN events = <<>> /\ tracker.gapCount = 0 /\ tracker.outOfOrder = 0
  ELSE /\ events # <<>>
       /\ tracker.maxSeen + 1 - UniqueReceived(tracker) =
            tracker.gapCount - tracker.outOfOrder + events[1].seq

IInv == TypeOK /\ Extremes(tracker) /\ CountersMatchEvents /\ Balance

-----------------------------------------------------------------------------
(* The invariant is inductive *)

\* CountersMatchEvents is kept by a call of observe().
LEMMA CountersStep ==
  ASSUME TypeOK, Extremes(tracker), CountersMatchEvents,
         NEW seq \in Seqs, ObserveSeq(seq)
  PROVE  CountersMatchEvents'
<1> DEFINE e == EventFor(tracker, seq)
           n == Len(events) + 1
<1>1. /\ tracker \in TrackerType(Starts) /\ seq \in Nat
      /\ events \in Seq(Event) /\ e \in Event
  BY TrackerAssumption, ObserveType DEF TypeOK, Starts
<1>2. tracker' = Observe(tracker, seq) /\ events' = Append(events, e)
  BY DEF ObserveSeq
<1>3. /\ Len(events) \in Nat /\ DOMAIN events = 1 .. Len(events)
      /\ DOMAIN events' = 1 .. n /\ Len(events') = n
      /\ events'[n] = e
      /\ \A i \in 1 .. Len(events) : events'[i] = events[i]
  BY <1>1, <1>2
<1>4. /\ IsFiniteSet(FlaggedDuplicate) /\ n \notin FlaggedDuplicate
      /\ IsFiniteSet(FlaggedOutOfOrder) /\ n \notin FlaggedOutOfOrder
      /\ IsFiniteSet(FlaggedGap) /\ n \notin FlaggedGap
  <2>1. IsFiniteSet(1 .. Len(events)) /\ n \notin 1 .. Len(events)
    BY <1>3, FS_Interval
  <2>2. /\ FlaggedDuplicate \subseteq 1 .. Len(events)
        /\ FlaggedOutOfOrder \subseteq 1 .. Len(events)
        /\ FlaggedGap \subseteq 1 .. Len(events)
    BY <1>3 DEF FlaggedDuplicate, FlaggedOutOfOrder, FlaggedGap
  <2>3. QED
    BY <2>1, <2>2, FS_Subset
<1>5. /\ FlaggedDuplicate' =
           IF e.duplicate THEN FlaggedDuplicate \cup {n} ELSE FlaggedDuplicate
      /\ FlaggedOutOfOrder' =
           IF e.outOfOrder THEN FlaggedOutOfOrder \cup {n} ELSE FlaggedOutOfOrder
      /\ FlaggedGap' = IF e.lostGap THEN FlaggedGap \cup {n} ELSE FlaggedGap
  <2>1. 1 .. n = (1 .. Len(events)) \cup {n}
    BY <1>3
  <2>2. FlaggedDuplicate' =
          IF e.duplicate THEN FlaggedDuplicate \cup {n} ELSE FlaggedDuplicate
    BY <1>3, <2>1 DEF FlaggedDuplicate
  <2>3. FlaggedOutOfOrder' =
          IF e.outOfOrder THEN FlaggedOutOfOrder \cup {n} ELSE FlaggedOutOfOrder
    BY <1>3, <2>1 DEF FlaggedOutOfOrder
  <2>4. FlaggedGap' = IF e.lostGap THEN FlaggedGap \cup {n} ELSE FlaggedGap
    BY <1>3, <2>1 DEF FlaggedGap
  <2>5. QED
    BY <2>2, <2>3, <2>4
<1>6. e.duplicate \in BOOLEAN /\ e.outOfOrder \in BOOLEAN /\ e.lostGap \in BOOLEAN
  BY <1>1 DEF Event
<1>7. Cardinality(FlaggedDuplicate') =
        Cardinality(FlaggedDuplicate) + (IF e.duplicate THEN 1 ELSE 0)
  BY <1>4, <1>5, <1>6, CardinalityStep
<1>8. Cardinality(FlaggedOutOfOrder') =
        Cardinality(FlaggedOutOfOrder) + (IF e.outOfOrder THEN 1 ELSE 0)
  BY <1>4, <1>5, <1>6, CardinalityStep
<1>9. Cardinality(FlaggedGap') =
        Cardinality(FlaggedGap) + (IF e.lostGap THEN 1 ELSE 0)
  BY <1>4, <1>5, <1>6, CardinalityStep
<1>10. /\ tracker'.duplicates = tracker.duplicates + (IF e.duplicate THEN 1 ELSE 0)
       /\ tracker'.outOfOrder = tracker.outOfOrder + (IF e.outOfOrder THEN 1 ELSE 0)
       /\ tracker'.gapEvents = tracker.gapEvents + (IF e.lostGap THEN 1 ELSE 0)
       /\ UniqueReceived(tracker') =
            UniqueReceived(tracker) + (IF e.duplicate THEN 0 ELSE 1)
  BY <1>1, <1>2, ObserveCounts
<1>11. /\ tracker'.duplicates = Cardinality(FlaggedDuplicate')
       /\ tracker'.outOfOrder = Cardinality(FlaggedOutOfOrder')
       /\ tracker'.gapEvents = Cardinality(FlaggedGap')
  BY <1>7, <1>8, <1>9, <1>10 DEF CountersMatchEvents
<1>12. UniqueReceived(tracker) \in Nat /\ tracker.duplicates \in Nat
  BY <1>1, FS_CardinalityType DEF Extremes, UniqueReceived, TrackerType
<1>13. Len(events') = UniqueReceived(tracker') + tracker'.duplicates
  BY <1>3, <1>6, <1>10, <1>12 DEF CountersMatchEvents
<1>14. QED
  BY <1>11, <1>13 DEF CountersMatchEvents

\* Balance is kept by a call of observe().
LEMMA BalanceStep ==
  ASSUME TypeOK, Extremes(tracker), CountersMatchEvents, Balance,
         NEW seq \in Seqs, ObserveSeq(seq)
  PROVE  Balance'
<1> DEFINE e == EventFor(tracker, seq)
<1>1. /\ tracker \in TrackerType(Starts) /\ seq \in Nat
      /\ events \in Seq(Event) /\ e \in Event /\ e.seq = seq
  BY TrackerAssumption, ObserveType DEF TypeOK, Starts, EventFor
<1>2. tracker' = Observe(tracker, seq) /\ events' = Append(events, e)
  BY DEF ObserveSeq
<1>3. /\ events' # <<>>
      /\ events = <<>> => events'[1].seq = seq
      /\ events # <<>> => events'[1] = events[1]
  BY <1>1, <1>2
<1>4. /\ UniqueReceived(tracker) \in Nat
      /\ tracker.gapCount \in Nat /\ tracker.outOfOrder \in Nat
      /\ tracker.duplicates \in Nat
  BY <1>1, FS_CardinalityType DEF Extremes, UniqueReceived, TrackerType
<1>5. /\ tracker'.outOfOrder = tracker.outOfOrder + (IF e.outOfOrder THEN 1 ELSE 0)
      /\ tracker'.gapCount = tracker.gapCount + e.gapSize
      /\ UniqueReceived(tracker') =
           UniqueReceived(tracker) + (IF e.duplicate THEN 0 ELSE 1)
  BY <1>1, <1>2, ObserveCounts
<1>6. tracker'.maxSeen # None
  BY <1>1, <1>2, ObserveSees
<1>7. SUFFICES tracker'.maxSeen + 1 - UniqueReceived(tracker') =
                 tracker'.gapCount - tracker'.outOfOrder + events'[1].seq
  BY <1>3, <1>6 DEF Balance
<1>8. CASE tracker.maxSeen = None
  <2>1. UniqueReceived(tracker) = 0
    BY <1>8, FS_EmptySet DEF Extremes, UniqueReceived
  <2>2. events = <<>> /\ tracker.gapCount = 0 /\ tracker.outOfOrder = 0
    BY <1>8 DEF Balance
  <2>3. /\ tracker'.maxSeen = seq
        /\ e.duplicate = FALSE /\ e.outOfOrder = FALSE /\ e.gapSize = 0
    BY <1>1, <1>2, <1>8, ObserveFirst
  <2>4. /\ tracker'.outOfOrder = 0 /\ tracker'.gapCount = 0
        /\ UniqueReceived(tracker') = 1 /\ events'[1].seq = seq
    BY <1>3, <1>5, <2>1, <2>2, <2>3
  <2>5. QED
    BY <1>1, <2>3, <2>4
<1>9. CASE tracker.maxSeen # None
  <2>0. events # <<>>
    BY <1>9 DEF Balance
  <2>1. tracker.maxSeen + 1 - UniqueReceived(tracker) =
          tracker.gapCount - tracker.outOfOrder + events[1].seq
    BY <1>9 DEF Balance
  <2>2. tracker.maxSeen \in Nat /\ events'[1].seq = events[1].seq
    BY <1>1, <1>3, <1>9, <2>0, ExtremesAreNat
  <2>3. events[1].seq \in Nat
    <3>1. 1 \in 1 .. Len(events)
      BY <1>1, <2>0
    <3>2. events[1] \in Event
      BY <1>1, <3>1
    <3>3. QED
      BY <3>2 DEF Event
  <2>4. CASE e.duplicate
    <3>1. /\ tracker'.maxSeen = tracker.maxSeen
          /\ e.outOfOrder = FALSE /\ e.gapSize = 0
      BY <1>1, <1>2, <1>9, <2>4, ObserveEnds
    <3>2. /\ tracker'.outOfOrder = tracker.outOfOrder
          /\ tracker'.gapCount = tracker.gapCount
          /\ UniqueReceived(tracker') = UniqueReceived(tracker)
      BY <1>4, <1>5, <2>4, <3>1
    <3>3. QED
      BY <1>4, <2>1, <2>2, <2>3, <3>1, <3>2
  <2>5. CASE ~e.duplicate /\ seq < tracker.maxSeen
    <3>1. /\ tracker'.maxSeen = tracker.maxSeen
          /\ e.outOfOrder = TRUE /\ e.gapSize = 0
      BY <1>1, <1>2, <1>9, <2>5, ObserveEnds
    <3>2. /\ tracker'.outOfOrder = tracker.outOfOrder + 1
          /\ tracker'.gapCount = tracker.gapCount
          /\ UniqueReceived(tracker') = UniqueReceived(tracker) + 1
      BY <1>4, <1>5, <2>5, <3>1
    <3>3. QED
      BY <1>4, <2>1, <2>2, <2>3, <3>1, <3>2
  <2>6. CASE ~e.duplicate /\ ~(seq < tracker.maxSeen)
    <3>1. PICK gap \in Int : gap = seq - tracker.maxSeen - 1
      BY <1>1, <2>2
    <3>2. /\ tracker'.maxSeen = seq
          /\ e.outOfOrder = FALSE /\ e.gapSize = seq - tracker.maxSeen - 1
      BY <1>1, <1>2, <1>9, <2>6, ObserveEnds
    <3>3. /\ tracker'.maxSeen = tracker.maxSeen + gap + 1
          /\ e.gapSize = gap
      BY <1>1, <2>2, <3>1, <3>2
    <3>4. /\ tracker'.outOfOrder = tracker.outOfOrder
          /\ tracker'.gapCount = tracker.gapCount + gap
          /\ UniqueReceived(tracker') = UniqueReceived(tracker) + 1
      BY <1>4, <1>5, <2>6, <3>2, <3>3
    <3>5. tracker'.maxSeen + 1 - UniqueReceived(tracker') =
            tracker.maxSeen + 1 - UniqueReceived(tracker) + gap
      BY <1>4, <2>2, <3>3, <3>4
    <3>6. tracker'.gapCount - tracker'.outOfOrder + events'[1].seq =
            tracker.gapCount - tracker.outOfOrder + events[1].seq + gap
      BY <1>4, <2>2, <2>3, <3>4
    <3>7. QED
      BY <2>1, <3>5, <3>6
  <2>7. QED
    BY <2>4, <2>5, <2>6
<1>10. QED
  BY <1>8, <1>9

\* IInv holds throughout.
THEOREM Inductive == Spec => []IInv
<1>1. Init => IInv
  <2> SUFFICES ASSUME Init PROVE IInv
    OBVIOUS
  <2>1. PICK start \in ExpectedStarts : tracker = NewTracker(start)
    BY DEF Init
  <2>2. /\ tracker.seen = {} /\ tracker.minSeen = None /\ tracker.maxSeen = None
        /\ tracker.duplicates = 0 /\ tracker.outOfOrder = 0
        /\ tracker.gapEvents = 0 /\ tracker.gapCount = 0
    BY <2>1 DEF NewTracker
  <2>3. TypeOK
    BY <2>1, TrackerAssumption DEF Init, TypeOK, NewTracker, TrackerType
  <2>4. Extremes(tracker)
    BY <2>2, FS_EmptySet DEF Extremes
  <2>5. events = <<>>
    BY DEF Init
  <2>6. FlaggedDuplicate = {} /\ FlaggedOutOfOrder = {} /\ FlaggedGap = {}
    BY <2>5 DEF FlaggedDuplicate, FlaggedOutOfOrder, FlaggedGap
  <2>7. CountersMatchEvents
    BY <2>2, <2>5, <2>6, FS_EmptySet DEF CountersMatchEvents, UniqueReceived
  <2>8. QED
    BY <2>2, <2>3, <2>4, <2>5, <2>7 DEF IInv, Balance
<1>2. IInv /\ TypeOK' /\ [Next]_vars => IInv'
  <2> SUFFICES ASSUME IInv, TypeOK', [Next]_vars PROVE IInv'
    OBVIOUS
  <2>1. ASSUME NEW seq \in Seqs, ObserveSeq(seq) PROVE IInv'
    <3>1. Extremes(tracker')
      BY <2>1, TrackerAssumption, ObserveExtremes
      DEF IInv, TypeOK, Starts, ObserveSeq
    <3>2. CountersMatchEvents'
      BY <2>1, CountersStep DEF IInv
    <3>3. Balance'
      BY <2>1, BalanceStep DEF IInv
    <3>4. QED
      BY <3>1, <3>2, <3>3 DEF IInv
  <2>2. CASE UNCHANGED vars
    BY <2>2 DEF vars, IInv, TypeOK, Extremes, CountersMatchEvents, Balance,
                FlaggedDuplicate, FlaggedOutOfOrder, FlaggedGap
  <2>3. QED
    BY <2>1, <2>2 DEF Next
<1>3. QED
  BY <1>1, <1>2, TypeCorrect, PTL DEF Spec

\* The counters agree with the events, for any calls of observe().
THEOREM CountersCorrect == Spec => []CountersMatchEvents
<1>1. IInv => CountersMatchEvents
  BY DEF IInv
<1>2. QED
  BY <1>1, Inductive, PTL

\* The loss counted at the end reconciles with the loss counted online, and
\* the inferred number sent with what was received and lost.
THEOREM LossReconciled == Spec => []LossReconciles
<1>1. IInv => LossReconciles
  <2> SUFFICES ASSUME IInv, tracker.maxSeen # None, StartsInRange
               PROVE  /\ FinalLoss(tracker) =
                           tracker.gapCount - tracker.outOfOrder
                             + events[1].seq - RangeStart(tracker)
                      /\ InferredSent(tracker) =
                           UniqueReceived(tracker) + FinalLoss(tracker)
    BY DEF LossReconciles
  <2>1. tracker \in TrackerType(Starts) /\ Extremes(tracker)
    BY DEF IInv, TypeOK, Starts
  <2>2. RangeStart(tracker) <= tracker.minSeen
    BY DEF StartsInRange
  <2>3. /\ tracker.minSeen \in Nat /\ tracker.maxSeen \in Nat
        /\ UniqueReceived(tracker) \in Nat
    BY <2>1, ExtremesAreNat
  <2>4. RangeStart(tracker) \in Nat
    BY <2>1, <2>3 DEF RangeStart, TrackerType, Starts
  <2>5. /\ FinalLoss(tracker) =
             tracker.maxSeen - RangeStart(tracker) + 1 - UniqueReceived(tracker)
        /\ InferredSent(tracker) = tracker.maxSeen - RangeStart(tracker) + 1
    BY <2>1, <2>2, LossFormula
  <2>6. tracker.maxSeen + 1 - UniqueReceived(tracker) =
          tracker.gapCount - tracker.outOfOrder + events[1].seq
    BY DEF IInv, Balance
  <2>7. events[1].seq \in Nat /\ tracker.gapCount \in Nat /\ tracker.outOfOrder \in Nat
    <3>1. events \in Seq(Event) /\ events # <<>>
      BY DEF IInv, TypeOK, Balance
    <3>2. events[1] \in Event
      BY <3>1
    <3>3. QED
      BY <2>1, <3>2 DEF Event, TrackerType
  <2>8. QED
    BY <2>3, <2>4, <2>5, <2>6, <2>7
<1>2. QED
  BY <1>1, Inductive, PTL

\* Each call of observe() moves the final loss as LossStep says: the inductive
\* invariant makes LossFormula available on both sides of the step.
THEOREM LossMoves == Spec => LossMovesByStep
<1>1. IInv /\ IInv' /\ [Next]_vars => [LossStep]_vars
  <2> SUFFICES ASSUME IInv, IInv', NEW seq \in Seqs, ObserveSeq(seq),
                      tracker.expectedStart = None, tracker.maxSeen # None
               PROVE  LET e == events'[Len(events')]
                      IN  FinalLoss(tracker') =
                            IF e.duplicate THEN FinalLoss(tracker)
                            ELSE IF e.seq > tracker.maxSeen
                                 THEN FinalLoss(tracker) + e.gapSize
                            ELSE IF e.seq < tracker.minSeen
                                 THEN FinalLoss(tracker) + (tracker.minSeen - e.seq - 1)
                            ELSE FinalLoss(tracker) - 1
    BY DEF Next, LossStep
  <2> DEFINE e == EventFor(tracker, seq)
  <2>1. /\ tracker \in TrackerType(Starts) /\ seq \in Nat /\ Extremes(tracker)
        /\ events \in Seq(Event) /\ e \in Event /\ e.seq = seq
    BY TrackerAssumption, ObserveType DEF IInv, TypeOK, Starts, EventFor
  <2>2. /\ tracker' = Observe(tracker, seq)
        /\ tracker' \in TrackerType(Starts) /\ Extremes(tracker')
        /\ events'[Len(events')] = e
    BY <2>1 DEF ObserveSeq, IInv, TypeOK, Starts
  <2>3. tracker'.expectedStart = None
    BY <2>1, <2>2 DEF Observe, TrackerType
  <2>4. /\ tracker.minSeen \in Nat /\ tracker.maxSeen \in Nat
        /\ tracker.minSeen <= tracker.maxSeen
        /\ UniqueReceived(tracker) \in Nat
    BY <2>1, ExtremesAreNat
  <2>5. /\ FinalLoss(tracker) =
             tracker.maxSeen - tracker.minSeen + 1 - UniqueReceived(tracker)
        /\ FinalLoss(tracker) \in Int
    BY <2>1, <2>4, LossFormula DEF RangeStart
  <2>6. tracker'.maxSeen # None
    BY <2>1, <2>2, ObserveSees
  <2>7. /\ tracker'.minSeen \in Nat /\ tracker'.maxSeen \in Nat
        /\ UniqueReceived(tracker') \in Nat
    BY <2>2, <2>6, ExtremesAreNat
  <2>8. FinalLoss(tracker') =
          tracker'.maxSeen - tracker'.minSeen + 1 - UniqueReceived(tracker')
    BY <2>2, <2>3, <2>6, <2>7, LossFormula DEF RangeStart
  <2>9. UniqueReceived(tracker') =
          UniqueReceived(tracker) + (IF e.duplicate THEN 0 ELSE 1)
    BY <2>1, <2>2, ObserveCounts
  <2>10. CASE e.duplicate
    <3>1. tracker'.minSeen = tracker.minSeen /\ tracker'.maxSeen = tracker.maxSeen
      BY <2>1, <2>2, <2>10, ObserveEnds
    <3>2. UniqueReceived(tracker') = UniqueReceived(tracker)
      BY <2>4, <2>9, <2>10
    <3>3. FinalLoss(tracker') = FinalLoss(tracker)
      BY <2>5, <2>8, <3>1, <3>2
    <3>4. QED
      BY <2>2, <2>10, <3>3
  <2>11. CASE ~e.duplicate /\ seq < tracker.maxSeen
    <3>1. /\ tracker'.minSeen = IF seq < tracker.minSeen THEN seq ELSE tracker.minSeen
          /\ tracker'.maxSeen = tracker.maxSeen
      BY <2>1, <2>2, <2>11, ObserveEnds
    <3>2. UniqueReceived(tracker') = UniqueReceived(tracker) + 1
      BY <2>4, <2>9, <2>11
    <3>3. ~(seq > tracker.maxSeen)
      BY <2>1, <2>4, <2>11
    <3>4. CASE seq < tracker.minSeen
      <4>1. tracker'.minSeen = seq
        BY <3>1, <3>4
      <4>2. FinalLoss(tracker') = tracker.maxSeen - seq - UniqueReceived(tracker)
        BY <2>1, <2>4, <2>8, <3>1, <3>2, <4>1
      <4>3. (tracker.maxSeen - tracker.minSeen + 1 - UniqueReceived(tracker))
              + (tracker.minSeen - seq - 1) =
            tracker.maxSeen - seq - UniqueReceived(tracker)
        <5> DEFINE a == tracker.minSeen
                   b == tracker.maxSeen
                   u == UniqueReceived(tracker)
        <5>1. seq \in Int /\ a \in Int /\ b \in Int /\ u \in Int
          BY <2>1, <2>4
        <5> HIDE DEF a, b, u
        <5>2. (b - a + 1 - u) + (a - seq - 1) = b - seq - u
          BY <5>1
        <5>3. QED
          BY <5>2 DEF a, b, u
      <4>4. FinalLoss(tracker') = FinalLoss(tracker) + (tracker.minSeen - seq - 1)
        BY <2>5, <4>2, <4>3
      <4>5. QED
        BY <2>1, <2>2, <2>11, <3>3, <3>4, <4>4
    <3>5. CASE ~(seq < tracker.minSeen)
      <4>1. tracker'.minSeen = tracker.minSeen
        BY <3>1, <3>5
      <4>2. FinalLoss(tracker') = FinalLoss(tracker) - 1
        BY <2>4, <2>5, <2>8, <3>1, <3>2, <4>1
      <4>3. QED
        BY <2>1, <2>2, <2>11, <3>3, <3>5, <4>2
    <3>6. QED
      BY <3>4, <3>5
  <2>12. CASE ~e.duplicate /\ ~(seq < tracker.maxSeen)
    <3>1. /\ tracker'.minSeen = tracker.minSeen
          /\ tracker'.maxSeen = seq
          /\ e.gapSize = seq - tracker.maxSeen - 1
          /\ seq > tracker.maxSeen
      BY <2>1, <2>2, <2>12, ObserveEnds
    <3>2. UniqueReceived(tracker') = UniqueReceived(tracker) + 1
      BY <2>4, <2>9, <2>12
    <3>3. FinalLoss(tracker') = seq - tracker.minSeen - UniqueReceived(tracker)
      BY <2>1, <2>4, <2>8, <3>1, <3>2
    <3>4. (tracker.maxSeen - tracker.minSeen + 1 - UniqueReceived(tracker))
            + (seq - tracker.maxSeen - 1) =
          seq - tracker.minSeen - UniqueReceived(tracker)
      <4> DEFINE a == tracker.minSeen
                 b == tracker.maxSeen
                 u == UniqueReceived(tracker)
      <4>1. seq \in Int /\ a \in Int /\ b \in Int /\ u \in Int
        BY <2>1, <2>4
      <4> HIDE DEF a, b, u
      <4>2. (b - a + 1 - u) + (seq - b - 1) = seq - a - u
        BY <4>1
      <4>3. QED
        BY <4>2 DEF a, b, u
    <3>5. FinalLoss(tracker') = FinalLoss(tracker) + e.gapSize
      BY <2>5, <3>1, <3>3, <3>4
    <3>6. QED
      BY <2>1, <2>2, <2>12, <3>1, <3>5
  <2>13. QED
    BY <2>10, <2>11, <2>12
<1>2. QED
  BY <1>1, Inductive, PTL DEF Spec, LossMovesByStep

-----------------------------------------------------------------------------
(* The refinement of SequenceAudit *)

\* The sequence that the audit sees.
Arrived == [i \in DOMAIN events |-> events[i].seq]

\* What the tracker keeps, said of the numbers that arrived: the set it keeps
\* is that of the numbers, the flag of every event is the audit's verdict on
\* the number at that place, and the numbers counted as gaps are those leapt
\* over, all of them below the largest number.
AuditInv ==
  /\ tracker.seen = Audit!SeqsOf(Arrived)
  /\ \A i \in DOMAIN events :
       /\ events[i].duplicate <=> Audit!Again(Arrived, i)
       /\ events[i].outOfOrder <=> Audit!Late(Arrived, i)
       /\ events[i].lostGap <=> Audit!Jump(Arrived, i)
  /\ IsFiniteSet(Audit!Leapt(Arrived))
  /\ tracker.gapCount = Cardinality(Audit!Leapt(Arrived))
  /\ \A n \in Audit!Leapt(Arrived) : n <= tracker.maxSeen

\* The report that the audit is to find in the tracker.
Report ==
  [ received   |-> Len(events),
    unique     |-> UniqueReceived(tracker),
    duplicates |-> tracker.duplicates,
    outOfOrder |-> tracker.outOfOrder,
    gapEvents  |-> tracker.gapEvents,
    gapCount   |-> tracker.gapCount,
    sent       |-> InferredSent(tracker),
    lost       |-> FinalLoss(tracker) ]

\* The audit counts the elements of a set as the tracker does.
LEMMA SameCardinality ==
  ASSUME NEW S
  PROVE  Audit!Cardinality(S) = Cardinality(S)
  BY DEF Audit!Cardinality, Cardinality

\* A greatest element of a set of integers is its Max.
LEMMA GreatestIsMax ==
  ASSUME NEW S \in SUBSET Int, NEW m \in S, \A n \in S : n <= m
  PROVE  Audit!Max(S) = m
<1>1. \A y \in S : m >= y
  OBVIOUS
<1>2. \A x \in S : (\A y \in S : x >= y) => x = m
  OBVIOUS
<1>3. QED
  BY <1>1, <1>2, Zenon DEF Audit!Max

\* A least element of a set of integers is its Min.
LEMMA LeastIsMin ==
  ASSUME NEW S \in SUBSET Int, NEW m \in S, \A n \in S : m <= n
  PROVE  Audit!Min(S) = m
<1>1. \A x \in S : (\A y \in S : x <= y) => x = m
  OBVIOUS
<1>2. QED
  BY <1>1, Zenon DEF Audit!Min

\* An arrival changes nothing of what came before it.
LEMMA ArrivalAppends ==
  ASSUME NEW a \in Seq(Nat), NEW s \in Nat
  PROVE  LET b == Append(a, s)
             n == Len(a) + 1
         IN  /\ \A i \in 1 .. Len(a) :
                  b[i] = a[i] /\ Audit!Earlier(b, i) = Audit!Earlier(a, i)
             /\ b[n] = s /\ Audit!Earlier(b, n) = Audit!SeqsOf(a)
             /\ Audit!SeqsOf(b) = Audit!SeqsOf(a) \cup {s}
<1> DEFINE b == Append(a, s)
           n == Len(a) + 1
<1>1. /\ Len(a) \in Nat /\ DOMAIN a = 1 .. Len(a)
      /\ DOMAIN b = 1 .. n /\ b[n] = s
      /\ \A i \in 1 .. Len(a) : b[i] = a[i]
  OBVIOUS
<1> HIDE DEF b
<1>2. ASSUME NEW i \in 1 .. Len(a)
      PROVE  Audit!Earlier(b, i) = Audit!Earlier(a, i)
  <2>1. \A j \in 1 .. i - 1 : b[j] = a[j]
    BY <1>1
  <2>2. QED
    BY <2>1 DEF Audit!Earlier
<1>3. Audit!Earlier(b, n) = Audit!SeqsOf(a)
  <2>1. 1 .. n - 1 = DOMAIN a
    BY <1>1
  <2>2. QED
    BY <1>1, <2>1 DEF Audit!Earlier, Audit!SeqsOf
<1>4. Audit!SeqsOf(b) = Audit!SeqsOf(a) \cup {s}
  <2>1. 1 .. n = (1 .. Len(a)) \cup {n}
    BY <1>1
  <2>2. QED
    BY <1>1, <2>1 DEF Audit!SeqsOf
<1>5. QED
  BY <1>1, <1>2, <1>3, <1>4 DEF b

\* The numbers leapt over are integers.
LEMMA LeaptAreInts ==
  ASSUME NEW a \in Seq(Nat)
  PROVE  Audit!Leapt(a) \subseteq Int
  BY DEF Audit!Leapt, Audit!LeaptAt

\* The numbers leapt over grow by those that the arrival leaps over.
LEMMA ArrivalLeaps ==
  ASSUME NEW a \in Seq(Nat), NEW s \in Nat
  PROVE  LET b == Append(a, s)
         IN  /\ a = <<>> => Audit!Leapt(b) = {}
             /\ a # <<>> => Audit!Leapt(b) = Audit!Leapt(a)
                              \cup (Audit!Max(Audit!SeqsOf(a)) + 1 .. s - 1)
<1> DEFINE b == Append(a, s)
           n == Len(a) + 1
<1>1. Len(a) \in Nat /\ Len(b) = n
  OBVIOUS
<1>2. /\ \A i \in 1 .. Len(a) :
           b[i] = a[i] /\ Audit!Earlier(b, i) = Audit!Earlier(a, i)
      /\ b[n] = s /\ Audit!Earlier(b, n) = Audit!SeqsOf(a)
  BY ArrivalAppends
<1> HIDE DEF b
<1>3. \A i \in 2 .. Len(a) : Audit!LeaptAt(b, i) = Audit!LeaptAt(a, i)
  BY <1>1, <1>2 DEF Audit!LeaptAt
<1>4. Audit!LeaptAt(b, n) = Audit!Max(Audit!SeqsOf(a)) + 1 .. s - 1
  BY <1>2 DEF Audit!LeaptAt
<1>5. CASE a = <<>>
  <2>1. 2 .. Len(b) = {}
    BY <1>1, <1>5
  <2>2. Audit!Leapt(b) = {}
    BY <2>1 DEF Audit!Leapt
  <2>3. QED
    BY <1>5, <2>2 DEF b
<1>6. CASE a # <<>>
  <2>1. Len(a) # 0
    BY <1>6
  <2>2. 2 .. Len(b) = (2 .. Len(a)) \cup {n}
    BY <1>1, <2>1
  <2>3. Audit!Leapt(b) = Audit!Leapt(a) \cup Audit!LeaptAt(b, n)
    BY <1>3, <2>2 DEF Audit!Leapt
  <2>4. QED
    BY <1>4, <1>6, <2>3 DEF b
<1>7. QED
  BY <1>5, <1>6

\* The numbers that arrived are a sequence of naturals, as long as the events.
LEMMA ArrivedType ==
  ASSUME events \in Seq(Event)
  PROVE  /\ Arrived \in Seq(Nat) /\ Len(Arrived) = Len(events)
         /\ \A i \in 1 .. Len(events) : Arrived[i] = events[i].seq
<1>1. Len(events) \in Nat /\ DOMAIN events = 1 .. Len(events)
  BY LenProperties
<1>2. \A i \in 1 .. Len(events) : events[i].seq \in Nat
  <2>1. \A i \in 1 .. Len(events) : events[i] \in Event
    BY ElementOfSeq
  <2>2. QED
    BY <2>1 DEF Event
<1>3. Arrived = [i \in 1 .. Len(events) |-> events[i].seq]
  BY <1>1 DEF Arrived
<1>4. Arrived \in [1 .. Len(events) -> Nat]
  BY <1>2, <1>3
<1>5. Arrived \in Seq(Nat) /\ Len(Arrived) = Len(events)
  BY <1>1, <1>4
<1>6. QED
  BY <1>3, <1>5

\* An observation appends its number to those that arrived.
LEMMA ArrivedStep ==
  ASSUME events \in Seq(Event), events' \in Seq(Event),
         NEW e \in Event, events' = Append(events, e)
  PROVE  Arrived' = Append(Arrived, e.seq)
<1>1. /\ Arrived \in Seq(Nat) /\ Len(Arrived) = Len(events)
      /\ \A i \in 1 .. Len(events) : Arrived[i] = events[i].seq
  BY ArrivedType
<1>2. /\ Len(events) \in Nat
      /\ DOMAIN events' = 1 .. Len(events) + 1
      /\ events'[Len(events) + 1] = e
      /\ \A i \in 1 .. Len(events) : events'[i] = events[i]
  BY AppendProperties, LenProperties
<1>3. Arrived' = [i \in 1 .. Len(events) + 1 |-> events'[i].seq]
  BY <1>2 DEF Arrived
<1>4. e.seq \in Nat
  BY DEF Event
<1> DEFINE b == Append(Arrived, e.seq)
<1>5. /\ b \in Seq(Nat) /\ Len(b) = Len(events) + 1
      /\ b[Len(events) + 1] = e.seq
      /\ \A i \in 1 .. Len(events) : b[i] = Arrived[i]
  BY <1>1, <1>4, AppendProperties
<1>6. b \in [1 .. Len(events) + 1 -> Nat]
  BY <1>5, LenProperties
<1> HIDE DEF b
<1>7. \A i \in 1 .. Len(events) + 1 : b[i] = events'[i].seq
  BY <1>1, <1>2, <1>5
<1>8. QED
  BY <1>3, <1>6, <1>7 DEF b

\* The numbers seen, the verdicts on the earlier numbers and the verdict on a
\* new one, after a call of observe().
LEMMA VerdictsStep ==
  ASSUME IInv, IInv', AuditInv, NEW seq \in Seqs, ObserveSeq(seq)
  PROVE  /\ tracker'.seen = Audit!SeqsOf(Arrived')
         /\ \A i \in DOMAIN events' :
              /\ events'[i].duplicate <=> Audit!Again(Arrived', i)
              /\ events'[i].outOfOrder <=> Audit!Late(Arrived', i)
              /\ events'[i].lostGap <=> Audit!Jump(Arrived', i)
<1> DEFINE e == EventFor(tracker, seq)
           n == Len(events) + 1
<1>1. /\ tracker \in TrackerType(Starts) /\ seq \in Nat /\ Extremes(tracker)
      /\ events \in Seq(Event) /\ e \in Event /\ e.seq = seq
      /\ events' \in Seq(Event)
  BY TrackerAssumption, ObserveType DEF IInv, TypeOK, Starts, EventFor
<1>2. tracker' = Observe(tracker, seq) /\ events' = Append(events, e)
  BY DEF ObserveSeq
<1>3. /\ Len(events) \in Nat /\ DOMAIN events = 1 .. Len(events)
      /\ DOMAIN events' = 1 .. n /\ events'[n] = e
      /\ \A i \in 1 .. Len(events) : events'[i] = events[i]
  BY <1>1, <1>2
<1>4. /\ Arrived \in Seq(Nat) /\ Len(Arrived) = Len(events)
      /\ Arrived' = Append(Arrived, seq)
  BY <1>1, <1>2, ArrivedType, ArrivedStep
<1>5. /\ \A i \in 1 .. Len(events) :
           /\ Arrived'[i] = Arrived[i]
           /\ Audit!Earlier(Arrived', i) = Audit!Earlier(Arrived, i)
      /\ Arrived'[n] = seq
      /\ Audit!Earlier(Arrived', n) = Audit!SeqsOf(Arrived)
      /\ Audit!SeqsOf(Arrived') = Audit!SeqsOf(Arrived) \cup {seq}
  BY <1>1, <1>4, ArrivalAppends
<1>6. tracker.seen = Audit!SeqsOf(Arrived)
  BY DEF AuditInv
<1>7. tracker'.seen = tracker.seen \cup {seq}
  BY <1>1, <1>2 DEF Observe, IsDuplicate, TrackerType
<1>8. ASSUME NEW i \in 1 .. Len(events)
      PROVE  /\ events'[i].duplicate <=> Audit!Again(Arrived', i)
             /\ events'[i].outOfOrder <=> Audit!Late(Arrived', i)
             /\ events'[i].lostGap <=> Audit!Jump(Arrived', i)
  <2>1. /\ events[i].duplicate <=> Audit!Again(Arrived, i)
        /\ events[i].outOfOrder <=> Audit!Late(Arrived, i)
        /\ events[i].lostGap <=> Audit!Jump(Arrived, i)
    BY <1>3 DEF AuditInv
  <2>2. events'[i] = events[i]
    BY <1>3
  <2>3. /\ Audit!Again(Arrived', i) <=> Audit!Again(Arrived, i)
        /\ Audit!Late(Arrived', i) <=> Audit!Late(Arrived, i)
        /\ Audit!Jump(Arrived', i) <=> Audit!Jump(Arrived, i)
    BY <1>5 DEF Audit!Again, Audit!Late, Audit!Jump
  <2>4. QED
    BY <2>1, <2>2, <2>3
<1>9. e.duplicate <=> Audit!Again(Arrived', n)
  BY <1>5, <1>6 DEF EventFor, IsDuplicate, Audit!Again
<1>10. /\ tracker.maxSeen = None <=> events = <<>>
       /\ tracker.maxSeen = None <=> tracker.seen = {}
  BY DEF IInv, Balance, Extremes
<1>11. tracker.maxSeen # None =>
         /\ tracker.maxSeen \in Nat /\ tracker.maxSeen \in tracker.seen
         /\ tracker.seen \subseteq Nat
         /\ \A s \in tracker.seen : s <= tracker.maxSeen
  BY <1>1, ExtremesAreNat DEF Extremes, TrackerType
<1>12. e.outOfOrder <=> Audit!Late(Arrived', n)
  <2>1. Audit!Late(Arrived', n) <=>
          seq \notin tracker.seen /\ \E s \in tracker.seen : s > seq
    BY <1>5, <1>6 DEF Audit!Late, Audit!Again
  <2>2. e.outOfOrder <=>
          seq \notin tracker.seen /\ tracker.maxSeen # None /\ seq < tracker.maxSeen
    BY DEF EventFor, IsOutOfOrder, IsDuplicate
  <2>3. QED
    BY <1>1, <1>10, <1>11, <2>1, <2>2
<1>13. e.lostGap <=> Audit!Jump(Arrived', n)
  <2>1. Audit!Jump(Arrived', n) <=>
          n > 1 /\ \A s \in tracker.seen : s + 1 < seq
    BY <1>5, <1>6 DEF Audit!Jump
  <2>2. e.lostGap <=>
          /\ seq \notin tracker.seen /\ tracker.maxSeen # None
          /\ seq > tracker.maxSeen + 1
    BY DEF EventFor, SkipsAhead, IsDuplicate
  <2>3. n > 1 <=> tracker.maxSeen # None
    <3>1. events = <<>> <=> Len(events) = 0
      BY <1>1
    <3>2. QED
      BY <1>3, <1>10, <3>1
  <2>4. QED
    BY <1>1, <1>11, <2>1, <2>2, <2>3
<1>14. \A i \in 1 .. n : i \in 1 .. Len(events) \/ i = n
  BY <1>3
<1>15. QED
  BY <1>3, <1>5, <1>6, <1>7, <1>8, <1>9, <1>12, <1>13, <1>14

\* What a call of observe() adds to gapCount is how many numbers the arrival
\* leaps over, and those were not leapt over before.
LEMMA LeaptStep ==
  ASSUME IInv, IInv', AuditInv, NEW seq \in Seqs, ObserveSeq(seq)
  PROVE  /\ IsFiniteSet(Audit!Leapt(Arrived'))
         /\ tracker'.gapCount = Cardinality(Audit!Leapt(Arrived'))
         /\ \A n \in Audit!Leapt(Arrived') : n <= tracker'.maxSeen
<1> DEFINE e == EventFor(tracker, seq)
           leapt == Audit!Leapt(Arrived)
<1>1. /\ tracker \in TrackerType(Starts) /\ seq \in Nat /\ Extremes(tracker)
      /\ events \in Seq(Event) /\ e \in Event /\ e.seq = seq
      /\ events' \in Seq(Event)
  BY TrackerAssumption, ObserveType DEF IInv, TypeOK, Starts, EventFor
<1>2. tracker' = Observe(tracker, seq) /\ events' = Append(events, e)
  BY DEF ObserveSeq
<1>3. /\ Arrived \in Seq(Nat) /\ Len(Arrived) = Len(events)
      /\ Arrived' = Append(Arrived, seq)
  BY <1>1, <1>2, ArrivedType, ArrivedStep
<1>4. tracker'.gapCount = tracker.gapCount + e.gapSize
  BY <1>1, <1>2, ObserveCounts
<1>5. CASE tracker.maxSeen = None
  <2>1. events = <<>> /\ tracker.gapCount = 0
    BY <1>5 DEF IInv, Balance
  <2>2. Arrived = <<>>
    BY <1>3, <2>1
  <2>3. Audit!Leapt(Arrived') = {}
    BY <1>1, <1>3, <2>2, ArrivalLeaps
  <2>4. e.gapSize = 0
    BY <1>1, <1>5, ObserveFirst
  <2>5. QED
    BY <1>4, <2>1, <2>3, <2>4, FS_EmptySet
<1>6. CASE tracker.maxSeen # None
  <2> DEFINE max  == tracker.maxSeen
             more == max + 1 .. seq - 1
  <2>1. Arrived # <<>>
    <3>1. Len(events) # 0
      BY <1>1, <1>6 DEF IInv, Balance
    <3>2. QED
      BY <1>3, <3>1
  <2>2. /\ max \in Nat /\ max \in tracker.seen /\ tracker.seen \subseteq Nat
        /\ \A s \in tracker.seen : s <= max
    BY <1>1, <1>6, ExtremesAreNat DEF Extremes, TrackerType
  <2>3. Audit!Max(Audit!SeqsOf(Arrived)) = max
    <3>1. tracker.seen \in SUBSET Int
      BY <2>2
    <3>2. Audit!Max(tracker.seen) = max
      BY <2>2, <3>1, GreatestIsMax
    <3>3. QED
      BY <3>2 DEF AuditInv
  <2>4. Audit!Leapt(Arrived') = leapt \cup more
    BY <1>1, <1>3, <2>1, <2>3, ArrivalLeaps
  <2>5. /\ IsFiniteSet(leapt) /\ tracker.gapCount = Cardinality(leapt)
        /\ \A n \in leapt : n <= max
    BY DEF AuditInv
  <2>6. leapt \cap more = {}
    BY <1>1, <2>2, <2>5
  <2>7. IsFiniteSet(more) /\ Cardinality(more) = IF seq > max + 1 THEN seq - max - 1 ELSE 0
    <3>1. max + 1 \in Int /\ seq - 1 \in Int
      BY <1>1, <2>2
    <3>2. /\ IsFiniteSet(more)
          /\ Cardinality(more) =
               IF max + 1 > seq - 1 THEN 0 ELSE seq - 1 - (max + 1) + 1
      BY <3>1, FS_Interval
    <3>3. QED
      BY <1>1, <2>2, <3>2
  <2>8. e.gapSize = Cardinality(more)
    <3>1. e.gapSize = IF /\ seq \notin tracker.seen /\ tracker.maxSeen # None
                         /\ seq > tracker.maxSeen + 1
                      THEN seq - tracker.maxSeen - 1 ELSE 0
      BY DEF EventFor, GapSize, SkipsAhead, IsDuplicate
    <3>2. seq > max + 1 => seq \notin tracker.seen
      BY <1>1, <2>2
    <3>3. QED
      BY <1>6, <2>7, <3>1, <3>2
  <2>9. /\ IsFiniteSet(leapt \cup more)
        /\ Cardinality(leapt \cup more) = Cardinality(leapt) + Cardinality(more)
    <3>1. /\ IsFiniteSet(leapt \cup more)
          /\ Cardinality(leapt \cup more) =
               Cardinality(leapt) + Cardinality(more) - Cardinality(leapt \cap more)
      BY <2>5, <2>7, FS_Union
    <3>2. Cardinality(leapt \cap more) = 0
      BY <2>6, FS_EmptySet
    <3>3. Cardinality(leapt) \in Nat /\ Cardinality(more) \in Nat
      BY <2>5, <2>7, FS_CardinalityType
    <3>4. QED
      BY <3>1, <3>2, <3>3
  <2>10. tracker'.maxSeen \in Nat /\ max <= tracker'.maxSeen /\ seq <= tracker'.maxSeen
    BY <1>1, <1>2, <1>6, <2>2 DEF Observe, NewMax, Greater, IsDuplicate, TrackerType
  <2>11. \A n \in leapt \cup more : n <= tracker'.maxSeen
    <3>1. \A n \in more : n <= tracker'.maxSeen
      BY <1>1, <2>2, <2>10
    <3>2. \A n \in leapt : n \in Int
      BY <1>3, LeaptAreInts
    <3>3. QED
      BY <2>2, <2>5, <2>10, <3>1, <3>2
  <2>12. QED
    BY <1>4, <2>4, <2>5, <2>8, <2>9, <2>11
<1>7. QED
  BY <1>5, <1>6

\* AuditInv holds throughout.
THEOREM AuditInductive == Spec => []AuditInv
<1>1. Init => AuditInv
  <2> SUFFICES ASSUME Init PROVE AuditInv
    OBVIOUS
  <2>1. events = <<>> /\ tracker.seen = {} /\ tracker.gapCount = 0
    BY DEF Init, NewTracker
  <2>2. Arrived \in Seq(Nat) /\ Len(Arrived) = 0 /\ DOMAIN Arrived = {}
    BY <2>1, ArrivedType, LenProperties
  <2>3. Audit!SeqsOf(Arrived) = {} /\ Audit!Leapt(Arrived) = {}
    BY <2>2 DEF Audit!SeqsOf, Audit!Leapt
  <2>4. DOMAIN events = {}
    BY <2>1
  <2>5. QED
    BY <2>1, <2>3, <2>4, FS_EmptySet DEF AuditInv
<1>2. IInv /\ IInv' /\ AuditInv /\ [Next]_vars => AuditInv'
  <2> SUFFICES ASSUME IInv, IInv', AuditInv, [Next]_vars PROVE AuditInv'
    OBVIOUS
  <2>1. ASSUME NEW seq \in Seqs, ObserveSeq(seq) PROVE AuditInv'
    BY <2>1, VerdictsStep, LeaptStep DEF AuditInv
  <2>2. CASE UNCHANGED vars
    <3>1. Arrived' = Arrived
      BY <2>2 DEF vars, Arrived
    <3>2. QED
      BY <2>2, <3>1 DEF vars, AuditInv
  <2>3. QED
    BY <2>1, <2>2 DEF Next
<1>3. QED
  BY <1>1, <1>2, Inductive, PTL DEF Spec

\* In every state the tracker's counts are those of the audit's report.
LEMMA ReportIsAudited ==
  ASSUME IInv, AuditInv
  PROVE  Report = Audit!ReportOf(tracker.expectedStart, Arrived)
<1> DEFINE from == tracker.expectedStart
           r    == Audit!ReportOf(from, Arrived)
<1>1. /\ tracker \in TrackerType(Starts) /\ Extremes(tracker)
      /\ events \in Seq(Event)
  BY DEF IInv, TypeOK, Starts
<1>2. /\ Arrived \in Seq(Nat) /\ Len(Arrived) = Len(events)
      /\ DOMAIN Arrived = DOMAIN events
  BY <1>1, ArrivedType, LenProperties
<1>3. tracker.duplicates = Audit!CountOf(Audit!Again, Arrived)
  <2>1. FlaggedDuplicate = {i \in DOMAIN Arrived : Audit!Again(Arrived, i)}
    BY <1>2 DEF AuditInv, FlaggedDuplicate
  <2>2. QED
    BY <2>1, SameCardinality DEF IInv, CountersMatchEvents, Audit!CountOf
<1>4. tracker.outOfOrder = Audit!CountOf(Audit!Late, Arrived)
  <2>1. FlaggedOutOfOrder = {i \in DOMAIN Arrived : Audit!Late(Arrived, i)}
    BY <1>2 DEF AuditInv, FlaggedOutOfOrder
  <2>2. QED
    BY <2>1, SameCardinality DEF IInv, CountersMatchEvents, Audit!CountOf
<1>5. tracker.gapEvents = Audit!CountOf(Audit!Jump, Arrived)
  <2>1. FlaggedGap = {i \in DOMAIN Arrived : Audit!Jump(Arrived, i)}
    BY <1>2 DEF AuditInv, FlaggedGap
  <2>2. QED
    BY <2>1, SameCardinality DEF IInv, CountersMatchEvents, Audit!CountOf
<1>6. /\ InferredSent(tracker) = Cardinality(Audit!Expected(from, Arrived))
      /\ FinalLoss(tracker) =
           Cardinality(Audit!Expected(from, Arrived) \ Audit!SeqsOf(Arrived))
  <2>1. tracker.seen = Audit!SeqsOf(Arrived)
    BY DEF AuditInv
  <2>2. tracker.maxSeen = None <=> Arrived = <<>>
    <3>1. tracker.maxSeen = None <=> Len(events) = 0
      BY <1>1 DEF IInv, Balance
    <3>2. QED
      BY <1>2, <3>1
  <2>3. CASE tracker.maxSeen = None
    <3>1. InferredSent(tracker) = 0 /\ FinalLoss(tracker) = 0
      BY <2>3 DEF InferredSent, FinalLoss, NothingInRange
    <3>2. Audit!Expected(from, Arrived) = {}
      BY <2>2, <2>3 DEF Audit!Expected
    <3>3. QED
      BY <3>1, <3>2, FS_EmptySet
  <2>4. CASE tracker.maxSeen # None
    <3> DEFINE first == RangeStart(tracker)
               last  == tracker.maxSeen
    <3>1. /\ tracker.minSeen \in Nat /\ last \in Nat
          /\ tracker.minSeen \in tracker.seen /\ last \in tracker.seen
          /\ tracker.seen \in SUBSET Int
          /\ \A n \in tracker.seen : tracker.minSeen <= n /\ n <= last
      BY <1>1, <2>4, ExtremesAreNat DEF Extremes, TrackerType
    <3>2. /\ Audit!Max(Audit!SeqsOf(Arrived)) = last
          /\ Audit!Min(Audit!SeqsOf(Arrived)) = tracker.minSeen
      BY <2>1, <3>1, GreatestIsMax, LeastIsMin
    <3>3. Audit!Expected(from, Arrived) = first .. last
      BY <2>2, <2>4, <3>2 DEF Audit!Expected, RangeStart
    <3>4. first \in Nat
      BY <1>1, <3>1 DEF RangeStart, TrackerType, Starts
    <3>5. CASE last < first
      <4>1. first .. last = {}
        BY <3>1, <3>4, <3>5
      <4>2. InferredSent(tracker) = 0 /\ FinalLoss(tracker) = 0
        BY <3>5 DEF InferredSent, FinalLoss, NothingInRange
      <4>3. (first .. last) \ Audit!SeqsOf(Arrived) = {}
        BY <4>1
      <4>4. QED
        BY <3>3, <4>1, <4>2, <4>3, FS_EmptySet
    <3>6. CASE ~(last < first)
      <4>1. /\ InferredSent(tracker) = last - first + 1
            /\ FinalLoss(tracker) = Cardinality((first .. last) \ tracker.seen)
        BY <2>4, <3>6 DEF InferredSent, FinalLoss, NothingInRange
      <4>2. Cardinality(first .. last) = last - first + 1
        <5>1. first \in Int /\ last \in Int /\ ~(first > last)
          BY <3>1, <3>4, <3>6
        <5>2. QED
          BY <5>1, FS_Interval
      <4>3. QED
        BY <2>1, <3>3, <4>1, <4>2
    <3>7. QED
      BY <3>5, <3>6
  <2>5. QED
    BY <2>3, <2>4
<1>7. UniqueReceived(tracker) = Cardinality(Audit!SeqsOf(Arrived))
  BY DEF AuditInv, UniqueReceived
<1>8. tracker.gapCount = Cardinality(Audit!Leapt(Arrived))
  BY DEF AuditInv
<1>9. QED
  BY <1>2, <1>3, <1>4, <1>5, <1>6, <1>7, <1>8, SameCardinality
  DEF Report, Audit!ReportOf

\* The tracker implements the audit: for any set of numbers, any start of the
\* range and any number of calls, a state of the tracker maps to the report of
\* the numbers that arrived, and a call of observe() to the arrival of one.
THEOREM TrackerImplementsAudit == Spec => ImplementsAudit
<1> DEFINE Audited == Report = Audit!ReportOf(tracker.expectedStart, Arrived)
<1>1. IInv /\ AuditInv => Audited
  BY ReportIsAudited
<1>2. Init /\ Audited => Audit!Init
  <2> SUFFICES ASSUME Init, Audited PROVE Audit!Init
    OBVIOUS
  <2>1. PICK start \in ExpectedStarts : tracker = NewTracker(start)
    BY DEF Init
  <2>2. tracker.expectedStart \in Nat \cup {None}
    BY <2>1, TrackerAssumption DEF NewTracker
  <2>3. Arrived = <<>>
    <3>1. events = <<>>
      BY DEF Init
    <3>2. Arrived \in Seq(Nat) /\ Len(Arrived) = 0
      BY <3>1, ArrivedType
    <3>3. QED
      BY <3>2
  <2>4. Report = Audit!ReportOf(tracker.expectedStart, <<>>)
    BY <2>3
  <2>5. QED
    BY <2>2, <2>3, <2>4 DEF Audit!Init, Arrived, Report
<1>3. IInv /\ IInv' /\ Audited' /\ [Next]_vars => [Audit!Next]_(Audit!vars)
  <2> SUFFICES ASSUME IInv, IInv', Audited', [Next]_vars
               PROVE  [Audit!Next]_(Audit!vars)
    OBVIOUS
  <2>1. ASSUME NEW seq \in Seqs, ObserveSeq(seq) PROVE Audit!Next
    <3>1. /\ tracker \in TrackerType(Starts) /\ seq \in Nat
          /\ events \in Seq(Event) /\ events' \in Seq(Event)
      BY TrackerAssumption DEF IInv, TypeOK, Starts
    <3>2. /\ tracker' = Observe(tracker, seq)
          /\ events' = Append(events, EventFor(tracker, seq))
      BY <2>1 DEF ObserveSeq
    <3>3. Arrived' = Append(Arrived, seq)
      BY <3>1, <3>2, ObserveType, ArrivedStep DEF EventFor
    <3>4. tracker'.expectedStart = tracker.expectedStart
      BY <3>1, <3>2 DEF Observe, TrackerType
    <3>5. Report' = Audit!ReportOf(tracker.expectedStart, Arrived')
      BY <3>4
    <3>6. Audit!Arrive(seq)
      BY <3>3, <3>4, <3>5 DEF Audit!Arrive, Arrived, Report
    <3>7. QED
      BY <3>6 DEF Audit!Next
  <2>2. CASE UNCHANGED vars
    BY <2>2 DEF vars, Audit!vars, UniqueReceived, InferredSent, FinalLoss,
                NothingInRange, RangeStart
  <2>3. QED
    BY <2>1, <2>2 DEF Next
<1>4. QED
  BY <1>1, <1>2, <1>3, Inductive, AuditInductive, PTL
  DEF Spec, ImplementsAudit, Audit!Spec
=============================================================================

----------------------- MODULE SequenceTrackingLemmas -----------------------
(***************************************************************************)
(* What observe() and the derived counts of a tracker do, whoever owns it. *)
(***************************************************************************)
EXTENDS SequenceTracking, FiniteSetTheorems, TLAPS


Starts == Nat \cup {None}

\* observe() takes trackers to trackers: no counter becomes negative.
LEMMA ObserveType ==
  ASSUME NEW t \in TrackerType(Starts), NEW seq \in Nat
  PROVE  /\ Observe(t, seq) \in TrackerType(Starts)
         /\ EventFor(t, seq) \in Event
<1>1. GapSize(t, seq) \in Nat
  BY NoneAssumption DEF TrackerType, Starts, GapSize, SkipsAhead
<1>2. Observe(t, seq) \in TrackerType(Starts)
  <2>1. CASE IsDuplicate(t, seq)
    BY <2>1 DEF Observe, TrackerType
  <2>2. CASE ~IsDuplicate(t, seq)
    <3>1. /\ Lesser(seq, t.minSeen) \in Nat \cup {None}
          /\ NewMax(seq, t.maxSeen) \in Nat \cup {None}
      BY DEF TrackerType, Lesser, NewMax, Greater
    <3>2. \A n \in Nat, flag \in BOOLEAN : Plus(n, flag) \in Nat
      BY DEF Plus
    <3>3. /\ IsOutOfOrder(t, seq) \in BOOLEAN
          /\ SkipsAhead(t, seq) \in BOOLEAN
      BY DEF IsOutOfOrder, SkipsAhead
    <3>4. /\ Plus(t.outOfOrder, IsOutOfOrder(t, seq)) \in Nat
          /\ Plus(t.gapEvents, SkipsAhead(t, seq)) \in Nat
      BY <3>2, <3>3 DEF TrackerType
    <3>5. QED
      BY <1>1, <2>2, <3>1, <3>4 DEF Observe, TrackerType
  <2>3. QED
    BY <2>1, <2>2
<1>3. EventFor(t, seq) \in Event
  BY <1>1 DEF EventFor, Event, IsDuplicate, IsOutOfOrder, SkipsAhead
<1>4. QED
  BY <1>2, <1>3

-----------------------------------------------------------------------------
(* The ends of the range *)

\* minSeen and maxSeen are the ends of the finite set of numbers seen.
Extremes(t) ==
  /\ IsFiniteSet(t.seen)
  /\ t.minSeen = None <=> t.seen = {}
  /\ t.maxSeen = None <=> t.seen = {}
  /\ t.seen # {} => t.minSeen \in t.seen /\ t.maxSeen \in t.seen
  /\ \A n \in t.seen : t.minSeen <= n /\ n <= t.maxSeen

\* observe() keeps minSeen and maxSeen the extremes of seen.
LEMMA ObserveExtremes ==
  ASSUME NEW t \in TrackerType(Starts), Extremes(t), NEW seq \in Nat
  PROVE  Extremes(Observe(t, seq))
<1> DEFINE u == Observe(t, seq)
<1>1. CASE IsDuplicate(t, seq)
  <2>1. u.seen = t.seen /\ u.minSeen = t.minSeen /\ u.maxSeen = t.maxSeen
    BY <1>1 DEF Observe, TrackerType
  <2>2. QED
    BY <2>1 DEF Extremes
<1>2. CASE ~IsDuplicate(t, seq)
  <2>1. /\ u.seen = t.seen \cup {seq}
        /\ u.minSeen = Lesser(seq, t.minSeen)
        /\ u.maxSeen = Greater(seq, t.maxSeen)
    BY <1>2 DEF Observe, NewMax
  <2>2. IsFiniteSet(u.seen)
    BY <2>1, FS_AddElement DEF Extremes
  <2>3. seq \in u.seen /\ seq \in Int /\ u.seen # {}
    BY <2>1
  <2>4. CASE t.seen = {}
    <3>1. u.minSeen = seq /\ u.maxSeen = seq /\ u.seen = {seq}
      BY <2>1, <2>4 DEF Extremes, Lesser, Greater
    <3>2. seq # None
      BY <2>3, NoneAssumption
    <3>3. QED
      BY <2>2, <3>1, <3>2 DEF Extremes
  <2>5. CASE t.seen # {}
    <3>1. /\ t.minSeen \in t.seen /\ t.maxSeen \in t.seen
          /\ t.seen \subseteq Nat
          /\ \A n \in t.seen : t.minSeen <= n /\ n <= t.maxSeen
      BY <2>5 DEF Extremes, TrackerType
    <3>2. t.minSeen # None /\ t.maxSeen # None
      BY <2>5 DEF Extremes
    <3>3. /\ u.minSeen \in u.seen
          /\ u.maxSeen \in u.seen
          /\ \A n \in u.seen : u.minSeen <= n /\ n <= u.maxSeen
      BY <2>1, <3>1, <3>2 DEF Lesser, Greater
    <3>4. u.minSeen # None /\ u.maxSeen # None
      BY <2>1, <3>1, <3>3, NoneAssumption
    <3>5. QED
      BY <2>2, <2>3, <3>3, <3>4 DEF Extremes
  <2>6. QED
    BY <2>4, <2>5
<1>3. QED
  BY <1>1, <1>2

\* After a call of observe() some number has been seen.
LEMMA ObserveSees ==
  ASSUME NEW t \in TrackerType(Starts), Extremes(t), NEW seq \in Nat
  PROVE  Observe(t, seq).maxSeen # None
<1>1. seq \in Observe(t, seq).seen
  BY DEF Observe, TrackerType, IsDuplicate
<1>2. Extremes(Observe(t, seq))
  BY ObserveExtremes
<1>3. QED
  BY <1>1, <1>2 DEF Extremes

\* Once a number was seen, the numbers seen lie between two naturals.
LEMMA ExtremesAreNat ==
  ASSUME NEW t \in TrackerType(Starts), Extremes(t), t.maxSeen # None
  PROVE  /\ t.minSeen \in Nat /\ t.maxSeen \in Nat
         /\ t.minSeen <= t.maxSeen
         /\ t.seen \subseteq t.minSeen .. t.maxSeen
         /\ UniqueReceived(t) \in Nat
<1>1. t.seen # {} /\ t.seen \subseteq Nat /\ t.minSeen \in t.seen /\ t.maxSeen \in t.seen
  BY DEF Extremes, TrackerType
<1>2. \A n \in t.seen : t.minSeen <= n /\ n <= t.maxSeen
  BY DEF Extremes
<1>3. UniqueReceived(t) \in Nat
  BY FS_CardinalityType DEF Extremes, UniqueReceived
<1>4. QED
  BY <1>1, <1>2, <1>3

\* The final loss is the length of the range less the numbers seen, for every
\* range that reaches down to the least number seen.
LEMMA LossFormula ==
  ASSUME NEW t \in TrackerType(Starts), Extremes(t), t.maxSeen # None,
         RangeStart(t) <= t.minSeen
  PROVE  /\ FinalLoss(t) = t.maxSeen - RangeStart(t) + 1 - UniqueReceived(t)
         /\ InferredSent(t) = t.maxSeen - RangeStart(t) + 1
<1> DEFINE first == RangeStart(t)
           last  == t.maxSeen
<1>1. /\ t.minSeen \in Nat /\ last \in Nat /\ t.minSeen <= last
      /\ t.seen \subseteq t.minSeen .. last
  BY ExtremesAreNat
<1>2. first \in Nat
  BY <1>1 DEF RangeStart, TrackerType, Starts
<1>3. first <= last /\ t.seen \subseteq first .. last
  BY <1>1, <1>2
<1>4. ~NothingInRange(t)
  BY <1>1, <1>2, <1>3 DEF NothingInRange
<1>5. /\ IsFiniteSet(first .. last)
      /\ Cardinality(first .. last) = last - first + 1
  <2>1. ASSUME NEW a \in Nat, NEW b \in Nat, a <= b
        PROVE  IsFiniteSet(a .. b) /\ Cardinality(a .. b) = b - a + 1
    <3>1. a \in Int /\ b \in Int /\ ~(a > b)
      BY <2>1
    <3>2. QED
      BY <3>1, FS_Interval
  <2>2. QED
    BY <1>1, <1>2, <1>3, <2>1
<1>6. Cardinality((first .. last) \ t.seen) =
        Cardinality(first .. last) - Cardinality((first .. last) \cap t.seen)
  <2>1. ASSUME NEW S, IsFiniteSet(S)
        PROVE  Cardinality(S \ t.seen) = Cardinality(S) - Cardinality(S \cap t.seen)
    BY <2>1, FS_Difference
  <2>2. QED
    BY <1>5, <2>1
<1>7. (first .. last) \cap t.seen = t.seen
  BY <1>3
<1>8. /\ FinalLoss(t) = Cardinality((first .. last) \ t.seen)
      /\ InferredSent(t) = last - first + 1
  BY <1>4 DEF FinalLoss, InferredSent
<1>9. UniqueReceived(t) = Cardinality((first .. last) \cap t.seen)
  BY <1>7 DEF UniqueReceived
<1>10. QED
  BY <1>1, <1>2, <1>5, <1>6, <1>8, <1>9, ExtremesAreNat

-----------------------------------------------------------------------------
(* The effect of one call *)

\* What a call of observe() does to the counts of IInv, in each of its cases:
\* a duplicate, a first number, and a new number above or below the largest.
LEMMA ObserveCounts ==
  ASSUME NEW t \in TrackerType(Starts), Extremes(t), NEW seq \in Nat
  PROVE  LET u == Observe(t, seq)
             e == EventFor(t, seq)
         IN  /\ u.duplicates = t.duplicates + (IF e.duplicate THEN 1 ELSE 0)
             /\ u.outOfOrder = t.outOfOrder + (IF e.outOfOrder THEN 1 ELSE 0)
             /\ u.gapEvents = t.gapEvents + (IF e.lostGap THEN 1 ELSE 0)
             /\ u.gapCount = t.gapCount + e.gapSize
             /\ UniqueReceived(u) =
                  UniqueReceived(t) + (IF e.duplicate THEN 0 ELSE 1)
<1> DEFINE u == Observe(t, seq)
           e == EventFor(t, seq)
<1>1. UniqueReceived(u) = UniqueReceived(t) + (IF e.duplicate THEN 0 ELSE 1)
  <2>1. /\ u.seen = IF IsDuplicate(t, seq) THEN t.seen ELSE t.seen \cup {seq}
        /\ e.duplicate = IsDuplicate(t, seq)
    BY DEF Observe, EventFor, TrackerType
  <2>2. /\ Cardinality(t.seen) \in Nat
        /\ Cardinality(t.seen \cup {seq}) =
             IF seq \in t.seen THEN Cardinality(t.seen) ELSE Cardinality(t.seen) + 1
    BY FS_AddElement, FS_CardinalityType DEF Extremes
  <2>3. CASE IsDuplicate(t, seq)
    <3>1. u.seen = t.seen /\ e.duplicate = TRUE
      BY <2>1, <2>3
    <3>2. QED
      BY <2>2, <3>1 DEF UniqueReceived
  <2>4. CASE ~IsDuplicate(t, seq)
    <3>1. u.seen = t.seen \cup {seq} /\ e.duplicate = FALSE
      BY <2>1, <2>4
    <3>2. Cardinality(u.seen) = Cardinality(t.seen) + 1
      BY <2>2, <2>4, <3>1 DEF IsDuplicate
    <3>3. QED
      BY <3>1, <3>2 DEF UniqueReceived
  <2>5. QED
    BY <2>3, <2>4
<1>2. CASE IsDuplicate(t, seq)
  <2>1. /\ e.duplicate = TRUE /\ e.outOfOrder = FALSE /\ e.lostGap = FALSE
        /\ e.gapSize = 0
    BY <1>2 DEF EventFor, IsOutOfOrder, SkipsAhead, GapSize
  <2>2. /\ u.duplicates = t.duplicates + 1
        /\ u.outOfOrder = t.outOfOrder
        /\ u.gapEvents = t.gapEvents
        /\ u.gapCount = t.gapCount
    BY <1>2 DEF Observe, TrackerType
  <2>3. QED
    BY <1>1, <2>1, <2>2 DEF TrackerType
<1>3. CASE ~IsDuplicate(t, seq)
  <2>1. /\ e.duplicate = FALSE
        /\ e.outOfOrder = IsOutOfOrder(t, seq)
        /\ e.lostGap = SkipsAhead(t, seq)
        /\ e.gapSize = GapSize(t, seq)
    BY <1>3 DEF EventFor
  <2>2. /\ u.duplicates = t.duplicates
        /\ u.outOfOrder = t.outOfOrder + (IF e.outOfOrder THEN 1 ELSE 0)
        /\ u.gapEvents = t.gapEvents + (IF e.lostGap THEN 1 ELSE 0)
        /\ u.gapCount = t.gapCount + e.gapSize
    BY <1>3, <2>1 DEF Observe, Plus
  <2>3. QED
    BY <1>1, <2>1, <2>2 DEF TrackerType
<1>4. QED
  BY <1>2, <1>3

\* The first number is the whole range.
LEMMA ObserveFirst ==
  ASSUME NEW t \in TrackerType(Starts), Extremes(t), t.maxSeen = None,
         NEW seq \in Nat
  PROVE  LET u == Observe(t, seq)
             e == EventFor(t, seq)
         IN  /\ u.minSeen = seq /\ u.maxSeen = seq
             /\ e.duplicate = FALSE /\ e.outOfOrder = FALSE /\ e.gapSize = 0
<1> DEFINE u == Observe(t, seq)
           e == EventFor(t, seq)
<1>1. t.seen = {} /\ t.minSeen = None /\ ~IsDuplicate(t, seq)
  BY DEF Extremes, IsDuplicate
<1>2. u.minSeen = seq /\ u.maxSeen = seq
  BY <1>1 DEF Observe, NewMax, Lesser, Greater
<1>3. e.duplicate = FALSE /\ e.outOfOrder = FALSE /\ e.gapSize = 0
  BY <1>1 DEF EventFor, IsOutOfOrder, GapSize, SkipsAhead
<1>4. QED
  BY <1>2, <1>3

\* What any other call does to the ends of the range.
LEMMA ObserveEnds ==
  ASSUME NEW t \in TrackerType(Starts), Extremes(t), t.maxSeen # None,
         NEW seq \in Nat
  PROVE  LET u == Observe(t, seq)
             e == EventFor(t, seq)
         IN  /\ e.duplicate =>
                  /\ u.minSeen = t.minSeen /\ u.maxSeen = t.maxSeen
                  /\ e.outOfOrder = FALSE /\ e.gapSize = 0
             /\ ~e.duplicate /\ seq < t.maxSeen =>
                  /\ u.minSeen = IF seq < t.minSeen THEN seq ELSE t.minSeen
                  /\ u.maxSeen = t.maxSeen
                  /\ e.outOfOrder = TRUE /\ e.gapSize = 0
             /\ ~e.duplicate /\ ~(seq < t.maxSeen) =>
                  /\ u.minSeen = t.minSeen /\ u.maxSeen = seq
                  /\ e.outOfOrder = FALSE /\ e.gapSize = seq - t.maxSeen - 1
                  /\ seq > t.maxSeen
<1> DEFINE u == Observe(t, seq)
           e == EventFor(t, seq)
<1>0. /\ e.duplicate = IsDuplicate(t, seq)
      /\ e.outOfOrder = IsOutOfOrder(t, seq)
      /\ e.gapSize = GapSize(t, seq)
  BY DEF EventFor
<1>2. CASE IsDuplicate(t, seq)
  <2>1. u.minSeen = t.minSeen /\ u.maxSeen = t.maxSeen
    BY <1>2 DEF Observe, TrackerType
  <2>2. QED
    BY <1>0, <1>2, <2>1 DEF IsOutOfOrder, GapSize, SkipsAhead
<1>3. CASE ~IsDuplicate(t, seq)
  <2>1. /\ t.minSeen \in Nat /\ t.maxSeen \in Nat /\ t.minSeen <= t.maxSeen
        /\ t.minSeen # None
    BY <1>3, ExtremesAreNat, NoneAssumption
  <2>2. seq # t.maxSeen
    BY <1>3 DEF IsDuplicate, Extremes
  <2>3. /\ u.minSeen = IF seq < t.minSeen THEN seq ELSE t.minSeen
        /\ u.maxSeen = IF seq > t.maxSeen THEN seq ELSE t.maxSeen
    BY <1>3, <2>1 DEF Observe, NewMax, Lesser, Greater
  <2>4. CASE seq < t.maxSeen
    BY <1>0, <1>3, <2>1, <2>3, <2>4 DEF IsOutOfOrder, GapSize, SkipsAhead
  <2>5. CASE ~(seq < t.maxSeen)
    BY <1>0, <1>3, <2>1, <2>2, <2>3, <2>5 DEF IsOutOfOrder, GapSize, SkipsAhead
  <2>6. QED
    BY <1>0, <1>3, <2>4, <2>5
<1>4. QED
  BY <1>2, <1>3

\* Adding an index to a finite set of indices, or not.
LEMMA CardinalityStep ==
  ASSUME NEW S, IsFiniteSet(S), NEW n, n \notin S, NEW flag \in BOOLEAN,
         NEW T, T = IF flag THEN S \cup {n} ELSE S
  PROVE  Cardinality(T) = Cardinality(S) + (IF flag THEN 1 ELSE 0)
<1>1. Cardinality(S) \in Nat
  BY FS_CardinalityType
<1>2. CASE flag
  BY <1>2, FS_AddElement
<1>3. CASE ~flag
  BY <1>1, <1>3
<1>4. QED
  BY <1>2, <1>3
=============================================================================

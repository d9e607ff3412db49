-------------------------- MODULE SequenceTracking --------------------------
(***************************************************************************)
(* The state of a SequenceTracker object (utils/stats.py) as a record, its *)
(* observe() method as a function from records to records, and the counts  *)
(* it derives.  Sequence numbers are naturals: the message field is an     *)
(* uint64 that starts at 0 and grows by one per publication, so it does    *)
(* not wrap within a run.                                                  *)
(***************************************************************************)
EXTENDS Integers, FiniteSets

CONSTANT None   \* Python's None

ASSUME NoneAssumption == None \notin Int

\* SequenceTracker(expected_start_seq = start)
NewTracker(start) ==
  [ expectedStart |-> start,
    seen          |-> {},     \* distinct sequence numbers observed
    minSeen       |-> None,
    maxSeen       |-> None,
    duplicates    |-> 0,
    outOfOrder    |-> 0,
    gapEvents     |-> 0,
    gapCount      |-> 0 ]     \* gap_count_detected_online

TrackerType(starts) ==
  [ expectedStart : starts, seen : SUBSET Nat,
    minSeen : Nat \cup {None}, maxSeen : Nat \cup {None},
    duplicates : Nat, outOfOrder : Nat, gapEvents : Nat, gapCount : Nat ]

\* SequenceEvent
Event ==
  [ seq : Nat, duplicate : BOOLEAN, outOfOrder : BOOLEAN, lostGap : BOOLEAN,
    gapSize : Nat ]

-----------------------------------------------------------------------------
(* observe(seq) *)

IsDuplicate(t, seq) == seq \in t.seen

\* The first branch of observe: a new number below the largest one seen.
IsOutOfOrder(t, seq) ==
  /\ ~IsDuplicate(t, seq)
  /\ t.maxSeen # None
  /\ seq < t.maxSeen

SkipsAtMax(t, seq) == t.maxSeen # None /\ seq >= t.maxSeen + 1   \* mutant

\* The second branch: a new number that skips at least one number.
SkipsAhead(t, seq) ==
  /\ ~IsDuplicate(t, seq)
  /\ t.maxSeen # None
  /\ seq > t.maxSeen + 1

GapToNext(t, seq) == IF SkipsAhead(t, seq) THEN seq - t.maxSeen ELSE 0  \* mutant
GapEitherWay(t, seq) == IF t.maxSeen # None THEN seq - t.maxSeen - 1 ELSE 0  \* mutant

GapSize(t, seq) == IF SkipsAhead(t, seq) THEN seq - t.maxSeen - 1 ELSE 0

\* The SequenceEvent that observe returns.
EventFor(t, seq) ==
  [ seq        |-> seq,
    duplicate  |-> IsDuplicate(t, seq),
    outOfOrder |-> IsOutOfOrder(t, seq),
    lostGap    |-> SkipsAhead(t, seq),
    gapSize    |-> GapSize(t, seq) ]

Lesser(a, b)  == IF b = None \/ a < b THEN a ELSE b
Greater(a, b) == IF b = None \/ a > b THEN a ELSE b

LatestSeq(a, b) == a                                      \* mutant

\* max_seq_seen after a new sequence number.
NewMax(seq, max) == Greater(seq, max)

CountAll(n, flag) == n + 1                                \* mutant

\* n, and one more if the flag is set.
Plus(n, flag) == n + (IF flag THEN 1 ELSE 0)

\* The tracker after observe(seq).
Observe(t, seq) ==
  IF IsDuplicate(t, seq)
  THEN [t EXCEPT !.duplicates = @ + 1]
  ELSE [ expectedStart |-> t.expectedStart,
         seen          |-> t.seen \cup {seq},
         minSeen       |-> Lesser(seq, t.minSeen),
         maxSeen       |-> NewMax(seq, t.maxSeen),
         duplicates    |-> t.duplicates,
         outOfOrder    |-> Plus(t.outOfOrder, IsOutOfOrder(t, seq)),
         gapEvents     |-> Plus(t.gapEvents, SkipsAhead(t, seq)),
         gapCount      |-> t.gapCount + GapSize(t, seq) ]

-----------------------------------------------------------------------------
(* The derived counts *)

UniqueReceived(t) == Cardinality(t.seen)

ZeroStart(t) == IF t.expectedStart = None THEN 0 ELSE t.expectedStart  \* mutant

\* The local "start" of inferred_sent_count and final_loss_count.
RangeStart(t) == IF t.expectedStart = None THEN t.minSeen ELSE t.expectedStart

NothingInRange(t) == t.maxSeen = None \/ t.maxSeen < RangeStart(t)

SentWithoutMax(t) == IF NothingInRange(t) THEN 0 ELSE t.maxSeen - RangeStart(t) \* mutant

InferredSent(t) == IF NothingInRange(t) THEN 0 ELSE t.maxSeen - RangeStart(t) + 1

FinalLoss(t) ==
  IF NothingInRange(t) THEN 0
  ELSE Cardinality((RangeStart(t) .. t.maxSeen) \ t.seen)
=============================================================================

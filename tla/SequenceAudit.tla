--------------------------- MODULE SequenceAudit ----------------------------
(***************************************************************************)
(* What a SequenceTracker promises (utils/stats.py), said without any of   *)
(* its state: every count is a function of the numbers that arrived, in    *)
(* the order in which they arrived.  A late number is one that some larger *)
(* number preceded; a gap is opened by a number that exceeds every earlier *)
(* one by more than 1; what is lost is what is missing from the range.     *)
(***************************************************************************)
EXTENDS Integers, Sequences, FiniteSetsExt

CONSTANTS None, Seqs

VARIABLES
  start,      \* first number of the range, or None: the least that arrived
  arrivals,   \* every number that arrived, in order
  report      \* the counts

vars == <<start, arrivals, report>>

Earlier(a, i) == {a[j] : j \in 1 .. i - 1}
Again(a, i)   == a[i] \in Earlier(a, i)
Late(a, i)    == ~Again(a, i) /\ \E s \in Earlier(a, i) : s > a[i]
Jump(a, i)    == i > 1 /\ \A s \in Earlier(a, i) : s + 1 < a[i]

\* The numbers that the arrivals leapt over: those above all the earlier
\* numbers and below the one that arrived.  No number is leapt over twice.
LeaptAt(a, i) == Max(Earlier(a, i)) + 1 .. a[i] - 1
Leapt(a)      == UNION {LeaptAt(a, i) : i \in 2 .. Len(a)}

CountOf(P(_, _), a) == Cardinality({i \in DOMAIN a : P(a, i)})

SeqsOf(a) == {a[i] : i \in DOMAIN a}

\* The numbers that should have arrived, given those that did.
Expected(from, a) ==
  IF a = <<>> THEN {}
  ELSE (IF from = None THEN Min(SeqsOf(a)) ELSE from) .. Max(SeqsOf(a))

ReportOf(from, a) ==
  [ received   |-> Len(a),
    unique     |-> Cardinality(SeqsOf(a)),
    duplicates |-> CountOf(Again, a),
    outOfOrder |-> CountOf(Late, a),
    gapEvents  |-> CountOf(Jump, a),
    gapCount   |-> Cardinality(Leapt(a)),
    sent       |-> Cardinality(Expected(from, a)),
    lost       |-> Cardinality(Expected(from, a) \ SeqsOf(a)) ]

Init ==
  /\ start \in Nat \cup {None}
  /\ arrivals = <<>>
  /\ report = ReportOf(start, <<>>)

Arrive(s) ==
  /\ arrivals' = Append(arrivals, s)
  /\ report' = ReportOf(start, arrivals')
  /\ UNCHANGED start

Next == \E s \in Seqs : Arrive(s)

Spec == Init /\ [][Next]_vars
=============================================================================

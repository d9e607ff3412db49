----------------------- MODULE StreamBenchmarkProofs ------------------------
(***************************************************************************)
(* Theorems about StreamBenchmark: what the receiver reports is bounded by *)
(* what the sender published, for any windows, any depth of the history    *)
(* and anything the topic may do to a packet; and without reordering its   *)
(* loss is that of packets which never reached it.  At the end, theorems   *)
(* about StreamRestart, where the sender dies and starts again; only the   *)
(* proof of RestartKept uses the assumption of that module.                *)
(***************************************************************************)
EXTENDS StreamRestart, SequenceTrackingLemmas, SequenceTheorems

Sent == [session : {SenderSession}, seq : Nat, sentAt : Int, size : {SenderPayload}]

\* p, a packet or a row, carries a number and the time that s published with it.
Genuine(s, p) == p.seq < Len(s) /\ p.sentAt = s[p.seq + 1].sentAt

-----------------------------------------------------------------------------
(* The steps, as the stream sees them *)

\* Time passes, or something happens beside the stream.
Quiet ==
  /\ now' \in {now, now + 1}
  /\ UNCHANGED <<seq, published, queue, heard, rows, tracker>>
  /\ UNCHANGED <<activeSession, firstPacket, rMeasureStart, rMeasureEnd>>

\* A packet is published and put on the topic.
Send ==
  /\ sRpc = "spin"
  /\ Sender!TimerDue
  /\ Sender!Publish
  /\ Transmit
  /\ UNCHANGED <<now, startedAt, sMeasureStart, sMeasureEnd, rVars, heard>>
  /\ sRpc' = "loop"

\* The callback of the receiver gets the i-th packet of the topic.
Hear(i) ==
  /\ i \in Deliverable
  /\ Receiver!OnPacket(queue[i])
  /\ queue' = SeqExt!RemoveAt(queue, i)
  /\ heard' = Append(heard, [packet |-> queue[i], at |-> now])
  /\ UNCHANGED <<now, sVars>>

\* Nothing else happens.
LEMMA Steps ==
  ASSUME now \in Int, [Next]_vars
  PROVE  Quiet \/ Send \/ \E i \in DOMAIN queue : Hear(i)
<1>1. CASE SenderStep
  <2>1. CASE Sender!OnTimer /\ Sender!Publish
    BY <1>1, <2>1 DEF SenderStep, Send, Sender!OnTimer, Sender!envVars, Sender!windowVars
  <2>2. CASE Sender!OnTimer /\ Sender!Finish
    <3>1. UNCHANGED <<now, seq, published, heard, rVars>>
      BY <1>1, <2>2 DEF SenderStep, Sender!OnTimer, Sender!Finish, Sender!envVars,
                        Sender!streamVars
    <3>2. UNCHANGED queue
      BY <1>1, <3>1 DEF SenderStep, Transmit
    <3>3. QED
      BY <3>1, <3>2 DEF Quiet, rVars
  <2>3. CASE ~Sender!OnTimer
    <3>1. UNCHANGED <<now, seq, published, heard, rVars>>
      BY <1>1, <2>3 DEF SenderStep, Sender!RunStep, Sender!WaitInterrupted,
           Sender!CheckSubscribers, Sender!CheckWaitTimeout, Sender!Start,
           Sender!EnterIteration, Sender!LeaveLoop, Sender!SpinIdle,
           Sender!WriteSummary, Sender!envVars, Sender!nodeVars,
           Sender!streamVars
    <3>2. UNCHANGED queue
      BY <1>1, <3>1 DEF SenderStep, Transmit
    <3>3. QED
      BY <3>1, <3>2 DEF Quiet, rVars
  <2>4. QED
    BY <2>1, <2>2, <2>3 DEF Sender!OnTimer
<1>2. CASE ReceiverStep
  <2>1. UNCHANGED <<now, rows, tracker, activeSession, firstPacket, rMeasureStart,
                    rMeasureEnd>>
    BY <1>2 DEF ReceiverStep, Receiver!LoopStep, Receiver!EnterIteration,
         Receiver!LeaveLoop, Receiver!SpinIdle, Receiver!CheckDiscovery,
         Receiver!CheckTimeout, Receiver!CheckDeadline, Receiver!WriteSummary,
         Receiver!envVars, Receiver!nodeVars, Receiver!windowVars,
         Receiver!sampleVars
  <2>2. QED
    BY <1>2, <2>1 DEF ReceiverStep, Quiet, sVars, topicVars
<1>3. CASE Deliver
  <2>1. PICK i \in Deliverable :
          /\ Receiver!SpinPacket(queue[i])
          /\ queue' = SeqExt!RemoveAt(queue, i)
          /\ heard' = Append(heard, [packet |-> queue[i], at |-> now])
    BY <1>3 DEF Deliver
  <2>2. i \in DOMAIN queue
    BY DEF Deliverable
  <2>3. Hear(i)
    BY <1>3, <2>1 DEF Deliver, Hear, Receiver!SpinPacket, Receiver!envVars
  <2>4. QED
    BY <2>2, <2>3
<1>4. CASE Discover
  BY <1>4 DEF Discover, Sender!GraphChange, Sender!nodeVars, Sender!streamVars,
              rVars, topicVars, Quiet
<1>5. CASE Signal
  BY <1>5 DEF Signal, Sender!Interrupt, Receiver!Interrupt, Sender!nodeVars,
              Sender!streamVars, Receiver!nodeVars, Receiver!windowVars,
              Receiver!sampleVars, rVars,
              sVars, topicVars, Quiet
<1>6. CASE Tick
  BY <1>6 DEF Tick, Sender!Tick, Receiver!Tick, Sender!nodeVars,
              Sender!streamVars, Receiver!nodeVars, Receiver!windowVars,
              Receiver!sampleVars, topicVars, Quiet
<1>7. CASE UNCHANGED vars
  BY <1>7 DEF vars, sVars, rVars, topicVars, Quiet
<1>8. QED
  BY <1>1, <1>2, <1>3, <1>4, <1>5, <1>6, <1>7 DEF Next

-----------------------------------------------------------------------------
(* The topic and the tracker *)

\* The history r holds packets that q held, in their order, and after them
\* only the new packet p.
HoldsFrom(q, p, r, cut, kept) ==
  /\ kept <= Len(r)
  /\ cut + kept <= Len(q)
  /\ \A i \in 1 .. kept : r[i] = q[cut + i]
  /\ \A i \in kept + 1 .. Len(r) : r[i] = p

Holds(q, p, r) ==
  /\ r \in Seq(Sent)
  /\ \E cut \in Nat, kept \in Nat : HoldsFrom(q, p, r, cut, kept)

\* keep_last only drops from the front and appends.
LEMMA EnqueueHolds ==
  ASSUME NEW q \in Seq(Sent), NEW p \in Sent, NEW s, Holds(q, p, s)
  PROVE  Holds(q, p, Enqueue(s, p))
<1> DEFINE r == Enqueue(s, p)
<1>1. PICK cut \in Nat, kept \in Nat : HoldsFrom(q, p, s, cut, kept)
  BY DEF Holds
<1>2. s \in Seq(Sent) /\ Len(s) \in Nat
  BY DEF Holds
<1>3. /\ kept <= Len(s)
      /\ cut + kept <= Len(q)
      /\ \A i \in 1 .. kept : s[i] = q[cut + i]
      /\ \A i \in kept + 1 .. Len(s) : s[i] = p
  BY <1>1 DEF HoldsFrom
<1>4. CASE Len(s) < Depth
  <2>1. /\ r \in Seq(Sent) /\ Len(r) = Len(s) + 1
        /\ \A i \in 1 .. Len(s) : r[i] = s[i]
        /\ r[Len(s) + 1] = p
    BY <1>2, <1>4, AppendProperties DEF Enqueue
  <2> HIDE DEF r
  <2>2. HoldsFrom(q, p, r, cut, kept)
    <3>1. \A i \in 1 .. kept : i \in 1 .. Len(s)
      BY <1>2, <1>3
    <3>2. \A i \in 1 .. kept : r[i] = q[cut + i]
      BY <1>3, <2>1, <3>1
    <3>3. \A i \in kept + 1 .. Len(r) : i = Len(s) + 1 \/ i \in kept + 1 .. Len(s)
      BY <1>2, <2>1
    <3>4. \A i \in kept + 1 .. Len(s) : i \in 1 .. Len(s)
      BY <1>2
    <3>5. \A i \in kept + 1 .. Len(r) : r[i] = p
      BY <1>3, <2>1, <3>3, <3>4
    <3>6. kept <= Len(r)
      BY <1>2, <1>3, <2>1
    <3>7. QED
      BY <1>3, <3>2, <3>5, <3>6 DEF HoldsFrom
  <2>3. QED
    BY <2>1, <2>2 DEF Holds, r
<1>5. CASE ~(Len(s) < Depth)
  <2>1. s # <<>>
    BY <1>2, <1>5, BenchmarkAssumption
  <2>2. /\ Tail(s) \in Seq(Sent) /\ Len(Tail(s)) = Len(s) - 1
        /\ \A i \in 1 .. Len(s) - 1 : Tail(s)[i] = s[i + 1]
    BY <1>2, <2>1, HeadTailProperties
  <2>3. r = Append(Tail(s), p)
    BY <1>5 DEF Enqueue
  <2>4. /\ r \in Seq(Sent) /\ Len(r) = Len(s)
        /\ \A i \in 1 .. Len(s) - 1 : r[i] = s[i + 1]
        /\ r[Len(s)] = p
    BY <1>2, <2>2, <2>3, AppendProperties
  <2> HIDE DEF r
  <2>5. CASE kept = 0
    <3>1. HoldsFrom(q, p, r, cut, 0)
      <4>1. \A i \in 1 .. Len(r) : r[i] = p
        <5>1. \A i \in 1 .. Len(s) - 1 : s[i + 1] = p
          BY <1>2, <1>3, <2>5
        <5>2. QED
          BY <1>2, <2>4, <5>1
      <4>2. QED
        BY <1>2, <1>3, <2>4, <2>5, <4>1 DEF HoldsFrom
    <3>2. QED
      BY <2>4, <3>1 DEF Holds, r
  <2>6. CASE kept # 0
    <3>1. cut + 1 \in Nat /\ kept - 1 \in Nat
      BY <2>6
    <3>2. \A i \in 1 .. kept - 1 : r[i] = q[cut + 1 + i]
      <4>1. SUFFICES ASSUME NEW i \in 1 .. kept - 1
                     PROVE  r[i] = q[cut + 1 + i]
        OBVIOUS
      <4>2. i \in 1 .. Len(s) - 1 /\ i + 1 \in 1 .. kept
        BY <1>2, <1>3
      <4>3. r[i] = s[i + 1]
        BY <2>4, <4>2
      <4>4. s[i + 1] = q[cut + (i + 1)]
        BY <1>3, <4>2
      <4>5. cut + (i + 1) = cut + 1 + i
        OBVIOUS
      <4>6. QED
        BY <4>3, <4>4, <4>5
    <3>3. \A i \in kept .. Len(r) : r[i] = p
      <4>1. SUFFICES ASSUME NEW i \in kept .. Len(r)
                     PROVE  r[i] = p
        OBVIOUS
      <4>2. CASE i = Len(s)
        BY <2>4, <4>2
      <4>3. CASE i # Len(s)
        <5>1. i \in 1 .. Len(s) - 1 /\ i + 1 \in kept + 1 .. Len(s)
          BY <1>2, <2>4, <2>6, <4>3
        <5>2. QED
          BY <1>3, <2>4, <5>1
      <4>4. QED
        BY <4>2, <4>3
    <3>4. HoldsFrom(q, p, r, cut + 1, kept - 1)
      <4>1. /\ kept - 1 <= Len(r) /\ (cut + 1) + (kept - 1) = cut + kept
            /\ (kept - 1) + 1 = kept
        BY <1>2, <1>3, <2>4
      <4>2. QED
        <5>1. (cut + 1) + (kept - 1) <= Len(q)
          BY <1>3, <4>1
        <5>2. \A i \in (kept - 1) + 1 .. Len(r) : r[i] = p
          BY <3>3, <4>1
        <5>3. QED
          BY <3>2, <4>1, <5>1, <5>2 DEF HoldsFrom
    <3>5. QED
      BY <2>4, <3>1, <3>4 DEF Holds, r
  <2>7. QED
    BY <2>5, <2>6
<1>6. QED
  BY <1>4, <1>5

\* Nor does anything that may become of the packet on its way do more.
LEMMA ArrivalsHold ==
  ASSUME NEW q \in Seq(Sent), NEW p \in Sent, NEW r \in Arrivals(q, p)
  PROVE  Holds(q, p, r)
<1>1. Holds(q, p, q)
  <2>1. HoldsFrom(q, p, q, 0, Len(q)) /\ 0 \in Nat /\ Len(q) \in Nat
    BY DEF HoldsFrom
  <2>2. QED
    BY <2>1 DEF Holds
<1>2. Holds(q, p, Enqueue(q, p))
  BY <1>1, EnqueueHolds
<1>3. Holds(q, p, Enqueue(Enqueue(q, p), p))
  BY <1>2, EnqueueHolds
<1>4. r \in {q, Enqueue(q, p), Enqueue(Enqueue(q, p), p)}
  BY DEF Arrivals
<1>5. QED
  BY <1>1, <1>2, <1>3, <1>4

\* A history without its i-th packet holds the others, in their order.
LEMMA RemoveKeeps ==
  ASSUME NEW S, NEW q \in Seq(S), NEW i \in DOMAIN q
  PROVE  LET r == SeqExt!RemoveAt(q, i)
         IN  /\ r \in Seq(S)
             /\ Len(r) = Len(q) - 1
             /\ \A j \in 1 .. Len(r) : r[j] = IF j < i THEN q[j] ELSE q[j + 1]
<1> DEFINE before == SubSeq(q, 1, i - 1)
           after == SubSeq(q, i + 1, Len(q))
<1>1. i \in 1 .. Len(q) /\ Len(q) \in Nat
  OBVIOUS
<1>2. /\ before \in Seq(S) /\ Len(before) = i - 1
      /\ \A j \in 1 .. i - 1 : before[j] = q[j]
  <2>1. \A j \in 1 .. i - 1 : q[j] \in S
    BY <1>1
  <2>2. QED
    BY <1>1, <2>1, SubSeqProperties
<1>3. /\ after \in Seq(S) /\ Len(after) = Len(q) - i
      /\ \A j \in 1 .. Len(q) - i : after[j] = q[j + i]
  <2>1. \A j \in i + 1 .. Len(q) : q[j] \in S
    BY <1>1
  <2>2. QED
    BY <1>1, <2>1, SubSeqProperties
<1> HIDE DEF before, after
<1>4. /\ before \o after \in Seq(S)
      /\ Len(before \o after) = Len(q) - 1
      /\ \A j \in 1 .. Len(q) - 1 : (before \o after)[j] =
           IF j <= i - 1 THEN before[j] ELSE after[j - (i - 1)]
  <2>1. /\ before \o after \in Seq(S)
        /\ Len(before \o after) = Len(before) + Len(after)
        /\ \A j \in 1 .. Len(before) + Len(after) : (before \o after)[j] =
             IF j <= Len(before) THEN before[j] ELSE after[j - Len(before)]
    BY <1>2, <1>3, ConcatProperties
  <2>2. Len(before) + Len(after) = Len(q) - 1
    BY <1>1, <1>2, <1>3
  <2>3. QED
    BY <1>2, <2>1, <2>2
<1>5. ASSUME NEW j \in 1 .. Len(q) - 1
      PROVE  (before \o after)[j] = IF j < i THEN q[j] ELSE q[j + 1]
  <2>1. CASE j < i
    BY <1>1, <1>2, <1>4, <2>1
  <2>2. CASE ~(j < i)
    <3>1. (before \o after)[j] = after[j - (i - 1)]
      BY <1>1, <1>4, <2>2
    <3>2. j - (i - 1) \in 1 .. Len(q) - i /\ j - (i - 1) + i = j + 1
      BY <1>1, <2>2
    <3>3. after[j - (i - 1)] = q[j + 1]
      BY <1>3, <3>2
    <3>4. QED
      BY <2>2, <3>1, <3>3
  <2>3. QED
    BY <2>1, <2>2
<1>6. SeqExt!RemoveAt(q, i) = before \o after
  BY DEF SeqExt!RemoveAt, before, after
<1>7. QED
  BY <1>4, <1>5, <1>6

\* The tracker of the receiver is a tracker.
LEMMA SameTracker ==
  ASSUME NEW t, NEW n
  PROVE  /\ Receiver!Observe(t, n) = Observe(t, n)
         /\ Receiver!EventFor(t, n) = EventFor(t, n)
<1>1. Receiver!EventFor(t, n) = EventFor(t, n)
  BY DEF Receiver!EventFor, EventFor, Receiver!IsDuplicate, IsDuplicate,
         Receiver!IsOutOfOrder, IsOutOfOrder, Receiver!SkipsAhead, SkipsAhead,
         Receiver!GapSize, GapSize
<1>2. Receiver!Observe(t, n) = Observe(t, n)
  BY DEF Receiver!Observe, Observe, Receiver!IsDuplicate, IsDuplicate,
         Receiver!IsOutOfOrder, IsOutOfOrder, Receiver!SkipsAhead, SkipsAhead,
         Receiver!GapSize, GapSize, Receiver!Lesser, Lesser, Receiver!NewMax,
         NewMax, Receiver!Greater, Greater, Receiver!Plus, Plus
<1>3. QED
  BY <1>1, <1>2

-----------------------------------------------------------------------------
(* What is measured was published *)

\* The packets published are numbered in their order and lie in the past.
Numbered ==
  /\ now \in Nat
  /\ published \in Seq(Sent)
  /\ seq = Len(published)
  /\ \A i \in DOMAIN published :
       published[i].seq = i - 1 /\ published[i].sentAt <= now

OnTopic == queue \in Seq(Sent) /\ \A i \in DOMAIN queue : Genuine(published, queue[i])

Measured ==
  /\ rows \in Seq(Receiver!Row)
  /\ \A i \in DOMAIN rows : Genuine(published, rows[i]) /\ rows[i].sentAt <= rows[i].localAt

Tracked ==
  /\ tracker \in TrackerType({None})
  /\ Extremes(tracker)
  /\ tracker.seen = RowSeqs

ReportInv == Numbered /\ OnTopic /\ Measured /\ Tracked

\* The fields that the steps below compare.
LEMMA FieldTypes ==
  /\ \A p \in Sent : /\ p.session = SenderSession
                     /\ p.seq \in Nat /\ p.sentAt \in Int /\ p.size \in Nat
  /\ \A r \in Receiver!Row : r.seq \in Nat /\ r.sentAt \in Int /\ r.localAt \in Nat
  /\ published \in Seq(Sent) => \A i \in DOMAIN published : published[i] \in Sent
  /\ queue \in Seq(Sent) => \A i \in DOMAIN queue : queue[i] \in Sent
  /\ rows \in Seq(Receiver!Row) => \A i \in DOMAIN rows : rows[i] \in Receiver!Row
<1>1. \A p \in Sent : /\ p.session = SenderSession
                      /\ p.seq \in Nat /\ p.sentAt \in Int /\ p.size \in Nat
  BY BenchmarkAssumption DEF Sent
<1>2. \A r \in Receiver!Row : r.seq \in Nat /\ r.sentAt \in Int /\ r.localAt \in Nat
  BY DEF Receiver!Row
<1>3. QED
  BY <1>1, <1>2

\* Time passing, or an event beside the stream, keeps ReportInv.
LEMMA QuietReport == ASSUME ReportInv, Quiet PROVE ReportInv'
<1>1. Numbered'
  <2>1. now \in Nat /\ now' \in Nat /\ now <= now'
    BY DEF ReportInv, Numbered, Quiet
  <2>2. \A i \in DOMAIN published : published[i].sentAt \in Int
    BY FieldTypes DEF ReportInv, Numbered
  <2>3. UNCHANGED <<seq, published>>
    BY DEF Quiet
  <2>4. \A i \in DOMAIN published : published[i].sentAt <= now'
    BY <2>1, <2>2 DEF ReportInv, Numbered
  <2>5. QED
    BY <2>1, <2>3, <2>4 DEF ReportInv, Numbered
<1>2. OnTopic'
  BY DEF ReportInv, OnTopic, Genuine, Quiet
<1>3. Measured'
  BY DEF ReportInv, Measured, Genuine, Quiet
<1>4. Tracked'
  BY DEF ReportInv, Tracked, RowSeqs, SeqsOf, Quiet
<1>5. QED
  BY <1>1, <1>2, <1>3, <1>4 DEF ReportInv

\* What Send does to the stream.
LEMMA SendAppends ==
  ASSUME ReportInv, Send
  PROVE  /\ published' \in Seq(Sent)
         /\ Len(published') = Len(published) + 1
         /\ \A i \in 1 .. Len(published) : published'[i] = published[i]
         /\ published'[Len(published')] =
              [session |-> SenderSession, seq |-> Len(published), sentAt |-> now,
               size |-> SenderPayload]
         /\ seq' = Len(published')
         /\ queue' = queue \/ queue' \in Arrivals(queue, published'[Len(published')])
<1>1. /\ published \in Seq(Sent) /\ now \in Nat /\ seq = Len(published)
      /\ Len(published) \in Nat
  BY DEF ReportInv, Numbered
<1>2. /\ Sender!PacketToSend =
           [session |-> SenderSession, seq |-> Len(published), sentAt |-> now,
            size |-> SenderPayload]
      /\ Sender!PacketToSend \in Sent
  BY <1>1 DEF Sender!PacketToSend, Sent
<1>3. published' = Append(published, Sender!PacketToSend) /\ seq' = seq + 1
  BY DEF Send, Sender!Publish, Sender!TakeSeq
<1>4. /\ published' \in Seq(Sent)
      /\ Len(published') = Len(published) + 1
      /\ \A i \in 1 .. Len(published) : published'[i] = published[i]
      /\ published'[Len(published) + 1] = Sender!PacketToSend
  BY <1>1, <1>2, <1>3, AppendProperties
<1>5. queue' = queue \/ queue' \in Arrivals(queue, published'[Len(published')])
  BY DEF Send, Transmit, SeqExt!Last
<1>6. QED
  BY <1>1, <1>2, <1>3, <1>4, <1>5

\* What is genuine stays so: the numbers and times published never change.
LEMMA GenuineStays ==
  ASSUME ReportInv, Send, NEW p, p.seq \in Nat, Genuine(published, p)
  PROVE  Genuine(published', p)
<1>1. /\ Len(published) \in Nat /\ Len(published') = Len(published) + 1
      /\ \A i \in 1 .. Len(published) : published'[i] = published[i]
  BY SendAppends DEF ReportInv, Numbered
<1>2. p.seq + 1 \in 1 .. Len(published) /\ p.seq < Len(published')
  BY <1>1 DEF Genuine
<1>3. QED
  BY <1>1, <1>2 DEF Genuine

\* Publishing a packet keeps ReportInv.
LEMMA SendReport == ASSUME ReportInv, Send PROVE ReportInv'
<1> DEFINE n == Len(published)
           p == published'[n + 1]
<1>1. /\ n \in Nat /\ now \in Nat /\ now' = now
      /\ published' \in Seq(Sent) /\ Len(published') = n + 1
      /\ \A i \in 1 .. n : published'[i] = published[i]
      /\ p.seq = n /\ p.sentAt = now /\ p \in Sent
      /\ seq' = n + 1
      /\ queue' = queue \/ queue' \in Arrivals(queue, p)
  <2>1. n \in Nat /\ now \in Nat /\ now' = now
    BY DEF ReportInv, Numbered, Send
  <2>2. p \in Sent
    BY <2>1, SendAppends
  <2>3. QED
    BY <2>1, <2>2, SendAppends
<1>2. Numbered'
  <2>1. \A i \in 1 .. n + 1 : i = n + 1 \/ i \in 1 .. n
    BY <1>1
  <2>2. \A i \in 1 .. n : published'[i].seq = i - 1 /\ published'[i].sentAt <= now
    BY <1>1 DEF ReportInv, Numbered
  <2>3. \A i \in 1 .. n + 1 : published'[i].seq = i - 1 /\ published'[i].sentAt <= now
    BY <1>1, <2>1, <2>2
  <2>4. QED
    BY <1>1, <2>3 DEF Numbered
<1>3. OnTopic'
  <2>1. queue \in Seq(Sent) /\ \A i \in DOMAIN queue : Genuine(published', queue[i])
    <3>1. \A i \in DOMAIN queue : queue[i].seq \in Nat /\ Genuine(published, queue[i])
      BY FieldTypes DEF ReportInv, OnTopic
    <3>2. QED
      BY <3>1, GenuineStays DEF ReportInv, OnTopic
  <2>2. CASE queue' = queue
    BY <2>1, <2>2 DEF OnTopic
  <2>3. CASE queue' \in Arrivals(queue, p)
    <3>1. Holds(queue, p, queue')
      BY <1>1, <2>1, <2>3, ArrivalsHold
    <3>2. PICK cut \in Nat, kept \in Nat : HoldsFrom(queue, p, queue', cut, kept)
      BY <3>1 DEF Holds
    <3>3. queue' \in Seq(Sent)
      BY <3>1 DEF Holds
    <3>4. SUFFICES ASSUME NEW i \in DOMAIN queue'
                   PROVE  Genuine(published', queue'[i])
      BY <3>3 DEF OnTopic
    <3>5. CASE i \in 1 .. kept
      <4>1. cut + i \in DOMAIN queue /\ queue'[i] = queue[cut + i]
        BY <2>1, <3>2, <3>5 DEF HoldsFrom
      <4>2. QED
        BY <2>1, <4>1
    <3>6. CASE i \notin 1 .. kept
      <4>1. queue'[i] = p
        BY <3>2, <3>3, <3>6 DEF HoldsFrom
      <4>2. Genuine(published', p)
        BY <1>1 DEF Genuine
      <4>3. QED
        BY <4>1, <4>2
    <3>7. QED
      BY <3>5, <3>6
  <2>4. QED
    BY <1>1, <2>2, <2>3
<1>4. Measured'
  <2>1. UNCHANGED <<rows, tracker>>
    BY DEF Send, rVars
  <2>2. \A i \in DOMAIN rows : rows[i].seq \in Nat /\ Genuine(published, rows[i])
    BY FieldTypes DEF ReportInv, Measured
  <2>3. \A i \in DOMAIN rows : Genuine(published', rows[i])
    BY <2>2, GenuineStays
  <2>4. QED
    BY <2>1, <2>3 DEF ReportInv, Measured
<1>5. Tracked'
  BY DEF ReportInv, Tracked, RowSeqs, SeqsOf, Send, rVars
<1>6. QED
  BY <1>2, <1>3, <1>4, <1>5 DEF ReportInv

\* What the callback does to the samples: nothing, or one row of a packet that
\* the tracker observes.
LEMMA HearMeasures ==
  ASSUME ReportInv, NEW i \in DOMAIN queue, Hear(i)
  PROVE  \/ UNCHANGED <<tracker, rows>>
         \/ /\ Receiver!Measure(queue[i])
            /\ tracker' = Observe(tracker, queue[i].seq)
            /\ Receiver!RowFor(queue[i]) \in Receiver!Row
            /\ Receiver!RowFor(queue[i]).seq = queue[i].seq
            /\ Receiver!RowFor(queue[i]).sentAt = queue[i].sentAt
            /\ Receiver!RowFor(queue[i]).localAt = now
            /\ rows' = Append(rows, Receiver!RowFor(queue[i]))
<1> DEFINE p == queue[i]
<1>1. CASE Receiver!Measure(p)
  <2>1. tracker' = Observe(tracker, p.seq) /\ rows' = Append(rows, Receiver!RowFor(p))
    BY <1>1, SameTracker DEF Receiver!Measure
  <2>2. /\ p \in Sent /\ p.seq \in Nat /\ p.sentAt \in Int /\ p.size \in Nat /\ now \in Nat
        /\ tracker \in TrackerType(Starts)
    <3>1. p \in Sent /\ now \in Nat
      BY FieldTypes DEF ReportInv, OnTopic, Numbered
    <3>2. tracker \in TrackerType(Starts)
      BY DEF ReportInv, Tracked, TrackerType, Starts
    <3>3. QED
      BY <3>1, <3>2, FieldTypes
  <2>3. EventFor(tracker, p.seq) \in Event
    BY <2>2, ObserveType
  <2>4. Receiver!EventFor(tracker, p.seq) = EventFor(tracker, p.seq)
    BY SameTracker
  <2>5. /\ Receiver!RowFor(p) \in Receiver!Row
        /\ Receiver!RowFor(p).seq = p.seq
        /\ Receiver!RowFor(p).sentAt = p.sentAt
        /\ Receiver!RowFor(p).localAt = now
    BY <2>2, <2>3, <2>4 DEF Receiver!RowFor, Receiver!Row, Receiver!WallNow, Event
  <2>6. QED
    BY <1>1, <2>1, <2>5
<1>2. CASE ~Receiver!Measure(p)
  BY <1>2 DEF Hear, Receiver!OnPacket, Receiver!OtherSession, Receiver!DuringWarmup,
              Receiver!AfterWindow, Receiver!nodeVars, Receiver!sampleVars
<1>3. QED
  BY <1>1, <1>2

\* A row added is a number that the tracker has seen.
LEMMA TrackedKept ==
  ASSUME Tracked, rows \in Seq(Receiver!Row), NEW row \in Receiver!Row,
         rows' = Append(rows, row), tracker' = Observe(tracker, row.seq)
  PROVE  Tracked'
<1>1. row.seq \in Nat
  BY FieldTypes
<1>2. /\ Len(rows) \in Nat /\ DOMAIN rows = 1 .. Len(rows)
      /\ DOMAIN rows' = 1 .. Len(rows) + 1
      /\ \A k \in 1 .. Len(rows) : rows'[k] = rows[k]
      /\ rows'[Len(rows) + 1] = row
  BY AppendProperties, LenProperties
<1>3. tracker \in TrackerType(Starts) /\ tracker.expectedStart = None
  BY DEF Tracked, TrackerType, Starts
<1>4. tracker' \in TrackerType(Starts)
  BY <1>1, <1>3, ObserveType
<1>5. tracker'.expectedStart = None
  BY <1>3 DEF Observe, TrackerType
<1>6. tracker' \in TrackerType({None})
  BY <1>4, <1>5 DEF TrackerType
<1>7. Extremes(tracker')
  BY <1>1, <1>3, ObserveExtremes DEF Tracked
<1>8. tracker'.seen = tracker.seen \cup {row.seq}
  BY <1>1, <1>3 DEF Observe, IsDuplicate, TrackerType
<1>9. RowSeqs' = RowSeqs \cup {row.seq}
  <2>1. 1 .. Len(rows) + 1 = (1 .. Len(rows)) \cup {Len(rows) + 1}
    BY <1>2
  <2>2. QED
    BY <1>2, <2>1 DEF RowSeqs, SeqsOf
<1>10. QED
  BY <1>6, <1>7, <1>8, <1>9 DEF Tracked

\* The callback of the receiver keeps ReportInv.
LEMMA HearReport ==
  ASSUME ReportInv, NEW i \in DOMAIN queue, Hear(i)
  PROVE  ReportInv'
<1> DEFINE p == queue[i]
           n == Len(rows)
<1>1. /\ queue \in Seq(Sent) /\ p \in Sent /\ p.seq \in Nat /\ p.sentAt \in Int
      /\ p.seq < Len(published) /\ Genuine(published, p)
      /\ rows \in Seq(Receiver!Row) /\ n \in Nat
      /\ UNCHANGED <<now, seq, published>>
  BY FieldTypes DEF ReportInv, OnTopic, Measured, Genuine, Hear, sVars
<1>2. p.sentAt <= now
  <2>1. p.seq + 1 \in DOMAIN published
    BY <1>1 DEF ReportInv, Numbered
  <2>2. QED
    BY <1>1, <2>1 DEF ReportInv, Numbered, Genuine
<1>3. Numbered'
  BY <1>1 DEF ReportInv, Numbered
<1>4. OnTopic'
  <2>1. /\ queue' \in Seq(Sent) /\ Len(queue') = Len(queue) - 1
        /\ \A j \in 1 .. Len(queue') : queue'[j] = IF j < i THEN queue[j] ELSE queue[j + 1]
    BY <1>1, RemoveKeeps DEF Hear
  <2>2. \A j \in 1 .. Len(queue') : j \in DOMAIN queue /\ j + 1 \in DOMAIN queue
    BY <1>1, <2>1
  <2>3. \A j \in 1 .. Len(queue') : Genuine(published, queue'[j])
    BY <2>1, <2>2 DEF ReportInv, OnTopic
  <2>4. QED
    BY <1>1, <2>1, <2>3 DEF OnTopic
<1>5. CASE UNCHANGED <<tracker, rows>>
  <2>1. Measured'
    BY <1>1, <1>5 DEF ReportInv, Measured
  <2>2. Tracked'
    BY <1>5 DEF ReportInv, Tracked, RowSeqs, SeqsOf
  <2>3. QED
    BY <1>3, <1>4, <2>1, <2>2 DEF ReportInv
<1>6. CASE ~UNCHANGED <<tracker, rows>>
  <2> DEFINE row == Receiver!RowFor(p)
  <2>1. /\ tracker' = Observe(tracker, p.seq)
        /\ row \in Receiver!Row /\ row.seq = p.seq /\ row.sentAt = p.sentAt
        /\ row.localAt = now
        /\ rows' = Append(rows, row)
    BY <1>6, HearMeasures
  <2> HIDE DEF row
  <2>2. /\ rows' \in Seq(Receiver!Row) /\ Len(rows') = n + 1
        /\ \A k \in 1 .. n : rows'[k] = rows[k]
        /\ rows'[n + 1] = row
    BY <1>1, <2>1, AppendProperties
  <2>3. \A k \in DOMAIN rows' : k \in DOMAIN rows \/ k = n + 1
    BY <1>1, <2>2
  <2>4. \A k \in DOMAIN rows : rows'[k] = rows[k]
    BY <1>1, <2>2
  <2>5. Measured'
    <3>1. Genuine(published, row) /\ row.sentAt <= row.localAt
      BY <1>1, <1>2, <2>1 DEF Genuine
    <3>2. \A k \in DOMAIN rows' :
            Genuine(published, rows'[k]) /\ rows'[k].sentAt <= rows'[k].localAt
      BY <2>2, <2>3, <2>4, <3>1 DEF ReportInv, Measured
    <3>3. QED
      BY <1>1, <2>2, <3>2 DEF Measured
  <2>6. Tracked'
    BY <1>1, <2>1, TrackedKept DEF ReportInv
  <2>7. QED
    BY <1>3, <1>4, <2>5, <2>6 DEF ReportInv
<1>7. QED
  BY <1>5, <1>6

\* Whatever the topic does: what waits was published, each row has the number
\* and the time of a packet that was published before it was received, and the
\* tracker has seen the numbers of the rows.
THEOREM ReportInductive == Spec => []ReportInv
<1>1. Init => ReportInv
  <2>1. ASSUME Init PROVE ReportInv
    <3>1. /\ now = 0 /\ seq = 0 /\ published = <<>> /\ queue = <<>> /\ rows = <<>>
          /\ tracker = NewTracker(None)
      BY <2>1 DEF Init, Sender!Init, Receiver!Init, Receiver!NewTracker, NewTracker
    <3>2. tracker \in TrackerType({None}) /\ Extremes(tracker) /\ tracker.seen = {}
      BY <3>1, FS_EmptySet DEF NewTracker, TrackerType, Extremes
    <3>3. RowSeqs = {}
      BY <3>1 DEF RowSeqs, SeqsOf
    <3>4. QED
      BY <3>1, <3>2, <3>3 DEF ReportInv, Numbered, OnTopic, Measured, Tracked
  <2>2. QED
    BY <2>1
<1>2. ReportInv /\ [Next]_vars => ReportInv'
  <2>1. ASSUME ReportInv, [Next]_vars PROVE ReportInv'
    <3>1. now \in Int
      BY <2>1 DEF ReportInv, Numbered
    <3>2. Quiet \/ Send \/ \E i \in DOMAIN queue : Hear(i)
      BY <2>1, <3>1, Steps
    <3>3. QED
      BY <2>1, <3>2, QuietReport, SendReport, HearReport
  <2>2. QED
    BY <2>1
<1>3. QED
  BY <1>1, <1>2, PTL DEF Spec

\* Packets numbered from 0 of which all rows have a number below n: no more than
\* n are inferred sent.
LEMMA InferredBelow ==
  ASSUME Tracked, NEW n \in Nat, \A i \in DOMAIN rows : rows[i].seq < n
  PROVE  InferredSent(tracker) <= n
<1>1. /\ tracker \in TrackerType(Starts) /\ Extremes(tracker)
      /\ tracker.expectedStart = None /\ tracker.seen = RowSeqs
  BY DEF Tracked, TrackerType, Starts
<1>2. CASE tracker.maxSeen = None
  BY <1>2 DEF InferredSent, NothingInRange
<1>3. CASE tracker.maxSeen # None
  <2>1. /\ tracker.minSeen \in Nat /\ tracker.maxSeen \in Nat
        /\ tracker.minSeen <= tracker.maxSeen
    BY <1>1, <1>3, ExtremesAreNat
  <2>2. tracker.maxSeen \in RowSeqs
    BY <1>1, <1>3 DEF Extremes
  <2>3. tracker.maxSeen < n
    BY <2>2 DEF RowSeqs, SeqsOf
  <2>4. ~NothingInRange(tracker) /\ RangeStart(tracker) = tracker.minSeen
    BY <1>1, <1>3, <2>1 DEF NothingInRange, RangeStart
  <2>5. QED
    BY <2>1, <2>3, <2>4 DEF InferredSent
<1>4. QED
  BY <1>2, <1>3

\* ReportsOnlyPublished: no topic makes the receiver report more messages than
\* the sender published, or a message with another time than it was sent with.
THEOREM ReportBounded == Spec => []ReportsOnlyPublished
<1>1. ReportInv => ReportsOnlyPublished
  <2>1. ASSUME ReportInv PROVE ReportsOnlyPublished
    <3>1. Len(published) \in Nat
      BY <2>1 DEF ReportInv, Numbered
    <3>2. InferredSent(tracker) <= Len(published)
      BY <2>1, <3>1, InferredBelow DEF ReportInv, Measured, Genuine
    <3>3. QED
      BY <2>1, <3>2 DEF ReportInv, Measured, Genuine, ReportsOnlyPublished
  <2>2. QED
    BY <2>1
<1>2. QED
  BY <1>1, ReportInductive, PTL

-----------------------------------------------------------------------------
(* The two windows *)

Hearing == [packet : Sent, at : Nat]

Heard ==
  /\ heard \in Seq(Hearing)
  /\ \A i \in DOMAIN heard : Genuine(published, heard[i].packet)
                           /\ heard[i].packet.sentAt <= heard[i].at

\* The window of the receiver is that of the first packet it heard, or it has
\* none because it heard nothing or waits for another session.
Anchored ==
  \/ /\ {firstPacket, rMeasureStart, rMeasureEnd} = {None}
     /\ rows = <<>>
     /\ heard = <<>> \/ activeSession \notin {None, SenderSession}
  \/ /\ heard # <<>>
     /\ firstPacket = heard[1].at
     /\ activeSession = SenderSession
     /\ firstPacket \in Nat
     /\ rMeasureStart = firstPacket + ReceiverWarmup
     /\ rMeasureEnd = rMeasureStart + ReceiverDuration
     /\ \A i \in DOMAIN rows :
          rows[i].localAt >= rMeasureStart /\ rows[i].localAt <= now

BeforeStart == {"wait", "waitTimeout", "start"}

\* Everything published lies in the window that start() opened.
Started ==
  \/ sRpc \in BeforeStart /\ published = <<>>
  \/ /\ sRpc \notin BeforeStart
     /\ startedAt \in Nat /\ startedAt <= now
     /\ sMeasureStart = startedAt + SenderWarmup
     /\ sMeasureEnd = sMeasureStart + SenderDuration
     /\ \A i \in DOMAIN published :
          startedAt <= published[i].sentAt /\ published[i].sentAt < sMeasureEnd

\* Nothing was or will be published before its time.
OnTime ==
  sRpc \notin BeforeStart =>
    /\ \A i \in DOMAIN published : published[i].sentAt >= startedAt + i * Period
    /\ nextCall # None =>
         nextCall \in Nat /\ nextCall >= startedAt + (seq + 1) * Period

WindowsInv == ReportInv /\ Heard /\ Anchored /\ Started /\ OnTime

\* The window of the sender is set by start() alone, and only once.
LEMMA StartSteps ==
  ASSUME [Next]_vars
  PROVE  \/ /\ UNCHANGED <<startedAt, sMeasureStart, sMeasureEnd>>
            /\ sRpc' \in BeforeStart <=> sRpc \in BeforeStart
         \/ Sender!Start /\ UNCHANGED <<now, published>>
<1>1. CASE SenderStep
  <2>1. CASE Sender!Start
    BY <2>1 DEF Sender!Start, Sender!envVars, Sender!streamVars
  <2>2. CASE ~Sender!Start
    BY <1>1, <2>2
       DEF SenderStep, Sender!RunStep, Sender!WaitInterrupted,
         Sender!CheckSubscribers, Sender!SubscriberFound, Sender!NoSubscriber,
         Sender!CheckWaitTimeout, Sender!EnterIteration, Sender!LeaveLoop,
         Sender!SpinIdle, Sender!OnTimer, Sender!WriteSummary,
         Sender!nodeVars, Sender!windowVars, BeforeStart
  <2>3. QED
    BY <2>1, <2>2
<1>2. CASE ReceiverStep \/ Deliver
  BY <1>2 DEF ReceiverStep, Deliver, sVars
<1>3. CASE Discover \/ Signal \/ Tick
  BY <1>3 DEF Discover, Signal, Tick, Sender!GraphChange, Sender!Interrupt,
              Sender!Tick, Sender!nodeVars, Sender!windowVars, sVars
<1>4. CASE UNCHANGED vars
  BY <1>4 DEF vars, sVars
<1>5. QED
  BY <1>1, <1>2, <1>3, <1>4 DEF Next

\* No step leaves a packet published outside the sender's window.
LEMMA StartedKept == ASSUME WindowsInv, [Next]_vars PROVE Started'
<1>1. now \in Nat /\ SenderWarmup \in Nat /\ SenderDuration \in Nat
  BY BenchmarkAssumption DEF WindowsInv, ReportInv, Numbered
<1>2. CASE Sender!Start /\ UNCHANGED <<now, published>>
  <2>1. published = <<>>
    BY <1>2 DEF WindowsInv, Started, Sender!Start, BeforeStart
  <2>2. QED
    BY <1>1, <1>2, <2>1 DEF Sender!Start, Started, BeforeStart
<1>3. CASE /\ UNCHANGED <<startedAt, sMeasureStart, sMeasureEnd>>
           /\ sRpc' \in BeforeStart <=> sRpc \in BeforeStart
  <2>1. CASE Send
    <3>1. sRpc = "spin" /\ now < sMeasureEnd /\ now' = now
      <4>1. /\ sRpc = "spin" /\ ~Sender!WindowOver /\ now' = now
        BY <2>1 DEF Send, Sender!Publish
      <4>2. sMeasureEnd \in Nat
        BY <1>1, <4>1 DEF WindowsInv, Started, BeforeStart
      <4>3. QED
        BY <1>1, <4>1, <4>2 DEF Sender!WindowOver
    <3>2. /\ sRpc \notin BeforeStart
          /\ startedAt \in Nat /\ startedAt <= now
          /\ sMeasureStart = startedAt + SenderWarmup
          /\ sMeasureEnd = sMeasureStart + SenderDuration
          /\ \A i \in DOMAIN published :
               startedAt <= published[i].sentAt /\ published[i].sentAt < sMeasureEnd
      BY <3>1 DEF WindowsInv, Started, BeforeStart
    <3>3. /\ Len(published) \in Nat /\ published' \in Seq(Sent)
          /\ Len(published') = Len(published) + 1
          /\ \A i \in 1 .. Len(published) : published'[i] = published[i]
          /\ published'[Len(published) + 1].sentAt = now
      BY <2>1, SendAppends DEF WindowsInv, ReportInv, Numbered
    <3>4. \A i \in DOMAIN published' : i \in DOMAIN published \/ i = Len(published) + 1
      BY <3>3 DEF WindowsInv, ReportInv, Numbered
    <3>5. \A i \in DOMAIN published : published'[i] = published[i]
      BY <3>3 DEF WindowsInv, ReportInv, Numbered
    <3>6. \A i \in DOMAIN published' :
            startedAt <= published'[i].sentAt /\ published'[i].sentAt < sMeasureEnd
      BY <3>1, <3>2, <3>3, <3>4, <3>5
    <3>7. QED
      BY <1>3, <3>1, <3>2, <3>6 DEF Started
  <2>2. CASE ~Send
    <3>1. published' = published /\ now' \in Nat /\ now <= now'
      <4>1. Quiet \/ \E i \in DOMAIN queue : Hear(i)
        BY <1>1, <2>2, Steps
      <4>2. CASE Quiet
        BY <1>1, <4>2 DEF Quiet
      <4>3. CASE \E i \in DOMAIN queue : Hear(i)
        BY <1>1, <4>3 DEF Hear, sVars
      <4>4. QED
        BY <4>1, <4>2, <4>3
    <3>2. CASE sRpc \in BeforeStart
      BY <1>3, <3>1, <3>2 DEF WindowsInv, Started
    <3>3. CASE sRpc \notin BeforeStart
      <4>1. startedAt' \in Nat /\ startedAt' <= now'
        BY <1>1, <1>3, <3>1, <3>3 DEF WindowsInv, Started
      <4>2. QED
        BY <1>3, <3>1, <3>3, <4>1 DEF WindowsInv, Started
    <3>4. QED
      BY <3>2, <3>3
  <2>3. QED
    BY <2>1, <2>2
<1>4. QED
  BY <1>2, <1>3, StartSteps

\* The timer is set by start() and moved by the callback.
LEMMA TimerSteps ==
  ASSUME [Next]_vars, ~Sender!Start, ~Send
  PROVE  nextCall' \in {nextCall, None}
<1>1. CASE SenderStep
  <2>1. CASE Sender!OnTimer /\ Sender!Publish
    BY <1>1, <2>1 DEF SenderStep, Send, Sender!OnTimer, Sender!envVars, Sender!windowVars
  <2>2. CASE Sender!OnTimer /\ Sender!Finish
    BY <2>2 DEF Sender!Finish
  <2>3. CASE ~Sender!OnTimer
    BY <1>1, <2>3
       DEF SenderStep, Sender!RunStep, Sender!WaitInterrupted,
         Sender!CheckSubscribers, Sender!CheckWaitTimeout, Sender!EnterIteration,
         Sender!LeaveLoop, Sender!SpinIdle, Sender!WriteSummary, Sender!nodeVars
  <2>4. QED
    BY <2>1, <2>2, <2>3 DEF Sender!OnTimer
<1>2. CASE ReceiverStep \/ Deliver
  BY <1>2 DEF ReceiverStep, Deliver, sVars
<1>3. CASE Discover \/ Signal \/ Tick
  BY <1>3 DEF Discover, Signal, Tick, Sender!GraphChange, Sender!Interrupt,
              Sender!Tick, Sender!nodeVars, sVars
<1>4. CASE UNCHANGED vars
  BY <1>4 DEF vars, sVars
<1>5. QED
  BY <1>1, <1>2, <1>3, <1>4 DEF Next

\* The callback moves the timer on by a period at least.
LEMMA TimerMovesOn ==
  ASSUME now \in Nat, nextCall \in Nat, now >= nextCall
  PROVE  Sender!NextCall \in Nat /\ Sender!NextCall >= nextCall + Period
<1>1. Period \in Nat
  BY BenchmarkAssumption
<1>2. CASE Period = 0
  BY <1>2 DEF Sender!NextCall
<1>3. CASE Period # 0 /\ now <= nextCall + Period
  <2>1. Sender!NextCall = nextCall + Period
    BY <1>1, <1>3 DEF Sender!NextCall
  <2>2. QED
    BY <1>1, <2>1
<1>4. CASE Period # 0 /\ now > nextCall + Period
  <2> DEFINE a == now - nextCall + Period - 1
  <2>1. a \in Nat /\ a >= 2 * Period
    BY <1>1, <1>4
  <2> HIDE DEF a
  <2>2. /\ a \div Period \in Int
        /\ a < Period * (a \div Period) + Period
    BY <1>1, <1>4, <2>1, SMTT(30)
  <2> QED
    BY <1>1, <1>4, <2>1, <2>2, SMTT(30) DEF Sender!NextCall, a
<1> QED
  BY <1>1, <1>2, <1>3, <1>4

\* Every packet is published at its time or later.
LEMMA OnTimeKept == ASSUME WindowsInv, [Next]_vars PROVE OnTime'
<1>1. /\ now \in Nat /\ Period \in Nat
      /\ published \in Seq(Sent) /\ Len(published) \in Nat /\ seq = Len(published)
  BY BenchmarkAssumption DEF WindowsInv, ReportInv, Numbered
<1>2. CASE Sender!Start
  <2>1. /\ published = <<>> /\ published' = published /\ seq' = seq /\ seq = 0
        /\ startedAt' = now /\ nextCall' = now + Period
    BY <1>1, <1>2 DEF WindowsInv, Started, Sender!Start, Sender!streamVars, BeforeStart
  <2>2. now + (0 + 1) * Period = now + Period
    BY <1>1
  <2>3. nextCall' \in Nat /\ nextCall' >= startedAt' + (seq' + 1) * Period
    BY <1>1, <2>1, <2>2
  <2>4. QED
    BY <2>1, <2>3 DEF OnTime
<1>3. CASE Send
  <2>1. /\ sRpc = "spin" /\ startedAt' = startedAt
        /\ nextCall # None /\ now >= nextCall
        /\ nextCall' = Sender!NextCall /\ seq' = seq + 1
    BY <1>3 DEF Send, Sender!TimerDue, Sender!Publish, Sender!TakeSeq
  <2>2. /\ startedAt \in Nat /\ nextCall \in Nat
        /\ nextCall >= startedAt + (seq + 1) * Period
        /\ \A i \in DOMAIN published : published[i].sentAt >= startedAt + i * Period
    BY <2>1 DEF WindowsInv, Started, OnTime, BeforeStart
  <2>3. Sender!NextCall \in Nat /\ Sender!NextCall >= nextCall + Period
    BY <1>1, <2>1, <2>2, TimerMovesOn
  <2>4. (seq + 1 + 1) * Period = (seq + 1) * Period + Period
        /\ (seq + 1) * Period \in Nat
    BY <1>1
  <2>5. nextCall' \in Nat /\ nextCall' >= startedAt' + (seq' + 1) * Period
    BY <1>1, <2>1, <2>2, <2>3, <2>4
  <2>6. /\ Len(published') = Len(published) + 1 /\ published' \in Seq(Sent)
        /\ \A i \in 1 .. Len(published) : published'[i] = published[i]
        /\ published'[Len(published) + 1].sentAt = now
    BY <1>3, SendAppends DEF WindowsInv, ReportInv, Numbered
  <2>7. now >= startedAt + (Len(published) + 1) * Period
    BY <1>1, <2>1, <2>2, <2>4
  <2>8. ASSUME NEW i \in DOMAIN published'
        PROVE  published'[i].sentAt >= startedAt' + i * Period
    <3>1. CASE i = Len(published) + 1
      BY <2>1, <2>6, <2>7, <3>1
    <3>2. CASE i # Len(published) + 1
      <4>1. i \in DOMAIN published /\ i \in 1 .. Len(published)
        BY <1>1, <2>6, <3>2
      <4>2. published'[i] = published[i]
        BY <2>6, <4>1
      <4>3. QED
        BY <2>1, <2>2, <4>1, <4>2
    <3>3. QED
      BY <3>1, <3>2
  <2>9. QED
    BY <2>5, <2>8 DEF OnTime
<1>4. CASE ~Sender!Start /\ ~Send
  <2>1. UNCHANGED <<seq, published>>
    <3>1. Quiet \/ \E i \in DOMAIN queue : Hear(i)
      BY <1>1, <1>4, Steps
    <3>2. QED
      BY <3>1 DEF Quiet, Hear, sVars
  <2>2. nextCall' \in {nextCall, None}
    BY <1>4, TimerSteps
  <2>3. startedAt' = startedAt /\ (sRpc' \in BeforeStart <=> sRpc \in BeforeStart)
    BY <1>4, StartSteps
  <2>4. QED
    BY <2>1, <2>2, <2>3 DEF WindowsInv, OnTime
<1>5. QED
  BY <1>2, <1>3, <1>4

\* Every packet heard was published, and stays so.
LEMMA HeardKept == ASSUME WindowsInv, [Next]_vars PROVE Heard'
<1>1. /\ now \in Nat /\ ReportInv
      /\ heard \in Seq(Hearing)
      /\ \A k \in DOMAIN heard : /\ heard[k].packet.seq \in Nat
                                 /\ Genuine(published, heard[k].packet)
                                 /\ heard[k].packet.sentAt <= heard[k].at
  <2>1. heard \in Seq(Hearing)
    BY DEF WindowsInv, Heard
  <2>2. \A k \in DOMAIN heard : heard[k] \in Hearing
    BY <2>1
  <2>3. \A k \in DOMAIN heard : heard[k].packet \in Sent
    BY <2>2 DEF Hearing
  <2>4. QED
    BY <2>1, <2>3, FieldTypes DEF WindowsInv, Heard, ReportInv, Numbered
<1>2. CASE Quiet
  BY <1>1, <1>2 DEF Heard, Quiet
<1>3. CASE Send
  <2>1. heard' = heard
    BY <1>3 DEF Send
  <2>2. \A k \in DOMAIN heard : Genuine(published', heard[k].packet)
    BY <1>1, <1>3, GenuineStays
  <2>3. QED
    BY <1>1, <2>1, <2>2 DEF Heard
<1>4. ASSUME NEW i \in DOMAIN queue, Hear(i)
      PROVE  Heard'
  <2> DEFINE h == [packet |-> queue[i], at |-> now]
  <2>1. h \in Hearing /\ Genuine(published, h.packet) /\ h.packet.sentAt <= h.at
    <3>1. /\ queue[i] \in Sent /\ queue[i].seq \in Nat
          /\ Genuine(published, queue[i])
      BY <1>1, FieldTypes DEF ReportInv, OnTopic
    <3>2. queue[i].seq + 1 \in DOMAIN published
      BY <1>1, <3>1 DEF ReportInv, Numbered, Genuine
    <3>3. queue[i].sentAt <= now
      BY <1>1, <3>1, <3>2 DEF ReportInv, Numbered, Genuine
    <3>4. QED
      BY <1>1, <3>1, <3>3 DEF Hearing
  <2>2. heard' = Append(heard, h) /\ published' = published
    BY <1>4 DEF Hear, sVars
  <2> HIDE DEF h
  <2>3. /\ heard' \in Seq(Hearing) /\ Len(heard') = Len(heard) + 1
        /\ \A k \in 1 .. Len(heard) : heard'[k] = heard[k]
        /\ heard'[Len(heard) + 1] = h
    BY <1>1, <2>1, <2>2, AppendProperties
  <2>4. \A k \in DOMAIN heard' : k \in DOMAIN heard \/ k = Len(heard) + 1
    BY <1>1, <2>3
  <2>5. \A k \in DOMAIN heard : heard'[k] = heard[k]
    BY <1>1, <2>3
  <2>6. \A k \in DOMAIN heard' : Genuine(published, heard'[k].packet)
                               /\ heard'[k].packet.sentAt <= heard'[k].at
    BY <1>1, <2>1, <2>3, <2>4, <2>5
  <2>7. QED
    BY <2>2, <2>3, <2>6 DEF Heard
<1>5. QED
  BY <1>1, <1>2, <1>3, <1>4, Steps

\* The callback keeps the window where it is, or anchors it at the first packet
\* it ever got; a packet is measured only inside.
LEMMA HearAnchored ==
  ASSUME WindowsInv, NEW i \in DOMAIN queue, Hear(i)
  PROVE  Anchored'
<1> DEFINE p == queue[i]
           h == [packet |-> p, at |-> now]
<1>1. /\ now \in Nat /\ now' = now /\ ReceiverWarmup \in Nat /\ ReceiverDuration \in Nat
      /\ SenderSession \in Nat /\ None \notin Nat
      /\ p \in Sent /\ p.session = SenderSession
      /\ rows \in Seq(Receiver!Row)
  BY FieldTypes, BenchmarkAssumption, NoneAssumption
     DEF WindowsInv, ReportInv, Numbered, OnTopic, Measured, Hear
<1>2. /\ heard' = Append(heard, h)
      /\ heard \in Seq(Hearing)
      /\ h \in Hearing
  BY <1>1 DEF Hear, WindowsInv, Heard, Hearing
<1>3. /\ heard' # <<>>
      /\ heard'[1] = IF heard = <<>> THEN h ELSE heard[1]
  <2>1. CASE heard = <<>>
    BY <1>2, <2>1
  <2>2. CASE heard # <<>>
    <3>1. /\ Len(heard) \in Nat /\ Len(heard) # 0 /\ heard' # <<>>
          /\ \A k \in 1 .. Len(heard) : heard'[k] = heard[k]
      BY <1>2, <2>2, AppendProperties, EmptySeq
    <3>2. QED
      BY <2>2, <3>1
  <2>3. QED
    BY <2>1, <2>2
<1>4. CASE Receiver!OtherSession(p)
  <2>1. UNCHANGED <<activeSession, firstPacket, rMeasureStart, rMeasureEnd, rows>>
    BY <1>4 DEF Receiver!OtherSession, Receiver!nodeVars, Receiver!windowVars,
                Receiver!sampleVars
  <2>2. activeSession \notin {None, SenderSession}
    BY <1>1, <1>4 DEF Receiver!OtherSession, Receiver!SessionFor
  <2>3. QED
    BY <2>1, <2>2 DEF WindowsInv, Anchored
<1>5. CASE Receiver!Accept(p)
  <2>1. activeSession \in {None, SenderSession} /\ activeSession' = SenderSession
    BY <1>1, <1>5 DEF Receiver!Accept, Receiver!SessionFor
  <2>2. /\ firstPacket' \in Nat /\ firstPacket' = heard'[1].at
        /\ rMeasureStart' = firstPacket' + ReceiverWarmup
        /\ rMeasureEnd' = rMeasureStart' + ReceiverDuration
        /\ \A k \in DOMAIN rows :
             rows[k].localAt >= rMeasureStart' /\ rows[k].localAt <= now
    <3>1. CASE firstPacket = None
      <4>1. heard = <<>> /\ rows = <<>>
        BY <1>1, <2>1, <3>1 DEF WindowsInv, Anchored
      <4>2. firstPacket' = now /\ rMeasureStart' = now + ReceiverWarmup
            /\ rMeasureEnd' = rMeasureStart' + ReceiverDuration
        BY <1>5, <3>1 DEF Receiver!Accept, Receiver!AnchorWindow
      <4>3. QED
        BY <1>1, <1>3, <4>1, <4>2
    <3>2. CASE firstPacket # None
      <4>1. UNCHANGED <<firstPacket, rMeasureStart, rMeasureEnd>>
        BY <1>5, <3>2 DEF Receiver!Accept, Receiver!AnchorWindow, Receiver!windowVars
      <4>2. /\ heard # <<>> /\ firstPacket = heard[1].at /\ firstPacket \in Nat
            /\ rMeasureStart = firstPacket + ReceiverWarmup
            /\ rMeasureEnd = rMeasureStart + ReceiverDuration
            /\ \A k \in DOMAIN rows :
                 rows[k].localAt >= rMeasureStart /\ rows[k].localAt <= now
        BY <3>2 DEF WindowsInv, Anchored
      <4>3. QED
        BY <1>3, <4>1, <4>2
    <3>3. QED
      BY <3>1, <3>2
  <2>3. \A k \in DOMAIN rows' : rows'[k].localAt >= rMeasureStart' /\ rows'[k].localAt <= now
    <3>1. CASE rows' = rows
      BY <2>2, <3>1
    <3>2. CASE rows' # rows
      <4> DEFINE row == Receiver!RowFor(p)
      <4>1. /\ Receiver!Measure(p) /\ row \in Receiver!Row /\ row.localAt = now
            /\ rows' = Append(rows, row)
        BY <3>2, HearMeasures DEF WindowsInv
      <4> HIDE DEF row
      <4>2. /\ Len(rows') = Len(rows) + 1 /\ rows' \in Seq(Receiver!Row)
            /\ \A k \in 1 .. Len(rows) : rows'[k] = rows[k]
            /\ rows'[Len(rows) + 1] = row
        BY <1>1, <4>1, AppendProperties
      <4>3. now >= rMeasureStart'
        BY <4>1 DEF Receiver!Measure
      <4>4. \A k \in DOMAIN rows' : k \in DOMAIN rows \/ k = Len(rows) + 1
        BY <1>1, <4>2
      <4>5. \A k \in DOMAIN rows : rows'[k] = rows[k]
        BY <1>1, <4>2
      <4>6. QED
        BY <1>1, <2>2, <4>1, <4>2, <4>3, <4>4, <4>5
    <3>3. QED
      BY <3>1, <3>2
  <2>4. QED
    BY <1>1, <1>3, <2>1, <2>2, <2>3 DEF Anchored
<1>6. QED
  BY <1>4, <1>5 DEF Hear, Receiver!OnPacket, Receiver!DuringWarmup,
                    Receiver!AfterWindow, Receiver!Measure

\* The receiver's window stays that of the first packet heard.
LEMMA AnchoredKept == ASSUME WindowsInv, [Next]_vars PROVE Anchored'
<1>1. /\ now \in Nat /\ now' \in Nat /\ now <= now'
      /\ rows \in Seq(Receiver!Row)
      /\ \A i \in DOMAIN rows : rows[i].localAt \in Nat
  <2>1. now \in Nat
    BY DEF WindowsInv, ReportInv, Numbered
  <2>2. now' \in {now, now + 1}
    <3>1. CASE Quiet
      BY <3>1 DEF Quiet
    <3>2. CASE Send
      BY <3>2 DEF Send
    <3>3. CASE \E i \in DOMAIN queue : Hear(i)
      BY <3>3 DEF Hear
    <3>4. QED
      BY <2>1, <3>1, <3>2, <3>3, Steps
  <2>3. QED
    BY <2>1, <2>2, FieldTypes DEF WindowsInv, ReportInv, Measured
<1>2. CASE Quiet \/ Send
  <2>1. UNCHANGED <<activeSession, firstPacket, rMeasureStart, rMeasureEnd, rows, heard>>
    BY <1>2 DEF Quiet, Send, rVars
  <2>2. \A i \in DOMAIN rows : rows[i].localAt <= now => rows[i].localAt <= now'
    BY <1>1
  <2>3. QED
    BY <2>1, <2>2 DEF WindowsInv, Anchored
<1>3. QED
  BY <1>1, <1>2, HearAnchored, Steps

\* Every packet heard was published before; the receiver's window is anchored at
\* the arrival of the first one; and every packet was published in the stream
\* that start() of the sender began, at its time or later.
THEOREM WindowsInductive == Spec => []WindowsInv
<1>1. Init => Heard /\ Anchored /\ Started /\ OnTime
  <2>1. ASSUME Init PROVE Heard /\ Anchored /\ Started /\ OnTime
    <3>1. /\ heard = <<>> /\ rows = <<>> /\ published = <<>> /\ sRpc = "wait"
          /\ {firstPacket, rMeasureStart, rMeasureEnd} = {None}
      BY <2>1 DEF Init, Sender!Init, Receiver!Init
    <3>2. QED
      BY <3>1 DEF Heard, Anchored, Started, OnTime, BeforeStart
  <2>2. QED
    BY <2>1
<1>2. WindowsInv /\ ReportInv' /\ [Next]_vars => WindowsInv'
  <2>1. ASSUME WindowsInv, ReportInv', [Next]_vars PROVE WindowsInv'
    BY <2>1, HeardKept, AnchoredKept, StartedKept, OnTimeKept DEF WindowsInv
  <2>2. QED
    BY <2>1
<1>3. ReportInv /\ Heard /\ Anchored /\ Started /\ OnTime => WindowsInv
  BY DEF WindowsInv
<1>4. QED
  BY <1>1, <1>2, <1>3, ReportInductive, PTL DEF Spec

\* What was heard was sent between start() and the end of the sender's window,
\* and not before its time.
LEMMA SentInWindow ==
  ASSUME WindowsInv, NEW p, p.seq \in Nat, Genuine(published, p)
  PROVE  /\ startedAt \in Nat
         /\ sMeasureStart = startedAt + SenderWarmup
         /\ sMeasureEnd = startedAt + SenderWarmup + SenderDuration
         /\ p.sentAt \in Int
         /\ startedAt <= p.sentAt /\ p.sentAt < sMeasureEnd
         /\ p.sentAt >= startedAt + (p.seq + 1) * Period
<1>1. p.seq + 1 \in DOMAIN published
  BY DEF WindowsInv, ReportInv, Numbered, Genuine
<1>2. published # <<>>
  BY <1>1
<1>3. /\ startedAt \in Nat
      /\ sMeasureStart = startedAt + SenderWarmup
      /\ sMeasureEnd = sMeasureStart + SenderDuration
      /\ startedAt <= published[p.seq + 1].sentAt
      /\ published[p.seq + 1].sentAt < sMeasureEnd
      /\ published[p.seq + 1].sentAt >= startedAt + (p.seq + 1) * Period
  BY <1>1, <1>2 DEF WindowsInv, Started, OnTime
<1>4. published[p.seq + 1].sentAt \in Int
  BY <1>1, FieldTypes DEF WindowsInv, ReportInv, Numbered
<1>5. QED
  BY <1>3, <1>4, BenchmarkAssumption DEF Genuine

\* WindowsShifted: by how much the windows of the two processes may differ, for
\* any warm-up and duration of each, any period and any delay or loss.
THEOREM WindowsRelated == Spec => []WindowsShifted
<1>1. WindowsInv => WindowsShifted
  <2>1. ASSUME WindowsInv, firstPacket # None PROVE WindowsShifted
    <3> DEFINE first    == heard[1]
               delay    == first.at - startedAt
               shift    == delay + ReceiverWarmup - SenderWarmup
               endShift == shift + ReceiverDuration - SenderDuration
    <3>1. /\ {ReceiverWarmup, ReceiverDuration, SenderWarmup, SenderDuration,
              Period} \subseteq Nat
          /\ \A k \in DOMAIN heard : /\ heard[k].at \in Nat
                                     /\ heard[k].packet.seq \in Nat
                                     /\ heard[k].packet.sentAt \in Int
                                     /\ heard[k].packet.sentAt <= heard[k].at
                                     /\ Genuine(published, heard[k].packet)
      <4>1. \A k \in DOMAIN heard : heard[k] \in Hearing
        BY <2>1 DEF WindowsInv, Heard
      <4>2. \A k \in DOMAIN heard : heard[k].at \in Nat /\ heard[k].packet \in Sent
        BY <4>1 DEF Hearing
      <4>3. QED
        BY <2>1, <4>2, FieldTypes, BenchmarkAssumption DEF WindowsInv, Heard
    <3>2. /\ 1 \in DOMAIN heard
          /\ first.at \in Nat
          /\ rMeasureStart = first.at + ReceiverWarmup
          /\ rMeasureEnd = rMeasureStart + ReceiverDuration
          /\ \A i \in DOMAIN rows : rows[i].localAt >= rMeasureStart
      <4>1. /\ heard # <<>> /\ firstPacket = heard[1].at /\ firstPacket \in Nat
            /\ rMeasureStart = firstPacket + ReceiverWarmup
            /\ rMeasureEnd = rMeasureStart + ReceiverDuration
            /\ \A i \in DOMAIN rows : rows[i].localAt >= rMeasureStart
        BY <2>1 DEF WindowsInv, Anchored
      <4>2. heard \in Seq(Hearing)
        BY <2>1 DEF WindowsInv, Heard
      <4>3. QED
        BY <4>1, <4>2
    <3>3. /\ startedAt \in Nat
          /\ first.packet.sentAt >= startedAt + (first.packet.seq + 1) * Period
          /\ first.packet.sentAt <= first.at
      BY <2>1, <3>1, <3>2, SentInWindow
    <3>4. delay >= (first.packet.seq + 1) * Period
      <4>1. first.packet.seq \in Nat /\ first.packet.sentAt \in Int
        BY <3>1, <3>2
      <4>2. (first.packet.seq + 1) * Period \in Nat
        BY <3>1, <4>1
      <4>3. QED
        BY <3>2, <3>3, <4>1, <4>2
    <3>5. delay \in Int /\ first.at = startedAt + delay
      BY <3>2, <3>3
    <3> HIDE DEF first, delay
    <3>6. ASSUME NEW i \in DOMAIN rows, rows[i].sentAt < sMeasureStart
          PROVE  rows[i].localAt - rows[i].sentAt > shift
      <4>1. /\ rows[i].seq \in Nat /\ rows[i].localAt \in Nat
            /\ Genuine(published, rows[i])
        BY <2>1, FieldTypes DEF WindowsInv, ReportInv, Measured
      <4>2. sMeasureStart = startedAt + SenderWarmup /\ rows[i].sentAt \in Int
        BY <2>1, <4>1, SentInWindow
      <4>3. rows[i].localAt >= startedAt + delay + ReceiverWarmup
        BY <3>2, <3>5
      <4>4. QED
        BY <3>1, <3>3, <3>5, <3>6, <4>1, <4>2, <4>3
    <3>7. ASSUME NEW i \in DOMAIN heard
          PROVE  /\ sMeasureStart = startedAt + SenderWarmup
                 /\ sMeasureEnd = startedAt + SenderWarmup + SenderDuration
                 /\ heard[i].packet.sentAt < sMeasureEnd
      BY <2>1, <3>1, SentInWindow
    <3>8. ASSUME NEW i \in DOMAIN heard,
                 heard[i].packet.sentAt >= sMeasureStart, heard[i].at < rMeasureStart
          PROVE  Transit(heard[i]) < shift
      <4>1. heard[i].packet.sentAt >= startedAt + SenderWarmup
        BY <3>7, <3>8
      <4>2. heard[i].at < startedAt + delay + ReceiverWarmup
        BY <3>2, <3>5, <3>8
      <4>3. QED
        BY <3>1, <3>3, <3>5, <4>1, <4>2 DEF Transit
    <3>9. ASSUME NEW i \in DOMAIN heard, heard[i].at > rMeasureEnd
          PROVE  Transit(heard[i]) > endShift
      <4>1. heard[i].packet.sentAt < startedAt + SenderWarmup + SenderDuration
        BY <3>7
      <4>2. heard[i].at > startedAt + delay + ReceiverWarmup + ReceiverDuration
        BY <3>2, <3>5, <3>9
      <4>3. QED
        BY <3>1, <3>3, <3>5, <4>1, <4>2 DEF Transit
    <3>10. QED
      BY <3>4, <3>6, <3>8, <3>9 DEF WindowsShifted, first, delay
  <2>2. QED
    BY <2>1 DEF WindowsShifted
<1>2. QED
  BY <1>1, WindowsInductive, PTL

-----------------------------------------------------------------------------
(* What the callback was given, and what became of it *)

\* What was heard and not measured came before everything measured, or after
\* it, when the window was over.
Skipped ==
  \A n \in HeardSeqs :
    \/ n \in RowSeqs
    \/ \A m \in RowSeqs : n <= m
    \/ rMeasureEnd # None /\ now > rMeasureEnd /\ \A m \in RowSeqs : m <= n

RowsHeard == RowSeqs \subseteq HeardSeqs

Repeats ==
  /\ IsFiniteSet(HeardSeqs)
  /\ tracker.duplicates <= Len(heard) - Cardinality(HeardSeqs)

InTurn == HeardInOrder => Skipped /\ tracker.outOfOrder = 0

HeardInv == WindowsInv /\ RowsHeard /\ Repeats /\ InTurn

\* The numbers heard and measured are naturals, below that of the next packet.
LEMMA HeardTypes ==
  ASSUME WindowsInv
  PROVE  /\ HeardSeqs \subseteq Nat
         /\ \A n \in HeardSeqs : n < Len(published)
         /\ RowSeqs \subseteq Nat
         /\ \A j \in DOMAIN queue : queue[j].seq \in Nat /\ queue[j].seq < Len(published)
         /\ rMeasureEnd # None => rMeasureEnd \in Nat
<1>1. \A k \in DOMAIN heard : /\ heard[k].packet.seq \in Nat
                              /\ Genuine(published, heard[k].packet)
  <2>1. \A k \in DOMAIN heard : heard[k] \in Hearing
    BY DEF WindowsInv, Heard
  <2>2. QED
    BY <2>1, FieldTypes DEF WindowsInv, Heard, Hearing
<1>2. \A k \in DOMAIN rows : rows[k].seq \in Nat
  BY FieldTypes DEF WindowsInv, ReportInv, Measured
<1>3. \A j \in DOMAIN queue : queue[j].seq \in Nat /\ queue[j].seq < Len(published)
  BY FieldTypes DEF WindowsInv, ReportInv, OnTopic, Genuine
<1>4. rMeasureEnd # None => rMeasureEnd \in Nat
  <2>1. ReceiverWarmup \in Nat /\ ReceiverDuration \in Nat
    BY BenchmarkAssumption
  <2>2. \/ rMeasureEnd = None
        \/ /\ firstPacket \in Nat /\ rMeasureStart = firstPacket + ReceiverWarmup
           /\ rMeasureEnd = rMeasureStart + ReceiverDuration
    BY DEF WindowsInv, Anchored
  <2>3. QED
    BY <2>1, <2>2
<1>5. QED
  BY <1>1, <1>2, <1>3, <1>4 DEF HeardSeqs, RowSeqs, SeqsOf, Genuine

\* Steps without a callback change none of what was heard.
LEMMA OthersHeard ==
  ASSUME HeardInv, Quiet \/ Send
  PROVE  RowsHeard' /\ Repeats' /\ InTurn'
<1>1. now \in Nat /\ now' \in Nat /\ now <= now'
  BY DEF HeardInv, WindowsInv, ReportInv, Numbered, Quiet, Send
<1>2. /\ UNCHANGED <<heard, rows, tracker, rMeasureEnd>>
      /\ HeardSeqs' = HeardSeqs /\ RowSeqs' = RowSeqs /\ HeardInOrder' = HeardInOrder
  BY DEF Quiet, Send, rVars, HeardSeqs, RowSeqs, SeqsOf, HeardInOrder
<1>3. rMeasureEnd # None /\ now > rMeasureEnd => now' > rMeasureEnd
  BY <1>1, HeardTypes DEF HeardInv
<1>4. Skipped => Skipped'
  BY <1>2, <1>3 DEF Skipped
<1>5. QED
  BY <1>2, <1>4 DEF HeardInv, RowsHeard, Repeats, InTurn

\* The packet that a callback gets is one of the session that was published.
LEMMA HearTypes ==
  ASSUME WindowsInv, NEW i \in DOMAIN queue, Hear(i)
  PROVE  /\ now' = now /\ now \in Nat
         /\ queue \in Seq(Sent) /\ queue[i] \in Sent /\ queue[i].seq \in Nat
         /\ queue[i].session = SenderSession
         /\ ReportInv /\ rows \in Seq(Receiver!Row)
BY FieldTypes DEF Hear, WindowsInv, ReportInv, Numbered, OnTopic, Measured

\* A callback adds one packet to those heard.
LEMMA HearGrows ==
  ASSUME WindowsInv, NEW i \in DOMAIN queue, Hear(i)
  PROVE  /\ HeardSeqs' = HeardSeqs \cup {queue[i].seq}
         /\ Len(heard') = Len(heard) + 1 /\ Len(heard) \in Nat
         /\ HeardInOrder' => HeardInOrder /\ \A n \in HeardSeqs : n <= queue[i].seq
<1> DEFINE p == queue[i]
           h == [packet |-> p, at |-> now]
<1>1. heard' = Append(heard, h) /\ heard \in Seq(Hearing) /\ h \in Hearing
  BY HearTypes DEF Hear, WindowsInv, Heard, Hearing
<1>2. h.packet.seq = p.seq
  OBVIOUS
<1> HIDE DEF h
<1>3. /\ Len(heard') = Len(heard) + 1 /\ heard' \in Seq(Hearing)
      /\ \A k \in 1 .. Len(heard) : heard'[k] = heard[k]
      /\ heard'[Len(heard) + 1] = h
  BY <1>1, AppendProperties
<1>4. \A k \in DOMAIN heard' : k \in DOMAIN heard \/ k = Len(heard) + 1
  BY <1>1, <1>3
<1>5. \A k \in DOMAIN heard : k \in DOMAIN heard' /\ heard'[k] = heard[k]
  BY <1>1, <1>3
<1>6. Len(heard) + 1 \in DOMAIN heard'
  BY <1>1, <1>3
<1>7. HeardSeqs' = HeardSeqs \cup {p.seq}
  BY <1>2, <1>3, <1>4, <1>5, <1>6 DEF HeardSeqs
<1>8. \A k \in DOMAIN heard : k < Len(heard) + 1
  BY <1>1
<1>9. ASSUME HeardInOrder' PROVE HeardInOrder /\ \A n \in HeardSeqs : n <= p.seq
  <2>1. HeardInOrder
    BY <1>5, <1>9 DEF HeardInOrder
  <2>2. \A k \in DOMAIN heard : heard[k].packet.seq <= p.seq
    BY <1>2, <1>3, <1>5, <1>6, <1>8, <1>9 DEF HeardInOrder
  <2>3. QED
    BY <2>1, <2>2 DEF HeardSeqs
<1>10. QED
  BY <1>1, <1>3, <1>7, <1>9

\* A callback adds the number of its packet to the rows, or nothing.
LEMMA HearRows ==
  ASSUME WindowsInv, NEW i \in DOMAIN queue, Hear(i)
  PROVE  \/ UNCHANGED <<tracker, rows>> /\ RowSeqs' = RowSeqs
         \/ /\ Receiver!Measure(queue[i])
            /\ tracker' = Observe(tracker, queue[i].seq)
            /\ RowSeqs' = RowSeqs \cup {queue[i].seq}
<1> DEFINE p == queue[i]
<1>1. CASE UNCHANGED <<tracker, rows>>
  BY <1>1 DEF RowSeqs, SeqsOf
<1>2. CASE Receiver!Measure(p) /\ tracker' = Observe(tracker, p.seq)
  <2>1. RowSeqs' = tracker'.seen
    BY HearReport, HearTypes DEF ReportInv, Tracked
  <2>2. tracker'.seen = tracker.seen \cup {p.seq}
    BY <1>2, HearTypes DEF Observe, IsDuplicate, ReportInv, Tracked, TrackerType
  <2>3. QED
    BY <1>2, <2>1, <2>2, HearTypes DEF ReportInv, Tracked
<1>3. QED
  BY <1>1, <1>2, HearMeasures, HearTypes

\* The n-th repetition of a number is the n-th entry of heard without a number
\* of its own.
LEMMA HearRepeats ==
  ASSUME HeardInv, NEW i \in DOMAIN queue, Hear(i)
  PROVE  RowsHeard' /\ Repeats'
<1> DEFINE p == queue[i]
<1>1. WindowsInv /\ RowSeqs \subseteq HeardSeqs /\ IsFiniteSet(HeardSeqs)
  BY DEF HeardInv, RowsHeard, Repeats
<1>2. RowsHeard'
  BY <1>1, HearGrows, HearRows DEF RowsHeard
<1>3. /\ IsFiniteSet(HeardSeqs')
      /\ Cardinality(HeardSeqs) \in Nat
      /\ Cardinality(HeardSeqs') =
           IF p.seq \in HeardSeqs THEN Cardinality(HeardSeqs) ELSE Cardinality(HeardSeqs) + 1
  BY <1>1, HearGrows, FS_AddElement, FS_CardinalityType
<1>4. /\ tracker.duplicates \in Nat
      /\ tracker.seen = RowSeqs
  BY <1>1, HearTypes DEF ReportInv, Tracked, TrackerType
<1>5. \/ tracker'.duplicates = tracker.duplicates
      \/ tracker'.duplicates = tracker.duplicates + 1 /\ p.seq \in HeardSeqs
  <2>1. CASE UNCHANGED tracker
    BY <2>1
  <2>2. CASE tracker' = Observe(tracker, p.seq)
    BY <1>1, <1>4, <2>2, HearTypes
       DEF Observe, IsDuplicate, ReportInv, Tracked, TrackerType
  <2>3. QED
    BY <1>1, <2>1, <2>2, HearRows
<1>6. /\ tracker.duplicates <= Len(heard) - Cardinality(HeardSeqs)
      /\ Len(heard) \in Nat /\ Len(heard') = Len(heard) + 1
  BY <1>1, HearGrows DEF HeardInv, Repeats
<1>7. tracker'.duplicates <= Len(heard') - Cardinality(HeardSeqs')
  BY <1>3, <1>4, <1>5, <1>6
<1>8. QED
  BY <1>2, <1>3, <1>7 DEF Repeats

\* As long as nothing is overtaken, a callback keeps the rows in order.
LEMMA HearInTurn ==
  ASSUME HeardInv, NEW i \in DOMAIN queue, Hear(i)
  PROVE  InTurn'
<1> SUFFICES ASSUME HeardInOrder' PROVE Skipped' /\ tracker'.outOfOrder = 0
  BY DEF InTurn
<1> DEFINE p == queue[i]
<1>1. /\ now' = now /\ now \in Nat
      /\ p \in Sent /\ p.seq \in Nat /\ p.session = SenderSession
      /\ WindowsInv /\ ReportInv /\ rows \in Seq(Receiver!Row)
  BY HearTypes DEF HeardInv
<1>2. HeardSeqs' = HeardSeqs \cup {p.seq}
  BY <1>1, HearGrows
<1>3. \A n \in HeardSeqs : n \in Nat /\ n <= p.seq
  BY <1>1, HearGrows, HeardTypes
<1>4. /\ RowSeqs \subseteq HeardSeqs
      /\ \A m \in RowSeqs : m <= p.seq
  BY <1>3 DEF HeardInv, RowsHeard
<1>5. Skipped /\ tracker.outOfOrder = 0
  BY <1>1, HearGrows DEF HeardInv, InTurn
<1>6. tracker'.outOfOrder = 0
  <2>1. CASE UNCHANGED tracker
    BY <1>5, <2>1
  <2>2. CASE tracker' = Observe(tracker, p.seq)
    <3>1. /\ tracker \in TrackerType({None}) /\ Extremes(tracker)
          /\ tracker.seen = RowSeqs
      BY <1>1 DEF ReportInv, Tracked
    <3>2. tracker.maxSeen # None => tracker.maxSeen \in RowSeqs
      BY <3>1 DEF Extremes
    <3>3. tracker.maxSeen # None => tracker.maxSeen \in Nat /\ tracker.maxSeen <= p.seq
      BY <1>3, <1>4, <3>2
    <3>4. ~IsOutOfOrder(tracker, p.seq)
      BY <1>1, <3>3 DEF IsOutOfOrder
    <3>5. QED
      BY <1>5, <2>2, <3>4 DEF Observe, Plus
  <2>3. QED
    BY <1>1, <2>1, <2>2, HearRows
\* The window, if there was one, has not moved, and this packet is of its session.
<1>7. firstPacket # None =>
        /\ UNCHANGED <<rMeasureStart, rMeasureEnd>>
        /\ Receiver!Accept(p)
  <2>1. ASSUME firstPacket # None PROVE Receiver!Accept(p)
    <3>1. activeSession = SenderSession
      BY <1>1, <2>1 DEF WindowsInv, Anchored
    <3>2. ~Receiver!OtherSession(p)
      BY <1>1, <3>1, NoneAssumption, BenchmarkAssumption
         DEF Receiver!OtherSession, Receiver!SessionFor
    <3>3. QED
      BY <3>2 DEF Hear, Receiver!OnPacket, Receiver!DuringWarmup,
                  Receiver!AfterWindow, Receiver!Measure
  <2>2. QED
    BY <2>1 DEF Receiver!Accept, Receiver!AnchorWindow, Receiver!windowVars
<1>8. rMeasureEnd # None => firstPacket # None /\ rMeasureEnd \in Nat
  <2>1. rMeasureEnd # None => rMeasureEnd \in Nat
    BY <1>1, HeardTypes
  <2>2. Anchored
    BY <1>1 DEF WindowsInv
  <2>3. rMeasureEnd = None \/ firstPacket \in Nat
    BY <2>2 DEF Anchored
  <2>4. QED
    BY <2>1, <2>3, NoneAssumption
<1>9. CASE rows' = rows
  <2>1. RowSeqs' = RowSeqs
    BY <1>9 DEF RowSeqs, SeqsOf
  <2>2. RowSeqs # {} => rMeasureEnd' # None /\ now > rMeasureEnd'
    <3>1. ASSUME RowSeqs # {} PROVE rMeasureEnd' # None /\ now > rMeasureEnd'
      <4>1. PICK k \in DOMAIN rows : TRUE
        BY <3>1 DEF RowSeqs, SeqsOf
      <4>2. /\ firstPacket \in Nat /\ rMeasureStart \in Nat /\ rMeasureEnd \in Nat
            /\ rows[k].localAt >= rMeasureStart /\ rows[k].localAt <= now
        <5>1. ReceiverWarmup \in Nat /\ ReceiverDuration \in Nat
          BY BenchmarkAssumption
        <5>2. rows # <<>>
          BY <4>1
        <5>3. /\ firstPacket \in Nat /\ rMeasureStart = firstPacket + ReceiverWarmup
              /\ rMeasureEnd = rMeasureStart + ReceiverDuration
              /\ rows[k].localAt >= rMeasureStart /\ rows[k].localAt <= now
          BY <1>1, <4>1, <5>2 DEF WindowsInv, Anchored
        <5>4. QED
          BY <5>1, <5>3
      <4>3. rows[k].localAt \in Nat
        BY <1>1, <4>1, FieldTypes
      <4>4. /\ UNCHANGED <<rMeasureStart, rMeasureEnd>> /\ Receiver!Accept(p)
        BY <1>7, <4>2, NoneAssumption
      <4>5. ~Receiver!DuringWarmup(p)
        BY <1>1, <4>2, <4>3, <4>4 DEF Receiver!DuringWarmup
      <4>6. ~Receiver!OtherSession(p)
        BY <4>4 DEF Receiver!OtherSession, Receiver!Accept
      <4>7. ~Receiver!Measure(p)
        <5>1. \A row : Append(rows, row) # rows
          BY <1>1, AppendProperties
        <5>2. QED
          BY <1>9, <5>1 DEF Receiver!Measure
      <4>8. Receiver!AfterWindow(p)
        BY <4>5, <4>6, <4>7 DEF Hear, Receiver!OnPacket
      <4>9. QED
        BY <4>2, <4>4, <4>8, NoneAssumption DEF Receiver!AfterWindow, Receiver!TooLate
    <3>2. QED
      BY <3>1
  <2>3. ASSUME NEW n \in HeardSeqs'
        PROVE  \/ n \in RowSeqs
               \/ \A m \in RowSeqs : n <= m
               \/ rMeasureEnd' # None /\ now > rMeasureEnd' /\ \A m \in RowSeqs : m <= n
    <3>1. CASE n = p.seq
      BY <1>4, <2>2, <3>1
    <3>2. CASE n \in HeardSeqs
      BY <1>5, <1>7, <1>8, <3>2 DEF Skipped
    <3>3. QED
      BY <1>2, <3>1, <3>2
  <2>4. QED
    BY <1>1, <1>2, <1>6, <2>1, <2>3 DEF Skipped
<1>10. CASE rows' # rows
  <2>1. Receiver!Measure(p) /\ RowSeqs' = RowSeqs \cup {p.seq}
    BY <1>1, <1>10, HearRows
  <2>2. rMeasureEnd # None => ~(now > rMeasureEnd)
    BY <1>7, <1>8, <2>1 DEF Receiver!Measure, Receiver!TooLate
  <2>3. ASSUME NEW n \in HeardSeqs'
        PROVE  n \in RowSeqs' \/ \A m \in RowSeqs' : n <= m
    <3>1. CASE n = p.seq
      BY <2>1, <3>1
    <3>2. CASE n \in HeardSeqs
      BY <1>3, <1>5, <2>1, <2>2, <3>2 DEF Skipped
    <3>3. QED
      BY <1>2, <3>1, <3>2
  <2>4. QED
    BY <1>6, <2>3 DEF Skipped
<1>11. QED
  BY <1>9, <1>10

\* The rows are among what was heard; a number is repeated among them only if it
\* was heard twice; and as long as no packet is overtaken, none is late, and the
\* callback drops only those of its warm-up and those after its window.
THEOREM HeardInductive == Spec => []HeardInv
<1>1. Init => RowsHeard /\ Repeats /\ InTurn
  <2>1. ASSUME Init PROVE RowsHeard /\ Repeats /\ InTurn
    <3>1. heard = <<>> /\ rows = <<>> /\ tracker = NewTracker(None)
      BY <2>1 DEF Init, Receiver!Init, Receiver!NewTracker, NewTracker
    <3>2. HeardSeqs = {} /\ RowSeqs = {} /\ Len(heard) = 0
      BY <3>1 DEF HeardSeqs, RowSeqs, SeqsOf
    <3>3. tracker.duplicates = 0 /\ tracker.outOfOrder = 0
      BY <3>1 DEF NewTracker
    <3>4. QED
      BY <3>2, <3>3, FS_EmptySet DEF RowsHeard, Repeats, InTurn, Skipped
  <2>2. QED
    BY <2>1
<1>2. HeardInv /\ [Next]_vars => RowsHeard' /\ Repeats' /\ InTurn'
  <2>1. ASSUME HeardInv, [Next]_vars PROVE RowsHeard' /\ Repeats' /\ InTurn'
    <3>1. now \in Int
      BY <2>1 DEF HeardInv, WindowsInv, ReportInv, Numbered
    <3>2. Quiet \/ Send \/ \E i \in DOMAIN queue : Hear(i)
      BY <2>1, <3>1, Steps
    <3>3. QED
      BY <2>1, <3>2, OthersHeard, HearRepeats, HearInTurn
  <2>2. QED
    BY <2>1
<1>3. HeardInv <=> WindowsInv /\ RowsHeard /\ Repeats /\ InTurn
  BY DEF HeardInv
<1>4. QED
  BY <1>1, <1>2, <1>3, WindowsInductive, PTL DEF Spec

\* FaultsAreReal: no window, session or overflow of the history makes a packet
\* look repeated or late that was not given to the callback so.
THEOREM FaultsReal == Spec => []FaultsAreReal
<1>1. HeardInv => FaultsAreReal
  BY DEF HeardInv, Repeats, InTurn, FaultsAreReal
<1>2. QED
  BY <1>1, HeardInductive, PTL

\* The ends of the rows are those of the tracker.
LEMMA RowEnds ==
  ASSUME ReportInv, RowSeqs # {}
  PROVE  /\ SeqExt!Min(RowSeqs) = tracker.minSeen
         /\ SeqExt!Max(RowSeqs) = tracker.maxSeen
         /\ FinalLoss(tracker) = Cardinality(LostSeqs)
<1>1. /\ tracker \in TrackerType(Starts) /\ tracker.expectedStart = None
      /\ Extremes(tracker) /\ tracker.seen = RowSeqs /\ tracker.maxSeen # None
  BY DEF ReportInv, Tracked, TrackerType, Starts, Extremes
<1>2. /\ tracker.minSeen \in Nat /\ tracker.maxSeen \in Nat
      /\ tracker.minSeen <= tracker.maxSeen
      /\ RowSeqs \subseteq tracker.minSeen .. tracker.maxSeen
      /\ tracker.minSeen \in RowSeqs /\ tracker.maxSeen \in RowSeqs
  BY <1>1, ExtremesAreNat DEF Extremes
<1>3. \A x \in RowSeqs : x \in Nat /\ tracker.minSeen <= x /\ x <= tracker.maxSeen
  BY <1>2
<1>4. SeqExt!Min(RowSeqs) = tracker.minSeen
  <2>1. \A x \in RowSeqs : (\A y \in RowSeqs : x <= y) <=> x = tracker.minSeen
    BY <1>2, <1>3
  <2>2. QED
    BY <1>2, <2>1 DEF SeqExt!Min
<1>5. SeqExt!Max(RowSeqs) = tracker.maxSeen
  <2>1. \A x \in RowSeqs : (\A y \in RowSeqs : x >= y) <=> x = tracker.maxSeen
    BY <1>2, <1>3
  <2>2. QED
    BY <1>2, <2>1 DEF SeqExt!Max
<1>6. ~NothingInRange(tracker) /\ RangeStart(tracker) = tracker.minSeen
  BY <1>1, <1>2 DEF NothingInRange, RangeStart
<1>7. QED
  BY <1>1, <1>4, <1>5, <1>6 DEF FinalLoss, LostSeqs

\* LossIsNetworkLoss: in every behaviour, as long as no packet is overtaken, what
\* the receiver counts as lost was published and never reached it.  (Without the
\* premise it is false: see the run benchmark_reorder.)
THEOREM LossIsExact == Spec => []LossIsNetworkLoss
<1>1. HeardInv => LossIsNetworkLoss
  <2>1. ASSUME HeardInv, HeardInOrder PROVE LossIsNeverHeard
    <3>1. ReportInv /\ WindowsInv
      BY <2>1 DEF HeardInv, WindowsInv
    <3>2. CASE RowSeqs = {}
      <4>1. LostSeqs = {}
        BY <3>2 DEF LostSeqs
      <4>2. tracker.maxSeen = None
        BY <3>1, <3>2 DEF ReportInv, Tracked, Extremes
      <4>3. FinalLoss(tracker) = 0
        BY <4>2 DEF FinalLoss, NothingInRange
      <4>4. QED
        BY <4>1, <4>3, FS_EmptySet DEF LossIsNeverHeard
    <3>3. CASE RowSeqs # {}
      <4> DEFINE a == tracker.minSeen
                 b == tracker.maxSeen
      <4>1. /\ LostSeqs = (a .. b) \ RowSeqs
            /\ FinalLoss(tracker) = Cardinality(LostSeqs)
        BY <3>1, <3>3, RowEnds DEF LostSeqs
      <4>2. a \in RowSeqs /\ b \in RowSeqs /\ a \in Nat /\ b \in Nat
        BY <3>1, <3>3, HeardTypes DEF ReportInv, Tracked, Extremes
      <4> HIDE DEF a, b
      <4>3. ASSUME NEW n \in LostSeqs
            PROVE  n \in SeqsOf(published) \ HeardSeqs
        <5>1. n \in Nat /\ a <= n /\ n <= b /\ n \notin RowSeqs
          BY <4>1, <4>2
        <5>2. n \in SeqsOf(published)
          <6>1. b < Len(published) /\ Len(published) \in Nat
            BY <2>1, <3>1, <4>2, HeardTypes DEF HeardInv, RowsHeard, ReportInv, Numbered
          <6>2. n + 1 \in DOMAIN published
            BY <3>1, <4>2, <5>1, <6>1 DEF ReportInv, Numbered
          <6>3. published[n + 1].seq = n
            <7>1. \A i \in DOMAIN published : published[i].seq = i - 1
              BY <3>1 DEF ReportInv, Numbered
            <7>2. published[n + 1].seq = (n + 1) - 1
              BY <6>2, <7>1
            <7>3. (n + 1) - 1 = n
              BY <5>1
            <7>4. QED
              BY <7>2, <7>3
          <6>4. QED
            BY <6>2, <6>3 DEF SeqsOf
        <5>3. n \notin HeardSeqs
          <6>1. n # a /\ n # b
            BY <4>2, <5>1
          <6>2. ~(n <= a) /\ ~(b <= n)
            BY <4>2, <5>1, <6>1
          <6>3. QED
            BY <2>1, <4>2, <5>1, <6>2 DEF HeardInv, InTurn, Skipped
        <5>4. QED
          BY <5>2, <5>3
      <4>4. QED
        BY <4>1, <4>3 DEF LossIsNeverHeard
    <3>4. QED
      BY <3>2, <3>3
  <2>2. QED
    BY <2>1 DEF LossIsNetworkLoss
<1>2. QED
  BY <1>1, HeardInductive, PTL

-----------------------------------------------------------------------------
(* Without reordering *)

\* Packets are held and heard in the order of their numbers.
InOrder ==
  /\ \A i, j \in DOMAIN queue : i < j => queue[i].seq <= queue[j].seq
  /\ \A n \in HeardSeqs, j \in DOMAIN queue : n <= queue[j].seq
  /\ HeardInOrder

OrderInv == WindowsInv /\ InOrder

\* A topic that does not reorder puts a new packet behind all others.
LEMMA SendOrder == ASSUME OrderInv, Send PROVE InOrder'
<1> DEFINE p == published'[Len(published')]
<1>1. /\ UNCHANGED <<now, rMeasureEnd>>
      /\ HeardSeqs' = HeardSeqs /\ RowSeqs' = RowSeqs
  BY DEF Send, rVars, HeardSeqs, RowSeqs, SeqsOf
<1>2. HeardInOrder' = HeardInOrder
  BY DEF Send, HeardInOrder
<1>3. /\ p \in Sent /\ p.seq = Len(published) /\ Len(published) \in Nat
      /\ queue' = queue \/ queue' \in Arrivals(queue, p)
      /\ queue \in Seq(Sent)
  <2>1. /\ Len(published) \in Nat /\ queue \in Seq(Sent) /\ ReportInv
        /\ Len(published') = Len(published) + 1 /\ published' \in Seq(Sent)
    BY SendAppends DEF OrderInv, WindowsInv, ReportInv, Numbered, OnTopic
  <2>2. p \in Sent
    BY <2>1
  <2>3. QED
    BY <2>1, <2>2, SendAppends
<1> HIDE DEF p
<1>4. /\ HeardSeqs \subseteq Nat
      /\ \A n \in HeardSeqs : n <= p.seq
      /\ \A j \in DOMAIN queue : queue[j].seq \in Nat /\ queue[j].seq <= p.seq
  BY <1>3, HeardTypes DEF OrderInv
<1>5. CASE queue' = queue
  BY <1>1, <1>2, <1>5 DEF OrderInv, InOrder
<1>6. CASE queue' \in Arrivals(queue, p)
  <2>1. Holds(queue, p, queue')
    BY <1>3, <1>6, ArrivalsHold
  <2>2. PICK cut \in Nat, kept \in Nat : HoldsFrom(queue, p, queue', cut, kept)
    BY <2>1 DEF Holds
  <2>3. \A i \in DOMAIN queue' : i \in Nat
    BY <2>1 DEF Holds
  <2>4. \A i \in DOMAIN queue' :
          IF i <= kept THEN cut + i \in DOMAIN queue /\ queue'[i] = queue[cut + i]
          ELSE queue'[i] = p
    BY <1>3, <2>1, <2>2 DEF Holds, HoldsFrom
  <2>5. ASSUME NEW i \in DOMAIN queue', NEW j \in DOMAIN queue', i < j
        PROVE  queue'[i].seq <= queue'[j].seq
    <3>1. CASE j <= kept
      <4>1. /\ cut + i \in DOMAIN queue /\ queue'[i] = queue[cut + i]
            /\ cut + j \in DOMAIN queue /\ queue'[j] = queue[cut + j]
        BY <2>3, <2>4, <2>5, <3>1
      <4>2. cut + i < cut + j
        BY <2>3, <2>5
      <4>3. QED
        BY <4>1, <4>2 DEF OrderInv, InOrder
    <3>2. CASE ~(j <= kept)
      BY <1>3, <1>4, <2>4, <3>2
    <3>3. QED
      BY <3>1, <3>2
  <2>6. ASSUME NEW n \in HeardSeqs, NEW j \in DOMAIN queue'
        PROVE  n <= queue'[j].seq
    BY <1>4, <2>4 DEF OrderInv, InOrder
  <2>7. QED
    BY <1>1, <1>2, <2>5, <2>6 DEF OrderInv, InOrder
<1>7. QED
  BY <1>3, <1>5, <1>6

\* A topic that does not reorder delivers the least number that waits.
LEMMA HearOrder ==
  ASSUME "reorder" \notin Impairments, OrderInv, NEW i \in DOMAIN queue, Hear(i)
  PROVE  InOrder'
<1> DEFINE p == queue[i]
           h == [packet |-> p, at |-> now]
<1>1. /\ i = 1 /\ now' = now /\ now \in Nat
      /\ queue \in Seq(Sent) /\ p \in Sent /\ p.seq \in Nat /\ WindowsInv
  BY HearTypes DEF Hear, Deliverable, OrderInv
<1>2. HeardSeqs' = HeardSeqs \cup {p.seq}
  BY <1>1, HearGrows
<1>3. \A n \in HeardSeqs : n \in Nat /\ n <= p.seq
  BY <1>1, HeardTypes DEF OrderInv, InOrder
<1>4. HeardInOrder'
  <2>1. heard' = Append(heard, h) /\ heard \in Seq(Hearing) /\ h \in Hearing
    BY <1>1 DEF Hear, WindowsInv, Heard, Hearing
  <2>2. h.packet.seq = p.seq
    OBVIOUS
  <2> HIDE DEF h
  <2>3. /\ Len(heard') = Len(heard) + 1 /\ heard' \in Seq(Hearing)
        /\ \A k \in 1 .. Len(heard) : heard'[k] = heard[k]
        /\ heard'[Len(heard) + 1] = h
    BY <2>1, AppendProperties
  <2>4. \A k \in DOMAIN heard' :
          \/ k \in DOMAIN heard /\ heard'[k] = heard[k]
          \/ k = Len(heard) + 1 /\ heard'[k] = h
    BY <2>1, <2>3
  <2>5. \A k \in DOMAIN heard : heard[k].packet.seq <= p.seq
    BY <1>3 DEF HeardSeqs
  <2>6. ASSUME NEW j \in DOMAIN heard', NEW k \in DOMAIN heard', j < k
        PROVE  heard'[j].packet.seq <= heard'[k].packet.seq
    <3>1. j \in DOMAIN heard /\ heard'[j] = heard[j]
      BY <2>1, <2>3, <2>4, <2>6
    <3>2. CASE k \in DOMAIN heard /\ heard'[k] = heard[k]
      BY <2>6, <3>1, <3>2 DEF OrderInv, InOrder, HeardInOrder
    <3>3. CASE heard'[k] = h
      BY <2>2, <2>5, <3>1, <3>3
    <3>4. QED
      BY <2>4, <3>2, <3>3
  <2>7. QED
    BY <2>6 DEF HeardInOrder
<1>5. /\ \A j, k \in DOMAIN queue' : j < k => queue'[j].seq <= queue'[k].seq
      /\ \A j \in DOMAIN queue' : queue'[j].seq \in Nat /\ p.seq <= queue'[j].seq
  <2>1. /\ queue' \in Seq(Sent) /\ Len(queue') = Len(queue) - 1
        /\ \A j \in 1 .. Len(queue') : queue'[j] = IF j < i THEN queue[j] ELSE queue[j + 1]
    BY <1>1, RemoveKeeps DEF Hear
  <2>2. \A j \in DOMAIN queue' : j + 1 \in DOMAIN queue /\ queue'[j] = queue[j + 1] /\ j \in Nat
                                 /\ 1 < j + 1
    BY <1>1, <2>1
  <2>3. \A j \in DOMAIN queue' : queue'[j].seq \in Nat /\ p.seq <= queue'[j].seq
    BY <1>1, <2>2, HeardTypes DEF OrderInv, InOrder
  <2>4. \A j, k \in DOMAIN queue' : j < k => j + 1 < k + 1
    BY <2>2
  <2>5. \A j, k \in DOMAIN queue' : j < k => queue'[j].seq <= queue'[k].seq
    BY <2>2, <2>4 DEF OrderInv, InOrder
  <2>6. QED
    BY <2>3, <2>5
<1>6. \A n \in HeardSeqs', j \in DOMAIN queue' : n <= queue'[j].seq
  BY <1>1, <1>2, <1>3, <1>5
<1>7. QED
  BY <1>4, <1>5, <1>6 DEF InOrder

\* A topic that does not reorder keeps the order through the history, whatever it
\* loses, repeats or drops there: HeardInOrder, the premise of the above, holds.
THEOREM OrderKept == "reorder" \notin Impairments => (Spec => []HeardInOrder)
<1> SUFFICES ASSUME "reorder" \notin Impairments
             PROVE  Spec => []HeardInOrder
  OBVIOUS
<1>1. Init => InOrder
  <2>1. ASSUME Init PROVE InOrder
    <3>1. queue = <<>> /\ heard = <<>>
      BY <2>1 DEF Init
    <3>2. QED
      BY <3>1 DEF InOrder, HeardSeqs, HeardInOrder
  <2>2. QED
    BY <2>1
<1>2. OrderInv /\ [Next]_vars => InOrder'
  <2>1. ASSUME OrderInv, [Next]_vars PROVE InOrder'
    <3>1. now \in Int
      BY <2>1 DEF OrderInv, WindowsInv, ReportInv, Numbered
    <3>2. Quiet \/ Send \/ \E i \in DOMAIN queue : Hear(i)
      BY <2>1, <3>1, Steps
    <3>3. CASE Quiet
      BY <2>1, <3>3 DEF OrderInv, InOrder, Quiet, HeardSeqs, HeardInOrder
    <3>4. QED
      BY <2>1, <3>2, <3>3, SendOrder, HearOrder
  <2>2. QED
    BY <2>1
<1>3. /\ OrderInv <=> WindowsInv /\ InOrder
      /\ InOrder => HeardInOrder
  BY DEF OrderInv, InOrder
<1>4. QED
  BY <1>1, <1>2, <1>3, WindowsInductive, PTL DEF Spec

-----------------------------------------------------------------------------
(* A sender process that dies and is started again (StreamRestart) *)

\* A process with session id publishes a packet.
PublishAs(id) ==
  /\ published' = Append(published,
       [session |-> id, seq |-> seq, sentAt |-> now, size |-> SenderPayload])
  /\ seq' = seq + 1
  /\ Transmit
  /\ UNCHANGED <<now, rVars, heard>>

\* The second process publishes as the first does, with its own session id.
LEMMA SecondSteps ==
  ASSUME NEW id, now \in Int,
         SenderOf(id)!RunStep, Transmit, UNCHANGED <<rVars, heard>>
  PROVE  Quiet \/ PublishAs(id)
<1>1. CASE SenderOf(id)!OnTimer /\ SenderOf(id)!Publish
  BY <1>1 DEF PublishAs, SenderOf!OnTimer, SenderOf!envVars, SenderOf!Publish,
              SenderOf!TakeSeq, SenderOf!PacketToSend
<1>2. CASE SenderOf(id)!OnTimer /\ SenderOf(id)!Finish
  <2>1. UNCHANGED <<now, seq, published>>
    BY <1>2 DEF SenderOf!OnTimer, SenderOf!Finish, SenderOf!envVars,
                SenderOf!streamVars
  <2>2. UNCHANGED queue
    BY <2>1 DEF Transmit
  <2>3. QED
    BY <2>1, <2>2 DEF Quiet, rVars
<1>3. CASE ~SenderOf(id)!OnTimer
  <2>1. UNCHANGED <<now, seq, published>>
    BY <1>3 DEF SenderOf!RunStep, SenderOf!WaitInterrupted,
         SenderOf!CheckSubscribers, SenderOf!CheckWaitTimeout, SenderOf!Start,
         SenderOf!EnterIteration, SenderOf!LeaveLoop, SenderOf!SpinIdle,
         SenderOf!WriteSummary, SenderOf!envVars, SenderOf!nodeVars,
         SenderOf!streamVars
  <2>2. UNCHANGED queue
    BY <2>1 DEF Transmit
  <2>3. QED
    BY <2>1, <2>2 DEF Quiet, rVars
<1>4. QED
  BY <1>1, <1>2, <1>3 DEF SenderOf!OnTimer

\* The steps of the two processes, the receiver and the topic.
LEMMA RestartSteps ==
  ASSUME now \in Int, seq \in Nat, ~restarted => session = SenderSession,
         [RestartNext]_allVars
  PROVE  \/ Restart
         \/ /\ UNCHANGED restartVars
            /\ \/ Quiet
               \/ PublishAs(session)
               \/ \E i \in DOMAIN queue : Hear(i)
<1>1. CASE UNCHANGED allVars
  BY <1>1 DEF allVars, vars, sVars, rVars, topicVars, Quiet
<1>2. CASE SecondStep /\ UNCHANGED restartVars
  BY <1>2, SecondSteps DEF SecondStep
<1>3. CASE /\ FirstStep \/ ReceiverStep \/ Deliver \/ Discover \/ Signal \/ Tick
           /\ UNCHANGED restartVars
  <2>1. Next
    BY <1>3 DEF FirstStep, Next
  <2>2. Quiet \/ Send \/ \E i \in DOMAIN queue : Hear(i)
    BY <2>1, Steps
  <2>3. CASE Send
    <3>1. PublishAs(SenderSession)
      BY <2>3 DEF Send, PublishAs, Sender!Publish, Sender!TakeSeq,
                  Sender!PacketToSend
    <3>2. ~restarted
      <4>1. seq' # seq
        BY <3>1 DEF PublishAs
      <4>2. ReceiverStep \/ Deliver \/ Discover \/ Signal \/ Tick => UNCHANGED seq
        BY DEF ReceiverStep, Deliver, Discover, Signal, Tick, sVars,
               Sender!GraphChange, Sender!Interrupt, Sender!Tick,
               Sender!nodeVars, Sender!streamVars
      <4>3. QED
        BY <1>3, <4>1, <4>2 DEF FirstStep
    <3>3. QED
      BY <1>3, <3>1, <3>2
  <2>4. QED
    BY <1>3, <2>2, <2>3
<1>4. QED
  BY <1>1, <1>2, <1>3 DEF RestartNext

(* The inductive invariant *)

AnyPacket == [session : Nat, seq : Nat, sentAt : Int, size : Nat]

\* A stream numbers its packets from 0.
StreamOf(s) ==
  /\ s \in Seq(AnyPacket)
  /\ \A i \in DOMAIN s : s[i].seq = i - 1

Streams ==
  /\ now \in Nat /\ session \in Nat
  /\ StreamOf(former) /\ StreamOf(published)
  /\ seq = Len(published)
  /\ queue \in Seq(AnyPacket)
  /\ rows \in Seq(Receiver!Row)
  /\ Tracked
  /\ ~restarted => session = SenderSession /\ former = <<>>

Flagged(r) == r.duplicate \/ r.reordered

\* The first k packets on the topic are of the first process, the others of
\* the one that runs; those of one process are in order.
TopicSplit(k) ==
  /\ \A i \in DOMAIN queue :
       /\ i <= k => queue[i].session = SenderSession /\ Genuine(former, queue[i])
       /\ i > k => queue[i].session = session /\ Genuine(published, queue[i])
  /\ \A i, j \in DOMAIN queue :
       i < j /\ (i <= k <=> j <= k) => queue[i].seq < queue[j].seq

\* So are the first m rows, none of which looks repeated or late.
RowsSplit(m) ==
  /\ \A i \in DOMAIN rows :
       /\ i <= m => Genuine(former, rows[i]) /\ ~Flagged(rows[i])
       /\ i > m => Genuine(published, rows[i]) /\ (Flagged(rows[i]) => restarted)
  /\ m > 0 => activeSession = SenderSession
  /\ m < Len(rows) => activeSession = session

\* The rows of a process come before what is left of it on the topic.
RowsFirst(k, m) ==
  /\ k > 0 => m = Len(rows)
  /\ \A i \in DOMAIN queue, j \in DOMAIN rows :
       (i <= k <=> j <= m) => rows[j].seq < queue[i].seq

\* Only numbers below n, which both processes used, look repeated or late.
DamageBelow(k, n) ==
  /\ tracker.duplicates + tracker.outOfOrder <= n
  /\ n <= Len(former) /\ n <= Len(published)
  /\ \A i \in DOMAIN queue : i > k => n <= queue[i].seq
  /\ session # SenderSession => n = 0

Split ==
  \E k \in 0 .. Len(queue), m \in 0 .. Len(rows), n \in Nat :
    TopicSplit(k) /\ RowsSplit(m) /\ RowsFirst(k, m) /\ DamageBelow(k, n)

RestartInv == Streams /\ Split

\* The types of what Streams speaks of, field by field.
LEMMA StreamTypes ==
  ASSUME Streams
  PROVE  /\ Len(former) \in Nat /\ Len(published) \in Nat /\ Len(queue) \in Nat
         /\ Len(rows) \in Nat
         /\ DOMAIN queue = 1 .. Len(queue) /\ DOMAIN rows = 1 .. Len(rows)
         /\ \A i \in DOMAIN queue : /\ queue[i] \in AnyPacket /\ queue[i].session \in Nat
                                    /\ queue[i].seq \in Nat /\ queue[i].sentAt \in Int
                                    /\ queue[i].size \in Nat
         /\ \A i \in DOMAIN rows : rows[i].seq \in Nat /\ rows[i].sentAt \in Int
         /\ tracker.duplicates \in Nat /\ tracker.outOfOrder \in Nat
<1>1. /\ Len(former) \in Nat /\ Len(published) \in Nat /\ Len(queue) \in Nat
      /\ Len(rows) \in Nat
      /\ DOMAIN queue = 1 .. Len(queue) /\ DOMAIN rows = 1 .. Len(rows)
  BY DEF Streams, StreamOf
<1>2. \A i \in DOMAIN queue : queue[i] \in AnyPacket
  BY DEF Streams
<1>3. \A p \in AnyPacket : /\ p.session \in Nat /\ p.seq \in Nat
                           /\ p.sentAt \in Int /\ p.size \in Nat
  BY DEF AnyPacket
<1>4. \A i \in DOMAIN rows : rows[i].seq \in Nat /\ rows[i].sentAt \in Int
  BY FieldTypes DEF Streams
<1>5. tracker.duplicates \in Nat /\ tracker.outOfOrder \in Nat
  BY DEF Streams, Tracked, TrackerType
<1>6. QED
  BY <1>1, <1>2, <1>3, <1>4, <1>5

\* Time, and what happens beside the streams, changes none of this.
LEMMA QuietRestart ==
  ASSUME RestartInv, Quiet, UNCHANGED restartVars
  PROVE  RestartInv'
<1>1. now \in Nat /\ now' \in Nat
  BY DEF RestartInv, Streams, Quiet
<1>2. /\ UNCHANGED <<seq, published, queue, rows, tracker, activeSession>>
      /\ UNCHANGED <<session, restarted, former>>
  BY DEF Quiet, restartVars
<1>3. Streams'
  BY <1>1, <1>2 DEF RestartInv, Streams, StreamOf, Tracked, RowSeqs, SeqsOf
<1>4. Split'
  BY <1>2 DEF RestartInv, Split, TopicSplit, RowsSplit, RowsFirst, DamageBelow, Genuine
<1>5. QED
  BY <1>3, <1>4 DEF RestartInv

\* A topic that at worst loses a packet: the history loses its first packet or
\* none, and the new one is added or not.
LEMMA TransmitAppends ==
  ASSUME Impairments \subseteq {"loss"}, queue \in Seq(AnyPacket),
         NEW p \in AnyPacket, queue' \in Arrivals(queue, p)
  PROVE  \/ queue' = queue
         \/ /\ queue' \in Seq(AnyPacket)
            /\ \E cut \in {0, 1} :
                 /\ cut <= Len(queue)
                 /\ Len(queue') = Len(queue) - cut + 1
                 /\ \A i \in 1 .. Len(queue) - cut : queue'[i] = queue[cut + i]
                 /\ queue'[Len(queue')] = p
<1>1. queue' = queue \/ queue' = Enqueue(queue, p)
  BY DEF Arrivals
<1>2. CASE queue' = Enqueue(queue, p) /\ Len(queue) < Depth
  <2>1. queue' = Append(queue, p)
    BY <1>2 DEF Enqueue
  <2>2. /\ queue' \in Seq(AnyPacket) /\ Len(queue') = Len(queue) + 1
        /\ \A i \in 1 .. Len(queue) : queue'[i] = queue[i]
        /\ queue'[Len(queue) + 1] = p
        /\ Len(queue) \in Nat
    BY <2>1, AppendProperties
  <2>3. /\ Len(queue') = Len(queue) - 0 + 1
        /\ \A i \in 1 .. Len(queue) - 0 : queue'[i] = queue[0 + i]
        /\ queue'[Len(queue')] = p
    BY <2>2
  <2>4. QED
    BY <2>2, <2>3
<1>3. CASE queue' = Enqueue(queue, p) /\ ~(Len(queue) < Depth)
  <2>1. queue # <<>> /\ Len(queue) \in Nat
    BY <1>3, BenchmarkAssumption
  <2>2. /\ Tail(queue) \in Seq(AnyPacket) /\ Len(Tail(queue)) = Len(queue) - 1
        /\ \A i \in 1 .. Len(queue) - 1 : Tail(queue)[i] = queue[i + 1]
    BY <2>1, HeadTailProperties
  <2>3. queue' = Append(Tail(queue), p)
    BY <1>3 DEF Enqueue
  <2>4. /\ queue' \in Seq(AnyPacket) /\ Len(queue') = Len(queue) - 1 + 1
        /\ \A i \in 1 .. Len(queue) - 1 : queue'[i] = queue[i + 1]
        /\ queue'[Len(queue) - 1 + 1] = p
    BY <2>2, <2>3, AppendProperties
  <2>5. \A i \in 1 .. Len(queue) - 1 : queue'[i] = queue[1 + i]
    BY <2>1, <2>4
  <2>6. 1 <= Len(queue)
    BY <2>1
  <2>7. QED
    BY <2>4, <2>5, <2>6
<1>4. QED
  BY <1>1, <1>2, <1>3

\* A packet published continues its stream, and the topic keeps its order.
LEMMA PublishRestart ==
  ASSUME Impairments \subseteq {"loss"}, RestartInv, PublishAs(session),
         UNCHANGED restartVars
  PROVE  RestartInv'
<1> DEFINE len == Len(published)
           p == [session |-> session, seq |-> len, sentAt |-> now, size |-> SenderPayload]
<1>1. Streams
  BY DEF RestartInv
<1>2. /\ len \in Nat /\ p \in AnyPacket
      /\ published' = Append(published, p) /\ seq' = len + 1
      /\ published \in Seq(AnyPacket)
  <2>1. SenderPayload \in Nat
    BY BenchmarkAssumption
  <2>2. p \in AnyPacket
    BY <1>1, <2>1, StreamTypes DEF Streams, AnyPacket
  <2>3. QED
    BY <1>1, <2>2, StreamTypes DEF Streams, StreamOf, PublishAs
<1>3. p.session = session /\ p.seq = len /\ p.sentAt = now
  OBVIOUS
<1> HIDE DEF p
<1>4. /\ published' \in Seq(AnyPacket) /\ Len(published') = len + 1
      /\ \A i \in 1 .. len : published'[i] = published[i]
      /\ published'[len + 1] = p
  BY <1>2, AppendProperties
<1>5. /\ UNCHANGED <<now, rows, tracker, activeSession>>
      /\ UNCHANGED <<session, restarted, former>>
  BY DEF PublishAs, rVars, restartVars
<1>6. queue' \in Seq(AnyPacket) /\
        \/ queue' = queue
        \/ \E cut \in {0, 1} :
             /\ cut <= Len(queue)
             /\ Len(queue') = Len(queue) - cut + 1
             /\ \A i \in 1 .. Len(queue) - cut : queue'[i] = queue[cut + i]
             /\ queue'[Len(queue')] = p
  <2>1. queue' = queue \/ queue' \in Arrivals(queue, p)
    BY <1>2, <1>4 DEF PublishAs, Transmit, SeqExt!Last
  <2>2. queue \in Seq(AnyPacket)
    BY <1>1 DEF Streams
  <2>3. QED
    BY <1>2, <2>1, <2>2, TransmitAppends
<1>7. \A q : q.seq \in Nat /\ Genuine(published, q) => Genuine(published', q)
  <2>1. SUFFICES ASSUME NEW q, q.seq \in Nat, Genuine(published, q)
                 PROVE  Genuine(published', q)
    OBVIOUS
  <2>2. q.seq + 1 \in 1 .. len /\ q.seq < Len(published')
    BY <1>2, <1>4, <2>1 DEF Genuine
  <2>3. QED
    BY <1>4, <2>1, <2>2 DEF Genuine
<1>8. Genuine(published', p) /\ p.seq \in Nat
  BY <1>2, <1>3, <1>4 DEF Genuine
<1>9. Streams'
  <2>1. \A i \in DOMAIN published' : published'[i].seq = i - 1
    <3>1. \A i \in 1 .. len + 1 : i \in 1 .. len \/ i = len + 1
      BY <1>2
    <3>2. \A i \in 1 .. len : published[i].seq = i - 1
      BY <1>1 DEF Streams, StreamOf
    <3>3. QED
      BY <1>2, <1>3, <1>4, <3>1, <3>2
  <2>2. StreamOf(published)'
    BY <1>4, <2>1 DEF StreamOf
  <2>3. QED
    BY <1>1, <1>2, <1>4, <1>5, <1>6, <2>2 DEF Streams, StreamOf, Tracked, RowSeqs, SeqsOf
<1>10. PICK k \in 0 .. Len(queue), m \in 0 .. Len(rows), n \in Nat :
         TopicSplit(k) /\ RowsSplit(m) /\ RowsFirst(k, m) /\ DamageBelow(k, n)
  BY DEF RestartInv, Split
<1>11. RowsSplit(m)'
  <2>1. \A i \in DOMAIN rows : Genuine(published, rows[i]) => Genuine(published', rows[i])
    BY <1>1, <1>7, StreamTypes
  <2>2. \A i \in DOMAIN rows :
          /\ i <= m => Genuine(former, rows[i]) /\ ~Flagged(rows[i])
          /\ i > m => Genuine(published', rows[i]) /\ (Flagged(rows[i]) => restarted)
    BY <1>10, <2>1 DEF RowsSplit
  <2>3. QED
    BY <1>5, <1>10, <2>2 DEF RowsSplit
<1>12. CASE queue' = queue
  <2>1. TopicSplit(k)'
    <3>1. \A i \in DOMAIN queue : Genuine(published, queue[i]) => Genuine(published', queue[i])
      BY <1>1, <1>7, StreamTypes
    <3>2. QED
      BY <1>5, <1>10, <1>12, <3>1 DEF TopicSplit
  <2>2. RowsFirst(k, m)'
    BY <1>5, <1>10, <1>12 DEF RowsFirst
  <2>3. DamageBelow(k, n)'
    BY <1>2, <1>4, <1>5, <1>10, <1>12 DEF DamageBelow
  <2>4. k \in 0 .. Len(queue') /\ m \in 0 .. Len(rows')
    BY <1>5, <1>10, <1>12
  <2>5. Split'
    BY <1>10, <1>11, <2>1, <2>2, <2>3, <2>4 DEF Split
  <2>6. QED
    BY <1>9, <2>5 DEF RestartInv
<1>13. ASSUME NEW cut \in {0, 1}, cut <= Len(queue),
              Len(queue') = Len(queue) - cut + 1,
              \A i \in 1 .. Len(queue) - cut : queue'[i] = queue[cut + i],
              queue'[Len(queue')] = p
       PROVE  RestartInv'
  <2> DEFINE k2 == IF cut <= k THEN k - cut ELSE 0
             last == Len(queue')
  <2>1. /\ Len(queue) \in Nat /\ last \in Nat \ {0} /\ last = Len(queue) - cut + 1
        /\ DOMAIN queue' = 1 .. last /\ DOMAIN queue = 1 .. Len(queue)
    BY <1>1, <1>6, <1>13, StreamTypes
  <2>2. k2 \in 0 .. Len(queue') /\ k2 < last /\ (k2 > 0 => k > 0)
    BY <1>10, <1>13, <2>1
  <2>3. \A i \in DOMAIN queue' :
          \/ i = last /\ queue'[i] = p /\ i > k2
          \/ /\ i < last /\ cut + i \in DOMAIN queue /\ queue'[i] = queue[cut + i]
             /\ i <= k2 <=> cut + i <= k
    <3>1. SUFFICES ASSUME NEW i \in 1 .. last
                   PROVE  \/ i = last /\ queue'[i] = p /\ i > k2
                          \/ /\ i < last /\ cut + i \in DOMAIN queue
                             /\ queue'[i] = queue[cut + i]
                             /\ i <= k2 <=> cut + i <= k
      BY <2>1
    <3>2. CASE i = last
      BY <1>13, <2>2, <3>2
    <3>3. CASE i # last
      <4>1. i \in 1 .. Len(queue) - cut
        BY <1>13, <2>1, <3>3
      <4>2. cut + i \in DOMAIN queue /\ queue'[i] = queue[cut + i]
        BY <1>13, <2>1, <4>1
      <4>3. i <= k2 <=> cut + i <= k
        BY <1>10, <1>13, <4>1
      <4>4. QED
        BY <2>1, <3>3, <4>2, <4>3
    <3>4. QED
      BY <3>2, <3>3
  <2>4. \A i \in DOMAIN queue : /\ queue[i].seq \in Nat
                                /\ Genuine(published, queue[i]) => Genuine(published', queue[i])
    BY <1>1, <1>7, StreamTypes
  <2> HIDE DEF k2, last
  <2>5. TopicSplit(k2)'
    <3>1. ASSUME NEW i \in DOMAIN queue'
          PROVE  /\ i <= k2 => queue'[i].session = SenderSession /\ Genuine(former, queue'[i])
                 /\ i > k2 => queue'[i].session = session /\ Genuine(published', queue'[i])
      <4>1. CASE i = last /\ queue'[i] = p /\ i > k2
        BY <1>3, <1>8, <2>1, <2>2, <4>1
      <4>2. CASE /\ cut + i \in DOMAIN queue /\ queue'[i] = queue[cut + i]
                 /\ i <= k2 <=> cut + i <= k
        <5>1. /\ cut + i <= k => queue[cut + i].session = SenderSession
                                   /\ Genuine(former, queue[cut + i])
              /\ cut + i > k => queue[cut + i].session = session
                                  /\ Genuine(published, queue[cut + i])
          BY <1>10, <4>2 DEF TopicSplit
        <5>2. i > k2 <=> cut + i > k
          BY <1>10, <2>1, <2>2, <4>2
        <5>3. QED
          BY <2>4, <4>2, <5>1, <5>2
      <4>3. QED
        BY <2>3, <4>1, <4>2
    <3>2. ASSUME NEW i \in DOMAIN queue', NEW j \in DOMAIN queue',
                 i < j, i <= k2 <=> j <= k2
          PROVE  queue'[i].seq < queue'[j].seq
      <4>1. i < last /\ cut + i \in DOMAIN queue /\ queue'[i] = queue[cut + i]
            /\ (i <= k2 <=> cut + i <= k)
        BY <2>1, <2>3, <3>2
      <4>2. CASE j = last /\ queue'[j] = p /\ j > k2
        <5>1. cut + i > k
          BY <1>10, <2>1, <2>2, <3>2, <4>1, <4>2
        <5>2. Genuine(published, queue[cut + i])
          BY <1>10, <4>1, <5>1 DEF TopicSplit
        <5>3. QED
          BY <1>3, <4>1, <4>2, <5>2 DEF Genuine
      <4>3. CASE /\ cut + j \in DOMAIN queue /\ queue'[j] = queue[cut + j]
                 /\ j <= k2 <=> cut + j <= k
        <5>1. cut + i < cut + j
          BY <2>1, <3>2
        <5>2. queue[cut + i].seq < queue[cut + j].seq
          BY <1>10, <3>2, <4>1, <4>3, <5>1 DEF TopicSplit
        <5>3. QED
          BY <4>1, <4>3, <5>2
      <4>4. QED
        BY <2>3, <4>2, <4>3
    <3>3. QED
      BY <1>5, <3>1, <3>2 DEF TopicSplit
  <2>6. RowsFirst(k2, m)'
    <3>1. ASSUME NEW i \in DOMAIN queue', NEW j \in DOMAIN rows, i <= k2 <=> j <= m
          PROVE  rows[j].seq < queue'[i].seq
      <4>1. CASE i = last /\ queue'[i] = p /\ i > k2
        <5>1. j > m
          BY <1>1, <1>10, <2>1, <2>2, <3>1, <4>1, StreamTypes
        <5>2. Genuine(published, rows[j])
          BY <1>10, <5>1 DEF RowsSplit
        <5>3. QED
          BY <1>3, <4>1, <5>2 DEF Genuine
      <4>2. CASE /\ cut + i \in DOMAIN queue /\ queue'[i] = queue[cut + i]
                 /\ i <= k2 <=> cut + i <= k
        BY <1>10, <3>1, <4>2 DEF RowsFirst
      <4>3. QED
        BY <2>3, <4>1, <4>2
    <3>2. k2 > 0 => m = Len(rows)
      BY <1>10, <2>2 DEF RowsFirst
    <3>3. QED
      BY <1>5, <3>1, <3>2 DEF RowsFirst
  <2>7. DamageBelow(k2, n)'
    <3>1. ASSUME NEW i \in DOMAIN queue', i > k2
          PROVE  n <= queue'[i].seq
      <4>1. CASE i = last /\ queue'[i] = p
        BY <1>3, <1>10, <4>1 DEF DamageBelow
      <4>2. CASE /\ cut + i \in DOMAIN queue /\ queue'[i] = queue[cut + i]
                 /\ i <= k2 <=> cut + i <= k
        <5>1. cut + i > k
          BY <1>10, <2>1, <2>2, <3>1, <4>2
        <5>2. QED
          BY <1>10, <4>2, <5>1 DEF DamageBelow
      <4>3. QED
        BY <2>3, <4>1, <4>2
    <3>2. n <= Len(published')
      BY <1>2, <1>4, <1>10 DEF DamageBelow
    <3>3. QED
      BY <1>5, <1>10, <3>1, <3>2 DEF DamageBelow
  <2>8. Split'
    BY <1>5, <1>10, <1>11, <2>2, <2>5, <2>6, <2>7 DEF Split
  <2>9. QED
    BY <1>9, <2>8 DEF RestartInv
<1>14. QED
  BY <1>6, <1>12, <1>13

\* After a restart everything before it is of the first process.
LEMMA RestartKept ==
  ASSUME RestartInv, Restart
  PROVE  RestartInv'
<1>1. Streams
  BY DEF RestartInv
<1>2. /\ session = SenderSession /\ former = <<>> /\ Len(former) = 0
      /\ ~restarted /\ restarted'
  BY <1>1 DEF Streams, Restart
<1>3. PICK k \in 0 .. Len(queue), m \in 0 .. Len(rows), n \in Nat :
        TopicSplit(k) /\ RowsSplit(m) /\ RowsFirst(k, m) /\ DamageBelow(k, n)
  BY DEF RestartInv, Split
<1>4. k = 0 /\ m = 0 /\ n = 0
  <2>1. n = 0
    BY <1>2, <1>3 DEF DamageBelow
  <2>2. ASSUME k # 0 PROVE FALSE
    <3>1. 1 \in DOMAIN queue /\ 1 <= k
      BY <1>1, <1>3, <2>2, StreamTypes
    <3>2. Genuine(former, queue[1]) /\ queue[1].seq \in Nat
      BY <1>1, <1>3, <3>1, StreamTypes DEF TopicSplit
    <3>3. QED
      BY <1>2, <3>2 DEF Genuine
  <2>3. ASSUME m # 0 PROVE FALSE
    <3>1. 1 \in DOMAIN rows /\ 1 <= m
      BY <1>1, <1>3, <2>3, StreamTypes
    <3>2. Genuine(former, rows[1]) /\ rows[1].seq \in Nat
      BY <1>1, <1>3, <3>1, StreamTypes DEF RowsSplit
    <3>3. QED
      BY <1>2, <3>2 DEF Genuine
  <2>4. QED
    BY <2>1, <2>2, <2>3
<1>5. /\ former' = published /\ published' = <<>> /\ seq' = 0 /\ session' \in Nat
      /\ UNCHANGED <<now, rows, tracker, activeSession>>
  BY RestartAssumption DEF Restart, FreshProcess, FirstNumber, rVars
<1>6. /\ queue' \in Seq(AnyPacket) /\ Len(queue') \in Nat
      /\ DOMAIN queue' = 1 .. Len(queue')
      /\ \A i \in DOMAIN queue' : i \in DOMAIN queue /\ queue'[i] = queue[i]
  <2>1. PICK l \in 0 .. Len(queue) : queue' = SubSeq(queue, 1, l)
    BY DEF Restart
  <2>2. queue \in Seq(AnyPacket) /\ Len(queue) \in Nat /\ l \in Nat
    BY <1>1, <2>1, StreamTypes DEF Streams
  <2>3. \A i \in 1 .. l : i \in DOMAIN queue /\ queue[i] \in AnyPacket
    BY <2>2
  <2>4. /\ queue' \in Seq(AnyPacket) /\ Len(queue') = l
        /\ \A i \in 1 .. l : queue'[i] = queue[i]
    BY <2>1, <2>2, <2>3, SubSeqProperties
  <2>5. QED
    BY <2>2, <2>3, <2>4
<1>7. Streams'
  <2>1. StreamOf(former)' /\ StreamOf(published)'
    BY <1>1, <1>5 DEF Streams, StreamOf
  <2>2. Len(published') = 0
    BY <1>5
  <2>3. QED
    BY <1>1, <1>2, <1>5, <1>6, <2>1, <2>2 DEF Streams, Tracked, RowSeqs, SeqsOf
<1>8. PICK k2 \in Nat : k2 = Len(queue')
  BY <1>6
<1>9. PICK m2 \in Nat : m2 = Len(rows)
  BY <1>1, StreamTypes
<1>10. TopicSplit(k2)'
  <2>1. \A i \in DOMAIN queue : queue[i].session = SenderSession /\ Genuine(published, queue[i])
    BY <1>1, <1>2, <1>3, <1>4, StreamTypes DEF TopicSplit
  <2>2. \A i, j \in DOMAIN queue : i < j => queue[i].seq < queue[j].seq
    BY <1>1, <1>3, <1>4, StreamTypes DEF TopicSplit
  <2>3. \A i \in DOMAIN queue' : i <= k2 /\ ~(i > k2)
    BY <1>6, <1>8
  <2>4. QED
    BY <1>5, <1>6, <2>1, <2>2, <2>3 DEF TopicSplit
<1>11. RowsSplit(m2)'
  <2>1. \A i \in DOMAIN rows : Genuine(published, rows[i]) /\ ~Flagged(rows[i])
    BY <1>1, <1>2, <1>3, <1>4, StreamTypes DEF RowsSplit
  <2>2. \A i \in DOMAIN rows : i <= m2 /\ ~(i > m2)
    BY <1>1, <1>9, StreamTypes
  <2>3. m2 > 0 => activeSession = SenderSession
    BY <1>2, <1>3, <1>4, <1>9 DEF RowsSplit
  <2>4. ~(m2 < Len(rows))
    BY <1>1, <1>9, StreamTypes
  <2>5. QED
    BY <1>5, <2>1, <2>2, <2>3, <2>4 DEF RowsSplit
<1>12. RowsFirst(k2, m2)'
  <2>1. \A i \in DOMAIN queue, j \in DOMAIN rows : rows[j].seq < queue[i].seq
    BY <1>1, <1>3, <1>4, StreamTypes DEF RowsFirst
  <2>2. QED
    BY <1>5, <1>6, <1>9, <2>1 DEF RowsFirst
<1>13. DamageBelow(k2, 0)'
  <2>1. tracker.duplicates + tracker.outOfOrder <= 0
    BY <1>3, <1>4 DEF DamageBelow
  <2>2. 0 <= Len(former') /\ 0 <= Len(published')
    BY <1>1, <1>5, StreamTypes
  <2>3. \A i \in DOMAIN queue' : ~(i > k2)
    BY <1>6, <1>8
  <2>4. QED
    BY <1>5, <2>1, <2>2, <2>3 DEF DamageBelow
<1>14. Split'
  <2>1. k2 \in 0 .. Len(queue') /\ m2 \in 0 .. Len(rows') /\ 0 \in Nat
    BY <1>1, <1>5, <1>6, <1>8, <1>9, StreamTypes
  <2>2. QED
    BY <1>10, <1>11, <1>12, <1>13, <2>1 DEF Split
<1>15. QED
  BY <1>7, <1>14 DEF RestartInv

\* What the callback does with a packet of any session: nothing, or one row.
LEMMA HearSamples ==
  ASSUME Streams, NEW i \in DOMAIN queue, Hear(i)
  PROVE  LET p == queue[i]
             row == Receiver!RowFor(p)
         IN  /\ \/ activeSession' = activeSession
                \/ activeSession = None /\ activeSession' = p.session
             /\ \/ UNCHANGED <<tracker, rows>>
                \/ /\ tracker' = Observe(tracker, p.seq)
                   /\ rows' = Append(rows, row)
                   /\ row \in Receiver!Row
                   /\ row.seq = p.seq /\ row.sentAt = p.sentAt
                   /\ row.duplicate = IsDuplicate(tracker, p.seq)
                   /\ row.reordered = IsOutOfOrder(tracker, p.seq)
                   /\ activeSession' = p.session
<1> DEFINE p == queue[i]
           row == Receiver!RowFor(p)
<1>1. CASE Receiver!OtherSession(p)
  BY <1>1 DEF Receiver!OtherSession, Receiver!nodeVars, Receiver!sampleVars
<1>2. CASE Receiver!Accept(p) /\ UNCHANGED <<tracker, rows>>
  BY <1>2 DEF Receiver!Accept, Receiver!SessionFor
<1>3. CASE Receiver!Measure(p)
  <2>1. tracker' = Observe(tracker, p.seq) /\ rows' = Append(rows, row)
    BY <1>3, SameTracker DEF Receiver!Measure
  <2>2. /\ p.seq \in Nat /\ p.sentAt \in Int /\ p.size \in Nat /\ now \in Nat
        /\ tracker \in TrackerType(Starts)
    BY StreamTypes DEF Streams, Tracked, TrackerType, Starts
  <2>3. EventFor(tracker, p.seq) \in Event
    BY <2>2, ObserveType
  <2>4. Receiver!EventFor(tracker, p.seq) = EventFor(tracker, p.seq)
    BY SameTracker
  <2>5. row \in Receiver!Row /\ row.seq = p.seq /\ row.sentAt = p.sentAt
    BY <2>2, <2>3, <2>4 DEF Receiver!RowFor, Receiver!Row, Receiver!WallNow, Event
  <2>6. /\ row.duplicate = IsDuplicate(tracker, p.seq)
        /\ row.reordered = IsOutOfOrder(tracker, p.seq)
    BY <2>4 DEF Receiver!RowFor, EventFor
  <2>7. activeSession' = p.session /\ activeSession \in {None, p.session}
    BY <1>3 DEF Receiver!Measure, Receiver!Accept, Receiver!SessionFor
  <2>8. QED
    BY <2>1, <2>5, <2>6, <2>7
<1>4. QED
  BY <1>1, <1>2, <1>3 DEF Hear, Receiver!OnPacket, Receiver!DuringWarmup,
                          Receiver!AfterWindow, Receiver!sampleVars

\* A packet looks repeated or late only if its number, or a greater one, was
\* measured before it, and then it counts once.
LEMMA FlagCounts ==
  ASSUME Streams, NEW n \in Nat, tracker' = Observe(tracker, n)
  PROVE  LET flag == IsDuplicate(tracker, n) \/ IsOutOfOrder(tracker, n)
         IN  /\ tracker'.duplicates + tracker'.outOfOrder =
                  tracker.duplicates + tracker.outOfOrder + (IF flag THEN 1 ELSE 0)
             /\ flag => \E j \in DOMAIN rows : n <= rows[j].seq
<1> DEFINE dup  == IsDuplicate(tracker, n)
           late == IsOutOfOrder(tracker, n)
<1>1. tracker \in TrackerType(Starts) /\ Extremes(tracker) /\ tracker.seen = RowSeqs
  BY DEF Streams, Tracked, TrackerType, Starts
<1>2. /\ tracker'.duplicates = tracker.duplicates + (IF dup THEN 1 ELSE 0)
      /\ tracker'.outOfOrder = tracker.outOfOrder + (IF late THEN 1 ELSE 0)
  BY <1>1, ObserveCounts DEF EventFor
<1>3. ~(dup /\ late)
  BY DEF IsOutOfOrder
<1>4. tracker.duplicates \in Nat /\ tracker.outOfOrder \in Nat
  BY <1>1 DEF TrackerType
<1>5. tracker'.duplicates + tracker'.outOfOrder =
        tracker.duplicates + tracker.outOfOrder + (IF dup \/ late THEN 1 ELSE 0)
  <2>1. CASE dup
    BY <1>2, <1>3, <1>4, <2>1
  <2>2. CASE late
    BY <1>2, <1>3, <1>4, <2>2
  <2>3. CASE ~dup /\ ~late
    BY <1>2, <1>4, <2>3
  <2>4. QED
    BY <2>1, <2>2, <2>3
<1>6. dup => \E j \in DOMAIN rows : n <= rows[j].seq
  <2>1. dup => \E j \in DOMAIN rows : n = rows[j].seq
    BY <1>1 DEF IsDuplicate, RowSeqs, SeqsOf
  <2>2. QED
    BY <2>1
<1>7. late => \E j \in DOMAIN rows : n <= rows[j].seq
  <2>1. late => tracker.maxSeen \in RowSeqs /\ n < tracker.maxSeen
    BY <1>1 DEF IsOutOfOrder, Extremes
  <2>2. late => \E j \in DOMAIN rows : n < rows[j].seq
    BY <2>1 DEF RowSeqs, SeqsOf
  <2>3. QED
    BY <2>2, StreamTypes
<1>8. QED
  BY <1>5, <1>6, <1>7

\* The callback gets the first packet on the topic.
LEMMA HearRestart ==
  ASSUME "reorder" \notin Impairments, RestartInv, NEW i \in DOMAIN queue, Hear(i),
         UNCHANGED restartVars
  PROVE  RestartInv'
<1> DEFINE p == queue[1]
           row == Receiver!RowFor(p)
<1>1. i = 1 /\ 1 \in DOMAIN queue
  BY DEF Hear, Deliverable
<1>2. Streams
  BY DEF RestartInv
<1>3. /\ p.session \in Nat /\ p.seq \in Nat
      /\ SenderSession \in Nat /\ session \in Nat /\ None \notin Nat
  <2>1. p.session \in Nat /\ p.seq \in Nat
    BY <1>1, <1>2, StreamTypes
  <2>2. SenderSession \in Nat /\ session \in Nat
    BY <1>2, BenchmarkAssumption DEF Streams
  <2>3. None \notin Nat
    BY NoneAssumption
  <2>4. QED
    BY <2>1, <2>2, <2>3
<1>4. /\ queue' \in Seq(AnyPacket)
      /\ DOMAIN queue' = 1 .. Len(queue) - 1 /\ Len(queue') = Len(queue) - 1
      /\ \A j \in DOMAIN queue' : j + 1 \in DOMAIN queue /\ queue'[j] = queue[j + 1]
  <2>1. queue \in Seq(AnyPacket) /\ Len(queue) \in Nat /\ DOMAIN queue = 1 .. Len(queue)
    BY <1>2, StreamTypes DEF Streams
  <2>2. queue' = SeqExt!RemoveAt(queue, 1)
    BY <1>1 DEF Hear
  <2>3. /\ queue' \in Seq(AnyPacket) /\ Len(queue') = Len(queue) - 1
        /\ \A j \in 1 .. Len(queue') :
             queue'[j] = IF j < 1 THEN queue[j] ELSE queue[j + 1]
    BY <1>1, <2>1, <2>2, RemoveKeeps
  <2>4. DOMAIN queue' = 1 .. Len(queue')
    BY <2>3, LenProperties
  <2>5. \A j \in 1 .. Len(queue') : ~(j < 1) /\ j + 1 \in DOMAIN queue
    BY <2>1, <2>3
  <2>6. QED
    BY <2>3, <2>4, <2>5
<1>5. UNCHANGED <<now, seq, published, session, restarted, former>>
  BY DEF Hear, sVars, restartVars
<1>6. /\ \/ activeSession' = activeSession
         \/ activeSession = None /\ activeSession' = p.session
      /\ \/ UNCHANGED <<tracker, rows>>
         \/ /\ tracker' = Observe(tracker, p.seq)
            /\ rows' = Append(rows, row)
            /\ row \in Receiver!Row
            /\ row.seq = p.seq /\ row.sentAt = p.sentAt
            /\ row.duplicate = IsDuplicate(tracker, p.seq)
            /\ row.reordered = IsOutOfOrder(tracker, p.seq)
            /\ activeSession' = p.session
  BY <1>1, <1>2, HearSamples
<1> HIDE DEF row
<1>7. PICK k \in 0 .. Len(queue), m \in 0 .. Len(rows), n \in Nat :
        TopicSplit(k) /\ RowsSplit(m) /\ RowsFirst(k, m) /\ DamageBelow(k, n)
  BY DEF RestartInv, Split
<1>8. PICK k2 \in Nat : k2 = IF k > 0 THEN k - 1 ELSE 0
  BY <1>2, <1>7, StreamTypes
<1>9. /\ k2 \in 0 .. Len(queue') /\ (k2 > 0 => k > 0)
      /\ \A j \in DOMAIN queue' : (j <= k2 <=> j + 1 <= k) /\ (j > k2 <=> j + 1 > k)
  BY <1>1, <1>2, <1>4, <1>7, <1>8, StreamTypes
<1>10. TopicSplit(k2)'
  <2>1. \A j \in DOMAIN queue' :
          /\ j <= k2 => queue'[j].session = SenderSession /\ Genuine(former, queue'[j])
          /\ j > k2 => queue'[j].session = session /\ Genuine(published, queue'[j])
    BY <1>4, <1>7, <1>9 DEF TopicSplit
  <2>2. ASSUME NEW j \in DOMAIN queue', NEW l \in DOMAIN queue',
               j < l, j <= k2 <=> l <= k2
        PROVE  queue'[j].seq < queue'[l].seq
    <3>1. j + 1 < l + 1 /\ (j + 1 <= k <=> l + 1 <= k)
      BY <1>4, <1>9, <2>2
    <3>2. queue[j + 1].seq < queue[l + 1].seq
      BY <1>4, <1>7, <3>1 DEF TopicSplit
    <3>3. QED
      BY <1>4, <3>2
  <2>3. QED
    BY <1>5, <2>1, <2>2 DEF TopicSplit
<1>11. \A j \in DOMAIN queue' : (j <= k2 <=> 1 <= k) => p.seq < queue'[j].seq
  <2>1. ASSUME NEW j \in DOMAIN queue', j <= k2 <=> 1 <= k
        PROVE  p.seq < queue'[j].seq
    <3>1. 1 < j + 1 /\ (1 <= k <=> j + 1 <= k)
      BY <1>4, <1>9, <2>1
    <3>2. queue[1].seq < queue[j + 1].seq
      BY <1>1, <1>4, <1>7, <3>1 DEF TopicSplit
    <3>3. QED
      BY <1>4, <3>2
  <2>2. QED
    BY <2>1
<1>12. \A j \in DOMAIN queue', l \in DOMAIN rows :
         (j <= k2 <=> l <= m) => rows[l].seq < queue'[j].seq
  BY <1>4, <1>7, <1>9 DEF RowsFirst
<1>13. /\ m > 0 => activeSession' = SenderSession
       /\ m < Len(rows) => activeSession' = session
  BY <1>3, <1>6, <1>7 DEF RowsSplit
<1>14. \A j \in DOMAIN queue' : j > k2 => n <= queue'[j].seq
  BY <1>4, <1>7, <1>9 DEF DamageBelow
<1>15. CASE UNCHANGED <<tracker, rows>>
  <2>1. Streams'
    BY <1>2, <1>4, <1>5, <1>15 DEF Streams, StreamOf, Tracked, RowSeqs, SeqsOf
  <2>2. RowsSplit(m)'
    BY <1>5, <1>7, <1>13, <1>15 DEF RowsSplit
  <2>3. RowsFirst(k2, m)'
    BY <1>7, <1>9, <1>12, <1>15 DEF RowsFirst
  <2>4. DamageBelow(k2, n)'
    BY <1>5, <1>7, <1>14, <1>15 DEF DamageBelow
  <2>5. Split'
    BY <1>7, <1>9, <1>10, <1>15, <2>2, <2>3, <2>4 DEF Split
  <2>6. QED
    BY <2>1, <2>5 DEF RestartInv
<1>16. CASE /\ tracker' = Observe(tracker, p.seq)
            /\ rows' = Append(rows, row)
            /\ row \in Receiver!Row
            /\ row.seq = p.seq /\ row.sentAt = p.sentAt
            /\ row.duplicate = IsDuplicate(tracker, p.seq)
            /\ row.reordered = IsOutOfOrder(tracker, p.seq)
            /\ activeSession' = p.session
  <2>1. Streams'
    <3>1. rows \in Seq(Receiver!Row) /\ Tracked
      BY <1>2 DEF Streams
    <3>2. Tracked' /\ rows' \in Seq(Receiver!Row)
      BY <1>16, <3>1, TrackedKept, AppendProperties
    <3>3. QED
      BY <1>2, <1>4, <1>5, <3>2 DEF Streams, StreamOf
  <2>2. /\ Len(rows) \in Nat /\ DOMAIN rows = 1 .. Len(rows)
        /\ Len(rows') = Len(rows) + 1 /\ DOMAIN rows' = 1 .. Len(rows) + 1
        /\ \A j \in DOMAIN rows : rows'[j] = rows[j]
        /\ rows'[Len(rows) + 1] = row
    <3>1. rows \in Seq(Receiver!Row)
      BY <1>2 DEF Streams
    <3>2. QED
      BY <1>16, <3>1, AppendProperties, LenProperties
  <2>3. \A j \in DOMAIN rows' : j \in DOMAIN rows \/ j = Len(rows) + 1
    BY <2>2
  <2>4. /\ tracker'.duplicates + tracker'.outOfOrder =
             tracker.duplicates + tracker.outOfOrder + (IF Flagged(row) THEN 1 ELSE 0)
        /\ Flagged(row) => \E j \in DOMAIN rows : p.seq <= rows[j].seq
    BY <1>2, <1>3, <1>16, FlagCounts DEF Flagged
  <2>5. tracker.duplicates \in Nat /\ tracker.outOfOrder \in Nat
    BY <1>2, StreamTypes
  <2>6. \A j \in DOMAIN rows : (1 <= k <=> j <= m) => rows[j].seq < p.seq
    BY <1>1, <1>7 DEF RowsFirst
  <2>7. CASE k > 0
    <3>1. PICK m2 \in Nat : m2 = Len(rows) + 1
      BY <2>2
    <3>2. m = Len(rows) /\ 1 <= k
      BY <1>7, <2>7 DEF RowsFirst
    <3>3. ~Flagged(row)
      <4>1. \A j \in DOMAIN rows : rows[j].seq < p.seq /\ rows[j].seq \in Nat
        BY <1>2, <2>2, <2>6, <3>2, StreamTypes
      <4>2. QED
        BY <1>3, <2>4, <4>1
    <3>4. p.session = SenderSession /\ Genuine(former, row)
      BY <1>1, <1>7, <1>16, <3>2 DEF TopicSplit, Genuine
    <3>5. RowsSplit(m2)'
      <4>1. \A j \in DOMAIN rows' : /\ j <= m2 /\ ~(j > m2)
                                    /\ Genuine(former, rows'[j]) /\ ~Flagged(rows'[j])
        <5>1. \A j \in DOMAIN rows : Genuine(former, rows[j]) /\ ~Flagged(rows[j])
          BY <1>7, <2>2, <3>2 DEF RowsSplit
        <5>2. QED
          BY <2>2, <2>3, <3>1, <3>3, <3>4, <5>1
      <4>2. ~(m2 < Len(rows'))
        BY <2>2, <3>1
      <4>3. QED
        BY <1>5, <1>16, <3>4, <4>1, <4>2 DEF RowsSplit
    <3>6. RowsFirst(k2, m2)'
      <4>1. \A j \in DOMAIN queue', l \in DOMAIN rows' :
              (j <= k2 <=> l <= m2) => rows'[l].seq < queue'[j].seq
        <5>1. SUFFICES ASSUME NEW j \in DOMAIN queue', NEW l \in DOMAIN rows',
                              j <= k2 <=> l <= m2
                       PROVE  rows'[l].seq < queue'[j].seq
          OBVIOUS
        <5>2. j <= k2
          BY <2>2, <3>1, <5>1
        <5>3. CASE l \in DOMAIN rows
          BY <1>12, <2>2, <3>2, <5>2, <5>3
        <5>4. CASE l = Len(rows) + 1
          BY <1>11, <1>16, <2>2, <3>2, <5>2, <5>4
        <5>5. QED
          BY <2>3, <5>3, <5>4
      <4>2. m2 = Len(rows')
        BY <2>2, <3>1
      <4>3. QED
        BY <4>1, <4>2 DEF RowsFirst
    <3>7. DamageBelow(k2, n)'
      BY <1>5, <1>7, <1>14, <2>4, <2>5, <3>3 DEF DamageBelow
    <3>8. m2 \in 0 .. Len(rows')
      BY <2>2, <3>1
    <3>9. Split'
      BY <1>7, <1>9, <1>10, <3>5, <3>6, <3>7, <3>8 DEF Split
    <3>10. QED
      BY <2>1, <3>9 DEF RestartInv
  <2>8. CASE ~(k > 0)
    <3>1. k = 0 /\ k2 = 0 /\ ~(1 <= k)
      BY <1>7, <1>8, <2>8
    <3>2. p.session = session /\ Genuine(published, row) /\ n <= p.seq
      BY <1>1, <1>7, <1>16, <3>1 DEF TopicSplit, DamageBelow, Genuine
    <3>3. Flagged(row) => /\ m > 0 /\ restarted /\ p.seq < Len(former)
      <4>1. SUFFICES ASSUME Flagged(row)
                     PROVE  m > 0 /\ restarted /\ p.seq < Len(former)
        OBVIOUS
      <4>2. PICK j \in DOMAIN rows : p.seq <= rows[j].seq
        BY <2>4, <4>1
      <4>3. rows[j].seq \in Nat
        BY <1>2, StreamTypes
      <4>4. j <= m
        BY <1>3, <2>6, <3>1, <4>2, <4>3
      <4>5. rows[j].seq < Len(former)
        BY <1>7, <4>4 DEF RowsSplit, Genuine
      <4>6. Len(former) \in Nat /\ former # <<>>
        BY <1>2, <4>3, <4>5, StreamTypes
      <4>7. QED
        BY <1>2, <1>3, <1>7, <2>2, <4>2, <4>3, <4>4, <4>5, <4>6 DEF Streams
    <3>4. RowsSplit(m)'
      <4>1. ASSUME NEW j \in DOMAIN rows'
            PROVE  /\ j <= m => Genuine(former, rows'[j]) /\ ~Flagged(rows'[j])
                   /\ j > m => Genuine(published, rows'[j]) /\ (Flagged(rows'[j]) => restarted)
        <5>1. CASE j \in DOMAIN rows
          BY <1>7, <2>2, <5>1 DEF RowsSplit
        <5>2. CASE j = Len(rows) + 1
          BY <1>7, <2>2, <3>2, <3>3, <5>2
        <5>3. QED
          BY <2>3, <5>1, <5>2
      <4>2. m < Len(rows') => activeSession' = session
        BY <1>16, <3>2
      <4>3. QED
        BY <1>5, <1>13, <4>1, <4>2 DEF RowsSplit
    <3>5. RowsFirst(k2, m)'
      <4>1. \A j \in DOMAIN queue', l \in DOMAIN rows' :
              (j <= k2 <=> l <= m) => rows'[l].seq < queue'[j].seq
        <5>1. SUFFICES ASSUME NEW j \in DOMAIN queue', NEW l \in DOMAIN rows',
                              j <= k2 <=> l <= m
                       PROVE  rows'[l].seq < queue'[j].seq
          OBVIOUS
        <5>2. ~(j <= k2)
          BY <1>2, <1>4, <3>1, StreamTypes
        <5>3. CASE l \in DOMAIN rows
          BY <1>12, <2>2, <5>1, <5>3
        <5>4. CASE l = Len(rows) + 1
          BY <1>11, <1>16, <2>2, <3>1, <5>2, <5>4
        <5>5. QED
          BY <2>3, <5>3, <5>4
      <4>2. QED
        BY <3>1, <4>1 DEF RowsFirst
    <3>6. m \in 0 .. Len(rows')
      BY <1>7, <2>2
    <3>7. CASE ~Flagged(row)
      <4>1. DamageBelow(k2, n)'
        BY <1>5, <1>7, <1>14, <2>4, <2>5, <3>7 DEF DamageBelow
      <4>2. Split'
        BY <1>7, <1>9, <1>10, <3>4, <3>5, <3>6, <4>1 DEF Split
      <4>3. QED
        BY <2>1, <4>2 DEF RestartInv
    <3>8. CASE Flagged(row)
      <4>1. PICK n2 \in Nat : n2 = p.seq + 1
        BY <1>3
      <4>2. session = SenderSession
        <5>1. activeSession' = SenderSession
          BY <1>13, <3>3, <3>8
        <5>2. QED
          BY <1>16, <3>2, <5>1
      <4>3. tracker'.duplicates + tracker'.outOfOrder <= n2
        <5>1. PICK d \in Nat : d = tracker.duplicates + tracker.outOfOrder
          BY <2>5
        <5>2. d <= n
          BY <1>7, <5>1 DEF DamageBelow
        <5>3. tracker'.duplicates + tracker'.outOfOrder = d + 1
          BY <2>4, <3>8, <5>1
        <5>4. n <= p.seq /\ p.seq \in Nat
          BY <1>3, <3>2
        <5>5. d + 1 <= n2
          BY <4>1, <5>2, <5>4
        <5>6. QED
          BY <5>3, <5>5
      <4>4. n2 <= Len(former) /\ n2 <= Len(published)
        BY <1>2, <1>3, <1>16, <3>2, <3>3, <3>8, <4>1, StreamTypes DEF Genuine
      <4>5. \A j \in DOMAIN queue' : n2 <= queue'[j].seq
        <5>1. ASSUME NEW j \in DOMAIN queue' PROVE n2 <= queue'[j].seq
          <6>1. ~(j <= k2)
            BY <1>2, <1>4, <3>1, StreamTypes
          <6>2. p.seq < queue'[j].seq
            BY <1>11, <3>1, <6>1
          <6>3. queue'[j].seq \in Nat
            BY <1>2, <1>4, StreamTypes
          <6>4. QED
            BY <1>3, <4>1, <6>2, <6>3
        <5>2. QED
          BY <5>1
      <4>6. DamageBelow(k2, n2)'
        BY <1>5, <4>2, <4>3, <4>4, <4>5 DEF DamageBelow
      <4>7. Split'
        BY <1>7, <1>9, <1>10, <3>4, <3>5, <3>6, <4>1, <4>6 DEF Split
      <4>8. QED
        BY <2>1, <4>7 DEF RestartInv
    <3>9. QED
      BY <3>7, <3>8
  <2>9. QED
    BY <2>7, <2>8
<1>17. QED
  BY <1>6, <1>15, <1>16

\* RestartInv holds in every behaviour with a restart, if the topic neither
\* repeats packets nor lets them overtake one another.
THEOREM RestartInductive ==
  Impairments \subseteq {"loss"} => (RestartSpec => []RestartInv)
<1> SUFFICES ASSUME Impairments \subseteq {"loss"}
             PROVE  RestartSpec => []RestartInv
  OBVIOUS
<1>1. RestartInit => RestartInv
  <2>1. ASSUME RestartInit PROVE RestartInv
    <3>1. /\ now = 0 /\ seq = 0 /\ published = <<>> /\ queue = <<>> /\ rows = <<>>
          /\ tracker = NewTracker(None)
      BY <2>1 DEF RestartInit, Init, Sender!Init, Receiver!Init,
                  Receiver!NewTracker, NewTracker
    <3>2. tracker \in TrackerType({None}) /\ Extremes(tracker) /\ tracker.seen = {}
      BY <3>1, FS_EmptySet DEF NewTracker, TrackerType, Extremes
    <3>3. tracker.duplicates = 0 /\ tracker.outOfOrder = 0
      BY <3>1 DEF NewTracker
    <3>4. RowSeqs = {}
      BY <3>1 DEF RowSeqs, SeqsOf
    <3>5. session = SenderSession /\ session \in Nat /\ former = <<>>
      BY <2>1, BenchmarkAssumption DEF RestartInit
    <3>6. Streams
      BY <3>1, <3>2, <3>4, <3>5 DEF Streams, StreamOf, Tracked
    <3>7. TopicSplit(0) /\ RowsSplit(0) /\ RowsFirst(0, 0) /\ DamageBelow(0, 0)
      BY <3>1, <3>3, <3>5 DEF TopicSplit, RowsSplit, RowsFirst, DamageBelow
    <3>8. Split
      BY <3>1, <3>7 DEF Split
    <3>9. QED
      BY <3>6, <3>8 DEF RestartInv
  <2>2. QED
    BY <2>1
<1>2. RestartInv /\ [RestartNext]_allVars => RestartInv'
  <2>1. ASSUME RestartInv, [RestartNext]_allVars PROVE RestartInv'
    <3>1. "reorder" \notin Impairments
      OBVIOUS
    <3>2. now \in Int /\ seq \in Nat /\ (~restarted => session = SenderSession)
      BY <2>1, StreamTypes DEF RestartInv, Streams
    <3>3. CASE Restart
      BY <2>1, <3>3, RestartKept
    <3>4. CASE Quiet /\ UNCHANGED restartVars
      BY <2>1, <3>4, QuietRestart
    <3>5. CASE PublishAs(session) /\ UNCHANGED restartVars
      BY <2>1, <3>5, PublishRestart
    <3>6. CASE (\E i \in DOMAIN queue : Hear(i)) /\ UNCHANGED restartVars
      BY <2>1, <3>1, <3>6, HearRestart
    <3>7. QED
      BY <2>1, <3>2, <3>3, <3>4, <3>5, <3>6, RestartSteps
  <2>2. QED
    BY <2>1
<1>3. QED
  BY <1>1, <1>2, PTL DEF RestartSpec

\* Rows that are all of one stream.
LEMMA RowsOfStream ==
  ASSUME Streams, NEW s, StreamOf(s), \A i \in DOMAIN rows : Genuine(s, rows[i])
  PROVE  RowsOf(s) /\ InferredSent(tracker) <= Len(s)
<1>1. Len(s) \in Nat /\ DOMAIN s = 1 .. Len(s)
  BY DEF StreamOf
<1>2. \A i \in DOMAIN rows : /\ rows[i].seq \in Nat /\ rows[i].seq < Len(s)
                             /\ rows[i].sentAt = s[rows[i].seq + 1].sentAt
  BY StreamTypes DEF Genuine
<1>3. InferredSent(tracker) <= Len(s)
  BY <1>1, <1>2, InferredBelow DEF Streams
<1>4. ASSUME NEW i \in DOMAIN rows
      PROVE  \E j \in DOMAIN s : s[j].seq = rows[i].seq /\ s[j].sentAt = rows[i].sentAt
  <2>1. rows[i].seq + 1 \in DOMAIN s
    BY <1>1, <1>2
  <2>2. s[rows[i].seq + 1].seq = rows[i].seq
    BY <1>2, <2>1 DEF StreamOf
  <2>3. QED
    BY <1>2, <2>1, <2>2
<1>5. QED
  BY <1>3, <1>4 DEF RowsOf

\* SessionsKeptApart: a second process with a session id of its own disturbs
\* nothing in the report, whenever the first one dies.
THEOREM SessionsApart ==
  Impairments \subseteq {"loss"} => (RestartSpec => []SessionsKeptApart)
<1>1. RestartInv => SessionsKeptApart
  <2>1. ASSUME RestartInv, session # SenderSession
        PROVE  /\ \E s \in {former, published} :
                    RowsOf(s) /\ InferredSent(tracker) <= Len(s)
               /\ tracker.duplicates = 0
               /\ tracker.outOfOrder = 0
    <3>1. Streams /\ StreamOf(former) /\ StreamOf(published)
      BY <2>1 DEF RestartInv, Streams
    <3>2. PICK k \in 0 .. Len(queue), m \in 0 .. Len(rows), n \in Nat :
            RowsSplit(m) /\ DamageBelow(k, n)
      BY <2>1 DEF RestartInv, Split
    <3>3. tracker.duplicates = 0 /\ tracker.outOfOrder = 0
      <4>1. tracker.duplicates + tracker.outOfOrder <= 0
        BY <2>1, <3>2 DEF DamageBelow
      <4>2. QED
        BY <3>1, <4>1, StreamTypes
    <3>4. m = 0 \/ m = Len(rows)
      <4>1. ~(m > 0 /\ m < Len(rows))
        BY <2>1, <3>2 DEF RowsSplit
      <4>2. m \in 0 .. Len(rows) /\ Len(rows) \in Nat
        BY <3>1, <3>2, StreamTypes
      <4>3. QED
        BY <4>1, <4>2
    <3>5. CASE m = 0
      <4>1. \A i \in DOMAIN rows : Genuine(published, rows[i])
        BY <3>1, <3>2, <3>5, StreamTypes DEF RowsSplit
      <4>2. QED
        BY <3>1, <3>3, <4>1, RowsOfStream
    <3>6. CASE m = Len(rows)
      <4>1. \A i \in DOMAIN rows : Genuine(former, rows[i])
        BY <3>1, <3>2, <3>6, StreamTypes DEF RowsSplit
      <4>2. QED
        BY <3>1, <3>3, <4>1, RowsOfStream
    <3>7. QED
      BY <3>4, <3>5, <3>6
  <2>2. QED
    BY <2>1 DEF SessionsKeptApart
<1>2. QED
  BY <1>1, RestartInductive, PTL

\* DamageIsBounded: a second process with the session id of the first makes only
\* rows of its own look repeated or late, with numbers that both have used, and
\* the receiver infers no more sent than the longer of the two streams.
THEOREM DamageBounded ==
  Impairments \subseteq {"loss"} => (RestartSpec => []DamageIsBounded)
<1>1. RestartInv => DamageIsBounded
  <2>1. ASSUME RestartInv PROVE DamageIsBounded
    <3> DEFINE a == Len(former)
               b == Len(published)
               both == former \o published
    <3>1. Streams /\ StreamOf(former) /\ StreamOf(published)
      BY <2>1 DEF RestartInv, Streams
    <3>2. a \in Nat /\ b \in Nat /\ \A i \in DOMAIN rows : rows[i].seq \in Nat
      BY <3>1, StreamTypes
    <3>3. PICK k \in 0 .. Len(queue), m \in 0 .. Len(rows), n \in Nat :
            RowsSplit(m) /\ DamageBelow(k, n)
      BY <2>1 DEF RestartInv, Split
    <3>4. \A i \in DOMAIN rows : \/ Genuine(former, rows[i]) /\ ~Flagged(rows[i])
                                 \/ /\ Genuine(published, rows[i])
                                    /\ Flagged(rows[i]) => restarted
      BY <3>1, <3>3, StreamTypes DEF RowsSplit
    <3>5. RowsOf(both)
      <4>1. /\ DOMAIN both = 1 .. a + b
            /\ \A j \in 1 .. a + b : both[j] = IF j <= a THEN former[j] ELSE published[j - a]
        <5>1. former \in Seq(AnyPacket) /\ published \in Seq(AnyPacket)
          BY <3>1 DEF StreamOf
        <5>2. both \in Seq(AnyPacket) /\ Len(both) = a + b
          BY <5>1, ConcatProperties
        <5>3. DOMAIN both = 1 .. a + b
          BY <5>2, LenProperties
        <5>4. QED
          BY <5>1, <5>3, ConcatProperties
      <4> HIDE DEF both
      <4>2. ASSUME NEW i \in DOMAIN rows
            PROVE  \E j \in DOMAIN both : /\ both[j].seq = rows[i].seq
                                          /\ both[j].sentAt = rows[i].sentAt
        <5>1. CASE Genuine(former, rows[i])
          <6>1. rows[i].seq + 1 \in 1 .. a
            BY <3>2, <5>1 DEF Genuine
          <6>2. former[rows[i].seq + 1].seq = rows[i].seq
            <7>1. rows[i].seq + 1 \in DOMAIN former
              BY <3>1, <6>1 DEF StreamOf
            <7>2. former[rows[i].seq + 1].seq = (rows[i].seq + 1) - 1
              BY <3>1, <7>1 DEF StreamOf
            <7>3. QED
              BY <3>2, <7>2
          <6>3. both[rows[i].seq + 1] = former[rows[i].seq + 1] /\ rows[i].seq + 1 \in 1 .. a + b
            BY <3>2, <4>1, <6>1
          <6>4. QED
            BY <4>1, <5>1, <6>2, <6>3 DEF Genuine
        <5>2. CASE Genuine(published, rows[i])
          <6>1. rows[i].seq + 1 \in 1 .. b
            BY <3>2, <5>2 DEF Genuine
          <6>2. published[rows[i].seq + 1].seq = rows[i].seq
            <7>1. rows[i].seq + 1 \in DOMAIN published
              BY <3>1, <6>1 DEF StreamOf
            <7>2. published[rows[i].seq + 1].seq = (rows[i].seq + 1) - 1
              BY <3>1, <7>1 DEF StreamOf
            <7>3. QED
              BY <3>2, <7>2
          <6> DEFINE j == a + (rows[i].seq + 1)
          <6>3. j \in 1 .. a + b
            <7>1. \A x, y, s \in Nat : s + 1 \in 1 .. y => x + (s + 1) \in 1 .. x + y
              OBVIOUS
            <7>2. rows[i].seq \in Nat
              BY <3>2
            <7>3. QED
              BY <3>2, <6>1, <7>1, <7>2
          <6>4. ~(j <= a) /\ j - a = rows[i].seq + 1
            <7>1. \A x, s \in Nat :
                    ~(x + (s + 1) <= x) /\ (x + (s + 1)) - x = s + 1
              OBVIOUS
            <7>2. rows[i].seq \in Nat
              BY <3>2
            <7>3. QED
              BY <3>2, <7>1, <7>2
          <6> HIDE DEF j
          <6>5. both[j] = published[rows[i].seq + 1]
            BY <4>1, <6>3, <6>4
          <6>6. QED
            BY <4>1, <5>2, <6>2, <6>3, <6>5 DEF Genuine
        <5>3. QED
          BY <3>4, <5>1, <5>2
      <4>3. QED
        BY <4>2 DEF RowsOf
    <3>6. InferredSent(tracker) <= SeqExt!Max({a, b})
      <4>1. PICK c \in {a, b} : a <= c /\ b <= c
        BY <3>2
      <4>2. SeqExt!Max({a, b}) = c
        <5>1. \A x \in {a, b} : (\A y \in {a, b} : x >= y) <=> x = c
          BY <3>2, <4>1
        <5>2. QED
          BY <4>1, <5>1 DEF SeqExt!Max
      <4>3. \A i \in DOMAIN rows : rows[i].seq < c
        BY <3>2, <3>4, <4>1 DEF Genuine
      <4>4. InferredSent(tracker) <= c
        BY <3>1, <3>2, <4>1, <4>3, InferredBelow DEF Streams
      <4>5. QED
        BY <4>2, <4>4
    <3>7. tracker.duplicates + tracker.outOfOrder <= a
      <4>1. tracker.duplicates + tracker.outOfOrder <= n /\ n <= a
        BY <3>3 DEF DamageBelow
      <4>2. tracker.duplicates \in Nat /\ tracker.outOfOrder \in Nat
        BY <3>1, StreamTypes
      <4>3. QED
        BY <3>2, <4>1, <4>2
    <3>8. \A i \in DOMAIN rows :
            rows[i].duplicate \/ rows[i].reordered =>
              /\ restarted
              /\ rows[i].seq < Len(published)
              /\ rows[i].sentAt = published[rows[i].seq + 1].sentAt
      BY <3>4 DEF Flagged, Genuine
    <3>9. QED
      BY <3>5, <3>6, <3>7, <3>8 DEF DamageIsBounded
  <2>2. QED
    BY <2>1
<1>2. QED
  BY <1>1, RestartInductive, PTL
=============================================================================

------------------------- MODULE StreamSenderProofs -------------------------
(***************************************************************************)
(* Theorems about StreamSender, for any window, period and delays of the   *)
(* process.                                                                *)
(***************************************************************************)
EXTENDS StreamSender, TLAPS

\* Before start() nothing was sent, and after it the window is known.
Begun ==
  /\ startedAt = None <=> rpc \in {"wait", "waitTimeout", "start"}
  /\ startedAt = None =>
       seq = 0 /\ sentRows = <<>> /\ published = <<>> /\ finished = FALSE

\* The timer is a period further with every packet, counted from start() and,
\* from the first measured packet on, from the beginning of the measurement;
\* and it is never set more than a period ahead.
TimerAhead ==
  nextCall # None =>
    /\ nextCall >= startedAt + (seq + 1) * Period
    /\ sentRows # <<>> => nextCall >= measureStart + (Len(sentRows) - 1) * Period
    /\ nextCall <= now + Period

SentInPast == \A i \in DOMAIN published : published[i].sentAt <= now

FinishedInPast == finished => startedAt # None /\ now >= measureEnd

\* The invariant of the stream, and what it takes to be inductive.
SenderInv ==
  /\ TypeOK
  /\ Begun
  /\ TimerAhead
  /\ SentInPast
  /\ FinishedInPast
  /\ NumberedWithoutGap
  /\ RowsAreMeasuredTail
  /\ RateNotExceeded
  /\ ExitJustified

\* What the proofs use of the assumptions on the constants.
LEMMA ConstantTypes ==
  /\ Warmup \in Nat /\ PayloadSize \in Nat /\ SessionId \in Nat
  /\ Duration \in Nat /\ Period \in Nat
  /\ MaxTime \in Nat /\ Time \subseteq Nat /\ None \notin Int
BY SenderAssumption DEF Time

\* Once begun, the window lies where start() put it.
LEMMA WindowSet ==
  ASSUME TypeOK, startedAt # None
  PROVE  /\ startedAt \in Nat
         /\ measureStart \in Nat /\ measureStart = startedAt + Warmup
         /\ measureEnd \in Nat /\ measureEnd = measureStart + Duration
         /\ nextCall \in IF finished THEN {None} ELSE Nat
         /\ nextCall # None => nextCall \in Nat
<1>1. {startedAt, measureStart, measureEnd, nextCall} # {None}
  OBVIOUS
<1>2. /\ startedAt \in Time
      /\ measureStart = startedAt + Warmup
      /\ measureEnd = measureStart + Duration
      /\ nextCall \in IF finished THEN {None} ELSE Nat
  BY <1>1 DEF TypeOK
<1>3. startedAt \in Nat /\ measureStart \in Nat
  BY <1>2, ConstantTypes
<1>4. QED
  BY <1>2, <1>3, ConstantTypes

\* How far NextCall moves the timer: a period at least, never into the past,
\* and never more than a period ahead.
LEMMA CallsMoveOn ==
  ASSUME now \in Nat, nextCall \in Nat, now >= nextCall
  PROVE  /\ NextCall \in Nat
         /\ NextCall >= nextCall + Period
         /\ NextCall >= now
         /\ NextCall <= now + Period
<1> DEFINE k == (now - nextCall + Period - 1) \div Period
<1>1. Period \in Nat
  BY ConstantTypes
<1>2. CASE Period = 0
  BY <1>2 DEF NextCall
<1>3. CASE Period # 0 /\ now <= nextCall + Period
  <2>1. NextCall = nextCall + Period
    BY <1>1, <1>3 DEF NextCall
  <2>2. QED
    BY <1>1, <1>3, <2>1
<1>4. CASE Period # 0 /\ now > nextCall + Period
  <2> DEFINE a == now - nextCall + Period - 1
  <2>1. a \in Nat /\ a >= 2 * Period
    BY <1>1, <1>4
  <2> HIDE DEF a
  <2>2. /\ a \div Period \in Int
        /\ Period * (a \div Period) <= a
        /\ a < Period * (a \div Period) + Period
    BY <1>1, <1>4, <2>1, SMTT(30)
  <2> QED
    BY <1>1, <2>1, <2>2, <1>4, SMTT(30) DEF NextCall, a
<1> QED
  BY <1>1, <1>2, <1>3, <1>4

-----------------------------------------------------------------------------
\* Everything that a packet depends on, when it is published.
LEMMA PublishContext ==
  ASSUME SenderInv, OnTimer
  PROVE  /\ now \in Nat /\ startedAt # None /\ startedAt \in Nat
         /\ measureStart \in Nat /\ measureStart = startedAt + Warmup
         /\ measureEnd \in Nat /\ measureEnd = measureStart + Duration
         /\ nextCall \in Nat /\ nextCall # None /\ now >= nextCall
         /\ NextCall \in Nat /\ NextCall >= nextCall + Period /\ NextCall >= now
         /\ NextCall <= now + Period
         /\ finished = FALSE
         /\ seq \in Nat /\ seq = Len(published)
         /\ published \in Seq(Packet)
         /\ sentRows \in Seq([seq : Nat, sentAt : Time])
         /\ Len(sentRows) \in Nat
<1>1. TypeOK /\ startedAt # None /\ TimerDue
  BY DEF SenderInv, Begun, OnTimer
<1>2. /\ startedAt \in Nat
      /\ measureStart \in Nat /\ measureStart = startedAt + Warmup
      /\ measureEnd \in Nat /\ measureEnd = measureStart + Duration
      /\ nextCall \in IF finished THEN {None} ELSE Nat
      /\ nextCall # None => nextCall \in Nat
  BY <1>1, WindowSet
<1>3. now \in Nat /\ nextCall # None /\ now >= nextCall
  BY <1>1, ConstantTypes DEF TypeOK, TimerDue
<1>4. /\ NextCall \in Nat /\ NextCall >= nextCall + Period /\ NextCall >= now
      /\ NextCall <= now + Period
  BY <1>2, <1>3, CallsMoveOn
<1>5. finished = FALSE
  BY <1>1, <1>2, <1>3 DEF TypeOK
<1>6. /\ seq \in Nat /\ seq = Len(published)
      /\ published \in Seq(Packet)
      /\ sentRows \in Seq([seq : Nat, sentAt : Time])
  BY DEF SenderInv, TypeOK, NumberedWithoutGap
<1>7. QED
  BY <1>1, <1>2, <1>3, <1>4, <1>5, <1>6

\* A published packet has its type.
LEMMA PublishType ==
  ASSUME SenderInv, OnTimer, Publish
  PROVE  /\ PacketToSend \in Packet
         /\ published' \in Seq(Packet)
         /\ sentRows' \in Seq([seq : Nat, sentAt : Time])
         /\ seq' = seq + 1 /\ seq' \in Nat
         /\ nextCall' = NextCall
<1>1. now \in Time /\ seq \in Nat
  BY DEF SenderInv, TypeOK
<1>2. PacketToSend \in Packet
  BY <1>1 DEF PacketToSend, Packet
<1>3. published' \in Seq(Packet)
  BY <1>2 DEF Publish, SenderInv, TypeOK
<1>4. sentRows' \in Seq([seq : Nat, sentAt : Time])
  <2>1. sentRows \in Seq([seq : Nat, sentAt : Time])
    BY DEF SenderInv, TypeOK
  <2>2. [seq |-> seq, sentAt |-> now] \in [seq : Nat, sentAt : Time]
    BY <1>1
  <2>3. Append(sentRows, [seq |-> seq, sentAt |-> now])
          \in Seq([seq : Nat, sentAt : Time])
    BY <2>1, <2>2
  <2>4. sentRows' \in {Append(sentRows, [seq |-> seq, sentAt |-> now]), sentRows}
    BY DEF Publish
  <2>5. QED
    BY <2>1, <2>3, <2>4
<1>5. seq' = seq + 1 /\ nextCall' = NextCall
  BY DEF Publish, TakeSeq
<1>6. QED
  BY <1>1, <1>2, <1>3, <1>4, <1>5

\* A packet gets the next number.
LEMMA PublishNumbers ==
  ASSUME SenderInv, OnTimer, Publish
  PROVE  /\ NumberedWithoutGap'
         /\ \A i \in DOMAIN published' :
              published'[i] = IF i = Len(published) + 1 THEN PacketToSend
                              ELSE published[i]
         /\ DOMAIN published' = 1 .. Len(published) + 1
         /\ DOMAIN published = 1 .. Len(published)
         /\ Len(published') = Len(published) + 1
<1>1. /\ published \in Seq(Packet) /\ seq = Len(published) /\ seq \in Nat
      /\ PacketToSend \in Packet /\ seq' = seq + 1
  BY PublishContext, PublishType
<1>2. published' = Append(published, PacketToSend)
  BY DEF Publish
<1>3. /\ DOMAIN published' = 1 .. Len(published) + 1
      /\ DOMAIN published = 1 .. Len(published)
      /\ Len(published') = Len(published) + 1
      /\ \A i \in DOMAIN published' :
           published'[i] = IF i = Len(published) + 1 THEN PacketToSend
                           ELSE published[i]
  BY <1>1, <1>2
<1>4. PacketToSend.seq = seq
  BY DEF PacketToSend
<1>5. \A i \in DOMAIN published : published[i].seq = i - 1
  BY DEF SenderInv, NumberedWithoutGap
<1>6. \A i \in DOMAIN published' : published'[i].seq = i - 1
  BY <1>1, <1>3, <1>4, <1>5
<1>7. QED
  BY <1>1, <1>3, <1>6 DEF NumberedWithoutGap

\* The rows stay the measured tail of the packets: one row more in the
\* measurement; in the warm-up there is no row yet, because the packets behind
\* rows would have been sent before this one.
LEMMA PublishRows ==
  ASSUME SenderInv, OnTimer, Publish
  PROVE  RowsAreMeasuredTail' /\ SentInPast'
<1> DEFINE n == Len(published)
           m == Len(sentRows)
           skipped == n - m
           row == [seq |-> seq, sentAt |-> now]
<1>1. /\ now \in Nat /\ measureStart \in Nat /\ measureEnd \in Nat
      /\ n \in Nat /\ m \in Nat /\ seq = n
      /\ sentRows \in Seq([seq : Nat, sentAt : Time])
      /\ published \in Seq(Packet)
  BY PublishContext
<1>2. /\ DOMAIN published' = 1 .. n + 1
      /\ DOMAIN published = 1 .. n
      /\ Len(published') = n + 1
      /\ \A i \in 1 .. n : published'[i] = published[i]
      /\ published'[n + 1] = PacketToSend
  BY <1>1, PublishNumbers
<1>3. PacketToSend.seq = seq /\ PacketToSend.sentAt = now
  BY DEF PacketToSend
<1>4. UNCHANGED <<now, measureStart, measureEnd>> /\ now < measureEnd
  BY <1>1 DEF OnTimer, envVars, windowVars, Publish, WindowOver
<1>5. /\ skipped >= 0
      /\ \A i \in 1 .. n :
           /\ published[i].sentAt < measureEnd
           /\ i <= skipped <=> published[i].sentAt < measureStart
           /\ i > skipped =>
                sentRows[i - skipped] =
                  [seq |-> published[i].seq, sentAt |-> published[i].sentAt]
           /\ published[i].sentAt <= now
  BY <1>2 DEF SenderInv, RowsAreMeasuredTail, SentInPast
<1>6. \A i \in 1 .. n : published[i].sentAt \in Int
  <2> TAKE i \in 1 .. n
  <2>1. published[i] \in Packet
    BY <1>1, <1>2
  <2>2. published[i].sentAt \in Time
    BY <2>1 DEF Packet
  <2>3. Time \subseteq Int
    BY ConstantTypes DEF Time
  <2>4. QED
    BY <2>2, <2>3
<1>7. SentInPast'
  <2> SUFFICES ASSUME NEW i \in 1 .. n + 1
               PROVE  published'[i].sentAt <= now
    BY <1>2, <1>4 DEF SentInPast
  <2>1. CASE i \in 1 .. n
    BY <1>2, <1>5, <2>1
  <2>2. CASE i = n + 1
    BY <1>1, <1>2, <1>3, <2>2
  <2>3. QED
    BY <1>1, <2>1, <2>2
<1>8. CASE InMeasurement
  <2>1. now >= measureStart /\ sentRows' = Append(sentRows, row)
    BY <1>8 DEF InMeasurement, Publish
  <2>2. /\ Len(sentRows') = m + 1
        /\ \A j \in 1 .. m : sentRows'[j] = sentRows[j]
        /\ sentRows'[m + 1] = row
    BY <1>1, <2>1
  <2>3. Len(published') - Len(sentRows') = skipped
    BY <1>1, <1>2, <2>2
  <2>4. \A i \in 1 .. n + 1 :
          /\ published'[i].sentAt < measureEnd
          /\ i <= skipped <=> published'[i].sentAt < measureStart
          /\ i > skipped =>
               sentRows'[i - skipped] =
                 [seq |-> published'[i].seq, sentAt |-> published'[i].sentAt]
    <3> TAKE i \in 1 .. n + 1
    <3>1. CASE i \in 1 .. n
      <4>1. published'[i] = published[i]
        BY <1>2, <3>1
      <4>2. i > skipped => i - skipped \in 1 .. m
        BY <1>1, <1>5, <3>1
      <4>3. QED
        BY <1>5, <2>2, <3>1, <4>1, <4>2
    <3>2. CASE i = n + 1
      <4>1. i - skipped = m + 1 /\ i > skipped
        BY <1>1, <3>2
      <4>2. QED
        BY <1>1, <1>2, <1>3, <1>4, <2>1, <2>2, <3>2, <4>1
    <3>3. QED
      BY <1>1, <3>1, <3>2
  <2>5. QED
    BY <1>2, <1>4, <1>5, <1>7, <2>3, <2>4 DEF RowsAreMeasuredTail
<1>9. CASE ~InMeasurement
  <2>1. now < measureStart /\ sentRows' = sentRows
    BY <1>1, <1>9 DEF InMeasurement, Publish
  <2>2. m = 0
    <3> SUFFICES ASSUME m > 0 PROVE FALSE
      BY <1>1
    <3>1. n \in 1 .. n /\ ~(n <= skipped)
      BY <1>1, <1>5
    <3>2. ~(published[n].sentAt < measureStart) /\ published[n].sentAt <= now
      BY <1>5, <3>1
    <3>3. published[n].sentAt \in Int
      BY <1>6, <3>1
    <3>4. QED
      BY <1>1, <2>1, <3>2, <3>3
  <2>3. Len(published') - Len(sentRows') = n + 1
    BY <1>1, <1>2, <2>1, <2>2
  <2>4. \A i \in 1 .. n + 1 :
          /\ published'[i].sentAt < measureEnd
          /\ published'[i].sentAt < measureStart
    <3> TAKE i \in 1 .. n + 1
    <3>1. CASE i \in 1 .. n
      <4>1. i <= skipped /\ published'[i] = published[i]
        BY <1>1, <1>2, <2>2, <3>1
      <4>2. QED
        BY <1>5, <3>1, <4>1
    <3>2. CASE i = n + 1
      BY <1>2, <1>3, <1>4, <2>1, <3>2
    <3>3. QED
      BY <1>1, <3>1, <3>2
  <2>5. \A i \in 1 .. n + 1 : i <= n + 1 /\ ~(i > n + 1)
    BY <1>1
  <2>6. n + 1 >= 0
    BY <1>1
  <2>7. RowsAreMeasuredTail'
    BY <1>2, <1>4, <2>3, <2>4, <2>5, <2>6 DEF RowsAreMeasuredTail
  <2>8. QED
    BY <1>7, <2>7
<1>10. QED
  BY <1>8, <1>9

\* No packet before its time, and the timer stays ahead.
LEMMA PublishRate ==
  ASSUME SenderInv, OnTimer, Publish
  PROVE  TimerAhead' /\ RateNotExceeded'
<1> DEFINE m == Len(sentRows)
           t == seq * Period
<1>1. /\ now \in Nat /\ startedAt \in Nat /\ measureStart \in Nat
      /\ measureEnd \in Nat /\ measureEnd = measureStart + Duration
      /\ nextCall \in Nat /\ nextCall # None /\ now >= nextCall
      /\ NextCall \in Nat /\ NextCall >= nextCall + Period /\ NextCall >= now
      /\ NextCall <= now + Period
      /\ seq \in Nat /\ m \in Nat
      /\ sentRows \in Seq([seq : Nat, sentAt : Time])
  BY PublishContext
<1>2. seq' = seq + 1 /\ nextCall' = NextCall
  BY PublishType
<1>3. UNCHANGED <<now, startedAt, measureStart, measureEnd>> /\ now < measureEnd
  BY <1>1 DEF OnTimer, envVars, windowVars, Publish, WindowOver
<1>4. Period \in Nat /\ Duration \in Nat
  BY ConstantTypes
<1>5. /\ nextCall >= startedAt + (seq + 1) * Period
      /\ sentRows # <<>> => nextCall >= measureStart + (m - 1) * Period
  BY <1>1 DEF SenderInv, TimerAhead
<1>6. NextCall >= startedAt + (seq + 1 + 1) * Period
  BY <1>1, <1>4, <1>5
<1>7. (seq + 1) * Period <= now - startedAt
  BY <1>1, <1>4, <1>5
<1>8. CASE InMeasurement
  <2>1. now >= measureStart /\ Len(sentRows') = m + 1 /\ sentRows' # <<>>
    BY <1>1, <1>8 DEF InMeasurement, Publish
  <2>2. NextCall >= measureStart + m * Period
    <3>1. CASE sentRows = <<>>
      BY <1>1, <1>4, <2>1, <3>1
    <3>2. CASE sentRows # <<>>
      BY <1>1, <1>4, <1>5, <3>2
    <3>3. QED
      BY <3>1, <3>2
  <2>3. (m - 1) * Period < Duration
    <3>1. CASE sentRows = <<>>
      <4>1. m - 1 = -1
        BY <3>1
      <4>2. Duration > 0
        BY <1>1, <1>3, <1>4, <2>1
      <4>3. QED
        BY <1>4, <4>1, <4>2
    <3>2. CASE sentRows # <<>>
      BY <1>1, <1>3, <1>4, <1>5, <3>2
    <3>3. QED
      BY <3>1, <3>2
  <2>4. TimerAhead'
    BY <1>1, <1>2, <1>3, <1>4, <1>6, <2>1, <2>2 DEF TimerAhead
  <2>5. RateNotExceeded'
    BY <1>1, <1>2, <1>3, <1>4, <1>7, <2>1, <2>3 DEF RateNotExceeded
  <2>6. QED
    BY <2>4, <2>5
<1>9. CASE ~InMeasurement
  <2>1. sentRows' = sentRows
    BY <1>9 DEF Publish
  <2>2. sentRows # <<>> => NextCall >= measureStart + (m - 1) * Period
    BY <1>1, <1>4, <1>5
  <2>3. sentRows # <<>> => (m - 2) * Period < Duration
    BY <1>1 DEF SenderInv, RateNotExceeded
  <2>4. TimerAhead'
    BY <1>1, <1>2, <1>3, <1>6, <2>1, <2>2 DEF TimerAhead
  <2>5. RateNotExceeded'
    BY <1>1, <1>2, <1>3, <1>7, <2>1, <2>3 DEF RateNotExceeded
  <2>6. QED
    BY <2>4, <2>5
<1>10. QED
  BY <1>8, <1>9

\* The callback that publishes keeps the whole invariant.
LEMMA PublishKeeps ==
  ASSUME SenderInv, OnTimer, Publish
  PROVE  SenderInv'
<1>1. /\ published' \in Seq(Packet) /\ seq' \in Nat /\ nextCall' = NextCall
      /\ sentRows' \in Seq([seq : Nat, sentAt : Time])
  BY PublishType
<1>2. /\ UNCHANGED <<envVars, discoveryTime, windowVars, finished, summary>>
      /\ rpc = "spin" /\ rpc' = "loop"
  BY DEF OnTimer, Publish
<1>3. /\ startedAt # None /\ NextCall \in Nat /\ finished = FALSE
  BY PublishContext
<1>4. TypeOK'
  <2>1. TypeOK
    BY DEF SenderInv
  <2>2. /\ now' \in Time /\ interrupted' \in BOOLEAN /\ subscriberSeen' \in BOOLEAN
        /\ discoveryTime' \in Time \cup {None} /\ finished' = FALSE
    BY <1>2, <1>3, <2>1 DEF TypeOK, envVars
  <2>3. {startedAt, measureStart, measureEnd, nextCall} # {None}
    BY <1>3
  <2>4. /\ startedAt' \in Time
        /\ measureStart' = startedAt' + Warmup
        /\ measureEnd' = measureStart' + Duration
    BY <1>2, <2>1, <2>3 DEF TypeOK, windowVars
  <2>5. nextCall' \in IF finished' THEN {None} ELSE Nat
    BY <1>1, <1>3, <2>2
  <2>6. Time' = Time /\ Packet' = Packet
    BY DEF Time, Packet
  <2>7. QED
    BY <1>1, <1>2, <2>2, <2>4, <2>5, <2>6 DEF TypeOK
<1>5. Begun' /\ FinishedInPast' /\ ExitJustified'
  BY <1>2, <1>3 DEF Begun, FinishedInPast, ExitJustified, windowVars
<1>6. TimerAhead' /\ RateNotExceeded'
  BY PublishRate
<1>7. NumberedWithoutGap'
  BY PublishNumbers
<1>8. RowsAreMeasuredTail' /\ SentInPast'
  BY PublishRows
<1>9. QED
  BY <1>4, <1>5, <1>6, <1>7, <1>8 DEF SenderInv

\* A step that leaves the node alone and moves only the program counter, the
\* discovery, the summary or the environment.
LEMMA QuietKeeps ==
  ASSUME SenderInv, UNCHANGED nodeVars,
         now' \in Time, now' >= now,
         interrupted' \in BOOLEAN, subscriberSeen' \in BOOLEAN,
         interrupted => interrupted',
         discoveryTime' \in Time \cup {None},
         rpc' \in {"wait", "waitTimeout", "start", "loop", "spin", "finally", "done"},
         rpc \in {"wait", "waitTimeout", "start"} <=>
           rpc' \in {"wait", "waitTimeout", "start"},
         rpc' \in {"finally", "done"} =>
           \/ rpc \in {"finally", "done"}
           \/ interrupted \/ finished
  PROVE  SenderInv'
<1>1. /\ UNCHANGED <<startedAt, measureStart, measureEnd, nextCall, finished,
                     seq, sentRows, published>>
      /\ Time' = Time /\ Packet' = Packet
  BY DEF nodeVars, windowVars, streamVars, Time, Packet
<1>2. now \in Nat /\ now' \in Nat
  BY ConstantTypes DEF SenderInv, TypeOK
<1>3. startedAt # None =>
        /\ startedAt \in Nat /\ measureStart \in Nat /\ measureEnd \in Nat
  BY WindowSet DEF SenderInv
<1>4. TypeOK'
  BY <1>1 DEF SenderInv, TypeOK
<1>5. Begun' /\ NumberedWithoutGap' /\ RowsAreMeasuredTail'
  BY <1>1 DEF SenderInv, Begun, NumberedWithoutGap, RowsAreMeasuredTail
<1>6. SentInPast'
  <2> SUFFICES ASSUME NEW i \in DOMAIN published
               PROVE  published[i].sentAt <= now'
    BY <1>1 DEF SentInPast
  <2>1. published[i] \in Packet
    BY DEF SenderInv, TypeOK
  <2>2. \A p \in Packet : p.sentAt \in Time
    BY DEF Packet
  <2>3. published[i].sentAt \in Nat /\ published[i].sentAt <= now
    BY <2>1, <2>2, ConstantTypes DEF SenderInv, SentInPast
  <2>4. QED
    BY <1>2, <2>3
<1>7. FinishedInPast'
  BY <1>1, <1>2, <1>3 DEF SenderInv, FinishedInPast
<1>8. RateNotExceeded'
  <2>1. /\ seq > 0 => seq * Period <= now - startedAt
        /\ sentRows # <<>> => (Len(sentRows) - 2) * Period < Duration
    BY DEF SenderInv, RateNotExceeded
  <2>2. seq > 0 => startedAt \in Nat
    BY <1>3 DEF SenderInv, Begun
  <2>3. seq * Period \in Nat
    BY ConstantTypes DEF SenderInv, TypeOK
  <2>4. seq > 0 => seq * Period <= now' - startedAt
    BY <1>2, <2>1, <2>2, <2>3
  <2>5. QED
    BY <1>1, <2>1, <2>4 DEF RateNotExceeded
<1>9. ExitJustified'
  <2> SUFFICES ASSUME rpc' \in {"finally", "done"}, ~interrupted'
               PROVE  startedAt # None /\ now' >= measureEnd
    BY <1>1 DEF ExitJustified
  <2>1. startedAt # None /\ now >= measureEnd
    BY DEF SenderInv, ExitJustified, FinishedInPast
  <2>2. QED
    BY <1>2, <1>3, <2>1
<1>10. TimerAhead'
  <2>1. nextCall # None => nextCall \in Nat /\ nextCall <= now + Period
    <3>1. startedAt = None => nextCall = None
      <4>1. None \notin Time
        BY SenderAssumption DEF Time
      <4>2. \/ {startedAt, measureStart, measureEnd, nextCall} = {None}
            \/ startedAt \in Time
        BY Zenon DEF SenderInv, TypeOK
      <4>3. {startedAt, measureStart, measureEnd, nextCall} = {None} =>
              nextCall = None
        OBVIOUS
      <4>4. QED
        BY <4>1, <4>2, <4>3, Zenon
    <3>2. QED
      BY <3>1, WindowSet DEF SenderInv, TimerAhead
  <2>2. nextCall # None => nextCall <= now' + Period
    BY <1>2, <2>1, ConstantTypes
  <2>3. QED
    BY <1>1, <2>2 DEF SenderInv, TimerAhead
<1>11. QED
  BY <1>4, <1>5, <1>6, <1>7, <1>8, <1>9, <1>10 DEF SenderInv

\* start() sets the window while nothing has been sent.
LEMMA StartKeeps ==
  ASSUME SenderInv, Start
  PROVE  SenderInv'
<1>1. /\ startedAt = None /\ seq = 0 /\ sentRows = <<>> /\ published = <<>>
      /\ finished = FALSE /\ rpc = "start"
  BY DEF SenderInv, Begun, Start
<1>2. /\ UNCHANGED <<now, interrupted, subscriberSeen, discoveryTime, finished,
                     seq, sentRows, published>>
      /\ startedAt' = now /\ measureStart' = now + Warmup
      /\ measureEnd' = measureStart' + Duration /\ nextCall' = now + Period
      /\ rpc' = "loop"
  BY DEF Start, envVars, streamVars
<1>3. now \in Time /\ now \in Nat /\ now # None
  BY ConstantTypes DEF SenderInv, TypeOK
<1>4. now + Period \in Nat
  BY <1>3, ConstantTypes
<1>5. Time' = Time /\ Packet' = Packet
  BY DEF Time, Packet
<1>6. TypeOK'
  BY <1>1, <1>2, <1>3, <1>4, <1>5 DEF SenderInv, TypeOK
<1>7. Begun' /\ SentInPast' /\ FinishedInPast' /\ ExitJustified' /\ NumberedWithoutGap'
  BY <1>1, <1>2, <1>3 DEF Begun, SentInPast, FinishedInPast, ExitJustified,
                          NumberedWithoutGap
<1>8. TimerAhead'
  BY <1>1, <1>2, <1>3, ConstantTypes DEF TimerAhead
<1>9. RowsAreMeasuredTail'
  BY <1>1, <1>2 DEF RowsAreMeasuredTail
<1>10. RateNotExceeded'
  BY <1>1, <1>2, ConstantTypes DEF RateNotExceeded
<1>11. QED
  BY <1>6, <1>7, <1>8, <1>9, <1>10 DEF SenderInv

\* The callback that finds the window over cancels the timer.
LEMMA FinishKeeps ==
  ASSUME SenderInv, OnTimer, Finish
  PROVE  SenderInv'
<1>1. /\ UNCHANGED <<now, interrupted, subscriberSeen, discoveryTime, startedAt,
                     measureStart, measureEnd, seq, sentRows, published>>
      /\ finished' = TRUE /\ nextCall' = None
      /\ rpc = "spin" /\ rpc' = "loop" /\ now >= measureEnd
  BY DEF OnTimer, Finish, WindowOver, envVars, windowVars, streamVars
<1>2. startedAt # None /\ {startedAt, measureStart, measureEnd, nextCall} # {None}
  BY PublishContext
<1>3. Time' = Time /\ Packet' = Packet
  BY DEF Time, Packet
<1>4. TypeOK'
  BY <1>1, <1>2, <1>3 DEF SenderInv, TypeOK
<1>5. Begun' /\ TimerAhead' /\ SentInPast' /\ FinishedInPast' /\ ExitJustified'
  BY <1>1, <1>2 DEF SenderInv, Begun, TimerAhead, SentInPast, FinishedInPast,
                    ExitJustified
<1>6. NumberedWithoutGap' /\ RowsAreMeasuredTail' /\ RateNotExceeded'
  BY <1>1 DEF SenderInv, NumberedWithoutGap, RowsAreMeasuredTail, RateNotExceeded
<1>7. QED
  BY <1>4, <1>5, <1>6 DEF SenderInv

\* SenderInv holds initially and is kept by every step of the process and of
\* its environment.
THEOREM SenderInductive == Spec => []SenderInv
<1>1. Init => SenderInv
  <2> SUFFICES ASSUME Init PROVE SenderInv
    OBVIOUS
  <2>1. 0 \in Time
    BY SenderAssumption DEF Time
  <2>2. TypeOK
    <3>1. {startedAt, measureStart, measureEnd, nextCall} = {None}
      BY DEF Init
    <3>2. sentRows \in Seq([seq : Nat, sentAt : Time]) /\ published \in Seq(Packet)
      BY DEF Init
    <3>3. QED
      BY <2>1, <3>1, <3>2 DEF Init, TypeOK
  <2>3. Begun /\ TimerAhead /\ SentInPast /\ FinishedInPast /\ ExitJustified
    BY DEF Init, Begun, TimerAhead, SentInPast, FinishedInPast, ExitJustified
  <2>4. NumberedWithoutGap /\ RowsAreMeasuredTail
    BY DEF Init, NumberedWithoutGap, RowsAreMeasuredTail
  <2>5. RateNotExceeded
    BY ConstantTypes DEF Init, RateNotExceeded
  <2>6. QED
    BY <2>2, <2>3, <2>4, <2>5 DEF SenderInv
<1>2. SenderInv /\ [Next]_vars => SenderInv'
  <2> SUFFICES ASSUME SenderInv, [Next]_vars PROVE SenderInv'
    OBVIOUS
  <2>1. /\ now \in Time /\ now \in Nat /\ interrupted \in BOOLEAN
        /\ subscriberSeen \in BOOLEAN /\ discoveryTime \in Time \cup {None}
        /\ finished \in BOOLEAN
        /\ rpc \in {"wait", "waitTimeout", "start", "loop", "spin", "finally", "done"}
    BY ConstantTypes DEF SenderInv, TypeOK
  <2>2. CASE WaitInterrupted
    BY <2>1, <2>2, QuietKeeps DEF WaitInterrupted, envVars
  <2>3. CASE CheckSubscribers
    BY <2>1, <2>3, QuietKeeps DEF CheckSubscribers, SubscriberFound, NoSubscriber,
                                  envVars
  <2>4. CASE CheckWaitTimeout
    BY <2>1, <2>4, QuietKeeps DEF CheckWaitTimeout, envVars
  <2>5. CASE Start
    BY <2>5, StartKeeps
  <2>6. CASE EnterIteration
    BY <2>1, <2>6, QuietKeeps DEF EnterIteration, envVars
  <2>7. CASE LeaveLoop
    BY <2>1, <2>7, QuietKeeps DEF LeaveLoop, Continue, envVars
  <2>8. CASE SpinIdle
    BY <2>1, <2>8, QuietKeeps DEF SpinIdle, envVars
  <2>9. CASE OnTimer
    BY <2>9, FinishKeeps, PublishKeeps DEF OnTimer
  <2>10. CASE WriteSummary
    BY <2>1, <2>10, QuietKeeps DEF WriteSummary, envVars
  <2>11. CASE Tick
    <3>1. now' = now + 1 /\ now' \in Time /\ now' >= now
      <4>1. /\ startedAt # None => now < MaxTime
            /\ startedAt = None => now < LastStart
            /\ now' = now + 1
        BY <2>11 DEF Tick, MayTick
      <4>2. LastStart \in Nat /\ MaxTime \in Nat /\ LastStart <= MaxTime
        BY SenderAssumption
      <4>3. now < MaxTime
        <5>1. CASE startedAt = None
          BY <2>1, <4>1, <4>2, <5>1
        <5>2. CASE startedAt # None
          BY <4>1, <5>2
        <5>3. QED
          BY <5>1, <5>2
      <4>4. QED
        BY <2>1, <4>1, <4>2, <4>3 DEF Time
    <3>2. QED
      BY <2>1, <2>11, <3>1, QuietKeeps DEF Tick
  <2>12. CASE Interrupt
    BY <2>1, <2>12, QuietKeeps DEF Interrupt
  <2>13. CASE GraphChange
    BY <2>1, <2>13, QuietKeeps DEF GraphChange
  <2>14. CASE UNCHANGED vars
    BY <2>1, <2>14, QuietKeeps DEF vars, envVars
  <2>15. QED
    BY <2>2, <2>3, <2>4, <2>5, <2>6, <2>7, <2>8, <2>9, <2>10, <2>11, <2>12, <2>13,
       <2>14 DEF Next, RunStep, Environment
<1>3. QED
  BY <1>1, <1>2, PTL DEF Spec

-----------------------------------------------------------------------------
\* Every variable keeps its type, and the window is set as a whole.
THEOREM TypeCorrect == Spec => []TypeOK
<1>1. SenderInv => TypeOK
  BY DEF SenderInv
<1>2. QED
  BY <1>1, SenderInductive, PTL

\* The packets are numbered 0, 1, 2, ... whatever calls of the timer are late
\* or skipped (TakeSeq in the callback).
THEOREM NoGapPublished == Spec => []NumberedWithoutGap
<1>1. SenderInv => NumberedWithoutGap
  BY DEF SenderInv
<1>2. QED
  BY <1>1, SenderInductive, PTL

\* The sender's rows are the packets it published inside its window, all of
\* them and in order.
THEOREM RowsCorrect == Spec => []RowsAreMeasuredTail
<1>1. SenderInv => RowsAreMeasuredTail
  BY DEF SenderInv
<1>2. QED
  BY <1>1, SenderInductive, PTL

\* No delay of the process makes the stream faster than the rate asked for.
THEOREM RateBounded == Spec => []RateNotExceeded
<1>1. SenderInv => RateNotExceeded
  BY DEF SenderInv
<1>2. QED
  BY <1>1, SenderInductive, PTL

\* A stream ends with its window, unless it is interrupted.
THEOREM ExitsJustified == Spec => []ExitJustified
<1>1. SenderInv => ExitJustified
  BY DEF SenderInv
<1>2. QED
  BY <1>1, SenderInductive, PTL
=============================================================================

------------------------ MODULE StreamReceiverProofs ------------------------
(***************************************************************************)
(* Theorems about StreamReceiver, for any packets at any times, any window *)
(* and any clock settings.                                                 *)
(***************************************************************************)
EXTENDS StreamReceiver, SequenceTrackingLemmas

\* The part of TypeOK that says how the ends of the window belong together.
Window ==
  \/ {firstPacket, measureStart, measureEnd} = {None}
  \/ /\ firstPacket \in Time
     /\ measureStart = firstPacket + Warmup
     /\ measureEnd = measureStart + Duration

\* The window is known as a whole or not at all.
LEMMA WindowKnown ==
  ASSUME Window
  PROVE  /\ firstPacket = None => measureStart = None /\ measureEnd = None
         /\ firstPacket # None =>
              /\ firstPacket \in Time
              /\ measureStart \in Nat /\ measureStart = firstPacket + Warmup
              /\ measureEnd \in Nat /\ measureEnd = measureStart + Duration
              /\ measureStart # None /\ measureEnd # None
<1>1. /\ Warmup \in Nat /\ Duration \in Nat /\ Time \subseteq Nat
  BY ReceiverAssumption DEF Time
<1>2. CASE {firstPacket, measureStart, measureEnd} = {None}
  BY <1>2
<1>3. CASE /\ firstPacket \in Time
           /\ measureStart = firstPacket + Warmup
           /\ measureEnd = measureStart + Duration
  <2>1. firstPacket \in Nat /\ measureStart \in Nat /\ measureEnd \in Nat
    BY <1>1, <1>3
  <2>2. QED
    BY <1>3, <2>1, NoneAssumption
<1>4. QED
  BY <1>2, <1>3 DEF Window

\* A packet of the session finds the window set or sets it.
LEMMA AcceptAnchors ==
  ASSUME TypeOK, NEW p \in Packets, Accept(p)
  PROVE  /\ Window' /\ firstPacket' # None
         /\ activeSession' \in Nat
         /\ activeSession # None => activeSession' = activeSession
         /\ firstPacket # None => UNCHANGED windowVars
         /\ firstPacket = None => firstPacket' = now
<1>1. /\ now \in Time /\ now # None /\ Time \subseteq Int
      /\ p.session \in Nat
  BY ReceiverAssumption, NoneAssumption DEF TypeOK, Time
<1>2. /\ activeSession' \in Nat
      /\ activeSession # None => activeSession' = activeSession
  BY <1>1 DEF Accept, SessionFor, TypeOK
<1>3. CASE firstPacket = None
  <2>1. /\ firstPacket' = now /\ measureStart' = now + Warmup
        /\ measureEnd' = measureStart' + Duration
    BY <1>3 DEF Accept, AnchorWindow
  <2>2. Window'
    BY <1>1, <2>1 DEF Window, Time
  <2>3. QED
    BY <1>1, <1>2, <1>3, <2>1, <2>2
<1>4. CASE firstPacket # None
  <2>1. UNCHANGED windowVars
    BY <1>4 DEF Accept, AnchorWindow
  <2>2. Window'
    BY <2>1 DEF Window, windowVars, TypeOK, Time
  <2>3. QED
    BY <1>2, <1>4, <2>1, <2>2 DEF windowVars
<1>5. QED
  BY <1>3, <1>4

\* A measured packet extends the samples by well-typed ones.
LEMMA MeasureType ==
  ASSUME TypeOK, NEW p \in Packets, Measure(p)
  PROVE  /\ tracker' \in TrackerType({None})
         /\ RowFor(p) \in Row
         /\ rows' \in Seq(Row)
         /\ oneWay' \in Seq(Int)
<1>1. /\ p.seq \in Nat /\ p.sentAt \in Int /\ p.size \in Nat
      /\ tracker \in TrackerType({None}) /\ tracker \in TrackerType(Starts)
      /\ now \in Nat /\ WallNow \in Int /\ Latency(p) \in Int
  <2>1. p.seq \in Nat /\ p.sentAt \in Int /\ p.size \in Nat
    BY ReceiverAssumption
  <2>2. tracker \in TrackerType({None}) /\ tracker \in TrackerType(Starts)
    BY DEF TypeOK, TrackerType, Starts
  <2>3. now \in Nat
    BY ReceiverAssumption DEF TypeOK, Time
  <2>4. WallNow \in Int /\ Offset \in Int
    BY <2>3, ReceiverAssumption DEF WallNow, Offset
  <2>5. QED
    BY <2>1, <2>2, <2>3, <2>4 DEF Latency
<1>2. /\ Observe(tracker, p.seq) \in TrackerType(Starts)
      /\ EventFor(tracker, p.seq) \in Event
  BY <1>1, ObserveType
<1>3. Observe(tracker, p.seq).expectedStart = None
  BY <1>1 DEF Observe, TrackerType
<1>4. tracker' \in TrackerType({None})
  BY <1>2, <1>3 DEF Measure, TrackerType
<1>5. RowFor(p) \in Row
  BY <1>1, <1>2 DEF RowFor, Row, Event
<1>6. rows' \in Seq(Row)
  BY <1>5 DEF Measure, TypeOK
<1>7. oneWay' \in Seq(Int)
  BY <1>1 DEF Measure, TypeOK
<1>8. QED
  BY <1>4, <1>5, <1>6, <1>7

-----------------------------------------------------------------------------
\* The constructor sets every variable to a value of its type.
LEMMA TypeInitially == Init => TypeOK
<1> SUFFICES ASSUME Init PROVE TypeOK
  OBVIOUS
<1>1. tracker \in TrackerType({None})
  BY DEF Init, NewTracker, TrackerType
<1>2. 0 \in Time /\ SessionId \in Nat
  BY ReceiverAssumption DEF Time
<1>3. /\ now \in Time /\ interrupted \in BOOLEAN /\ publisherSeen \in BOOLEAN
      /\ rpc = "loop" /\ discoveryTime = None /\ finished \in BOOLEAN
      /\ activeSession \in Nat \cup {None}
      /\ firstPacket = None /\ measureStart = None /\ measureEnd = None
  BY <1>2 DEF Init
<1>4. rows \in Seq(Row) /\ oneWay \in Seq(Int)
  BY DEF Init
<1>5. QED
  BY <1>1, <1>3, <1>4 DEF TypeOK

\* Every variable keeps its type, and the window stays whole.
THEOREM TypeCorrect == Spec => []TypeOK
<1>1. Init => TypeOK
  BY TypeInitially
<1>2. TypeOK /\ [Next]_vars => TypeOK'
  <2> SUFFICES ASSUME TypeOK, [Next]_vars PROVE TypeOK'
    OBVIOUS
  <2>1. CASE EnterIteration
    BY <2>1 DEF EnterIteration, TypeOK, envVars, nodeVars, windowVars, sampleVars, Time
  <2>2. CASE LeaveLoop
    BY <2>2 DEF LeaveLoop, TypeOK, envVars, nodeVars, windowVars, sampleVars, Time
  <2>3. CASE SpinIdle
    BY <2>3 DEF SpinIdle, TypeOK, envVars, nodeVars, windowVars, sampleVars, Time
  <2>4. CASE CheckDiscovery
    BY <2>4 DEF CheckDiscovery, PublisherFound, TypeOK, envVars, nodeVars, windowVars,
                sampleVars, Time
  <2>5. CASE CheckTimeout
    BY <2>5 DEF CheckTimeout, TypeOK, envVars, nodeVars, windowVars, sampleVars, Time
  <2>6. CASE CheckDeadline
    BY <2>6 DEF CheckDeadline, PastDeadline, TypeOK, envVars, windowVars, sampleVars, Time
  <2>7. CASE WriteSummary
    BY <2>7 DEF WriteSummary, TypeOK, envVars, nodeVars, windowVars, sampleVars, Time
  <2>8. ASSUME NEW p \in Packets, SpinPacket(p) PROVE TypeOK'
    <3>1. UNCHANGED <<envVars, discoveryTime>> /\ rpc' = "discover"
      BY <2>8 DEF SpinPacket
    <3>2. CASE OtherSession(p)
      BY <3>1, <3>2 DEF OtherSession, TypeOK, envVars, nodeVars, windowVars, sampleVars, Time
    <3>3. CASE DuringWarmup(p)
      <4>1. Window' /\ activeSession' \in Nat
        BY <3>3, AcceptAnchors DEF DuringWarmup
      <4>2. UNCHANGED <<finished, sampleVars>>
        BY <3>3 DEF DuringWarmup
      <4>3. QED
        BY <3>1, <4>1, <4>2 DEF TypeOK, Window, envVars, sampleVars, Time
    <3>4. CASE AfterWindow(p)
      <4>1. Window' /\ activeSession' \in Nat
        BY <3>4, AcceptAnchors DEF AfterWindow
      <4>2. finished' = TRUE /\ UNCHANGED sampleVars
        BY <3>4 DEF AfterWindow
      <4>3. QED
        BY <3>1, <4>1, <4>2 DEF TypeOK, Window, envVars, sampleVars, Time
    <3>5. CASE Measure(p)
      <4>1. Window' /\ activeSession' \in Nat
        BY <3>5, AcceptAnchors DEF Measure
      <4>2. /\ UNCHANGED finished
            /\ tracker' \in TrackerType({None})
            /\ rows' \in Seq(Row) /\ oneWay' \in Seq(Int)
        BY <3>5, MeasureType DEF Measure
      <4>3. QED
        BY <3>1, <4>1, <4>2 DEF TypeOK, Window, envVars, Time
    <3>6. QED
      BY <2>8, <3>2, <3>3, <3>4, <3>5 DEF SpinPacket, OnPacket
  <2>9. CASE Tick
    <3>1. now' \in Time
      BY <2>9, ReceiverAssumption DEF Tick, TypeOK, Time
    <3>2. QED
      BY <2>9, <3>1 DEF Tick, TypeOK, nodeVars, windowVars, sampleVars, Time
  <2>10. CASE Interrupt
    BY <2>10 DEF Interrupt, TypeOK, nodeVars, windowVars, sampleVars, Time
  <2>11. CASE GraphChange
    BY <2>11 DEF GraphChange, TypeOK, nodeVars, windowVars, sampleVars, Time
  <2>12. CASE UNCHANGED vars
    BY <2>12 DEF vars, TypeOK, envVars, nodeVars, windowVars, sampleVars, Time
  <2>13. QED
    BY <2>1, <2>2, <2>3, <2>4, <2>5, <2>6, <2>7, <2>8, <2>9, <2>10, <2>11, <2>12
    DEF Next, LoopStep, Arrival, Environment
<1>3. QED
  BY <1>1, <1>2, PTL DEF Spec

-----------------------------------------------------------------------------
(* The measurement window *)

\* The node declares itself finished only when its window lies in the past.
FinishedInPast == finished => firstPacket # None /\ now > measureEnd

WindowInv == TypeOK /\ FinishedInPast /\ RowsInWindow /\ ExitJustified

\* The rows so far are rows.
LEMMA RowTimes ==
  ASSUME TypeOK
  PROVE  /\ DOMAIN rows = 1 .. Len(rows) /\ Len(rows) \in Nat
         /\ \A i \in DOMAIN rows : rows[i].localAt \in Nat
<1>1. rows \in Seq(Row)
  BY DEF TypeOK
<1>2. \A r \in Row : r.localAt \in Nat
  BY DEF Row
<1>3. \A i \in DOMAIN rows : rows[i] \in Row
  BY <1>1
<1>4. QED
  BY <1>1, <1>2, <1>3

\* Time may pass over the rows and the window.
LEMMA TimePasses ==
  ASSUME WindowInv, TypeOK', now' >= now,
         UNCHANGED <<windowVars, rows>>
  PROVE  /\ RowsInWindow'
         /\ finished' = finished => FinishedInPast'
         /\ rpc' = rpc /\ (interrupted => interrupted') => ExitJustified'
<1>1. now \in Nat /\ now' \in Nat /\ DiscoveryTimeout \in Nat
  BY ReceiverAssumption DEF WindowInv, TypeOK, Time
<1>2. /\ firstPacket # None => measureEnd \in Nat
      /\ UNCHANGED <<firstPacket, measureStart, measureEnd, rows>>
  BY WindowKnown DEF WindowInv, TypeOK, Window, windowVars
<1>3. RowsInWindow'
  <2>1. RowsInWindow /\ \A i \in DOMAIN rows : rows[i].localAt \in Nat
    BY RowTimes DEF WindowInv
  <2>2. QED
    BY <1>1, <1>2, <2>1 DEF RowsInWindow
<1>4. ASSUME finished' = finished PROVE FinishedInPast'
  BY <1>1, <1>2, <1>4 DEF WindowInv, FinishedInPast
<1>5. ASSUME rpc' = rpc, interrupted => interrupted' PROVE ExitJustified'
  BY <1>1, <1>2, <1>5 DEF WindowInv, ExitJustified
<1>6. QED
  BY <1>3, <1>4, <1>5

\* A measured packet lies in the window, and after the rows before it.
LEMMA MeasureInWindow ==
  ASSUME WindowInv, TypeOK', now' = now, NEW p \in Packets, Measure(p)
  PROVE  RowsInWindow'
<1> DEFINE n == Len(rows) + 1
<1>1. /\ now \in Nat /\ rows \in Seq(Row) /\ RowFor(p) \in Row
      /\ RowFor(p).localAt = now
  <2>0. TypeOK
    BY DEF WindowInv
  <2>1. now \in Nat /\ rows \in Seq(Row)
    BY <2>0, ReceiverAssumption DEF TypeOK, Time
  <2>2. RowFor(p) \in Row
    BY <2>0, MeasureType
  <2>3. RowFor(p).localAt = now
    BY DEF RowFor
  <2>4. QED
    BY <2>1, <2>2, <2>3
<1>2. /\ firstPacket' # None /\ measureStart' \in Nat /\ measureEnd' \in Nat
      /\ firstPacket # None => UNCHANGED windowVars
  <2>1. Accept(p) /\ TypeOK
    BY DEF Measure, WindowInv
  <2>2. /\ Window' /\ firstPacket' # None
        /\ firstPacket # None => UNCHANGED windowVars
    BY <2>1, AcceptAnchors
  <2>3. measureStart' \in Nat /\ measureEnd' \in Nat
    BY <2>2, ReceiverAssumption, NoneAssumption DEF Window, Time
  <2>4. QED
    BY <2>2, <2>3
<1>3. /\ rows' = Append(rows, RowFor(p))
      /\ now >= measureStart' /\ ~(now > measureEnd')
  BY DEF Measure, TooLate
<1>4. /\ DOMAIN rows = 1 .. Len(rows) /\ Len(rows) \in Nat
      /\ DOMAIN rows' = 1 .. n
      /\ rows'[n] = RowFor(p)
      /\ \A i \in 1 .. Len(rows) : rows'[i] = rows[i]
  BY <1>1, <1>3
<1>5. \A i \in 1 .. Len(rows) :
        /\ rows[i].localAt \in Nat
        /\ rows'[i].localAt \in measureStart' .. measureEnd'
        /\ rows'[i].localAt <= now
  <2>1. \A i \in 1 .. Len(rows) :
          /\ firstPacket # None /\ rows[i].localAt \in Nat
          /\ rows[i].localAt \in measureStart .. measureEnd
          /\ rows[i].localAt <= now
    BY <1>4, RowTimes DEF WindowInv, RowsInWindow
  <2>2. QED
    BY <1>2, <1>4, <2>1 DEF windowVars
<1>6. rows'[n].localAt \in measureStart' .. measureEnd' /\ rows'[n].localAt <= now
  BY <1>1, <1>2, <1>3, <1>4
<1>7. \A i \in DOMAIN rows' :
        /\ firstPacket' # None
        /\ rows'[i].localAt \in measureStart' .. measureEnd'
        /\ rows'[i].localAt <= now'
  <2>1. \A i \in 1 .. n : i = n \/ i \in 1 .. Len(rows)
    BY <1>4
  <2>2. QED
    BY <1>2, <1>4, <1>5, <1>6, <2>1
<1>8. ASSUME NEW i \in DOMAIN rows', NEW j \in DOMAIN rows', i < j
      PROVE  rows'[i].localAt <= rows'[j].localAt
  <2>1. i \in 1 .. Len(rows) /\ (j = n \/ j \in 1 .. Len(rows))
    BY <1>4, <1>8
  <2>2. CASE j = n
    BY <1>1, <1>4, <1>5, <2>1, <2>2
  <2>3. CASE j \in 1 .. Len(rows)
    BY <1>4, <1>8, <2>1, <2>3 DEF WindowInv, RowsInWindow
  <2>4. QED
    BY <2>1, <2>2, <2>3
<1>9. QED
  BY <1>7, <1>8 DEF RowsInWindow

\* WindowInv holds throughout.
THEOREM WindowInductive == Spec => []WindowInv
<1>1. Init => WindowInv
  <2> SUFFICES ASSUME Init PROVE FinishedInPast /\ RowsInWindow /\ ExitJustified
    BY TypeInitially DEF WindowInv
  <2>1. finished = FALSE /\ rows = <<>> /\ rpc = "loop"
    BY DEF Init
  <2>2. QED
    BY <2>1 DEF FinishedInPast, RowsInWindow, ExitJustified
<1>2. WindowInv /\ TypeOK' /\ [Next]_vars => WindowInv'
  <2> SUFFICES ASSUME WindowInv, TypeOK', [Next]_vars PROVE WindowInv'
    OBVIOUS
  <2>0. now \in Nat /\ now >= now
    BY ReceiverAssumption DEF WindowInv, TypeOK, Time
  <2> USE DEF envVars, nodeVars, windowVars, sampleVars
  <2>1. ASSUME \/ EnterIteration \/ SpinIdle \/ CheckDiscovery
        PROVE  WindowInv'
    <3>1. /\ UNCHANGED <<envVars, windowVars, finished, rows>>
          /\ rpc' \in {"spin", "discover", "timeout"}
      BY <2>1 DEF EnterIteration, SpinIdle, CheckDiscovery
    <3>2. RowsInWindow' /\ FinishedInPast'
      BY <2>0, <3>1, TimePasses
    <3>3. QED
      BY <3>1, <3>2 DEF WindowInv, ExitJustified
  <2>2. CASE LeaveLoop
    <3>1. /\ UNCHANGED <<envVars, windowVars, finished, rows>>
          /\ interrupted \/ finished
      BY <2>2 DEF LeaveLoop, Continue
    <3>2. RowsInWindow' /\ FinishedInPast'
      BY <2>0, <3>1, TimePasses
    <3>3. QED
      BY <3>1, <3>2 DEF WindowInv, ExitJustified, FinishedInPast
  <2>3. CASE CheckTimeout
    <3>1. /\ UNCHANGED <<envVars, windowVars, finished, rows>>
          /\ rpc' = IF DiscoveryExpired THEN "finally" ELSE "deadline"
      BY <2>3 DEF CheckTimeout
    <3>2. RowsInWindow' /\ FinishedInPast'
      BY <2>0, <3>1, TimePasses
    <3>3. QED
      BY <3>1, <3>2 DEF WindowInv, ExitJustified, DiscoveryExpired
  <2>4. CASE CheckDeadline
    <3>1. /\ UNCHANGED <<envVars, windowVars, rows>>
          /\ finished' = (finished \/ PastDeadline) /\ rpc' = "loop"
      BY <2>4 DEF CheckDeadline
    <3>2. RowsInWindow'
      BY <2>0, <3>1, TimePasses
    <3>3. PastDeadline => firstPacket # None /\ now > measureEnd
      BY WindowKnown DEF PastDeadline, WindowInv, TypeOK, Window
    <3>4. FinishedInPast'
      BY <3>1, <3>3 DEF WindowInv, FinishedInPast
    <3>5. QED
      BY <3>1, <3>2, <3>4 DEF WindowInv, ExitJustified
  <2>5. CASE WriteSummary
    <3>1. /\ UNCHANGED <<envVars, windowVars, finished, rows>>
          /\ rpc = "finally"
      BY <2>5 DEF WriteSummary
    <3>2. RowsInWindow' /\ FinishedInPast'
      BY <2>0, <3>1, TimePasses
    <3>3. QED
      BY <3>1, <3>2 DEF WindowInv, ExitJustified
  <2>6. ASSUME NEW p \in Packets, SpinPacket(p) PROVE WindowInv'
    <3>1. UNCHANGED envVars /\ rpc' = "discover"
      BY <2>6 DEF SpinPacket
    <3>2. CASE OtherSession(p)
      <4>1. UNCHANGED <<windowVars, finished, rows>>
        BY <3>2 DEF OtherSession
      <4>2. RowsInWindow' /\ FinishedInPast'
        BY <2>0, <3>1, <4>1, TimePasses
      <4>3. QED
        BY <3>1, <4>2 DEF WindowInv, ExitJustified
    <3>3. ASSUME Accept(p)
          PROVE  /\ firstPacket' # None /\ Window'
                 /\ firstPacket = None => rows = <<>> /\ ~finished
                 /\ firstPacket # None => UNCHANGED windowVars
      <4>1. /\ firstPacket' # None /\ Window'
            /\ firstPacket # None => UNCHANGED windowVars
        BY <3>3, AcceptAnchors DEF WindowInv
      <4>2. ASSUME firstPacket = None PROVE rows = <<>> /\ ~finished
        <5>1. rows \in Seq(Row) /\ DOMAIN rows = {} /\ ~finished
          BY <4>2 DEF WindowInv, TypeOK, RowsInWindow, FinishedInPast
        <5>2. QED
          BY <5>1
      <4>3. QED
        BY <4>1, <4>2
    <3>4. CASE DuringWarmup(p)
      <4>1. Accept(p) /\ UNCHANGED <<finished, rows>>
        BY <3>4 DEF DuringWarmup
      <4>2. CASE firstPacket = None
        BY <3>1, <3>3, <4>1, <4>2
        DEF WindowInv, RowsInWindow, FinishedInPast, ExitJustified
      <4>3. CASE firstPacket # None
        <5>1. RowsInWindow' /\ FinishedInPast'
          BY <2>0, <3>1, <3>3, <4>1, <4>3, TimePasses
        <5>2. QED
          BY <3>1, <5>1 DEF WindowInv, ExitJustified
      <4>4. QED
        BY <4>2, <4>3
    <3>5. CASE AfterWindow(p)
      <4>1. Accept(p) /\ UNCHANGED rows /\ now > measureEnd'
        BY <3>5 DEF AfterWindow, TooLate
      <4>2. FinishedInPast'
        BY <3>1, <3>3, <4>1 DEF FinishedInPast
      <4>3. RowsInWindow'
        <5>1. CASE firstPacket = None
          BY <3>3, <4>1, <5>1 DEF RowsInWindow
        <5>2. CASE firstPacket # None
          BY <2>0, <3>1, <3>3, <4>1, <5>2, TimePasses
        <5>3. QED
          BY <5>1, <5>2
      <4>4. QED
        BY <3>1, <4>2, <4>3 DEF WindowInv, ExitJustified
    <3>6. CASE Measure(p)
      <4>1. RowsInWindow'
        BY <3>1, <3>6, MeasureInWindow
      <4>2. Accept(p) /\ UNCHANGED finished
        BY <3>6 DEF Measure
      <4>3. FinishedInPast'
        BY <3>1, <3>3, <4>2 DEF WindowInv, FinishedInPast
      <4>4. QED
        BY <3>1, <4>1, <4>3 DEF WindowInv, ExitJustified
    <3>7. QED
      BY <2>6, <3>2, <3>4, <3>5, <3>6 DEF SpinPacket, OnPacket
  <2>7. CASE Environment \/ UNCHANGED vars
    <3>1. /\ now' >= now /\ (interrupted => interrupted')
          /\ UNCHANGED <<windowVars, rows, finished, rpc>>
      BY <2>0, <2>7 DEF Environment, Tick, Interrupt, GraphChange, vars
    <3>2. QED
      BY <3>1, TimePasses DEF WindowInv
  <2>8. QED
    BY <2>1, <2>2, <2>3, <2>4, <2>5, <2>6, <2>7 DEF Next, LoopStep, Arrival
<1>3. QED
  BY <1>1, <1>2, TypeCorrect, PTL DEF Spec

\* Neither a warm-up packet nor one after the deadline is ever a row.
THEOREM WindowRespected == Spec => []RowsInWindow
<1>1. WindowInv => RowsInWindow
  BY DEF WindowInv
<1>2. QED
  BY <1>1, WindowInductive, PTL

\* The loop is left only when interrupted, in silence, or past the window.
THEOREM ExitsJustified == Spec => []ExitJustified
<1>1. WindowInv => ExitJustified
  BY DEF WindowInv
<1>2. QED
  BY <1>1, WindowInductive, PTL

\* No later packet moves the session or the window.
THEOREM AnchorStays == Spec => AnchorKept
<1>1. TypeOK /\ [Next]_vars =>
        [ /\ activeSession # None => UNCHANGED activeSession
          /\ firstPacket # None => UNCHANGED windowVars ]_vars
  <2> SUFFICES ASSUME TypeOK, Next
               PROVE  /\ activeSession # None => UNCHANGED activeSession
                      /\ firstPacket # None => UNCHANGED windowVars
    OBVIOUS
  <2>1. CASE LoopStep \/ Environment
    BY <2>1 DEF LoopStep, EnterIteration, LeaveLoop, SpinIdle, CheckDiscovery,
                CheckTimeout, CheckDeadline, WriteSummary, Environment, Tick,
                Interrupt, GraphChange, nodeVars
  <2>2. ASSUME NEW p \in Packets, SpinPacket(p)
        PROVE  /\ activeSession # None => UNCHANGED activeSession
               /\ firstPacket # None => UNCHANGED windowVars
    <3>1. CASE OtherSession(p)
      BY <3>1 DEF OtherSession, nodeVars
    <3>2. CASE Accept(p)
      BY <3>2, AcceptAnchors
    <3>3. QED
      BY <2>2, <3>1, <3>2 DEF SpinPacket, OnPacket, DuringWarmup, AfterWindow, Measure
  <2>3. QED
    BY <2>1, <2>2 DEF Next, Arrival
<1>2. QED
  BY <1>1, TypeCorrect, PTL DEF Spec, AnchorKept

-----------------------------------------------------------------------------
(* The summary and the rows *)

Duplicates == {i \in DOMAIN rows : rows[i].duplicate}
Reordered  == {i \in DOMAIN rows : rows[i].reordered}
Gaps       == {i \in DOMAIN rows : rows[i].lostGap}

\* The tracker has observed exactly the rows.
RowsTracked ==
  /\ Extremes(tracker)
  /\ RowSeqs = tracker.seen
  /\ tracker.duplicates = Cardinality(Duplicates)
  /\ tracker.outOfOrder = Cardinality(Reordered)
  /\ tracker.gapEvents = Cardinality(Gaps)

\* The summary written is that of the final state of the node.
SummaryTaken == rpc = "done" => summary = Summary

SummaryInv == TypeOK /\ RowsTracked /\ SummaryTaken

\* A measured packet is observed and becomes a row at once.
LEMMA MeasureTracked ==
  ASSUME TypeOK, RowsTracked, NEW p \in Packets, Measure(p)
  PROVE  RowsTracked'
<1> DEFINE e == EventFor(tracker, p.seq)
           n == Len(rows) + 1
<1>1. tracker \in TrackerType(Starts) /\ p.seq \in Nat
  BY ReceiverAssumption DEF TypeOK, TrackerType, Starts
<1>2. /\ e \in Event
      /\ e.duplicate \in BOOLEAN /\ e.outOfOrder \in BOOLEAN /\ e.lostGap \in BOOLEAN
  BY <1>1, ObserveType DEF Event
<1>3. /\ tracker' = Observe(tracker, p.seq) /\ rows' = Append(rows, RowFor(p))
      /\ RowFor(p).seq = p.seq
      /\ RowFor(p).duplicate = e.duplicate
      /\ RowFor(p).reordered = e.outOfOrder
      /\ RowFor(p).lostGap = e.lostGap
  BY DEF Measure, RowFor
<1>4. rows \in Seq(Row) /\ RowFor(p) \in Row
  BY MeasureType DEF TypeOK
<1>5. /\ DOMAIN rows = 1 .. Len(rows) /\ Len(rows) \in Nat
      /\ DOMAIN rows' = 1 .. n
      /\ rows'[n] = RowFor(p)
      /\ \A i \in 1 .. Len(rows) : rows'[i] = rows[i]
  BY <1>3, <1>4
<1>6. 1 .. n = (1 .. Len(rows)) \cup {n}
  BY <1>5
<1>7. /\ IsFiniteSet(Duplicates) /\ n \notin Duplicates
      /\ IsFiniteSet(Reordered) /\ n \notin Reordered
      /\ IsFiniteSet(Gaps) /\ n \notin Gaps
  <2>1. IsFiniteSet(1 .. Len(rows)) /\ n \notin 1 .. Len(rows)
    BY <1>5, FS_Interval
  <2>2. /\ Duplicates \subseteq 1 .. Len(rows)
        /\ Reordered \subseteq 1 .. Len(rows)
        /\ Gaps \subseteq 1 .. Len(rows)
    BY <1>5 DEF Duplicates, Reordered, Gaps
  <2>3. QED
    BY <2>1, <2>2, FS_Subset
<1>8. Duplicates' = IF e.duplicate THEN Duplicates \cup {n} ELSE Duplicates
  BY <1>3, <1>5, <1>6 DEF Duplicates
<1>9. Reordered' = IF e.outOfOrder THEN Reordered \cup {n} ELSE Reordered
  BY <1>3, <1>5, <1>6 DEF Reordered
<1>10. Gaps' = IF e.lostGap THEN Gaps \cup {n} ELSE Gaps
  BY <1>3, <1>5, <1>6 DEF Gaps
<1>11. Cardinality(Duplicates') = Cardinality(Duplicates) + (IF e.duplicate THEN 1 ELSE 0)
  BY <1>2, <1>7, <1>8, CardinalityStep
<1>12. Cardinality(Reordered') = Cardinality(Reordered) + (IF e.outOfOrder THEN 1 ELSE 0)
  BY <1>2, <1>7, <1>9, CardinalityStep
<1>13. Cardinality(Gaps') = Cardinality(Gaps) + (IF e.lostGap THEN 1 ELSE 0)
  BY <1>2, <1>7, <1>10, CardinalityStep
<1>14. /\ tracker'.duplicates = tracker.duplicates + (IF e.duplicate THEN 1 ELSE 0)
       /\ tracker'.outOfOrder = tracker.outOfOrder + (IF e.outOfOrder THEN 1 ELSE 0)
       /\ tracker'.gapEvents = tracker.gapEvents + (IF e.lostGap THEN 1 ELSE 0)
       /\ Extremes(tracker')
  BY <1>1, <1>3, ObserveCounts, ObserveExtremes DEF RowsTracked
<1>15. RowSeqs' = tracker'.seen
  <2>1. RowSeqs' = RowSeqs \cup {p.seq}
    BY <1>3, <1>5, <1>6 DEF RowSeqs
  <2>2. tracker'.seen = tracker.seen \cup {p.seq}
    BY <1>1, <1>3 DEF Observe, IsDuplicate, TrackerType
  <2>3. QED
    BY <2>1, <2>2 DEF RowsTracked
<1>16. QED
  BY <1>11, <1>12, <1>13, <1>14, <1>15 DEF RowsTracked

\* SummaryInv holds throughout.
THEOREM SummaryInductive == Spec => []SummaryInv
<1>1. Init => SummaryInv
  <2> SUFFICES ASSUME Init PROVE RowsTracked /\ SummaryTaken
    BY TypeInitially DEF SummaryInv
  <2>1. rows = <<>> /\ rpc = "loop"
    BY DEF Init
  <2>2. /\ tracker.seen = {} /\ tracker.minSeen = None /\ tracker.maxSeen = None
        /\ tracker.duplicates = 0 /\ tracker.outOfOrder = 0 /\ tracker.gapEvents = 0
    BY DEF Init, NewTracker
  <2>3. Duplicates = {} /\ Reordered = {} /\ Gaps = {} /\ RowSeqs = {}
    BY <2>1 DEF Duplicates, Reordered, Gaps, RowSeqs
  <2>4. RowsTracked
    BY <2>2, <2>3, FS_EmptySet DEF RowsTracked, Extremes
  <2>5. QED
    BY <2>1, <2>4 DEF SummaryTaken
<1>2. SummaryInv /\ TypeOK' /\ [Next]_vars => SummaryInv'
  <2> SUFFICES ASSUME SummaryInv, TypeOK', [Next]_vars
               PROVE  RowsTracked' /\ SummaryTaken'
    BY DEF SummaryInv
  <2> USE DEF sampleVars
  <2>1. ASSUME UNCHANGED sampleVars PROVE RowsTracked'
    BY <2>1 DEF SummaryInv, RowsTracked, RowSeqs, Duplicates, Reordered, Gaps
  <2>2. CASE EnterIteration \/ LeaveLoop \/ SpinIdle \/ CheckDiscovery
               \/ CheckTimeout \/ CheckDeadline
    <3>1. UNCHANGED sampleVars /\ rpc' # "done"
      BY <2>2 DEF EnterIteration, LeaveLoop, SpinIdle, CheckDiscovery,
                  CheckTimeout, CheckDeadline, nodeVars
    <3>2. QED
      BY <2>1, <3>1 DEF SummaryTaken
  <2>3. CASE WriteSummary
    <3>1. UNCHANGED <<nodeVars, discoveryTime>> /\ summary' = Summary
      BY <2>3 DEF WriteSummary
    <3>2. Summary' = Summary
      BY <3>1 DEF Summary, nodeVars, windowVars
    <3>3. QED
      BY <2>1, <3>1, <3>2 DEF SummaryTaken, nodeVars
  <2>4. ASSUME NEW p \in Packets, SpinPacket(p) PROVE RowsTracked' /\ SummaryTaken'
    <3>1. SummaryTaken'
      BY <2>4 DEF SpinPacket, SummaryTaken
    <3>2. CASE UNCHANGED sampleVars
      BY <2>1, <3>1, <3>2
    <3>3. CASE Measure(p)
      BY <3>1, <3>3, MeasureTracked DEF SummaryInv
    <3>4. QED
      BY <2>4, <3>2, <3>3
      DEF SpinPacket, OnPacket, OtherSession, DuringWarmup, AfterWindow, nodeVars
  <2>5. CASE Environment \/ UNCHANGED vars
    <3>1. UNCHANGED <<nodeVars, discoveryTime, rpc, summary>>
      BY <2>5 DEF Environment, Tick, Interrupt, GraphChange, vars
    <3>2. Summary' = Summary
      BY <3>1 DEF Summary, nodeVars, windowVars
    <3>3. QED
      BY <2>1, <3>1, <3>2 DEF SummaryInv, SummaryTaken, nodeVars
  <2>6. QED
    BY <2>2, <2>3, <2>4, <2>5 DEF Next, LoopStep, Arrival
<1>3. QED
  BY <1>1, <1>2, TypeCorrect, PTL DEF Spec

\* The loss of a tracker without an expected start is the number of numbers
\* that lie between two numbers seen and were not seen themselves.
LEMMA LossIsMissing ==
  ASSUME NEW t \in TrackerType({None}), Extremes(t)
  PROVE  /\ FinalLoss(t) = Cardinality(Missing(t.seen))
         /\ InferredSent(t) = UniqueReceived(t) + FinalLoss(t)
<1>1. t \in TrackerType(Starts) /\ RangeStart(t) = t.minSeen
  BY DEF TrackerType, Starts, RangeStart
<1>2. CASE t.maxSeen = None
  <2>1. t.seen = {} /\ Missing({}) = {}
    BY <1>2 DEF Extremes, Missing
  <2>2. FinalLoss(t) = 0 /\ InferredSent(t) = 0
    BY <1>2 DEF FinalLoss, InferredSent, NothingInRange
  <2>3. QED
    BY <2>1, <2>2, FS_EmptySet DEF UniqueReceived
<1>3. CASE t.maxSeen # None
  <2>1. /\ t.minSeen \in Nat /\ t.maxSeen \in Nat /\ t.minSeen <= t.maxSeen
        /\ t.seen \subseteq t.minSeen .. t.maxSeen
        /\ UniqueReceived(t) \in Nat
    BY <1>1, <1>3, ExtremesAreNat
  <2>2. t.minSeen \in t.seen /\ t.maxSeen \in t.seen
    BY <1>3 DEF Extremes
  <2> DEFINE Intervals == {a .. b : a, b \in t.seen}
  <2>3. UNION Intervals = t.minSeen .. t.maxSeen
    <3>1. \A I : I \in Intervals <=> \E a, b \in t.seen : I = a .. b
      OBVIOUS
    <3> HIDE DEF Intervals
    <3>2. \A I \in Intervals : I \subseteq t.minSeen .. t.maxSeen
      BY <2>1, <3>1
    <3>3. t.minSeen .. t.maxSeen \in Intervals
      BY <2>2, <3>1
    <3>4. QED
      BY <3>2, <3>3
  <2>4. FinalLoss(t) = Cardinality(Missing(t.seen))
    <3>1. ~NothingInRange(t)
      BY <1>1, <1>3, <2>1 DEF NothingInRange
    <3>2. FinalLoss(t) = Cardinality((t.minSeen .. t.maxSeen) \ t.seen)
      BY <1>1, <3>1 DEF FinalLoss
    <3>3. Missing(t.seen) = (UNION Intervals) \ t.seen
      BY DEF Missing
    <3> HIDE DEF Intervals
    <3>4. QED
      BY <2>3, <3>2, <3>3
  <2>5. /\ FinalLoss(t) = t.maxSeen - t.minSeen + 1 - UniqueReceived(t)
        /\ InferredSent(t) = t.maxSeen - t.minSeen + 1
    BY <1>1, <1>3, <2>1, LossFormula
  <2>6. QED
    BY <2>1, <2>4, <2>5
<1>4. QED
  BY <1>2, <1>3

\* summary.json and raw_samples.csv never disagree.
THEOREM SummaryCorrect == Spec => []SummaryMatchesRows
<1>1. SummaryInv => SummaryMatchesRows
  <2> SUFFICES ASSUME SummaryInv, rpc = "done" PROVE SummaryMatchesRows
    BY DEF SummaryMatchesRows
  <2>1. /\ summary.received = Len(rows)
        /\ summary.unique = UniqueReceived(tracker)
        /\ summary.duplicates = tracker.duplicates
        /\ summary.outOfOrder = tracker.outOfOrder
        /\ summary.gapEvents = tracker.gapEvents
        /\ summary.lost = FinalLoss(tracker)
        /\ summary.sent = InferredSent(tracker)
    BY DEF SummaryInv, SummaryTaken, Summary
  <2>2. tracker \in TrackerType({None}) /\ Extremes(tracker)
    BY DEF SummaryInv, TypeOK, RowsTracked
  <2>3. /\ FinalLoss(tracker) = Cardinality(Missing(RowSeqs))
        /\ InferredSent(tracker) = UniqueReceived(tracker) + FinalLoss(tracker)
    BY <2>2, LossIsMissing DEF SummaryInv, RowsTracked
  <2>4. /\ tracker.duplicates = RowsWith(LAMBDA r : r.duplicate)
        /\ tracker.outOfOrder = RowsWith(LAMBDA r : r.reordered)
        /\ tracker.gapEvents = RowsWith(LAMBDA r : r.lostGap)
    BY DEF SummaryInv, RowsTracked, RowsWith, Duplicates, Reordered, Gaps
  <2>5. UniqueReceived(tracker) = Cardinality(RowSeqs)
    BY DEF SummaryInv, RowsTracked, UniqueReceived
  <2>6. QED
    BY <2>1, <2>3, <2>4, <2>5 DEF SummaryMatchesRows
<1>2. QED
  BY <1>1, SummaryInductive, PTL

-----------------------------------------------------------------------------
(* The latencies *)

\* A measured packet adds its latency if latencies are valid.
LEMMA LatencyStep ==
  ASSUME TypeOK, LatenciesMatchRows, NEW p \in Packets, Measure(p)
  PROVE  LatenciesMatchRows'
<1>1. /\ rows \in Seq(Row) /\ RowFor(p) \in Row /\ oneWay \in Seq(Int)
      /\ rows' = Append(rows, RowFor(p))
      /\ RowFor(p).localAt = now /\ RowFor(p).sentAt = p.sentAt
  <2>1. RowFor(p) \in Row
    BY MeasureType
  <2>2. QED
    BY <2>1 DEF TypeOK, Measure, RowFor
<1>2. CASE ~OneWayValid
  <2>1. oneWay' = oneWay /\ Len(oneWay) = 0
    BY <1>2 DEF Measure, LatenciesMatchRows
  <2>2. DOMAIN oneWay' = {} /\ Len(oneWay') = 0
    BY <1>1, <2>1
  <2>3. QED
    BY <1>2, <2>2 DEF LatenciesMatchRows
<1>3. CASE OneWayValid
  <2> DEFINE n == Len(rows) + 1
  <2>1. Len(oneWay) = Len(rows) /\ oneWay' = Append(oneWay, Latency(p))
    BY <1>3 DEF Measure, LatenciesMatchRows
  <2>2. /\ DOMAIN oneWay = 1 .. Len(rows) /\ Len(rows) \in Nat
        /\ DOMAIN oneWay' = 1 .. n /\ Len(oneWay') = Len(rows')
        /\ oneWay'[n] = Latency(p) /\ rows'[n] = RowFor(p)
        /\ \A i \in 1 .. Len(rows) : oneWay'[i] = oneWay[i] /\ rows'[i] = rows[i]
    BY <1>1, <2>1
  <2>3. ASSUME Offset = WallSkew PROVE Latency(p) = now - p.sentAt
    <3>1. now \in Int
      BY ReceiverAssumption DEF TypeOK, Time
    <3>2. p.sentAt \in Int /\ WallSkew \in Int
      BY ReceiverAssumption
    <3>3. Latency(p) = (now + WallSkew) - p.sentAt - WallSkew
      BY <2>3 DEF Latency, WallNow
    <3>4. QED
      BY <3>1, <3>2, <3>3
  <2>4. ASSUME Offset = WallSkew, NEW i \in DOMAIN oneWay'
        PROVE  oneWay'[i] = rows'[i].localAt - rows'[i].sentAt
    <3>1. CASE i = n
      BY <1>1, <2>2, <2>3, <2>4, <3>1
    <3>2. CASE i \in 1 .. Len(rows)
      <4>1. oneWay[i] = rows[i].localAt - rows[i].sentAt
        BY <2>2, <2>4, <3>2 DEF LatenciesMatchRows
      <4>2. QED
        BY <2>2, <3>2, <4>1
    <3>3. QED
      BY <2>2, <3>1, <3>2
  <2>5. QED
    BY <1>3, <2>2, <2>4 DEF LatenciesMatchRows
<1>4. QED
  BY <1>2, <1>3

\* Every row has its latency, or none has.
THEOREM LatenciesCorrect == Spec => []LatenciesMatchRows
<1>1. Init => LatenciesMatchRows
  BY DEF Init, LatenciesMatchRows
<1>2. TypeOK /\ LatenciesMatchRows /\ [Next]_vars => LatenciesMatchRows'
  <2> SUFFICES ASSUME TypeOK, LatenciesMatchRows, [Next]_vars
               PROVE  LatenciesMatchRows'
    OBVIOUS
  <2>1. CASE UNCHANGED sampleVars
    BY <2>1 DEF sampleVars, LatenciesMatchRows
  <2>2. CASE \E p \in Packets : Measure(p)
    BY <2>2, LatencyStep
  <2>3. CASE LoopStep \/ Environment \/ UNCHANGED vars
    <3>1. UNCHANGED sampleVars
      BY <2>3 DEF LoopStep, EnterIteration, LeaveLoop, SpinIdle, CheckDiscovery,
                  CheckTimeout, CheckDeadline, WriteSummary, Environment, Tick,
                  Interrupt, GraphChange, vars, nodeVars
    <3>2. QED
      BY <2>1, <3>1
  <2>4. CASE Arrival
    BY <2>1, <2>2, <2>4
    DEF Arrival, SpinPacket, OnPacket, OtherSession, DuringWarmup, AfterWindow, nodeVars
  <2>5. QED
    BY <2>3, <2>4 DEF Next
<1>3. QED
  BY <1>1, <1>2, TypeCorrect, PTL DEF Spec
=============================================================================

-------------------------- MODULE RoleStartupProofs -------------------------
(***************************************************************************)
(* Theorems about RoleStartup, for every set of command lines: where an    *)
(* option is tested is enough for what the later steps assume of it,       *)
(* whatever the order of the tests, of what they guard, and of a request   *)
(* to stop.                                                                *)
(***************************************************************************)
EXTENDS RoleStartup, TLAPS

\* The steps of a process that has not ended, by the tests they come after.
Streaming == {"stream", "measuring"}
Running   == {"metadata", "wait", "loop", "finally"} \cup Streaming
AfterNode == {"directory", "handlers"} \cup Running
AfterTests == {"init", "node"} \cup AfterNode
AfterConfig == {"domain"} \cup AfterTests
BeforeDirectory == {"config", "domain", "init", "node", "directory"}

\* No float that has to become an integer is infinite or NaN.
WindowPossible == ~NoInteger(args.warmup) /\ ~NoInteger(args.duration)

SessionFits == session \in 0 .. MaxSession

Given ==
  /\ args \in CommandLines
  /\ step \in {"config", "gone"} \cup AfterConfig

\* The three places where options are rejected.
Tested ==
  /\ step \in AfterConfig => ~Rejected
  /\ step \in AfterTests => ~DomainRejected /\ domain = args.domain
  /\ step \in AfterNode => ~QosRejected

\* An offset that is used can be converted.
OffsetUsable == TRUE \in OneWayValid => ~NoInteger(args.offset)

\* What the sender's start() converts before its loop, the receiver with the
\* first packet.
Converted ==
  /\ Node = "sender" /\ step \in {"loop"} \cup Streaming =>
       WindowPossible /\ args.rate \notin {"nan", "tiny"}
  /\ step \in Streaming => WindowPossible /\ SessionFits
  /\ step = "measuring" => OffsetUsable

\* Nothing is on the disk before the node exists.
NothingMade ==
  /\ step \in BeforeDirectory => directory = "none"
  /\ exit # "no" => step = "gone"
  /\ RejectedLeavesNothing

StartupInv == Given /\ Tested /\ Converted /\ NothingMade

\* A step of a process keeps its command line; the process has not ended.
LEMMA StepsGo ==
  ASSUME Next
  PROVE  args' = args /\ step # "gone"
<1>1. RunStep \/ FirstReceived \/ FirstMeasured => args' = args /\ step # "gone"
  BY DEF RunStep, FirstReceived, FirstMeasured, ReadConfig, ApplyDomainId, InitContext,
         MakeNode, MakeDirectory, InstallHandlers, WriteMetadata, WaitEnds,
         Start, LeaveLoop, FirstSent, DiscoveryTimeout, StreamEnds, Leave, config
<1>2. SubscriptionSeen \/ StopRequest => args' = args /\ step # "gone"
  BY DEF SubscriptionSeen, Start, StopRequest, config
<1>3. QED
  BY <1>1, <1>2 DEF Next

\* A packet is measured with an offset that can be used, or it raises.
LEMMA MeasureUsable ==
  ASSUME Measure
  PROVE  /\ UNCHANGED exit
         /\ \/ step' = "finally"
            \/ step' = "measuring" /\ OffsetUsable
<1>1. PICK valid \in OneWayValid :
        IF valid /\ NoInteger(args.offset) THEN Raise
        ELSE Goto("measuring") /\ UNCHANGED failing
  BY DEF Measure
<1>2. CASE NoInteger(args.offset)
  <2>1. TRUE \in OneWayValid => OneWayValid = {TRUE}
    BY <1>2 DEF OneWayValid, OffsetWithinLimit, NoInteger
  <2>2. CASE TRUE \in OneWayValid
    <3>1. valid = TRUE
      BY <1>1, <2>1, <2>2
    <3>2. Raise
      BY <1>1, <1>2, <3>1, Zenon
    <3>3. QED
      BY <3>2 DEF Raise, Goto
  <2>3. CASE TRUE \notin OneWayValid
    <3>1. OffsetUsable
      BY <2>3 DEF OffsetUsable
    <3>2. Raise \/ Goto("measuring")
      BY <1>1, Zenon
    <3>3. QED
      BY <3>1, <3>2, Zenon DEF Raise, Goto
  <2>4. QED
    BY <2>2, <2>3
<1>3. CASE ~NoInteger(args.offset)
  BY <1>1, <1>3 DEF OffsetUsable, Raise, Goto
<1>4. QED
  BY <1>2, <1>3

\* StartupInv is inductive.
THEOREM StartupInductive == Spec => []StartupInv
<1>1. Init => StartupInv
  BY DEF Init, StartupInv, Given, Tested, Converted, NothingMade, AfterConfig,
         AfterTests, AfterNode, Running, Streaming, BeforeDirectory,
         RejectedLeavesNothing
<1>2. StartupInv /\ [Next]_vars => StartupInv'
  <2>1. ASSUME StartupInv, Next PROVE StartupInv'
    <3>1. args' = args /\ step # "gone" /\ exit = "no"
      BY <2>1, StepsGo DEF StartupInv, NothingMade
    <3>2. /\ Rejected' <=> Rejected
          /\ DomainRejected' <=> DomainRejected
          /\ QosRejected' <=> QosRejected
          /\ WindowPossible' <=> WindowPossible
          /\ OffsetUsable' <=> OffsetUsable
          /\ Node' = Node
      BY <3>1 DEF Rejected, DomainRejected, QosRejected, WindowPossible, Node,
                  OffsetUsable, OneWayValid, OffsetWithinLimit
    <3> USE DEF StartupInv, Given, Tested, Converted, NothingMade, SessionFits,
                RejectedLeavesNothing, AfterConfig, AfterTests, AfterNode,
                Running, Streaming, BeforeDirectory, Goto, End, Raise, config
    <3>3. CASE ReadConfig
      BY <2>1, <3>1, <3>2, <3>3 DEF ReadConfig
    <3>4. CASE ApplyDomainId
      BY <2>1, <3>1, <3>2, <3>4 DEF ApplyDomainId
    <3>5. CASE InitContext
      BY <2>1, <3>1, <3>2, <3>5 DEF InitContext
    <3>6. CASE MakeNode
      BY <2>1, <3>1, <3>2, <3>6 DEF MakeNode
    <3>7. CASE MakeDirectory \/ InstallHandlers
      BY <2>1, <3>1, <3>2, <3>7 DEF MakeDirectory, InstallHandlers
    <3>8. CASE WriteMetadata
      BY <2>1, <3>1, <3>2, <3>8 DEF WriteMetadata
    <3>9. CASE Start
      <4>1. CASE StartFails
        BY <2>1, <3>1, <3>2, <3>9, <4>1 DEF Start
      <4>2. CASE ~StartFails
        <5>1. WindowPossible /\ args.rate \notin {"nan", "tiny"}
          BY <4>2 DEF StartFails, WindowFails, WindowPossible
        <5>2. QED
          BY <2>1, <3>1, <3>2, <3>9, <4>2, <5>1 DEF Start
      <4>3. QED
        BY <4>1, <4>2
    <3>10. CASE LeaveLoop \/ DiscoveryTimeout
      BY <2>1, <3>1, <3>2, <3>10 DEF LeaveLoop, DiscoveryTimeout
    <3>11. CASE FirstSent
      BY <2>1, <3>1, <3>2, <3>11 DEF FirstSent
    <3>12. CASE FirstReceived
      <4>1. CASE WindowFails
        BY <2>1, <3>1, <3>2, <3>12, <4>1 DEF FirstReceived
      <4>2. CASE ~WindowFails
        <5>1. WindowPossible /\ step = "loop" /\ Node = "receiver" /\ SessionFits
          BY <3>12, <4>2 DEF FirstReceived, WindowFails, WindowPossible
        <5>2. Measure \/ (step' = "stream" /\ UNCHANGED exit)
          BY <3>12, <4>2 DEF FirstReceived
        <5>3. UNCHANGED <<session, domain, directory>>
          BY <3>12 DEF FirstReceived
        <5>4. QED
          BY <2>1, <3>1, <3>2, <5>1, <5>2, <5>3, MeasureUsable
      <4>3. QED
        BY <4>1, <4>2
    <3>13. CASE FirstMeasured
      <4>1. Measure /\ step = "stream" /\ UNCHANGED <<session, domain, directory>>
        BY <3>13 DEF FirstMeasured
      <4>2. QED
        BY <2>1, <3>1, <3>2, <4>1, MeasureUsable
    <3>14. CASE StreamEnds \/ Leave
      BY <2>1, <3>1, <3>2, <3>14 DEF StreamEnds, Leave
    <3>15. CASE StopRequest
      BY <2>1, <3>1, <3>2, <3>15 DEF StopRequest, Unprotected, Starting
    <3>16. QED
      BY <2>1, <3>3, <3>4, <3>5, <3>6, <3>7, <3>8, <3>9, <3>10, <3>11, <3>12,
         <3>13, <3>14, <3>15 DEF Next, RunStep, WaitEnds, SubscriptionSeen
  <2>2. ASSUME StartupInv, UNCHANGED vars PROVE StartupInv'
    BY <2>2 DEF vars, StartupInv, Given, Tested, Converted, NothingMade, Rejected,
                DomainRejected, QosRejected, WindowPossible, SessionFits, Node,
                OffsetUsable, OneWayValid, OffsetWithinLimit, RejectedLeavesNothing
  <2>3. QED
    BY <2>1, <2>2
<1>3. QED
  BY <1>1, <1>2, PTL DEF Spec

\* RejectedLeavesNothing: whichever option is wrong and wherever that is found,
\* no run directory is made and none of an earlier run overwritten.
THEOREM RejectionLeavesNothing == Spec => []RejectedLeavesNothing
<1>1. StartupInv => RejectedLeavesNothing
  BY DEF StartupInv, NothingMade
<1>2. QED
  BY <1>1, StartupInductive, PTL

\* StreamIsWellPosed: what the role modules assume of the options holds when the
\* stream begins, although no place tests all of it; of the offset, once a
\* packet is measured.
THEOREM StreamWellPosed == Spec => []StreamIsWellPosed
<1>1. StartupInv => StreamIsWellPosed
  <2> SUFFICES ASSUME StartupInv PROVE StreamIsWellPosed
    OBVIOUS
  <2>1. args \in CommandLine
    BY StartupAssumption DEF StartupInv, Given
  <2>2. /\ args.rate \in Kinds /\ args.timeout \in Kinds /\ args.depth \in Int
        /\ args.duration \in Kinds /\ args.warmup \in Kinds
        /\ args.offset \in (Kinds \ {"negative"}) \cup {None}
    BY <2>1 DEF CommandLine
  <2>3. ASSUME step \in Streaming
        PROVE  /\ args.payload \in 0 .. MaxPayload
               /\ args.duration \in Natural \ {"zero"}
               /\ args.warmup \in Natural
               /\ Node = "sender" => args.rate \in {"positive", "infinite"}
               /\ args.timeout \in {"tiny", "positive", "infinite", "nan"}
               /\ args.depth >= 1
               /\ session \in 0 .. MaxSession
               /\ args.domain # None => domain = args.domain
               /\ args.clockSync = "offset" => args.offset # None
    <3>1. ~Rejected /\ ~DomainRejected /\ ~QosRejected /\ domain = args.domain
      BY <2>3 DEF StartupInv, Tested, AfterConfig, AfterTests, AfterNode, Running
    <3>2. /\ WindowPossible /\ SessionFits
          /\ Node = "sender" => args.rate \notin {"nan", "tiny"}
      BY <2>3 DEF StartupInv, Converted
    <3>3. /\ args.payload \in 0 .. MaxPayload
          /\ args.clockSync = "offset" => args.offset # None
      BY <3>1 DEF Rejected
    <3>4. args.duration \in Natural \ {"zero"}
      BY <2>2, <3>1, <3>2 DEF Kinds, Natural, Rejected, NotPositive, WindowPossible, NoInteger
    <3>5. args.warmup \in Natural
      BY <2>2, <3>1, <3>2 DEF Kinds, Natural, Rejected, WindowPossible, NoInteger
    <3>6. Node = "sender" => args.rate \in {"positive", "infinite"}
      BY <2>2, <3>1, <3>2 DEF Kinds, Rejected, NotPositive
    <3>7. args.timeout \in {"tiny", "positive", "infinite", "nan"}
      BY <2>2, <3>1 DEF Kinds, Rejected, NotPositive
    <3>8. args.depth >= 1
      BY <2>2, <3>1 DEF QosRejected
    <3>9. QED
      BY <3>1, <3>2, <3>3, <3>4, <3>5, <3>6, <3>7, <3>8 DEF SessionFits
  <2>4. ASSUME step = "measuring", TRUE \in OneWayValid
        PROVE  args.offset \in Natural \cup {None}
    <3>1. ~NoInteger(args.offset)
      BY <2>4 DEF StartupInv, Converted, OffsetUsable
    <3>2. QED
      BY <2>2, <3>1 DEF Kinds, Natural, NoInteger
  <2>5. QED
    BY <2>3, <2>4 DEF StreamIsWellPosed, Streaming
<1>2. QED
  BY <1>1, StartupInductive, PTL
=============================================================================

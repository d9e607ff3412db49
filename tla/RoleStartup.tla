----------------------------- MODULE RoleStartup ----------------------------
(***************************************************************************)
(* A role process from its command line to its first packet: the options   *)
(* (nodes/common.py, utils/qos.py), the three entry points, and run() up   *)
(* to the place where the other modules take over.  Options are rejected   *)
(* in three places, at three stages of the start; what passes all of them  *)
(* is used by the benchmark without further tests.                         *)
(*                                                                         *)
(* A float option is one of the kinds that its tests and conversions tell  *)
(* apart; "tiny" is positive and less than a nanosecond.  A stop request   *)
(* (SIGINT or SIGTERM) may come between any two steps.                     *)
(***************************************************************************)
EXTENDS Integers

CONSTANTS
  None,         \* the option is not given
  CommandLines, \* entry point and options
  MaxPayload,   \* the greatest uint32
  MaxSession,   \* the greatest uint64
  MaxDomain,    \* 232
  RandomIds     \* what secrets.randbits(63) may return

Kinds == {"negative", "zero", "tiny", "positive", "infinite", "nan"}

\* What argparse makes of a command line.  A "tiny" rate is one whose period is
\* too long for the timer.  Of an offset only the amount is tested or can fail
\* to convert: its kind is that of its absolute value.
CommandLine ==
  [ entry : {"run_benchmark", "sender", "receiver"},
    role : {None, "sender", "receiver"}, payload : Int,
    rate : Kinds, duration : Kinds, warmup : Kinds,
    timeout : Kinds, session : Int \cup {None}, domain : Int \cup {None},
    depth : Int, deadline : Kinds \cup {None},
    clockSync : {"unknown", "ok", "offset"}, offset : (Kinds \ {"negative"}) \cup {None},
    maxOffset : Kinds ]

ASSUME StartupAssumption ==
  /\ None \notin Int \cup Kinds
  /\ {MaxPayload, MaxSession, MaxDomain} \subseteq Nat
  /\ RandomIds \subseteq 0 .. MaxSession
  /\ CommandLines \subseteq CommandLine
  /\ \A c \in CommandLines : c.entry = "run_benchmark" => c.role # None

VARIABLES
  args,       \* the command line
  step,       \* what the process does next
  session,    \* config.session_id
  domain,     \* ROS_DOMAIN_ID as set by the run, None while it is not
  context,    \* of rclpy
  directory,  \* the run directory: "none", "made", or "used" with metadata
  stop,       \* stop.requested
  failing,    \* an exception is on its way out of the try
  exit        \* how the process ended, "no" before

vars == <<args, step, session, domain, context, directory, stop, failing, exit>>
config == <<args, session, domain>>

Init ==
  /\ args \in CommandLines
  /\ step = "config"
  /\ session = None
  /\ domain = None
  /\ context = "none"
  /\ directory = "none"
  /\ stop = FALSE
  /\ failing = FALSE
  /\ exit = "no"

Goto(s) == step' = s /\ UNCHANGED exit

End(how) == step' = "gone" /\ exit' = how

-----------------------------------------------------------------------------
(* Options *)

\* x <= 0, which is false of a NaN.
NotPositive(x) == x \in {"negative", "zero"}

\* int(x) raises.
NoInteger(x) == x \in {"infinite", "nan"}

\* The ValueErrors of config_from_args.
Rejected ==
  \/ args.payload \notin 0 .. MaxPayload
  \/ NotPositive(args.rate)
  \/ NotPositive(args.duration)
  \/ args.warmup = "negative"
  \/ NotPositive(args.timeout)
  \/ args.clockSync = "offset" /\ args.offset = None

\* Of the interface of apply_domain_id.
DomainRejected == args.domain # None /\ args.domain \notin 0 .. MaxDomain

DepthUnchecked == args.deadline = "negative" \/ NoInteger(args.deadline)  \* mutant

\* qos_profile, called by the constructor of the node.
QosRejected ==
  args.depth < 1 \/ args.deadline = "negative" \/ NoInteger(args.deadline)

\* Kinds in the order of their values.
Order == [zero |-> 0, tiny |-> 1, positive |-> 2, infinite |-> 3]

\* What abs(offset) <= limit may be: two values of one kind may be either way
\* round if the kind has several.
OffsetWithinLimit ==
  IF ~ {args.offset, args.maxOffset} \subseteq DOMAIN Order THEN {FALSE}
  ELSE IF args.offset = args.maxOffset /\ args.offset \in {"tiny", "positive"}
       THEN BOOLEAN
       ELSE {Order[args.offset] <= Order[args.maxOffset]}

\* What one_way_latency_valid may return.
OneWayValid ==
  IF args.clockSync = "ok" THEN {TRUE}
  ELSE IF args.clockSync = "offset" THEN OffsetWithinLimit
  ELSE {FALSE}

\* The node that runs: main of a role's own module ignores config.role.
Node == IF args.entry = "run_benchmark" THEN args.role ELSE args.entry

\* config.role.  A role's own main puts its role before the options given, and
\* the last one counts.
Role == IF args.role = None THEN args.entry ELSE args.role

DefaultIds(role) == IF role = "receiver" THEN {0} ELSE RandomIds

-----------------------------------------------------------------------------
(* The start *)

ReadConfig ==
  /\ step = "config"
  /\ IF Rejected
     THEN End("rejected") /\ UNCHANGED session
     ELSE /\ session' \in IF args.session = None THEN DefaultIds(Role)
                          ELSE {args.session}
          /\ Goto("domain")
  /\ UNCHANGED <<args, domain, context, directory, stop, failing>>

ApplyDomainId ==
  /\ step = "domain"
  /\ IF DomainRejected
     THEN End("rejected") /\ UNCHANGED domain
     ELSE domain' = args.domain /\ Goto("init")
  /\ UNCHANGED <<args, session, context, directory, stop, failing>>

DirectoryFirst ==                                             \* mutant
  /\ step = "init"
  /\ context' = "up"
  /\ directory' = "made"
  /\ Goto("node")
  /\ UNCHANGED <<config, stop, failing>>

InitContext ==
  /\ step = "init"
  /\ context' = "up"
  /\ Goto("node")
  /\ UNCHANGED <<config, directory, stop, failing>>

\* A node cannot be made in a context that is down.
MakeNode ==
  /\ step = "node"
  /\ IF context = "down" THEN End("error")
     ELSE IF QosRejected THEN End("rejected")
     ELSE Goto("directory")
  /\ UNCHANGED <<config, context, directory, stop, failing>>

MakeDirectory ==
  /\ step = "directory"
  /\ directory' = "made"
  /\ Goto("handlers")
  /\ UNCHANGED <<config, context, stop, failing>>

InstallHandlers ==
  /\ step = "handlers"
  /\ Goto("metadata")
  /\ UNCHANGED <<config, context, directory, stop, failing>>

-----------------------------------------------------------------------------
(* The benchmark, as far as the options can end it *)

Stopped == stop \/ context = "down"

Raise == Goto("finally") /\ failing' = TRUE

\* The sender waits for a subscription before it starts.
WriteMetadata ==
  /\ step = "metadata"
  /\ directory' = "used"
  /\ Goto(IF Node = "sender" THEN "wait" ELSE "loop")
  /\ UNCHANGED <<config, context, stop, failing>>

NeverTimesOut == FALSE                                        \* mutant

\* elapsed > timeout, which is false of a NaN, and of infinity.
TimesOut == ~NoInteger(args.timeout)

WindowFails == \E x \in {args.warmup, args.duration} : NoInteger(x)

\* start() of the sender makes integers of its window and of the period.
StartFails ==
  \/ WindowFails
  \/ args.rate \in {"nan", "tiny"}

Start ==
  /\ step = "wait"
  /\ IF StartFails THEN Raise ELSE Goto("loop") /\ UNCHANGED failing
  /\ UNCHANGED <<config, context, directory, stop>>

SubscriptionSeen == Start

WaitEnds == (TimesOut \/ Stopped) /\ Start

LeaveLoop ==
  /\ step = "loop"
  /\ Stopped
  /\ Goto("finally")
  /\ UNCHANGED <<config, context, directory, stop, failing>>

\* The first call of the sender's timer.  The field of the message is an
\* uint64, and its setter asserts it.
FirstSent ==
  /\ step = "loop"
  /\ ~Stopped
  /\ Node = "sender"
  /\ IF session \in 0 .. MaxSession
     THEN Goto("stream") /\ UNCHANGED failing
     ELSE Raise
  /\ UNCHANGED <<config, context, directory, stop>>

\* The first packet that the receiver measures; the offset is converted for it
\* and for every later one.
Measure ==
  \E valid \in OneWayValid :
    IF valid /\ NoInteger(args.offset)
    THEN Raise
    ELSE Goto("measuring") /\ UNCHANGED failing

\* The first packet of the session at the receiver sets its window; without a
\* warm-up it is measured at once.
FirstReceived ==
  /\ step = "loop"
  /\ ~Stopped
  /\ Node = "receiver"
  /\ session \in 0 .. MaxSession
  /\ IF WindowFails THEN Raise
     ELSE IF args.warmup = "positive" THEN Goto("stream") /\ UNCHANGED failing
     ELSE Measure
  /\ UNCHANGED <<config, context, directory, stop>>

FirstMeasured ==
  /\ step = "stream"
  /\ Node = "receiver"
  /\ Measure
  /\ UNCHANGED <<config, context, directory, stop>>

DiscoveryTimeout ==
  /\ step = "loop"
  /\ ~Stopped
  /\ Node = "receiver"
  /\ TimesOut
  /\ Goto("finally")
  /\ UNCHANGED <<config, context, directory, stop, failing>>

\* The window is finite: the stream ends, measured or not.
StreamEnds ==
  /\ step \in {"stream", "measuring"}
  /\ Goto("finally")
  /\ UNCHANGED <<config, context, directory, stop, failing>>

\* The artifacts, and rclpy.shutdown, which raises if the context is down.
Leave ==
  /\ step = "finally"
  /\ End(IF failing \/ context = "down" THEN "error" ELSE "ok")
  /\ context' = "down"
  /\ UNCHANGED <<config, directory, stop, failing>>

-----------------------------------------------------------------------------
(* Stop requests *)

Starting == {"config", "domain", "init", "node", "directory", "handlers"}

Unprotected == step \in Starting

\* Before stop.install a request ends the process, or, after rclpy.init, it
\* may only shut the context down (the handler is rclpy's).
StopRequest ==
  /\ step # "gone"
  /\ \/ Unprotected /\ End("stopped") /\ UNCHANGED <<context, stop>>
     \/ /\ Unprotected /\ context = "up"
        /\ context' = "down"
        /\ UNCHANGED <<step, stop, exit>>
     \/ ~Unprotected /\ stop' = TRUE /\ UNCHANGED <<step, context, exit>>
  /\ UNCHANGED <<config, directory, failing>>

RunStep ==
  \/ ReadConfig \/ ApplyDomainId \/ InitContext \/ MakeNode
  \/ MakeDirectory \/ InstallHandlers
  \/ WriteMetadata \/ WaitEnds
  \/ LeaveLoop \/ FirstSent \/ DiscoveryTimeout
  \/ StreamEnds \/ Leave

Next ==
  \/ RunStep
  \/ SubscriptionSeen \/ FirstReceived \/ FirstMeasured
  \/ StopRequest

Spec == Init /\ [][Next]_vars

\* The process is scheduled.  Nobody has to subscribe or publish.
FairSpec == Spec /\ WF_vars(RunStep)

-----------------------------------------------------------------------------
(* Properties *)

\* An option that is rejected, at whichever of the three stages, leaves no run
\* directory behind, and above all none of an earlier run overwritten.
RejectedLeavesNothing == exit = "rejected" => directory = "none"

\* Floats of which int() makes a natural number; "tiny" becomes 0.
Natural == {"zero", "tiny", "positive"}

\* Wherever an option is tested, or not tested and only converted, a stream
\* that has begun has the options that the role modules assume of it: sizes,
\* numbers and the times of the window are natural, and so is the period of the
\* sender (that of an infinite rate is 0).  The timeout is positive, or a NaN
\* and never exceeded; the offset is a number once it is used for a packet.
StreamIsWellPosed ==
  /\ step \in {"stream", "measuring"} =>
       /\ args.payload \in 0 .. MaxPayload
       /\ args.duration \in Natural \ {"zero"}
       /\ args.warmup \in Natural
       /\ Node = "sender" => args.rate \in {"positive", "infinite"}
       /\ args.timeout \in {"tiny", "positive", "infinite", "nan"}
       /\ args.depth >= 1
       /\ session \in 0 .. MaxSession
       /\ args.domain # None => domain = args.domain
       /\ args.clockSync = "offset" => args.offset # None
  /\ step = "measuring" /\ TRUE \in OneWayValid =>
       args.offset \in Natural \cup {None}

\* A process that was given a finite discovery timeout ends, whether or not it
\* ever finds the other role.
Ends == ~NoInteger(args.timeout) => <>(exit # "no")
=============================================================================

# Formal model of ros2_netbench

`ros2_netbench` measures one-way publish/subscribe streams over ROS 2 / DDS: a
sender role publishes numbered packets at a fixed rate, a receiver role counts
what arrives, and each writes a run directory with its samples and a summary.
What the tool is for is that its numbers can be believed. The questions asked
here are therefore about the numbers: may the counts contradict each other or
the samples they were computed from, may a packet be counted that should not
be (warm-up, after the deadline, another session), may something be called
network loss that is not, does a run always end, and what is on disk when it
ends badly.

## Inventory

| component | source (under `ros2_netbench/src/ros2_netbench/`) | state | operations | status |
| --- | --- | --- | --- | --- |
| sequence tracker | `utils/stats.py` 88-167 | numbers seen, least, greatest, four counters | `observe`, derived counts | `SequenceTracking`, `SequenceTracker`, `SequenceAudit`, proved |
| stream receiver | `nodes/stream_receiver.py` | session, window, tracker, rows, latencies; step of the loop | packet callback, discovery poll, timeout, deadline, summary | `StreamReceiver`, proved |
| stream sender | `nodes/stream_sender.py` | window, timer, sequence number, rows | wait for a subscription, start, timer callback, summary | `StreamSender`, proved |
| both over a topic | the two above, `utils/qos.py`, `BenchmarkPacket.msg`, `scripts/impair_network.sh` | history of the topic | publish, deliver; lose, repeat, reorder; a sender started again | `StreamBenchmark`, `StreamRestart`, proved |
| options and start of a role | `nodes/common.py` 183-274, `utils/qos.py`, `run_benchmark.py`, `main` and the head of `run()` | options, domain, context of rclpy, handlers | validate in three stages, install handlers, first packet | `RoleStartup`, proved |
| run directory, recorders | `nodes/common.py` 90-174, `utils/network.py` 25-54, `utils/csv_json.py` | files, child processes, pending exception | write, start, stop (terminate, kill), exit | `BenchmarkRun`, proved |
| merge and analysis | `nodes/metrics_collector.py`, `analysis/` | none | read run directories | `RunReaders` (the reads), proved |
| system monitor | `nodes/sys_monitor.py` | last counters and samples | sample, summary | `SystemMonitor`, proved |
| statistics | `utils/stats.py` 16-85, 170-191 | none | percentile, deviation, jitter, rate | `SummaryStatistics`, `SampleStatistics`, proved |
| local-run script | `scripts/run_local_stream.sh` | two processes, a trap, a status | start, wait, clean up, report | `LocalRun`, proved |
| launch files, other scripts, clocks | `launch/`, `scripts/`, `utils/clocks.py` | none | pass arguments, environment variables, formatting | not modelled |

How the parts interact. The two roles are separate processes, usually on
separate hosts. They share nothing but the topic. Inside a role one thread runs
everything: `rclpy.spin_once` runs at most one callback (the subscription's or
the timer's), and the loop of `run()` does its checks between two spins. What
can change between any two statements is outside: the clocks, the signal flag
(`ShutdownFlag`), the ROS graph (who is discovered), the topic, and the child
processes. The hard behaviours are these:

* order and multiplicity of arrivals (tracker, end-to-end);
* two measurement windows with different anchors and different kinds of border;
* the race of the first packet with the discovery timeout, and of a signal with
  everything;
* a delayed process whose timer is overdue by several periods;
* a bounded history that drops packets like a network does;
* a sender that dies and numbers its packets from 0 again while the receiver
  goes on;
* readings that fail, and counters that restart, between two samples of the
  system monitor;
* options that are tested in three places, or only converted, and signals while
  the process is still starting;
* tools that read a run directory while it is written, used again or torn;
* a shell script of untimed waits whose trap may run inside itself;
* ranks and neighbours at the ends of short samples;
* exceptions inside `finally`, crashes between two artifacts, a run id used
  again, recorders that do not obey.

`PROJECT.json` lists each of them as a hazard, at its line, with the properties
that cover it.

## Modules

```
SequenceTracking      the tracker as a record, observe() as a function
  SequenceTracker     one tracker fed with any numbers      --implements--> SequenceAudit
    SequenceTrackerProofs
  SequenceTrackingLemmas   what observe() does, used by three modules of proofs
  StreamReceiver      the receiver role
    StreamReceiverProofs
StreamSender          the sender role
  StreamSenderProofs
StreamBenchmark       INSTANCEs of both, and the topic
  StreamRestart       the same with a second sender process
    StreamBenchmarkProofs    about both; uses SequenceTrackingLemmas
RoleStartup           a role process from its command line to its first packet
  RoleStartupProofs
BenchmarkRun          a role process from its try to its exit
  RunReaders          EXTENDS BenchmarkRun with a tool that reads its directory
LocalRun              the script that runs both roles on one host
    BenchmarkRunProofs    about all three
SummaryStatistics     percentile, sum, deviation and jitter, as functions
  SampleStatistics    the summaries of what a receiver measured
  SystemMonitor       the samples taken in the loop of a role, and their sums
    SummaryProofs         about both
```

The `MC*` modules only give values to constants.

**SequenceTracking** is `SequenceTracker` of `utils/stats.py` without an owner:
`Observe(t, seq)` is the state after a call, `EventFor(t, seq)` what the call
returns. It is used by every module in which a tracker lives. Numbers are
naturals: the field is an uint64 that starts at 0 and grows by one per packet.

**SequenceTracker** calls `observe` with any number of a set, any number of
times, and keeps the events as the receiver's rows do. `expected_start_seq` may
be `None` (the receiver's), 0 (the default) or more.

**SequenceAudit** is the abstract specification: it has no tracker, only the
arrivals, and defines each count from them directly (a *late* number is one that
a greater one preceded, what a gap counts are the numbers an arrival leapt over,
and so on). `ImplementsAudit` is the refinement, checked by TLC on a small
instance and proved for every one.

**StreamReceiver** has one action for each step of the loop in `run()`
(`EnterIteration`, `SpinIdle` or `SpinPacket`, `CheckDiscovery`, `CheckTimeout`,
`CheckDeadline`, `LeaveLoop`, `WriteSummary`), so the clock, a signal and the
graph may change between any two. The callback is one action; its cases are
`OtherSession`, `DuringWarmup`, `AfterWindow`, `Measure`. The clock is in ticks.
`interrupted` stands for `not rclpy.ok() or stop.requested`, which the code
reads only together. A row keeps the fields that differ between packets. Rates
are left out: they are counts over the constant `duration_s`. Warm-up, duration
and timeout may be 0, as a float below the resolution becomes 0; a timeout that
is never exceeded (infinite or NaN) is one beyond `MaxTime`.

**StreamSender** is built in the same way; the timer callback is `OnTimer` with
the cases `Finish` and `Publish`. The timer itself belongs to rclpy and is
external: periodic, phase kept, missed calls skipped. The period of an
infinite rate is 0: the next call is then always due. That case is only proved,
no run has it.

**StreamBenchmark** runs both on one clock. Each role has options of its own, as
each process takes its own: `SenderWarmup`, `ReceiverWarmup`, and so on.
`Transmit` puts a published packet into the history of the topic if the
subscription has been discovered; `Enqueue` is `keep_last`; `Arrivals` and
`Deliverable` are what `netem` may do (lose, repeat, reorder; delay needs
nothing, as every packet may wait arbitrarily long). `heard` is a history
variable: every packet the callback got.

**StreamRestart** lets the sender's process die and be started again: its
variables are those of a new process, its numbers start at 0, and what its
writer still held is lost from some packet on. `former` keeps what the first
process published. `session` is the session id of the process that runs; that of
the second is any of `SecondSessions`, the first one's among them. A second
process counts its wait from its own start; as the wait of `StreamSender` counts
from time 0, the instances have timeouts (`SenderTimeout`, `ReceiverTimeout`)
that do not pass.

**RoleStartup** takes a command line through the stages of a start: `ReadConfig`
(`config_from_args`), `ApplyDomainId`, `InitContext`, `MakeNode` (which builds
the QoS profile), `MakeDirectory`, `InstallHandlers`, `WriteMetadata`, the wait
of the sender, and the first packet, which is the first use of the session id
and, at the receiver, of the window. A float is one of the kinds its tests and
conversions tell apart (negative, zero, less than a nanosecond, positive,
infinite, NaN); a rate of the kind `tiny` is one whose period is too long for
the timer, and the kind of an offset is that of its absolute value, the only
thing tested or converted. Whether one positive offset is within a positive
limit is a choice (`OffsetWithinLimit`). An offset is converted for every packet
measured (`Measure`) and not before, so a receiver that never measures never
fails on it. `StreamIsWellPosed` is what the role modules assume of their
constants, and its exceptions are theirs too: a duration of less than a
nanosecond becomes 0, the period of an infinite rate is 0, and a timeout that is
infinite or NaN is never exceeded. A stop request meets Python's handler, then
rclpy's, then `ShutdownFlag`; before the last it ends the process or only shuts
the context down.

**BenchmarkRun** is the part of `run()` that the two roles share: metadata, the
recorders, the benchmark itself as one step, and the `finally` block. A write
opens (and truncates) a file in one step and completes it in another; it may
raise instead. An exception in the `try` leads to the `finally` block, one in
the `finally` block out of the process. The directory may hold the files of an
earlier run of the same run id, whole (`stale`) or torn by a crash (`LeftOver`).
A crash is SIGKILL (`Crash`). The receiver's lines are mapped; the sender's
block is the same (`stream_sender.py` 124-167).

**RunReaders** adds to it one reader, merge or summarize, whose reads are steps
of their own between any two of the run; merge asks first whether a file exists
(`Exists`) and reads it later (`Read`). `began` remembers how the run stood when
the tool was started.

**SystemMonitor** takes a sample in three actions, since the clock, the CPU time
and the byte counters are read at three instants between which all of them move.
`Due` is the test in the loop of `run()`; a late loop is time passing between
`EndSample` and `BeginSample`. A rate is kept as the pair of what was counted
and the time it is divided by, so that rates can be added up. `reads` is a
history variable. After a reading that failed, the next rate has the bytes of
two intervals over the time of one, and is too high. `RateTimesFit` says that
otherwise each rate is over the time since the sample it is compared with, and
that the times of all rates overlap nowhere; `EverythingCountedOnce` says the
same of the bytes. Neither bounds the averages, which weigh a rate over a short
time like one over a long time. `RatesOf` keeps each rate at the index of its
sample; a sum counts the samples without one as zero, as the code's filtered
list does by leaving them out. `Restart` creates the interface anew: its
counters start at zero, the next rate is too low or negative, and
`TrafficNotOverstated` says that it is never too high. No document of the
repository promises more.

**SummaryStatistics** has the functions of `utils/stats.py` over whole lists.
Numbers are exact: a percentile is in hundredths of the unit, a deviation is its
square as a fraction. Floats round; that is not modelled. `Ordered` is Python's
stable sort: a sample stands at its `Place`, the number of samples that precede
it or are equal and not after it. `Sum` is a recursive function, so that it can
be proved about.

**SampleStatistics** adds one latency and one time of reception per packet and
takes those statistics of what there is.

**LocalRun** has one action per command of the script, and between two commands
the rules of the shell: a pending trap runs first, then `set -e` ends a script
whose last command failed. `proc` is the `ros2 run` whose pid the script has,
`role` the receiver behind it; whether the first passes SIGTERM on to the second
is a choice made once (`forwards`). A signal during `cleanup` runs it again,
inside; a signal during `wait` ends it with a status of its own.

## Runs

| run | asks | bounds | result |
| --- | --- | --- | --- |
| `tracker` | Do counters, events and losses agree, whatever arrives? Is the tracker the audit? | 5 calls, numbers 0..4, starts None, 0, 2 | holds |
| `receiver` | What is measured, when does the loop end, do the two artifacts agree? | warm-up 1, window 1, timeout 1, first packet at up to 2, clock to 5, four packets, two sessions | holds |
| `sender` | Are numbers, rows, rate and end right when the process is delayed? | period 2, warm-up 6, window 3, clock to 13 | holds |
| `benchmark` | Does the report state what happened, and how far may the two windows differ? | sender with warm-up 2 and window 2, receiver with 1 and 1, history 2, 4 callbacks, clock to 5; loss, repetition, reordering, overflow | holds |
| `restart` | Can a sender that is started again, under its session id or another, distort the report, and how far? | history 2, 5 callbacks, clock to 6 | holds |
| `startup` | Is what streams what the roles assume, what is rejected without a trace, and does the process end? | every command line with two options off one of three defaults: a sender, a receiver, a receiver with a clock offset | holds |
| `run` | Which files exist when, what may a tool conclude from what it reads meanwhile, is any recorder left, does the process end? | two recorders, one reader, any failure, any earlier files | holds |
| `monitor` | What do the sampled rates account for, with late loops, failed readings and a new interface? | interval 2, clock to 7, one restart | holds |
| `statistics` | Are percentiles, deviation and jitter what their definitions say? | 5 samples, four latencies, periods 0..2 | holds |
| `local_run` | Is a receiver left, are results announced only of success, does the script end? | three signals | holds |
| `benchmark_reorder` | Is what is reported lost never a packet that was heard? | as `benchmark`, reordering only | refuted |
| `run_stuck` | Does every run that is not killed leave its files? | no disk failures | refuted |

`benchmark` runs the worst topic, which has every behaviour of a better one: its
two properties about loss and faults have the premise they need, that no packet
was overtaken (`HeardInOrder`), and `OrderKept` below says where it holds.

Why the bounds are enough. The tracker's behaviour depends on a number only
through its order relative to the least and greatest seen, being one more than
the greatest, and having been seen; five calls over five numbers reach every
combination twice, and the proofs below cover all others. The windows of the
receiver need time before, at and after each of their two ends: one tick each,
for every starting time up to one beyond the timeout, so that a first packet may
also follow the expiry. The sender's warm-up of six ticks at period two leaves
room for three missed calls and a timer that is overdue by more than one period.
The end-to-end run has, in four callbacks and with a history shorter than the
stream, each case of which `WindowsShifted` speaks: a packet of the sender's
warm-up that is measured, one of its measurement that the receiver's warm-up
drops, one that comes after the receiver's window, and a first packet that is
not the first one sent. To leave room for the last two in five ticks, the
receiver's window is shorter than the sender's; that the two differ is also what
two separate command lines allow. Five samples put the rank of every percentile
on a sample or between two, and leave room for equal, near and far neighbours;
the monitor takes up to four samples, fewer when they are late, with failed
readings before, between and after good ones and a restart of the counters
between any two. Five callbacks and a clock to six let either process of
`StreamRestart` fill the receiver's window, with the other before it or after
it. Two options off the defaults show every pair of tests in every order in
which the code makes them; numbers of the command line take values on both sides
of each bound, and the bounds themselves are small (`MaxSession` stands for 2^64
- 1, `MaxPayload` for 2^32 - 1, `MaxDomain` for 232). Three signals interrupt
the script's body, its trap, and the trap inside the trap. `LastStart` only says
that a stream starts before the clock stops.

Runs check deadlock nowhere: every process here ends, and the clock stops at its
bound.

Fairness. `WF(LoopStep)` and `WF(RunStep)`: the operating system schedules the
process and each blocking call of the loop has a timeout (`spin_once` 0.05 s,
`wait` 5 s). `WF(Tick)`: clocks run. Nothing is assumed of packets, discovery,
signals or recorders: a run ends although none of them ever helps.
`ReadersFairSpec` assumes `WF(RunStep)` of the run and nothing of the reader; it
also relies on the benchmark being one finite step, which `Terminates` of the
two roles shows. In `RoleStartup` fairness covers the steps
of the process and not discovery, packets or signals: `SubscriptionSeen` and
`FirstReceived` never have to happen. `WF(Script)` says that the shell and the
commands in its foreground are scheduled; `WF(RoleEnds)` that the receiver ends
by itself, which is `Terminates` again.

## Findings

1. **A packet that was heard may be counted as lost** (`stream_receiver.py:73`).
   A packet that overtakes another at the end of the receiver's warm-up is
   dropped by the callback before the tracker sees it, and its number then lies
   inside the measured range (`benchmark_reorder`). As long as nothing is
   overtaken the loss is exact (`LossIsNetworkLoss`, `LossIsExact`).
2. **A recorder that survives kill() costs the whole result**
   (`utils/network.py:54`). The second `wait` has a timeout too, its exception is
   caught nowhere, and stopping the recorders is the first thing the `finally`
   block does (`run_stuck`).

Noticed while reading the code for the models. No run shows these, and each is
seen at its line:

* Byte throughput is the packet count times the receiver's own `--payload-size`
  (`stream_receiver.py:157`), though every packet carries its size; README line
  230 says payload bytes/sec.
* `x <= 0` is false of a NaN, so one is accepted where the messages say "must be
  > 0" (`common.py:227-234`). `RoleStartup` has these values: a NaN rate or
  duration fails later in a conversion, a NaN timeout is never exceeded, which
  is why `Ends` excludes it.
* A role's own command takes a contradicting `--role`, records it, and runs its
  own node (`stream_receiver.py:188`; `Role` and `Node` in `RoleStartup`).
* A run without `--sample-system` in a directory used before leaves the earlier
  `system_stats.csv` beside its own summary (`common.py:168`; `LeftOver` in
  `BenchmarkRun`).

## Proofs

`SequenceTrackerProofs` holds for all sets `Seqs` of naturals, all starts, and
any number of calls (`MaxEvents` is an arbitrary natural), from
`NoneAssumption` and `TrackerAssumption` only.

* `TypeCorrect`: `TypeOK`, from `ObserveType`. It contains that gaps and
  counters are never negative.
* `Inductive`: `TypeOK` says nothing about how the parts of the tracker belong
  together, so no other invariant follows from it. `IInv` adds: the set seen is
  finite, and its least and greatest elements are `minSeen` and `maxSeen`
  (`Extremes`); the counters are the numbers of flagged events
  (`CountersMatchEvents`); and the *balance*
  `maxSeen + 1 - unique = gapCount - outOfOrder + first number observed`:
  every number up to the greatest that was not seen lies in a gap that is still
  open or below the first number. One lemma per conjunct shows that a call
  preserves it (`ObserveExtremes`, `CountersStep`, `BalanceStep`).
* `CountersCorrect`, `LossReconciled`: consequences. `LossFormula` turns the
  cardinality of the missing numbers into arithmetic: the numbers seen lie
  between the start and `maxSeen`, so what is missing is the length of that
  interval less the numbers seen.
* `LossMoves`: `LossMovesByStep`, from the same formula before and after a call,
  by cases on where the number falls (`ObserveEnds`).
* `TrackerImplementsAudit`: `ImplementsAudit`, under the mapping by which the
  arrivals are the numbers of the events and the report is read off the tracker.
  `AuditInductive` gives what makes the report that of the audit: the set kept
  is that of the arrivals, the flags of every event are the audit's verdicts
  on that place (a later arrival changes no earlier verdict, `VerdictsStep`),
  and `gapCount` is the number of numbers leapt over. These are counted one
  arrival at a time because no number is leapt over twice: all of them lie
  below the greatest number, and a new leap is above it (`ArrivalLeaps`,
  `LeaptStep`). `ReportIsAudited` then compares the two reports field by field;
  a step of the tracker is an arrival.

`StreamReceiverProofs` holds for any set of packets, any window, timeout, clock
offset and skew, and any values of the bounds, from `NoneAssumption` and
`ReceiverAssumption` only. The tracker enters through the lemmas of
`SequenceTrackingLemmas`.

* `TypeCorrect`: `TypeOK`, which contains that the three times of the window are
  set together. `AcceptAnchors` is the lemma about the callback: afterwards the
  window is known, and one that was known has not moved.
* `WindowInductive`: `RowsInWindow` is kept by `Measure` because of the two tests
  before it (`MeasureInWindow`), and by everything else because the window stays
  and time only grows (`TimePasses`). `ExitJustified` is not inductive: the loop
  is left because of `finished`, which was set some steps before. `WindowInv`
  adds `FinishedInPast`: a node that is finished has its window behind it.
  `WindowRespected` and `ExitsJustified` follow.
* `AnchorStays`: `AnchorKept`, one case per kind of step.
* `SummaryInductive`: `RowsTracked` says that the numbers seen are those of the
  rows and each counter is the number of rows with its flag (`MeasureTracked`);
  `SummaryTaken` that the summary is that of a state which no longer changes.
  `LossIsMissing` turns the tracker's loss, an interval less the numbers seen,
  into the numbers missing between any two rows; `SummaryCorrect` follows.
* `LatenciesCorrect`: `LatenciesMatchRows` is inductive given `TypeOK`.

`StreamSenderProofs` holds for any period, window, timeout and delays of the
process, from `NoneAssumption` and `SenderAssumption` only.

* `SenderInductive`: none of the four properties is inductive, since nothing in
  them says when the timer calls next. `TimerAhead` does: the next call is at
  least as many periods after `start()` as packets were published, plus one,
  and, counted from the beginning of the measurement, at least as many as rows
  less one; and it is at most one period ahead of the clock. A call that comes
  late keeps the phase, so it can only move on (`CallsMoveOn`). The period may
  be 0. `SentInPast`, `FinishedInPast` and `Begun` say that nothing
  is ahead of the clock. `NoGapPublished`, `RowsCorrect`, `RateBounded` and
  `ExitsJustified` are then conjuncts.

`BenchmarkRunProofs` holds for each of the four choices of recorders, with or
without a system monitor and failing writes, from `RunAssumption` only.

* `RunInductive`: `SummaryIsLast` speaks of files and says nothing of the step
  that writes them. `FilesByStep` says which files each step of the `finally`
  block finds complete and which untouched, for whatever was in the directory
  before; `RecordersByStep` that the recorders before the current one, and after
  the last all, have ended. `SummaryLast`, `OkWritten` and `NoOrphans` follow.

The same module adds the reader, in any interleaving.

* `ReadersInductive`: `WrittenStays` is what a reader relies on: the summary of
  this run is written once and never opened again, and an ended run changes
  nothing. `ReadIsOnDisk` carries the first through the steps of the tool, for a
  summary that was read as this run's, `ReadSoFar` the second, for a tool that
  began after the run. Nothing is said of other files read earlier: an old one
  that was read may be overwritten afterwards, and metadata of this run may be
  read beside an old summary. `ReadCurrent` and `SummaryVouches` follow, the
  second from `SummaryLast`.

The same module has the theorems about `LocalRun`, for any number of signals.

* `LocalInductive`: `Position` is where the script is or, inside `cleanup`, where
  it will be; `PidKnown` says that a receiver without a pid has just been
  started by a command that succeeded, so that the trap cannot end the script
  before the pid is stored; `Successes` what a script that has not failed has
  reached. `ReceiverStopped` and `SuccessReported` follow.

`StreamBenchmarkProofs` composes the roles: any windows, period, history depth
and number of callbacks, from `BenchmarkAssumption` only. `Steps` reduces the
next-state relation to three kinds of step: one that changes nothing the
properties are about (`Quiet`), the publication of a packet (`Send`), and the
callback for one of the packets that wait (`Hear`).

* `ReportInductive`, for every topic: what waits was published (`OnTopic`;
  `EnqueueHolds` and `ArrivalsHold` say it of the history and of `netem`), each
  row has number and time of a packet published before (`Measured`), and the
  tracker has seen exactly the rows (`Tracked`). `ReportBounded` follows: the
  greatest number seen is one that was published.
* `WindowsInductive` adds that what was heard was published before (`Heard`), that
  the receiver's window is anchored at the first arrival (`Anchored`), that every
  packet lies in the sender's stream (`Started`), and that none was published
  before its time: number `n` comes at least `n + 1` periods after the start
  (`OnTime`, from the timer's next call). `WindowsRelated` follows. The windows
  may be far apart: the receiver's begins with the first packet it hears, which
  is a period after the sender's start at best, more for each packet missed
  before, and its time on the way. The theorem says how that distance, with the
  options of both roles, decides which packets only one of them counts.
* `HeardInductive`, for every topic: each row was heard (`RowsHeard`), and every
  repetition among the rows is one among the packets heard (`Repeats`). `InTurn`
  says what holds as long as nothing was overtaken: the rows are in the order of
  their numbers, and what the callback did not measure lies before everything
  measured, or after it when the window is over. `FaultsReal` follows, and
  `LossIsExact`: the numbers missing between the rows (`RowEnds`) are those
  never heard. Their premise `HeardInOrder` is needed: see finding 1.
* `OrderKept`: a topic that does not reorder fulfils it. Packets wait in the
  order of their numbers, and none of them before one that was heard.

About `StreamRestart` it proves the two properties of the run `restart`, on a
topic that neither repeats packets nor lets them overtake one another
(`Impairments \subseteq {"loss"}`; the run has no loss but that of the history
and of the dying writer). The premise is needed: a packet that `netem` repeats
is a duplicate in the report, and one that it delays is late, with or without a
restart. Wherever in the stream the first process dies, and whatever session id
the second one has:

* `RestartInductive`: the properties speak of counters, and say nothing about
  which process a packet on its way is from. `Split` does: there are places `k`
  in the topic and `m` in the rows before which everything is of the first
  process and after which everything is of the second (`TopicSplit`,
  `RowsSplit`); within each part the numbers rise, and what is left of a
  process on the topic continues its rows (`RowsFirst`). So no row of the first
  process can look repeated or late. A row of the second one can, but only with
  a number that the first one has used too, and each such number once:
  `DamageBelow(k, n)` bounds the counters by an `n` below which no number is
  still to come. With another session id the callback keeps one of the two
  parts empty, and `n` is 0. `RestartSteps` reduces the next-state relation as
  `Steps` does; there is one lemma for each kind of step (`RestartKept`,
  `PublishRestart`, `HearRestart`, `QuietRestart`).
* `SessionsApart` and `DamageBounded` follow, with `InferredBelow` for what the
  tracker infers to have been sent. `DamageIsBounded` bounds the duplicates, the
  late packets and the number inferred sent; the loss is bounded by the last of
  these and not further: numbers of the first process's warm-up, which the
  callback dropped, count as lost when the second one does not use them again.

The assumption of `StreamRestart` is cited once, for the second session id
being a number (`RestartKept`); the theorems about `StreamBenchmark` do not
depend on it.

`RoleStartupProofs` holds for every set of command lines that argparse can
produce (`CommandLine`), from `StartupAssumption` only.

* `StartupInductive`: neither property is inductive, as each relates an option
  to a test that was made some steps before. `Tested` says which of the three
  tests each step comes after, `Converted` what the conversions at the start of
  the window imply (the sender's before its loop, the receiver's with the first
  packet, its offset with the first one measured), `NothingMade` that nothing is
  on the disk before the node exists.
* `RejectionLeavesNothing` follows, and `StreamWellPosed`: what is left of the
  kinds of float when the tests and the conversions have ruled out the others.

`SummaryProofs` holds for lists of any length, from `NoneAssumption`,
`StatisticsAssumption` and `MonitorAssumption` only. What a recursive function
computes for every list needs induction. The induction theorems of the library
cannot be used (they take an operator as a parameter, which no backend can
instantiate), but their content can be stated about a set: `LeastNumber` is
obtained from the well-foundedness of `<`, which the library gives for any
relation; `AllNumbers` says that a set with 0 and all successors has every
number, and `AllSequences` that a set with `<<>>` and everything appended has
every sequence. `SumAppend` is the first thing proved with it and the one that
everything else about sums uses.

About `SampleStatistics`:

* `SamplesInductive`: the samples are integers, and successive times are one of
  the periods apart.
* `DeviationsPairwise`: both sides are the same quadratic form. For the sum of
  the squared deviations that is `SumQuadratic` and the definition of the mean
  (`SquaredDeviations`); for the pairs it is an induction over the samples, since
  a new one adds its row of differences (`PairwiseAppend`, `PairwiseSum`).
* `JitterAperiodic`: a sum of squares is zero only if each is (`SumZero`), and
  all deviations are zero only if all values are equal (`NoDeviation`).
* `PercentilesSplit`: `Precedes` is a linear order, so `Place` is an injection of
  a finite set into itself and takes every value (`Places`). A sample below the
  one at place `k` has a smaller place, so there are at most `k - 1` of them
  (`OrderedCounts`); the rest is the arithmetic of the rank (`PercentileAt`).
* `PercentilesLinear`: evenly spaced samples, in order, run through all multiples
  of the gap without falling, so the one at place `k` is `k - 1` gaps up
  (`RisingOnto`, `EvenlySpaced`).

About `SystemMonitor`, for any loads, any interval of at least one unit, any
number of restarts and of failing readings, and a loop as late as it likes:

* `MonitorInductive`: none of the three properties is inductive, since each
  relates sums and old readings to what the next sample will be compared with.
  `LoopInv` says that the time of a sample lies after that of the one before it
  (the loop is only due an interval later), `Timed` that each rate is over the
  time between two successive samples; `RememberedInv` and `Telescopes` that
  what is remembered is what was read last, with the sums up to there;
  `BehindInv` how far each reading falls behind the traffic: by what there was
  when the interface was last created, which never shrinks, and is the same for
  two readings of one interface. TLC checked `MonitorInv` on the bounds of the
  run `monitor` before it was proved. `ReadNic` is the one action that appends;
  `ComparesTaken`, `TelescopesTaken` and `SpansTaken` are its three parts.
* `RatesNotOverstated`, `CountedOnce` and `RatesSpanTheRun` follow.

`TypeOK` of the two roles and of the run is proved and not among the properties
of a run; the other invariants rest on it.

Every invariant and every action property that a run checks is thus proved for
all values of the constants, `BenchmarkRun`'s under its choices of recorders.
Model-checked only is liveness: `Terminates` of the receiver, the sender and the
run, and `Ends` of the start of a role and of the script (TLAPS proves nothing
under fairness).

## Plan

Done: all components with state are modelled, and every safety property of a run
is proved. What could follow: a bound of the damage of a restart on a topic that
repeats or reorders, in terms of what it repeated or reordered.

## Not modelled

* Options that nothing tests (topic, NIC, directories), and argparse's own
  errors, which end the process before it does anything.
* The mapping of QoS names to policies of rclpy, and whether DDS matches two
  endpoints: reliability and durability change what the topic may do, and every
  such topic is among the `Impairments`. `Depth` is modelled.
* `tc` itself: `impair_network.sh` builds one `netem` command from its options;
  what `netem` does to packets is modelled, the command line is not.
* Launch files and the other scripts: they set variables and pass arguments to
  the entry points of `RoleStartup`.
* Formatting of times and tables (`utils/clocks.py`, the output of `analysis/`),
  the merge of more than one directory (the loop has no state between two), and
  the rounding of floats.
* Loss of power: nothing is synced to the disk (`utils/csv_json.py`), so a
  summary could outlive the samples written before it.
* The inside of rclpy and DDS beyond what the code relies on.

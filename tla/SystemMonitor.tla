---------------------------- MODULE SystemMonitor ---------------------------
(***************************************************************************)
(* The system monitor (nodes/sys_monitor.py) and the lines of run() that   *)
(* call it.  A sample is taken in three steps, because what it relates is  *)
(* read at three instants: the clock, the CPU time of the process, and the *)
(* byte counters of the interface.  The counters may be unreadable for a   *)
(* while (the interface is gone from /proc/net/dev), and an interface that *)
(* was created anew counts from zero again.                                *)
(*                                                                         *)
(* Time, CPU time and bytes are counted in units.  time.monotonic() and    *)
(* monotonic_ns() are one clock.  The resident memory that a sample also   *)
(* carries is left out: nothing is computed from it but its maximum.       *)
(***************************************************************************)
EXTENDS SummaryStatistics

CONSTANTS
  Interval,   \* the second between two samples in run()
  Loads,      \* CPU time and traffic that one unit of time may bring
  MaxRestarts,   \* bound: the interface is created anew so many times
  MaxTime     \* bound: the clock stops here

ASSUME MonitorAssumption ==
  /\ None \notin [amount : Int, elapsed : Int] \cup [{"rx", "tx"} -> Int]
  /\ Interval \in Nat \ {0}
  /\ Loads \subseteq [cpu : Nat, rx : Nat, tx : Nat]
  /\ {MaxRestarts, MaxTime} \subseteq Nat

VARIABLES
  now, used,     \* the clock; CPU time and traffic so far, [cpu, rx, tx]
  zero, era,     \* traffic so far when the counters last were zero; restarts
  step,          \* what the loop does next
  lastSample,    \* run(): when the last sample was complete, None before
  samples,       \* the samples, without their memory
  lastCpu, lastWall, lastNic,
  sampledAt, cpuRead,   \* sample(): now_mono_ns, proc_cpu_s
  reads,         \* history: what each sample read, nic or None, and the
                 \* traffic and the restarts at that instant
  summary        \* what summary() returns, None before

hostVars == <<now, used, zero, era>>
objectVars == <<samples, lastCpu, lastWall, lastNic, reads>>
sampleVars == <<sampledAt, cpuRead>>
monitorVars == <<hostVars, step, lastSample, objectVars, sampleVars, summary>>

MonitorInit ==
  /\ now = 0
  /\ used = [cpu |-> 0, rx |-> 0, tx |-> 0]
  /\ zero = [rx |-> 0, tx |-> 0]
  /\ era = 0
  /\ step = "loop"
  /\ lastSample = None
  /\ samples = <<>>
  /\ lastCpu = None
  /\ lastWall = None
  /\ lastNic = None
  /\ sampledAt = None
  /\ cpuRead = None
  /\ reads = <<>>
  /\ summary = None

-----------------------------------------------------------------------------
(* The loop of run() *)

\* last_sample starts at 0, which is long ago.
Due == lastSample # None => now - lastSample >= Interval

BeginSample ==
  /\ step = "loop"
  /\ Due
  /\ sampledAt' = now
  /\ step' = "cpu"
  /\ UNCHANGED <<hostVars, lastSample, objectVars, cpuRead, summary>>

EndSample ==
  /\ step = "sampled"
  /\ lastSample' = now
  /\ step' = "loop"
  /\ UNCHANGED <<hostVars, objectVars, sampleVars, summary>>

-----------------------------------------------------------------------------
(* sample *)

\* Amount per time: the code divides, and scales to percent or to bits.
Rate(amount, elapsed) == [amount |-> amount, elapsed |-> elapsed]

CpuRate ==
  IF lastCpu = None \/ sampledAt <= lastWall THEN None
  ELSE Rate(cpuRead - lastCpu, sampledAt - lastWall)

ReadCpu ==
  /\ step = "cpu"
  /\ cpuRead' = used.cpu
  /\ step' = "nic"
  /\ UNCHANGED <<hostVars, lastSample, objectVars, sampledAt, summary>>

SinceFirst(nic, field) ==                                     \* mutant
  IF nic = None \/ lastNic = None \/ samples = <<>> THEN None
  ELSE Rate(nic[field] - lastNic[field], sampledAt - samples[1].at)

\* elapsed is the time since the last sample, lastNic what was read last.
NicRate(nic, field) ==
  IF nic = None \/ lastNic = None \/ samples = <<>> THEN None
  ELSE IF sampledAt <= SeqExt!Last(samples).at THEN None
  ELSE Rate(nic[field] - lastNic[field], sampledAt - SeqExt!Last(samples).at)

FirstKept(nic) == IF lastNic = None THEN nic ELSE lastNic     \* mutant

ResetOnFailure(nic) == nic                                    \* mutant

\* _last_nic after a read: kept when the read failed.
Remembered(nic) == IF nic = None THEN lastNic ELSE nic

Counters == [f \in {"rx", "tx"} |-> used[f] - zero[f]]

\* _read_nic_bytes returns the counters or None.
ReadNic ==
  /\ step = "nic"
  /\ \E nic \in {None, Counters} :
       /\ samples' = Append(samples,
            [at |-> sampledAt, cpu |-> CpuRate,
             rx |-> NicRate(nic, "rx"), tx |-> NicRate(nic, "tx")])
       /\ lastNic' = Remembered(nic)
       /\ reads' = Append(reads,
            [cpu |-> cpuRead, nic |-> nic, traffic |-> used, era |-> era])
  /\ lastCpu' = cpuRead
  /\ lastWall' = sampledAt
  /\ step' = "sampled"
  /\ UNCHANGED <<hostVars, lastSample, sampleVars, summary>>

-----------------------------------------------------------------------------
(* summary *)

\* Those of the samples that have one, each at its index.
RatesOf(field) ==
  [i \in {j \in DOMAIN samples : samples[j][field] # None} |-> samples[i][field]]

Finish ==
  /\ step = "loop"
  /\ summary' = [cpu |-> RatesOf("cpu"), rx |-> RatesOf("rx"), tx |-> RatesOf("tx")]
  /\ step' = "done"
  /\ UNCHANGED <<hostVars, lastSample, objectVars, sampleVars>>

Tick ==
  /\ now < MaxTime
  /\ step # "done"
  /\ now' = now + 1
  /\ \E load \in Loads : used' = [f \in DOMAIN used |-> used[f] + load[f]]
  /\ UNCHANGED <<zero, era, step, lastSample, objectVars, sampleVars, summary>>

Restart ==
  /\ era < MaxRestarts
  /\ step # "done"
  /\ era' = era + 1
  /\ zero' = [f \in DOMAIN zero |-> used[f]]
  /\ UNCHANGED <<now, used, step, lastSample, objectVars, sampleVars, summary>>

MonitorNext ==
  \/ BeginSample \/ EndSample
  \/ ReadCpu \/ ReadNic
  \/ Finish
  \/ Tick \/ Restart

MonitorSpec == MonitorInit /\ [][MonitorNext]_monitorVars

-----------------------------------------------------------------------------
(* Properties *)

\* The sum of one part of the rates.
Total(rates, part) ==
  Sum([i \in DOMAIN samples |-> IF i \in DOMAIN rates THEN rates[i][part] ELSE 0])

Readings == {i \in DOMAIN reads : reads[i].nic # None}

\* The rates account for what the counters show between the first reading that
\* succeeded and the last exactly once, whatever readings failed in between;
\* and for every unit of CPU time since the first sample.
EverythingCountedOnce ==
  /\ samples # <<>> =>
       /\ Total(RatesOf("cpu"), "amount") = SeqExt!Last(reads).cpu - reads[1].cpu
       /\ Total(RatesOf("cpu"), "elapsed") = SeqExt!Last(samples).at - samples[1].at
  /\ \A field \in {"rx", "tx"} :
       Readings # {} =>
         Total(RatesOf(field), "amount") =
           reads[SeqExt!Max(Readings)].nic[field] - reads[SeqExt!Min(Readings)].nic[field]

LastReadBefore(i) == SeqExt!Max({j \in Readings : j < i})

\* A rate stands for the traffic since the reading before it, every byte of it
\* as long as the interface is the same.  If it was created anew in between the
\* rate is too low (it may be negative), but never too high.
TrafficNotOverstated ==
  \A i \in DOMAIN samples, field \in {"rx", "tx"} :
    samples[i][field] # None =>
      LET before == reads[LastReadBefore(i)]
          traffic == reads[i].traffic[field] - before.traffic[field]
      IN  /\ samples[i][field].amount <= traffic
          /\ reads[i].era = before.era => samples[i][field].amount = traffic

\* A rate is for the bytes since the last reading, but divided by the time since
\* the last sample.  Between the times of the samples that is all of the time,
\* unless readings failed in between: then it is a part, and the rate is too
\* high, never too low.  So the times of the rates do not overlap: they add up
\* to no more than the run, and to all of it if no reading failed.  (This is
\* no bound on the averages, which weigh a short time like a long one, nor on
\* the time between the start of a sample and its reading.)
RateTimesFit ==
  \A field \in {"rx", "tx"} :
    /\ \A i \in DOMAIN samples :
         samples[i][field] # None =>
           LET between == samples[i].at - samples[LastReadBefore(i)].at
           IN  /\ samples[i][field].elapsed \in 1 .. between
               /\ samples[i][field].elapsed = between <=> LastReadBefore(i) = i - 1
    /\ samples # <<>> =>
         LET span == SeqExt!Last(samples).at - samples[1].at
             time == Total(RatesOf(field), "elapsed")
         IN  /\ time <= span
             /\ Readings = DOMAIN samples => time = span
=============================================================================

---------------------------- MODULE BenchmarkRun ----------------------------
(***************************************************************************)
(* The life of one role process: run() of either node from its try to its  *)
(* exit (nodes/stream_receiver.py, nodes/stream_sender.py), the artifacts  *)
(* it leaves in the run directory (ArtifactManager, nodes/common.py) and   *)
(* the recorders it starts and stops (ManagedProcess, utils/network.py).   *)
(* The benchmark itself is one step here, between the two; StreamReceiver  *)
(* and StreamSender model it, and show that it ends.                       *)
(*                                                                         *)
(* The process may be killed between any two steps, an exception may end   *)
(* any step that can raise one, and a recorder may exit at any time or     *)
(* ignore being told to.                                                   *)
(***************************************************************************)
EXTENDS Sequences, Integers

CONSTANTS
  Recorders,     \* requested recorders in the order they are started:
                 \* config.bag, then config.trace
  SampleSystem,  \* config.sample_system
  DiskMayFail    \* a write to the run directory may raise an OSError

ASSUME RunAssumption ==
  /\ Recorders \in {<<>>, <<"bag">>, <<"trace">>, <<"bag", "trace">>}
  /\ SampleSystem \in BOOLEAN
  /\ DiskMayFail \in BOOLEAN

VARIABLES
  step,      \* what run() does next
  current,   \* the recorder being started or stopped, by its position
  recorder,  \* the recorder processes
  disk,      \* the files of the run directory: of this run, or older
  sampled,   \* the system monitor has a sample
  failing,   \* an exception is on its way out of the try
  exit       \* how the process ended, "no" before

vars == <<step, current, recorder, disk, sampled, failing, exit>>

Files == {"metadata", "system", "raw", "summary"}

\* The run directory may hold the files of earlier runs of the same run_id,
\* some of them cut short: ensure_dir accepts an existing directory.
LeftOver ==
  {d \in [Files -> {"absent", "stale", "torn"}] :
     d["summary"] # "absent" => d["raw"] # "absent"}

Init ==
  /\ step = "metadata"
  /\ current = 1
  /\ recorder = [i \in DOMAIN Recorders |-> "absent"]
  /\ disk \in LeftOver
  /\ sampled = FALSE
  /\ failing = FALSE
  /\ exit = "no"

Goto(s) == step' = s /\ current' = 1

\* An exception in the try: the finally block runs first.
Raise ==
  /\ Goto("stop")
  /\ failing' = TRUE

\* An exception in the finally block: the rest of it is skipped.
Abort == exit' = "error" /\ Goto("gone")

-----------------------------------------------------------------------------
(* Files: opening one for writing truncates it, so a write that is cut      *)
(* short leaves part of it.                                                 *)

Open(file) ==
  /\ exit = "no"
  /\ step = file
  /\ disk[file] # "partial"
  /\ disk' = [disk EXCEPT ![file] = "partial"]
  /\ UNCHANGED <<step, current, recorder, sampled, failing, exit>>

Written(file) ==
  /\ exit = "no"
  /\ step = file
  /\ disk[file] = "partial"
  /\ disk' = [disk EXCEPT ![file] = "written"]

Fails(file) ==
  /\ exit = "no"
  /\ DiskMayFail
  /\ step = file
  /\ UNCHANGED disk

WriteMetadata ==
  /\ \/ Written("metadata") /\ Goto("start") /\ UNCHANGED failing
     \/ Fails("metadata") /\ Raise
  /\ UNCHANGED <<recorder, sampled, exit>>

-----------------------------------------------------------------------------
(* start_optional_recorders and the benchmark *)

\* The process is started, or the command is missing and an exception raised.
StartRecorder ==
  /\ exit = "no"
  /\ step = "start"
  /\ current \in DOMAIN Recorders
  /\ \/ /\ recorder' = [recorder EXCEPT ![current] = "running"]
        /\ current' = current + 1
        /\ UNCHANGED <<step, failing>>
     \/ Raise /\ UNCHANGED recorder
  /\ UNCHANGED <<disk, sampled, exit>>

\* The loop of the role: it ends, or something in it raises.
RunBenchmark ==
  /\ exit = "no"
  /\ step = "start"
  /\ current \notin DOMAIN Recorders
  /\ sampled' \in {FALSE, SampleSystem}
  /\ Goto("stop")
  /\ failing' \in BOOLEAN
  /\ UNCHANGED <<recorder, disk, exit>>

-----------------------------------------------------------------------------
(* stop_optional_recorders: ManagedProcess.stop for each *)

AllButLast == current < Len(Recorders)                        \* mutant

MoreToStop == current \in DOMAIN Recorders

NoTimeout == FALSE                                            \* mutant

\* wait(timeout) raises TimeoutExpired.
TimesOut == recorder[current] # "exited"

StopNext ==
  /\ current' = current + 1
  /\ step' = "stop"
  /\ UNCHANGED <<recorder, exit>>

\* process is None or poll() says it has exited; otherwise terminate().
PollRecorder ==
  /\ exit = "no"
  /\ step = "stop"
  /\ MoreToStop
  /\ IF recorder[current] = "running"
     THEN step' = "terminated" /\ UNCHANGED <<current, recorder, exit>>
     ELSE StopNext
  /\ UNCHANGED <<disk, sampled, failing>>

\* The first wait returns, or times out and the process is killed.
WaitTerminated ==
  /\ exit = "no"
  /\ step = "terminated"
  /\ \/ recorder[current] = "exited" /\ StopNext
     \/ TimesOut /\ step' = "killed" /\ UNCHANGED <<current, recorder, exit>>
  /\ UNCHANGED <<disk, sampled, failing>>

\* The second wait returns, or times out: nothing catches that exception.
WaitKilled ==
  /\ exit = "no"
  /\ step = "killed"
  /\ \/ recorder[current] = "exited" /\ StopNext
     \/ TimesOut /\ Abort /\ UNCHANGED recorder
  /\ UNCHANGED <<disk, sampled, failing>>

StoppedAll ==
  /\ exit = "no"
  /\ step = "stop"
  /\ ~MoreToStop
  /\ Goto(IF sampled THEN "system" ELSE "raw")
  /\ UNCHANGED <<recorder, disk, sampled, failing, exit>>

-----------------------------------------------------------------------------
(* The artifacts of the finally block *)

SummaryFirst(file) ==                                         \* mutant
  CASE file = "system" -> "summary" [] file = "summary" -> "raw" [] OTHER -> "shutdown"

RawIsLast(file) == IF file = "system" THEN "raw" ELSE "shutdown"  \* mutant

FileAfter(file) ==
  CASE file = "system" -> "raw" [] file = "raw" -> "summary" [] OTHER -> "shutdown"

WriteArtifact(file) ==
  /\ \/ Written(file) /\ Goto(FileAfter(file)) /\ UNCHANGED exit
     \/ Fails(file) /\ Abort
  /\ UNCHANGED <<recorder, sampled, failing>>

\* destroy_node, rclpy.shutdown and the return, or the pending exception.
Exit ==
  /\ exit = "no"
  /\ step = "shutdown"
  /\ exit' = IF failing THEN "error" ELSE "ok"
  /\ Goto("gone")
  /\ UNCHANGED <<recorder, disk, sampled, failing>>

-----------------------------------------------------------------------------
(* The environment *)

\* A recorder exits: by itself, when told to, or when killed.
RecorderExits(i) ==
  /\ recorder[i] = "running"
  /\ recorder' = [recorder EXCEPT ![i] = "exited"]
  /\ UNCHANGED <<step, current, disk, sampled, failing, exit>>

\* SIGKILL: what was written stays, as nothing but the process dies.
Crash ==
  /\ exit = "no"
  /\ exit' = "crashed"
  /\ Goto("gone")
  /\ UNCHANGED <<recorder, disk, sampled, failing>>

RunStep ==
  \/ \E f \in Files : Open(f)
  \/ WriteMetadata
  \/ StartRecorder \/ RunBenchmark
  \/ PollRecorder \/ WaitTerminated \/ WaitKilled \/ StoppedAll
  \/ \E f \in Files \ {"metadata"} : WriteArtifact(f)
  \/ Exit

Next ==
  \/ RunStep
  \/ \E i \in DOMAIN Recorders : RecorderExits(i)
  \/ Crash

Spec == Init /\ [][Next]_vars

-----------------------------------------------------------------------------
(* Properties *)

Steps == {"metadata", "start", "stop", "terminated", "killed", "system", "raw",
          "summary", "shutdown", "gone"}

\* Every variable has its type, and the process is gone exactly when it has
\* an exit.
TypeOK ==
  /\ step \in Steps
  /\ current \in 1 .. Len(Recorders) + 1
  /\ step \in {"terminated", "killed"} => current \in DOMAIN Recorders
  /\ recorder \in [DOMAIN Recorders -> {"absent", "running", "exited"}]
  /\ disk \in [Files -> {"absent", "stale", "torn", "partial", "written"}]
  /\ sampled \in BOOLEAN
  /\ failing \in BOOLEAN
  /\ exit \in {"no", "ok", "error", "crashed"}
  /\ step = "gone" <=> exit # "no"

\* The summary is written last: a reader who finds the summary of this run,
\* or the beginning of one, finds all of its samples, wherever the run was
\* cut short and whatever an earlier run left in the directory.
SummaryIsLast ==
  disk["summary"] \in {"partial", "written"} =>
    /\ disk["raw"] = "written"
    /\ sampled => disk["system"] = "written"

\* A run that ends without an error has written its artifacts, and nothing
\* it wrote is incomplete.
OkMeansWritten ==
  exit = "ok" =>
    /\ {disk["metadata"], disk["raw"], disk["summary"]} = {"written"}
    /\ disk["system"] # "partial"

\* Every recorder has ended before the first sample is written, so none
\* outlives a run that got as far as its artifacts, or that ended well.
NoOrphanRecorder ==
  exit = "ok" \/ {disk["system"], disk["raw"], disk["summary"]}
                   \cap {"partial", "written"} # {} =>
    \A i \in DOMAIN Recorders : recorder[i] # "running"

\* Every run ends, even if no recorder ever obeys.
Terminates == <>(exit # "no")

\* "Each role writes a run directory" with raw_samples.csv and summary.json:
\* so does a run that was not killed, whatever exception ended its benchmark.
RunDirectoryWritten ==
  exit \in {"ok", "error"} =>
    disk["raw"] = "written" /\ disk["summary"] = "written"
=============================================================================

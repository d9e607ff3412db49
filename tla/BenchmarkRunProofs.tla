------------------------- MODULE BenchmarkRunProofs -------------------------
(***************************************************************************)
(* Theorems about BenchmarkRun: what is on disk, and which recorders are   *)
(* left, however a run ends; and about RunReaders: what a reader may rely  *)
(* on that nothing coordinates with the run; and about LocalRun: what the  *)
(* script that starts two runs leaves behind, at any signals.              *)
(***************************************************************************)
EXTENDS RunReaders, LocalRun, TLAPS

NotThisRun(file) == disk[file] \in {"absent", "stale", "torn"}

\* The samples of the system monitor are complete, if there are any.
SystemDone ==
  /\ disk["system"] # "partial"
  /\ sampled => disk["system"] = "written"

\* Which files are written when: each step of the finally block finds those
\* before it complete and those after it untouched.
FilesByStep ==
  exit = "no" =>
    /\ step \in {"metadata", "start", "stop", "terminated", "killed"} =>
         NotThisRun("system") /\ NotThisRun("raw") /\ NotThisRun("summary")
    /\ step = "system" => NotThisRun("raw") /\ NotThisRun("summary")
    /\ step = "raw" => NotThisRun("summary") /\ SystemDone
    /\ step = "summary" =>
         disk["raw"] = "written" /\ disk["summary"] # "written" /\ SystemDone
    /\ step = "shutdown" =>
         disk["raw"] = "written" /\ disk["summary"] = "written" /\ SystemDone
    /\ step = "start" => disk["metadata"] = "written"
    /\ step # "metadata" /\ ~failing => disk["metadata"] = "written"

\* The recorders before the current one are stopped, and later all.
RecordersByStep ==
  exit = "no" =>
    /\ step \in {"stop", "terminated", "killed"} =>
         \A i \in DOMAIN Recorders : i < current => recorder[i] # "running"
    /\ step \in {"system", "raw", "summary", "shutdown"} =>
         \A i \in DOMAIN Recorders : recorder[i] # "running"

RunInv ==
  /\ TypeOK
  /\ FilesByStep
  /\ RecordersByStep
  /\ SummaryIsLast
  /\ OkMeansWritten
  /\ NoOrphanRecorder

\* Each of the four choices of recorders is a sequence.
LEMMA RecordersAreASequence ==
  /\ Len(Recorders) \in Nat
  /\ DOMAIN Recorders = 1 .. Len(Recorders)
<1>1. CASE Recorders = <<>>
  BY <1>1
<1>2. CASE Recorders = <<"bag">>
  BY <1>2
<1>3. CASE Recorders = <<"trace">>
  BY <1>3
<1>4. CASE Recorders = <<"bag", "trace">>
  BY <1>4
<1>5. QED
  BY <1>1, <1>2, <1>3, <1>4, RunAssumption

\* Stopping a recorder moves on to the next one.
LEMMA StopNextMoves ==
  ASSUME TypeOK, current \in DOMAIN Recorders, StopNext
  PROVE  /\ current' \in 1 .. Len(Recorders) + 1
         /\ current \in Nat /\ current' = current + 1
         /\ step' = "stop" /\ UNCHANGED <<recorder, exit>>
BY RecordersAreASequence DEF StopNext

\* The constructor has run, and the directory holds only what is older.
LEMMA RunInitially == Init => RunInv
<1> SUFFICES ASSUME Init PROVE RunInv
  OBVIOUS
<1>1. /\ disk \in [Files -> {"absent", "stale", "torn"}]
      /\ \A f \in Files : NotThisRun(f)
  BY DEF Init, LeftOver, NotThisRun
<1>2. TypeOK
  <2>1. disk \in [Files -> {"absent", "stale", "torn", "partial", "written"}]
    BY <1>1
  <2>2. recorder \in [DOMAIN Recorders -> {"absent", "running", "exited"}]
    BY DEF Init
  <2>3. current \in 1 .. Len(Recorders) + 1
    BY RecordersAreASequence DEF Init
  <2>4. QED
    BY <2>1, <2>2, <2>3 DEF Init, TypeOK, Steps
<1>3. FilesByStep
  BY <1>1 DEF Init, FilesByStep, Files
<1>4. RecordersByStep
  BY DEF Init, RecordersByStep
<1>5. SummaryIsLast /\ OkMeansWritten /\ NoOrphanRecorder
  BY <1>1 DEF Init, SummaryIsLast, OkMeansWritten, NoOrphanRecorder, NotThisRun, Files
<1>6. QED
  BY <1>2, <1>3, <1>4, <1>5 DEF RunInv

\* Every variable keeps its type.
LEMMA TypeKept ==
  ASSUME TypeOK, [Next]_vars
  PROVE  TypeOK'
<1> USE DEF TypeOK, Steps, Files, Goto
<1>0. 1 \in 1 .. Len(Recorders) + 1
  BY RecordersAreASequence
<1>1. CASE \E f \in Files : Open(f)
  BY <1>1 DEF Open
<1>2. CASE WriteMetadata
  <2>1. failing' \in BOOLEAN
    BY <1>2 DEF WriteMetadata, Raise
  <2>2. /\ disk' \in [Files -> {"absent", "stale", "torn", "partial", "written"}]
        /\ step' \in {"start", "stop"} /\ current' = 1
        /\ exit = "no" /\ UNCHANGED <<recorder, sampled, exit>>
    BY <1>2 DEF WriteMetadata, Written, Fails, Raise
  <2>3. QED
    BY <1>0, <2>1, <2>2
<1>3. CASE StartRecorder
  <2>1. failing' \in BOOLEAN
    BY <1>3 DEF StartRecorder, Raise
  <2>2. /\ recorder' \in [DOMAIN Recorders -> {"absent", "running", "exited"}]
        /\ step' \in {"start", "stop"}
        /\ exit = "no" /\ UNCHANGED <<disk, sampled, exit>>
    BY <1>3 DEF StartRecorder, Raise
  <2>3. current' \in 1 .. Len(Recorders) + 1
    BY <1>0, <1>3, RecordersAreASequence DEF StartRecorder, Raise
  <2>4. QED
    BY <2>1, <2>2, <2>3
<1>4. CASE RunBenchmark
  <2>1. failing' \in BOOLEAN /\ sampled' \in BOOLEAN
    BY <1>4, RunAssumption DEF RunBenchmark
  <2>2. /\ step' = "stop" /\ current' = 1
        /\ exit = "no" /\ UNCHANGED <<recorder, disk, exit>>
    BY <1>4 DEF RunBenchmark
  <2>3. QED
    BY <1>0, <2>1, <2>2
<1>5. CASE PollRecorder
  <2>1. current \in DOMAIN Recorders /\ step = "stop" /\ exit = "no"
    BY <1>5 DEF PollRecorder, MoreToStop
  <2>2. UNCHANGED <<disk, sampled, failing, recorder, exit>>
    BY <1>5 DEF PollRecorder, StopNext
  <2>3. CASE recorder[current] = "running"
    BY <1>5, <2>1, <2>2, <2>3 DEF PollRecorder
  <2>4. CASE recorder[current] # "running"
    BY <1>5, <2>1, <2>2, <2>4, StopNextMoves DEF PollRecorder
  <2>5. QED
    BY <2>3, <2>4
<1>6. CASE WaitTerminated
  <2>1. current \in DOMAIN Recorders /\ step = "terminated" /\ exit = "no"
    BY <1>6 DEF WaitTerminated
  <2>2. UNCHANGED <<disk, sampled, failing, recorder, exit>>
    BY <1>6 DEF WaitTerminated, StopNext
  <2>3. CASE StopNext
    BY <2>1, <2>2, <2>3, StopNextMoves
  <2>4. CASE step' = "killed" /\ UNCHANGED current
    BY <2>1, <2>2, <2>4
  <2>5. QED
    BY <1>6, <2>3, <2>4 DEF WaitTerminated
<1>7. CASE WaitKilled
  <2>1. current \in DOMAIN Recorders /\ step = "killed" /\ exit = "no"
    BY <1>7 DEF WaitKilled
  <2>2. UNCHANGED <<disk, sampled, failing, recorder>>
    BY <1>7 DEF WaitKilled, StopNext
  <2>3. CASE StopNext
    BY <2>1, <2>2, <2>3, StopNextMoves
  <2>4. CASE Abort
    BY <2>1, <2>2, <2>4, RecordersAreASequence DEF Abort
  <2>5. QED
    BY <1>7, <2>3, <2>4 DEF WaitKilled
<1>8. CASE StoppedAll
  BY <1>8, RecordersAreASequence DEF StoppedAll
<1>9. ASSUME NEW f \in Files \ {"metadata"}, WriteArtifact(f) PROVE TypeOK'
  BY <1>9, RecordersAreASequence DEF WriteArtifact, Written, Fails, FileAfter, Abort
<1>10. CASE Exit
  BY <1>10, RecordersAreASequence DEF Exit
<1>11. ASSUME NEW i \in DOMAIN Recorders, RecorderExits(i) PROVE TypeOK'
  BY <1>11 DEF RecorderExits
<1>12. CASE Crash
  BY <1>12, RecordersAreASequence DEF Crash
<1>13. CASE UNCHANGED vars
  BY <1>13 DEF vars
<1>14. QED
  BY <1>1, <1>2, <1>3, <1>4, <1>5, <1>6, <1>7, <1>8, <1>9, <1>10, <1>11, <1>12,
     <1>13 DEF Next, RunStep

Artifacts == {"system", "raw", "summary"}

\* A step that leaves the disk alone and either ends the process or goes to a
\* step that expects no more of the files than is there.
LEMMA FilesUntouched ==
  ASSUME RunInv, UNCHANGED disk,
         \/ exit' # "no" /\ (exit' = "ok" => exit = "ok") /\ UNCHANGED sampled
         \/ UNCHANGED <<step, sampled, failing, exit>>
         \/ /\ exit = "no" /\ exit' = "no"
            /\ step \in {"metadata", "start", "stop", "terminated", "killed"}
            /\ step' \in {"start", "stop", "terminated", "killed"}
            /\ step' = "start" => step = "start"
            /\ ~failing' => step # "metadata" /\ ~failing
         \/ /\ exit = "no" /\ exit' = "no"
            /\ step = "stop" /\ step' = IF sampled THEN "system" ELSE "raw"
            /\ UNCHANGED <<sampled, failing>>
  PROVE  FilesByStep' /\ SummaryIsLast' /\ OkMeansWritten'
<1> USE DEF RunInv, FilesByStep, SummaryIsLast, OkMeansWritten, NotThisRun, SystemDone
<1>1. CASE exit' # "no" /\ (exit' = "ok" => exit = "ok") /\ UNCHANGED sampled
  BY <1>1
<1>2. CASE UNCHANGED <<step, sampled, failing, exit>>
  BY <1>2
<1>3. CASE /\ exit = "no" /\ exit' = "no"
           /\ step \in {"metadata", "start", "stop", "terminated", "killed"}
           /\ step' \in {"start", "stop", "terminated", "killed"}
           /\ step' = "start" => step = "start"
           /\ ~failing' => step # "metadata" /\ ~failing
  BY <1>3
<1>4. CASE /\ exit = "no" /\ exit' = "no"
           /\ step = "stop" /\ step' = IF sampled THEN "system" ELSE "raw"
           /\ UNCHANGED <<sampled, failing>>
  BY <1>4
<1>5. QED
  BY <1>1, <1>2, <1>3, <1>4

\* Opening a file, and completing it, when its turn has come.
LEMMA FilesWritten ==
  ASSUME RunInv, NEW f \in Files,
         \/ Open(f)
         \/ f = "metadata" /\ Written(f) /\ step' = "start"
              /\ UNCHANGED <<sampled, failing, exit>>
         \/ f # "metadata" /\ Written(f) /\ step' = FileAfter(f)
              /\ UNCHANGED <<sampled, failing, exit>>
  PROVE  FilesByStep' /\ SummaryIsLast' /\ OkMeansWritten'
<1> USE DEF RunInv, FilesByStep, SummaryIsLast, OkMeansWritten, NotThisRun, SystemDone
<1>1. disk \in [Files -> {"absent", "stale", "torn", "partial", "written"}]
  BY DEF TypeOK
<1>2. exit = "no" /\ exit' = "no" /\ step = f /\ UNCHANGED <<sampled, failing>>
  BY DEF Open, Written
<1>3. f \in {"metadata", "system", "raw", "summary"}
  BY DEF Files
<1>4. CASE Open(f)
  <2>1. step' = step /\ disk' = [disk EXCEPT ![f] = "partial"]
    BY <1>4 DEF Open
  <2>2. QED
    BY <1>1, <1>2, <1>3, <2>1 DEF Files
<1>5. CASE f = "metadata" /\ Written(f) /\ step' = "start"
  <2>1. step' = "start" /\ disk' = [disk EXCEPT !["metadata"] = "written"]
    BY <1>5 DEF Written
  <2>2. QED
    BY <1>1, <1>2, <1>5, <2>1 DEF Files
<1>6. CASE f # "metadata" /\ Written(f) /\ step' = FileAfter(f)
  <2>1. disk' = [disk EXCEPT ![f] = "written"]
    BY <1>6 DEF Written
  <2>2. CASE f = "system"
    BY <1>1, <1>2, <1>6, <2>1, <2>2 DEF Files, FileAfter
  <2>3. CASE f = "raw"
    BY <1>1, <1>2, <1>6, <2>1, <2>3 DEF Files, FileAfter
  <2>4. CASE f = "summary"
    BY <1>1, <1>2, <1>6, <2>1, <2>4 DEF Files, FileAfter
  <2>5. QED
    BY <1>3, <1>6, <2>2, <2>3, <2>4
<1>7. QED
  BY <1>4, <1>5, <1>6

\* The recorders before the current one stay stopped.
LEMMA RecordersKept ==
  ASSUME RunInv, [Next]_vars
  PROVE  RecordersByStep'
<1> USE DEF RunInv, RecordersByStep, Goto
<1>1. DOMAIN Recorders = 1 .. Len(Recorders) /\ Len(Recorders) \in Nat
  BY RecordersAreASequence
<1>2. current \in 1 .. Len(Recorders) + 1 /\ TypeOK
  BY DEF TypeOK
<1>3. CASE \E f \in Files : Open(f)
  BY <1>3 DEF Open
<1>4. CASE WriteMetadata
  BY <1>4, <1>1 DEF WriteMetadata, Written, Fails, Raise
<1>5. CASE StartRecorder
  BY <1>5, <1>1 DEF StartRecorder, Raise
<1>6. CASE RunBenchmark
  BY <1>6, <1>1 DEF RunBenchmark
<1>7. CASE PollRecorder
  <2>1. /\ current \in DOMAIN Recorders /\ step = "stop" /\ exit = "no"
        /\ UNCHANGED <<recorder, exit>>
    BY <1>7 DEF PollRecorder, MoreToStop, StopNext
  <2>2. CASE recorder[current] = "running"
    BY <1>7, <2>1, <2>2 DEF PollRecorder
  <2>3. CASE recorder[current] # "running"
    <3>1. StopNext
      BY <1>7, <2>3 DEF PollRecorder
    <3>2. QED
      BY <1>1, <1>2, <2>1, <2>3, <3>1, StopNextMoves
  <2>4. QED
    BY <2>2, <2>3
<1>8. CASE WaitTerminated
  <2>1. /\ current \in DOMAIN Recorders /\ step = "terminated" /\ exit = "no"
        /\ UNCHANGED <<recorder, exit>>
    BY <1>8 DEF WaitTerminated, StopNext, TypeOK
  <2>2. CASE recorder[current] = "exited" /\ StopNext
    BY <1>1, <1>2, <2>1, <2>2, StopNextMoves
  <2>3. CASE step' = "killed" /\ UNCHANGED current
    BY <2>1, <2>3
  <2>4. QED
    BY <1>8, <2>2, <2>3 DEF WaitTerminated
<1>9. CASE WaitKilled
  <2>1. /\ current \in DOMAIN Recorders /\ step = "killed" /\ exit = "no"
        /\ UNCHANGED recorder
    BY <1>9 DEF WaitKilled, StopNext, TypeOK
  <2>2. CASE recorder[current] = "exited" /\ StopNext
    BY <1>1, <1>2, <2>1, <2>2, StopNextMoves
  <2>3. CASE Abort
    BY <2>3 DEF Abort
  <2>4. QED
    BY <1>9, <2>2, <2>3 DEF WaitKilled
<1>10. CASE StoppedAll
  BY <1>10, <1>1, <1>2 DEF StoppedAll, MoreToStop
<1>11. ASSUME NEW f \in Files \ {"metadata"}, WriteArtifact(f) PROVE RecordersByStep'
  BY <1>11 DEF WriteArtifact, Written, Fails, FileAfter, Abort, Files
<1>12. CASE Exit
  BY <1>12 DEF Exit
<1>13. ASSUME NEW i \in DOMAIN Recorders, RecorderExits(i) PROVE RecordersByStep'
  BY <1>13 DEF RecorderExits, TypeOK
<1>14. CASE Crash
  BY <1>14 DEF Crash
<1>15. CASE UNCHANGED vars
  BY <1>15 DEF vars
<1>16. QED
  BY <1>3, <1>4, <1>5, <1>6, <1>7, <1>8, <1>9, <1>10, <1>11, <1>12, <1>13, <1>14,
     <1>15 DEF Next, RunStep

\* No step of the run starts a recorder once there is an artifact, or the end.
LEMMA OrphansKept ==
  ASSUME RunInv, [Next]_vars
  PROVE  NoOrphanRecorder'
<1> DEFINE quiet == \A i \in DOMAIN Recorders : recorder[i] # "running"
           begun == exit = "ok" \/ {disk["system"], disk["raw"], disk["summary"]}
                                     \cap {"partial", "written"} # {}
<1>1. begun => quiet
  BY DEF RunInv, NoOrphanRecorder
<1>2. exit = "no" /\ step \in {"system", "raw", "summary", "shutdown"} => quiet
  BY DEF RunInv, RecordersByStep
<1>3. CASE begun' => begun
  <2>1. CASE StartRecorder
    <3>1. ~begun
      BY <2>1 DEF StartRecorder, RunInv, FilesByStep, NotThisRun
    <3>2. QED
      BY <1>3, <3>1 DEF NoOrphanRecorder
  <2>2. CASE ~StartRecorder
    <3>1. UNCHANGED recorder \/ \E i \in DOMAIN Recorders : RecorderExits(i)
      BY <2>2 DEF Next, RunStep, Open, WriteMetadata, RunBenchmark, PollRecorder,
                  WaitTerminated, WaitKilled, StoppedAll, WriteArtifact, Exit, Crash,
                  StopNext, vars
    <3>2. quiet => quiet'
      BY <3>1 DEF RecorderExits, RunInv, TypeOK
    <3>3. QED
      BY <1>1, <1>3, <3>2 DEF NoOrphanRecorder
  <2>3. QED
    BY <2>1, <2>2
<1>4. CASE begun' /\ ~begun
  <2>1. /\ exit = "no" /\ step \in {"system", "raw", "summary", "shutdown"}
        /\ UNCHANGED recorder
    <3>1. CASE Exit
      BY <3>1 DEF Exit
    <3>2. CASE \E f \in Files : Open(f)
      BY <1>4, <3>2 DEF Open, Files, RunInv, TypeOK
    <3>3. CASE \E f \in Files \ {"metadata"} : WriteArtifact(f)
      BY <3>3 DEF WriteArtifact, Written, Fails, Files
    <3>4. CASE WriteMetadata
      <4>1. /\ UNCHANGED exit
            /\ disk' \in {disk, [disk EXCEPT !["metadata"] = "written"]}
        BY <3>4 DEF WriteMetadata, Written, Fails
      <4>2. UNCHANGED exit /\ \A f \in Artifacts : disk'[f] = disk[f]
        BY <4>1 DEF RunInv, TypeOK, Files, Artifacts
      <4>3. QED
        BY <1>4, <4>2 DEF Artifacts
    <3>5. CASE UNCHANGED disk /\ (exit' = "ok" => exit = "ok")
      BY <1>4, <3>5
    <3>6. QED
      BY <3>1, <3>2, <3>3, <3>4, <3>5
         DEF Next, RunStep, StartRecorder, RunBenchmark, PollRecorder, WaitTerminated,
             WaitKilled, StoppedAll, RecorderExits, Crash, StopNext, Abort, vars
  <2>2. QED
    BY <1>2, <2>1 DEF NoOrphanRecorder
<1>5. QED
  BY <1>3, <1>4

\* The order of the files is kept by every step.
LEMMA FilesKept ==
  ASSUME RunInv, [Next]_vars
  PROVE  FilesByStep' /\ SummaryIsLast' /\ OkMeansWritten'
<1> USE DEF Goto
<1>1. CASE \E f \in Files : Open(f)
  BY <1>1, FilesWritten
<1>2. CASE WriteMetadata
  <2>1. CASE Written("metadata") /\ Goto("start") /\ UNCHANGED failing
    <3>1. "metadata" \in Files /\ UNCHANGED <<sampled, exit>>
      BY <1>2 DEF Files, WriteMetadata
    <3>2. QED
      BY <2>1, <3>1, FilesWritten
  <2>2. CASE Fails("metadata") /\ Raise
    BY <1>2, <2>2, FilesUntouched DEF WriteMetadata, Fails, Raise
  <2>3. QED
    BY <1>2, <2>1, <2>2 DEF WriteMetadata
<1>3. CASE StartRecorder
  BY <1>3, FilesUntouched DEF StartRecorder, Raise
<1>4. CASE RunBenchmark
  <2>1. /\ exit = "no" /\ step = "start" /\ step' = "stop"
        /\ UNCHANGED <<disk, exit>>
    BY <1>4 DEF RunBenchmark
  <2>2. NotThisRun("system") /\ NotThisRun("raw") /\ NotThisRun("summary")
    BY <2>1 DEF RunInv, FilesByStep
  <2>3. disk["metadata"] = "written"
    BY <2>1 DEF RunInv, FilesByStep
  <2>4. QED
    BY <2>1, <2>2, <2>3
       DEF FilesByStep, SummaryIsLast, OkMeansWritten, NotThisRun
<1>5. CASE PollRecorder
  BY <1>5, FilesUntouched DEF PollRecorder, StopNext
<1>6. CASE WaitTerminated
  BY <1>6, FilesUntouched DEF WaitTerminated, StopNext
<1>7. CASE WaitKilled
  BY <1>7, FilesUntouched DEF WaitKilled, StopNext, Abort
<1>8. CASE StoppedAll
  BY <1>8, FilesUntouched DEF StoppedAll
<1>9. ASSUME NEW f \in Files \ {"metadata"}, WriteArtifact(f)
      PROVE  FilesByStep' /\ SummaryIsLast' /\ OkMeansWritten'
  <2>1. f # "metadata" /\ f \in Files /\ UNCHANGED <<sampled, failing>>
    BY <1>9 DEF WriteArtifact
  <2>2. CASE Written(f) /\ Goto(FileAfter(f)) /\ UNCHANGED exit
    BY <2>1, <2>2, FilesWritten
  <2>3. CASE Fails(f) /\ Abort
    BY <2>1, <2>3, FilesUntouched DEF Fails, Abort
  <2>4. QED
    BY <1>9, <2>2, <2>3 DEF WriteArtifact
<1>10. CASE Exit
  BY <1>10 DEF Exit, RunInv, FilesByStep, SummaryIsLast, OkMeansWritten, SystemDone
<1>11. ASSUME NEW i \in DOMAIN Recorders, RecorderExits(i)
       PROVE  FilesByStep' /\ SummaryIsLast' /\ OkMeansWritten'
  BY <1>11, FilesUntouched DEF RecorderExits
<1>12. CASE Crash
  BY <1>12, FilesUntouched DEF Crash
<1>13. CASE UNCHANGED vars
  BY <1>13, FilesUntouched DEF vars
<1>14. QED
  BY <1>1, <1>2, <1>3, <1>4, <1>5, <1>6, <1>7, <1>8, <1>9, <1>10, <1>11, <1>12,
     <1>13 DEF Next, RunStep

\* RunInv is an invariant of every run.
THEOREM RunInductive == Spec => []RunInv
<1>1. Init => RunInv
  BY RunInitially
<1>2. RunInv /\ [Next]_vars => RunInv'
  <2> SUFFICES ASSUME RunInv, [Next]_vars PROVE RunInv'
    OBVIOUS
  <2>1. TypeOK'
    BY TypeKept DEF RunInv
  <2>2. QED
    BY <2>1, FilesKept, RecordersKept, OrphansKept DEF RunInv
<1>3. QED
  BY <1>1, <1>2, PTL DEF Spec

\* Every variable keeps its type, and the process is gone exactly when it has
\* an exit.
THEOREM TypeCorrect == Spec => []TypeOK
<1>1. RunInv => TypeOK
  BY DEF RunInv
<1>2. QED
  BY <1>1, RunInductive, PTL

\* The summary of a run stands for samples that are complete, wherever the run
\* was cut short (the order of the writes in the finally block).
THEOREM SummaryLast == Spec => []SummaryIsLast
<1>1. RunInv => SummaryIsLast
  BY DEF RunInv
<1>2. QED
  BY <1>1, RunInductive, PTL

\* A run without an error has all of its files, none of them incomplete.
THEOREM OkWritten == Spec => []OkMeansWritten
<1>1. RunInv => OkMeansWritten
  BY DEF RunInv
<1>2. QED
  BY <1>1, RunInductive, PTL

\* No recorder outlives a run that reached its artifacts.
THEOREM NoOrphans == Spec => []NoOrphanRecorder
<1>1. RunInv => NoOrphanRecorder
  BY DEF RunInv
<1>2. QED
  BY <1>1, RunInductive, PTL

-----------------------------------------------------------------------------
(* What a reader may rely on *)

GotWritten(f) == got[f] = "written"

\* A summary of this run, once read, is the one on disk.
ReadIsOnDisk == got["summary"] = "written" => disk["summary"] = "written"

\* A reader that began after the run ended well: what it has read so far.
ReadSoFar ==
  /\ began = "not" => todo = <<>> /\ end = "no"
  /\ end = "ok" => todo = <<>>
  /\ began = "ok" =>
       /\ exit = "ok"
       /\ end # "error"
       /\ \/ todo = ToRead
          \/ tool = "merge" /\ todo = <<"summary">> /\ GotWritten("metadata")
          \/ /\ todo = <<>>
             /\ GotWritten("summary")
             /\ tool = "merge" => GotWritten("metadata")

ReadersTypeOK ==
  /\ tool \in {"merge", "summarize"}
  /\ DOMAIN got = {"metadata", "summary"}

ReadersInv ==
  /\ RunInv
  /\ ReadersTypeOK
  /\ ReadIsOnDisk
  /\ ReadSoFar

\* What a run has written stays, and an ended run changes nothing any more.
LEMMA WrittenStays ==
  ASSUME RunInv, [Next]_vars
  PROVE  /\ disk["summary"] = "written" => disk'["summary"] = "written"
         /\ exit = "ok" => exit' = "ok" /\ UNCHANGED disk
<1>1. TypeOK
  BY DEF RunInv
<1>2. CASE \E f \in Files : Open(f)
  BY <1>1, <1>2 DEF Open, RunInv, FilesByStep, NotThisRun, TypeOK, Files
<1>3. CASE WriteMetadata
  BY <1>1, <1>3 DEF WriteMetadata, Written, Fails, TypeOK, Files
<1>4. CASE \E f \in Files \ {"metadata"} : WriteArtifact(f)
  BY <1>1, <1>4 DEF WriteArtifact, Written, Fails, TypeOK, Files
<1>5. CASE UNCHANGED disk /\ (exit = "ok" => exit' = "ok")
  BY <1>5
<1>6. QED
  BY <1>2, <1>3, <1>4, <1>5
     DEF Next, RunStep, StartRecorder, RunBenchmark, PollRecorder, WaitTerminated,
         WaitKilled, StoppedAll, Exit, RecorderExits, Crash, StopNext, Abort, vars

\* After a run that ended well both files of a reader are there and current.
LEMMA FilesAfterRun ==
  ASSUME RunInv, exit = "ok"
  PROVE  disk["metadata"] = "written" /\ disk["summary"] = "written"
BY DEF RunInv, OkMeansWritten

\* The two forms of the list, and the parts that are taken from it.
LEMMA Lists ==
  /\ Head(<<"metadata", "summary">>) = "metadata"
  /\ Tail(<<"metadata", "summary">>) = <<"summary">>
  /\ Head(<<"summary">>) = "summary"
  /\ Tail(<<"summary">>) = <<>>
  /\ <<"summary">> # <<>> /\ <<"metadata", "summary">> # <<>>
OBVIOUS

\* A step of the reader, in a directory that does not change under it.
LEMMA ReaderKeeps ==
  ASSUME ReadersInv, ReaderStep
  PROVE  ReadersInv'
<1>1. UNCHANGED <<vars, tool>>
  BY DEF ReaderStep, Begin, Exists, Read, Finish
<1>2. RunInv'
  BY <1>1, TypeKept, FilesKept, RecordersKept, OrphansKept DEF ReadersInv, RunInv
<1>3. UNCHANGED <<disk, exit, tool>>
  BY <1>1 DEF vars
<1> USE DEF ReadersInv, ReadersTypeOK, ReadIsOnDisk, ReadSoFar, GotWritten, ToRead
<1>4. CASE Begin
  <2>1. /\ began = "not" /\ began' = exit /\ todo' = ToRead
        /\ UNCHANGED <<found, got, end>>
    BY <1>4 DEF Begin
  <2>2. exit \in {"no", "ok", "error", "crashed"}
    BY DEF RunInv, TypeOK
  <2>3. QED
    BY <1>2, <1>3, <2>1, <2>2
<1>5. CASE Exists
  <2>1. end = "no" /\ todo # <<>> /\ UNCHANGED <<began, end>>
    BY <1>5 DEF Exists, Reading
  <2>2. CASE disk[Head(todo)] = "absent"
    <3>1. got' = [got EXCEPT ![Head(todo)] = "None"] /\ todo' = Tail(todo)
      BY <1>5, <2>2 DEF Exists
    <3>2. began # "ok"
      BY <2>1, <2>2, FilesAfterRun, Lists
    <3>3. got'["summary"] = "written" => got["summary"] = "written"
      BY <3>1
    <3>4. began # "not"
      BY <2>1
    <3>5. QED
      BY <1>2, <1>3, <2>1, <3>1, <3>2, <3>3, <3>4
  <2>3. CASE disk[Head(todo)] # "absent"
    BY <1>2, <1>3, <1>5, <2>1, <2>3 DEF Exists
  <2>4. QED
    BY <2>2, <2>3
<1>6. CASE Read
  <2>1. end = "no" /\ todo # <<>> /\ UNCHANGED began /\ began # "not"
    BY <1>6 DEF Read, Reading
  <2>2. CASE Unreadable(Head(todo))
    <3>1. end' = "error" /\ UNCHANGED <<todo, found, got>>
      BY <1>6, <2>2 DEF Read
    <3>2. began # "ok"
      BY <2>1, <2>2, FilesAfterRun, Lists DEF Unreadable
    <3>3. QED
      BY <1>2, <1>3, <2>1, <3>1, <3>2
  <2>3. CASE ~Unreadable(Head(todo))
    <3>1. /\ got' = [got EXCEPT ![Head(todo)] = disk[Head(todo)]]
          /\ todo' = Tail(todo) /\ UNCHANGED end
      BY <1>6, <2>3 DEF Read
    <3>2. ReadIsOnDisk' /\ ReadersTypeOK'
      BY <1>3, <3>1
    <3>3. CASE began # "ok"
      BY <1>2, <1>3, <2>1, <3>1, <3>2, <3>3
    <3>4. CASE began = "ok" /\ tool = "merge" /\ todo = <<"metadata", "summary">>
      <4>1. todo' = <<"summary">> /\ got'["metadata"] = "written"
        BY <3>1, <3>4, FilesAfterRun, Lists
      <4>2. QED
        BY <1>2, <1>3, <2>1, <3>1, <3>2, <3>4, <4>1
    <3>5. CASE began = "ok" /\ todo = <<"summary">>
      <4>1. todo' = <<>> /\ got'["summary"] = "written"
        BY <3>1, <3>5, FilesAfterRun, Lists
      <4>2. tool = "merge" => got'["metadata"] = "written"
        BY <2>1, <3>1, <3>5, Lists
      <4>3. QED
        BY <1>2, <1>3, <2>1, <3>1, <3>2, <3>5, <4>1, <4>2
    <3>6. QED
      BY <2>1, <3>3, <3>4, <3>5
  <2>4. QED
    BY <2>2, <2>3
<1>7. CASE Finish
  BY <1>2, <1>3, <1>7 DEF Finish
<1>8. QED
  BY <1>4, <1>5, <1>6, <1>7 DEF ReaderStep

\* ReadersInv is kept by the run and by its reader, in any interleaving: a
\* summary read as written is the one on disk, and what a reader that began after
\* a successful run has read so far is of that run.
THEOREM ReadersInductive == ReadersSpec => []ReadersInv
<1>1. ReadersInit => ReadersInv
  BY RunInitially DEF ReadersInit, ReadersInv, ReadersTypeOK, ReadIsOnDisk, ReadSoFar
<1>2. ReadersInv /\ [ReadersNext]_allVars => ReadersInv'
  <2> SUFFICES ASSUME ReadersInv, [ReadersNext]_allVars PROVE ReadersInv'
    OBVIOUS
  <2>1. CASE ReaderStep
    BY <2>1, ReaderKeeps
  <2>2. CASE [Next]_vars /\ UNCHANGED readerVars
    <3>1. RunInv'
      <4>1. TypeOK'
        BY <2>2, TypeKept DEF ReadersInv, RunInv
      <4>2. QED
        BY <2>2, <4>1, FilesKept, RecordersKept, OrphansKept DEF ReadersInv, RunInv
    <3>2. /\ disk["summary"] = "written" => disk'["summary"] = "written"
          /\ exit = "ok" => exit' = "ok" /\ UNCHANGED disk
      BY <2>2, WrittenStays DEF ReadersInv
    <3>3. QED
      BY <2>2, <3>1, <3>2 DEF ReadersInv, ReadersTypeOK, ReadIsOnDisk, ReadSoFar,
                              GotWritten, ToRead, readerVars
  <2>3. QED
    BY <2>1, <2>2 DEF ReadersNext, RunOfRole, allVars, readerVars
<1>3. QED
  BY <1>1, <1>2, PTL DEF ReadersSpec

\* What is read after a run that ended well is complete and of that run.
THEOREM ReadCurrent == ReadersSpec => []ReadAfterRunIsCurrent
<1>1. ReadersInv => ReadAfterRunIsCurrent
  <2> SUFFICES ASSUME ReadersInv, began = "ok" 
               PROVE  /\ end # "error"
                      /\ end = "ok" => \A i \in DOMAIN ToRead : got[ToRead[i]] = "written"
    BY DEF ReadAfterRunIsCurrent
  <2>1. end # "error"
    BY DEF ReadersInv, ReadSoFar
  <2>2. ASSUME end = "ok", NEW i \in DOMAIN ToRead
        PROVE  got[ToRead[i]] = "written"
    <3>1. /\ GotWritten("summary")
          /\ tool = "merge" => GotWritten("metadata")
      BY <2>2, Lists DEF ReadersInv, ReadSoFar, ToRead
    <3>2. CASE tool = "merge"
      BY <2>2, <3>1, <3>2 DEF ToRead, GotWritten
    <3>3. CASE tool # "merge"
      BY <2>2, <3>1, <3>3 DEF ToRead, GotWritten
    <3>4. QED
      BY <3>2, <3>3
  <2>3. QED
    BY <2>1, <2>2
<1>2. QED
  BY <1>1, ReadersInductive, PTL

\* A summary of this run, whenever it was read, stands for complete samples.
THEOREM SummaryVouches == ReadersSpec => []SummaryVouchesForSamples
<1>1. ReadersInv => SummaryVouchesForSamples
  BY DEF ReadersInv, ReadIsOnDisk, RunInv, SummaryIsLast, SummaryVouchesForSamples
<1>2. QED
  BY <1>1, ReadersInductive, PTL

-----------------------------------------------------------------------------
(* LocalRun: the script that runs two roles, for any number of signals *)

Commands == {"receiver", "pid", "sleep", "sender", "wait", "clear", "report", "exit"}

\* Where the script is or, in cleanup, where it will be.
Position == IF InCleanup THEN resume ELSE at

LocalTypeOK ==
  /\ at \in Commands \cup {"test", "kill", "join", "end"}
  /\ resume \in Commands \cup {"end"}
  /\ busy \in BOOLEAN /\ ok \in BOOLEAN /\ pid \in BOOLEAN
  /\ pending \in BOOLEAN /\ reported \in BOOLEAN
  /\ proc \in {"none", "up", "ok", "failed"}
  /\ busy => at \in {"sleep", "sender"}

\* A receiver that is up without a pid has just been started.
PidKnown == ~pid /\ proc = "up" => ok /\ Position = "pid"

\* With a ros2 run that forwards SIGTERM the two processes end together.
EndTogether == forwards => (proc = "up" <=> role = "up")

\* What a script that has not failed has reached.
Successes ==
  /\ Position \in {"clear", "report", "exit"} /\ ok => proc = "ok"
  /\ Position \in {"wait", "clear", "report", "exit"} /\ ok => sender = "ok"
  /\ Position = "exit" => reported
  /\ Position = "end" /\ ok => reported
  /\ reported => Position \in {"exit", "end"} /\ sender = "ok" /\ proc = "ok"

LocalInv ==
  /\ LocalTypeOK
  /\ PidKnown
  /\ EndTogether
  /\ at = "end" => proc # "up"
  /\ Successes

\* LocalInv is kept by the script, the roles and signals.
THEOREM LocalInductive == LocalSpec => []LocalInv
<1>1. LocalInit => LocalInv
  BY DEF LocalInit, LocalInv, LocalTypeOK, PidKnown, EndTogether, Successes, Position,
         InCleanup, Commands
<1>2. LocalInv /\ [LocalNext]_localVars => LocalInv'
  <2> SUFFICES ASSUME LocalInv, [LocalNext]_localVars PROVE LocalInv'
    OBVIOUS
  <2> USE DEF LocalInv, LocalTypeOK, PidKnown, EndTogether, Successes, Position,
              InCleanup, Commands, Boundary, Command, Failed, Return, processes
  <2>1. CASE RunHandler
    BY <2>1, ZenonT(60) DEF RunHandler
  <2>2. CASE ExitTrap
    BY <2>2 DEF ExitTrap
  <2>3. CASE StartReceiver
    BY <2>3 DEF StartReceiver
  <2>4. CASE SetPid
    BY <2>4 DEF SetPid
  <2>5. CASE Foreground
    BY <2>5 DEF Foreground
  <2>6. CASE ForegroundEnds
    BY <2>6, ZenonT(60) DEF ForegroundEnds
  <2>7. CASE Wait
    BY <2>7, ZenonT(60) DEF Wait
  <2>8. CASE ClearPid
    BY <2>8, ZenonT(60) DEF ClearPid
  <2>9. CASE Report
    BY <2>9 DEF Report
  <2>10. CASE Again
    BY <2>10, ZenonT(60) DEF Again
  <2>11. CASE TestAlive
    BY <2>11 DEF TestAlive
  <2>12. CASE Kill
    BY <2>12 DEF Kill
  <2>13. CASE Join
    BY <2>13 DEF Join, Joined
  <2>14. CASE RoleEnds
    BY <2>14 DEF RoleEnds
  <2>15. CASE Signal
    <3>1. /\ at # "end" /\ pending' = TRUE
          /\ UNCHANGED <<pid, proc, role, forwards, sender, resume, reported>>
      BY <2>15 DEF Signal
    <3>2. CASE UNCHANGED <<at, busy, ok>>
      BY <3>1, <3>2
    <3>3. CASE busy /\ at = "sleep" /\ at' = "sender" /\ busy' = FALSE /\ ok' = FALSE
      BY <3>1, <3>3
    <3>4. QED
      BY <2>15, <3>2, <3>3 DEF Signal
  <2>16. CASE UNCHANGED localVars
    BY <2>16 DEF localVars
  <2>17. QED
    BY <2>1, <2>2, <2>3, <2>4, <2>5, <2>6, <2>7, <2>8, <2>9, <2>10, <2>11, <2>12,
       <2>13, <2>14, <2>15, <2>16 DEF LocalNext, Script
<1>3. QED
  BY <1>1, <1>2, PTL DEF LocalSpec

\* However often and wherever signals interrupt the script, it leaves no
\* receiver behind that it could have stopped.
THEOREM ReceiverStopped == LocalSpec => []NoReceiverLeft
<1>1. LocalInv => NoReceiverLeft
  BY DEF LocalInv, EndTogether, NoReceiverLeft
<1>2. QED
  BY <1>1, LocalInductive, PTL

\* The script announces results, and succeeds, only if both roles did.
THEOREM SuccessReported == LocalSpec => []ResultsMeanSuccess
<1>1. LocalInv => ResultsMeanSuccess
  BY DEF LocalInv, LocalTypeOK, Successes, Position, InCleanup, Commands,
         ResultsMeanSuccess
<1>2. QED
  BY <1>1, LocalInductive, PTL
=============================================================================

------------------------------ MODULE RunReaders ----------------------------
(***************************************************************************)
(* Who reads a run directory while BenchmarkRun may be writing it: merge,  *)
(* which looks for metadata and summary and reads what it finds            *)
(* (merge_role_summaries, nodes/metrics_collector.py), or summarize, which *)
(* expects a summary (analysis/summarize_run.py, used by compare_runs.py). *)
(* Nothing coordinates the two processes: each read is a step of its own.  *)
(***************************************************************************)
EXTENDS BenchmarkRun

VARIABLES
  tool,     \* "merge" or "summarize"
  todo,     \* files still to be read, the first is read next
  found,    \* path.exists() of the first was true
  got,      \* what was read of each file: whose it is, or None
  began,    \* history: exit of the run when the tool was started
  end       \* how the tool ended, "no" before

readerVars == <<tool, todo, found, got, began, end>>
allVars == <<vars, readerVars>>

ReadersInit ==
  /\ Init
  /\ tool \in {"merge", "summarize"}
  /\ todo = <<>>
  /\ found = FALSE
  /\ got = [f \in {"metadata", "summary"} |-> "unread"]
  /\ began = "not"
  /\ end = "no"

-----------------------------------------------------------------------------

\* The order in which merge evaluates the fields of a role.
ToRead == IF tool = "merge" THEN <<"metadata", "summary">> ELSE <<"summary">>

Begin ==
  /\ began = "not"
  /\ began' = exit
  /\ todo' = ToRead
  /\ UNCHANGED <<vars, tool, found, got, end>>

Reading == end = "no" /\ todo # <<>>

Exists ==
  /\ Reading
  /\ tool = "merge"
  /\ ~found
  /\ IF disk[Head(todo)] = "absent"
     THEN /\ got' = [got EXCEPT ![Head(todo)] = "None"]
          /\ todo' = Tail(todo)
          /\ UNCHANGED found
     ELSE found' = TRUE /\ UNCHANGED <<got, todo>>
  /\ UNCHANGED <<vars, tool, began, end>>

\* A file that is not there, or not all of it, is no JSON document.
Unreadable(f) == disk[f] \in {"absent", "torn", "partial"}

Read ==
  /\ Reading
  /\ tool = "merge" => found
  /\ IF Unreadable(Head(todo))
     THEN end' = "error" /\ UNCHANGED <<todo, found, got>>
     ELSE /\ got' = [got EXCEPT ![Head(todo)] = disk[Head(todo)]]
          /\ todo' = Tail(todo)
          /\ found' = FALSE
          /\ UNCHANGED end
  /\ UNCHANGED <<vars, tool, began>>

\* What was read is written as one document, or printed.
Finish ==
  /\ began # "not"
  /\ end = "no"
  /\ todo = <<>>
  /\ end' = "ok"
  /\ UNCHANGED <<vars, tool, todo, found, got, began>>

ReaderStep == Begin \/ Exists \/ Read \/ Finish

RunOfRole == Next /\ UNCHANGED readerVars

ReadersNext == RunOfRole \/ ReaderStep

ReadersSpec == ReadersInit /\ [][ReadersNext]_allVars

\* The process of the run is scheduled; every wait of it has a timeout, and the
\* loop of the role ends (Terminates of StreamReceiver and of StreamSender).
\* Nothing is asked of the reader, of the recorders or of the disk.
ReadersFairSpec == ReadersSpec /\ WF_vars(RunStep)

-----------------------------------------------------------------------------
(* Properties *)

\* What is read after a run ended well is readable and of that run, metadata
\* and summary alike, whatever earlier runs left behind.
ReadAfterRunIsCurrent ==
  began = "ok" =>
    /\ end # "error"
    /\ end = "ok" => \A i \in DOMAIN ToRead : got[ToRead[i]] = "written"

\* A summary that was read vouches for the samples of its run: they are all on
\* disk, even if the run was killed right after.
SummaryVouchesForSamples ==
  got["summary"] = "written" =>
    /\ disk["raw"] = "written"
    /\ sampled => disk["system"] = "written"
=============================================================================

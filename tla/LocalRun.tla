------------------------------- MODULE LocalRun ------------------------------
(***************************************************************************)
(* scripts/run_local_stream.sh: a receiver in the background, a sender in  *)
(* the foreground, and a trap that stops the receiver.  The script runs    *)
(* under set -e.  A trapped signal does not end it: bash runs the handler  *)
(* when the foreground command is over, or at once in a wait, and goes on  *)
(* where it was.                                                           *)
(*                                                                         *)
(* RECEIVER_PID is the pid of "ros2 run".  Whether that passes a SIGTERM   *)
(* on to the role it started is not up to the script: forwards is either.  *)
(* What the roles do is StreamSender, StreamReceiver and BenchmarkRun;     *)
(* here each ends some time, well or badly.                                *)
(***************************************************************************)
EXTENDS Integers

CONSTANT MaxSignals   \* bound: signals sent to the script

ASSUME LocalRunAssumption == MaxSignals \in Nat

VARIABLES
  at,        \* the command that is next or, if busy, running
  busy,      \* a foreground command is running
  ok,        \* status of the last command
  pid,       \* RECEIVER_PID is set
  proc,      \* the process it names
  role,      \* the receiver behind it
  forwards,  \* proc passes SIGTERM on
  sender,
  pending,   \* a handler has to run
  resume,    \* where the script goes on after cleanup
  reported,  \* the line with the results was printed
  signals

processes == <<proc, role, forwards, sender>>
localVars == <<at, busy, ok, pid, processes, pending, resume, reported, signals>>

LocalInit ==
  /\ at = "receiver"
  /\ busy = FALSE
  /\ ok = TRUE
  /\ pid = FALSE
  /\ proc = "none"
  /\ role = "none"
  /\ forwards \in BOOLEAN
  /\ sender = "none"
  /\ pending = FALSE
  /\ resume = "end"
  /\ reported = FALSE
  /\ signals = 0

-----------------------------------------------------------------------------
(* Between two commands: the handler first, then set -e *)

InCleanup == at \in {"test", "kill", "join"}

IgnoreStatus == FALSE                                         \* mutant

Failed == ~ok

Boundary == at # "end" /\ ~busy /\ ~InCleanup

RunHandler ==
  /\ Boundary
  /\ pending
  /\ pending' = FALSE
  /\ resume' = at
  /\ at' = "test"
  /\ UNCHANGED <<busy, ok, pid, processes, reported, signals>>

\* A failed command, or the end of the script: the EXIT trap runs.
ExitTrap ==
  /\ Boundary
  /\ ~pending
  /\ Failed \/ at = "exit"
  /\ resume' = "end"
  /\ at' = "test"
  /\ UNCHANGED <<busy, ok, pid, processes, pending, reported, signals>>

Command(name) == Boundary /\ ~pending /\ ~Failed /\ at = name

-----------------------------------------------------------------------------
(* The commands *)

StartReceiver ==
  /\ Command("receiver")
  /\ proc' = "up"
  /\ role' = "up"
  /\ at' = "pid"
  /\ UNCHANGED <<busy, ok, pid, forwards, sender, pending, resume, reported, signals>>

SetPid ==
  /\ Command("pid")
  /\ pid' = TRUE
  /\ at' = "sleep"
  /\ UNCHANGED <<busy, ok, processes, pending, resume, reported, signals>>

\* sleep, or the sender.
Foreground ==
  /\ \/ Command("sleep") /\ UNCHANGED sender
     \/ Command("sender") /\ sender' = "up"
  /\ busy' = TRUE
  /\ UNCHANGED <<at, ok, pid, proc, role, forwards, pending, resume, reported, signals>>

ForegroundEnds ==
  /\ busy
  /\ at \in {"sleep", "sender"}
  /\ \/ at = "sleep" /\ at' = "sender" /\ UNCHANGED <<ok, sender>>
     \/ at = "sender" /\ at' = "wait" /\ ok' \in BOOLEAN
        /\ sender' = IF ok' THEN "ok" ELSE "failed"
  /\ busy' = FALSE
  /\ UNCHANGED <<pid, proc, role, forwards, pending, resume, reported, signals>>

\* wait returns the status of the receiver, also of one that was waited for
\* before; a trapped signal ends it with a status of its own.
Wait ==
  /\ at = "wait"
  /\ ~busy
  /\ ~Failed
  /\ \/ proc \in {"ok", "failed"} /\ ok' = (proc = "ok")
     \/ pending /\ ok' = FALSE
  /\ at' = "clear"
  /\ UNCHANGED <<busy, pid, processes, pending, resume, reported, signals>>

ClearPid ==
  /\ Command("clear")
  /\ pid' = FALSE
  /\ at' = "report"
  /\ UNCHANGED <<busy, ok, processes, pending, resume, reported, signals>>

Report ==
  /\ Command("report")
  /\ reported' = TRUE
  /\ at' = "exit"
  /\ UNCHANGED <<busy, ok, pid, processes, pending, resume, signals>>

-----------------------------------------------------------------------------
(* cleanup *)

LoopForever == "test"                                         \* mutant

Return == resume

\* A signal in the handler runs it again, inside: the rest of the outer one
\* then finds nothing to do.
Again ==
  /\ InCleanup
  /\ pending
  /\ pending' = FALSE
  /\ at' = "test"
  /\ UNCHANGED <<busy, ok, pid, processes, resume, reported, signals>>

TestAlive ==
  /\ at = "test"
  /\ ~pending
  /\ at' = IF pid /\ proc = "up" THEN "kill" ELSE Return
  /\ UNCHANGED <<busy, ok, pid, processes, pending, resume, reported, signals>>

Kill ==
  /\ at = "kill"
  /\ ~pending
  /\ proc' = IF forwards \/ proc # "up" THEN proc ELSE "failed"
  /\ at' = "join"
  /\ UNCHANGED <<busy, ok, pid, role, forwards, sender, pending, resume, reported,
                 signals>>

WithoutWait == TRUE                                           \* mutant

Joined == proc # "up"

Join ==
  /\ at = "join"
  /\ ~pending
  /\ Joined
  /\ at' = Return
  /\ UNCHANGED <<busy, ok, pid, processes, pending, resume, reported, signals>>

-----------------------------------------------------------------------------
(* The environment *)

RoleEnds ==
  /\ role = "up"
  /\ role' = "gone"
  /\ proc' \in IF proc = "up" THEN {"ok", "failed"} ELSE {proc}
  /\ UNCHANGED <<at, busy, ok, pid, forwards, sender, pending, resume, reported,
                 signals>>

\* A signal to the script, or to its whole process group, which also ends a
\* sleep (the roles may end at any time, so they need no case).
Signal ==
  /\ signals < MaxSignals
  /\ at # "end"
  /\ signals' = signals + 1
  /\ pending' = TRUE
  /\ \/ UNCHANGED <<at, busy, ok>>
     \/ busy /\ at = "sleep" /\ at' = "sender" /\ busy' = FALSE /\ ok' = FALSE
  /\ UNCHANGED <<pid, processes, resume, reported>>

Script ==
  \/ RunHandler \/ ExitTrap
  \/ StartReceiver \/ SetPid \/ Foreground \/ ForegroundEnds \/ Wait
  \/ ClearPid \/ Report
  \/ Again \/ TestAlive \/ Kill \/ Join

LocalNext == Script \/ RoleEnds \/ Signal

LocalSpec == LocalInit /\ [][LocalNext]_localVars

\* The script is scheduled, a sleep and the sender end, and so does the
\* receiver (Terminates of StreamSender, StreamReceiver and BenchmarkRun).
LocalFairSpec == LocalSpec /\ WF_localVars(Script) /\ WF_localVars(RoleEnds)

-----------------------------------------------------------------------------
(* Properties *)

\* However the script ends, and wherever signals interrupt it, no receiver is
\* left that the script could have stopped: one that it had no pid of yet when
\* the signal came is found by the next handler.
NoReceiverLeft == at = "end" /\ forwards => role # "up"

\* Results are announced, and the script succeeds, only if both roles did.
ResultsMeanSuccess ==
  /\ reported => sender = "ok" /\ proc = "ok"
  /\ at = "end" /\ ok => reported

\* The script ends, although none of its waits has a timeout, and a receiver
\* that outlives it ends too.
Ends == <>[](at = "end" /\ role # "up")
=============================================================================

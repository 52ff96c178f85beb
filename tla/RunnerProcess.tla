---------------------------- MODULE RunnerProcess ----------------------------
(***************************************************************************)
(* One command on a runner (RunnerClientService.Run): the program and a    *)
(* process it may start are in one job of the operating system; one task   *)
(* feeds its input, two capture its outputs, and a loop looks after its    *)
(* limits.  Pipes are small and the captured outputs limited, so each of   *)
(* them may be waiting for another.  Bytes are counted, not looked at, and *)
(* times and memory are only compared with their limits.                   *)
(***************************************************************************)
EXTENDS Naturals

CONSTANTS
  Streams,     \* standard output and error
  Size,        \* limit of each stream: the length of the buffer it is captured in
  PipeSize,    \* bytes in a pipe
  InputSize,   \* bytes of standard input
  MaxWritten,  \* bound on the bytes written to one stream
  Stdout, Stderr

ASSUME ProcessAssumption ==
  /\ Streams = {Stdout, Stderr} /\ Size \in [Streams -> Nat \ {0}]
  /\ PipeSize \in Nat \ {0} /\ InputSize \in Nat /\ MaxWritten \in Nat

VARIABLES
  runner,      \* where Run is
  process,     \* the program ("main"), and a process that it started
  exitCode,    \* of the program
  written, captured,   \* bytes of each stream
  reader,      \* the task that captures each stream
  input,       \* bytes of input: still to write, and in the pipe
  feeder,      \* the task that writes them
  used,        \* limits that were exceeded: "user time", "memory"
  clock,       \* whether the limit of the total time is over
  took,        \* whether it was when the program exited
  stopping,    \* the runner's token
  status       \* of the response

os == <<process, exitCode, written, used, clock, took>>
vars == <<runner, os, captured, reader, input, feeder, stopping, status>>

Limits == {"memory limit", "stdout limit", "stderr limit", "user time limit", "total time limit"}
Times == {"in time", "late"}
Statuses == Limits \cup {"error", "completed", "none"}
(* Zero, other codes of the program, the runner's 0xffff for what it       *)
(* terminates, and the operating system's for user time.                   *)
Codes == {"zero", "own", "terminated", "quota"}

(* What was written and not captured is in the pipe.                       *)
Pipes ==
  \A s \in Streams :
    /\ captured[s] <= Size[s] /\ captured[s] <= written[s] /\ written[s] <= captured[s] + PipeSize
    /\ reader[s] = "full" <=> captured[s] = Size[s]

TypeOK ==
  /\ runner \in {"preparing", "polling", "deciding", "waiting", "answered", "failed"}
  /\ process \in [{"main", "child"} -> {"not started", "alive", "dead"}]
  /\ exitCode \in Codes
  /\ written \in [Streams -> Nat] /\ captured \in [Streams -> Nat]
  /\ reader \in [Streams -> {"reading", "full", "end", "cancelled"}]
  /\ input \in [left : Nat, piped : Nat]
  /\ feeder \in {"writing", "done", "cancelled"}
  /\ used \subseteq {"user time", "memory"}
  /\ clock \in Times /\ took \in Times /\ stopping \in BOOLEAN
  /\ status \in Statuses
  /\ status # "none" <=> runner = "answered"
  /\ Pipes

Init ==
  /\ runner = "preparing"
  /\ process = [x \in {"main", "child"} |-> "not started"] /\ exitCode = "zero"
  /\ written = [s \in Streams |-> 0] /\ captured = written
  /\ reader = [s \in Streams |-> "reading"]
  /\ input = [left |-> InputSize, piped |-> 0] /\ feeder = "writing"
  /\ used = {} /\ clock = "in time" /\ took = "in time"
  /\ stopping = FALSE /\ status = "none"

Alive(x) == process[x] = "alive"
Started == process["main"] # "not started"
Job == {x \in {"main", "child"} : Alive(x)}

-----------------------------------------------------------------------------
(***************************************************************************)
(* The operating system and the program.  Every process of the job has     *)
(* inherited the ends of all pipes.                                        *)
(***************************************************************************)
tasks == <<captured, reader, feeder, stopping, status>>

StartChild ==
  /\ Alive("main") /\ process["child"] = "not started"
  /\ process' = [process EXCEPT !["child"] = "alive"]
  /\ UNCHANGED <<runner, exitCode, written, used, clock, took, input, tasks>>

Write(s) ==
  /\ Job # {}
  /\ written[s] < MaxWritten /\ written[s] - captured[s] < PipeSize
  /\ written' = [written EXCEPT ![s] = @ + 1]
  /\ UNCHANGED <<runner, process, exitCode, used, clock, took, input, tasks>>

ReadInput ==
  /\ Job # {} /\ input.piped > 0
  /\ input' = [input EXCEPT !.piped = @ - 1]
  /\ UNCHANGED <<runner, os, tasks>>

Exceed(limit) ==
  /\ Job # {}
  /\ used' = used \cup {limit}
  /\ UNCHANGED <<runner, process, exitCode, written, clock, took, input, tasks>>

TimePasses ==
  /\ Started /\ clock = "in time" /\ clock' = "late"
  /\ UNCHANGED <<runner, process, exitCode, written, used, took, input, tasks>>

Exit(code) ==
  /\ Alive("main")
  /\ process' = [process EXCEPT !["main"] = "dead"]
  /\ exitCode' = code
  /\ took' = clock
  /\ UNCHANGED <<runner, written, used, clock, input, tasks>>

ChildExits ==
  /\ Alive("child")
  /\ process' = [process EXCEPT !["child"] = "dead"]
  /\ UNCHANGED <<runner, exitCode, written, used, clock, took, input, tasks>>

(* All processes of the job at once.                                       *)
Kill(code) ==
  /\ process' = [x \in {"main", "child"} |-> IF Alive(x) THEN "dead" ELSE process[x]]
  /\ IF Alive("main") THEN exitCode' = code /\ took' = clock ELSE UNCHANGED <<exitCode, took>>
  /\ UNCHANGED <<written, used, clock>>

(* The job has the same limit of user time.                                *)
JobTime ==
  /\ Job # {} /\ "user time" \in used
  /\ Kill("quota")
  /\ UNCHANGED <<runner, input, tasks>>

-----------------------------------------------------------------------------
(***************************************************************************)
(* The runner.  Variants with a plausible mistake stand before the         *)
(* definitions they replace in the project's mutation runs.                *)
(***************************************************************************)

(* The working directory is ready; the program waits for a key until it is *)
(* in its job.                                                             *)
Start ==
  /\ runner = "preparing" /\ runner' = "polling"
  /\ process' = [process EXCEPT !["main"] = "alive"]
  /\ UNCHANGED <<exitCode, written, used, clock, took, input, tasks>>

(* A file cannot be written, there is no such environment, or it stops.    *)
CannotStart ==
  /\ runner = "preparing" /\ runner' = "failed"
  /\ UNCHANGED <<os, input, tasks>>

Feed ==
  /\ Started /\ feeder = "writing"
  /\ \/ /\ Job # {} /\ input.left > 0 /\ input.piped < PipeSize
        /\ input' = [left |-> input.left - 1, piped |-> input.piped + 1]
        /\ UNCHANGED feeder
     \/ /\ input.left = 0 \/ Job = {}
        /\ feeder' = "done" /\ UNCHANGED input
  /\ UNCHANGED <<runner, os, captured, reader, stopping, status>>

FullWhenExceeded(s, length) == length > Size[s]
Full(s, length) == length = Size[s]

(* ReadToBuffer: any number of the bytes in the pipe that fit in the       *)
(* buffer, until it is full or nobody is left who could write; a read into *)
(* no space returns nothing as well.                                       *)
Capture(s) ==
  /\ Started /\ reader[s] = "reading"
  /\ \/ \E n \in 1..(written[s] - captured[s]) :
          /\ captured[s] + n <= Size[s]
          /\ captured' = [captured EXCEPT ![s] = @ + n]
          /\ reader' = [reader EXCEPT ![s] = IF Full(s, captured[s] + n) THEN "full" ELSE @]
     \/ /\ captured[s] = Size[s] \/ (written[s] = captured[s] /\ Job = {})
        /\ reader' = [reader EXCEPT ![s] = "end"] /\ UNCHANGED captured
  /\ UNCHANGED <<runner, os, input, feeder, stopping, status>>

(* HasExited.                                                              *)
Poll ==
  /\ runner = "polling"
  /\ runner' = IF Alive("main") THEN "deciding" ELSE "waiting"
  /\ UNCHANGED <<os, input, tasks>>

OverUserTime == "user time" \in used
OverLimits == "user time" \in used \/ clock = "late"

(* The program may have exited in the meantime.                            *)
Decide ==
  /\ runner = "deciding" /\ runner' = "polling"
  /\ IF OverLimits THEN Kill("terminated") ELSE UNCHANGED os
  /\ UNCHANGED <<input, tasks>>

Stop ==
  /\ ~stopping /\ stopping' = TRUE
  /\ UNCHANGED <<runner, os, captured, reader, input, feeder, status>>

(* The token ends the tasks, but not the loop.                             *)
Cancelled ==
  /\ Started /\ stopping
  /\ \/ /\ feeder = "writing" /\ feeder' = "cancelled" /\ UNCHANGED reader
     \/ /\ \E s \in Streams : reader[s] = "reading" /\ reader' = [reader EXCEPT ![s] = "cancelled"]
        /\ UNCHANGED feeder
  /\ UNCHANGED <<runner, os, captured, input, stopping, status>>

(* The first of the answers that is true.                                  *)
ErrorFirst ==
  IF exitCode # "zero" THEN "error"
  ELSE IF "memory" \in used THEN "memory limit"
  ELSE IF reader[Stdout] = "full" THEN "stdout limit"
  ELSE IF reader[Stderr] = "full" THEN "stderr limit"
  ELSE IF "user time" \in used THEN "user time limit"
  ELSE IF took = "late" THEN "total time limit"
  ELSE "completed"
Status ==
  IF "memory" \in used THEN "memory limit"
  ELSE IF reader[Stdout] = "full" THEN "stdout limit"
  ELSE IF reader[Stderr] = "full" THEN "stderr limit"
  ELSE IF "user time" \in used THEN "user time limit"
  ELSE IF took = "late" THEN "total time limit"
  ELSE IF exitCode # "zero" THEN "error"
  ELSE "completed"

(* All three tasks have ended.  Closing the job kills who is left.         *)
Answer ==
  /\ runner = "waiting"
  /\ feeder # "writing" /\ \A s \in Streams : reader[s] # "reading"
  /\ IF feeder = "cancelled" \/ \E s \in Streams : reader[s] = "cancelled"
     THEN runner' = "failed" /\ UNCHANGED status
     ELSE runner' = "answered" /\ status' = Status
  /\ Kill("terminated")
  /\ UNCHANGED <<captured, reader, input, feeder, stopping>>

Program ==
  \/ StartChild \/ ReadInput \/ ChildExits
  \/ \E s \in Streams : Write(s)
  \/ \E limit \in {"user time", "memory"} : Exceed(limit)
  \/ \E code \in {"zero", "own"} : Exit(code)

Next ==
  \/ Program \/ TimePasses \/ JobTime
  \/ Start \/ CannotStart \/ Feed \/ Poll \/ Decide \/ Stop \/ Cancelled \/ Answer
  \/ \E s \in Streams : Capture(s)

(* The clock and the runner's tasks go on, and the operating system ends a *)
(* job that is over its user time.  Neither the program nor a process that *)
(* it has left behind need do anything.                                    *)
Fairness ==
  /\ WF_vars(TimePasses) /\ WF_vars(JobTime)
  /\ WF_vars(Start) /\ WF_vars(Feed) /\ WF_vars(Poll) /\ WF_vars(Decide) /\ WF_vars(Answer)
  /\ \A s \in Streams : WF_vars(Capture(s))

Spec == Init /\ [][Next]_vars
FairSpec == Spec /\ Fairness

-----------------------------------------------------------------------------
(***************************************************************************)
(* Correctness.                                                            *)
(***************************************************************************)

(* "Completed" means that the program exited in time with code 0, nobody   *)
(* is left who could write, and all they wrote was captured.  "Error" is   *)
(* the program's own: nobody terminated it.                                *)
StatusIsTrue ==
  /\ status = "completed" =>
       /\ exitCode = "zero" /\ took = "in time" /\ Job = {}
       /\ captured = written
  /\ status = "error" => exitCode = "own" /\ captured = written

(* The program has exited, so that the loop with the limits is over, and a *)
(* task still waits for a pipe whose other end is held by a process that   *)
(* was left behind and uses no time.                                       *)
HeldUp ==
  /\ runner = "waiting" /\ Alive("child") /\ "user time" \notin used
  /\ feeder = "writing" \/ \E s \in Streams : reader[s] = "reading"

(* Whatever the program does, or does not do, the command ends, unless it  *)
(* is held up for ever by a process that the program has left behind.      *)
EndsUnlessHeldUp == <>(runner \in {"answered", "failed"}) \/ <>[]HeldUp
==============================================================================

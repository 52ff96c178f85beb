------------------------- MODULE RunnerProcess_proofs -------------------------
(***************************************************************************)
(* What is proved about a command on a runner, for any sizes of pipes,     *)
(* buffers, inputs and outputs.                                            *)
(***************************************************************************)
EXTENDS RunnerProcess, TLAPS

(* A stream ends when nobody is left who could write to it.                *)
Ended ==
  \A s \in Streams : reader[s] = "end" => captured[s] = written[s] /\ Started /\ Job = {}

(* After the loop, the program has exited; after the answer, nobody is     *)
(* left, and both outputs have been captured.                              *)
Exited ==
  /\ runner = "preparing" => ~Started
  /\ runner \in {"polling", "deciding"} => Started
  /\ runner = "waiting" => process["main"] = "dead"
  /\ runner = "answered" =>
       /\ process["main"] = "dead" /\ Job = {}
       /\ \A s \in Streams : reader[s] \in {"full", "end"}

(* Whoever terminates the program has a limit to name.                     *)
Blamed ==
  /\ exitCode = "quota" => "user time" \in used
  /\ exitCode = "terminated" => "user time" \in used \/ took = "late"

Inv == TypeOK /\ Ended /\ Exited /\ Blamed /\ StatusIsTrue

LEMMA InvInit == Init => Inv
<1>. SUFFICES ASSUME Init PROVE Inv
  OBVIOUS
<1>1. TypeOK
  <2>1. ASSUME NEW s \in Streams
        PROVE  /\ written[s] = 0 /\ captured[s] = 0 /\ reader[s] = "reading"
               /\ Size[s] \in Nat /\ Size[s] # 0
    BY ProcessAssumption DEF Init
  <2>2. Pipes
    BY <2>1, ProcessAssumption DEF Pipes
  <2>3. input \in [left : Nat, piped : Nat]
    BY ProcessAssumption DEF Init
  <2>4. reader \in [Streams -> {"reading", "full", "end", "cancelled"}]
    BY DEF Init
  <2>. QED
    BY <2>2, <2>3, <2>4 DEF Init, TypeOK, Codes, Statuses, Times
<1>2. Ended /\ Exited /\ Blamed /\ StatusIsTrue
  BY DEF Init, Ended, Exited, Blamed, StatusIsTrue, Started, Codes
<1>. QED
  BY <1>1, <1>2 DEF Inv

LEMMA InvNext == Inv /\ [Next]_vars => Inv'
<1>. SUFFICES ASSUME Inv, [Next]_vars PROVE Inv'
  OBVIOUS
<1>. USE DEF Inv
<1>1. CASE StartChild
  <2>1. TypeOK' \/ ~Pipes'
    BY <1>1, ProcessAssumption DEF StartChild, tasks, TypeOK
  <2>2. Pipes'
    BY <1>1, ProcessAssumption DEF StartChild, tasks, TypeOK, Pipes
  <2>3. Ended'
    BY <1>1, ProcessAssumption DEF StartChild, tasks, TypeOK, Pipes, Ended, Started, Alive, Job
  <2>4. Exited'
    BY <1>1, ProcessAssumption DEF StartChild, tasks, TypeOK, Exited, Started, Alive, Job
  <2>5. Blamed'
    BY <1>1, ProcessAssumption DEF StartChild, tasks, TypeOK, Blamed, Codes, Alive, Job
  <2>6. StatusIsTrue'
    BY <1>1, ProcessAssumption DEF StartChild, tasks, TypeOK, StatusIsTrue, Exited, Alive, Job
  <2>. QED
    BY <2>1, <2>2, <2>3, <2>4, <2>5, <2>6
<1>2. ASSUME NEW s \in Streams, Write(s) PROVE Inv'
  <2>1. TypeOK' \/ ~Pipes'
    <3>1. written \in [Streams -> Nat]
      BY DEF TypeOK
    <3>2. written' \in [Streams -> Nat]
      BY <1>2, <3>1 DEF Write
    <3>. QED
      BY <1>2, <3>2 DEF Write, tasks, TypeOK
  <2>2. Pipes'
    <3>1. written \in [Streams -> Nat] /\ captured \in [Streams -> Nat]
      BY DEF TypeOK
    <3>2. /\ written' = [written EXCEPT ![s] = @ + 1]
          /\ written[s] - captured[s] < PipeSize
          /\ captured' = captured /\ reader' = reader
      BY <1>2 DEF Write, tasks
    <3>3. ASSUME NEW q \in Streams
          PROVE  /\ written'[q] = IF q = s THEN written[q] + 1 ELSE written[q]
                 /\ captured[q] <= Size[q] /\ captured[q] <= written[q]
                 /\ written[q] <= captured[q] + PipeSize
                 /\ reader[q] = "full" <=> captured[q] = Size[q]
                 /\ written[q] \in Nat /\ captured[q] \in Nat /\ PipeSize \in Nat
      <4>1. written'[q] = IF q = s THEN written[q] + 1 ELSE written[q]
        BY <3>1, <3>2
      <4>2. /\ captured[q] <= Size[q] /\ captured[q] <= written[q]
            /\ written[q] <= captured[q] + PipeSize
            /\ reader[q] = "full" <=> captured[q] = Size[q]
        BY DEF TypeOK, Pipes
      <4>. QED
        BY <3>1, <4>1, <4>2, ProcessAssumption
    <3>. QED
      BY <3>2, <3>3 DEF Pipes
  <2>3. Ended'
    BY <1>2, ProcessAssumption DEF Write, tasks, TypeOK, Pipes, Ended, Started, Alive, Job
  <2>4. Exited'
    BY <1>2, ProcessAssumption DEF Write, tasks, TypeOK, Exited, Started, Alive, Job
  <2>5. Blamed'
    BY <1>2, ProcessAssumption DEF Write, tasks, TypeOK, Blamed, Codes, Alive, Job
  <2>6. StatusIsTrue'
    BY <1>2, ProcessAssumption DEF Write, tasks, TypeOK, StatusIsTrue, Exited, Alive, Job
  <2>. QED
    BY <2>1, <2>2, <2>3, <2>4, <2>5, <2>6
<1>3. CASE ReadInput
  <2>1. TypeOK' \/ ~Pipes'
    <3>1. input \in [left : Nat, piped : Nat]
      BY DEF TypeOK
    <3>2. input' \in [left : Nat, piped : Nat]
      BY <1>3, <3>1 DEF ReadInput
    <3>. QED
      BY <1>3, <3>2 DEF ReadInput, os, tasks, TypeOK
  <2>2. Pipes'
    BY <1>3, ProcessAssumption DEF ReadInput, os, tasks, TypeOK, Pipes
  <2>3. Ended'
    BY <1>3, ProcessAssumption DEF ReadInput, os, tasks, TypeOK, Pipes, Ended, Started, Alive, Job
  <2>4. Exited'
    BY <1>3, ProcessAssumption DEF ReadInput, os, tasks, TypeOK, Exited, Started, Alive, Job
  <2>5. Blamed'
    BY <1>3, ProcessAssumption DEF ReadInput, os, tasks, TypeOK, Blamed, Codes, Alive, Job
  <2>6. StatusIsTrue'
    BY <1>3, ProcessAssumption DEF ReadInput, os, tasks, TypeOK, StatusIsTrue, Exited, Alive, Job
  <2>. QED
    BY <2>1, <2>2, <2>3, <2>4, <2>5, <2>6
<1>4. ASSUME NEW limit \in {"user time", "memory"}, Exceed(limit) PROVE Inv'
  <2>1. TypeOK' \/ ~Pipes'
    BY <1>4, ProcessAssumption DEF Exceed, tasks, TypeOK
  <2>2. Pipes'
    BY <1>4, ProcessAssumption DEF Exceed, tasks, TypeOK, Pipes
  <2>3. Ended'
    BY <1>4, ProcessAssumption DEF Exceed, tasks, TypeOK, Pipes, Ended, Started, Alive, Job
  <2>4. Exited'
    BY <1>4, ProcessAssumption DEF Exceed, tasks, TypeOK, Exited, Started, Alive, Job
  <2>5. Blamed'
    BY <1>4, ProcessAssumption DEF Exceed, tasks, TypeOK, Blamed, Codes, Alive, Job
  <2>6. StatusIsTrue'
    BY <1>4, ProcessAssumption DEF Exceed, tasks, TypeOK, StatusIsTrue, Exited, Alive, Job
  <2>. QED
    BY <2>1, <2>2, <2>3, <2>4, <2>5, <2>6
<1>5. CASE TimePasses
  <2>1. TypeOK' \/ ~Pipes'
    BY <1>5, ProcessAssumption DEF TimePasses, tasks, Times, TypeOK
  <2>2. Pipes'
    BY <1>5, ProcessAssumption DEF TimePasses, tasks, TypeOK, Pipes
  <2>3. Ended'
    BY <1>5, ProcessAssumption DEF TimePasses, tasks, TypeOK, Pipes, Ended, Started, Alive, Job
  <2>4. Exited'
    BY <1>5, ProcessAssumption DEF TimePasses, tasks, TypeOK, Exited, Started, Alive, Job
  <2>5. Blamed'
    BY <1>5, ProcessAssumption DEF TimePasses, tasks, TypeOK, Blamed, Codes, Alive, Job
  <2>6. StatusIsTrue'
    BY <1>5, ProcessAssumption DEF TimePasses, tasks, TypeOK, StatusIsTrue, Exited, Alive, Job
  <2>. QED
    BY <2>1, <2>2, <2>3, <2>4, <2>5, <2>6
<1>6. ASSUME NEW code \in {"zero", "own"}, Exit(code) PROVE Inv'
  <2>1. TypeOK' \/ ~Pipes'
    BY <1>6, ProcessAssumption DEF Exit, tasks, Alive, Codes, Times, TypeOK
  <2>2. Pipes'
    BY <1>6, ProcessAssumption DEF Exit, tasks, TypeOK, Pipes
  <2>3. Ended'
    BY <1>6, ProcessAssumption DEF Exit, tasks, TypeOK, Pipes, Ended, Started, Alive, Job
  <2>4. Exited'
    BY <1>6, ProcessAssumption DEF Exit, tasks, TypeOK, Exited, Started, Alive, Job
  <2>5. Blamed'
    BY <1>6, ProcessAssumption DEF Exit, tasks, TypeOK, Blamed, Codes, Alive, Job
  <2>6. StatusIsTrue'
    BY <1>6, ProcessAssumption DEF Exit, tasks, TypeOK, StatusIsTrue, Exited, Alive, Job
  <2>. QED
    BY <2>1, <2>2, <2>3, <2>4, <2>5, <2>6
<1>7. CASE ChildExits
  <2>1. TypeOK' \/ ~Pipes'
    BY <1>7, ProcessAssumption DEF ChildExits, tasks, Alive, Codes, Times, TypeOK
  <2>2. Pipes'
    BY <1>7, ProcessAssumption DEF ChildExits, tasks, TypeOK, Pipes
  <2>3. Ended'
    BY <1>7, ProcessAssumption DEF ChildExits, tasks, TypeOK, Pipes, Ended, Started, Alive, Job
  <2>4. Exited'
    BY <1>7, ProcessAssumption DEF ChildExits, tasks, TypeOK, Exited, Started, Alive, Job
  <2>5. Blamed'
    BY <1>7, ProcessAssumption DEF ChildExits, tasks, TypeOK, Blamed, Codes, Alive, Job
  <2>6. StatusIsTrue'
    BY <1>7, ProcessAssumption DEF ChildExits, tasks, TypeOK, StatusIsTrue, Exited, Alive, Job
  <2>. QED
    BY <2>1, <2>2, <2>3, <2>4, <2>5, <2>6
<1>8. CASE JobTime
  <2>1. TypeOK' \/ ~Pipes'
    BY <1>8, ProcessAssumption DEF JobTime, Kill, tasks, Alive, Codes, Times, TypeOK
  <2>2. Pipes'
    BY <1>8, ProcessAssumption DEF JobTime, Kill, tasks, TypeOK, Pipes
  <2>3. Ended'
    BY <1>8, ProcessAssumption DEF JobTime, Kill, tasks, TypeOK, Pipes, Ended, Started, Alive, Job
  <2>4. Exited'
    BY <1>8, ProcessAssumption DEF JobTime, Kill, tasks, TypeOK, Exited, Started, Alive, Job
  <2>5. Blamed'
    BY <1>8, ProcessAssumption DEF JobTime, Kill, tasks, TypeOK, Blamed, Codes, Alive, Job
  <2>6. StatusIsTrue'
    BY <1>8, ProcessAssumption DEF JobTime, Kill, tasks, TypeOK, StatusIsTrue, Exited, Alive, Job
  <2>. QED
    BY <2>1, <2>2, <2>3, <2>4, <2>5, <2>6
<1>9. CASE Start
  <2>1. TypeOK' \/ ~Pipes'
    BY <1>9, ProcessAssumption DEF Start, tasks, TypeOK
  <2>2. Pipes'
    BY <1>9, ProcessAssumption DEF Start, tasks, TypeOK, Pipes
  <2>3. Ended'
    <3>1. ASSUME NEW s \in Streams PROVE reader[s] # "end"
      BY <1>9 DEF Start, Ended, Exited
    <3>. QED
      BY <1>9, <3>1 DEF Start, tasks, Ended
  <2>4. Exited'
    BY <1>9, ProcessAssumption DEF Start, tasks, TypeOK, Exited, Started, Alive, Job
  <2>5. Blamed'
    BY <1>9, ProcessAssumption DEF Start, tasks, TypeOK, Blamed, Codes, Alive, Job
  <2>6. StatusIsTrue'
    BY <1>9, ProcessAssumption DEF Start, tasks, TypeOK, StatusIsTrue, Exited, Alive, Job
  <2>. QED
    BY <2>1, <2>2, <2>3, <2>4, <2>5, <2>6
<1>10. CASE CannotStart
  <2>1. TypeOK' \/ ~Pipes'
    BY <1>10, ProcessAssumption DEF CannotStart, os, tasks, TypeOK
  <2>2. Pipes'
    BY <1>10, ProcessAssumption DEF CannotStart, os, tasks, TypeOK, Pipes
  <2>3. Ended'
    BY <1>10, ProcessAssumption DEF CannotStart, os, tasks, TypeOK, Pipes, Ended, Started, Alive, Job
  <2>4. Exited'
    BY <1>10, ProcessAssumption DEF CannotStart, os, tasks, TypeOK, Exited, Started, Alive, Job
  <2>5. Blamed'
    BY <1>10, ProcessAssumption DEF CannotStart, os, tasks, TypeOK, Blamed, Codes, Alive, Job
  <2>6. StatusIsTrue'
    BY <1>10, ProcessAssumption DEF CannotStart, os, tasks, TypeOK, StatusIsTrue, Exited, Alive, Job
  <2>. QED
    BY <2>1, <2>2, <2>3, <2>4, <2>5, <2>6
<1>11. CASE Feed
  <2>1. TypeOK' \/ ~Pipes'
    <3>1. input \in [left : Nat, piped : Nat]
      BY DEF TypeOK
    <3>2. input' \in [left : Nat, piped : Nat]
      BY <1>11, <3>1 DEF Feed
    <3>. QED
      BY <1>11, <3>2 DEF Feed, os, TypeOK
  <2>2. Pipes'
    BY <1>11, ProcessAssumption DEF Feed, os, TypeOK, Pipes
  <2>3. Ended'
    BY <1>11, ProcessAssumption DEF Feed, os, TypeOK, Pipes, Ended, Started, Alive, Job
  <2>4. Exited'
    BY <1>11, ProcessAssumption DEF Feed, os, TypeOK, Exited, Started, Alive, Job
  <2>5. Blamed'
    BY <1>11, ProcessAssumption DEF Feed, os, TypeOK, Blamed, Codes, Alive, Job
  <2>6. StatusIsTrue'
    BY <1>11, ProcessAssumption DEF Feed, os, TypeOK, StatusIsTrue, Exited, Alive, Job
  <2>. QED
    BY <2>1, <2>2, <2>3, <2>4, <2>5, <2>6
<1>12. ASSUME NEW s \in Streams, Capture(s) PROVE Inv'
  <2>1. TypeOK' \/ ~Pipes'
    <3>1. captured \in [Streams -> Nat] /\ written \in [Streams -> Nat]
          /\ reader \in [Streams -> {"reading", "full", "end", "cancelled"}]
      BY DEF TypeOK
    <3>2. captured' \in [Streams -> Nat]
          /\ reader' \in [Streams -> {"reading", "full", "end", "cancelled"}]
      <4>1. CASE UNCHANGED captured /\ reader' = [reader EXCEPT ![s] = "end"]
        BY <3>1, <4>1
      <4>2. ASSUME NEW n \in 1..(written[s] - captured[s]), captured' = [captured EXCEPT ![s] = @ + n],
                   reader' = [reader EXCEPT ![s] = IF Full(s, captured[s] + n) THEN "full" ELSE @]
            PROVE  /\ captured' \in [Streams -> Nat]
                   /\ reader' \in [Streams -> {"reading", "full", "end", "cancelled"}]
        BY <3>1, <4>2
      <4>. QED
        BY <1>12, <4>1, <4>2 DEF Capture
    <3>. QED
      BY <1>12, <3>2 DEF Capture, os, TypeOK
  <2>2. Pipes'
    <3>1. /\ captured \in [Streams -> Nat] /\ written \in [Streams -> Nat]
          /\ reader \in [Streams -> {"reading", "full", "end", "cancelled"}]
      BY DEF TypeOK
    <3>2. written' = written /\ reader[s] = "reading"
      BY <1>12 DEF Capture, os
    <3>3. ASSUME NEW q \in Streams
          PROVE  /\ captured[q] <= Size[q] /\ captured[q] <= written[q]
                 /\ written[q] <= captured[q] + PipeSize
                 /\ reader[q] = "full" <=> captured[q] = Size[q]
                 /\ written[q] \in Nat /\ captured[q] \in Nat
                 /\ Size[q] \in Nat /\ PipeSize \in Nat
      <4>1. /\ captured[q] <= Size[q] /\ captured[q] <= written[q]
            /\ written[q] <= captured[q] + PipeSize
            /\ reader[q] = "full" <=> captured[q] = Size[q]
        BY DEF TypeOK, Pipes
      <4>. QED
        BY <3>1, <4>1, ProcessAssumption
    <3>4. CASE UNCHANGED captured /\ reader' = [reader EXCEPT ![s] = "end"]
      BY <3>1, <3>2, <3>3, <3>4 DEF Pipes
    <3>5. ASSUME NEW n \in 1..(written[s] - captured[s]), captured[s] + n <= Size[s],
                 captured' = [captured EXCEPT ![s] = @ + n],
                 reader' = [reader EXCEPT ![s] = IF Full(s, captured[s] + n) THEN "full" ELSE @]
          PROVE  Pipes'
      <4>1. ASSUME NEW q \in Streams, q # s
            PROVE  captured'[q] = captured[q] /\ reader'[q] = reader[q]
        BY <3>1, <3>5, <4>1
      <4>2. /\ captured'[s] = captured[s] + n
            /\ reader'[s] = IF captured[s] + n = Size[s] THEN "full" ELSE "reading"
        BY <3>1, <3>2, <3>5 DEF Full
      <4>3. captured[s] + n <= written[s] /\ n \in Nat
        BY <3>3
      <4>4. /\ captured'[s] <= Size[s] /\ captured'[s] <= written[s]
            /\ written[s] <= captured'[s] + PipeSize
            /\ reader'[s] = "full" <=> captured'[s] = Size[s]
        BY <3>3, <3>5, <4>2, <4>3
      <4>. QED
        BY <3>2, <3>3, <4>1, <4>4 DEF Pipes
    <3>. QED
      BY <1>12, <3>4, <3>5 DEF Capture
  <2>3. Ended'
    <3>1. /\ captured \in [Streams -> Nat]
          /\ reader \in [Streams -> {"reading", "full", "end", "cancelled"}]
      BY DEF TypeOK
    <3>2. UNCHANGED <<written, process>> /\ reader[s] = "reading" /\ Started
      BY <1>12 DEF Capture, os
    <3>3. captured[s] # Size[s]
      BY <3>2 DEF TypeOK, Pipes
    <3>4. ASSUME NEW q \in Streams, reader'[q] = "end"
          PROVE  captured'[q] = written[q] /\ Started /\ Job = {}
      <4>1. CASE q # s
        <5>1. captured'[q] = captured[q] /\ reader'[q] = reader[q]
          BY <1>12, <3>1, <4>1 DEF Capture
        <5>. QED
          BY <3>4, <5>1 DEF Ended
      <4>2. CASE q = s
        BY <1>12, <3>1, <3>2, <3>3, <3>4, <4>2 DEF Capture
      <4>. QED
        BY <4>1, <4>2
    <3>. QED
      BY <3>2, <3>4 DEF Ended, Started, Job, Alive
  <2>4. Exited'
    BY <1>12, ProcessAssumption DEF Capture, Full, os, TypeOK, Exited, Started, Alive, Job
  <2>5. Blamed'
    BY <1>12, ProcessAssumption DEF Capture, Full, os, TypeOK, Blamed, Codes, Alive, Job
  <2>6. StatusIsTrue'
    BY <1>12, ProcessAssumption DEF Capture, Full, os, TypeOK, StatusIsTrue, Exited, Alive, Job
  <2>. QED
    BY <2>1, <2>2, <2>3, <2>4, <2>5, <2>6
<1>13. CASE Poll
  <2>1. TypeOK' \/ ~Pipes'
    BY <1>13, ProcessAssumption DEF Poll, os, tasks, TypeOK
  <2>2. Pipes'
    BY <1>13, ProcessAssumption DEF Poll, os, tasks, TypeOK, Pipes
  <2>3. Ended'
    BY <1>13, ProcessAssumption DEF Poll, os, tasks, TypeOK, Pipes, Ended, Started, Alive, Job
  <2>4. Exited'
    BY <1>13, ProcessAssumption DEF Poll, os, tasks, TypeOK, Exited, Started, Alive, Job
  <2>5. Blamed'
    BY <1>13, ProcessAssumption DEF Poll, os, tasks, TypeOK, Blamed, Codes, Alive, Job
  <2>6. StatusIsTrue'
    BY <1>13, ProcessAssumption DEF Poll, os, tasks, TypeOK, StatusIsTrue, Exited, Alive, Job
  <2>. QED
    BY <2>1, <2>2, <2>3, <2>4, <2>5, <2>6
<1>14. CASE Decide
  <2>1. TypeOK' \/ ~Pipes'
    <3>1. process' \in [{"main", "child"} -> {"not started", "alive", "dead"}]
      BY <1>14 DEF Decide, Kill, os, TypeOK
    <3>2. exitCode' \in Codes /\ took' \in Times
      BY <1>14 DEF Decide, Kill, os, TypeOK, Codes
    <3>. QED
      BY <1>14, <3>1, <3>2 DEF Decide, Kill, os, tasks, TypeOK
  <2>2. Pipes'
    BY <1>14, ProcessAssumption DEF Decide, OverLimits, Kill, os, tasks, TypeOK, Pipes
  <2>3. Ended'
    <3>1. UNCHANGED <<captured, reader, written>>
      BY <1>14 DEF Decide, Kill, os, tasks
    <3>2. Started => Started'
      BY <1>14 DEF Decide, Kill, os, TypeOK, Started
    <3>3. Job = {} => Job' = {}
      BY <1>14 DEF Decide, Kill, os, TypeOK, Job, Alive
    <3>. QED
      BY <3>1, <3>2, <3>3 DEF Ended
  <2>4. Exited'
    BY <1>14, ProcessAssumption DEF Decide, OverLimits, Kill, os, tasks, TypeOK, Exited, Started, Alive, Job
  <2>5. Blamed'
    BY <1>14, ProcessAssumption DEF Decide, OverLimits, Kill, os, tasks, TypeOK, Blamed, Codes, Alive, Job
  <2>6. StatusIsTrue'
    BY <1>14, ProcessAssumption DEF Decide, OverLimits, Kill, os, tasks, TypeOK, StatusIsTrue, Exited, Alive, Job
  <2>. QED
    BY <2>1, <2>2, <2>3, <2>4, <2>5, <2>6
<1>15. CASE Stop
  <2>1. TypeOK' \/ ~Pipes'
    BY <1>15, ProcessAssumption DEF Stop, os, TypeOK
  <2>2. Pipes'
    BY <1>15, ProcessAssumption DEF Stop, os, TypeOK, Pipes
  <2>3. Ended'
    BY <1>15, ProcessAssumption DEF Stop, os, TypeOK, Pipes, Ended, Started, Alive, Job
  <2>4. Exited'
    BY <1>15, ProcessAssumption DEF Stop, os, TypeOK, Exited, Started, Alive, Job
  <2>5. Blamed'
    BY <1>15, ProcessAssumption DEF Stop, os, TypeOK, Blamed, Codes, Alive, Job
  <2>6. StatusIsTrue'
    BY <1>15, ProcessAssumption DEF Stop, os, TypeOK, StatusIsTrue, Exited, Alive, Job
  <2>. QED
    BY <2>1, <2>2, <2>3, <2>4, <2>5, <2>6
<1>16. CASE Cancelled
  <2>1. TypeOK' \/ ~Pipes'
    BY <1>16, ProcessAssumption DEF Cancelled, os, TypeOK
  <2>2. Pipes'
    BY <1>16, ProcessAssumption DEF Cancelled, os, TypeOK, Pipes
  <2>3. Ended'
    BY <1>16, ProcessAssumption DEF Cancelled, os, TypeOK, Pipes, Ended, Started, Alive, Job
  <2>4. Exited'
    BY <1>16, ProcessAssumption DEF Cancelled, os, TypeOK, Exited, Started, Alive, Job
  <2>5. Blamed'
    BY <1>16, ProcessAssumption DEF Cancelled, os, TypeOK, Blamed, Codes, Alive, Job
  <2>6. StatusIsTrue'
    BY <1>16, ProcessAssumption DEF Cancelled, os, TypeOK, StatusIsTrue, Exited, Alive, Job
  <2>. QED
    BY <2>1, <2>2, <2>3, <2>4, <2>5, <2>6
<1>17. CASE Answer
  <2>1. TypeOK' \/ ~Pipes'
    BY <1>17, ProcessAssumption DEF Answer, Kill, os, Alive, Codes, Times, TypeOK, Status, Statuses, Limits
  <2>2. Pipes'
    BY <1>17, ProcessAssumption DEF Answer, Kill, os, TypeOK, Pipes
  <2>3. Ended'
    BY <1>17, ProcessAssumption DEF Answer, Kill, os, TypeOK, Pipes, Ended, Started, Alive, Job
  <2>4. Exited'
    BY <1>17, ProcessAssumption DEF Answer, Kill, os, TypeOK, Exited, Started, Alive, Job
  <2>5. Blamed'
    BY <1>17 DEF Answer, Kill, Blamed, Exited, Alive
  <2>6. StatusIsTrue'
    <3>1. CASE UNCHANGED status
      BY <1>17, <3>1 DEF Answer, TypeOK, StatusIsTrue
    <3>2. CASE status' = Status /\ \A s \in Streams : reader[s] # "cancelled"
      <4>1. UNCHANGED <<exitCode, took, captured, written, used>> /\ Job' = {}
        BY <1>17 DEF Answer, Kill, Exited, TypeOK, Job, Alive
      <4>2. ASSUME Status \in {"completed", "error"}
            PROVE  /\ captured = written
                   /\ "user time" \notin used /\ took = "in time"
        <5>1. \A s \in Streams : reader[s] = "end"
          BY <1>17, <3>2, <4>2, ProcessAssumption DEF Answer, Status, TypeOK
        <5>2. \A s \in Streams : captured[s] = written[s]
          BY <5>1 DEF Ended
        <5>3. captured \in [Streams -> Nat] /\ written \in [Streams -> Nat]
          BY DEF TypeOK
        <5>4. captured = written
          BY <5>2, <5>3
        <5>. QED
          BY <4>2, <5>4 DEF Status, TypeOK, Times
      <4>3. Status = "completed" => exitCode = "zero"
        BY DEF Status
      <4>4. Status = "error" => exitCode = "own"
        BY <4>2 DEF Status, Blamed, TypeOK, Codes
      <4>. QED
        BY <3>2, <4>1, <4>2, <4>3, <4>4 DEF StatusIsTrue
    <3>. QED
      BY <1>17, <3>1, <3>2 DEF Answer
  <2>. QED
    BY <2>1, <2>2, <2>3, <2>4, <2>5, <2>6
<1>18. CASE UNCHANGED vars
  <2>1. TypeOK' \/ ~Pipes'
    BY <1>18, ProcessAssumption DEF vars, os, TypeOK
  <2>2. Pipes'
    BY <1>18, ProcessAssumption DEF vars, os, TypeOK, Pipes
  <2>3. Ended'
    BY <1>18, ProcessAssumption DEF vars, os, TypeOK, Pipes, Ended, Started, Alive, Job
  <2>4. Exited'
    BY <1>18, ProcessAssumption DEF vars, os, TypeOK, Exited, Started, Alive, Job
  <2>5. Blamed'
    BY <1>18, ProcessAssumption DEF vars, os, TypeOK, Blamed, Codes, Alive, Job
  <2>6. StatusIsTrue'
    BY <1>18, ProcessAssumption DEF vars, os, TypeOK, StatusIsTrue, Exited, Alive, Job
  <2>. QED
    BY <2>1, <2>2, <2>3, <2>4, <2>5, <2>6
<1>. QED
  BY <1>1, <1>2, <1>3, <1>4, <1>5, <1>6, <1>7, <1>8, <1>9, <1>10, <1>11, <1>12, <1>13, <1>14, <1>15, <1>16, <1>17, <1>18 DEF Next, Program

LEMMA AlwaysInv == Spec => []Inv
  BY InvInit, InvNext, PTL DEF Spec

(* No more than a buffer holds is captured, nothing that was not written,  *)
(* and there is a status when there is an answer.                          *)
THEOREM TypeCorrect == Spec => []TypeOK
  BY AlwaysInv, PTL DEF Inv

(* "Completed" is said of a program that exited in time, all of whose      *)
(* output was captured and that left nobody behind; "error" only of one    *)
(* that nobody terminated.                                                 *)
THEOREM StatusCorrect == Spec => []StatusIsTrue
  BY AlwaysInv, PTL DEF Inv
==============================================================================

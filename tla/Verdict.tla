-------------------------------- MODULE Verdict --------------------------------
(***************************************************************************)
(* How one submission is judged: the tests and their scores as an import   *)
(* leaves them (ProblemArchive, ContestProblemService), the run over the   *)
(* tests with its second chances (CheckerService.Check), the status code   *)
(* that the result is packed into, and what the pages read back from it    *)
(* (CheckStatusCodes).  One problem of one contest, whose submissions are  *)
(* judged one after the other.                                             *)
(***************************************************************************)
EXTENDS Integers, Sequences, FiniteSets, FiniteSetsExt

CONSTANTS
  FileNumbers,     \* numbers in the names of an archive's files
  Marks,           \* scores a manifest may give to a test
  IntMax,          \* the largest int
  RunnerStatuses,  \* what a runner reports of a command
  NoScore          \* null

(* The thousands of a failure's status code.                               *)
Thousands == [WrongAnswer |-> 1, TimeLimit |-> 2, RuntimeError |-> 3,
              PresentationError |-> 4, IdlenessLimit |-> 5, MemoryLimit |-> 6]
Failures == DOMAIN Thousands
Outcomes == Failures \cup {"Accepted"}
Codes == {2} \cup (-6999..-1001)

(* What CheckTest makes of a runner's status; of "Completed", the checker  *)
(* of the problem decides.                                                 *)
FailureOf == [UserTimeLimit |-> "TimeLimit", TotalTimeLimit |-> "IdlenessLimit",
              MemoryLimit |-> "MemoryLimit", StdoutLimit |-> "PresentationError",
              StderrLimit |-> "PresentationError", Error |-> "RuntimeError"]
CheckerAnswers == {"Accepted", "WrongAnswer", "PresentationError"}

ASSUME VerdictAssumption ==
  /\ FileNumbers \subseteq Nat /\ Marks \subseteq Nat
  /\ RunnerStatuses \subseteq DOMAIN FailureOf \cup {"Completed"}
  /\ IntMax \in Nat /\ IntMax >= 100
  /\ NoScore \notin Int

VARIABLES
  school,      \* Contest.IsSchool: its abbreviation starts with "school"
  tests,       \* the problem's tests, in the order of their numbers
  shared,      \* whether the import shared 100 between the tests
  pc,          \* "idle", "compiling", "testing", "reporting", "judged", "thrown"
  allTests,    \* CheckRequest.AllTests
  results,     \* testResults
  counter,     \* runs of the current test so far
  statusCode,  \* the code of the first failure so far
  row,         \* status code and score of the submission
  runs         \* history: test and outcome of each execution in this check

vars == <<school, tests, shared, pc, allTests, results, counter, statusCode, row, runs>>

Tests == [number : Nat, score : Nat \cup {NoScore}]
Rows == [statusCode : Codes \cup {-1, 0, 1}, score : Nat \cup {NoScore}]

TypeOK ==
  /\ school \in BOOLEAN /\ shared \in BOOLEAN /\ allTests \in BOOLEAN
  /\ tests \in Seq(Tests)
  /\ pc \in {"idle", "compiling", "testing", "reporting", "judged", "thrown"}
  /\ results \in Seq(Outcomes)
  /\ pc = "testing" => Len(results) < Len(tests)
  /\ counter \in 0..1
  /\ statusCode \in Codes
  /\ row \in Rows
  /\ runs \in Seq([test : Nat, outcome : Outcomes])

(* A contest without this problem.                                         *)
Init ==
  /\ school \in BOOLEAN
  /\ tests = <<>> /\ shared = FALSE
  /\ pc = "idle" /\ allTests = FALSE
  /\ results = <<>> /\ counter = 0 /\ statusCode = 2
  /\ row = [statusCode |-> 0, score |-> NoScore]
  /\ runs = <<>>

-----------------------------------------------------------------------------
(***************************************************************************)
(* Import.  An archive has a set of test numbers, of which the first       *)
(* "open" are examples, and either scores for some of them or NoScore.     *)
(* Variants with a plausible mistake stand before the definitions they     *)
(* replace in the project's mutation runs, named for the mistake.          *)
(***************************************************************************)
SmallScores(scores) == SumFunction(scores) <= IntMax

AcceptableUnnumbered(numbers, open, scores) ==
  /\ numbers # {} /\ open <= Cardinality(numbers)
  /\ scores # NoScore => DOMAIN scores \subseteq numbers /\ SmallScores(scores)

(* What ReadAsync lets pass.                                               *)
Acceptable(numbers, open, scores) ==
  /\ numbers # {} /\ numbers \subseteq 1..999 /\ open <= Cardinality(numbers)
  /\ scores # NoScore => DOMAIN scores \subseteq numbers /\ SmallScores(scores)

ShareOffByOne(i, count, open) ==
  LET closed == count - open
  IN IF i <= open THEN 0
     ELSE (100 \div closed) + (IF i >= count - (100 % closed) THEN 1 ELSE 0)

(* Closed tests share 100; the last ones get one more if need be.          *)
Share(i, count, open) ==
  LET closed == count - open
  IN IF i <= open THEN 0
     ELSE (100 \div closed) + (IF i > count - (100 % closed) THEN 1 ELSE 0)

InOrder(numbers) ==
  [i \in 1..Cardinality(numbers) |->
     CHOOSE n \in numbers : Cardinality({k \in numbers : k < n}) = i - 1]

ScoreOf(i, numbers, open, scores) ==
  LET n == InOrder(numbers)[i]
  IN CASE scores # NoScore -> IF n \in DOMAIN scores THEN scores[n] ELSE 0
       [] scores = NoScore /\ school -> Share(i, Cardinality(numbers), open)
       [] OTHER -> NoScore

Import(numbers, open, scores) ==
  /\ pc = "idle"
  /\ Acceptable(numbers, open, scores)
  /\ school /\ scores = NoScore => open # Cardinality(numbers)
  /\ tests' = [i \in 1..Cardinality(numbers) |->
                 [number |-> InOrder(numbers)[i], score |-> ScoreOf(i, numbers, open, scores)]]
  /\ shared' = (school /\ scores = NoScore)
  /\ UNCHANGED <<school, pc, allTests, results, counter, statusCode, row, runs>>

(* The contest's abbreviation is edited.                                   *)
EditContest ==
  /\ pc = "idle"
  /\ school' = ~school
  /\ UNCHANGED <<tests, shared, pc, allTests, results, counter, statusCode, row, runs>>

-----------------------------------------------------------------------------
(***************************************************************************)
(* CheckerService.Check.                                                   *)
(***************************************************************************)
BeginCheck ==
  /\ pc = "idle" /\ tests # <<>>
  /\ pc' = "compiling"
  /\ allTests' = school
  /\ row' = [row EXCEPT !.statusCode = 1]
  /\ UNCHANGED <<school, tests, shared, results, counter, statusCode, runs>>

Compile(success) ==
  /\ pc = "compiling"
  /\ IF success THEN pc' = "testing" /\ UNCHANGED row
                ELSE pc' = "judged" /\ row' = [statusCode |-> -1, score |-> NoScore]
  /\ UNCHANGED <<school, tests, shared, allTests, results, counter, statusCode, runs>>

HasCode(number) == number > 0 /\ number < 1000
MakeStatusCode(status, number) == -1000 * Thousands[status] - number

CheckTest(status, answer) == IF status = "Completed" THEN answer ELSE FailureOf[status]

RunsAgainTwice(outcome) == outcome \in {"TimeLimit", "MemoryLimit"} /\ counter + 1 < 3
RunsAgainForTime(outcome) == outcome = "TimeLimit" /\ counter + 1 < 2
RunsAgain(outcome) == outcome \in {"TimeLimit", "MemoryLimit"} /\ counter + 1 < 2

IsAnyFailure(outcome) == outcome # "Accepted"
IsFirstFailure(outcome) == outcome # "Accepted" /\ statusCode = 2

StopsAtAny(outcome) == outcome # "Accepted"
StopsAt(outcome) == outcome # "Accepted" /\ ~allTests

(* One execution of the current test.  The same test runs once more when   *)
(* it took too much time or memory.                                        *)
Execute(outcome) ==
  /\ pc = "testing"
  /\ runs' = Append(runs, [test |-> Len(results) + 1, outcome |-> outcome])
  /\ UNCHANGED <<school, tests, shared, allTests>>

RunAgain(outcome) ==
  /\ Execute(outcome)
  /\ RunsAgain(outcome)
  /\ counter' = counter + 1
  /\ UNCHANGED <<pc, results, statusCode, row>>

EndTest(outcome) ==
  LET number == tests[Len(results) + 1].number
      last == StopsAt(outcome) \/ Len(results) + 1 = Len(tests)
  IN
  /\ Execute(outcome)
  /\ ~RunsAgain(outcome)
  /\ counter' = 0
  /\ results' = Append(results, outcome)
  /\ IF IsFirstFailure(outcome) /\ ~HasCode(number)
       THEN /\ pc' = "thrown"
            /\ row' = [row EXCEPT !.statusCode = 0]
            /\ UNCHANGED statusCode
       ELSE /\ pc' = IF last THEN "reporting" ELSE "testing"
            /\ statusCode' = IF IsFirstFailure(outcome) THEN MakeStatusCode(outcome, number) ELSE statusCode
            /\ UNCHANGED row

RunTest(status, answer) ==
  LET outcome == CheckTest(status, answer) IN RunAgain(outcome) \/ EndTest(outcome)

NeedScores == \E i \in DOMAIN tests : tests[i].score # NoScore
Earned ==
  [i \in DOMAIN results |->
     IF results[i] = "Accepted" /\ tests[i].score # NoScore THEN tests[i].score ELSE 0]
Score == IF NeedScores THEN SumFunction(Earned) ELSE NoScore

(* The result is added up, saved to the row and to the history.            *)
Report ==
  /\ pc = "reporting"
  /\ IF Score # NoScore /\ Score > IntMax
       THEN pc' = "thrown" /\ row' = [row EXCEPT !.statusCode = 0]
       ELSE pc' = "judged" /\ row' = [statusCode |-> statusCode, score |-> Score]
  /\ UNCHANGED <<school, tests, shared, allTests, results, counter, statusCode, runs>>

(* A row waits in the queue, and nothing is left of the last check.        *)
Queue ==
  /\ row' = [statusCode |-> 0, score |-> NoScore]
  /\ pc' = "idle" /\ allTests' = FALSE
  /\ results' = <<>> /\ counter' = 0 /\ statusCode' = 2
  /\ runs' = <<>>
  /\ UNCHANGED <<school, tests, shared>>

(* Check throws because the runner is gone.                                *)
Abort == pc \in {"compiling", "testing"} /\ Queue

(* The submission is retested, or it is the turn of another one.           *)
Retest == pc \in {"judged", "thrown"} /\ Queue

-----------------------------------------------------------------------------
(***************************************************************************)
(* What the pages show of a status code.                                   *)
(***************************************************************************)
Template(code) ==
  CASE code = 2 -> "Accepted"
    [] code = -1 -> "CompilationError"
    [] code \in {0, 1} -> "Waiting"
    [] \E f \in Failures : code < -1000 * Thousands[f] /\ code > -1000 * (Thousands[f] + 1) ->
         CHOOSE f \in Failures : code < -1000 * Thousands[f] /\ code > -1000 * (Thousands[f] + 1)
    [] OTHER -> "InternalError"

TestNumber(code) == (-code) % 1000

-----------------------------------------------------------------------------
Scorings(numbers) == {NoScore} \cup UNION {[N -> Marks] : N \in SUBSET numbers}

Next ==
  \/ \E numbers \in SUBSET FileNumbers :
       \E open \in 0..Cardinality(numbers), scores \in Scorings(numbers) :
         Import(numbers, open, scores)
  \/ EditContest
  \/ BeginCheck
  \/ \E success \in BOOLEAN : Compile(success)
  \/ \E status \in RunnerStatuses, answer \in CheckerAnswers : RunTest(status, answer)
  \/ Report
  \/ Abort
  \/ Retest

Spec == Init /\ [][Next]_vars

-----------------------------------------------------------------------------
(***************************************************************************)
(* Correctness.                                                            *)
(***************************************************************************)
Tested == pc = "judged" /\ row.statusCode # -1

(* The outcome that counts for a test is that of its last execution.       *)
RunsOf(i) == {k \in DOMAIN runs : runs[k].test = i}
Final(i) == runs[Max(RunsOf(i))].outcome
Passed(i) == RunsOf(i) # {} /\ Final(i) = "Accepted"

(* A submission whose problem was imported is judged: no test number and   *)
(* no sum of scores makes Check throw, which would return the submission   *)
(* to the head of the queue, again and again.                              *)
NeverThrown == pc # "thrown"

(* The page names the status and the number of the first test that failed, *)
(* and says "Accepted" if and only if every test was passed.               *)
CodeNamesFirstFailure ==
  Tested =>
    LET failed == {i \in DOMAIN tests : RunsOf(i) # {} /\ ~Passed(i)}
    IN IF failed = {}
         THEN Template(row.statusCode) = "Accepted" /\ \A i \in DOMAIN tests : Passed(i)
         ELSE /\ Template(row.statusCode) = Final(Min(failed))
              /\ TestNumber(row.statusCode) = tests[Min(failed)].number

(* A test fails for time or memory only when it does so twice, and only    *)
(* such a test is run twice.  While a test is not settled it was run once  *)
(* at most, so no check goes on for ever.                                  *)
SecondChance ==
  \A i \in DOMAIN tests :
    LET greedy == {k \in RunsOf(i) : runs[k].outcome \in {"TimeLimit", "MemoryLimit"}}
    IN IF i \in DOMAIN results
         THEN /\ Final(i) \in {"TimeLimit", "MemoryLimit"} => Cardinality(greedy) = 2
              /\ Cardinality(RunsOf(i)) = IF Min(RunsOf(i)) \in greedy THEN 2 ELSE 1
         ELSE RunsOf(i) = greedy /\ Cardinality(greedy) <= 1

(* In a school contest every test is run.  In the others no test after the *)
(* first failure is, and all tests before it are.                          *)
RunsWhatCounts ==
  Tested => \A i \in DOMAIN tests :
    RunsOf(i) # {} <=> allTests \/ \A j \in 1..(i - 1) : Passed(j)

(* When an import shared 100 between the tests, a submission gets 100 if   *)
(* and only if it passes every test worth something, so that an accepted   *)
(* one always does; it gets no score if and only if nothing is scored.     *)
HundredIsEverything ==
  Tested =>
    /\ row.score = NoScore <=> \A i \in DOMAIN tests : tests[i].score = NoScore
    /\ shared => /\ row.score <= 100
                 /\ row.score = 100 <=> \A i \in DOMAIN tests : tests[i].score > 0 => Passed(i)
=============================================================================

----------------------------- MODULE CheckQueue -----------------------------
(***************************************************************************)
(* The submission queue of the contest site.  Submissions are rows of the  *)
(* database; CheckerManager runs one worker loop (Process) per connected   *)
(* runner.  A worker claims the oldest queued row, lets its runner judge   *)
(* the program, and saves the result.  Claims, saves, problem imports and  *)
(* retests take one semaphore, the gate; the judging itself does not.  A   *)
(* claim is a lease: a row that stays in "checking" for two minutes may be *)
(* claimed again, by a worker that cannot know whether the first one died. *)
(*                                                                         *)
(* Clock, texts and logs are left out: the age of a claim is the one bit   *)
(* "expired".  A status code is queued (0), checking (1) or one of three   *)
(* classes of verdict, the ones a retest tells apart.                      *)
(***************************************************************************)
EXTENDS Naturals

CONSTANTS
  Submissions,            \* rows a run may insert, numbered by CommitTime
  Problems,               \* the problems of one contest
  Compilators,            \* compiler records of the database
  Workers,                \* one per connected runner
  Operators,              \* administrators' requests that take the gate
  ProblemOf,              \* Submission.ProblemId
  CompilatorOf,           \* Submission.CompilatorId
  Offers,                 \* the compilers each worker's runner can run
  Scores, NoScore,        \* Submission.Score with its NULL
  Results,                \* what a finished check may return
  Nobody,                 \* a free gate
  None,                   \* no job, no operation, no check result
  ChecksMayOutliveLease,  \* may a check take longer than the two minutes?
  MaxImports,             \* bound: test versions of a problem
  MaxRequests,            \* bound: times one submission is asked to be judged
  MaxFaults               \* bound: crashes, disconnections and failed steps

Verdicts == {"accepted", "compilation_error", "failed"}
Pending == {"queued", "checking"}
Statuses == {"absent"} \cup Pending \cup Verdicts
RetestKinds == {"all", "except_accepted", "compilation_errors"}

Jobs == [sub : Submissions, score : Scores \cup {NoScore}, tests : Nat, request : Nat,
         status : Statuses, newScore : Scores \cup {NoScore}]
Operations == [kind : RetestKinds \cup {"import"}, problems : SUBSET Problems]
CheckResults == [status : Verdicts, score : Scores \cup {NoScore}, tests : Nat]

ASSUME SubmissionsAssumption ==
  /\ Submissions \subseteq Nat
  /\ ProblemOf \in [Submissions -> Problems]
  /\ CompilatorOf \in [Submissions -> Compilators]
ASSUME WorkersAssumption ==
  /\ Offers \in [Workers -> SUBSET Compilators]
  /\ Workers \cap Operators = {}
  /\ Nobody \notin Workers \cup Operators
ASSUME ResultsAssumption ==
  Results \subseteq [status : Verdicts, score : Scores \cup {NoScore}]
ASSUME NoneAssumption == None \notin Jobs \cup Operations \cup CheckResults
ASSUME BoundsAssumption ==
  /\ ChecksMayOutliveLease \in BOOLEAN
  /\ MaxImports \in Nat /\ MaxRequests \in Nat /\ MaxFaults \in Nat

VARIABLES
  row,        \* Submissions: status and score columns of each row
  expired,    \* rows whose claim is older than the lease
  latest,     \* CheckResults: the newest one of each submission
  recorded,   \* CheckResults: how many each submission has
  requested,  \* history: how often the submission was inserted or retested
  tests,      \* Tests of each problem, as the number of their version
  active,     \* Problem.IsActive
  enabled,    \* compiler records with IsActive
  posting,    \* web requests that validated a submission, not yet saved
  gate,       \* who holds _synchronizationSemaphore
  phase,      \* where each worker stands in Process and TryCheckFromDB
  known,      \* compilatorIds a worker read before entering the gate
  job,        \* the tracked entity and the check request of each worker
  op,         \* the import or retest an operator has begun
  faults      \* how many faults have happened

stored == <<row, expired, latest, recorded, requested, tests, active, enabled>>
memory == <<posting, gate, phase, known, job, op>>
vars == <<row, expired, latest, recorded, requested, tests, active, enabled,
          posting, gate, phase, known, job, op, faults>>

Judged(s) == row[s].status \in Verdicts
Checking(s) == row[s].status = "checking"

(* Variants with a plausible mistake stand before the definitions they     *)
(* replace in the project's mutation runs, named for the mistake.          *)
ClaimableAtAnyAge(s) == row[s].status \in Pending
ClaimableOnce(s) == row[s].status = "queued"
Claimable(s) == row[s].status = "queued" \/ (Checking(s) /\ s \in expired)

(* A worker has claimed s and has not yet saved what became of it.         *)
InFlight(w, s) == phase[w] \in {"checking", "saving"} /\ job[w].sub = s

SubmissionsOf(P) == {s \in Submissions : ProblemOf[s] \in P}
IdleIfUnqueued(P) == \A s \in SubmissionsOf(P) : row[s].status # "queued"
Idle(P) == \A s \in SubmissionsOf(P) : ~Checking(s)

Fault == faults < MaxFaults /\ faults' = faults + 1

TypeOK ==
  /\ row \in [Submissions -> [status : Statuses, score : Scores \cup {NoScore}]]
  /\ expired \subseteq Submissions
  /\ latest \in [Submissions -> CheckResults \cup {None}]
  /\ recorded \in [Submissions -> Nat]
  /\ requested \in [Submissions -> Nat]
  /\ tests \in [Problems -> Nat]
  /\ active \in [Problems -> BOOLEAN]
  /\ enabled \subseteq Compilators
  /\ posting \subseteq Submissions
  /\ gate \in Workers \cup Operators \cup {Nobody}
  /\ phase \in [Workers -> {"off", "ready", "claiming", "selected", "checking", "saving"}]
  /\ known \in [Workers -> SUBSET Compilators]
  /\ job \in [Workers -> Jobs \cup {None}]
  /\ \A w \in Workers : phase[w] \in {"selected", "checking", "saving"} => job[w] \in Jobs
  /\ op \in [Operators -> Operations \cup {None}]
  /\ faults \in Nat

(***************************************************************************)
(* A database with problems, some of them without tests or switched off,   *)
(* and no submission; the site has just started.                           *)
(***************************************************************************)
Init ==
  /\ row = [s \in Submissions |-> [status |-> "absent", score |-> NoScore]]
  /\ expired = {}
  /\ latest = [s \in Submissions |-> None]
  /\ recorded = [s \in Submissions |-> 0]
  /\ requested = [s \in Submissions |-> 0]
  /\ tests \in [Problems -> {0, 1}]
  /\ active \in [Problems -> BOOLEAN]
  /\ enabled = Compilators
  /\ posting = {}
  /\ gate = Nobody
  /\ phase = [w \in Workers |-> "off"]
  /\ known = [w \in Workers |-> {}]
  /\ job = [w \in Workers |-> None]
  /\ op = [o \in Operators |-> None]
  /\ faults = 0

-----------------------------------------------------------------------------
(***************************************************************************)
(* Submitting.  The page loads the active problems and compilers, checks   *)
(* the form against them and inserts the row later, without the gate: by   *)
(* then the problem may be inactive.                                       *)
(***************************************************************************)
ValidatePost(s) ==
  /\ row[s].status = "absent" /\ s \notin posting
  /\ active[ProblemOf[s]]
  /\ CompilatorOf[s] \in enabled
  /\ posting' = posting \cup {s}
  /\ UNCHANGED <<stored, gate, phase, known, job, op, faults>>

RequeuedWithScore(s) == [status |-> "queued", score |-> row[s].score]
Requeued(s) == [status |-> "queued", score |-> NoScore]

InsertSubmission(s) ==
  /\ s \in posting
  /\ posting' = posting \ {s}
  /\ row' = [row EXCEPT ![s] = Requeued(s)]
  /\ requested' = [requested EXCEPT ![s] = 1]
  /\ UNCHANGED <<expired, latest, recorded, tests, active, enabled,
                 gate, phase, known, job, op, faults>>

-----------------------------------------------------------------------------
(***************************************************************************)
(* The worker loop.                                                        *)
(***************************************************************************)

(* Process: the compilers are loaded and the self-tests pass.              *)
StartWorker(w) ==
  /\ phase[w] = "off"
  /\ phase' = [phase EXCEPT ![w] = "ready"]
  /\ UNCHANGED <<stored, posting, gate, known, job, op, faults>>

(* The runner disconnects, or a step fails, while nothing is claimed.      *)
StopWorker(w) ==
  /\ phase[w] \in {"ready", "claiming"}
  /\ Fault
  /\ phase' = [phase EXCEPT ![w] = "off"]
  /\ UNCHANGED <<stored, posting, gate, known, job, op>>

(* TryCheckFromDB before the gate: without a usable compiler it returns    *)
(* false and the loop waits.                                               *)
ReadCompilators(w) ==
  /\ phase[w] = "ready"
  /\ enabled \cap Offers[w] # {}
  /\ known' = [known EXCEPT ![w] = enabled \cap Offers[w]]
  /\ phase' = [phase EXCEPT ![w] = "claiming"]
  /\ UNCHANGED <<stored, posting, gate, job, op, faults>>

Eligible(w) ==
  {s \in Submissions :
     /\ Claimable(s)
     /\ active[ProblemOf[s]] /\ CompilatorOf[s] \in known[w]
     /\ tests[ProblemOf[s]] > 0}

NothingToCheck(w) ==
  /\ phase[w] = "claiming" /\ gate = Nobody
  /\ Eligible(w) = {}
  /\ phase' = [phase EXCEPT ![w] = "ready"]
  /\ UNCHANGED <<stored, posting, gate, known, job, op, faults>>

(* The query inside the gate: it loads the oldest eligible row with its    *)
(* score and the tests of its problem.                                     *)
SelectSubmission(w, s) ==
  /\ phase[w] = "claiming" /\ gate = Nobody
  /\ s \in Eligible(w) /\ \A t \in Eligible(w) : s <= t
  /\ gate' = w
  /\ phase' = [phase EXCEPT ![w] = "selected"]
  /\ job' = [job EXCEPT ![w] = [sub |-> s, score |-> row[s].score,
                                tests |-> tests[ProblemOf[s]], request |-> requested[s],
                                status |-> "checking", newScore |-> row[s].score]]
  /\ UNCHANGED <<stored, posting, known, op, faults>>

ClaimRowKeepingTime(s) ==
  /\ Claimable(s)
  /\ row' = [row EXCEPT ![s].status = "checking"]
  /\ UNCHANGED <<expired, latest, recorded, requested, tests, active, enabled>>

(* The conditional update of the row; a claim renews the lease.            *)
ClaimRow(s) ==
  /\ Claimable(s)
  /\ row' = [row EXCEPT ![s].status = "checking"]
  /\ expired' = expired \ {s}
  /\ UNCHANGED <<latest, recorded, requested, tests, active, enabled>>

ClaimSubmission(w) ==
  /\ phase[w] = "selected"
  /\ ClaimRow(job[w].sub)
  /\ phase' = [phase EXCEPT ![w] = "checking"]
  /\ gate' = Nobody
  /\ UNCHANGED <<posting, known, job, op, faults>>

(* The update fails or is cancelled, before or after the database has      *)
(* committed it: the worker forgets the row either way.                    *)
ClaimInterrupted(w) ==
  /\ phase[w] = "selected"
  /\ Fault
  /\ ClaimRow(job[w].sub) \/ UNCHANGED stored
  /\ phase' = [phase EXCEPT ![w] = "off"]
  /\ job' = [job EXCEPT ![w] = None]
  /\ gate' = Nobody
  /\ UNCHANGED <<posting, known, op>>

(* The runner answered: the tracked entity takes status and score.         *)
FinishCheck(w, r) ==
  /\ phase[w] = "checking"
  /\ job' = [job EXCEPT ![w].status = r.status, ![w].newScore = r.score]
  /\ phase' = [phase EXCEPT ![w] = "saving"]
  /\ UNCHANGED <<stored, posting, gate, known, op, faults>>

(* The check throws or is cancelled: the submission goes back to the queue.*)
FailCheck(w) ==
  /\ phase[w] = "checking"
  /\ Fault
  /\ job' = [job EXCEPT ![w].status = "queued"]
  /\ phase' = [phase EXCEPT ![w] = "saving"]
  /\ UNCHANGED <<stored, posting, gate, known, op>>

SavedStatusOnly(j) == [status |-> j.status, score |-> row[j.sub].score]

(* SaveChanges writes the columns that differ from the loaded entity, by   *)
(* primary key alone: an unchanged score is left as the row has it.        *)
SavedRow(j) ==
  [status |-> j.status,
   score |-> IF j.newScore = j.score THEN row[j.sub].score ELSE j.newScore]

SaveOutcome(w) ==
  LET j == job[w] IN
  /\ phase[w] = "saving" /\ gate = Nobody
  /\ row' = [row EXCEPT ![j.sub] = SavedRow(j)]
  /\ IF j.status \in Verdicts
       THEN /\ latest' = [latest EXCEPT ![j.sub] =
                            [status |-> j.status, score |-> j.newScore, tests |-> j.tests]]
            /\ recorded' = [recorded EXCEPT ![j.sub] = @ + 1]
            /\ phase' = [phase EXCEPT ![w] = "ready"]
       ELSE /\ phase' = [phase EXCEPT ![w] = "off"]
            /\ UNCHANGED <<latest, recorded>>
  /\ expired' = expired \ {j.sub}
  /\ job' = [job EXCEPT ![w] = None]
  /\ UNCHANGED <<requested, tests, active, enabled, posting, gate, known, op, faults>>

SaveRetried(w) ==
  /\ phase[w] = "saving" /\ gate = Nobody
  /\ Fault
  /\ job' = [job EXCEPT ![w] = None]
  /\ UNCHANGED <<stored, posting, gate, phase, known, op>>

(* The database refuses the save: the row stays in "checking".             *)
SaveInterrupted(w) ==
  /\ phase[w] = "saving" /\ gate = Nobody
  /\ Fault
  /\ phase' = [phase EXCEPT ![w] = "off"]
  /\ job' = [job EXCEPT ![w] = None]
  /\ UNCHANGED <<stored, posting, gate, known, op>>

(* Two minutes pass.  Unless checks may outlive the lease, by then every   *)
(* worker that had claimed the row has finished or died.                   *)
LeaseExpires(s) ==
  /\ Checking(s) /\ s \notin expired
  /\ ChecksMayOutliveLease \/ \A w \in Workers : ~InFlight(w, s)
  /\ expired' = expired \cup {s}
  /\ UNCHANGED <<row, latest, recorded, requested, tests, active, enabled, memory, faults>>

-----------------------------------------------------------------------------
(***************************************************************************)
(* Administrators.  Each operation enters the gate, checks that none of    *)
(* its problems has a row in "checking", and then changes the database in  *)
(* one transaction.                                                        *)
(***************************************************************************)
Enter(o, kind, P) ==
  /\ gate = Nobody
  /\ Idle(P)
  /\ gate' = o
  /\ op' = [op EXCEPT ![o] = [kind |-> kind, problems |-> P]]
  /\ UNCHANGED <<stored, posting, phase, known, job, faults>>

WithinRequests(P) == \A s \in SubmissionsOf(P) : requested[s] < MaxRequests

BeginRetest(o, p, kind) ==
  /\ kind \in {"all", "except_accepted"}
  /\ active[p]
  /\ WithinRequests({p})
  /\ Enter(o, kind, {p})

BeginRetestCompilationErrors(o) ==
  LET P == {p \in Problems : active[p]} IN
  /\ WithinRequests(P)
  /\ Enter(o, "compilation_errors", P)

BeginImport(o, P) ==
  /\ P # {}
  /\ \A p \in P : tests[p] < MaxImports
  /\ Enter(o, "import", P)

RetestedUnjudged(s, x) ==
  /\ ProblemOf[s] \in x.problems
  /\ row[s].status # "absent"
  /\ x.kind = "except_accepted" => row[s].status # "accepted"
  /\ x.kind = "compilation_errors" => row[s].status = "compilation_error"

Retested(s, x) ==
  /\ ProblemOf[s] \in x.problems
  /\ Judged(s)
  /\ x.kind = "except_accepted" => row[s].status # "accepted"
  /\ x.kind = "compilation_errors" => row[s].status = "compilation_error"

CommitRetest(o) ==
  /\ op[o] # None /\ op[o].kind \in RetestKinds
  /\ row' = [s \in Submissions |-> IF Retested(s, op[o]) THEN Requeued(s) ELSE row[s]]
  /\ requested' = [s \in Submissions |-> IF Retested(s, op[o]) THEN requested[s] + 1
                                                               ELSE requested[s]]
  /\ gate' = Nobody
  /\ op' = [op EXCEPT ![o] = None]
  /\ UNCHANGED <<expired, latest, recorded, tests, active, enabled,
                 posting, phase, known, job, faults>>

(* An import replaces the tests of its problems and sets IsActive from     *)
(* each manifest; submissions and their verdicts stay.                     *)
CommitImport(o, isActive) ==
  /\ op[o] # None /\ op[o].kind = "import"
  /\ tests' = [p \in Problems |-> IF p \in op[o].problems THEN tests[p] + 1 ELSE tests[p]]
  /\ active' = [p \in Problems |-> IF p \in op[o].problems THEN isActive[p] ELSE active[p]]
  /\ gate' = Nobody
  /\ op' = [op EXCEPT ![o] = None]
  /\ UNCHANGED <<row, expired, latest, recorded, requested, enabled,
                 posting, phase, known, job, faults>>

(* A later check of the operation fails, or the request is cancelled.      *)
AbandonOperation(o) ==
  /\ op[o] # None
  /\ gate' = Nobody
  /\ op' = [op EXCEPT ![o] = None]
  /\ UNCHANGED <<stored, posting, phase, known, job, faults>>

(* AddCompilators enables what a self-tested runner offers.                *)
AddCompilators(w) ==
  /\ gate = Nobody
  /\ phase[w] # "off"
  /\ enabled' = enabled \cup Offers[w]
  /\ UNCHANGED <<row, expired, latest, recorded, requested, tests, active, memory, faults>>

(* DisableCompilatorsWithoutRunner keeps what the self-tested checkers     *)
(* offer.  Module RunnerRegistry says which checkers those are; here they  *)
(* are the working ones and any of the others.                             *)
DisableCompilators(tested) ==
  /\ gate = Nobody
  /\ {w \in Workers : phase[w] # "off"} \subseteq tested
  /\ enabled' = enabled \cap UNION {Offers[w] : w \in tested}
  /\ UNCHANGED <<row, expired, latest, recorded, requested, tests, active, memory, faults>>

(* The site's process dies and starts again: only the database survives.   *)
Crash ==
  /\ Fault
  /\ posting' = {}
  /\ gate' = Nobody
  /\ phase' = [w \in Workers |-> "off"]
  /\ known' = [w \in Workers |-> {}]
  /\ job' = [w \in Workers |-> None]
  /\ op' = [o \in Operators |-> None]
  /\ UNCHANGED stored

-----------------------------------------------------------------------------
WorkerStep(w) ==
  \/ StartWorker(w)
  \/ StopWorker(w)
  \/ ReadCompilators(w)
  \/ NothingToCheck(w)
  \/ \E s \in Submissions : SelectSubmission(w, s)
  \/ ClaimSubmission(w)
  \/ ClaimInterrupted(w)
  \/ \E r \in Results : FinishCheck(w, r)
  \/ FailCheck(w)
  \/ SaveOutcome(w)
  \/ SaveInterrupted(w)

OperatorStep(o) ==
  \/ \E p \in Problems, kind \in RetestKinds : BeginRetest(o, p, kind)
  \/ BeginRetestCompilationErrors(o)
  \/ \E P \in SUBSET Problems : BeginImport(o, P)
  \/ CommitRetest(o)
  \/ \E isActive \in [Problems -> BOOLEAN] : CommitImport(o, isActive)
  \/ AbandonOperation(o)

Next ==
  \/ \E s \in Submissions : ValidatePost(s) \/ InsertSubmission(s) \/ LeaseExpires(s)
  \/ \E w \in Workers : WorkerStep(w)
  \/ \E o \in Operators : OperatorStep(o)
  \/ \E w \in Workers : AddCompilators(w)
  \/ \E tested \in SUBSET Workers : DisableCompilators(tested)
  \/ Crash

Spec == Init /\ [][Next]_vars

(***************************************************************************)
(* Fairness.  Every loop runs on; a request that holds the gate ends and   *)
(* frees it; SemaphoreSlim hands the gate to its waiters in turn, so       *)
(* nobody waits forever while it keeps being freed (strong fairness of the *)
(* steps that enter it).  Nothing is assumed of checks, which runners do.  *)
(***************************************************************************)
Claim(w) == NothingToCheck(w) \/ \E s \in Submissions : SelectSubmission(w, s)
Commit(o) == CommitRetest(o) \/ \E isActive \in [Problems -> BOOLEAN] : CommitImport(o, isActive)

Fairness ==
  /\ \A w \in Workers :
       /\ WF_vars(StartWorker(w)) /\ WF_vars(ReadCompilators(w))
       /\ SF_vars(Claim(w)) /\ WF_vars(ClaimSubmission(w))
       /\ SF_vars(SaveOutcome(w))
  /\ \A s \in Submissions : WF_vars(LeaseExpires(s))
  /\ \A o \in Operators : WF_vars(Commit(o))

FairSpec == Spec /\ Fairness

-----------------------------------------------------------------------------
(***************************************************************************)
(* Correctness.                                                            *)
(***************************************************************************)

(* A row in "checking" always belongs to an active problem with tests, so  *)
(* that it can be claimed again if its worker is lost: imports and claims  *)
(* meet in the gate, and an import refuses a busy problem.                 *)
ActiveWhileChecking ==
  \A s \in Submissions : Checking(s) => active[ProblemOf[s]] /\ tests[ProblemOf[s]] > 0

(* One worker judges a submission at a time, and while it does the row     *)
(* says so and cannot be claimed again (TryCheckFromDB).                   *)
ExclusiveCheck ==
  \A w \in Workers, s \in Submissions :
    InFlight(w, s) => /\ Checking(s) /\ s \notin expired
                      /\ \A v \in Workers : InFlight(v, s) => v = w

(* A check in flight runs on the tests its problem has now and answers the *)
(* latest request to judge: no import or retest overtakes it.              *)
FreshCheck ==
  \A w \in Workers, s \in Submissions :
    InFlight(w, s) => /\ job[w].tests = tests[ProblemOf[s]]
                      /\ job[w].request = requested[s]

(* While an import or a retest holds the gate none of its problems is      *)
(* being judged anywhere: what EnsureIdleAsync is there to establish.      *)
NoChangeUnderCheck ==
  \A o \in Operators, w \in Workers, s \in Submissions :
    op[o] # None /\ InFlight(w, s) => ProblemOf[s] \notin op[o].problems

(* The row shows the newest check result, status and score of the same     *)
(* check, and a row that waits to be judged has no score.                  *)
RowIsLatestResult ==
  \A s \in Submissions :
    IF Judged(s) THEN latest[s] # None /\ row[s] = [status |-> latest[s].status,
                                                    score |-> latest[s].score]
                 ELSE row[s].score = NoScore

(* Exactly one check result for each time the submission was inserted or   *)
(* retested, whatever crashed on the way, and none before its verdict.     *)
OneResultPerRequest ==
  \A s \in Submissions :
    requested[s] = recorded[s] + (IF row[s].status \in Pending THEN 1 ELSE 0)

(* Only a retest takes a verdict back: no late worker overwrites one.      *)
VerdictsStand ==
  [][\A s \in Submissions : Judged(s) /\ row'[s] # row[s] =>
       row'[s].status = "queued" /\ requested'[s] = requested[s] + 1]_vars

(* A submission whose problem stays active with tests and whose compiler   *)
(* stays enabled with a worker to run it is not left unjudged, in spite of *)
(* crashes, lost claims and failing checks that stop happening, if no      *)
(* check lasts for ever: that is a promise of the link and of the runner.  *)
Served(s) ==
  /\ active[ProblemOf[s]] /\ tests[ProblemOf[s]] > 0
  /\ CompilatorOf[s] \in enabled
  /\ \E w \in Workers : CompilatorOf[s] \in Offers[w]

ChecksEnd == \A w \in Workers : []<>(phase[w] # "checking")

EventuallyJudged ==
  ChecksEnd => \A s \in Submissions : <>[]Served(s) => <>[](row[s].status \notin Pending)

-----------------------------------------------------------------------------
(***************************************************************************)
(* The queue implements module Judging: a submission in the queue or being *)
(* checked is one that waits, and the save of a result is the moment it is *)
(* judged.                                                                 *)
(***************************************************************************)
Shown(s) ==
  [status |-> IF row[s].status \in Pending THEN "pending" ELSE row[s].status,
   score |-> row[s].score,
   tests |-> IF Judged(s) THEN latest[s].tests ELSE 0]

Promise == INSTANCE Judging WITH verdict <- [s \in Submissions |-> Shown(s)]

(* Whatever the workers, the faults and the administrators do, the site    *)
(* shows a history of whole verdicts, each given in one step on current    *)
(* tests.                                                                  *)
ImplementsJudging == Promise!Spec
=============================================================================

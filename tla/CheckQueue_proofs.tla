-------------------------- MODULE CheckQueue_proofs --------------------------
(***************************************************************************)
(* Proofs about CheckQueue, for every set of submissions, problems,        *)
(* workers and operators and every bound.                                  *)
(***************************************************************************)
EXTENDS CheckQueue, TLAPS

(* The state of every variable of the module stays well formed.            *)
LEMMA TypeInit == Init => TypeOK
  BY SubmissionsAssumption, WorkersAssumption DEF Init, TypeOK, Statuses, Pending

LEMMA TypeNext == TypeOK /\ [Next]_vars => TypeOK'
<1> SUFFICES ASSUME TypeOK, [Next]_vars PROVE TypeOK'
  OBVIOUS
<1> USE SubmissionsAssumption, WorkersAssumption DEF TypeOK, stored, memory
<1>1. ASSUME NEW s \in Submissions, ValidatePost(s) PROVE TypeOK'
  BY <1>1 DEF ValidatePost
<1>2. ASSUME NEW s \in Submissions, InsertSubmission(s) PROVE TypeOK'
  BY <1>2 DEF InsertSubmission, Requeued, Statuses, Pending
<1>3. ASSUME NEW s \in Submissions, LeaseExpires(s) PROVE TypeOK'
  BY <1>3 DEF LeaseExpires
<1>4. ASSUME NEW w \in Workers, WorkerStep(w) PROVE TypeOK'
  <2>1. CASE StartWorker(w) BY <2>1 DEF StartWorker
  <2>2. CASE StopWorker(w) BY <2>2 DEF StopWorker, Fault
  <2>3. CASE ReadCompilators(w) BY <2>3 DEF ReadCompilators
  <2>4. CASE NothingToCheck(w) BY <2>4 DEF NothingToCheck
  <2>5. ASSUME NEW s \in Submissions, SelectSubmission(w, s) PROVE TypeOK'
    BY <2>5 DEF SelectSubmission, Jobs, Statuses, Pending
  <2>6. CASE ClaimSubmission(w) BY <2>6 DEF ClaimSubmission, ClaimRow, Jobs, Statuses, Pending
  <2>7. CASE ClaimInterrupted(w)
    <3>1. job[w] \in Jobs /\ job' \in [Workers -> Jobs \cup {None}]
      BY <2>7 DEF ClaimInterrupted
    <3>2. CASE ClaimRow(job[w].sub)
      <4>1. row' \in [Submissions -> [status : Statuses, score : Scores \cup {NoScore}]]
        BY <3>1, <3>2 DEF ClaimRow, Jobs, Statuses, Pending
      <4> QED BY <2>7, <3>1, <3>2, <4>1 DEF ClaimInterrupted, ClaimRow, Fault
    <3>3. CASE UNCHANGED stored
      BY <2>7, <3>1, <3>3 DEF ClaimInterrupted, Fault
    <3> QED BY <2>7, <3>2, <3>3 DEF ClaimInterrupted
  <2>8. ASSUME NEW r \in Results, FinishCheck(w, r) PROVE TypeOK'
    <3>1. job[w] \in Jobs /\ r.status \in Statuses /\ r.score \in Scores \cup {NoScore}
      BY <2>8, ResultsAssumption DEF FinishCheck, Statuses
    <3>2. [job[w] EXCEPT !.status = r.status, !.newScore = r.score] \in Jobs
      BY <3>1 DEF Jobs
    <3> QED BY <2>8, <3>1, <3>2 DEF FinishCheck
  <2>9. CASE FailCheck(w)
    <3>1. job[w] \in Jobs
      BY <2>9 DEF FailCheck
    <3>2. [job[w] EXCEPT !.status = "queued"] \in Jobs
      BY <3>1 DEF Jobs, Statuses, Pending
    <3>3. job' = [job EXCEPT ![w] = [job[w] EXCEPT !.status = "queued"]]
      BY <2>9 DEF FailCheck
    <3>4. job' \in [Workers -> Jobs \cup {None}] /\ job'[w] \in Jobs
      BY <3>2, <3>3
    <3>5. faults' \in Nat
      BY <2>9 DEF FailCheck, Fault
    <3> QED BY <2>9, <3>3, <3>4, <3>5 DEF FailCheck
  <2>10. CASE SaveOutcome(w)
    <3>1. job[w] \in Jobs
      BY <2>10 DEF SaveOutcome
    <3>2. SavedRow(job[w]) \in [status : Statuses, score : Scores \cup {NoScore}]
      BY <3>1 DEF SavedRow, Jobs
    <3>3. row' \in [Submissions -> [status : Statuses, score : Scores \cup {NoScore}]]
      BY <2>10, <3>1, <3>2 DEF SaveOutcome
    <3>4. latest' \in [Submissions -> CheckResults \cup {None}] /\ recorded' \in [Submissions -> Nat]
      BY <2>10, <3>1 DEF SaveOutcome, Jobs, CheckResults
    <3>5. phase' = [phase EXCEPT ![w] = "ready"] \/ phase' = [phase EXCEPT ![w] = "off"]
      BY <2>10 DEF SaveOutcome
    <3>6. job' = [job EXCEPT ![w] = None]
      BY <2>10 DEF SaveOutcome
    <3> QED BY <2>10, <3>1, <3>3, <3>4, <3>5, <3>6 DEF SaveOutcome
  <2>11. CASE SaveInterrupted(w) BY <2>11 DEF SaveInterrupted, Fault
  <2> QED BY <1>4, <2>1, <2>2, <2>3, <2>4, <2>5, <2>6, <2>7, <2>8, <2>9, <2>10, <2>11
        DEF WorkerStep
<1>5. ASSUME NEW o \in Operators, OperatorStep(o) PROVE TypeOK'
  <2>1. ASSUME NEW p \in Problems, NEW kind \in RetestKinds, BeginRetest(o, p, kind) PROVE TypeOK'
    BY <2>1 DEF BeginRetest, Enter, Operations
  <2>2. CASE BeginRetestCompilationErrors(o)
    BY <2>2 DEF BeginRetestCompilationErrors, Enter, Operations, RetestKinds
  <2>3. ASSUME NEW P \in SUBSET Problems, BeginImport(o, P) PROVE TypeOK'
    BY <2>3 DEF BeginImport, Enter, Operations
  <2>4. CASE CommitRetest(o)
    BY <2>4 DEF CommitRetest, Requeued, Statuses, Pending
  <2>5. ASSUME NEW isActive \in [Problems -> BOOLEAN], CommitImport(o, isActive) PROVE TypeOK'
    BY <2>5 DEF CommitImport
  <2>6. CASE AbandonOperation(o) BY <2>6 DEF AbandonOperation
  <2> QED BY <1>5, <2>1, <2>2, <2>3, <2>4, <2>5, <2>6 DEF OperatorStep
<1>6. ASSUME NEW w \in Workers, AddCompilators(w) PROVE TypeOK'
  BY <1>6 DEF AddCompilators
<1>7. ASSUME NEW tested \in SUBSET Workers, DisableCompilators(tested) PROVE TypeOK'
  BY <1>7 DEF DisableCompilators
<1>8. CASE Crash BY <1>8 DEF Crash, Fault
<1>9. CASE UNCHANGED vars BY <1>9 DEF vars
<1> QED BY <1>1, <1>2, <1>3, <1>4, <1>5, <1>6, <1>7, <1>8, <1>9 DEF Next

THEOREM TypeCorrect == Spec => []TypeOK
  BY TypeInit, TypeNext, PTL DEF Spec

-----------------------------------------------------------------------------
(* What a worker is about to save: until the check ends the loaded score   *)
(* is unchanged, a failed check leaves it so and puts the row back in the  *)
(* queue, and every other outcome is what the runner answered.             *)
OutcomeInv ==
  \A w \in Workers :
    /\ phase[w] \in {"selected", "checking"} => job[w].newScore = job[w].score
    /\ phase[w] = "saving" =>
         \/ job[w].status = "queued" /\ job[w].newScore = job[w].score
         \/ [status |-> job[w].status, score |-> job[w].newScore] \in Results

LEMMA OutcomeInit == Init => OutcomeInv
  BY DEF Init, OutcomeInv

LEMMA OutcomeNext == TypeOK /\ OutcomeInv /\ [Next]_vars => OutcomeInv'
<1> SUFFICES ASSUME TypeOK, OutcomeInv, [Next]_vars PROVE OutcomeInv'
  OBVIOUS
<1> USE DEF TypeOK, OutcomeInv
<1>1. ASSUME UNCHANGED <<phase, job>> PROVE OutcomeInv'
  BY <1>1
<1>2. ASSUME NEW s \in Submissions, ValidatePost(s) \/ InsertSubmission(s) \/ LeaseExpires(s)
      PROVE  OutcomeInv'
  BY <1>1, <1>2 DEF ValidatePost, InsertSubmission, LeaseExpires, memory
<1>3. ASSUME NEW w \in Workers, WorkerStep(w) PROVE OutcomeInv'
  <2>1. ASSUME phase'[w] \in {"off", "ready", "claiming"},
               \A v \in Workers \ {w} : phase'[v] = phase[v] /\ job'[v] = job[v]
        PROVE  OutcomeInv'
    BY <2>1
  <2>2. CASE \/ StartWorker(w) \/ StopWorker(w) \/ ReadCompilators(w) \/ NothingToCheck(w)
             \/ ClaimInterrupted(w) \/ SaveOutcome(w) \/ SaveInterrupted(w)
    BY <2>1, <2>2 DEF StartWorker, StopWorker, ReadCompilators, NothingToCheck,
       ClaimInterrupted, SaveOutcome, SaveInterrupted
  <2>3. ASSUME NEW s \in Submissions, SelectSubmission(w, s) PROVE OutcomeInv'
    BY <2>3 DEF SelectSubmission
  <2>4. CASE ClaimSubmission(w)
    BY <2>4 DEF ClaimSubmission
  <2>5. ASSUME NEW r \in Results, FinishCheck(w, r) PROVE OutcomeInv'
    <3>1. job[w] \in Jobs /\ r = [status |-> r.status, score |-> r.score]
      BY <2>5, ResultsAssumption DEF FinishCheck
    <3>2. job'[w] = [job[w] EXCEPT !.status = r.status, !.newScore = r.score] /\ phase'[w] = "saving"
      BY <2>5 DEF FinishCheck
    <3>3. [status |-> job'[w].status, score |-> job'[w].newScore] \in Results
      BY <2>5, <3>1, <3>2 DEF Jobs
    <3>4. \A v \in Workers \ {w} : phase'[v] = phase[v] /\ job'[v] = job[v]
      BY <2>5 DEF FinishCheck
    <3> QED BY <3>2, <3>3, <3>4
  <2>6. CASE FailCheck(w)
    <3>1. job[w] \in Jobs /\ job[w].newScore = job[w].score
      BY <2>6 DEF FailCheck
    <3>2. job'[w] = [job[w] EXCEPT !.status = "queued"] /\ phase'[w] = "saving"
      BY <2>6 DEF FailCheck
    <3>3. job'[w].status = "queued" /\ job'[w].newScore = job'[w].score
      BY <3>1, <3>2 DEF Jobs
    <3>4. \A v \in Workers \ {w} : phase'[v] = phase[v] /\ job'[v] = job[v]
      BY <2>6 DEF FailCheck
    <3> QED BY <3>2, <3>3, <3>4
  <2> QED BY <1>3, <2>2, <2>3, <2>4, <2>5, <2>6 DEF WorkerStep
<1>4. ASSUME NEW o \in Operators, OperatorStep(o) PROVE OutcomeInv'
  BY <1>1, <1>4 DEF OperatorStep, BeginRetest, BeginRetestCompilationErrors, BeginImport, Enter,
     CommitRetest, CommitImport, AbandonOperation
<1>5. ASSUME NEW w \in Workers, AddCompilators(w) PROVE OutcomeInv'
  BY <1>1, <1>5 DEF AddCompilators, memory
<1>6. ASSUME NEW tested \in SUBSET Workers, DisableCompilators(tested) PROVE OutcomeInv'
  BY <1>1, <1>6 DEF DisableCompilators, memory
<1>7. CASE Crash BY <1>7 DEF Crash
<1>8. CASE UNCHANGED vars BY <1>1, <1>8 DEF vars
<1> QED BY <1>2, <1>3, <1>4, <1>5, <1>6, <1>7, <1>8 DEF Next

-----------------------------------------------------------------------------
(***************************************************************************)
(* What the gate protects, whether or not checks outlive their lease.  The *)
(* holder of the gate is the one worker that has selected a row or the one *)
(* operator that has begun an operation; until it leaves, the row's        *)
(* problem stays as it was selected, and the operation's problems idle.    *)
(***************************************************************************)
SelectedHoldGate == \A w \in Workers : phase[w] = "selected" => gate = w
OperationsHoldGate == \A o \in Operators : op[o] # None => op[o] \in Operations /\ gate = o
OperationsFindIdle == \A o \in Operators : op[o] # None => Idle(op[o].problems)
RetestsFindActive ==
  \A o \in Operators : op[o] # None /\ op[o].kind \in RetestKinds =>
    \A p \in op[o].problems : active[p]
SelectedActive ==
  \A w \in Workers : phase[w] = "selected" =>
    active[ProblemOf[job[w].sub]] /\ tests[ProblemOf[job[w].sub]] > 0

GateInv ==
  /\ TypeOK
  /\ OutcomeInv
  /\ SelectedHoldGate
  /\ OperationsHoldGate
  /\ OperationsFindIdle
  /\ RetestsFindActive
  /\ SelectedActive
  /\ ActiveWhileChecking

LEMMA GateInit == Init => GateInv
  BY TypeInit, OutcomeInit DEF Init, GateInv, SelectedHoldGate, OperationsHoldGate, OperationsFindIdle,
     RetestsFindActive, SelectedActive, ActiveWhileChecking, Checking

(* Steps that touch none of what GateInv speaks of.                        *)
LEMMA GateUntouched ==
  ASSUME GateInv, TypeOK', OutcomeInv', UNCHANGED <<row, tests, active, gate, phase, job, op>>
  PROVE  GateInv'
  BY DEF GateInv, SelectedHoldGate, OperationsHoldGate, OperationsFindIdle, RetestsFindActive,
     SelectedActive, ActiveWhileChecking, Checking, Idle, SubmissionsOf

(* Steps of one worker outside the gate: no row enters "checking", and the *)
(* worker does not become the one that has selected a row.                 *)
LEMMA GateWorker ==
  ASSUME GateInv, TypeOK', OutcomeInv', NEW w \in Workers,
         phase[w] # "selected", phase'[w] # "selected",
         \A v \in Workers \ {w} : phase'[v] = phase[v] /\ job'[v] = job[v],
         \A s \in Submissions : Checking(s)' => Checking(s),
         UNCHANGED <<tests, active, gate, op>>
  PROVE  GateInv'
<1> USE DEF GateInv
<1>1. SelectedHoldGate' /\ SelectedActive'
  BY DEF SelectedHoldGate, SelectedActive
<1>2. OperationsHoldGate' /\ RetestsFindActive'
  BY DEF OperationsHoldGate, RetestsFindActive
<1>3. OperationsFindIdle'
  BY DEF OperationsFindIdle, Idle, SubmissionsOf
<1>4. ActiveWhileChecking'
  BY SubmissionsAssumption DEF ActiveWhileChecking
<1> QED BY <1>1, <1>2, <1>3, <1>4

(* Entering the gate for an operation.                                     *)
LEMMA GateEnter ==
  ASSUME GateInv, TypeOK', OutcomeInv', NEW o \in Operators, NEW kind \in RetestKinds \cup {"import"},
         NEW P \in SUBSET Problems, Enter(o, kind, P),
         kind \in RetestKinds => \A p \in P : active[p]
  PROVE  GateInv'
<1> USE WorkersAssumption DEF GateInv, TypeOK, Enter, stored
<1>1. \A x \in Operators : op[x] = None
  BY DEF OperationsHoldGate
<1>2. \A w \in Workers : phase[w] # "selected"
  BY DEF SelectedHoldGate
<1>3. SelectedHoldGate' /\ SelectedActive' /\ ActiveWhileChecking'
  BY <1>2 DEF SelectedHoldGate, SelectedActive, ActiveWhileChecking, Checking
<1>4. op' = [op EXCEPT ![o] = [kind |-> kind, problems |-> P]]
  OBVIOUS
<1>5. OperationsHoldGate'
  BY <1>1, <1>4 DEF OperationsHoldGate, Operations
<1>6. OperationsFindIdle'
  BY <1>1, <1>4 DEF OperationsFindIdle, Idle, SubmissionsOf, Checking
<1>7. RetestsFindActive'
  BY <1>1, <1>4 DEF RetestsFindActive
<1> QED BY <1>3, <1>5, <1>6, <1>7

(* Leaving it: afterwards nobody has selected a row and no operation has   *)
(* begun.                                                                  *)
LEMMA GateLeft ==
  ASSUME GateInv, TypeOK', OutcomeInv', ActiveWhileChecking',
         \A w \in Workers : phase'[w] # "selected",
         \A o \in Operators : op'[o] = None
  PROVE  GateInv'
  BY DEF GateInv, SelectedHoldGate, OperationsHoldGate, OperationsFindIdle, RetestsFindActive,
     SelectedActive

LEMMA GateNext == GateInv /\ [Next]_vars => GateInv'
<1> SUFFICES ASSUME GateInv, [Next]_vars PROVE GateInv'
  OBVIOUS
<1>T. TypeOK /\ TypeOK' /\ OutcomeInv'
  BY TypeNext, OutcomeNext DEF GateInv
<1>1. ASSUME NEW s \in Submissions, ValidatePost(s) PROVE GateInv'
  BY <1>T, <1>1, GateUntouched DEF ValidatePost, stored
<1>2. ASSUME NEW s \in Submissions, InsertSubmission(s) PROVE GateInv'
  <2>1. \A x \in Submissions : Checking(x)' => Checking(x)
    BY <1>T, <1>2 DEF InsertSubmission, Requeued, Checking, TypeOK
  <2> QED
    BY <1>T, <1>2, <2>1, SubmissionsAssumption
    DEF InsertSubmission, GateInv, SelectedHoldGate, OperationsHoldGate, OperationsFindIdle,
        RetestsFindActive, SelectedActive, ActiveWhileChecking, Idle, SubmissionsOf
<1>3. ASSUME NEW s \in Submissions, LeaseExpires(s) PROVE GateInv'
  BY <1>T, <1>3, GateUntouched DEF LeaseExpires, memory
<1>4. ASSUME NEW w \in Workers, WorkerStep(w) PROVE GateInv'
  <2>1. CASE StartWorker(w) \/ StopWorker(w) \/ ReadCompilators(w) \/ NothingToCheck(w)
    BY <1>T, <2>1, GateWorker DEF StartWorker, StopWorker, ReadCompilators, NothingToCheck,
       stored, TypeOK, Checking
  <2>2. ASSUME NEW s \in Submissions, SelectSubmission(w, s) PROVE GateInv'
    <3>1. \A o \in Operators : op[o] = None
      BY <2>2, <1>T, WorkersAssumption DEF SelectSubmission, GateInv, OperationsHoldGate, TypeOK
    <3>2. \A v \in Workers : phase[v] # "selected"
      BY <2>2, <1>T, WorkersAssumption DEF SelectSubmission, GateInv, SelectedHoldGate, TypeOK
    <3>3. SelectedHoldGate'
      BY <2>2, <3>2, <1>T DEF SelectSubmission, SelectedHoldGate, TypeOK
    <3>4. job'[w].sub = s /\ active[ProblemOf[s]] /\ tests[ProblemOf[s]] > 0
      BY <2>2, <1>T DEF SelectSubmission, Eligible, TypeOK
    <3>5. SelectedActive'
      BY <2>2, <3>2, <3>4, <1>T DEF SelectSubmission, SelectedActive, TypeOK, stored
    <3> QED BY <2>2, <1>T, <3>1, <3>3, <3>5
        DEF SelectSubmission, GateInv, OperationsHoldGate, OperationsFindIdle, RetestsFindActive,
            ActiveWhileChecking, Checking, stored
  <2>3. CASE ClaimSubmission(w) \/ ClaimInterrupted(w)
    <3>1. phase[w] = "selected" /\ gate = w
      BY <2>3 DEF ClaimSubmission, ClaimInterrupted, GateInv, SelectedHoldGate
    <3>2. \A v \in Workers \ {w} : phase[v] # "selected"
      BY <3>1 DEF GateInv, SelectedHoldGate
    <3>3. \A o \in Operators : op[o] = None
      BY <3>1, WorkersAssumption DEF GateInv, OperationsHoldGate
    <3>4. \A v \in Workers : phase'[v] # "selected"
      BY <2>3, <3>2, <1>T DEF ClaimSubmission, ClaimInterrupted, TypeOK
    <3>5. UNCHANGED <<op, active, tests>>
      BY <2>3 DEF ClaimSubmission, ClaimInterrupted, ClaimRow, stored
    <3>6. \A s \in Submissions : Checking(s)' => Checking(s) \/ s = job[w].sub
      BY <2>3, <1>T DEF ClaimSubmission, ClaimInterrupted, ClaimRow, stored, Checking, TypeOK
    <3>7. ActiveWhileChecking'
      BY <3>1, <3>5, <3>6 DEF GateInv, ActiveWhileChecking, SelectedActive
    <3> QED BY <1>T, <3>3, <3>4, <3>5, <3>7, GateLeft
  <2>4. ASSUME NEW r \in Results, FinishCheck(w, r) PROVE GateInv'
    BY <1>T, <2>4, GateWorker DEF FinishCheck, stored, TypeOK, Checking
  <2>5. CASE FailCheck(w) \/ SaveInterrupted(w)
    BY <1>T, <2>5, GateWorker DEF FailCheck, SaveInterrupted, stored, TypeOK, Checking
  <2>6. CASE SaveOutcome(w)
    <3>1. phase[w] = "saving" /\ job[w] \in Jobs /\ UNCHANGED <<tests, active, gate, op>>
      BY <1>T, <2>6 DEF SaveOutcome, TypeOK
    <3>2. phase' = [phase EXCEPT ![w] = "ready"] \/ phase' = [phase EXCEPT ![w] = "off"]
      BY <2>6 DEF SaveOutcome
    <3>3. job' = [job EXCEPT ![w] = None]
      BY <2>6 DEF SaveOutcome
    <3>4. row' = [row EXCEPT ![job[w].sub] = SavedRow(job[w])] /\ SavedRow(job[w]).status = job[w].status
      BY <2>6 DEF SaveOutcome, SavedRow
    <3>5. job[w].status # "checking"
      BY <3>1, ResultsAssumption DEF GateInv, OutcomeInv, Verdicts
    <3> QED
      BY <1>T, <3>1, <3>2, <3>3, <3>4, <3>5, GateWorker DEF TypeOK, Checking
  <2> QED BY <1>4, <2>1, <2>2, <2>3, <2>4, <2>5, <2>6 DEF WorkerStep
<1>5. ASSUME NEW o \in Operators, OperatorStep(o) PROVE GateInv'
  <2>1. ASSUME NEW p \in Problems, NEW kind \in RetestKinds, BeginRetest(o, p, kind) PROVE GateInv'
    BY <1>T, <2>1, GateEnter DEF BeginRetest
  <2>2. CASE BeginRetestCompilationErrors(o)
    BY <1>T, <2>2, GateEnter DEF BeginRetestCompilationErrors, RetestKinds
  <2>3. ASSUME NEW P \in SUBSET Problems, BeginImport(o, P) PROVE GateInv'
    BY <1>T, <2>3, GateEnter DEF BeginImport, RetestKinds
  <2>4. ASSUME op[o] # None, op' = [op EXCEPT ![o] = None], UNCHANGED phase, ActiveWhileChecking'
        PROVE  GateInv'
    <3>1. gate = o /\ \A x \in Operators \ {o} : op[x] = None
      BY <2>4 DEF GateInv, OperationsHoldGate
    <3>2. \A w \in Workers : phase'[w] # "selected"
      BY <2>4, <3>1, WorkersAssumption DEF GateInv, SelectedHoldGate
    <3>3. \A x \in Operators : op'[x] = None
      BY <1>T, <2>4, <3>1 DEF TypeOK
    <3> QED BY <1>T, <2>4, <3>2, <3>3, GateLeft
  <2>5. CASE CommitRetest(o)
    <3>1. \A s \in Submissions : Checking(s)' => Checking(s)
      BY <1>T, <2>5 DEF CommitRetest, Requeued, Checking, TypeOK
    <3>2. ActiveWhileChecking'
      BY <2>5, <3>1 DEF CommitRetest, GateInv, ActiveWhileChecking
    <3> QED BY <2>4, <2>5, <3>2 DEF CommitRetest
  <2>6. ASSUME NEW isActive \in [Problems -> BOOLEAN], CommitImport(o, isActive) PROVE GateInv'
    <3>1. \A s \in Submissions : Checking(s) => ProblemOf[s] \notin op[o].problems
      BY <2>6 DEF CommitImport, GateInv, OperationsFindIdle, Idle, SubmissionsOf
    <3>2. ActiveWhileChecking'
      BY <2>6, <3>1, <1>T, SubmissionsAssumption
      DEF CommitImport, GateInv, ActiveWhileChecking, Checking, TypeOK
    <3> QED BY <2>4, <2>6, <3>2 DEF CommitImport
  <2>7. CASE AbandonOperation(o)
    BY <2>4, <2>7 DEF AbandonOperation, GateInv, ActiveWhileChecking, Checking, stored
  <2> QED BY <1>5, <2>1, <2>2, <2>3, <2>5, <2>6, <2>7 DEF OperatorStep
<1>6. ASSUME NEW w \in Workers, AddCompilators(w) PROVE GateInv'
  BY <1>T, <1>6, GateUntouched DEF AddCompilators, memory
<1>7. ASSUME NEW tested \in SUBSET Workers, DisableCompilators(tested) PROVE GateInv'
  BY <1>T, <1>7, GateUntouched DEF DisableCompilators, memory
<1>8. CASE Crash
  BY <1>T, <1>8, GateLeft DEF Crash, GateInv, ActiveWhileChecking, Checking, stored
<1>9. CASE UNCHANGED vars
  BY <1>T, <1>9, GateUntouched DEF vars
<1> QED BY <1>1, <1>2, <1>3, <1>4, <1>5, <1>6, <1>7, <1>8, <1>9 DEF Next

(* Imports and claims meet in the gate: a row in "checking" never belongs  *)
(* to a problem that is inactive or has no tests, so it can always be      *)
(* claimed again; and a begun operation holds the gate alone.              *)
THEOREM CheckingIsActive == Spec => []ActiveWhileChecking
<1>1. Spec => []GateInv
  BY GateInit, GateNext, PTL DEF Spec
<1> QED BY <1>1, PTL DEF GateInv

-----------------------------------------------------------------------------
(***************************************************************************)
(* When checks end within their lease.  What a worker loaded when it chose *)
(* a row then stays true until it has saved, because nobody else can claim *)
(* the row, no import can touch its problem, and a retest leaves it alone. *)
(***************************************************************************)
LoadedIsCurrent ==
  \A w \in Workers : phase[w] \in {"selected", "checking", "saving"} =>
    /\ job[w].tests = tests[ProblemOf[job[w].sub]]
    /\ job[w].request = requested[job[w].sub]
    /\ job[w].score = row[job[w].sub].score
SelectedIsFree ==
  \A w \in Workers : phase[w] = "selected" =>
    /\ Claimable(job[w].sub)
    /\ \A v \in Workers : ~InFlight(v, job[w].sub)
PostingIsNew ==
  \A s \in Submissions :
    /\ s \in posting => row[s].status = "absent"
    /\ row[s].status = "absent" => requested[s] = 0

ClaimInv == ExclusiveCheck /\ LoadedIsCurrent /\ SelectedIsFree
RowInv == PostingIsNew /\ RowIsLatestResult /\ OneResultPerRequest
LeaseInv == GateInv /\ ClaimInv /\ RowInv

Holds(w, s) == phase[w] \in {"selected", "checking", "saving"} /\ job[w].sub = s
Same(s) ==
  /\ row'[s] = row[s] /\ requested'[s] = requested[s]
  /\ tests'[ProblemOf[s]] = tests[ProblemOf[s]]
  /\ s \in expired' <=> s \in expired

LEMMA LeaseInit == Init => LeaseInv
  BY GateInit DEF Init, LeaseInv, ClaimInv, RowInv, ExclusiveCheck, LoadedIsCurrent, SelectedIsFree,
     PostingIsNew, RowIsLatestResult, OneResultPerRequest, InFlight, Judged, Verdicts, Pending

(* A held row has been chosen: it waits to be claimed or is being checked. *)
LEMMA HeldIsPending ==
  ASSUME ClaimInv, NEW w \in Workers, NEW s \in Submissions, Holds(w, s)
  PROVE  row[s].status \in Pending
  BY DEF ClaimInv, Holds, ExclusiveCheck, SelectedIsFree, InFlight, Claimable, Checking, Pending

(* Nobody but the worker that holds a row holds it, and only one worker at *)
(* a time has selected one.                                                *)
LEMMA HeldByOne ==
  ASSUME TypeOK, SelectedHoldGate, ClaimInv, NEW v \in Workers, NEW w \in Workers,
         NEW s \in Submissions, Holds(v, s), Holds(w, s)
  PROVE  v = w
  BY DEF TypeOK, SelectedHoldGate, ClaimInv, Holds, ExclusiveCheck, SelectedIsFree, InFlight

(* Workers stay where they are and the rows they hold are left alone.      *)
LEMMA ClaimKept ==
  ASSUME TypeOK, ClaimInv, UNCHANGED <<phase, job>>,
         \A s \in Submissions, w \in Workers : Holds(w, s) => Same(s)
  PROVE  ClaimInv'
<1> USE DEF TypeOK, Jobs, Holds, Same
<1>1. ExclusiveCheck'
  BY DEF ClaimInv, ExclusiveCheck, InFlight, Checking
<1>2. LoadedIsCurrent'
  BY DEF ClaimInv, LoadedIsCurrent
<1>3. SelectedIsFree'
  BY DEF ClaimInv, SelectedIsFree, InFlight, Claimable, Checking
<1> QED BY <1>1, <1>2, <1>3 DEF ClaimInv

(* One worker gives up what it held, if anything; the rows that others     *)
(* hold are left alone.                                                    *)
LEMMA ClaimDropped ==
  ASSUME TypeOK, ClaimInv, NEW w \in Workers,
         phase'[w] \notin {"selected", "checking", "saving"},
         \A v \in Workers \ {w} : phase'[v] = phase[v] /\ job'[v] = job[v],
         \A s \in Submissions, v \in Workers \ {w} : Holds(v, s) => Same(s)
  PROVE  ClaimInv'
<1> USE DEF TypeOK, Jobs, Holds, Same
<1>0. \A v \in Workers, s \in Submissions :
        InFlight(v, s)' => v # w /\ InFlight(v, s) /\ Same(s)
  BY DEF InFlight
<1>1. ExclusiveCheck'
  BY <1>0 DEF ClaimInv, ExclusiveCheck, Checking
<1>2. LoadedIsCurrent'
  BY DEF ClaimInv, LoadedIsCurrent
<1>3. SelectedIsFree'
  BY DEF ClaimInv, SelectedIsFree, InFlight, Claimable, Checking
<1> QED BY <1>1, <1>2, <1>3 DEF ClaimInv

(* A check ends: the worker goes on holding its row and what it loaded.    *)
LEMMA ClaimDecided ==
  ASSUME TypeOK, TypeOK', ClaimInv, NEW w \in Workers, phase[w] = "checking", phase'[w] = "saving",
         \A v \in Workers \ {w} : phase'[v] = phase[v] /\ job'[v] = job[v],
         job'[w].sub = job[w].sub, job'[w].score = job[w].score,
         job'[w].tests = job[w].tests, job'[w].request = job[w].request,
         UNCHANGED stored
  PROVE  ClaimInv'
<1> USE DEF TypeOK, Jobs, stored
<1>1. \A v \in Workers, s \in Submissions : InFlight(v, s)' <=> InFlight(v, s)
  BY DEF InFlight
<1>2. ExclusiveCheck'
  BY <1>1 DEF ClaimInv, ExclusiveCheck, Checking
<1>3. LoadedIsCurrent'
  BY DEF ClaimInv, LoadedIsCurrent
<1>4. SelectedIsFree'
  BY <1>1 DEF ClaimInv, SelectedIsFree, Claimable, Checking
<1> QED BY <1>2, <1>3, <1>4 DEF ClaimInv

LEMMA ClaimNext == ~ChecksMayOutliveLease /\ LeaseInv /\ [Next]_vars => ClaimInv'
<1> SUFFICES ASSUME ~ChecksMayOutliveLease, LeaseInv, [Next]_vars PROVE ClaimInv'
  OBVIOUS
<1>T. TypeOK /\ TypeOK' /\ SelectedHoldGate /\ ClaimInv
  BY TypeNext DEF LeaseInv, GateInv
<1>1. ASSUME UNCHANGED <<row, expired, requested, tests, phase, job>> PROVE ClaimInv'
  BY <1>T, <1>1, ClaimKept DEF Same
<1>2. ASSUME NEW s \in Submissions, ValidatePost(s) PROVE ClaimInv'
  BY <1>1, <1>2 DEF ValidatePost, stored
<1>3. ASSUME NEW s \in Submissions, InsertSubmission(s) PROVE ClaimInv'
  <2>1. row[s].status = "absent"
    BY <1>3 DEF InsertSubmission, LeaseInv, RowInv, PostingIsNew
  <2>2. \A w \in Workers : ~Holds(w, s)
    BY <1>T, <2>1, HeldIsPending DEF Pending
  <2>3. \A x \in Submissions \ {s} : Same(x)
    BY <1>T, <1>3 DEF InsertSubmission, Same, TypeOK
  <2> QED BY <1>T, <1>3, <2>2, <2>3, ClaimKept DEF InsertSubmission
<1>4. ASSUME NEW s \in Submissions, LeaseExpires(s) PROVE ClaimInv'
  <2>1. \A w \in Workers : ~Holds(w, s)
    BY <1>T, <1>4 DEF LeaseExpires, Holds, InFlight, ClaimInv, SelectedIsFree, Claimable, Checking
  <2>2. \A x \in Submissions \ {s} : Same(x)
    BY <1>T, <1>4 DEF LeaseExpires, Same, TypeOK
  <2> QED BY <1>T, <1>4, <2>1, <2>2, ClaimKept DEF LeaseExpires, memory
<1>5. ASSUME NEW w \in Workers, WorkerStep(w) PROVE ClaimInv'
  <2>1. CASE StartWorker(w) \/ StopWorker(w) \/ ReadCompilators(w) \/ NothingToCheck(w)
             \/ SaveInterrupted(w)
    BY <1>T, <2>1, ClaimDropped DEF StartWorker, StopWorker, ReadCompilators, NothingToCheck,
       SaveInterrupted, stored, TypeOK, Same
  <2>2. ASSUME NEW s \in Submissions, SelectSubmission(w, s) PROVE ClaimInv'
    <3>1. Claimable(s) /\ phase[w] = "claiming" /\ UNCHANGED stored
      BY <2>2 DEF SelectSubmission, Eligible
    <3>2. \A v \in Workers : ~InFlight(v, s)
      BY <3>1, <1>T DEF ClaimInv, ExclusiveCheck, Claimable, Checking
    <3>3. \A v \in Workers, x \in Submissions : InFlight(v, x)' <=> InFlight(v, x)
      BY <2>2, <1>T DEF SelectSubmission, InFlight, TypeOK
    <3>4. job'[w].sub = s /\ job'[w].score = row[s].score /\ job'[w].tests = tests[ProblemOf[s]]
          /\ job'[w].request = requested[s] /\ phase'[w] = "selected"
      BY <2>2, <1>T DEF SelectSubmission, TypeOK
    <3>5. \A v \in Workers \ {w} : phase'[v] = phase[v] /\ job'[v] = job[v]
      BY <2>2, <1>T DEF SelectSubmission, TypeOK
    <3>6. ExclusiveCheck'
      BY <1>T, <3>1, <3>3 DEF ClaimInv, ExclusiveCheck, Checking, stored
    <3>7. LoadedIsCurrent'
      BY <1>T, <3>1, <3>4, <3>5 DEF ClaimInv, LoadedIsCurrent, stored
    <3>8. SelectedIsFree'
      <4>1. \A x \in Submissions : Claimable(x)' <=> Claimable(x)
        BY <3>1 DEF Claimable, Checking, stored
      <4> QED BY <1>T, <3>1, <3>2, <3>3, <3>4, <3>5, <4>1 DEF ClaimInv, SelectedIsFree, TypeOK, Jobs
    <3> QED BY <3>6, <3>7, <3>8 DEF ClaimInv
  <2>3. ASSUME phase[w] = "selected", ClaimRow(job[w].sub)
        PROVE  \A s \in Submissions, v \in Workers \ {w} : Holds(v, s) => Same(s)
    <3>1. \A s \in Submissions \ {job[w].sub} : Same(s)
      BY <2>3, <1>T DEF ClaimRow, Same, TypeOK
    <3>2. Holds(w, job[w].sub) /\ job[w].sub \in Submissions
      BY <2>3, <1>T DEF Holds, TypeOK, Jobs
    <3> QED BY <1>T, <3>1, <3>2, HeldByOne
  <2>4. CASE ClaimSubmission(w)
    <3> DEFINE s == job[w].sub
    <3>1. phase[w] = "selected" /\ ClaimRow(s) /\ s \in Submissions /\ UNCHANGED job
      BY <2>4, <1>T DEF ClaimSubmission, TypeOK, Jobs
    <3>2. row'[s].status = "checking" /\ row'[s].score = row[s].score /\ s \notin expired'
          /\ UNCHANGED <<tests, requested>>
      BY <3>1, <1>T DEF ClaimRow, TypeOK
    <3>3. phase'[w] = "checking" /\ \A v \in Workers \ {w} : phase'[v] = phase[v]
      BY <2>4, <1>T DEF ClaimSubmission, TypeOK
    <3>4. \A x \in Submissions, v \in Workers \ {w} : Holds(v, x) => Same(x)
      BY <2>3, <3>1
    <3>5. \A v \in Workers \ {w} : ~Holds(v, s)
      BY <1>T, <3>1, HeldByOne DEF Holds
    <3>6. ExclusiveCheck'
      BY <1>T, <3>1, <3>2, <3>3, <3>4, <3>5
      DEF ClaimInv, ExclusiveCheck, InFlight, Checking, Holds, Same, TypeOK, Jobs
    <3>7. LoadedIsCurrent'
      BY <1>T, <3>1, <3>2, <3>3, <3>4 DEF ClaimInv, LoadedIsCurrent, Holds, Same, TypeOK, Jobs
    <3>8. SelectedIsFree'
      BY <1>T, <3>1, <3>3 DEF SelectedIsFree, SelectedHoldGate
    <3> QED BY <3>6, <3>7, <3>8 DEF ClaimInv
  <2>5. CASE ClaimInterrupted(w)
    <3>1. phase[w] = "selected" /\ phase'[w] = "off"
          /\ \A v \in Workers \ {w} : phase'[v] = phase[v] /\ job'[v] = job[v]
      BY <2>5, <1>T DEF ClaimInterrupted, TypeOK
    <3>2. \A s \in Submissions, v \in Workers \ {w} : Holds(v, s) => Same(s)
      <4>1. CASE ClaimRow(job[w].sub)
        BY <3>1, <4>1, <2>3
      <4>2. CASE UNCHANGED stored
        BY <4>2 DEF stored, Same
      <4> QED BY <2>5, <4>1, <4>2 DEF ClaimInterrupted
    <3> QED BY <1>T, <3>1, <3>2, ClaimDropped
  <2>6. ASSUME NEW r \in Results, FinishCheck(w, r) PROVE ClaimInv'
    BY <1>T, <2>6, ClaimDecided DEF FinishCheck, TypeOK, Jobs
  <2>7. CASE FailCheck(w)
    BY <1>T, <2>7, ClaimDecided DEF FailCheck, TypeOK, Jobs
  <2>8. CASE SaveOutcome(w)
    <3> DEFINE s == job[w].sub
    <3>1. Holds(w, s) /\ s \in Submissions
      BY <2>8, <1>T DEF SaveOutcome, Holds, TypeOK, Jobs
    <3>2. phase' = [phase EXCEPT ![w] = "ready"] \/ phase' = [phase EXCEPT ![w] = "off"]
      BY <2>8 DEF SaveOutcome
    <3>3. job' = [job EXCEPT ![w] = None]
      BY <2>8 DEF SaveOutcome
    <3>4. \A x \in Submissions \ {s} : Same(x)
      BY <2>8, <3>1, <1>T DEF SaveOutcome, Same, TypeOK
    <3>5. \A v \in Workers \ {w} : ~Holds(v, s)
      BY <1>T, <3>1, HeldByOne
    <3>6. phase'[w] \in {"ready", "off"} /\ \A v \in Workers \ {w} : phase'[v] = phase[v] /\ job'[v] = job[v]
      BY <1>T, <3>2, <3>3 DEF TypeOK
    <3>7. \A x \in Submissions, v \in Workers \ {w} : Holds(v, x) => Same(x)
      BY <3>4, <3>5
    <3> QED BY <1>T, <3>6, <3>7, ClaimDropped
  <2> QED BY <1>5, <2>1, <2>2, <2>4, <2>5, <2>6, <2>7, <2>8 DEF WorkerStep
<1>6. ASSUME NEW o \in Operators, OperatorStep(o) PROVE ClaimInv'
  <2>1. ASSUME NEW kind, NEW P, Enter(o, kind, P) PROVE ClaimInv'
    BY <1>1, <2>1 DEF Enter, stored
  <2>2. CASE CommitRetest(o)
    <3>1. \A s \in Submissions : row[s].status \in Pending => ~Retested(s, op[o])
      BY DEF Retested, Judged, Verdicts, Pending
    <3>2. \A s \in Submissions : row[s].status \in Pending => Same(s)
      BY <2>2, <3>1, <1>T DEF CommitRetest, Same, TypeOK
    <3> QED BY <1>T, <2>2, <3>2, HeldIsPending, ClaimKept DEF CommitRetest
  <2>3. ASSUME NEW isActive \in [Problems -> BOOLEAN], CommitImport(o, isActive) PROVE ClaimInv'
    <3>1. gate = o /\ Idle(op[o].problems)
      BY <2>3 DEF CommitImport, LeaseInv, GateInv, OperationsHoldGate, OperationsFindIdle
    <3>2. \A w \in Workers : phase[w] # "selected"
      BY <3>1, <1>T, WorkersAssumption DEF SelectedHoldGate
    <3>3. \A s \in Submissions, w \in Workers : Holds(w, s) => Checking(s)
      BY <1>T, <3>2 DEF Holds, ClaimInv, ExclusiveCheck, InFlight
    <3>4. \A s \in Submissions : Checking(s) => Same(s)
      BY <2>3, <3>1, <1>T, SubmissionsAssumption
      DEF CommitImport, Idle, SubmissionsOf, Same, TypeOK
    <3> QED BY <1>T, <2>3, <3>3, <3>4, ClaimKept DEF CommitImport
  <2>4. CASE AbandonOperation(o)
    BY <1>1, <2>4 DEF AbandonOperation, stored
  <2> QED BY <1>6, <2>1, <2>2, <2>3, <2>4
      DEF OperatorStep, BeginRetest, BeginRetestCompilationErrors, BeginImport
<1>7. ASSUME NEW w \in Workers, AddCompilators(w) PROVE ClaimInv'
  BY <1>1, <1>7 DEF AddCompilators, memory
<1>8. ASSUME NEW tested \in SUBSET Workers, DisableCompilators(tested) PROVE ClaimInv'
  BY <1>1, <1>8 DEF DisableCompilators, memory
<1>9. CASE Crash
  BY <1>9 DEF Crash, ClaimInv, ExclusiveCheck, LoadedIsCurrent, SelectedIsFree, InFlight
<1>10. CASE UNCHANGED vars BY <1>1, <1>10 DEF vars
<1> QED BY <1>2, <1>3, <1>4, <1>5, <1>6, <1>7, <1>8, <1>9, <1>10 DEF Next

-----------------------------------------------------------------------------
(***************************************************************************)
(* What a step can do to the rows and their results, as long as checks end *)
(* within their lease: nothing but move rows between "queued" and          *)
(* "checking", insert one, save one result whole, withdraw verdicts for a  *)
(* retest, or import.                                                      *)
(***************************************************************************)
Quiet ==
  /\ \A s \in Submissions :
       \/ row'[s] = row[s]
       \/ row[s].status \in Pending /\ row'[s].status \in Pending /\ row'[s].score = row[s].score
  /\ \A s \in posting' : s \in posting \/ row[s].status = "absent"
  /\ UNCHANGED <<latest, recorded, requested, tests, active>>

Saved(s, r) ==
  /\ Checking(s) /\ active[ProblemOf[s]] /\ tests[ProblemOf[s]] > 0
  /\ row' = [row EXCEPT ![s] = [status |-> r.status, score |-> r.score]]
  /\ latest' = [latest EXCEPT ![s] = [status |-> r.status, score |-> r.score,
                                      tests |-> tests[ProblemOf[s]]]]
  /\ recorded' = [recorded EXCEPT ![s] = @ + 1]
  /\ UNCHANGED <<requested, tests, active, posting>>

Withdrawn(S) ==
  /\ \A s \in S : Judged(s) /\ active[ProblemOf[s]]
  /\ row' = [s \in Submissions |-> IF s \in S THEN Requeued(s) ELSE row[s]]
  /\ requested' = [s \in Submissions |-> IF s \in S THEN requested[s] + 1 ELSE requested[s]]
  /\ UNCHANGED <<latest, recorded, tests, active, posting>>

Imported(P, isActive) ==
  /\ tests' = [p \in Problems |-> IF p \in P THEN tests[p] + 1 ELSE tests[p]]
  /\ active' = [p \in Problems |-> IF p \in P THEN isActive[p] ELSE active[p]]
  /\ UNCHANGED <<row, latest, recorded, requested, posting>>

RowStep ==
  \/ Quiet
  \/ \E s \in Submissions : InsertSubmission(s)
  \/ \E s \in Submissions, r \in Results : Saved(s, r)
  \/ \E S \in SUBSET Submissions : Withdrawn(S)
  \/ \E P \in SUBSET Problems, isActive \in [Problems -> BOOLEAN] : Imported(P, isActive)

(* A worker saves a verdict over the very row it claimed, score and all,   *)
(* or puts an unjudged row back in the queue.                              *)
LEMMA SaveIsWhole ==
  ASSUME LeaseInv, NEW w \in Workers, SaveOutcome(w)
  PROVE  Quiet \/ \E s \in Submissions, r \in Results : Saved(s, r)
<1> DEFINE s == job[w].sub
           r == [status |-> job[w].status, score |-> job[w].newScore]
<1>1. TypeOK /\ phase[w] = "saving" /\ job[w] \in Jobs /\ s \in Submissions
  BY DEF SaveOutcome, LeaseInv, GateInv, TypeOK, Jobs
<1>2. Checking(s) /\ job[w].tests = tests[ProblemOf[s]] /\ job[w].score = row[s].score
  BY <1>1 DEF LeaseInv, ClaimInv, ExclusiveCheck, LoadedIsCurrent, InFlight
<1>3. row' = [row EXCEPT ![s] = r] /\ UNCHANGED <<requested, tests, active, posting>>
  BY <1>2 DEF SaveOutcome, SavedRow
<1>4. CASE job[w].status = "queued" /\ job[w].newScore = job[w].score
  <2>1. UNCHANGED <<latest, recorded>>
    BY <1>4 DEF SaveOutcome, Verdicts
  <2>2. \A x \in Submissions \ {s} : row'[x] = row[x]
    BY <1>1, <1>3 DEF TypeOK
  <2>3. row[s].status \in Pending /\ row'[s].status \in Pending /\ row'[s].score = row[s].score
    BY <1>1, <1>2, <1>3, <1>4 DEF TypeOK, Checking, Pending
  <2> QED BY <1>3, <2>1, <2>2, <2>3 DEF Quiet
<1>5. CASE r \in Results
  <2>1. active[ProblemOf[s]] /\ tests[ProblemOf[s]] > 0
    BY <1>1, <1>2 DEF LeaseInv, GateInv, ActiveWhileChecking
  <2>2. job[w].status \in Verdicts
    BY <1>5, ResultsAssumption
  <2>3. Saved(s, r)
    BY <1>2, <1>3, <2>1, <2>2 DEF SaveOutcome, Saved
  <2> QED BY <1>1, <1>5, <2>3
<1> QED BY <1>1, <1>4, <1>5 DEF LeaseInv, GateInv, OutcomeInv

LEMMA StepShape == LeaseInv /\ [Next]_vars => RowStep
<1> SUFFICES ASSUME LeaseInv, [Next]_vars PROVE RowStep
  OBVIOUS
<1>T. TypeOK
  BY DEF LeaseInv, GateInv
<1>1. ASSUME UNCHANGED <<row, latest, recorded, requested, tests, active>>, posting' \subseteq posting
      PROVE  Quiet
  BY <1>1 DEF Quiet
<1>2. ASSUME NEW s \in Submissions, ValidatePost(s) \/ InsertSubmission(s) \/ LeaseExpires(s)
      PROVE  RowStep
  <2>1. CASE ValidatePost(s)
    BY <2>1 DEF ValidatePost, stored, Quiet, RowStep
  <2>2. CASE LeaseExpires(s)
    BY <1>1, <2>2 DEF LeaseExpires, memory, RowStep
  <2> QED BY <1>2, <2>1, <2>2 DEF RowStep
<1>3. ASSUME NEW w \in Workers, WorkerStep(w) PROVE RowStep
  <2>1. CASE SaveOutcome(w)
    BY <2>1, SaveIsWhole DEF RowStep
  <2>2. ASSUME phase[w] = "selected", ClaimRow(job[w].sub), UNCHANGED posting PROVE Quiet
    <3>1. job[w].sub \in Submissions /\ row[job[w].sub].status \in Pending
      BY <1>T, <2>2 DEF TypeOK, Jobs, ClaimRow, Claimable, Checking, Pending
    <3> QED BY <1>T, <2>2, <3>1 DEF ClaimRow, TypeOK, Quiet, Pending
  <2>3. CASE ClaimSubmission(w) \/ ClaimInterrupted(w)
    BY <1>1, <2>2, <2>3 DEF ClaimSubmission, ClaimInterrupted, stored, RowStep
  <2>4. CASE ~(SaveOutcome(w) \/ ClaimSubmission(w) \/ ClaimInterrupted(w))
    BY <1>1, <1>3, <2>4 DEF WorkerStep, StartWorker, StopWorker, ReadCompilators, NothingToCheck,
       SelectSubmission, FinishCheck, FailCheck, SaveInterrupted, stored, RowStep
  <2> QED BY <2>1, <2>3, <2>4
<1>4. ASSUME NEW o \in Operators, OperatorStep(o) PROVE RowStep
  <2>1. CASE CommitRetest(o)
    <3> DEFINE S == {s \in Submissions : Retested(s, op[o])}
    <3>1. \A s \in S : Judged(s) /\ active[ProblemOf[s]]
      BY <2>1, SubmissionsAssumption DEF CommitRetest, Retested, LeaseInv, GateInv, RetestsFindActive
    <3>2. Withdrawn(S)
      BY <2>1, <3>1 DEF CommitRetest, Withdrawn
    <3> QED BY <3>2 DEF RowStep
  <2>2. ASSUME NEW isActive \in [Problems -> BOOLEAN], CommitImport(o, isActive) PROVE RowStep
    <3>1. op[o].problems \in SUBSET Problems
      BY <2>2 DEF CommitImport, LeaseInv, GateInv, OperationsHoldGate, Operations
    <3>2. Imported(op[o].problems, isActive)
      BY <2>2 DEF CommitImport, Imported
    <3> QED BY <3>1, <3>2 DEF RowStep
  <2>3. CASE \/ AbandonOperation(o) \/ BeginRetestCompilationErrors(o)
             \/ \E p \in Problems, kind \in RetestKinds : BeginRetest(o, p, kind)
             \/ \E P \in SUBSET Problems : BeginImport(o, P)
    BY <1>1, <2>3 DEF AbandonOperation, BeginRetestCompilationErrors, BeginRetest, BeginImport,
       Enter, stored, RowStep
  <2> QED BY <1>4, <2>1, <2>2, <2>3 DEF OperatorStep
<1>5. ASSUME NEW w \in Workers, AddCompilators(w) PROVE RowStep
  BY <1>1, <1>5 DEF AddCompilators, memory, RowStep
<1>6. ASSUME NEW tested \in SUBSET Workers, DisableCompilators(tested) PROVE RowStep
  BY <1>1, <1>6 DEF DisableCompilators, memory, RowStep
<1>7. CASE Crash
  BY <1>1, <1>7 DEF Crash, stored, RowStep
<1>8. CASE UNCHANGED vars
  BY <1>1, <1>8 DEF vars, RowStep
<1> QED BY <1>2, <1>3, <1>4, <1>5, <1>6, <1>7, <1>8 DEF Next

LEMMA RowNext == LeaseInv /\ TypeOK' /\ RowStep => RowInv'
<1> SUFFICES ASSUME LeaseInv, TypeOK', RowStep PROVE RowInv'
  OBVIOUS
<1>T. TypeOK /\ PostingIsNew /\ RowIsLatestResult /\ OneResultPerRequest
  BY DEF LeaseInv, GateInv, RowInv
<1>1. CASE Quiet
  <2>1. PostingIsNew'
    BY <1>T, <1>1 DEF Quiet, PostingIsNew, Pending
  <2>2. RowIsLatestResult'
    BY <1>T, <1>1 DEF Quiet, RowIsLatestResult, Judged, Pending, Verdicts
  <2>3. OneResultPerRequest'
    BY <1>T, <1>1 DEF Quiet, OneResultPerRequest
  <2> QED BY <2>1, <2>2, <2>3 DEF RowInv
<1>2. ASSUME NEW s \in Submissions, InsertSubmission(s) PROVE RowInv'
  <2>1. row[s].status = "absent" /\ requested[s] = 0 /\ recorded[s] = 0
    BY <1>T, <1>2 DEF InsertSubmission, PostingIsNew, OneResultPerRequest, Pending, TypeOK
  <2>2. row'[s] = [status |-> "queued", score |-> NoScore] /\ requested'[s] = 1
    BY <1>T, <1>2 DEF InsertSubmission, Requeued, TypeOK
  <2>3. \A x \in Submissions \ {s} : row'[x] = row[x] /\ requested'[x] = requested[x]
    BY <1>T, <1>2 DEF InsertSubmission, TypeOK
  <2>4. UNCHANGED <<latest, recorded>> /\ posting' = posting \ {s}
    BY <1>2 DEF InsertSubmission
  <2>5. PostingIsNew'
    BY <1>T, <2>2, <2>3, <2>4 DEF PostingIsNew
  <2>6. RowIsLatestResult'
    BY <1>T, <2>2, <2>3, <2>4 DEF RowIsLatestResult, Judged, Verdicts
  <2>7. OneResultPerRequest'
    BY <1>T, <2>1, <2>2, <2>3, <2>4 DEF OneResultPerRequest, Pending
  <2> QED BY <2>5, <2>6, <2>7 DEF RowInv
<1>3. ASSUME NEW s \in Submissions, NEW r \in Results, Saved(s, r) PROVE RowInv'
  <2>1. r.status \in Verdicts
    BY ResultsAssumption
  <2>2. row'[s] = [status |-> r.status, score |-> r.score]
        /\ latest'[s] = [status |-> r.status, score |-> r.score, tests |-> tests[ProblemOf[s]]]
        /\ recorded'[s] = recorded[s] + 1
    BY <1>T, <1>3 DEF Saved, TypeOK
  <2>3. \A x \in Submissions \ {s} :
          row'[x] = row[x] /\ latest'[x] = latest[x] /\ recorded'[x] = recorded[x]
    BY <1>T, <1>3 DEF Saved, TypeOK
  <2>4. UNCHANGED <<requested, posting>> /\ Checking(s)
    BY <1>3 DEF Saved
  <2>5. PostingIsNew'
    BY <1>T, <2>1, <2>2, <2>3, <2>4 DEF PostingIsNew, Checking, Verdicts
  <2>6. latest'[s] # None
    BY <1>T, <1>3, <2>1, <2>2, SubmissionsAssumption, ResultsAssumption, NoneAssumption
    DEF CheckResults, TypeOK
  <2>7. RowIsLatestResult'
    BY <1>T, <2>1, <2>2, <2>3, <2>6 DEF RowIsLatestResult, Judged
  <2>8. OneResultPerRequest'
    BY <1>T, <2>1, <2>2, <2>3, <2>4 DEF OneResultPerRequest, Pending, Verdicts, Checking, TypeOK
  <2> QED BY <2>5, <2>7, <2>8 DEF RowInv
<1>4. ASSUME NEW S \in SUBSET Submissions, Withdrawn(S) PROVE RowInv'
  <2>1. \A s \in S : /\ Judged(s) /\ row'[s] = [status |-> "queued", score |-> NoScore]
                     /\ requested'[s] = requested[s] + 1
    BY <1>4 DEF Withdrawn, Requeued
  <2>2. \A s \in Submissions \ S : row'[s] = row[s] /\ requested'[s] = requested[s]
    BY <1>4 DEF Withdrawn
  <2>3. UNCHANGED <<latest, recorded, posting>>
    BY <1>4 DEF Withdrawn
  <2>4. PostingIsNew'
    BY <1>T, <2>1, <2>2, <2>3 DEF PostingIsNew, Judged, Verdicts
  <2>5. RowIsLatestResult'
    BY <1>T, <2>1, <2>2, <2>3 DEF RowIsLatestResult, Judged, Verdicts
  <2>6. \A s \in S : row[s].status \notin Pending /\ row'[s].status \in Pending
    BY <2>1 DEF Judged, Verdicts, Pending
  <2>7. \A s \in S : requested'[s] = recorded'[s] + 1
    BY <1>T, <2>1, <2>3, <2>6 DEF OneResultPerRequest, TypeOK
  <2>8. OneResultPerRequest'
    BY <1>T, <2>2, <2>3, <2>6, <2>7 DEF OneResultPerRequest
  <2> QED BY <2>4, <2>5, <2>8 DEF RowInv
<1>5. ASSUME NEW P \in SUBSET Problems, NEW isActive \in [Problems -> BOOLEAN], Imported(P, isActive)
      PROVE  RowInv'
  BY <1>T, <1>5 DEF Imported, RowInv, PostingIsNew, RowIsLatestResult, OneResultPerRequest, Judged
<1> QED BY <1>1, <1>2, <1>3, <1>4, <1>5 DEF RowStep

LEMMA LeaseNext == ~ChecksMayOutliveLease /\ LeaseInv /\ [Next]_vars => LeaseInv'
  BY TypeNext, GateNext, ClaimNext, StepShape, RowNext DEF LeaseInv, GateInv

LEMMA LeaseInductive == ~ChecksMayOutliveLease /\ Spec => []LeaseInv
<1>1. ASSUME ~ChecksMayOutliveLease PROVE Spec => []LeaseInv
  <2>1. LeaseInv /\ [Next]_vars => LeaseInv'
    BY <1>1, LeaseNext
  <2> QED BY <2>1, LeaseInit, PTL DEF Spec
<1> QED BY <1>1

-----------------------------------------------------------------------------
(***************************************************************************)
(* The promises of the queue, under the assumption that no check outlives  *)
(* its lease: without it the runs "overtaken" and "torn" refute them.      *)
(***************************************************************************)

(* TryCheckFromDB: a submission is judged by one worker at a time, its row *)
(* says so, and nobody else can claim it meanwhile.                        *)
THEOREM ChecksExclude == ~ChecksMayOutliveLease /\ Spec => []ExclusiveCheck
  BY LeaseInductive, PTL DEF LeaseInv, ClaimInv

(* No import and no retest overtakes a check: it runs on the tests the     *)
(* problem has and answers the latest request.                             *)
THEOREM ChecksAreFresh == ~ChecksMayOutliveLease /\ Spec => []FreshCheck
<1>1. LeaseInv => FreshCheck
  BY DEF LeaseInv, ClaimInv, LoadedIsCurrent, FreshCheck, InFlight
<1> QED BY <1>1, LeaseInductive, PTL

(* EnsureIdleAsync does what it is there for: while an import or a retest  *)
(* holds the gate, no submission of its problems is in any runner's hands. *)
THEOREM OperationsRunAlone == ~ChecksMayOutliveLease /\ Spec => []NoChangeUnderCheck
<1>1. LeaseInv => NoChangeUnderCheck
  BY SubmissionsAssumption DEF LeaseInv, ClaimInv, GateInv, ExclusiveCheck, OperationsFindIdle, Idle, SubmissionsOf,
     NoChangeUnderCheck
<1> QED BY <1>1, LeaseInductive, PTL

(* Status and score of a judged row come from the same, newest result.     *)
THEOREM RowsAreWhole == ~ChecksMayOutliveLease /\ Spec => []RowIsLatestResult
  BY LeaseInductive, PTL DEF LeaseInv, RowInv

(* Each insertion and each retest is answered by exactly one check result. *)
THEOREM RequestsAnsweredOnce == ~ChecksMayOutliveLease /\ Spec => []OneResultPerRequest
  BY LeaseInductive, PTL DEF LeaseInv, RowInv

(* Only a retest takes a verdict back; no save of a worker does.           *)
THEOREM OnlyRetestsWithdraw == ~ChecksMayOutliveLease /\ Spec => VerdictsStand
<1> DEFINE Stand == \A s \in Submissions : Judged(s) /\ row'[s] # row[s] =>
                      row'[s].status = "queued" /\ requested'[s] = requested[s] + 1
<1>1. ASSUME LeaseInv, RowStep PROVE Stand
  <2>T. TypeOK /\ PostingIsNew
    BY <1>1 DEF LeaseInv, GateInv, RowInv
  <2>1. CASE Quiet
    BY <2>1 DEF Quiet, Judged, Verdicts, Pending
  <2>2. ASSUME NEW s \in Submissions, InsertSubmission(s) PROVE Stand
    BY <2>T, <2>2 DEF InsertSubmission, PostingIsNew, Judged, Verdicts, TypeOK
  <2>3. ASSUME NEW s \in Submissions, NEW r \in Results, Saved(s, r) PROVE Stand
    BY <2>T, <2>3 DEF Saved, Checking, Judged, Verdicts, TypeOK
  <2>4. ASSUME NEW S \in SUBSET Submissions, Withdrawn(S) PROVE Stand
    BY <2>4 DEF Withdrawn, Requeued
  <2>5. ASSUME NEW P \in SUBSET Problems, NEW isActive \in [Problems -> BOOLEAN], Imported(P, isActive)
        PROVE  Stand
    BY <2>5 DEF Imported
  <2> QED BY <1>1, <2>1, <2>2, <2>3, <2>4, <2>5 DEF RowStep
<1>2. LeaseInv /\ [Next]_vars => [Stand]_vars
  BY <1>1, StepShape
<1> QED BY <1>2, LeaseInductive, PTL DEF Spec, VerdictsStand

-----------------------------------------------------------------------------
(***************************************************************************)
(* Refinement of module Judging.                                           *)
(***************************************************************************)
LEMMA PromiseInit == Init => Promise!Init
<1> SUFFICES ASSUME Init PROVE Promise!Init
  OBVIOUS
<1>1. \A s \in Submissions : Shown(s) = Promise!Absent
  BY DEF Init, Shown, Judged, Verdicts, Pending, Promise!Absent
<1> QED BY <1>1 DEF Init, Promise!Init

LEMMA PromiseNext == LeaseInv /\ TypeOK' /\ RowStep => [Promise!Next]_(Promise!vars)
<1> SUFFICES ASSUME LeaseInv, TypeOK', RowStep PROVE [Promise!Next]_(Promise!vars)
  OBVIOUS
<1> DEFINE verdict == [s \in Submissions |-> Shown(s)]
<1>T. TypeOK /\ PostingIsNew /\ RowIsLatestResult
  BY DEF LeaseInv, GateInv, RowInv
<1>1. ASSUME NEW s \in Submissions, row'[s] = row[s], latest'[s] = latest[s] PROVE Shown(s)' = Shown(s)
  BY <1>1 DEF Shown, Judged
<1>2. CASE Quiet
  <2>1. \A s \in Submissions : Shown(s)' = Shown(s)
    BY <1>1, <1>2 DEF Quiet, Shown, Judged, Pending, Verdicts
  <2> QED BY <1>2, <2>1 DEF Quiet, Promise!vars
<1>3. ASSUME NEW s \in Submissions, InsertSubmission(s) PROVE Promise!Submit(s)
  <2>1. \A x \in Submissions \ {s} : row'[x] = row[x] /\ latest'[x] = latest[x]
    BY <1>T, <1>3 DEF InsertSubmission, TypeOK
  <2>2. row[s].status = "absent" /\ row[s].score = NoScore
    BY <1>T, <1>3 DEF InsertSubmission, PostingIsNew, RowIsLatestResult, Judged, Verdicts
  <2>3. row'[s] = [status |-> "queued", score |-> NoScore]
    BY <1>T, <1>3 DEF InsertSubmission, Requeued, TypeOK
  <2>4. Shown(s) = Promise!Absent
    BY <2>2 DEF Shown, Judged, Verdicts, Pending, Promise!Absent
  <2>5. Shown(s)' = Promise!Pending
    BY <2>3 DEF Shown, Judged, Verdicts, Pending, Promise!Pending
  <2>6. UNCHANGED <<tests, active>>
    BY <1>3 DEF InsertSubmission
  <2> QED BY <1>1, <2>1, <2>4, <2>5, <2>6 DEF Promise!Submit
<1>4. ASSUME NEW s \in Submissions, NEW r \in Results, Saved(s, r) PROVE Promise!Judge(s, r)
  <2>1. \A x \in Submissions \ {s} : row'[x] = row[x] /\ latest'[x] = latest[x]
    BY <1>T, <1>4 DEF Saved, TypeOK
  <2>2. r.status \in Verdicts
    BY ResultsAssumption
  <2>3. row[s].status = "checking" /\ row[s].score = NoScore
    BY <1>T, <1>4 DEF Saved, Checking, RowIsLatestResult, Judged, Verdicts
  <2>4. row'[s] = [status |-> r.status, score |-> r.score] /\ latest'[s].tests = tests[ProblemOf[s]]
    BY <1>T, <1>4 DEF Saved, TypeOK
  <2>5. Shown(s) = Promise!Pending
    BY <2>3 DEF Shown, Judged, Verdicts, Pending, Promise!Pending
  <2>6. Shown(s)' = [status |-> r.status, score |-> r.score, tests |-> tests[ProblemOf[s]]]
    BY <2>2, <2>4 DEF Shown, Judged, Verdicts, Pending
  <2>7. active[ProblemOf[s]] /\ tests[ProblemOf[s]] > 0 /\ UNCHANGED <<tests, active>>
    BY <1>4 DEF Saved
  <2> QED BY <1>1, <2>1, <2>5, <2>6, <2>7 DEF Promise!Judge
<1>5. ASSUME NEW S \in SUBSET Submissions, Withdrawn(S) PROVE Promise!Retest(S)
  <2>1. \A s \in S : Judged(s) /\ row'[s] = [status |-> "queued", score |-> NoScore]
    BY <1>5 DEF Withdrawn, Requeued
  <2>2. \A s \in Submissions \ S : row'[s] = row[s] /\ latest'[s] = latest[s]
    BY <1>5 DEF Withdrawn
  <2>3. \A s \in S : Shown(s)' = Promise!Pending
    BY <2>1 DEF Shown, Judged, Verdicts, Pending, Promise!Pending
  <2>4. \A s \in S : Shown(s).status \notin {"absent", "pending"}
    BY <2>1 DEF Shown, Judged, Verdicts, Pending
  <2>5. \A s \in S : active[ProblemOf[s]]
    BY <1>5 DEF Withdrawn
  <2>6. UNCHANGED <<tests, active>>
    BY <1>5 DEF Withdrawn
  <2> QED BY <1>1, <2>2, <2>3, <2>4, <2>5, <2>6 DEF Promise!Retest, Promise!Judged
<1>6. ASSUME NEW P \in SUBSET Problems, NEW isActive \in [Problems -> BOOLEAN], Imported(P, isActive)
      PROVE  Promise!Import(P, isActive)
  BY <1>1, <1>6 DEF Imported, Promise!Import
<1> QED BY <1>2, <1>3, <1>4, <1>5, <1>6 DEF RowStep, Promise!Next

(* Seen through the rows, the workers with their leases, crashes and       *)
(* half-done steps are one judge that gives whole verdicts on current      *)
(* tests.                                                                  *)
THEOREM QueueImplementsJudging == ~ChecksMayOutliveLease /\ Spec => ImplementsJudging
<1>1. LeaseInv /\ LeaseInv' /\ [Next]_vars => [Promise!Next]_(Promise!vars)
  BY StepShape, PromiseNext DEF LeaseInv, GateInv
<1> QED BY <1>1, LeaseInductive, PromiseInit, PTL DEF Spec, ImplementsJudging, Promise!Spec
=============================================================================

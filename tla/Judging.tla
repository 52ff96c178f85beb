------------------------------- MODULE Judging -------------------------------
(***************************************************************************)
(* What the queue promises, without workers, gate, leases or faults: a     *)
(* submission is judged in one step, as a whole, on the tests its problem  *)
(* has at that moment, and keeps that verdict until it is retested.        *)
(***************************************************************************)
EXTENDS Naturals

CONSTANTS Submissions, Problems, ProblemOf, Results, NoScore

VARIABLES
  verdict,  \* what the site shows for each submission
  tests,    \* the version of each problem's tests
  active    \* whether the problem is in use

vars == <<verdict, tests, active>>

Absent == [status |-> "absent", score |-> NoScore, tests |-> 0]
Pending == [status |-> "pending", score |-> NoScore, tests |-> 0]
Judged(s) == verdict[s].status \notin {"absent", "pending"}

Init ==
  /\ verdict = [s \in Submissions |-> Absent]
  /\ tests \in [Problems -> {0, 1}]
  /\ active \in [Problems -> BOOLEAN]

Submit(s) ==
  /\ verdict[s] = Absent
  /\ verdict' = [verdict EXCEPT ![s] = Pending]
  /\ UNCHANGED <<tests, active>>

Judge(s, r) ==
  /\ verdict[s] = Pending
  /\ active[ProblemOf[s]] /\ tests[ProblemOf[s]] > 0
  /\ verdict' = [verdict EXCEPT ![s] = [status |-> r.status, score |-> r.score,
                                        tests |-> tests[ProblemOf[s]]]]
  /\ UNCHANGED <<tests, active>>

(* Verdicts of active problems are withdrawn, many at once.                *)
Retest(S) ==
  /\ \A s \in S : Judged(s) /\ active[ProblemOf[s]]
  /\ verdict' = [s \in Submissions |-> IF s \in S THEN Pending ELSE verdict[s]]
  /\ UNCHANGED <<tests, active>>

(* New tests for some problems; the verdicts given so far stay.            *)
Import(P, isActive) ==
  /\ tests' = [p \in Problems |-> IF p \in P THEN tests[p] + 1 ELSE tests[p]]
  /\ active' = [p \in Problems |-> IF p \in P THEN isActive[p] ELSE active[p]]
  /\ UNCHANGED verdict

Next ==
  \/ \E s \in Submissions : Submit(s) \/ \E r \in Results : Judge(s, r)
  \/ \E S \in SUBSET Submissions : Retest(S)
  \/ \E P \in SUBSET Problems, isActive \in [Problems -> BOOLEAN] : Import(P, isActive)

Spec == Init /\ [][Next]_vars
=============================================================================

----------------------------- MODULE ContestRules -----------------------------
(***************************************************************************)
(* The published rules of the contests (Pages/Rules.cshtml, 3.12 and 5.10, *)
(* which the tests of the standing take up), beside the standing that the  *)
(* code computes.  They are about teams and not about schools.  The two    *)
(* disagree in three ways, and agree otherwise:                            *)
(*  - of teams with as many problems in the same time, the rules put first *)
(*    the one that solved its last problem earlier, the code sorts by name *)
(*    (Standing.cs:106);                                                   *)
(*  - the rules count whole minutes, the code exact times (:26);           *)
(*  - by the rules a solution that failed a test is wrong, in the code it  *)
(*    is a success if it has points (:44).                                 *)
(***************************************************************************)
EXTENDS Standings

CONSTANT Minute   \* in units of the clock

ASSUME MinuteAssumption == Minute \in Nat \ {0}

(* What counts at the end of the contest; a program that does not compile  *)
(* is no attempt.                                                          *)
Sent(u, p) ==
  {s \in submissions :
     /\ s.user = u /\ s.problem = p
     /\ StartTime <= s.time /\ s.time <= EndTime
     /\ s.verdict.status \in {"accepted", "rejected"}}

Accepted(u, p) == {s \in Sent(u, p) : s.verdict.status = "accepted"}
Solved(u) == {p \in Problems : Accepted(u, p) # {}}
SolvedAt(u, p) == Min({s.time : s \in Accepted(u, p)})
Wrong(u, p) == {s \in Sent(u, p) : s.time < SolvedAt(u, p)}

(* Whole minutes until a problem was solved, and a penalty for each wrong  *)
(* solution before; nothing for problems that were not solved.             *)
PenaltyTime(u) ==
  MapThenSumSet(LAMBDA p : Minute * ((SolvedAt(u, p) - StartTime) \div Minute)
                           + Penalty * Cardinality(Wrong(u, p)),
                Solved(u))

(* The official table, with everything that is known.                      *)
Table == NewStanding(TRUE, TRUE, None)
Place(u) == CHOOSE i \in DOMAIN Table : Table[i].user = u
Teams == {Table[i].user : i \in DOMAIN Table}

RulesApply == ~contest.school /\ AtDifferentTimes
WithoutPoints == \A p \in Problems : \A v \in contest.verdicts[p] : v.score = NoScore
AtWholeMinutes == \A s \in submissions : (s.time - StartTime) % Minute = 0

-----------------------------------------------------------------------------
=============================================================================

---------------------------- MODULE MCCheckQueue ----------------------------
(* Small instances of CheckQueue for TLC.                                  *)
EXTENDS CheckQueue, TLC

CONSTANTS p1, p2, c1, c2, w1, w2

OneProblem == [s \in Submissions |-> p1]
OneCompilator == [s \in Submissions |-> c1]
AllOffered == [w \in Workers |-> Compilators]

(* One submission for each of two problems, in two languages, only one of  *)
(* which the first runner knows.                                           *)
TwoProblems == [s \in Submissions |-> IF s = 1 THEN p1 ELSE p2]
TwoCompilators == [s \in Submissions |-> IF s = 1 THEN c1 ELSE c2]
UnequalOffers == [w \in Workers |-> IF w = w1 THEN {c1} ELSE {c1, c2}]

(* A compilation error has no score; the others differ in theirs.          *)
SchoolResults ==
  {[status |-> "accepted", score |-> 100],
   [status |-> "failed", score |-> 40],
   [status |-> "compilation_error", score |-> NoScore]}
SchoolScores == {40, 100}

WorkerSymmetry == Permutations(Workers)
=============================================================================

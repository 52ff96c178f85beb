----------------------------- MODULE MCStandings -----------------------------
(* A small instance of Standings and ContestRules for TLC: three contests, *)
(* with their participants and others who submit.  Times are in minutes, and *)
(* the penalty of twenty is scaled down to two.                            *)
EXTENDS ContestRules

Participant ==
  [competitor |-> TRUE, approved |-> TRUE, out |-> FALSE, disqualified |-> FALSE,
   hidden |-> FALSE, jury |-> FALSE]
Guest == [Participant EXCEPT !.out = TRUE]
Disqualified == [Participant EXCEPT !.disqualified = TRUE]
Visitor == [Participant EXCEPT !.competitor = FALSE]
Jury == [Visitor EXCEPT !.jury = TRUE]

(* Tests without points, and tests with.                                   *)
Plain == {Verdict("accepted", NoScore), Verdict("rejected", NoScore),
          Verdict("compilation error", NoScore)}
Scored == {Verdict("accepted", 100), Verdict("rejected", 60), Verdict("rejected", 0)}

SomeContests ==
  {[school |-> FALSE, open |-> FALSE, verdicts |-> [q \in Problems |-> Plain], cast |-> <<Participant, Guest, Disqualified>>],
   [school |-> TRUE, open |-> TRUE, verdicts |-> [q \in Problems |-> Scored], cast |-> <<Participant, Visitor, Disqualified>>],
   [school |-> FALSE, open |-> FALSE, verdicts |-> [q \in Problems |-> Scored], cast |-> <<Participant, Jury, Disqualified>>]}
==============================================================================

------------------------------ MODULE Standings ------------------------------
(***************************************************************************)
(* The standing of a contest (Standing.Create), computed from the          *)
(* submissions whenever somebody opens the page, while participants        *)
(* submit, submissions are judged and judged again, and the clock passes   *)
(* the start, the freeze and the end.                                      *)
(***************************************************************************)
EXTENDS Integers, SequencesExt

CONSTANTS
  Users,           \* authors of submissions; numbers, in the order of their names
  Problems,
  Contests,        \* records of whether it is a school's, and open, the verdicts of each
                   \* problem's tests, and its cast: who each user is
  Starts,          \* of virtual standings
  StartTime, EndTime, FreezeTime,
  Penalty,         \* for an attempt that failed, in units of the clock
  MaxSubmissions, MaxTime,   \* bounds
  None             \* no time, or nobody

Duration == EndTime - StartTime
Times == 0..MaxTime

VARIABLES
  now,             \* DateTimeOffset.Now
  contest,         \* one of Contests, does not change
  freezeTime,      \* Contest.FreezeTime
  submissions

vars == <<now, contest, freezeTime, submissions>>

(* Status codes.  Verdicts of tests without points leave the score empty,  *)
(* which is less than any other.                                           *)
Statuses == {"in queue", "accepted", "rejected", "compilation error"}
NoScore == -1
Verdict(status, score) == [status |-> status, score |-> score]
InQueue == Verdict("in queue", NoScore)
Verdicts ==
  {v \in [status : Statuses, score : {NoScore} \cup Nat] :
     /\ v.status \in {"in queue", "compilation error"} => v.score = NoScore
     /\ v.status = "accepted" => v.score # 0}

(* The tests of a problem have points, or they have none.                  *)
PointsOrNone(verdicts) ==
  \/ \A v \in verdicts : v.score = NoScore
  \/ \A v \in verdicts : v.score = NoScore => v.status = "compilation error"

ASSUME StandingsAssumption ==
  /\ Users \subseteq Nat /\ IsFiniteSet(Users) /\ IsFiniteSet(Problems)
  /\ Penalty \in Nat /\ MaxSubmissions \in Nat /\ MaxTime \in Nat
  /\ StartTime \in Nat /\ EndTime \in Nat
  /\ FreezeTime \in StartTime..EndTime /\ None \notin Int /\ Starts \subseteq Nat
  /\ \A c \in Contests, p \in Problems :
       c.verdicts[p] \subseteq Verdicts \ {InQueue} /\ PointsOrNone(c.verdicts[p])

(* The current verdict of a submission is part of it.                      *)
Submissions ==
  {s \in [id : 1..MaxSubmissions, user : Users, problem : Problems, time : Times,
          verdict : Verdicts] :
     s.verdict \in {InQueue} \cup contest.verdicts[s.problem]}

TypeOK ==
  /\ now \in Times /\ contest \in Contests
  /\ freezeTime \in {FreezeTime, None}
  /\ submissions \subseteq Submissions
  /\ \A s \in submissions : s.time <= now
  /\ \A s, q \in submissions : s.id = q.id => s = q

Init ==
  /\ now = 0 /\ contest \in Contests
  /\ freezeTime = FreezeTime
  /\ submissions = {}

-----------------------------------------------------------------------------
(***************************************************************************)
(* The standing of contest c, from the submissions it counts.              *)
(***************************************************************************)
Competitors(c, official) ==
  {u \in Users :
     LET who == c.cast[u]
     IN /\ who.competitor /\ who.approved /\ ~who.hidden
        /\ official => ~who.out /\ ~who.disqualified}

(* With their own clock, authors of submissions are all there is.          *)
Listed(c, official, counted, virtual) ==
  (IF virtual THEN {} ELSE Competitors(c, official)) \cup
  (IF official THEN {} ELSE {u \in {s.user : s \in counted} : ~c.cast[u].hidden})

Earliest(found) == CHOOSE s \in found : \A q \in found : s.time <= q.time

(* Plausible mistakes stand before the definitions they replace in the     *)
(* project's mutation runs.                                                *)
BestIsLast(found) ==
  CHOOSE s \in found : \A q \in found :
    \/ s.verdict.score > q.verdict.score
    \/ s.verdict.score = q.verdict.score /\ s.time >= q.time
(* The highest score, and then the earliest.                               *)
Best(found) ==
  CHOOSE s \in found : \A q \in found :
    \/ s.verdict.score > q.verdict.score
    \/ s.verdict.score = q.verdict.score /\ s.time <= q.time

Successes(found) ==
  {s \in found : s.verdict.status = "accepted" \/ s.verdict.score > 0}

(* What a participant has done with a problem, from the submissions to it. *)
UserProblemStanding(found) ==
  LET isSuccess == Successes(found) # {}
      success == Best(Successes(found))
      sign == {s \in found : /\ s.verdict.status # "compilation error"
                             /\ isSuccess => s.time <= success.time}
  IN [isSuccess |-> isSuccess,
      commitNumber |-> Cardinality(sign),
      score |-> IF ~isSuccess THEN 0
                ELSE IF success.verdict.score = NoScore THEN 1 ELSE success.verdict.score,
      lastCommitTime |-> IF sign = {} THEN None ELSE Max({s.time : s \in sign})]

(* The attempt that succeeded is no reason for a penalty.                  *)
SummaryTime(c, result, startTime) ==
  IF result.isSuccess
  THEN result.lastCommitTime - startTime
       + (IF c.school THEN 0 ELSE Penalty) * (result.commitNumber - 1)
  ELSE 0

(* Who solved the problem first.                                           *)
FirstSuccess(counted, users, p) ==
  LET accepted == {s \in counted : s.problem = p /\ s.user \in users /\ s.verdict.status = "accepted"}
  IN IF accepted = {} THEN None ELSE Earliest(accepted).user

Row(c, u, counted, users, startTime) ==
  LET results == [p \in Problems |->
                    UserProblemStanding({s \in counted : s.user = u /\ s.problem = p})]
  IN [user |-> u,
      results |-> results,
      first |-> {p \in Problems : FirstSuccess(counted, users, p) = u},
      score |-> SumFunction([p \in Problems |-> results[p].score]),
      summaryTime |-> SumFunction([p \in Problems |-> SummaryTime(c, results[p], startTime)])]

Above(x, y) ==
  \/ x.score > y.score
  \/ x.score = y.score /\ x.summaryTime < y.summaryTime
  \/ x.score = y.score /\ x.summaryTime = y.summaryTime /\ x.user < y.user

(* The elements of S, each before those that follow.                       *)
InOrder(S, Before(_, _)) ==
  CHOOSE f \in [1..Cardinality(S) -> S] :
    \A i, j \in DOMAIN f : i < j => Before(f[i], f[j])

(* The rows of those listed, in their order.                               *)
Rows(c, official, counted, virtual, startTime) ==
  LET users == Listed(c, official, counted, virtual)
  IN InOrder({Row(c, u, counted, users, startTime) : u \in users}, Above)

-----------------------------------------------------------------------------
(* What the page shows at this moment.                                     *)
IsFreeze == freezeTime # None /\ now > freezeTime

BeforeFreezeOrAtIt(s) == s.time <= freezeTime
BeforeFreeze(s) == s.time < freezeTime

(* The submissions that count; nobody hides single ones.                   *)
Counted(notFreeze, startTime) ==
  {s \in submissions :
     /\ s.time \in startTime..(startTime + Duration)
     /\ s.verdict.status # "in queue"
     /\ IsFreeze /\ ~notFreeze => BeforeFreeze(s)}

(* A standing is virtual if it has a start of its own.                     *)
NewStanding(official, notFreeze, startTime) ==
  LET start == IF startTime = None THEN StartTime ELSE startTime
  IN Rows(contest, official, Counted(notFreeze, start), startTime # None, start)

-----------------------------------------------------------------------------
(***************************************************************************)
(* What happens to submissions.                                            *)
(***************************************************************************)
Tick ==
  /\ now < MaxTime /\ now' = now + 1
  /\ UNCHANGED <<contest, freezeTime, submissions>>

(* Whether an account that submits in the name of u is allowed to at some  *)
(* moment: the login of a participant, a member of one out of competition, *)
(* anybody in an open contest, the jury.                                   *)
MaySubmit(u, moment) ==
  LET who == contest.cast[u]
  IN \/ who.jury
     \/ /\ ~who.disqualified /\ moment >= StartTime
        /\ IF who.competitor THEN who.approved /\ moment <= EndTime ELSE contest.open

(* The time of a submission is taken some time after the user was allowed  *)
(* to send it.                                                             *)
Submit(u, p) ==
  /\ \E moment \in 0..now : MaySubmit(u, moment)
  /\ LET unused == 1..MaxSubmissions \ {s.id : s \in submissions}
     IN /\ unused # {}
        /\ submissions' = submissions \cup
             {[id |-> CHOOSE id \in unused : TRUE, user |-> u, problem |-> p, time |-> now,
               verdict |-> InQueue]}
  /\ UNCHANGED <<now, contest, freezeTime>>

Judge(s) ==
  /\ s.verdict.status = "in queue"
  /\ \E verdict \in contest.verdicts[s.problem] :
       submissions' = (submissions \ {s}) \cup {[s EXCEPT !.verdict = verdict]}
  /\ UNCHANGED <<now, contest, freezeTime>>

RequeueKeepsScore(found) ==
  /\ found # {}
  /\ submissions' = (submissions \ found) \cup
                    {[s EXCEPT !.verdict.status = "in queue"] : s \in found}
  /\ UNCHANGED <<now, contest, freezeTime>>
(* A problem's submissions, or all that did not compile, are judged again. *)
Requeue(found) ==
  /\ found # {}
  /\ submissions' = (submissions \ found) \cup
                    {[s EXCEPT !.verdict = InQueue] : s \in found}
  /\ UNCHANGED <<now, contest, freezeTime>>

Retest(p, exceptAccepted) ==
  Requeue({s \in submissions : /\ s.problem = p /\ s.verdict.status # "in queue"
                               /\ exceptAccepted => s.verdict.status # "accepted"})

RetestCompilationErrors ==
  Requeue({s \in submissions : s.verdict.status = "compilation error"})

Unfreeze ==
  /\ freezeTime # None /\ freezeTime' = None
  /\ UNCHANGED <<now, contest, submissions>>

Next ==
  \/ Tick \/ Unfreeze \/ RetestCompilationErrors
  \/ \E u \in Users, p \in Problems : Submit(u, p)
  \/ \E s \in submissions : Judge(s)
  \/ \E p \in Problems, exceptAccepted \in BOOLEAN : Retest(p, exceptAccepted)

Spec == Init /\ [][Next]_vars

-----------------------------------------------------------------------------
(***************************************************************************)
(* Correctness.                                                            *)
(***************************************************************************)

(* Once the standing is frozen, no standing that participants can ask for, *)
(* official or not, virtual or not, changes by anything that happens to    *)
(* submissions sent at the freeze or after it: neither points nor order    *)
(* nor who is listed nor who was first.                                    *)
Open == {s \in submissions : s.time < freezeTime}
SameForAll ==
  \A official \in BOOLEAN, startTime \in Starts \cup {None} :
    NewStanding(official, FALSE, startTime)' = NewStanding(official, FALSE, startTime)

FrozenKeepsSecret ==
  [][IsFreeze /\ freezeTime' = freezeTime /\ Open' = Open => SameForAll]_vars

(* What the code means to count, kept by hand: submissions are taken one   *)
(* after the other, and one that is worth more than all before it sets     *)
(* points, time, and a penalty for each attempt before it.  Times are      *)
(* exact, and points of a solution that failed some tests count in every   *)
(* contest; ContestRules has the published rules, which differ.            *)
Worth(verdict) ==
  IF verdict.score # NoScore THEN verdict.score
  ELSE IF verdict.status = "accepted" THEN 1 ELSE 0

KeepScore(score, s) ==
  IF s.verdict.status = "compilation error" THEN score
  ELSE IF Worth(s.verdict) <= score.points THEN [score EXCEPT !.attempts = @ + 1]
  ELSE [points |-> Worth(s.verdict), attempts |-> score.attempts + 1,
        time |-> s.time - StartTime + (IF contest.school THEN 0 ELSE Penalty * score.attempts)]

ScoreOf(u, p, seen) ==
  FoldLeft(KeepScore, [points |-> 0, attempts |-> 0, time |-> 0],
           InOrder({s \in seen : s.user = u /\ s.problem = p}, LAMBDA s, q : s.time < q.time))

(* Submissions of one author to one problem at the same moment count each  *)
(* other as attempts, which the tests know and leave aside.                *)
AtDifferentTimes ==
  \A s, q \in submissions :
    s.user = q.user /\ s.problem = q.problem /\ s.time = q.time => s = q

(* The jury's standing, and everybody's, computed from all submissions at  *)
(* once, is the score as kept by hand: points and time of each who is      *)
(* listed, the order (points, then time, then name), and one first mark    *)
(* for each problem, with the earliest accepted submission.                *)
KeptByHand ==
  AtDifferentTimes => \A official, notFreeze \in BOOLEAN :
    LET table == NewStanding(official, notFreeze, None)
        listed == {table[i].user : i \in DOMAIN table}
        seen == {s \in submissions :
                   /\ StartTime <= s.time /\ s.time <= EndTime
                   /\ s.verdict.status # "in queue"
                   /\ ~notFreeze /\ IsFreeze => s.time < freezeTime}
        marked(p) == {i \in DOMAIN table : p \in table[i].first}
        accepted(p) == {s \in seen : s.problem = p /\ s.user \in listed
                                     /\ s.verdict.status = "accepted"}
    IN /\ \A i \in DOMAIN table :
            LET score == [p \in Problems |-> ScoreOf(table[i].user, p, seen)]
            IN /\ table[i].score = SumFunction([p \in Problems |-> score[p].points])
               /\ table[i].summaryTime = SumFunction([p \in Problems |-> score[p].time])
       /\ \A i, j \in DOMAIN table : i < j =>
            \/ table[i].score > table[j].score
            \/ /\ table[i].score = table[j].score
               /\ \/ table[i].summaryTime < table[j].summaryTime
                  \/ /\ table[i].summaryTime = table[j].summaryTime
                     /\ table[i].user < table[j].user
       /\ \A p \in Problems :
            IF accepted(p) = {} THEN marked(p) = {}
            ELSE \E i \in DOMAIN table, s \in accepted(p) :
                   /\ marked(p) = {i} /\ table[i].user = s.user
                   /\ \A q \in accepted(p) : s.time <= q.time
=============================================================================

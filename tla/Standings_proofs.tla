--------------------------- MODULE Standings_proofs ---------------------------
(***************************************************************************)
(* What is proved about the standing of a contest, for any contests,       *)
(* participants, problems, times and numbers of submissions.               *)
(***************************************************************************)
EXTENDS Standings, FiniteSetTheorems, WellFoundedInduction, TLAPS

LEMMA InQueueIsOne == InQueue \in Verdicts
  BY DEF InQueue, Verdict, Verdicts, Statuses, NoScore

(* A new submission is one, with a key of its own.                         *)
LEMMA SubmitOK ==
  ASSUME TypeOK, NEW u \in Users, NEW p \in Problems, Submit(u, p)
  PROVE  TypeOK'
<1>. DEFINE unused == 1..MaxSubmissions \ {s.id : s \in submissions}
            key == CHOOSE id \in unused : TRUE
            new == [id |-> key, user |-> u, problem |-> p, time |-> now, verdict |-> InQueue]
<1>1. key \in unused
  BY DEF Submit
<1>2. submissions' = submissions \cup {new} /\ UNCHANGED <<now, contest, freezeTime>>
  BY DEF Submit
<1>. HIDE DEF key
<1>3. new \in Submissions /\ new.time <= now
  BY <1>1, StandingsAssumption, InQueueIsOne DEF TypeOK, Submissions, Times
<1>4. \A s \in submissions : s.id # new.id
  BY <1>1
<1>. HIDE DEF new
<1>. QED
  BY <1>2, <1>3, <1>4 DEF TypeOK, Submissions

(* Changing the verdicts of submissions keeps what they are.               *)
LEMMA VerdictsOK ==
  ASSUME TypeOK, NEW found \in SUBSET submissions,
         NEW verdict \in Verdicts,
         \A s \in found : verdict \in {InQueue} \cup contest.verdicts[s.problem],
         submissions' = (submissions \ found) \cup {[s EXCEPT !.verdict = verdict] : s \in found},
         UNCHANGED <<now, contest, freezeTime>>
  PROVE  TypeOK'
<1>1. ASSUME NEW s \in found
      PROVE  LET new == [s EXCEPT !.verdict = verdict]
             IN new \in Submissions /\ new.id = s.id /\ new.time = s.time
  BY <1>1 DEF TypeOK, Submissions
<1>2. submissions' \subseteq Submissions /\ Submissions' = Submissions
  BY <1>1 DEF TypeOK, Submissions
<1>3. ASSUME NEW s \in submissions' PROVE s.time <= now'
  <2>1. PICK s0 \in submissions : s.time = s0.time
    BY <1>1
  <2>. QED
    BY <2>1 DEF TypeOK
<1>4. ASSUME NEW s \in submissions', NEW q \in submissions', s.id = q.id
      PROVE  s = q
  <2>1. PICK s0 \in submissions : /\ s.id = s0.id
                                  /\ s = IF s0 \in found THEN [s0 EXCEPT !.verdict = verdict] ELSE s0
    BY <1>1
  <2>2. PICK q0 \in submissions : /\ q.id = q0.id
                                  /\ q = IF q0 \in found THEN [q0 EXCEPT !.verdict = verdict] ELSE q0
    BY <1>1
  <2>3. s0 = q0
    BY <1>4, <2>1, <2>2 DEF TypeOK
  <2>. QED
    BY <2>1, <2>2, <2>3
<1>. QED
  BY <1>2, <1>3, <1>4 DEF TypeOK

(* Submissions keep their form and their keys, whatever is judged again.   *)
THEOREM TypeCorrect == Spec => []TypeOK
<1>1. Init => TypeOK
  BY StandingsAssumption DEF Init, TypeOK, Times
<1>2. TypeOK /\ [Next]_vars => TypeOK'
  <2>. SUFFICES ASSUME TypeOK, [Next]_vars PROVE TypeOK'
    OBVIOUS
  <2>1. CASE Tick
    <3>1. now' \in Times /\ now < now'
      BY <2>1, StandingsAssumption DEF Tick, TypeOK, Times
    <3>2. \A s \in submissions : s.time <= now'
      BY <3>1, StandingsAssumption DEF TypeOK, Submissions, Times
    <3>. QED
      BY <2>1, <3>1, <3>2 DEF Tick, TypeOK, Submissions
  <2>2. CASE Unfreeze
    BY <2>2 DEF Unfreeze, TypeOK, Submissions
  <2>3. ASSUME NEW found \in SUBSET submissions, Requeue(found) PROVE TypeOK'
    BY <2>3, VerdictsOK, InQueueIsOne DEF Requeue
  <2>4. CASE RetestCompilationErrors
    BY <2>3, <2>4 DEF RetestCompilationErrors
  <2>5. ASSUME NEW p \in Problems, NEW exceptAccepted \in BOOLEAN, Retest(p, exceptAccepted)
        PROVE  TypeOK'
    BY <2>3, <2>5 DEF Retest
  <2>6. ASSUME NEW u \in Users, NEW p \in Problems, Submit(u, p) PROVE TypeOK'
    BY <2>6, SubmitOK
  <2>7. ASSUME NEW s \in submissions, Judge(s) PROVE TypeOK'
    <3>1. PICK verdict \in contest.verdicts[s.problem] :
            submissions' = (submissions \ {s}) \cup {[s EXCEPT !.verdict = verdict]}
      BY <2>7 DEF Judge
    <3>4. verdict \in Verdicts
      <4>1. contest \in Contests /\ s.problem \in Problems
        BY DEF TypeOK, Submissions
      <4>. QED
        BY <4>1, StandingsAssumption
    <3>2. submissions' = (submissions \ {s}) \cup {[q EXCEPT !.verdict = verdict] : q \in {s}}
      BY <3>1
    <3>3. UNCHANGED <<now, contest, freezeTime>> /\ {s} \in SUBSET submissions
      BY <2>7 DEF Judge
    <3>. QED
      BY <3>2, <3>3, <3>4, VerdictsOK
  <2>8. CASE UNCHANGED vars
    BY <2>8 DEF vars, TypeOK, Submissions
  <2>. QED
    BY <2>1, <2>2, <2>4, <2>5, <2>6, <2>7, <2>8 DEF Next
<1>. QED
  BY <1>1, <1>2, PTL DEF Spec

-----------------------------------------------------------------------------
(* A frozen standing stays frozen while its freeze is not changed.         *)
LEMMA StaysFrozen ==
  ASSUME TypeOK, IsFreeze, freezeTime' = freezeTime, [Next]_vars
  PROVE  IsFreeze' /\ contest' = contest
<1>1. now \in Nat /\ freezeTime \in Int
  BY StandingsAssumption DEF TypeOK, Times, IsFreeze
<1>2. now' = now \/ now' = now + 1
  BY DEF Next, vars, Tick, Unfreeze, RetestCompilationErrors, Submit, Judge, Retest, Requeue
<1>3. contest' = contest
  BY DEF Next, vars, Tick, Unfreeze, RetestCompilationErrors, Submit, Judge, Retest, Requeue
<1>. QED
  BY <1>1, <1>2, <1>3 DEF IsFreeze

(* A step that leaves the submissions from before the freeze alone changes *)
(* no standing that is frozen: it counts just those.                       *)
LEMMA SecretStep ==
  ASSUME TypeOK, [Next]_vars, IsFreeze, freezeTime' = freezeTime, Open' = Open
  PROVE  SameForAll
<1>1. IsFreeze' /\ contest' = contest
  BY StaysFrozen
<1>2. ASSUME NEW CONSTANT official, NEW CONSTANT startTime
      PROVE  NewStanding(official, FALSE, startTime)' = NewStanding(official, FALSE, startTime)
  <2>. DEFINE start == IF startTime = None THEN StartTime ELSE startTime
              Judged(open) == {s \in open : /\ s.time \in start..(start + Duration)
                                           /\ s.verdict.status # "in queue"}
  <2>1. Counted(FALSE, start)' = Judged(Open')
    BY <1>1 DEF Counted, BeforeFreeze, Open
  <2>2. Counted(FALSE, start) = Judged(Open)
    BY DEF Counted, BeforeFreeze, Open
  <2>3. Rows(contest', official, Counted(FALSE, start)', startTime # None, start)
          = Rows(contest, official, Counted(FALSE, start), startTime # None, start)
    BY <1>1, <2>1, <2>2
  <2>. QED
    BY <2>3 DEF NewStanding
<1>. QED
  BY <1>2 DEF SameForAll

(* A frozen standing tells nothing of submissions sent at the freeze or    *)
(* after it, however they are judged and judged again.                     *)
THEOREM SecretKept == Spec => FrozenKeepsSecret
<1>1. TypeOK /\ [Next]_vars
        => [IsFreeze /\ freezeTime' = freezeTime /\ Open' = Open => SameForAll]_vars
  BY SecretStep
<1>. QED
  BY <1>1, TypeCorrect, PTL DEF Spec, FrozenKeepsSecret

-----------------------------------------------------------------------------
(***************************************************************************)
(* Sums over finite sets.  The library's induction over finite sets is     *)
(* used in the form of a smallest counterexample.                          *)
(***************************************************************************)
LEMMA Smallest ==
  ASSUME NEW S, IsFiniteSet(S), NEW F \in SUBSET SUBSET S, F # {}
  PROVE  \E T \in F : \A U \in F : ~(U \subseteq T /\ U # T)
<1>1. IsWellFoundedOn(StrictSubsetOrdering(S), SUBSET S)
  BY FS_StrictSubsetOrderingWellFounded, FS_FiniteSubsetsOfFinite
<1>2. \E T \in F : \A U \in F : ~(<<U, T>> \in StrictSubsetOrdering(S))
  BY <1>1, WFMin
<1>. QED
  BY <1>2 DEF StrictSubsetOrdering

(* The function behind the sum of f over S.                                *)
OneOf(T) == CHOOSE x \in T : TRUE
Plus(f, g, T) == IF T = {} THEN 0 ELSE f[OneOf(T)] + g[T \ {OneOf(T)}]
Adds(f, S, g) == g = [T \in SUBSET S |-> Plus(f, g, T)]
Adder(f, S) == CHOOSE g : Adds(f, S, g)
Sum(f, S) == Adder(f, S)[S]

LEMMA SumIsFold ==
  ASSUME NEW f, NEW S
  PROVE  SumFunctionOnSet(f, S) = Sum(f, S)
  BY DEF SumFunctionOnSet, FoldFunctionOnSet, MapThenFoldSet, Sum, Adder, Adds, Plus, OneOf

LEMMA OneOfBelongs == \A T : T # {} => OneOf(T) \in T
  BY DEF OneOf

LEMMA AddersAgree ==
  ASSUME NEW f, NEW S, IsFiniteSet(S), NEW S1, NEW S2, S \subseteq S1, S \subseteq S2,
         NEW g, NEW h, Adds(f, S1, g), Adds(f, S2, h)
  PROVE  g[S] = h[S]
<1>. DEFINE F == {T \in SUBSET S : g[T] # h[T]}
<1>1. SUFFICES ASSUME F # {} PROVE FALSE
  OBVIOUS
<1>2. PICK T \in F : \A U \in F : ~(U \subseteq T /\ U # T)
  <2>1. F \in SUBSET SUBSET S
    OBVIOUS
  <2>. HIDE DEF F
  <2>. QED
    BY <1>1, <2>1, Smallest
<1>3. g[T] = Plus(f, g, T) /\ h[T] = Plus(f, h, T)
  BY <1>2 DEF Adds
<1>4. CASE T = {}
  BY <1>2, <1>3, <1>4 DEF Plus
<1>5. CASE T # {}
  <2>1. T \ {OneOf(T)} # T /\ T \ {OneOf(T)} \in SUBSET S
    BY <1>5, OneOfBelongs
  <2>2. g[T \ {OneOf(T)}] = h[T \ {OneOf(T)}]
    BY <1>2, <2>1
  <2>. QED
    BY <1>2, <1>3, <1>5, <2>2 DEF Plus
<1>. QED
  BY <1>4, <1>5

LEMMA AdderAdds ==
  ASSUME NEW f, NEW S, IsFiniteSet(S)
  PROVE  Adds(f, S, Adder(f, S))
<1>. DEFINE F == {T \in SUBSET S : ~\E g : Adds(f, T, g)}
<1>1. SUFFICES ASSUME F # {} PROVE FALSE
  BY DEF Adder
<1>2. PICK T \in F : \A U \in F : ~(U \subseteq T /\ U # T)
  <2>1. F \in SUBSET SUBSET S
    OBVIOUS
  <2>. HIDE DEF F
  <2>. QED
    BY <1>1, <2>1, Smallest
<1>3. \A U \in SUBSET T : U # T => Adds(f, U, Adder(f, U))
  BY <1>2 DEF Adder
<1>. DEFINE Rest(U) == U \ {OneOf(U)}
            g == [U \in SUBSET T |-> IF U = {} THEN 0 ELSE f[OneOf(U)] + Adder(f, Rest(U))[Rest(U)]]
<1>4. ASSUME NEW U \in SUBSET T, U # T PROVE g[U] = Adder(f, U)[U]
  <2>1. Adder(f, U)[U] = Plus(f, Adder(f, U), U)
    BY <1>3, <1>4 DEF Adds
  <2>2. CASE U = {}
    BY <2>1, <2>2 DEF Plus
  <2>3. CASE U # {}
    <3>1. Rest(U) \in SUBSET T /\ Rest(U) # T /\ Rest(U) \subseteq U
      BY <1>4
    <3>2. IsFiniteSet(Rest(U))
      BY <1>2, <3>1, FS_Subset
    <3>3. Adds(f, U, Adder(f, U)) /\ Adds(f, Rest(U), Adder(f, Rest(U)))
      BY <1>3, <1>4, <3>1
    <3>4. Adder(f, U)[Rest(U)] = Adder(f, Rest(U))[Rest(U)]
      <4>. DEFINE R == Rest(U)
      <4>1. R \subseteq U /\ R \subseteq R /\ IsFiniteSet(R)
        BY <3>1, <3>2
      <4>2. Adds(f, U, Adder(f, U)) /\ Adds(f, R, Adder(f, R))
        BY <3>3
      <4>. HIDE DEF R
      <4>3. Adder(f, U)[R] = Adder(f, R)[R]
        BY <4>1, <4>2, AddersAgree
      <4>. QED
        BY <4>3 DEF R
    <3>. QED
      BY <1>4, <2>1, <2>3, <3>4 DEF Plus
  <2>. QED
    BY <2>2, <2>3
<1>5. ASSUME NEW U \in SUBSET T PROVE g[U] = Plus(f, g, U)
  <2>1. CASE U = {}
    BY <2>1 DEF Plus
  <2>2. CASE U # {}
    <3>1. Rest(U) \in SUBSET T /\ Rest(U) # T
      BY <2>2, OneOfBelongs
    <3>2. g[Rest(U)] = Adder(f, Rest(U))[Rest(U)]
      BY <1>4, <3>1
    <3>. QED
      BY <2>2, <3>2 DEF Plus
  <2>. QED
    BY <2>1, <2>2
<1>6. Adds(f, T, g)
  <2>1. g = [U \in SUBSET T |-> g[U]]
    OBVIOUS
  <2>. HIDE DEF g
  <2>. QED
    BY <1>5, <2>1 DEF Adds
<1>. QED
  BY <1>2, <1>6

LEMMA SumEquation ==
  ASSUME NEW f, NEW S, IsFiniteSet(S)
  PROVE  /\ S = {} => Sum(f, S) = 0
         /\ S # {} => Sum(f, S) = f[OneOf(S)] + Sum(f, S \ {OneOf(S)})
<1>. DEFINE R == S \ {OneOf(S)}
<1>1. Adds(f, S, Adder(f, S))
  BY AdderAdds
<1>2. Sum(f, S) = Plus(f, Adder(f, S), S)
  BY <1>1 DEF Adds, Sum
<1>3. IsFiniteSet(R) /\ R \subseteq S
  BY FS_Subset
<1>4. Adds(f, R, Adder(f, R))
  BY <1>3, AdderAdds
<1>5. Adder(f, S)[R] = Adder(f, R)[R]
  BY <1>1, <1>3, <1>4, AddersAgree
<1>. QED
  BY <1>2, <1>5 DEF Plus, Sum

LEMMA SumType ==
  ASSUME NEW f, NEW S, IsFiniteSet(S), \A x \in S : f[x] \in Int
  PROVE  Sum(f, S) \in Int
<1>. DEFINE F == {T \in SUBSET S : Sum(f, T) \notin Int}
<1>1. SUFFICES ASSUME F # {} PROVE FALSE
  OBVIOUS
<1>2. PICK T \in F : \A U \in F : ~(U \subseteq T /\ U # T)
  <2>1. F \in SUBSET SUBSET S
    OBVIOUS
  <2>. HIDE DEF F
  <2>. QED
    BY <1>1, <2>1, Smallest
<1>3. IsFiniteSet(T)
  BY <1>2, FS_Subset
<1>4. T # {}
  <2>1. Sum(f, {}) = 0
    BY SumEquation, FS_EmptySet
  <2>2. Sum(f, T) \notin Int
    BY <1>2
  <2>. HIDE DEF F
  <2>. QED
    BY <2>1, <2>2
<1>5. Sum(f, T) = f[OneOf(T)] + Sum(f, T \ {OneOf(T)}) /\ OneOf(T) \in T
  BY <1>3, <1>4, SumEquation, OneOfBelongs
<1>6. Sum(f, T \ {OneOf(T)}) \in Int
  BY <1>2, <1>5
<1>. QED
  BY <1>2, <1>5, <1>6

-----------------------------------------------------------------------------
(***************************************************************************)
(* Orders, as sets of pairs.                                               *)
(***************************************************************************)
IsOrder(R, S) ==
  /\ \A x, y \in S : x # y => <<x, y>> \in R \/ <<y, x>> \in R
  /\ \A x, y, z \in S : <<x, y>> \in R /\ <<y, z>> \in R => <<x, z>> \in R
  /\ \A x \in S : <<x, x>> \notin R

LEMMA FirstExists ==
  ASSUME NEW S, IsFiniteSet(S), S # {}, NEW R, IsOrder(R, S)
  PROVE  \E x \in S : \A y \in S : y # x => <<x, y>> \in R
<1>. DEFINE IsFirst(x, T) == \A y \in T : y # x => <<x, y>> \in R
            F == {T \in SUBSET S : T # {} /\ ~\E x \in T : IsFirst(x, T)}
<1>1. SUFFICES ASSUME F # {} PROVE FALSE
  OBVIOUS
<1>2. PICK T \in F : \A U \in F : ~(U \subseteq T /\ U # T)
  <2>1. F \in SUBSET SUBSET S
    OBVIOUS
  <2>. HIDE DEF F
  <2>. QED
    BY <1>1, <2>1, Smallest
<1>3. PICK a \in T : TRUE
  BY <1>2
<1>. DEFINE U == T \ {a}
<1>4. U # {}
  <2>1. U = {} => IsFirst(a, T)
    OBVIOUS
  <2>. QED
    BY <1>2, <1>3, <2>1
<1>5. PICK b \in U : IsFirst(b, U)
  <2>1. U \in SUBSET S /\ U \subseteq T /\ U # T
    BY <1>2, <1>3
  <2>2. U \notin F
    BY <1>2, <2>1
  <2>3. \E x \in U : IsFirst(x, U)
    BY <1>4, <2>1, <2>2
  <2>. HIDE DEF U, IsFirst
  <2>. QED
    BY <2>3
<1>6. a \in S /\ b \in S /\ a # b /\ T \subseteq S
  BY <1>2, <1>3, <1>5
<1>7. CASE <<a, b>> \in R
  <2>1. IsFirst(a, T)
    BY <1>5, <1>6, <1>7 DEF IsOrder
  <2>. QED
    BY <1>2, <1>3, <2>1
<1>8. CASE <<b, a>> \in R
  <2>1. IsFirst(b, T)
    BY <1>5, <1>8
  <2>. QED
    BY <1>2, <1>5, <2>1
<1>. QED
  BY <1>6, <1>7, <1>8 DEF IsOrder

LEMMA LastExists ==
  ASSUME NEW S, IsFiniteSet(S), S # {}, NEW R, IsOrder(R, S)
  PROVE  \E x \in S : \A y \in S : y # x => <<y, x>> \in R
<1>. DEFINE Q == {p \in S \X S : <<p[2], p[1]>> \in R}
<1>1. IsOrder(Q, S)
  BY DEF IsOrder
<1>2. \A x, y \in S : <<x, y>> \in Q => <<y, x>> \in R
  OBVIOUS
<1>. HIDE DEF Q
<1>3. PICK x \in S : \A y \in S : y # x => <<x, y>> \in Q
  BY <1>1, FirstExists
<1>. QED
  BY <1>2, <1>3

InOrderOf(f, R) == \A i, j \in DOMAIN f : i < j => <<f[i], f[j]>> \in R

LEMMA OrderExists ==
  ASSUME NEW S, IsFiniteSet(S), NEW R, IsOrder(R, S)
  PROVE  \E f \in [1..Cardinality(S) -> S] : InOrderOf(f, R)
<1>. DEFINE F == {T \in SUBSET S : ~\E f \in [1..Cardinality(T) -> T] : InOrderOf(f, R)}
<1>1. SUFFICES ASSUME F # {} PROVE FALSE
  OBVIOUS
<1>2. PICK T \in F : \A U \in F : ~(U \subseteq T /\ U # T)
  <2>1. F \in SUBSET SUBSET S
    OBVIOUS
  <2>. HIDE DEF F
  <2>. QED
    BY <1>1, <2>1, Smallest
<1>3. IsFiniteSet(T) /\ T \in SUBSET S /\ IsOrder(R, T)
  BY <1>2, FS_Subset DEF IsOrder
<1>4. T # {}
  <2>1. Cardinality({}) = 0
    BY FS_EmptySet
  <2>. DEFINE e == [i \in 1..0 |-> i]
  <2>2. e \in [1..0 -> {}] /\ InOrderOf(e, R)
    BY DEF InOrderOf
  <2>3. T = {} => e \in [1..Cardinality(T) -> T]
    BY <2>1, <2>2
  <2>. HIDE DEF e
  <2>. QED
    BY <1>2, <2>2, <2>3
<1>5. PICK x \in T : \A y \in T : y # x => <<y, x>> \in R
  BY <1>3, <1>4, LastExists
<1>. DEFINE U == T \ {x}
            n == Cardinality(T)
<1>6. n \in Nat /\ Cardinality(U) = n - 1 /\ n # 0
  BY <1>3, <1>4, <1>5, FS_RemoveElement, FS_CardinalityType, FS_EmptySet
<1>7. PICK g \in [1..Cardinality(U) -> U] : InOrderOf(g, R)
  <2>1. U \in SUBSET S /\ U \subseteq T /\ U # T
    BY <1>2, <1>5
  <2>2. U \notin F
    BY <1>2, <2>1
  <2>. QED
    BY <2>1, <2>2
<1>. DEFINE f == [i \in 1..n |-> IF i = n THEN x ELSE g[i]]
<1>8. \A i \in 1..n : i # n => i \in 1..Cardinality(U) /\ g[i] \in U
  <2>1. \A i \in 1..n : i # n => i \in 1..Cardinality(U)
    <3>. DEFINE m == Cardinality(U)
    <3>1. m = n - 1 /\ n \in Nat
      BY <1>6
    <3>. HIDE DEF m, n
    <3>2. \A i \in 1..n : i # n => i \in 1..m
      BY <3>1
    <3>. QED
      BY <3>2 DEF m
  <2>. HIDE DEF U, n
  <2>. QED
    BY <1>7, <2>1
<1>9. f \in [1..n -> T]
  BY <1>5, <1>8
<1>. HIDE DEF n
<1>10. ASSUME NEW i \in 1..n, NEW j \in 1..n, i < j PROVE <<f[i], f[j]>> \in R
  <2>1. i # n /\ f[i] = g[i]
    BY <1>6, <1>10
  <2>2. CASE j = n
    BY <1>5, <1>8, <2>1, <2>2
  <2>3. CASE j # n
    <3>1. f[j] = g[j] /\ i \in DOMAIN g /\ j \in DOMAIN g
      BY <1>7, <1>8, <2>1, <2>3
    <3>. QED
      BY <1>7, <1>10, <2>1, <3>1 DEF InOrderOf
  <2>. QED
    BY <2>2, <2>3
<1>11. InOrderOf(f, R)
  BY <1>10 DEF InOrderOf
<1>. HIDE DEF f
<1>. QED
  BY <1>2, <1>9, <1>11 DEF n

(* In an order nothing is left out and nothing is there twice.             *)
LEMMA OrderIsWhole ==
  ASSUME NEW S, IsFiniteSet(S), NEW R, IsOrder(R, S),
         NEW f \in [1..Cardinality(S) -> S], InOrderOf(f, R)
  PROVE  /\ \A i, j \in DOMAIN f : f[i] = f[j] => i = j
         /\ \A x \in S : \E i \in DOMAIN f : f[i] = x
<1>. DEFINE n == Cardinality(S)
<1>1. n \in Nat
  BY FS_CardinalityType
<1>. HIDE DEF n
<1>2. ASSUME NEW i \in 1..n, NEW j \in 1..n, f[i] = f[j] PROVE i = j
  <2>1. f[i] \in S /\ f[j] \in S
    BY DEF n
  <2>2. ~(i < j) /\ ~(j < i)
    BY <1>2, <2>1 DEF InOrderOf, IsOrder, n
  <2>. QED
    BY <1>1, <2>2
<1>3. f \in Injection(1..n, S)
  BY <1>2 DEF Injection, IsInjective, n
<1>4. IsFiniteSet(1..n) /\ Cardinality(1..n) = n
  BY <1>1, FS_Interval
<1>5. f \in Surjection(1..n, S)
  BY <1>3, <1>4, FS_Injection DEF n
<1>. QED
  BY <1>2, <1>5 DEF Surjection, n

-----------------------------------------------------------------------------
(***************************************************************************)
(* One author's submissions to one problem, all judged.                    *)
(***************************************************************************)
Judged(own) ==
  /\ IsFiniteSet(own)
  /\ \A s \in own : s.time \in Nat /\ s.verdict \in Verdicts
  /\ \A s, q \in own : s.time = q.time => s = q
  /\ PointsOrNone({s.verdict : s \in own})

Signed(own) == {s \in own : s.verdict.status # "compilation error"}
Attempts(own) == Cardinality(Signed(own))

LEMMA WorthIs ==
  ASSUME NEW v \in Verdicts
  PROVE  /\ Worth(v) \in Nat
         /\ Worth(v) > 0 <=> v.status = "accepted" \/ v.score > 0
         /\ v.status = "compilation error" => Worth(v) = 0
<1>1. v.score \in {NoScore} \cup Nat
  BY DEF Verdicts
<1>2. v.status = "accepted" => v.score # 0
  BY DEF Verdicts
<1>3. v.status = "compilation error" => v.score = NoScore
  BY DEF Verdicts
<1>4. NoScore = -1
  BY DEF NoScore
<1>5. Worth(v) = IF v.score # NoScore THEN v.score ELSE IF v.status = "accepted" THEN 1 ELSE 0
  BY DEF Worth
<1>. DEFINE score == v.score
            ok == v.status = "accepted"
            failed == v.status = "compilation error"
            worth == Worth(v)
<1>6. /\ score \in {NoScore} \cup Nat /\ (ok => score # 0) /\ (failed => score = NoScore)
      /\ worth = IF score # NoScore THEN score ELSE IF ok THEN 1 ELSE 0
      /\ ~(ok /\ failed)
  BY <1>1, <1>2, <1>3, <1>5
<1>. HIDE DEF score, ok, failed, worth
<1>7. /\ worth \in Nat /\ (worth > 0 <=> ok \/ score > 0) /\ (failed => worth = 0)
  <2>1. CASE score = NoScore /\ ok
    BY <1>4, <1>6, <2>1
  <2>2. CASE score = NoScore /\ ~ok
    BY <1>4, <1>6, <2>2
  <2>3. CASE score \in Nat /\ score # NoScore
    BY <1>6, <2>3
  <2>. QED
    BY <1>6, <2>1, <2>2, <2>3
<1>. QED
  BY <1>7 DEF score, ok, failed, worth

LEMMA SuccessIs ==
  ASSUME NEW own, Judged(own), NEW s
  PROVE  s \in Successes(own) <=> s \in own /\ Worth(s.verdict) > 0
<1>1. s \in own => s.verdict \in Verdicts
  BY DEF Judged
<1>. QED
  BY <1>1, WorthIs DEF Successes

LEMMA WorthOfScore ==
  ASSUME NEW v \in Verdicts, Worth(v) > 0
  PROVE  /\ v.score \in {NoScore} \cup Nat /\ v.status # "compilation error"
         /\ Worth(v) = IF v.score = NoScore THEN 1 ELSE v.score
<1>1. v.score \in {NoScore} \cup Nat
  BY DEF Verdicts
<1>2. v.status # "compilation error"
  <2>1. v.status = "compilation error" => Worth(v) = 0
    BY WorthIs
  <2>2. ~(0 > 0)
    OBVIOUS
  <2>. QED
    BY <2>1, <2>2, Zenon
<1>3. v.status # "accepted" /\ v.score = NoScore => Worth(v) = 0
  BY DEF Worth
<1>4. v.status = "accepted" \/ v.score # NoScore
  BY <1>3
<1>. QED
  BY <1>1, <1>2, <1>4 DEF Worth

(* The code compares scores, and by hand one does what a verdict is worth. *)
LEMMA ScoresCompare ==
  ASSUME NEW own, Judged(own), NEW s \in Successes(own), NEW q \in Successes(own)
  PROVE  /\ s.verdict.score > q.verdict.score <=> Worth(s.verdict) > Worth(q.verdict)
         /\ s.verdict.score = q.verdict.score <=> Worth(s.verdict) = Worth(q.verdict)
<1>1. /\ s \in own /\ s.verdict \in Verdicts /\ Worth(s.verdict) > 0
      /\ q \in own /\ q.verdict \in Verdicts /\ Worth(q.verdict) > 0
  BY SuccessIs DEF Judged
<1>2. PICK v \in Verdicts : v = s.verdict
  BY <1>1
<1>3. PICK w \in Verdicts : w = q.verdict
  BY <1>1
<1>4. /\ v.score \in {NoScore} \cup Nat /\ w.score \in {NoScore} \cup Nat
      /\ v.status # "compilation error" /\ w.status # "compilation error"
      /\ Worth(v) = IF v.score = NoScore THEN 1 ELSE v.score
      /\ Worth(w) = IF w.score = NoScore THEN 1 ELSE w.score
  BY <1>1, <1>2, <1>3, WorthOfScore
<1>5. v.score = NoScore <=> w.score = NoScore
  BY <1>1, <1>2, <1>3, <1>4 DEF Judged, PointsOrNone
<1>6. ~(NoScore > NoScore) /\ ~(1 > 1)
  BY DEF NoScore
<1>7. CASE v.score = NoScore
  BY <1>2, <1>3, <1>4, <1>5, <1>6, <1>7
<1>8. CASE v.score # NoScore
  BY <1>2, <1>3, <1>4, <1>5, <1>8
<1>. QED
  BY <1>7, <1>8

Better(s, q) ==
  \/ Worth(s.verdict) > Worth(q.verdict)
  \/ Worth(s.verdict) = Worth(q.verdict) /\ s.time < q.time

LEMMA BestIs ==
  ASSUME NEW own, Judged(own), Successes(own) # {}
  PROVE  /\ Best(Successes(own)) \in Successes(own)
         /\ \A q \in Successes(own) : q # Best(Successes(own)) => Better(Best(Successes(own)), q)
<1>. DEFINE found == Successes(own)
            R == {p \in found \X found : Better(p[1], p[2])}
<1>1. found \in SUBSET own /\ IsFiniteSet(found)
  <2>1. found \in SUBSET own
    BY DEF Successes
  <2>. QED
    BY <2>1, FS_Subset DEF Judged
<1>2. \A s \in found : Worth(s.verdict) \in Nat /\ s.time \in Nat
  BY <1>1, WorthIs DEF Judged
<1>3. \A s, q \in found : s.time = q.time => s = q
  BY <1>1 DEF Judged
<1>4. \A s, q \in found : <<s, q>> \in R <=> Better(s, q)
  OBVIOUS
<1>5. \A s, q \in found :
        /\ s.verdict.score > q.verdict.score <=> Worth(s.verdict) > Worth(q.verdict)
        /\ s.verdict.score = q.verdict.score <=> Worth(s.verdict) = Worth(q.verdict)
  BY ScoresCompare
<1>6. found # {} /\ Best(Successes(own)) = Best(found)
  OBVIOUS
<1>. HIDE DEF found, R
<1>7. IsOrder(R, found)
  <2>1. \A x, y \in found : x # y => Better(x, y) \/ Better(y, x)
    BY <1>2, <1>3 DEF Better
  <2>2. \A x, y, z \in found : Better(x, y) /\ Better(y, z) => Better(x, z)
    BY <1>2 DEF Better
  <2>3. \A x \in found : ~Better(x, x)
    BY <1>2 DEF Better
  <2>. QED
    BY <1>4, <2>1, <2>2, <2>3 DEF IsOrder
<1>8. PICK b \in found : \A q \in found : q # b => Better(b, q)
  <2>1. \E x \in found : \A y \in found : y # x => <<x, y>> \in R
    BY <1>1, <1>6, <1>7, FirstExists
  <2>. QED
    BY <1>4, <2>1
<1>9. \A q \in found : \/ b.verdict.score > q.verdict.score
                       \/ b.verdict.score = q.verdict.score /\ b.time <= q.time
  BY <1>2, <1>5, <1>8 DEF Better
<1>. DEFINE c == Best(found)
<1>10. c \in found /\ \A q \in found : \/ c.verdict.score > q.verdict.score
                                       \/ c.verdict.score = q.verdict.score /\ c.time <= q.time
  BY <1>9 DEF Best
<1>. HIDE DEF c
<1>11. \A q \in found : q # c => Better(c, q)
  BY <1>2, <1>3, <1>5, <1>10 DEF Better
<1>. QED
  BY <1>10, <1>11 DEF c, found

LEMMA BestIsOne ==
  ASSUME NEW own, Judged(own), NEW b \in Successes(own),
         \A q \in Successes(own) : q # b => Better(b, q)
  PROVE  b = Best(Successes(own))
<1>. DEFINE c == Best(Successes(own))
<1>1. c \in Successes(own) /\ \A q \in Successes(own) : q # c => Better(c, q)
  BY BestIs
<1>2. b # c => Better(b, c) /\ Better(c, b)
  BY <1>1
<1>3. b.time \in Nat /\ c.time \in Nat /\ Worth(b.verdict) \in Nat /\ Worth(c.verdict) \in Nat
  BY <1>1, SuccessIs, WorthIs DEF Judged
<1>. HIDE DEF c
<1>. QED
  BY <1>2, <1>3 DEF Better, c

LEMMA MaxIs ==
  ASSUME NEW S \in SUBSET Int, NEW m \in S, \A x \in S : x <= m
  PROVE  Max(S) = m
<1>1. \A x \in S : m >= x
  OBVIOUS
<1>2. Max(S) \in S /\ \A x \in S : Max(S) >= x
  BY <1>1 DEF Max
<1>3. Max(S) \in Int /\ m \in Int /\ Max(S) >= m /\ Max(S) <= m
  BY <1>2
<1>. QED
  BY <1>3

(* Attempts up to a submission that is one itself end with it.             *)
Until(own, b) == {s \in own : s.time <= b.time}

LEMMA LatestIs ==
  ASSUME NEW own, Judged(own), NEW b \in Signed(own)
  PROVE  Signed(Until(own, b)) # {} /\ Max({s.time : s \in Signed(Until(own, b))}) = b.time
<1>1. \A s \in own : s.time \in Nat
  BY DEF Judged
<1>2. \A s \in Signed(Until(own, b)) : s \in own /\ s.time <= b.time
  BY DEF Signed, Until
<1>3. b \in Signed(Until(own, b))
  <2>1. b \in own
    BY DEF Signed
  <2>2. b.time \in Nat
    BY <1>1, <2>1
  <2>3. b \in Until(own, b)
    BY <2>1, <2>2 DEF Until
  <2>. QED
    BY <2>1, <2>3 DEF Signed
<1>. DEFINE T == {s.time : s \in Signed(Until(own, b))}
<1>4. T \in SUBSET Int
  BY <1>1, <1>2
<1>5. b.time \in T /\ \A x \in T : x <= b.time
  BY <1>2, <1>3
<1>. HIDE DEF T
<1>6. Max(T) = b.time
  BY <1>4, <1>5, MaxIs
<1>. QED
  BY <1>3, <1>6 DEF T

(* What the code says of the problem, in terms of the best success.        *)
LEMMA NoSuccess ==
  ASSUME NEW own, Successes(own) = {}
  PROVE  ~UserProblemStanding(own).isSuccess /\ UserProblemStanding(own).score = 0
  BY DEF UserProblemStanding

LEMMA WithSuccess ==
  ASSUME NEW own, Judged(own), NEW b, b = Best(Successes(own)), Successes(own) # {}
  PROVE  /\ UserProblemStanding(own).isSuccess
         /\ UserProblemStanding(own).score = Worth(b.verdict)
         /\ UserProblemStanding(own).lastCommitTime = b.time
         /\ UserProblemStanding(own).commitNumber = Attempts(Until(own, b))
<1>. DEFINE sign == {s \in own : /\ s.verdict.status # "compilation error"
                                 /\ Successes(own) # {} => s.time <= b.time}
<1>1. /\ UserProblemStanding(own).isSuccess
      /\ UserProblemStanding(own).score = IF b.verdict.score = NoScore THEN 1 ELSE b.verdict.score
      /\ UserProblemStanding(own).commitNumber = Cardinality(sign)
      /\ UserProblemStanding(own).lastCommitTime
           = IF sign = {} THEN None ELSE Max({s.time : s \in sign})
  BY DEF UserProblemStanding
<1>2. b \in own /\ b.verdict \in Verdicts /\ Worth(b.verdict) > 0
  BY BestIs, SuccessIs DEF Judged
<1>3. PICK v \in Verdicts : v = b.verdict
  BY <1>2
<1>4. v.status # "compilation error" /\ Worth(v) = IF v.score = NoScore THEN 1 ELSE v.score
  BY <1>2, <1>3, WorthOfScore
<1>5. sign = Signed(Until(own, b))
  BY DEF Signed, Until
<1>. HIDE DEF sign
<1>6. b \in Signed(own)
  BY <1>2, <1>3, <1>4 DEF Signed
<1>7. sign # {} /\ Max({s.time : s \in sign}) = b.time
  BY <1>5, <1>6, LatestIs
<1>. QED
  BY <1>1, <1>3, <1>4, <1>5, <1>7 DEF Attempts

-----------------------------------------------------------------------------
(***************************************************************************)
(* Keeping the score by hand, one submission after the other, comes to     *)
(* what the code computes from all of them at once.                        *)
(***************************************************************************)
Fine(attempts) == IF contest.school THEN 0 ELSE Penalty * attempts

Kept(own) ==
  [points |-> UserProblemStanding(own).score, attempts |-> Attempts(own),
   time |-> SummaryTime(contest, UserProblemStanding(own), StartTime)]

LEMMA AttemptsType ==
  ASSUME NEW own, Judged(own)
  PROVE  IsFiniteSet(Signed(own)) /\ Attempts(own) \in Nat
<1>1. Signed(own) \in SUBSET own /\ IsFiniteSet(own)
  BY DEF Signed, Judged
<1>2. IsFiniteSet(Signed(own))
  BY <1>1, FS_Subset
<1>. QED
  BY <1>2, FS_CardinalityType DEF Attempts

LEMMA KeptNothing ==
  ASSUME NEW own, Successes(own) = {}
  PROVE  Kept(own) = [points |-> 0, attempts |-> Attempts(own), time |-> 0]
  BY NoSuccess DEF Kept, SummaryTime

LEMMA KeptSuccess ==
  ASSUME NEW own, Judged(own), NEW b, b = Best(Successes(own)), Successes(own) # {}
  PROVE  Kept(own) = [points |-> Worth(b.verdict), attempts |-> Attempts(own),
                      time |-> b.time - StartTime + Fine(Attempts(Until(own, b)) - 1)]
<1>. DEFINE result == UserProblemStanding(own)
            before == Attempts(Until(own, b)) - 1
<1>1. /\ result.isSuccess /\ result.score = Worth(b.verdict)
      /\ result.lastCommitTime = b.time /\ result.commitNumber - 1 = before
  BY WithSuccess
<1>2. SummaryTime(contest, result, StartTime)
        = b.time - StartTime + (IF contest.school THEN 0 ELSE Penalty) * before
  BY <1>1 DEF SummaryTime
<1>3. Until(own, b) \in SUBSET own
  BY DEF Until
<1>4. before \in Int
  <2>1. IsFiniteSet(Signed(Until(own, b)))
    <3>1. Signed(Until(own, b)) \in SUBSET own /\ IsFiniteSet(own)
      BY <1>3 DEF Signed, Judged
    <3>. QED
      BY <3>1, FS_Subset
  <2>. QED
    BY <2>1, FS_CardinalityType DEF Attempts
<1>5. Kept(own) = [points |-> result.score, attempts |-> Attempts(own),
                   time |-> SummaryTime(contest, result, StartTime)]
  BY DEF Kept
<1>. HIDE DEF result, before
<1>6. (IF contest.school THEN 0 ELSE Penalty) * before = Fine(before)
  BY <1>4 DEF Fine
<1>. QED
  BY <1>1, <1>2, <1>5, <1>6 DEF before

LEMMA JudgedPart ==
  ASSUME NEW own, Judged(own), NEW part \in SUBSET own
  PROVE  Judged(part)
<1>1. IsFiniteSet(part)
  BY FS_Subset DEF Judged
<1>2. PointsOrNone({s.verdict : s \in part})
  BY DEF Judged, PointsOrNone
<1>. QED
  BY <1>1, <1>2 DEF Judged

(* What is worth no more than the points so far adds an attempt at most.   *)
LEMMA WorthNoMore ==
  ASSUME NEW own, NEW last, NEW all, all = own \cup {last}, Judged(all), Judged(own),
         \A s \in own : s.time < last.time,
         Worth(last.verdict) <= Kept(own).points
  PROVE  Kept(all) = [points |-> Kept(own).points, attempts |-> Attempts(all),
                      time |-> Kept(own).time]
<1>1. last \in all /\ last.verdict \in Verdicts /\ Worth(last.verdict) \in Nat
  BY WorthIs DEF Judged
<1>2. \A s \in own : s \in all
  OBVIOUS
<1>3. \A s : s \in Successes(all) <=> (s \in own \/ s = last) /\ Worth(s.verdict) > 0
  BY SuccessIs
<1>4. \A s : s \in Successes(own) <=> s \in own /\ Worth(s.verdict) > 0
  BY SuccessIs
<1>5. CASE Successes(own) = {}
  <2>1. Kept(own) = [points |-> 0, attempts |-> Attempts(own), time |-> 0]
    BY <1>5, KeptNothing
  <2>2. ~(Worth(last.verdict) > 0)
    BY <1>1, <2>1
  <2>3. Successes(all) = {}
    BY <1>3, <1>4, <1>5, <2>2
  <2>. QED
    BY <2>1, <2>3, KeptNothing
<1>6. CASE Successes(own) # {}
  <2>. DEFINE b == Best(Successes(own))
  <2>1. b \in Successes(own) /\ \A q \in Successes(own) : q # b => Better(b, q)
    BY <1>6, BestIs
  <2>2. Kept(own) = [points |-> Worth(b.verdict), attempts |-> Attempts(own),
                     time |-> b.time - StartTime + Fine(Attempts(Until(own, b)) - 1)]
    BY <1>6, KeptSuccess
  <2>. HIDE DEF b
  <2>3. b \in own /\ b \in Successes(all) /\ b.time < last.time
    BY <1>3, <1>4, <2>1
  <2>4. b.verdict \in Verdicts /\ Worth(b.verdict) \in Nat
    BY <1>2, <2>3, WorthIs DEF Judged
  <2>5. Better(b, last)
    BY <1>1, <2>2, <2>3, <2>4 DEF Better
  <2>6. \A q \in Successes(all) : q # b => Better(b, q)
    BY <1>3, <1>4, <2>1, <2>5
  <2>7. b = Best(Successes(all))
    BY <2>3, <2>6, BestIsOne
  <2>8. Until(all, b) = Until(own, b)
    <3>1. b.time \in Nat /\ last.time \in Nat
      BY <1>1, <1>2, <2>3 DEF Judged
    <3>2. ~(last.time <= b.time)
      BY <2>3, <3>1
    <3>. QED
      BY <3>2 DEF Until
  <2>9. Kept(all) = [points |-> Worth(b.verdict), attempts |-> Attempts(all),
                     time |-> b.time - StartTime + Fine(Attempts(Until(all, b)) - 1)]
    BY <2>3, <2>7, KeptSuccess
  <2>. QED
    BY <2>2, <2>8, <2>9
<1>. QED
  BY <1>5, <1>6

(* What is worth more than all before it sets everything.                  *)
LEMMA WorthMore ==
  ASSUME NEW own, NEW last, NEW all, all = own \cup {last}, Judged(all), Judged(own),
         \A s \in own : s.time < last.time,
         Worth(last.verdict) > Kept(own).points
  PROVE  Kept(all) = [points |-> Worth(last.verdict), attempts |-> Attempts(all),
                      time |-> last.time - StartTime + Fine(Attempts(all) - 1)]
<1>1. last \in all /\ last.verdict \in Verdicts /\ Worth(last.verdict) \in Nat /\ last.time \in Nat
  BY WorthIs DEF Judged
<1>2. \A s \in own : s.verdict \in Verdicts /\ Worth(s.verdict) \in Nat /\ s.time \in Nat
  BY WorthIs DEF Judged
<1>3. \A s : s \in Successes(all) <=> (s \in own \/ s = last) /\ Worth(s.verdict) > 0
  BY SuccessIs
<1>4. \A s : s \in Successes(own) <=> s \in own /\ Worth(s.verdict) > 0
  BY SuccessIs
<1>5. Kept(own).points \in Nat /\ \A q \in Successes(own) : Worth(q.verdict) <= Kept(own).points
  <2>1. CASE Successes(own) = {}
    BY <2>1, KeptNothing
  <2>2. CASE Successes(own) # {}
    <3>. DEFINE b == Best(Successes(own))
    <3>1. b \in Successes(own) /\ \A q \in Successes(own) : q # b => Better(b, q)
      BY <2>2, BestIs
    <3>2. Kept(own).points = Worth(b.verdict)
      BY <2>2, KeptSuccess
    <3>. HIDE DEF b
    <3>3. Worth(b.verdict) \in Nat
      BY <1>2, <1>4, <3>1
    <3>4. ASSUME NEW q \in Successes(own) PROVE Worth(q.verdict) <= Worth(b.verdict)
      <4>1. Worth(q.verdict) \in Nat
        BY <1>2, <1>4
      <4>. QED
        BY <3>1, <3>3, <4>1 DEF Better
    <3>. QED
      BY <3>2, <3>3, <3>4
  <2>. QED
    BY <2>1, <2>2
<1>6. last \in Successes(all)
  BY <1>1, <1>3, <1>5
<1>7. ASSUME NEW q \in Successes(all), q # last PROVE Better(last, q)
  <2>1. q \in Successes(own)
    BY <1>3, <1>4, <1>7
  <2>2. Worth(q.verdict) \in Nat /\ Worth(q.verdict) <= Kept(own).points
    BY <1>2, <1>4, <1>5, <2>1
  <2>. QED
    BY <1>1, <1>5, <2>2 DEF Better
<1>8. last = Best(Successes(all))
  BY <1>6, <1>7, BestIsOne
<1>9. Until(all, last) = all
  <2>1. \A s \in all : s.time <= last.time
    BY <1>1, <1>2
  <2>. QED
    BY <2>1 DEF Until
<1>. QED
  BY <1>6, <1>8, <1>9, KeptSuccess

LEMMA KeepScoreIs ==
  ASSUME NEW own, NEW last
  PROVE  /\ last.verdict.status = "compilation error" => KeepScore(Kept(own), last) = Kept(own)
         /\ last.verdict.status # "compilation error" /\ Worth(last.verdict) <= Kept(own).points
              => KeepScore(Kept(own), last)
                   = [points |-> Kept(own).points, attempts |-> Attempts(own) + 1,
                      time |-> Kept(own).time]
         /\ last.verdict.status # "compilation error" /\ ~(Worth(last.verdict) <= Kept(own).points)
              => KeepScore(Kept(own), last)
                   = [points |-> Worth(last.verdict), attempts |-> Attempts(own) + 1,
                      time |-> last.time - StartTime + Fine(Attempts(own))]
<1>1. CASE last.verdict.status = "compilation error"
  BY <1>1 DEF KeepScore
<1>2. CASE last.verdict.status # "compilation error" /\ Worth(last.verdict) <= Kept(own).points
  <2>1. KeepScore(Kept(own), last) = [Kept(own) EXCEPT !.attempts = @ + 1]
    BY <1>2 DEF KeepScore
  <2>2. [Kept(own) EXCEPT !.attempts = @ + 1]
          = [points |-> Kept(own).points, attempts |-> Attempts(own) + 1, time |-> Kept(own).time]
    BY DEF Kept
  <2>. QED
    BY <1>2, <2>1, <2>2
<1>3. CASE last.verdict.status # "compilation error" /\ ~(Worth(last.verdict) <= Kept(own).points)
  <2>1. KeepScore(Kept(own), last)
          = [points |-> Worth(last.verdict), attempts |-> Kept(own).attempts + 1,
             time |-> last.time - StartTime
                      + (IF contest.school THEN 0 ELSE Penalty * Kept(own).attempts)]
    BY <1>3 DEF KeepScore
  <2>2. Kept(own).attempts = Attempts(own)
    BY DEF Kept
  <2>. QED
    BY <1>3, <2>1, <2>2 DEF Fine
<1>. QED
  BY <1>1, <1>2, <1>3

LEMMA OneMore ==
  ASSUME NEW own, NEW last, Judged(own \cup {last}), \A s \in own : s.time < last.time
  PROVE  Kept(own \cup {last}) = KeepScore(Kept(own), last)
<1>. DEFINE all == own \cup {last}
            kept == Kept(own)
            failed == last.verdict.status = "compilation error"
<1>1. Judged(own)
  <2>1. own \in SUBSET (own \cup {last})
    OBVIOUS
  <2>. QED
    BY <2>1, JudgedPart
<1>2. last \in all /\ last \notin own /\ last.verdict \in Verdicts
  <2>1. last \in all /\ last.time \in Nat /\ last.verdict \in Verdicts
    BY DEF Judged
  <2>2. ~(last.time < last.time)
    BY <2>1
  <2>. QED
    BY <2>1, <2>2
<1>3. Attempts(own) \in Nat /\ Attempts(all) = IF failed THEN Attempts(own) ELSE Attempts(own) + 1
  <2>1. IsFiniteSet(Signed(own)) /\ Attempts(own) \in Nat
    BY <1>1, AttemptsType
  <2>2. Signed(all) = IF failed THEN Signed(own) ELSE Signed(own) \cup {last}
    BY DEF Signed
  <2>3. last \notin Signed(own)
    BY <1>2 DEF Signed
  <2>. QED
    BY <2>1, <2>2, <2>3, FS_AddElement DEF Attempts
<1>4. kept = [points |-> kept.points, attempts |-> Attempts(own), time |-> kept.time]
  BY DEF Kept
<1>6. Worth(last.verdict) \in Nat /\ (failed => Worth(last.verdict) = 0)
  BY <1>2, WorthIs
<1>12. Worth(last.verdict) \in Nat
  BY <1>6
<1>7. kept.points \in Nat
  <2>1. CASE Successes(own) = {}
    BY <2>1, KeptNothing
  <2>2. CASE Successes(own) # {}
    <3>. DEFINE b == Best(Successes(own))
    <3>1. b \in own
      BY <1>1, <2>2, BestIs, SuccessIs
    <3>2. kept.points = Worth(b.verdict)
      BY <1>1, <2>2, KeptSuccess
    <3>. HIDE DEF b
    <3>3. b.verdict \in Verdicts
      BY <1>1, <3>1 DEF Judged
    <3>. QED
      BY <3>2, <3>3, WorthIs
  <2>. QED
    BY <2>1, <2>2
<1>8. Judged(all)
  OBVIOUS
<1>9. CASE Worth(last.verdict) <= kept.points
  <2>1. Kept(all) = [points |-> kept.points, attempts |-> Attempts(all), time |-> kept.time]
    BY <1>1, <1>8, <1>9, WorthNoMore
  <2>3. /\ failed => KeepScore(kept, last) = kept
        /\ ~failed => KeepScore(kept, last)
                        = [points |-> kept.points, attempts |-> Attempts(own) + 1, time |-> kept.time]
    BY <1>9, KeepScoreIs
  <2>. HIDE DEF all, kept, failed
  <2>2. Kept(all) = KeepScore(kept, last)
    BY <1>3, <1>4, <2>1, <2>3
  <2>. QED
    BY <2>2 DEF all, kept
<1>10. CASE Worth(last.verdict) > kept.points
  <2>1. Kept(all) = [points |-> Worth(last.verdict), attempts |-> Attempts(all),
                     time |-> last.time - StartTime + Fine(Attempts(all) - 1)]
    BY <1>1, <1>8, <1>10, WorthMore
  <2>5. ~failed /\ ~(Worth(last.verdict) <= kept.points)
          => KeepScore(kept, last)
               = [points |-> Worth(last.verdict), attempts |-> Attempts(own) + 1,
                  time |-> last.time - StartTime + Fine(Attempts(own))]
    BY KeepScoreIs
  <2>. HIDE DEF all, kept, failed
  <2>2. ~failed /\ ~(Worth(last.verdict) <= kept.points)
    BY <1>6, <1>7, <1>10
  <2>3. Attempts(all) = Attempts(own) + 1 /\ Attempts(all) - 1 = Attempts(own)
    BY <1>3, <2>2
  <2>4. Kept(all) = KeepScore(kept, last)
    BY <2>1, <2>2, <2>3, <2>5
  <2>. QED
    BY <2>4 DEF all, kept
<1>11. Worth(last.verdict) <= kept.points \/ Worth(last.verdict) > kept.points
  <2>. HIDE DEF kept
  <2>. QED
    BY <1>7, <1>12
<1>. QED
  BY <1>9, <1>10, <1>11

(* The fold over submissions in turn, as a function on sets of turns.      *)
Zero == [points |-> 0, attempts |-> 0, time |-> 0]
Folds(f, g) ==
  g = [T \in SUBSET DOMAIN f |->
         IF T = {} THEN Zero ELSE KeepScore(g[T \ {Max(T)}], f[Max(T)])]
Fold(f) == (CHOOSE g : Folds(f, g))[DOMAIN f]

LEMMA FoldIs ==
  ASSUME NEW f
  PROVE  FoldLeft(KeepScore, Zero, f) = Fold(f)
  BY DEF FoldLeft, MapThenFoldSet, Fold, Folds

LEMMA MaxExists ==
  ASSUME NEW T \in SUBSET Nat, IsFiniteSet(T), T # {}
  PROVE  Max(T) \in T /\ \A x \in T : x <= Max(T)
<1>. DEFINE R == {p \in T \X T : p[1] < p[2]}
<1>1. \A x, y \in T : <<x, y>> \in R <=> x < y
  OBVIOUS
<1>2. \A x \in T : x \in Nat
  OBVIOUS
<1>. HIDE DEF R
<1>3. IsOrder(R, T)
  BY <1>1, <1>2 DEF IsOrder
<1>4. PICK m \in T : \A y \in T : y # m => <<y, m>> \in R
  BY <1>3, LastExists
<1>5. ASSUME NEW x \in T PROVE x <= m
  <2>1. x = m \/ x < m
    BY <1>1, <1>4
  <2>2. x \in Nat /\ m \in Nat
    BY <1>2
  <2>. QED
    BY <2>1, <2>2
<1>6. Max(T) = m
  <2>1. T \in SUBSET Int
    BY <1>2
  <2>. QED
    BY <1>5, <2>1, MaxIs
<1>. QED
  BY <1>5, <1>6

LEMMA KeptInTurn ==
  ASSUME NEW own, Judged(own), NEW n \in Nat, NEW f \in [1..n -> own],
         \A i, j \in 1..n : i < j => f[i].time < f[j].time,
         \A s \in own : \E i \in 1..n : f[i] = s
  PROVE  FoldLeft(KeepScore, Zero, f) = Kept(own)
<1>. DEFINE D == 1..n
            Image(T) == {f[i] : i \in T}
            K == [T \in SUBSET D |-> Kept(Image(T))]
            F(g) == {T \in SUBSET D : g[T] # K[T]}
<1>1. IsFiniteSet(D) /\ D \in SUBSET Nat
  BY FS_Interval
<1>2. ASSUME NEW T \in SUBSET D, T # {}
      PROVE  /\ Max(T) \in T
             /\ Kept(Image(T)) = KeepScore(Kept(Image(T \ {Max(T)})), f[Max(T)])
  <2>1. IsFiniteSet(T) /\ T \in SUBSET Nat
    BY <1>1, FS_Subset
  <2>2. PICK m \in T : m = Max(T) /\ \A x \in T : x <= m
    BY <1>2, <2>1, MaxExists
  <2>. DEFINE own1 == Image(T \ {m})
              last == f[m]
  <2>3. Image(T) = own1 \cup {last}
    OBVIOUS
  <2>4. Image(T) \in SUBSET own
    OBVIOUS
  <2>5. \A s \in own1 : s.time < last.time
    <3>1. \A x \in T \ {m} : x < m /\ x \in D /\ m \in D
      BY <2>1, <2>2
    <3>2. \A x \in T \ {m} : f[x].time < f[m].time
      BY <3>1
    <3>. QED
      BY <3>2
  <2>. HIDE DEF own1, last, Image
  <2>6. Judged(Image(T))
    BY <2>4, JudgedPart
  <2>7. Kept(Image(T)) = KeepScore(Kept(own1), last)
    BY <2>3, <2>5, <2>6, OneMore
  <2>. QED
    BY <2>2, <2>7 DEF own1, last
<1>3. Kept(Image({})) = Zero
  <2>1. Image({}) = {}
    OBVIOUS
  <2>2. Successes({}) = {} /\ Signed({}) = {}
    BY DEF Successes, Signed
  <2>3. Attempts({}) = 0
    BY <2>2, FS_EmptySet DEF Attempts
  <2>4. Kept({}) = Zero
    BY <2>2, <2>3, KeptNothing DEF Zero
  <2>. QED
    BY <2>1, <2>4
<1>4. Image(D) = own
  OBVIOUS
<1>5. DOMAIN f = D
  OBVIOUS
<1>. HIDE DEF D, Image
<1>6. Folds(f, K)
  <2>. DEFINE step(T) == IF T = {} THEN Zero ELSE KeepScore(K[T \ {Max(T)}], f[Max(T)])
  <2>1. ASSUME NEW T \in SUBSET D PROVE Kept(Image(T)) = step(T)
    <3>1. CASE T = {}
      BY <1>3, <3>1
    <3>2. CASE T # {}
      <4>1. T \ {Max(T)} \in SUBSET D
        OBVIOUS
      <4>2. K[T \ {Max(T)}] = Kept(Image(T \ {Max(T)}))
        BY <4>1
      <4>. QED
        BY <1>2, <3>2, <4>2
    <3>. QED
      BY <3>1, <3>2
  <2>2. K = [T \in SUBSET D |-> step(T)]
    BY <2>1
  <2>. HIDE DEF K
  <2>. QED
    BY <1>5, <2>2 DEF Folds
<1>. DEFINE g == CHOOSE h : Folds(f, h)
<1>7. Folds(f, g)
  BY <1>6
<1>8. F(g) = {}
  <2>. HIDE DEF g, K
  <2>1. SUFFICES ASSUME F(g) # {} PROVE FALSE
    OBVIOUS
  <2>2. PICK T \in F(g) : \A U \in F(g) : ~(U \subseteq T /\ U # T)
    <3>1. F(g) \in SUBSET SUBSET D
      OBVIOUS
    <3>. HIDE DEF F
    <3>. QED
      BY <1>1, <2>1, <3>1, Smallest
  <2>3. T \in SUBSET D /\ g[T] # K[T]
    BY <2>2
  <2>4. /\ g[T] = IF T = {} THEN Zero ELSE KeepScore(g[T \ {Max(T)}], f[Max(T)])
        /\ K[T] = IF T = {} THEN Zero ELSE KeepScore(K[T \ {Max(T)}], f[Max(T)])
    BY <1>5, <1>6, <1>7, <2>3 DEF Folds
  <2>5. T # {}
    BY <2>3, <2>4
  <2>6. Max(T) \in T
    BY <1>2, <2>3, <2>5
  <2>7. g[T \ {Max(T)}] = K[T \ {Max(T)}]
    <3>. DEFINE U == T \ {Max(T)}
    <3>1. U \in SUBSET D /\ U \subseteq T /\ U # T
      BY <2>3, <2>6
    <3>. HIDE DEF U
    <3>2. g[U] = K[U]
      BY <2>2, <3>1
    <3>. QED
      BY <3>2 DEF U
  <2>. QED
    BY <2>3, <2>4, <2>5, <2>7
<1>9. g[D] = K[D]
  BY <1>8
<1>. QED
  BY <1>4, <1>5, <1>9, FoldIs DEF Fold

LEMMA KeptType ==
  ASSUME NEW own, Judged(own)
  PROVE  Kept(own).points \in Nat /\ Kept(own).time \in Int
<1>1. CASE Successes(own) = {}
  BY <1>1, KeptNothing
<1>2. CASE Successes(own) # {}
  <2>. DEFINE b == Best(Successes(own))
              before == Attempts(Until(own, b)) - 1
  <2>1. b \in own
    BY <1>2, BestIs, SuccessIs
  <2>2. Kept(own).points = Worth(b.verdict) /\ Kept(own).time = b.time - StartTime + Fine(before)
    BY <1>2, KeptSuccess
  <2>3. before \in Int
    <3>1. Until(own, b) \in SUBSET own
      BY DEF Until
    <3>2. Judged(Until(own, b))
      BY <3>1, JudgedPart
    <3>. QED
      BY <3>2, AttemptsType
  <2>. HIDE DEF b, before
  <2>4. Fine(before) \in Int
    BY <2>3, StandingsAssumption DEF Fine
  <2>5. b.time \in Nat /\ b.verdict \in Verdicts
    BY <2>1 DEF Judged
  <2>6. Worth(b.verdict) \in Nat
    BY <2>5, WorthIs
  <2>7. b.time - StartTime + Fine(before) \in Int
    <3>1. StartTime \in Nat /\ b.time \in Nat
      BY <2>5, StandingsAssumption
    <3>. QED
      BY <2>4, <3>1
  <2>. QED
    BY <2>2, <2>6, <2>7
<1>. QED
  BY <1>1, <1>2

Own(seen, u, p) == {s \in seen : s.user = u /\ s.problem = p}

LEMMA ScoreIs ==
  ASSUME NEW seen, NEW u, NEW p, Judged(Own(seen, u, p))
  PROVE  ScoreOf(u, p, seen) = Kept(Own(seen, u, p))
<1>. DEFINE own == Own(seen, u, p)
            n == Cardinality(own)
            R == {x \in own \X own : x[1].time < x[2].time}
            turn == CHOOSE f \in [1..n -> own] :
                      \A i, j \in DOMAIN f : i < j => f[i].time < f[j].time
<1>1. ScoreOf(u, p, seen) = FoldLeft(KeepScore, Zero, turn)
  BY DEF ScoreOf, InOrder, Zero, Own
<1>2. IsFiniteSet(own) /\ Judged(own)
  BY DEF Judged
<1>3. n \in Nat
  BY <1>2, FS_CardinalityType
<1>4. \A s, q \in own : <<s, q>> \in R <=> s.time < q.time
  OBVIOUS
<1>5. IsOrder(R, own)
  <2>1. \A s \in own : s.time \in Nat
    BY DEF Judged
  <2>2. \A s, q \in own : s.time = q.time => s = q
    BY DEF Judged
  <2>. HIDE DEF R, own
  <2>. QED
    BY <1>4, <2>1, <2>2 DEF IsOrder
<1>6. PICK g \in [1..n -> own] : InOrderOf(g, R)
  <2>. HIDE DEF R, own
  <2>1. \E g \in [1..Cardinality(own) -> own] : InOrderOf(g, R)
    BY <1>2, <1>5, OrderExists
  <2>. QED
    BY <2>1
<1>. HIDE DEF R, own, n
<1>7. \A i, j \in DOMAIN g : i < j => g[i].time < g[j].time
  BY <1>4, <1>6 DEF InOrderOf
<1>8. turn \in [1..n -> own] /\ \A i, j \in DOMAIN turn : i < j => turn[i].time < turn[j].time
  BY <1>7
<1>. HIDE DEF turn
<1>9. InOrderOf(turn, R)
  BY <1>4, <1>8 DEF InOrderOf
<1>10. \A s \in own : \E i \in DOMAIN turn : turn[i] = s
  BY <1>2, <1>5, <1>8, <1>9, OrderIsWhole DEF n
<1>11. FoldLeft(KeepScore, Zero, turn) = Kept(own)
  <2>1. DOMAIN turn = 1..n
    BY <1>8
  <2>. QED
    BY <1>2, <1>3, <1>8, <1>10, <2>1, KeptInTurn
<1>. QED
  BY <1>1, <1>11 DEF own

-----------------------------------------------------------------------------
(***************************************************************************)
(* What is counted of the submissions that are stored.                     *)
(***************************************************************************)
LEMMA SubmissionIs ==
  ASSUME TypeOK, NEW s \in submissions
  PROVE  /\ s.id \in 1..MaxSubmissions /\ s.user \in Users /\ s.problem \in Problems
         /\ s.time \in Nat /\ s.verdict \in Verdicts
         /\ s.verdict \in {InQueue} \cup contest.verdicts[s.problem]
  BY StandingsAssumption DEF TypeOK, Submissions, Times

LEMMA SubmissionsFinite ==
  ASSUME TypeOK
  PROVE  IsFiniteSet(submissions)
<1>. DEFINE id == [s \in submissions |-> s.id]
<1>1. \A s \in submissions : s.id \in 1..MaxSubmissions
  BY SubmissionIs
<1>2. \A s, q \in submissions : s.id = q.id => s = q
  BY DEF TypeOK
<1>3. id \in Injection(submissions, 1..MaxSubmissions)
  BY <1>1, <1>2 DEF Injection, IsInjective
<1>4. IsFiniteSet(1..MaxSubmissions)
  BY StandingsAssumption, FS_Interval
<1>. QED
  BY <1>3, <1>4, FS_Injection

LEMMA CountedJudged ==
  ASSUME TypeOK, AtDifferentTimes, NEW notFreeze, NEW u, NEW p \in Problems
  PROVE  Judged(Own(Counted(notFreeze, StartTime), u, p))
<1>. DEFINE own == Own(Counted(notFreeze, StartTime), u, p)
<1>1. own \in SUBSET submissions
  BY DEF Own, Counted
<1>2. IsFiniteSet(own)
  BY <1>1, SubmissionsFinite, FS_Subset
<1>3. \A s \in own : s.user = u /\ s.problem = p /\ s.verdict.status # "in queue"
  BY DEF Own, Counted
<1>. HIDE DEF own
<1>4. \A s \in own : s.time \in Nat /\ s.verdict \in Verdicts
  BY <1>1, SubmissionIs
<1>5. \A s, q \in own : s.time = q.time => s = q
  BY <1>1, <1>3 DEF AtDifferentTimes
<1>6. PointsOrNone(contest.verdicts[p])
  BY StandingsAssumption DEF TypeOK
<1>7. \A s \in own : s.verdict \in contest.verdicts[p]
  <2>1. InQueue.status = "in queue"
    BY DEF InQueue, Verdict
  <2>2. \A s \in own : s.verdict \in {InQueue} \cup contest.verdicts[s.problem]
    BY <1>1, SubmissionIs
  <2>. QED
    BY <1>3, <2>1, <2>2
<1>8. PointsOrNone({s.verdict : s \in own})
  BY <1>6, <1>7 DEF PointsOrNone
<1>. QED
  BY <1>2, <1>4, <1>5, <1>8 DEF Judged, own

-----------------------------------------------------------------------------
(***************************************************************************)
(* The rows of the jury's standing and of everybody's.                     *)
(***************************************************************************)
RowOf(u, counted, users) == Row(contest, u, counted, users, StartTime)
Points(u, counted) == [p \in Problems |-> Kept(Own(counted, u, p)).points]
TimesOf(u, counted) == [p \in Problems |-> Kept(Own(counted, u, p)).time]

LEMMA RowIs ==
  ASSUME NEW u, NEW counted, NEW users
  PROVE  /\ RowOf(u, counted, users).user = u
         /\ RowOf(u, counted, users).first = {p \in Problems : FirstSuccess(counted, users, p) = u}
         /\ RowOf(u, counted, users).score = SumFunction(Points(u, counted))
         /\ RowOf(u, counted, users).summaryTime = SumFunction(TimesOf(u, counted))
<1>. DEFINE results == [p \in Problems |-> UserProblemStanding({s \in counted : s.user = u /\ s.problem = p})]
<1>1. [p \in Problems |-> results[p].score] = Points(u, counted)
  BY DEF Points, Kept, Own
<1>2. [p \in Problems |-> SummaryTime(contest, results[p], StartTime)] = TimesOf(u, counted)
  BY DEF TimesOf, Kept, Own
<1>3. RowOf(u, counted, users)
        = [user |-> u, results |-> results,
           first |-> {p \in Problems : FirstSuccess(counted, users, p) = u},
           score |-> SumFunction([p \in Problems |-> results[p].score]),
           summaryTime |-> SumFunction([p \in Problems |-> SummaryTime(contest, results[p], StartTime)])]
  BY DEF RowOf, Row
<1>. HIDE DEF results
<1>. QED
  BY <1>1, <1>2, <1>3

LEMMA RowType ==
  ASSUME TypeOK, AtDifferentTimes, NEW notFreeze, NEW counted, counted = Counted(notFreeze, StartTime),
         NEW u \in Users, NEW users
  PROVE  /\ RowOf(u, counted, users).user \in Nat
         /\ RowOf(u, counted, users).score \in Int /\ RowOf(u, counted, users).summaryTime \in Int
<1>1. IsFiniteSet(Problems)
  BY StandingsAssumption
<1>2. \A p \in Problems : Kept(Own(counted, u, p)).points \in Nat /\ Kept(Own(counted, u, p)).time \in Int
  BY CountedJudged, KeptType
<1>3. ASSUME NEW f, DOMAIN f = Problems, \A p \in Problems : f[p] \in Int
      PROVE  SumFunction(f) \in Int
  <2>1. SumFunction(f) = Sum(f, Problems)
    BY <1>3, SumIsFold DEF SumFunction
  <2>. QED
    BY <1>1, <1>3, <2>1, SumType
<1>4. SumFunction(Points(u, counted)) \in Int
  <2>. DEFINE f == Points(u, counted)
  <2>1. DOMAIN f = Problems /\ \A p \in Problems : f[p] \in Int
    BY <1>2 DEF Points
  <2>. HIDE DEF f
  <2>2. SumFunction(f) \in Int
    BY <1>3, <2>1
  <2>. QED
    BY <2>2 DEF f
<1>5. SumFunction(TimesOf(u, counted)) \in Int
  <2>. DEFINE f == TimesOf(u, counted)
  <2>1. DOMAIN f = Problems /\ \A p \in Problems : f[p] \in Int
    BY <1>2 DEF TimesOf
  <2>. HIDE DEF f
  <2>2. SumFunction(f) \in Int
    BY <1>3, <2>1
  <2>. QED
    BY <2>2 DEF f
<1>6. u \in Nat
  BY StandingsAssumption
<1>. QED
  BY <1>4, <1>5, <1>6, RowIs

LEMMA ListedUsers ==
  ASSUME TypeOK, NEW official, NEW notFreeze
  PROVE  Listed(contest, official, Counted(notFreeze, StartTime), FALSE) \in SUBSET Users
<1>1. \A s \in Counted(notFreeze, StartTime) : s.user \in Users
  BY SubmissionIs DEF Counted
<1>. QED
  BY <1>1 DEF Listed, Competitors

LEMMA ImageFinite ==
  ASSUME NEW S, IsFiniteSet(S), NEW f
  PROVE  IsFiniteSet({f[x] : x \in S})
<1>. DEFINE T == {f[x] : x \in S}
            g == [x \in S |-> f[x]]
<1>1. g \in Surjection(S, T)
  BY DEF Surjection
<1>. HIDE DEF g, T
<1>2. IsFiniteSet(T)
  BY <1>1, FS_Surjection
<1>. QED
  BY <1>2 DEF T

(* Everybody listed has one row, and the rows are in their order.          *)
TableOf(table, counted, users) ==
  /\ \A i \in DOMAIN table : \E u \in users : table[i] = RowOf(u, counted, users)
  /\ \A u \in users : \E i \in DOMAIN table : table[i] = RowOf(u, counted, users)
  /\ \A i, j \in DOMAIN table : table[i].user = table[j].user => i = j
  /\ DOMAIN table \subseteq Nat
  /\ \A i, j \in DOMAIN table : i < j => Above(table[i], table[j])

LEMMA TableIs ==
  ASSUME TypeOK, AtDifferentTimes, NEW official, NEW notFreeze,
         NEW counted, counted = Counted(notFreeze, StartTime),
         NEW users, users = Listed(contest, official, counted, FALSE),
         NEW table, table = NewStanding(official, notFreeze, None)
  PROVE  TableOf(table, counted, users)
<1>. DEFINE rows == {RowOf(u, counted, users) : u \in users}
            n == Cardinality(rows)
            R == {x \in rows \X rows : Above(x[1], x[2])}
<1>1. users \in SUBSET Users
  BY ListedUsers
<1>2. table = CHOOSE f \in [1..n -> rows] : \A i, j \in DOMAIN f : i < j => Above(f[i], f[j])
  <2>1. (None # None) = FALSE
    OBVIOUS
  <2>2. NewStanding(official, notFreeze, None) = Rows(contest, official, counted, FALSE, StartTime)
    BY <2>1 DEF NewStanding
  <2>3. Rows(contest, official, counted, FALSE, StartTime) = InOrder(rows, Above)
    BY DEF Rows, RowOf
  <2>. HIDE DEF rows
  <2>. QED
    BY <2>2, <2>3 DEF InOrder
<1>3. IsFiniteSet(rows)
  <2>. DEFINE f == [u \in users |-> RowOf(u, counted, users)]
  <2>1. IsFiniteSet(users)
    BY <1>1, StandingsAssumption, FS_Subset
  <2>2. rows = {f[u] : u \in users}
    OBVIOUS
  <2>. HIDE DEF f, rows
  <2>. QED
    BY <2>1, <2>2, ImageFinite
<1>4. \A x, y \in rows : <<x, y>> \in R <=> Above(x, y)
  OBVIOUS
<1>7. \A x \in rows : \E u \in users : x = RowOf(u, counted, users)
  OBVIOUS
<1>8. \A u \in users : RowOf(u, counted, users) \in rows
  OBVIOUS
<1>. HIDE DEF rows, R
<1>5. ASSUME NEW x \in rows
      PROVE  x.user \in Nat /\ x.score \in Int /\ x.summaryTime \in Int
  <2>1. PICK u \in users : x = RowOf(u, counted, users)
    BY <1>7
  <2>2. u \in Users
    BY <1>1
  <2>. QED
    BY <2>1, <2>2, RowType
<1>6. ASSUME NEW x \in rows, NEW y \in rows, x.user = y.user PROVE x = y
  <2>1. PICK u \in users : x = RowOf(u, counted, users)
    BY <1>7
  <2>2. PICK v \in users : y = RowOf(v, counted, users)
    BY <1>7
  <2>3. x.user = u /\ y.user = v
    BY <2>1, <2>2, RowIs
  <2>. QED
    BY <1>6, <2>1, <2>2, <2>3
<1>9. n \in Nat
  BY <1>3, FS_CardinalityType
<1>10. IsOrder(R, rows)
  <2>1. \A x, y \in rows : x # y => Above(x, y) \/ Above(y, x)
    BY <1>5, <1>6 DEF Above
  <2>2. \A x, y, z \in rows : Above(x, y) /\ Above(y, z) => Above(x, z)
    BY <1>5 DEF Above
  <2>3. \A x \in rows : ~Above(x, x)
    BY <1>5 DEF Above
  <2>. QED
    BY <1>4, <2>1, <2>2, <2>3 DEF IsOrder
<1>11. PICK g \in [1..n -> rows] : InOrderOf(g, R)
  BY <1>3, <1>10, OrderExists
<1>12. \A i, j \in DOMAIN g : i < j => Above(g[i], g[j])
  BY <1>4, <1>11 DEF InOrderOf
<1>13. table \in [1..n -> rows] /\ \A i, j \in DOMAIN table : i < j => Above(table[i], table[j])
  <2>. HIDE DEF n
  <2>. QED
    BY <1>2, <1>12
<1>14. InOrderOf(table, R)
  BY <1>4, <1>13 DEF InOrderOf
<1>15. /\ \A i, j \in DOMAIN table : table[i] = table[j] => i = j
       /\ \A x \in rows : \E i \in DOMAIN table : table[i] = x
  <2>1. table \in [1..Cardinality(rows) -> rows]
    BY <1>13
  <2>. HIDE DEF n
  <2>2. PICK f \in [1..Cardinality(rows) -> rows] : f = table
    BY <2>1
  <2>3. InOrderOf(f, R)
    BY <1>14, <2>2
  <2>4. /\ \A i, j \in DOMAIN f : f[i] = f[j] => i = j
        /\ \A x \in rows : \E i \in DOMAIN f : f[i] = x
    BY <1>3, <1>10, <2>3, OrderIsWhole
  <2>. QED
    BY <2>2, <2>4
<1>16. \A i \in DOMAIN table : table[i] \in rows
  BY <1>13
<1>17. DOMAIN table = 1..n
  BY <1>13
<1>. HIDE DEF n
<1>18. \A i, j \in DOMAIN table : table[i].user = table[j].user => i = j
  BY <1>6, <1>15, <1>16
<1>19. DOMAIN table \subseteq Nat
  BY <1>9, <1>17
<1>20. \A u \in users : \E i \in DOMAIN table : table[i] = RowOf(u, counted, users)
  BY <1>8, <1>15
<1>21. \A i \in DOMAIN table : \E u \in users : table[i] = RowOf(u, counted, users)
  BY <1>7, <1>16
<1>. QED
  BY <1>13, <1>18, <1>19, <1>20, <1>21 DEF TableOf

-----------------------------------------------------------------------------
(***************************************************************************)
(* What is kept by hand, part by part.                                     *)
(***************************************************************************)
Seen(notFreeze) ==
  {s \in submissions :
     /\ StartTime <= s.time /\ s.time <= EndTime
     /\ s.verdict.status # "in queue"
     /\ ~notFreeze /\ IsFreeze => s.time < freezeTime}

PointsFollow(table, seen) ==
  \A i \in DOMAIN table :
    LET score == [p \in Problems |-> ScoreOf(table[i].user, p, seen)]
    IN /\ table[i].score = SumFunction([p \in Problems |-> score[p].points])
       /\ table[i].summaryTime = SumFunction([p \in Problems |-> score[p].time])

OrderFollows(table) ==
  \A i, j \in DOMAIN table : i < j =>
    \/ table[i].score > table[j].score
    \/ /\ table[i].score = table[j].score
       /\ \/ table[i].summaryTime < table[j].summaryTime
          \/ /\ table[i].summaryTime = table[j].summaryTime
             /\ table[i].user < table[j].user

Marked(table, p) == {i \in DOMAIN table : p \in table[i].first}
ListedIn(table) == {table[i].user : i \in DOMAIN table}
Accepted(seen, users, p) ==
  {s \in seen : s.problem = p /\ s.user \in users /\ s.verdict.status = "accepted"}

MarksFollow(table, accepted, p) ==
  IF accepted = {} THEN Marked(table, p) = {}
  ELSE \E i \in DOMAIN table, s \in accepted :
         /\ Marked(table, p) = {i} /\ table[i].user = s.user
         /\ \A q \in accepted : s.time <= q.time

LEMMA SeenIsCounted ==
  ASSUME TypeOK, NEW notFreeze \in BOOLEAN
  PROVE  Seen(notFreeze) = Counted(notFreeze, StartTime)
<1>1. ASSUME NEW s \in submissions
      PROVE  StartTime <= s.time /\ s.time <= EndTime <=> s.time \in StartTime..(StartTime + Duration)
  <2>1. s.time \in Nat
    BY SubmissionIs
  <2>2. StartTime \in Nat /\ EndTime \in Nat
    BY StandingsAssumption
  <2>. QED
    BY <2>1, <2>2 DEF Duration
<1>. QED
  BY <1>1 DEF Seen, Counted, BeforeFreeze

LEMMA EarliestIs ==
  ASSUME TypeOK, NEW found \in SUBSET submissions, found # {}
  PROVE  Earliest(found) \in found /\ \A q \in found : Earliest(found).time <= q.time
<1>. DEFINE Sooner(s, q) == s.time < q.time \/ (s.time = q.time /\ s.id < q.id)
            R == {x \in found \X found : Sooner(x[1], x[2])}
<1>1. \A s, q \in found : <<s, q>> \in R <=> Sooner(s, q)
  OBVIOUS
<1>2. \A s \in found : s.time \in Nat /\ s.id \in Nat
  BY SubmissionIs, StandingsAssumption
<1>3. \A s, q \in found : s.id = q.id => s = q
  BY DEF TypeOK
<1>. HIDE DEF R
<1>4. IsOrder(R, found)
  BY <1>1, <1>2, <1>3 DEF IsOrder
<1>5. IsFiniteSet(found)
  BY SubmissionsFinite, FS_Subset
<1>6. PICK s \in found : \A q \in found : q # s => <<s, q>> \in R
  BY <1>4, <1>5, FirstExists
<1>7. ASSUME NEW q \in found PROVE s.time <= q.time
  <2>1. q = s \/ Sooner(s, q)
    BY <1>1, <1>6
  <2>2. s.time \in Nat /\ q.time \in Nat
    BY <1>2
  <2>. QED
    BY <2>1, <2>2
<1>. QED
  BY <1>7 DEF Earliest

LEMMA PartsOfTable ==
  ASSUME TypeOK, AtDifferentTimes, NEW official \in BOOLEAN, NEW notFreeze \in BOOLEAN,
         NEW seen, seen = Seen(notFreeze),
         NEW table, table = NewStanding(official, notFreeze, None)
  PROVE  /\ PointsFollow(table, seen)
         /\ OrderFollows(table)
         /\ \A p \in Problems : MarksFollow(table, Accepted(seen, ListedIn(table), p), p)
<1>. DEFINE users == Listed(contest, official, seen, FALSE)
<1>1. seen = Counted(notFreeze, StartTime)
  BY SeenIsCounted
<1>2. users \in SUBSET Users
  BY <1>1, ListedUsers
<1>8. users = Listed(contest, official, seen, FALSE)
  OBVIOUS
<1>. HIDE DEF users
<1>3. /\ \A i \in DOMAIN table : \E u \in users : table[i] = RowOf(u, seen, users)
      /\ \A u \in users : \E i \in DOMAIN table : table[i] = RowOf(u, seen, users)
      /\ \A i, j \in DOMAIN table : table[i].user = table[j].user => i = j
      /\ DOMAIN table \subseteq Nat
      /\ \A i, j \in DOMAIN table : i < j => Above(table[i], table[j])
  <2>1. TableOf(table, seen, users)
    BY <1>1, <1>8, TableIs
  <2>. QED
    BY <2>1 DEF TableOf
<1>4. PointsFollow(table, seen)
  <2>. SUFFICES ASSUME NEW i \in DOMAIN table
                PROVE  LET score == [p \in Problems |-> ScoreOf(table[i].user, p, seen)]
                       IN /\ table[i].score = SumFunction([p \in Problems |-> score[p].points])
                          /\ table[i].summaryTime = SumFunction([p \in Problems |-> score[p].time])
    BY DEF PointsFollow
  <2>1. PICK u \in users : table[i] = RowOf(u, seen, users)
    BY <1>3
  <2>2. /\ table[i].user = u
        /\ table[i].score = SumFunction(Points(u, seen))
        /\ table[i].summaryTime = SumFunction(TimesOf(u, seen))
    BY <2>1, RowIs
  <2>3. \A p \in Problems : ScoreOf(u, p, seen) = Kept(Own(seen, u, p))
    BY <1>1, CountedJudged, ScoreIs
  <2>. DEFINE score == [p \in Problems |-> ScoreOf(u, p, seen)]
  <2>4. [p \in Problems |-> score[p].points] = Points(u, seen)
    BY <2>3 DEF Points
  <2>5. [p \in Problems |-> score[p].time] = TimesOf(u, seen)
    BY <2>3 DEF TimesOf
  <2>. QED
    BY <2>2, <2>4, <2>5
<1>5. OrderFollows(table)
  BY <1>3 DEF OrderFollows, Above
<1>6. ListedIn(table) = users
  <2>1. ASSUME NEW i \in DOMAIN table PROVE table[i].user \in users
    <3>1. PICK u \in users : table[i] = RowOf(u, seen, users)
      BY <1>3
    <3>. QED
      BY <3>1, RowIs
  <2>2. ASSUME NEW u \in users PROVE \E i \in DOMAIN table : table[i].user = u
    <3>1. PICK i \in DOMAIN table : table[i] = RowOf(u, seen, users)
      BY <1>3
    <3>. QED
      BY <3>1, RowIs
  <2>. QED
    BY <2>1, <2>2 DEF ListedIn
<1>7. ASSUME NEW p \in Problems
      PROVE  MarksFollow(table, Accepted(seen, users, p), p)
  <2>. DEFINE accepted == Accepted(seen, users, p)
              s == Earliest(accepted)
  <2>1. FirstSuccess(seen, users, p) = IF accepted = {} THEN None ELSE s.user
    BY DEF FirstSuccess, Accepted
  <2>2. ASSUME NEW i \in DOMAIN table
        PROVE  p \in table[i].first <=> table[i].user = FirstSuccess(seen, users, p)
    <3>1. PICK u \in users : table[i] = RowOf(u, seen, users)
      BY <1>3
    <3>. QED
      BY <3>1, RowIs
  <2>3. CASE accepted = {}
    <3>1. \A i \in DOMAIN table : table[i].user \in Users
      BY <1>2, <1>6 DEF ListedIn
    <3>2. None \notin Users
      <4>1. Users \subseteq Nat /\ None \notin Int
        BY StandingsAssumption
      <4>2. Nat \subseteq Int
        OBVIOUS
      <4>. QED
        BY <4>1, <4>2, Zenon
    <3>3. Marked(table, p) = {}
      BY <2>1, <2>2, <2>3, <3>1, <3>2 DEF Marked
    <3>. QED
      BY <2>3, <3>3 DEF MarksFollow
  <2>4. CASE accepted # {}
    <3>1. accepted \in SUBSET submissions
      BY <1>1 DEF Accepted, Counted
    <3>. HIDE DEF accepted
    <3>2. s \in accepted /\ \A q \in accepted : s.time <= q.time
      BY <2>4, <3>1, EarliestIs
    <3>. HIDE DEF s
    <3>3. s.user \in users
      BY <3>2 DEF accepted, Accepted
    <3>4. PICK i \in DOMAIN table : table[i].user = s.user
      BY <1>6, <3>3 DEF ListedIn
    <3>5. Marked(table, p) = {i}
      <4>1. \A j \in DOMAIN table : p \in table[j].first <=> table[j].user = s.user
        BY <2>1, <2>2, <2>4
      <4>2. \A j \in DOMAIN table : table[j].user = s.user => j = i
        BY <1>3, <3>4
      <4>. QED
        BY <3>4, <4>1, <4>2 DEF Marked
    <3>. QED
      BY <2>4, <3>2, <3>4, <3>5 DEF MarksFollow, accepted
  <2>. QED
    BY <2>3, <2>4
<1>. QED
  BY <1>4, <1>5, <1>6, <1>7

LEMMA TableFollows == TypeOK => KeptByHand
<1>1. ASSUME TypeOK, AtDifferentTimes, NEW official \in BOOLEAN, NEW notFreeze \in BOOLEAN
      PROVE  LET table == NewStanding(official, notFreeze, None)
             IN /\ PointsFollow(table, Seen(notFreeze))
                /\ OrderFollows(table)
                /\ \A p \in Problems :
                     MarksFollow(table, Accepted(Seen(notFreeze), ListedIn(table), p), p)
  BY <1>1, PartsOfTable
<1>. QED
  BY <1>1 DEF KeptByHand, PointsFollow, Seen, OrderFollows, MarksFollow, Marked, Accepted, ListedIn

(* For any users, problems and contests, the jury's standing and           *)
(* everybody's are what keeping the score by hand comes to, in whatever    *)
(* order submissions were judged and however often they were judged again. *)
THEOREM TableIsKeptByHand == Spec => []KeptByHand
  BY TypeCorrect, TableFollows, PTL

=============================================================================

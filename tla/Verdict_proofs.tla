----------------------------- MODULE Verdict_proofs -----------------------------
(***************************************************************************)
(* What is proved about the judging of a submission, for any archives,     *)
(* scores and reports of runners: which tests are run, how often, and that *)
(* the pages name the first failure.                                       *)
(***************************************************************************)
EXTENDS Verdict, FiniteSetTheorems, WellFoundedInduction, TLAPS

Greedy == {"TimeLimit", "MemoryLimit"}

(***************************************************************************)
(* Sums.  The library's induction over finite sets is used in the form of  *)
(* a smallest counterexample.                                              *)
(***************************************************************************)
LEMMA Smallest ==
  ASSUME NEW S, IsFiniteSet(S), NEW F \in SUBSET SUBSET S, F # {}
  PROVE  \E T \in F : \A U \in F : ~(U \subseteq T /\ U # T)
<1>1. IsWellFoundedOn(StrictSubsetOrdering(S), SUBSET S)
  BY FS_StrictSubsetOrderingWellFounded, FS_FiniteSubsetsOfFinite
<1>2. \E T \in F : \A U \in F : ~(<<U, T>> \in StrictSubsetOrdering(S))
  BY <1>1, WFMin
<1>. QED
  BY <1>2 DEF StrictSubsetOrdering

(* The function behind the sum of f over S.                                *)
Any(T) == CHOOSE x \in T : TRUE
Plus(f, g, T) == IF T = {} THEN 0 ELSE f[Any(T)] + g[T \ {Any(T)}]
Adds(f, S, g) == g = [T \in SUBSET S |-> Plus(f, g, T)]
Adder(f, S) == CHOOSE g : Adds(f, S, g)
Sum(f, S) == Adder(f, S)[S]

LEMMA SumIsFold ==
  ASSUME NEW f, NEW S
  PROVE  SumFunctionOnSet(f, S) = Sum(f, S)
  BY DEF SumFunctionOnSet, FoldFunctionOnSet, MapThenFoldSet, Sum, Adder, Adds, Plus, Any

LEMMA AnyIsOne == \A T : T # {} => Any(T) \in T
  BY DEF Any

LEMMA AddersAgree ==
  ASSUME NEW f, NEW S, IsFiniteSet(S), NEW S1, NEW S2, S \subseteq S1, S \subseteq S2,
         NEW g, NEW h, Adds(f, S1, g), Adds(f, S2, h)
  PROVE  g[S] = h[S]
<1>. DEFINE F == {T \in SUBSET S : g[T] # h[T]}
<1>1. SUFFICES ASSUME F # {} PROVE FALSE
  OBVIOUS
<1>2. PICK T \in F : \A U \in F : ~(U \subseteq T /\ U # T)
  <2>1. F \in SUBSET SUBSET S
    OBVIOUS
  <2>. HIDE DEF F
  <2>. QED
    BY <1>1, <2>1, Smallest
<1>3. g[T] = Plus(f, g, T) /\ h[T] = Plus(f, h, T)
  BY <1>2 DEF Adds
<1>4. CASE T = {}
  BY <1>2, <1>3, <1>4 DEF Plus
<1>5. CASE T # {}
  <2>1. T \ {Any(T)} # T /\ T \ {Any(T)} \in SUBSET S
    BY <1>5, AnyIsOne
  <2>2. g[T \ {Any(T)}] = h[T \ {Any(T)}]
    BY <1>2, <2>1
  <2>. QED
    BY <1>2, <1>3, <1>5, <2>2 DEF Plus
<1>. QED
  BY <1>4, <1>5

LEMMA AdderAdds ==
  ASSUME NEW f, NEW S, IsFiniteSet(S)
  PROVE  Adds(f, S, Adder(f, S))
<1>. DEFINE F == {T \in SUBSET S : ~\E g : Adds(f, T, g)}
<1>1. SUFFICES ASSUME F # {} PROVE FALSE
  BY DEF Adder
<1>2. PICK T \in F : \A U \in F : ~(U \subseteq T /\ U # T)
  <2>1. F \in SUBSET SUBSET S
    OBVIOUS
  <2>. HIDE DEF F
  <2>. QED
    BY <1>1, <2>1, Smallest
<1>3. \A U \in SUBSET T : U # T => Adds(f, U, Adder(f, U))
  BY <1>2 DEF Adder
<1>. DEFINE Rest(U) == U \ {Any(U)}
            g == [U \in SUBSET T |-> IF U = {} THEN 0 ELSE f[Any(U)] + Adder(f, Rest(U))[Rest(U)]]
<1>4. ASSUME NEW U \in SUBSET T, U # T PROVE g[U] = Adder(f, U)[U]
  <2>1. Adder(f, U)[U] = Plus(f, Adder(f, U), U)
    BY <1>3, <1>4 DEF Adds
  <2>2. CASE U = {}
    BY <2>1, <2>2 DEF Plus
  <2>3. CASE U # {}
    <3>1. Rest(U) \in SUBSET T /\ Rest(U) # T /\ Rest(U) \subseteq U
      BY <1>4
    <3>2. IsFiniteSet(Rest(U))
      BY <1>2, <3>1, FS_Subset
    <3>3. Adds(f, U, Adder(f, U)) /\ Adds(f, Rest(U), Adder(f, Rest(U)))
      BY <1>3, <1>4, <3>1
    <3>4. Adder(f, U)[Rest(U)] = Adder(f, Rest(U))[Rest(U)]
      <4>. DEFINE R == Rest(U)
      <4>1. R \subseteq U /\ R \subseteq R /\ IsFiniteSet(R)
        BY <3>1, <3>2
      <4>2. Adds(f, U, Adder(f, U)) /\ Adds(f, R, Adder(f, R))
        BY <3>3
      <4>. HIDE DEF R
      <4>3. Adder(f, U)[R] = Adder(f, R)[R]
        BY <4>1, <4>2, AddersAgree
      <4>. QED
        BY <4>3 DEF R
    <3>. QED
      BY <1>4, <2>1, <2>3, <3>4 DEF Plus
  <2>. QED
    BY <2>2, <2>3
<1>5. ASSUME NEW U \in SUBSET T PROVE g[U] = Plus(f, g, U)
  <2>1. CASE U = {}
    BY <2>1 DEF Plus
  <2>2. CASE U # {}
    <3>1. Rest(U) \in SUBSET T /\ Rest(U) # T
      BY <2>2, AnyIsOne
    <3>2. g[Rest(U)] = Adder(f, Rest(U))[Rest(U)]
      BY <1>4, <3>1
    <3>. QED
      BY <2>2, <3>2 DEF Plus
  <2>. QED
    BY <2>1, <2>2
<1>6. Adds(f, T, g)
  <2>1. g = [U \in SUBSET T |-> g[U]]
    OBVIOUS
  <2>. HIDE DEF g
  <2>. QED
    BY <1>5, <2>1 DEF Adds
<1>. QED
  BY <1>2, <1>6

LEMMA SumEquation ==
  ASSUME NEW f, NEW S, IsFiniteSet(S)
  PROVE  /\ S = {} => Sum(f, S) = 0
         /\ S # {} => Sum(f, S) = f[Any(S)] + Sum(f, S \ {Any(S)})
<1>. DEFINE R == S \ {Any(S)}
<1>1. Adds(f, S, Adder(f, S))
  BY AdderAdds
<1>2. Sum(f, S) = Plus(f, Adder(f, S), S)
  BY <1>1 DEF Adds, Sum
<1>3. IsFiniteSet(R) /\ R \subseteq S
  BY FS_Subset
<1>4. Adds(f, R, Adder(f, R))
  BY <1>3, AdderAdds
<1>5. Adder(f, S)[R] = Adder(f, R)[R]
  BY <1>1, <1>3, <1>4, AddersAgree
<1>. QED
  BY <1>2, <1>5 DEF Plus, Sum

LEMMA SumType ==
  ASSUME NEW f, NEW S, IsFiniteSet(S), \A x \in S : f[x] \in Int
  PROVE  Sum(f, S) \in Int
<1>. DEFINE F == {T \in SUBSET S : Sum(f, T) \notin Int}
<1>1. SUFFICES ASSUME F # {} PROVE FALSE
  OBVIOUS
<1>2. PICK T \in F : \A U \in F : ~(U \subseteq T /\ U # T)
  <2>1. F \in SUBSET SUBSET S
    OBVIOUS
  <2>. HIDE DEF F
  <2>. QED
    BY <1>1, <2>1, Smallest
<1>3. IsFiniteSet(T)
  BY <1>2, FS_Subset
<1>4. T # {}
  <2>1. Sum(f, {}) = 0
    BY SumEquation, FS_EmptySet
  <2>2. Sum(f, T) \notin Int
    BY <1>2
  <2>. HIDE DEF F
  <2>. QED
    BY <2>1, <2>2
<1>5. Sum(f, T) = f[Any(T)] + Sum(f, T \ {Any(T)}) /\ Any(T) \in T
  BY <1>3, <1>4, SumEquation, AnyIsOne
<1>6. Sum(f, T \ {Any(T)}) \in Int
  BY <1>2, <1>5
<1>. QED
  BY <1>2, <1>5, <1>6

(* Any element may be taken first.                                         *)
LEMMA SumRemove ==
  ASSUME NEW f, NEW S, IsFiniteSet(S), \A x \in S : f[x] \in Int, NEW e \in S
  PROVE  Sum(f, S) = f[e] + Sum(f, S \ {e})
<1>. DEFINE F == {T \in SUBSET S : \E x \in T : Sum(f, T) # f[x] + Sum(f, T \ {x})}
<1>1. SUFFICES ASSUME F # {} PROVE FALSE
  OBVIOUS
<1>2. PICK T \in F : \A U \in F : ~(U \subseteq T /\ U # T)
  <2>1. F \in SUBSET SUBSET S
    OBVIOUS
  <2>. HIDE DEF F
  <2>. QED
    BY <1>1, <2>1, Smallest
<1>3. PICK x \in T : Sum(f, T) # f[x] + Sum(f, T \ {x})
  BY <1>2
<1>. DEFINE a == Any(T)
            R == (T \ {x}) \ {a}
<1>4. T \in SUBSET S /\ IsFiniteSet(T) /\ a \in T
  BY <1>2, <1>3, FS_Subset, AnyIsOne
<1>5. Sum(f, T) = f[a] + Sum(f, T \ {a})
  BY <1>3, <1>4, SumEquation
<1>6. a # x
  BY <1>3, <1>5
<1>7. ASSUME NEW U \in SUBSET T, U # T, NEW y \in U PROVE Sum(f, U) = f[y] + Sum(f, U \ {y})
  BY <1>2, <1>7
<1>8. Sum(f, T \ {a}) = f[x] + Sum(f, (T \ {a}) \ {x})
  BY <1>3, <1>4, <1>6, <1>7
<1>9. Sum(f, T \ {x}) = f[a] + Sum(f, (T \ {x}) \ {a})
  BY <1>3, <1>4, <1>6, <1>7
<1>10. (T \ {a}) \ {x} = R
  OBVIOUS
<1>11. Sum(f, R) \in Int /\ f[a] \in Int /\ f[x] \in Int
  <2>1. R \subseteq T /\ IsFiniteSet(R) /\ \A y \in R : f[y] \in Int
    BY <1>4, FS_Subset
  <2>. HIDE DEF R
  <2>. QED
    BY <1>3, <1>4, <2>1, SumType
<1>12. Sum(f, T \ {x}) = f[a] + Sum(f, R) /\ Sum(f, T \ {a}) = f[x] + Sum(f, R)
  BY <1>8, <1>9, <1>10
<1>. HIDE DEF R, a
<1>. QED
  BY <1>3, <1>5, <1>11, <1>12

(* Sums are compared one element at a time.                                *)
LEMMA SumCompare ==
  ASSUME NEW f, NEW g, NEW S, IsFiniteSet(S),
         \A x \in S : f[x] \in Int /\ g[x] \in Int /\ f[x] <= g[x]
  PROVE  Sum(f, S) <= Sum(g, S) /\ (Sum(f, S) = Sum(g, S) <=> \A x \in S : f[x] = g[x])
<1>. DEFINE Good(T) == /\ Sum(f, T) <= Sum(g, T)
                       /\ Sum(f, T) = Sum(g, T) <=> \A x \in T : f[x] = g[x]
            F == {T \in SUBSET S : ~Good(T)}
<1>1. SUFFICES ASSUME F # {} PROVE FALSE
  OBVIOUS
<1>2. PICK T \in F : \A U \in F : ~(U \subseteq T /\ U # T)
  <2>1. F \in SUBSET SUBSET S
    OBVIOUS
  <2>. HIDE DEF F
  <2>. QED
    BY <1>1, <2>1, Smallest
<1>3. T \in SUBSET S /\ IsFiniteSet(T)
  BY <1>2, FS_Subset
<1>4. CASE T = {}
  <2>1. Sum(f, {}) = 0 /\ Sum(g, {}) = 0
    BY SumEquation, FS_EmptySet
  <2>. QED
    BY <1>2, <1>4, <2>1
<1>5. CASE T # {}
  <2>1. PICK a \in T : TRUE
    BY <1>5
  <2>. DEFINE R == T \ {a}
  <2>2. /\ Sum(f, T) = f[a] + Sum(f, R)
        /\ Sum(g, T) = g[a] + Sum(g, R)
    BY <1>3, <2>1, SumRemove
  <2>3. R \in SUBSET S /\ IsFiniteSet(R)
    BY <1>3, FS_Subset
  <2>4. Sum(f, R) \in Int /\ Sum(g, R) \in Int
    <3>1. R \in SUBSET S
      BY <2>3
    <3>. HIDE DEF R
    <3>. QED
      BY <2>3, <3>1, SumType
  <2>5. Good(R)
    BY <1>2, <1>3, <2>1, <2>3
  <2>6. f[a] \in Int /\ g[a] \in Int /\ f[a] <= g[a]
    BY <1>3, <2>1
  <2>7. (\A x \in T : f[x] = g[x]) <=> f[a] = g[a] /\ \A x \in R : f[x] = g[x]
    BY <2>1
  <2>. HIDE DEF R
  <2>8. Good(T)
    BY <2>2, <2>4, <2>5, <2>6, <2>7
  <2>. QED
    BY <1>2, <2>8
<1>. QED
  BY <1>4, <1>5

(* What is zero outside of a set need not be added.                        *)
LEMMA SumOfPart ==
  ASSUME NEW f, NEW S, IsFiniteSet(S), \A x \in S : f[x] \in Nat, NEW P \in SUBSET S
  PROVE  Sum(f, P) <= Sum(f, S) /\ ((\A x \in S \ P : f[x] = 0) => Sum(f, P) = Sum(f, S))
<1>. DEFINE Good(T) == /\ Sum(f, P) <= Sum(f, T)
                       /\ (\A x \in T \ P : f[x] = 0) => Sum(f, P) = Sum(f, T)
            F == {T \in SUBSET S : P \subseteq T /\ ~Good(T)}
<1>1. SUFFICES ASSUME F # {} PROVE FALSE
  OBVIOUS
<1>2. PICK T \in F : \A U \in F : ~(U \subseteq T /\ U # T)
  <2>1. F \in SUBSET SUBSET S
    OBVIOUS
  <2>. HIDE DEF F
  <2>. QED
    BY <1>1, <2>1, Smallest
<1>3. T \in SUBSET S /\ IsFiniteSet(T) /\ P \subseteq T
  BY <1>2, FS_Subset
<1>4. CASE T = P
  <2>1. Sum(f, P) \in Int
    BY <1>3, <1>4, SumType
  <2>. QED
    BY <1>2, <1>4, <2>1
<1>5. CASE T # P
  <2>1. PICK a \in T : a \notin P
    BY <1>3, <1>5
  <2>. DEFINE R == T \ {a}
  <2>2. Sum(f, T) = f[a] + Sum(f, R)
    BY <1>3, <2>1, SumRemove
  <2>3. R \in SUBSET S /\ IsFiniteSet(R) /\ P \subseteq R
    BY <1>3, <2>1, FS_Subset
  <2>4. Sum(f, R) \in Int /\ Sum(f, P) \in Int
    <3>1. R \in SUBSET S /\ IsFiniteSet(P)
      BY <2>3, FS_Subset
    <3>. HIDE DEF R
    <3>. QED
      BY <2>3, <3>1, SumType
  <2>5. Good(R)
    BY <1>2, <1>3, <2>1, <2>3
  <2>6. f[a] \in Nat
    BY <1>3, <2>1
  <2>7. (\A x \in T \ P : f[x] = 0) => f[a] = 0 /\ \A x \in R \ P : f[x] = 0
    BY <2>1
  <2>. HIDE DEF R
  <2>8. Good(T)
    BY <2>2, <2>4, <2>5, <2>6, <2>7
  <2>. QED
    BY <1>2, <2>8
<1>. QED
  BY <1>4, <1>5

(* Nothing is added twice where the indices are renamed.                   *)
LEMMA SumRenamed ==
  ASSUME NEW f, NEW h, NEW S, NEW A, IsFiniteSet(S), IsFiniteSet(A),
         \A x \in S : f[x] \in Nat,
         \A i \in A : h[i] \in S, \A i, j \in A : h[i] = h[j] => i = j
  PROVE  Sum([i \in A |-> f[h[i]]], A) <= Sum(f, S)
<1>. DEFINE g == [i \in A |-> f[h[i]]]
            Image(T) == {h[i] : i \in T}
            Good(T) == Sum(g, T) = Sum(f, Image(T))
            F == {T \in SUBSET A : ~Good(T)}
<1>1. F = {}
  <2>1. SUFFICES ASSUME F # {} PROVE FALSE
    OBVIOUS
  <2>2. PICK T \in F : \A U \in F : ~(U \subseteq T /\ U # T)
    <3>1. F \in SUBSET SUBSET A
      OBVIOUS
    <3>. HIDE DEF F
    <3>. QED
      BY <2>1, <3>1, Smallest
  <2>3. T \in SUBSET A /\ IsFiniteSet(T) /\ Image(T) \in SUBSET S /\ IsFiniteSet(Image(T))
    <3>1. T \in SUBSET A /\ Image(T) \in SUBSET S
      BY <2>2
    <3>. QED
      BY <3>1, FS_Subset
  <2>4. CASE T = {}
    <3>1. Image(T) = {}
      BY <2>4
    <3>2. Sum(g, T) = 0 /\ Sum(f, Image(T)) = 0
      <4>1. ASSUME NEW x PROVE Sum(x, {}) = 0
        BY SumEquation, FS_EmptySet
      <4>. HIDE DEF g, Image
      <4>. QED
        BY <2>4, <3>1, <4>1
    <3>. QED
      BY <2>2, <3>2
  <2>5. CASE T # {}
    <3>1. PICK a \in T : TRUE
      BY <2>5
    <3>. DEFINE R == T \ {a}
    <3>2. Image(T) \ {h[a]} = Image(R) /\ h[a] \in Image(T)
      BY <2>3, <3>1
    <3>3. g[a] = f[h[a]] /\ \A i \in T : g[i] \in Int
      BY <2>3, <3>1
    <3>4. \A x \in Image(T) : f[x] \in Int
      BY <2>3
    <3>5. Good(R)
      BY <2>2, <2>3, <3>1
    <3>. HIDE DEF g, Image
    <3>6. Sum(g, T) = g[a] + Sum(g, T \ {a})
      BY <2>3, <3>1, <3>3, SumRemove
    <3>7. Sum(f, Image(T)) = f[h[a]] + Sum(f, Image(T) \ {h[a]})
      BY <2>3, <3>2, <3>4, SumRemove
    <3>8. Good(T)
      BY <3>2, <3>3, <3>5, <3>6, <3>7
    <3>. QED
      BY <2>2, <3>8
  <2>. QED
    BY <2>4, <2>5
<1>2. Sum(g, A) = Sum(f, Image(A))
  BY <1>1
<1>3. Image(A) \in SUBSET S
  OBVIOUS
<1>. HIDE DEF g, Image
<1>4. Sum(f, Image(A)) <= Sum(f, S)
  BY <1>3, SumOfPart
<1>. QED
  BY <1>2, <1>4 DEF g

LEMMA SmallestNumber ==
  ASSUME NEW F \in SUBSET Nat, F # {}
  PROVE  \E m \in F : \A k \in F : m <= k
<1>1. \E m \in F : \A k \in F : <<k, m>> \notin OpToRel(<, Nat)
  BY NatLessThanWellFounded, WFMin
<1>2. PICK m \in F : \A k \in F : <<k, m>> \notin OpToRel(<, Nat)
  BY <1>1
<1>3. ASSUME NEW k \in F PROVE m <= k
  <2>1. k < m => <<k, m>> \in OpToRel(<, Nat)
    BY DEF OpToRel
  <2>2. ~(k < m)
    BY <1>2, <2>1
  <2>3. k \in Nat /\ m \in Nat
    OBVIOUS
  <2>. QED
    BY <2>2, <2>3
<1>. QED
  BY <1>3

LEMMA Division ==
  ASSUME NEW d \in Nat, d >= 1
  PROVE  /\ 100 \div d \in Nat /\ 100 % d \in Nat /\ 100 % d < d
         /\ 100 = d * (100 \div d) + (100 % d)
  OBVIOUS

LEMMA IntervalIsFinite == ASSUME NEW n \in Nat PROVE IsFiniteSet(1..n)
  BY FS_Interval

(* The shares of the first n tests.                                        *)
SharedSoFar(n, count, open, q, r) ==
  IF n <= open THEN 0
  ELSE (n - open) * q + (IF n > count - r THEN n - (count - r) ELSE 0)

LEMMA SharesSoFar ==
  ASSUME NEW count \in Nat, NEW open \in Nat, open < count, NEW share,
         \A i \in 1..count : share[i] = Share(i, count, open), NEW n \in 0..count
  PROVE  Sum(share, 1..n)
           = SharedSoFar(n, count, open, 100 \div (count - open), 100 % (count - open))
<1>. DEFINE d == count - open
            q == 100 \div d
            r == 100 % d
            So(m) == SharedSoFar(m, count, open, q, r)
            F == {m \in 0..count : Sum(share, 1..m) # So(m)}
<1>1. SUFFICES ASSUME F # {} PROVE FALSE
  OBVIOUS
<1>2. PICK m \in F : \A k \in F : m <= k
  <2>1. F \in SUBSET Nat
    OBVIOUS
  <2>. HIDE DEF F
  <2>. QED
    BY <1>1, <2>1, SmallestNumber
<1>3. q \in Nat /\ r \in Nat /\ r < d
  <2>1. d \in Nat /\ d >= 1
    OBVIOUS
  <2>. HIDE DEF d
  <2>. QED
    BY <2>1, Division
<1>4. \A i \in 1..count : share[i] = IF i <= open THEN 0 ELSE q + (IF i > count - r THEN 1 ELSE 0)
  BY DEF Share
<1>. HIDE DEF q, r
<1>5. m # 0
  <2>1. 1..0 = {} /\ Sum(share, {}) = 0
    <3>1. 1..0 = {}
      OBVIOUS
    <3>2. Sum(share, {}) = 0
      BY SumEquation, FS_EmptySet
    <3>. QED
      BY <3>1, <3>2
  <2>2. m = 0 => Sum(share, 1..m) = 0
    BY <2>1
  <2>3. m = 0 => So(m) = 0
    BY DEF SharedSoFar
  <2>. QED
    BY <1>2, <2>2, <2>3
<1>6. m \in 1..count /\ m - 1 \in 0..count
  BY <1>2, <1>5
<1>7. Sum(share, 1..(m - 1)) = So(m - 1)
  BY <1>2, <1>6
<1>8. Sum(share, 1..m) = share[m] + Sum(share, 1..(m - 1))
  <2>1. (1..m) \ {m} = 1..(m - 1) /\ m \in 1..m
    BY <1>6
  <2>2. IsFiniteSet(1..m)
    BY <1>6, IntervalIsFinite
  <2>3. \A i \in 1..m : share[i] \in Int
    BY <1>3, <1>4, <1>6
  <2>4. Sum(share, 1..m) = share[m] + Sum(share, (1..m) \ {m})
    BY <2>1, <2>2, <2>3, SumRemove
  <2>. QED
    BY <2>1, <2>4
<1>9. So(m) = share[m] + So(m - 1)
  <2>1. CASE m <= open
    BY <1>4, <1>6, <2>1 DEF SharedSoFar
  <2>2. CASE m = open + 1
    BY <1>3, <1>4, <1>6, <2>2 DEF SharedSoFar
  <2>3. CASE m > open + 1
    <3>1. (m - open) * q = q + (m - 1 - open) * q
      BY <1>3, <1>6
    <3>. DEFINE x == (m - open) * q
                y == (m - 1 - open) * q
    <3>2. x = q + y /\ x \in Int /\ y \in Int
      BY <1>3, <1>6, <3>1
    <3>3. So(m) = x + (IF m > count - r THEN m - (count - r) ELSE 0)
      BY <2>3, <1>6 DEF SharedSoFar
    <3>4. So(m - 1) = y + (IF m - 1 > count - r THEN m - 1 - (count - r) ELSE 0)
      BY <2>3, <1>6 DEF SharedSoFar
    <3>. HIDE DEF x, y, So
    <3>. QED
      BY <1>3, <1>4, <1>6, <2>3, <3>2, <3>3, <3>4
  <2>. QED
    BY <1>6, <2>1, <2>2, <2>3
<1>. QED
  BY <1>2, <1>7, <1>8, <1>9

(* All shares make 100.                                                    *)
LEMMA SharesAreHundred ==
  ASSUME NEW count \in Nat, NEW open \in Nat, open < count, NEW share,
         \A i \in 1..count : share[i] = Share(i, count, open)
  PROVE  Sum(share, 1..count) = 100
<1>. DEFINE d == count - open
            q == 100 \div d
            r == 100 % d
<1>1. q \in Nat /\ r \in Nat /\ r < d /\ 100 = d * q + r
  <2>1. d \in Nat /\ d >= 1
    OBVIOUS
  <2>. HIDE DEF d
  <2>. QED
    BY <2>1, Division
<1>2. Sum(share, 1..count) = SharedSoFar(count, count, open, q, r)
  <2>1. count \in 0..count
    OBVIOUS
  <2>. QED
    BY <2>1, SharesSoFar
<1>. DEFINE x == d * q
<1>3. x \in Int /\ 100 = x + r /\ (count - open) * q = x
  BY <1>1
<1>. HIDE DEF q, r, x
<1>4. SharedSoFar(count, count, open, q, r) = x + (IF count > count - r THEN count - (count - r) ELSE 0)
  BY <1>3 DEF SharedSoFar
<1>. QED
  BY <1>1, <1>2, <1>3, <1>4

(***************************************************************************)
(* The tests are numbered by their files.                                  *)
(***************************************************************************)
LEMMA SequenceOfFunction ==
  ASSUME NEW n \in Nat, NEW f, DOMAIN f = 1..n, f = [i \in 1..n |-> f[i]]
  PROVE  Len(f) = n /\ f \in Seq({f[i] : i \in 1..n})
  OBVIOUS

(* What the archive's format lets a test be numbered.                      *)
FileNames == 1..999
Bounds == 1..1000

LEMMA SmallIsFinite ==
  ASSUME NEW S \in SUBSET FileNames
  PROVE  IsFiniteSet(S)
<1>1. PICK n \in Nat : n = 999
  OBVIOUS
<1>2. S \in SUBSET Nat /\ \A s \in S : s <= n
  BY <1>1 DEF FileNames
<1>. QED
  BY <1>2, FS_BoundedSetOfNaturals

Below(numbers, n) == {k \in numbers : k < n}

LEMMA BelowGrows ==
  ASSUME NEW numbers \in SUBSET FileNames, NEW n \in numbers, NEW m \in Bounds, n < m
  PROVE  /\ Cardinality(Below(numbers, n)) \in Nat /\ Cardinality(Below(numbers, m)) \in Nat
         /\ Cardinality(Below(numbers, n)) < Cardinality(Below(numbers, m))
<1>1. Below(numbers, m) \in SUBSET FileNames
  BY DEF Below
<1>2. IsFiniteSet(Below(numbers, m))
  BY <1>1, SmallIsFinite
<1>3. Below(numbers, n) \in SUBSET Below(numbers, m) /\ Below(numbers, n) # Below(numbers, m)
  <2>1. n \in Int /\ m \in Int /\ \A k \in numbers : k \in Int
    BY DEF FileNames, Bounds
  <2>2. \A k \in numbers : k < n => k < m
    BY <2>1
  <2>3. n \in Below(numbers, m) /\ n \notin Below(numbers, n)
    BY <2>1 DEF Below
  <2>4. Below(numbers, n) \in SUBSET Below(numbers, m)
    BY <2>2 DEF Below
  <2>. QED
    BY <2>3, <2>4
<1>4. IsFiniteSet(Below(numbers, n))
  BY <1>2, <1>3, FS_Subset
<1>5. Cardinality(Below(numbers, n)) \in Nat /\ Cardinality(Below(numbers, m)) \in Nat
  BY <1>2, <1>4, FS_CardinalityType
<1>6. /\ Cardinality(Below(numbers, n)) <= Cardinality(Below(numbers, m))
      /\ Cardinality(Below(numbers, m)) = Cardinality(Below(numbers, n))
           => Below(numbers, m) = Below(numbers, n)
  BY <1>2, <1>3, FS_Subset
<1>. QED
  BY <1>3, <1>5, <1>6

(* The i-th number of a set is one of its numbers, and i - 1 are below it. *)
LEMMA InOrderIsOne ==
  ASSUME NEW numbers \in SUBSET FileNames, NEW i \in 1..Cardinality(numbers)
  PROVE  /\ InOrder(numbers)[i] \in numbers
         /\ Cardinality(Below(numbers, InOrder(numbers)[i])) = i - 1
<1>. DEFINE c == Cardinality(numbers)
            rank == [n \in numbers |-> Cardinality(Below(numbers, n)) + 1]
<1>1. c \in Nat
  <2>1. IsFiniteSet(numbers)
    BY SmallIsFinite
  <2>. QED
    BY <2>1, FS_CardinalityType
<1>2. ASSUME NEW n \in numbers
      PROVE  Cardinality(Below(numbers, n)) \in 0..(c - 1)
  <2>1. PICK m \in Bounds : m = 1000
    BY DEF Bounds
  <2>2. \A k \in numbers : k < m
    BY <2>1 DEF FileNames
  <2>3. Below(numbers, m) = numbers
    BY <2>2 DEF Below
  <2>4. /\ Cardinality(Below(numbers, n)) \in Nat
        /\ Cardinality(Below(numbers, n)) < Cardinality(Below(numbers, m))
    BY <2>1, <2>2, BelowGrows
  <2>. QED
    BY <1>1, <2>3, <2>4
<1>3. rank \in [numbers -> 1..c]
  BY <1>1, <1>2
<1>4. ASSUME NEW n \in numbers, NEW m \in numbers, rank[n] = rank[m]
      PROVE  n = m
  <2>1. n \in Bounds /\ m \in Bounds /\ n \in Int /\ m \in Int
    BY DEF FileNames, Bounds
  <2>2. Cardinality(Below(numbers, n)) = Cardinality(Below(numbers, m))
    BY <1>2, <1>4
  <2>3. ~(n < m)
    <3>1. n < m => Cardinality(Below(numbers, n)) < Cardinality(Below(numbers, m))
      BY <2>1, BelowGrows
    <3>. QED
      BY <1>2, <2>2, <3>1
  <2>4. ~(m < n)
    <3>1. m < n => Cardinality(Below(numbers, m)) < Cardinality(Below(numbers, n))
      BY <2>1, BelowGrows
    <3>. QED
      BY <1>2, <2>2, <3>1
  <2>. QED
    BY <2>1, <2>3, <2>4
<1>. HIDE DEF c
<1>5. rank \in Surjection(numbers, 1..c)
  <2>1. rank \in Injection(numbers, 1..c)
    BY <1>3, <1>4 DEF Injection, IsInjective
  <2>2. IsFiniteSet(1..c) /\ Cardinality(1..c) = c
    BY <1>1, FS_Interval
  <2>3. Cardinality(numbers) = Cardinality(1..c)
    BY <2>2 DEF c
  <2>. HIDE DEF rank
  <2>. QED
    BY <2>1, <2>2, <2>3, FS_Injection
<1>6. i \in 1..c
  BY DEF c
<1>7. PICK n \in numbers : rank[n] = i
  BY <1>5, <1>6 DEF Surjection
<1>8. Cardinality(Below(numbers, n)) = i - 1
  BY <1>1, <1>2, <1>6, <1>7
<1>9. InOrder(numbers)[i] = CHOOSE m \in numbers : Cardinality(Below(numbers, m)) = i - 1
  BY <1>6 DEF InOrder, Below, c
<1>. QED
  BY <1>8, <1>9

(***************************************************************************)
(* A status code is taken apart into what it was made of.                  *)
(***************************************************************************)
LEMMA CodesAreRead ==
  ASSUME NEW f \in Failures, NEW n \in FileNames
  PROVE  /\ MakeStatusCode(f, n) \in Int
         /\ MakeStatusCode(f, n) >= -6999 /\ MakeStatusCode(f, n) <= -1001
         /\ Template(MakeStatusCode(f, n)) = f
         /\ TestNumber(MakeStatusCode(f, n)) = n
<1>. DEFINE code == MakeStatusCode(f, n)
            Fits(g) == code < -1000 * Thousands[g] /\ code > -1000 * (Thousands[g] + 1)
<1>1. Failures = {"WrongAnswer", "TimeLimit", "RuntimeError",
                  "PresentationError", "IdlenessLimit", "MemoryLimit"}
  BY DEF Failures, Thousands
<1>2. /\ Thousands["WrongAnswer"] = 1 /\ Thousands["TimeLimit"] = 2 /\ Thousands["RuntimeError"] = 3
      /\ Thousands["PresentationError"] = 4 /\ Thousands["IdlenessLimit"] = 5
      /\ Thousands["MemoryLimit"] = 6
  BY DEF Thousands
<1>3. code = -1000 * Thousands[f] - n
  BY DEF MakeStatusCode
<1>. HIDE DEF code
<1>4. Thousands[f] \in 1..6 /\ \A g \in Failures : Thousands[g] \in 1..6 /\ (Thousands[g] = Thousands[f] => g = f)
  BY <1>1, <1>2
<1>5. code \in Int /\ code >= -6999 /\ code <= -1001
  BY <1>3, <1>4 DEF FileNames
<1>6. \A g \in Failures : Fits(g) <=> g = f
  BY <1>3, <1>4 DEF FileNames
<1>7. Template(code) = f
  <2>1. code # 2 /\ code # -1 /\ code \notin {0, 1}
    BY <1>5
  <2>2. Template(code) = CHOOSE g \in Failures : Fits(g)
    BY <1>5, <1>6, <2>1 DEF Template
  <2>. HIDE DEF Fits
  <2>. QED
    BY <1>6, <2>2
<1>8. TestNumber(code) = n
  <2>1. -code = 1000 * Thousands[f] + n
    BY <1>3, <1>4 DEF FileNames
  <2>2. ASSUME NEW t \in 1..6 PROVE (1000 * t + n) % 1000 = n
    BY DEF FileNames
  <2>. QED
    BY <1>4, <2>1, <2>2 DEF TestNumber
<1>. QED
  BY <1>5, <1>7, <1>8 DEF code

LEMMA AcceptedIsRead == Template(2) = "Accepted"
<1>1. \A f \in Failures : ~(2 < -1000 * Thousands[f])
  BY DEF Failures, Thousands
<1>. QED
  BY <1>1 DEF Template

(***************************************************************************)
(* The history of a check: what each settled test ran through, and the     *)
(* test that is running.  They are operators of the history and of the     *)
(* results, not of the variables, so that a step is an Append.             *)
(***************************************************************************)
Executions == [test : Nat, outcome : Outcomes]
RunsIn(r, i) == {k \in 1..Len(r) : r[k].test = i}
Execution(i, o) == [test |-> i, outcome |-> o]

Once(r, i, o, k) == RunsIn(r, i) = {k} /\ r[k].outcome = o /\ o \notin Greedy
Twice(r, i, o, k) ==
  /\ k + 1 \in 1..Len(r) /\ RunsIn(r, i) = {k, k + 1}
  /\ r[k].outcome \in Greedy /\ r[k + 1].outcome = o
Settled(r, i, o) == \E k \in 1..Len(r) : Once(r, i, o, k) \/ Twice(r, i, o, k)

Current(r, i, c) ==
  \/ c = 0 /\ RunsIn(r, i) = {}
  \/ c = 1 /\ Len(r) >= 1 /\ RunsIn(r, i) = {Len(r)} /\ r[Len(r)].outcome \in Greedy

Story(r, res, c) ==
  /\ r \in Seq(Executions) /\ res \in Seq(Outcomes)
  /\ \A k \in 1..Len(r) : r[k].test \in 1..(Len(res) + 1)
  /\ \A i \in 1..Len(res) : Settled(r, i, res[i])
  /\ Current(r, Len(res) + 1, c)

LEMMA EmptyStory == Story(<<>>, <<>>, 0)
  BY DEF Story, Current, RunsIn, Settled

LEMMA OneMoreRun ==
  ASSUME NEW r \in Seq(Executions), NEW t \in Nat, NEW o \in Outcomes
  PROVE  LET s == Append(r, Execution(t, o))
         IN /\ s \in Seq(Executions) /\ Len(s) = Len(r) + 1
            /\ s[Len(s)] = Execution(t, o)
            /\ \A k \in 1..Len(r) : s[k] = r[k]
            /\ RunsIn(s, t) = RunsIn(r, t) \cup {Len(s)}
            /\ \A i : i # t => RunsIn(s, i) = RunsIn(r, i)
<1>. DEFINE s == Append(r, Execution(t, o))
<1>1. Execution(t, o) \in Executions /\ Execution(t, o).test = t
  BY DEF Execution, Executions
<1>. HIDE DEF Execution
<1>2. s \in Seq(Executions) /\ Len(s) = Len(r) + 1 /\ Len(r) \in Nat
  BY <1>1
<1>3. s[Len(s)] = Execution(t, o) /\ \A k \in 1..Len(r) : s[k] = r[k]
  BY <1>1
<1>. HIDE DEF s
<1>4. \A k \in 1..Len(s) : k \in 1..Len(r) \/ k = Len(s)
  BY <1>2
<1>5. 1..Len(r) \subseteq 1..Len(s) /\ Len(s) \in 1..Len(s)
  BY <1>2
<1>6. ASSUME NEW i PROVE RunsIn(s, i) = RunsIn(r, i) \cup (IF i = t THEN {Len(s)} ELSE {})
  BY <1>1, <1>2, <1>3, <1>4, <1>5 DEF RunsIn
<1>7. RunsIn(s, t) = RunsIn(r, t) \cup {Len(s)}
  BY <1>6
<1>8. \A i : i # t => RunsIn(s, i) = RunsIn(r, i)
  BY <1>6
<1>. QED
  BY <1>2, <1>3, <1>7, <1>8 DEF s

(* What is settled stays so when another test runs.                        *)
LEMMA SettledStays ==
  ASSUME NEW r \in Seq(Executions), NEW t \in Nat, NEW o \in Outcomes,
         NEW i, NEW e, i # t, Settled(r, i, e)
  PROVE  Settled(Append(r, Execution(t, o)), i, e)
<1>. DEFINE s == Append(r, Execution(t, o))
<1>1. /\ Len(s) = Len(r) + 1 /\ \A k \in 1..Len(r) : s[k] = r[k]
      /\ RunsIn(s, i) = RunsIn(r, i) /\ Len(r) \in Nat
  BY OneMoreRun
<1>. HIDE DEF s
<1>2. PICK k \in 1..Len(r) : Once(r, i, e, k) \/ Twice(r, i, e, k)
  BY DEF Settled
<1>3. k \in 1..Len(s) /\ s[k] = r[k]
  BY <1>1
<1>4. Once(r, i, e, k) => Once(s, i, e, k)
  BY <1>1, <1>3 DEF Once
<1>5. Twice(r, i, e, k) => Twice(s, i, e, k)
  BY <1>1, <1>3 DEF Twice
<1>6. Settled(s, i, e)
  BY <1>2, <1>3, <1>4, <1>5 DEF Settled
<1>. QED
  BY <1>6 DEF s

LEMMA StoryRunsAgain ==
  ASSUME NEW r, NEW res, NEW o \in Greedy, Story(r, res, 0)
  PROVE  Story(Append(r, Execution(Len(res) + 1, o)), res, 1)
<1>. DEFINE t == Len(res) + 1
            s == Append(r, Execution(t, o))
<1>1. r \in Seq(Executions) /\ res \in Seq(Outcomes) /\ t \in Nat /\ o \in Outcomes
  BY DEF Story, Greedy, Outcomes, Failures, Thousands
<1>2. /\ s \in Seq(Executions) /\ Len(s) = Len(r) + 1 /\ Len(r) \in Nat
      /\ s[Len(s)] = Execution(t, o) /\ \A k \in 1..Len(r) : s[k] = r[k]
      /\ RunsIn(s, t) = RunsIn(r, t) \cup {Len(s)}
  BY <1>1, OneMoreRun
<1>3. \A i \in 1..Len(res) : Settled(s, i, res[i])
  <2>. SUFFICES ASSUME NEW i \in 1..Len(res) PROVE Settled(s, i, res[i])
    OBVIOUS
  <2>1. i # t /\ Settled(r, i, res[i])
    BY <1>1 DEF Story
  <2>. QED
    BY <1>1, <2>1, SettledStays
<1>. HIDE DEF s
<1>4. \A k \in 1..Len(s) : s[k].test \in 1..t
  <2>1. \A k \in 1..Len(s) : k \in 1..Len(r) \/ k = Len(s)
    BY <1>2
  <2>2. \A k \in 1..Len(r) : r[k].test \in 1..t
    BY DEF Story
  <2>3. s[Len(s)].test = t /\ t \in 1..t
    BY <1>1, <1>2 DEF Execution
  <2>. QED
    BY <1>2, <2>1, <2>2, <2>3
<1>5. Current(s, t, 1)
  <2>1. RunsIn(r, t) = {}
    BY DEF Story, Current
  <2>2. s[Len(s)].outcome = o
    BY <1>2 DEF Execution
  <2>. QED
    BY <1>2, <2>1, <2>2 DEF Current
<1>. QED
  BY <1>1, <1>2, <1>3, <1>4, <1>5 DEF Story, s

LEMMA StoryEndsTest ==
  ASSUME NEW r, NEW res, NEW c, NEW o \in Outcomes, Story(r, res, c),
         o \notin Greedy \/ c = 1
  PROVE  Story(Append(r, Execution(Len(res) + 1, o)), Append(res, o), 0)
<1>. DEFINE t == Len(res) + 1
            s == Append(r, Execution(t, o))
            q == Append(res, o)
<1>1. r \in Seq(Executions) /\ res \in Seq(Outcomes) /\ t \in Nat /\ Len(res) \in Nat
  BY DEF Story
<1>2. /\ s \in Seq(Executions) /\ Len(s) = Len(r) + 1 /\ Len(r) \in Nat
      /\ s[Len(s)] = Execution(t, o) /\ \A k \in 1..Len(r) : s[k] = r[k]
      /\ RunsIn(s, t) = RunsIn(r, t) \cup {Len(s)}
  BY <1>1, OneMoreRun
<1>3. q \in Seq(Outcomes) /\ Len(q) = t /\ q[t] = o /\ \A i \in 1..Len(res) : q[i] = res[i]
  BY <1>1
<1>4. \A i \in 1..Len(res) : Settled(s, i, res[i])
  <2>. SUFFICES ASSUME NEW i \in 1..Len(res) PROVE Settled(s, i, res[i])
    OBVIOUS
  <2>1. i # t /\ Settled(r, i, res[i])
    BY <1>1 DEF Story
  <2>. QED
    BY <1>1, <2>1, SettledStays
<1>. HIDE DEF s, q
<1>5. \A k \in 1..Len(s) : s[k].test \in 1..t
  <2>1. \A k \in 1..Len(s) : k \in 1..Len(r) \/ k = Len(s)
    BY <1>2
  <2>2. \A k \in 1..Len(r) : r[k].test \in 1..t
    BY DEF Story
  <2>3. s[Len(s)].test = t /\ t \in 1..t
    BY <1>1, <1>2 DEF Execution
  <2>. QED
    BY <1>2, <2>1, <2>2, <2>3
<1>6. s[Len(s)].outcome = o
  BY <1>2 DEF Execution
<1>7. Settled(s, t, o)
  <2>1. Current(r, t, c)
    BY DEF Story
  <2>2. CASE c = 0
    <3>1. RunsIn(s, t) = {Len(s)} /\ o \notin Greedy
      BY <1>2, <2>1, <2>2 DEF Current
    <3>2. Once(s, t, o, Len(s)) /\ Len(s) \in 1..Len(s)
      BY <1>2, <1>6, <3>1 DEF Once
    <3>. QED
      BY <3>2 DEF Settled
  <2>3. CASE c = 1
    <3>1. RunsIn(s, t) = {Len(r), Len(s)} /\ Len(r) >= 1 /\ r[Len(r)].outcome \in Greedy
      BY <1>2, <2>1, <2>3 DEF Current
    <3>2. Len(r) \in 1..Len(s) /\ Len(r) \in 1..Len(r) /\ Len(r) + 1 \in 1..Len(s)
      BY <1>2, <3>1
    <3>3. Twice(s, t, o, Len(r))
      BY <1>2, <1>6, <3>1, <3>2 DEF Twice
    <3>. QED
      BY <3>2, <3>3 DEF Settled
  <2>. QED
    BY <2>1, <2>2, <2>3 DEF Current
<1>8. Current(s, t + 1, 0)
  <2>1. \A k \in 1..Len(s) : s[k].test # t + 1
    BY <1>1, <1>5
  <2>. QED
    BY <2>1 DEF Current, RunsIn
<1>9. \A i \in 1..Len(q) : Settled(s, i, q[i])
  <2>1. \A i \in 1..Len(q) : i \in 1..Len(res) \/ i = t
    BY <1>1, <1>3
  <2>. QED
    BY <1>3, <1>4, <1>7, <2>1
<1>10. \A k \in 1..Len(s) : s[k].test \in 1..(t + 1)
  BY <1>1, <1>5
<1>11. Story(s, q, 0)
  BY <1>2, <1>3, <1>8, <1>9, <1>10 DEF Story
<1>. QED
  BY <1>11 DEF s, q

(***************************************************************************)
(* What the status code says of the results.                               *)
(***************************************************************************)
Numbered(ts) ==
  /\ Len(ts) \in Nat /\ DOMAIN ts = 1..Len(ts)
  /\ \A i \in 1..Len(ts) : ts[i].number \in FileNames

FirstFailure(res, f) ==
  /\ f \in 1..Len(res) /\ res[f] # "Accepted"
  /\ \A i \in 1..(f - 1) : res[i] = "Accepted"

CodeIs(ts, res, code) ==
  \/ code = 2 /\ \A i \in 1..Len(res) : res[i] = "Accepted"
  \/ \E f \in 1..Len(res) :
       FirstFailure(res, f) /\ code = MakeStatusCode(res[f], ts[f].number)

Counted(res, outcome, number, code) ==
  IF outcome # "Accepted" /\ code = 2 THEN MakeStatusCode(outcome, number) ELSE code

LEMMA FailureCode ==
  ASSUME NEW f \in Outcomes, f # "Accepted", NEW n \in FileNames
  PROVE  MakeStatusCode(f, n) # 2
<1>1. f \in Failures
  BY DEF Outcomes
<1>. QED
  BY <1>1, CodesAreRead

LEMMA CodeCounts ==
  ASSUME NEW ts, NEW res, NEW code, NEW o \in Outcomes, Numbered(ts),
         res \in Seq(Outcomes), Len(res) < Len(ts), CodeIs(ts, res, code)
  PROVE  CodeIs(ts, Append(res, o), Counted(res, o, ts[Len(res) + 1].number, code))
<1>. DEFINE q == Append(res, o)
            t == Len(res) + 1
            new == Counted(res, o, ts[t].number, code)
<1>1. /\ q \in Seq(Outcomes) /\ Len(q) = t /\ q[t] = o /\ t \in Nat /\ t \in 1..t
      /\ \A i \in 1..Len(res) : q[i] = res[i]
  OBVIOUS
<1>2. \A i \in 1..Len(q) : i \in 1..Len(res) \/ i = t
  BY <1>1
<1>3. \A i \in 1..(t - 1) : i \in 1..Len(res)
  OBVIOUS
<1>. HIDE DEF q
<1>4. CASE code = 2 /\ \A i \in 1..Len(res) : res[i] = "Accepted"
  <2>1. CASE o = "Accepted"
    <3>1. new = 2
      BY <1>4, <2>1 DEF Counted
    <3>2. \A i \in 1..Len(q) : q[i] = "Accepted"
      BY <1>1, <1>2, <1>4, <2>1
    <3>. QED
      BY <3>1, <3>2 DEF CodeIs, q
  <2>2. CASE o # "Accepted"
    <3>1. new = MakeStatusCode(q[t], ts[t].number)
      BY <1>1, <1>4, <2>2 DEF Counted
    <3>2. FirstFailure(q, t)
      BY <1>1, <1>3, <1>4, <2>2 DEF FirstFailure
    <3>. HIDE DEF new
    <3>3. CodeIs(ts, q, new)
      BY <1>1, <3>1, <3>2 DEF CodeIs
    <3>. QED
      BY <3>3 DEF q, new
  <2>. QED
    BY <2>1, <2>2
<1>5. CASE \E f \in 1..Len(res) :
             FirstFailure(res, f) /\ code = MakeStatusCode(res[f], ts[f].number)
  <2>1. PICK f \in 1..Len(res) :
               FirstFailure(res, f) /\ code = MakeStatusCode(res[f], ts[f].number)
    BY <1>5
  <2>2. ts[f].number \in FileNames /\ res[f] \in Outcomes /\ res[f] # "Accepted"
    BY <2>1 DEF Numbered, FirstFailure
  <2>3. code # 2
    BY <2>1, <2>2, FailureCode
  <2>4. new = MakeStatusCode(q[f], ts[f].number)
    BY <1>1, <2>1, <2>3 DEF Counted
  <2>5. f \in 1..Len(q) /\ \A i \in 1..(f - 1) : i \in 1..Len(res)
    BY <1>1
  <2>6. FirstFailure(q, f)
    BY <1>1, <2>1, <2>5 DEF FirstFailure
  <2>. HIDE DEF new
  <2>7. CodeIs(ts, q, new)
    BY <2>4, <2>5, <2>6 DEF CodeIs
  <2>. QED
    BY <2>7 DEF q, new
<1>. QED
  BY <1>4, <1>5 DEF CodeIs

(***************************************************************************)
(* The invariant.                                                          *)
(***************************************************************************)
Stages == {"idle", "compiling", "testing", "reporting", "judged", "thrown"}

Fresh ==
  pc \in {"idle", "compiling"} => results = <<>> /\ runs = <<>> /\ counter = 0 /\ statusCode = 2

LastFailed == Len(results) >= 1 /\ results[Len(results)] # "Accepted"

(* Where tests stop: only at a failure, and only outside school contests.  *)
Stopping ==
  \A i \in 1..Len(results) :
    results[i] # "Accepted" /\ ~allTests => i = Len(results) /\ pc # "testing"
Stopped ==
  pc = "reporting" \/ Tested => Len(results) = Len(tests) \/ (~allTests /\ LastFailed)

IInv ==
  /\ pc \in Stages /\ allTests \in BOOLEAN /\ school \in BOOLEAN
  /\ Numbered(tests)
  /\ tests # <<>> => Len(tests) >= 1
  /\ pc # "idle" => Len(tests) >= 1
  /\ Fresh
  /\ Story(runs, results, counter)
  /\ counter = 1 => pc = "testing"
  /\ Len(results) <= Len(tests)
  /\ pc = "testing" => Len(results) < Len(tests)
  /\ CodeIs(tests, results, statusCode)
  /\ Stopping
  /\ Stopped
  /\ Tested => row.statusCode = statusCode

LEMMA InitInv == Init => IInv
<1>. SUFFICES ASSUME Init PROVE IInv
  OBVIOUS
<1>1. Story(runs, results, counter)
  BY EmptyStory DEF Init
<1>2. /\ pc = "idle" /\ tests = <<>> /\ results = <<>> /\ runs = <<>> /\ counter = 0
      /\ statusCode = 2 /\ allTests = FALSE
  BY DEF Init
<1>3. Numbered(tests) /\ Len(tests) = 0 /\ Len(results) = 0
  BY <1>2 DEF Numbered
<1>4. CodeIs(tests, results, statusCode) /\ Stopping
  BY <1>2, <1>3 DEF CodeIs, Stopping
<1>5. Fresh /\ Stopped /\ (Tested => row.statusCode = statusCode)
  BY <1>2 DEF Fresh, Stopped, Tested
<1>6. Len(results) <= Len(tests)
  BY <1>3
<1>7. allTests \in BOOLEAN /\ school \in BOOLEAN /\ pc \in Stages /\ pc = "idle"
  BY <1>2 DEF Stages, Init
<1>8. tests = <<>> /\ counter # 1 /\ pc # "testing"
  BY <1>2
<1>. QED
  BY <1>1, <1>3, <1>4, <1>5, <1>6, <1>7, <1>8 DEF IInv

LEMMA ImportKeeps ==
  ASSUME IInv, NEW numbers, NEW open, NEW scores, Import(numbers, open, scores)
  PROVE  IInv'
<1>1. /\ pc = "idle" /\ numbers # {} /\ numbers \in SUBSET FileNames
      /\ UNCHANGED <<school, pc, allTests, results, counter, statusCode, row, runs>>
  BY DEF Import, Acceptable, FileNames
<1>. DEFINE c == Cardinality(numbers)
            Test(i) == [number |-> InOrder(numbers)[i], score |-> ScoreOf(i, numbers, open, scores)]
            new == [i \in 1..c |-> Test(i)]
<1>2. tests' = new
  BY DEF Import
<1>3. c \in Nat /\ c >= 1
  <2>1. IsFiniteSet(numbers)
    BY <1>1, SmallIsFinite
  <2>2. c \in Nat /\ c # 0
    BY <1>1, <2>1, FS_CardinalityType, FS_EmptySet
  <2>. QED
    BY <2>2
<1>4. \A i \in 1..c : Test(i).number \in FileNames
  <2>. SUFFICES ASSUME NEW i \in 1..c PROVE Test(i).number \in FileNames
    OBVIOUS
  <2>1. InOrder(numbers)[i] \in numbers
    BY <1>1, InOrderIsOne
  <2>2. Test(i).number = InOrder(numbers)[i]
    OBVIOUS
  <2>. QED
    BY <1>1, <2>1, <2>2
<1>. HIDE DEF c, Test
<1>5. Len(new) = c /\ DOMAIN new = 1..c
  BY <1>3, SequenceOfFunction
<1>6. Numbered(new)
  BY <1>3, <1>4, <1>5 DEF Numbered
<1>7. results = <<>> /\ runs = <<>> /\ counter = 0 /\ statusCode = 2 /\ Len(results) = 0
  BY <1>1 DEF IInv, Fresh
<1>8. (Len(tests) = c)' /\ Numbered(tests)'
  <2>1. Numbered(tests') /\ Len(tests') = c
    BY <1>2, <1>5, <1>6
  <2>. QED
    BY <2>1 DEF Numbered
<1>9. /\ Story(runs, results, counter)' /\ Fresh' /\ CodeIs(tests, results, statusCode)'
      /\ Stopping' /\ Stopped'
  BY <1>1, <1>7 DEF IInv, Story, Fresh, CodeIs, Stopping, Stopped, Tested, Current, RunsIn, Settled
<1>. QED
  BY <1>1, <1>3, <1>7, <1>8, <1>9 DEF IInv, Stages, Tested

(* The parts of the invariant that speak of the tests and the check only.  *)
Kept == UNCHANGED <<tests, results, counter, statusCode, runs>>

LEMMA KeptKeeps ==
  ASSUME IInv, Kept
  PROVE  /\ Numbered(tests)' /\ Story(runs, results, counter)'
         /\ CodeIs(tests, results, statusCode)'
         /\ (tests # <<>> => Len(tests) >= 1)' /\ (Len(results) <= Len(tests))'
  BY DEF IInv, Kept

LEMMA EditContestKeeps == IInv /\ EditContest => IInv'
<1>. SUFFICES ASSUME IInv, EditContest PROVE IInv'
  OBVIOUS
<1>1. UNCHANGED <<tests, pc, allTests, results, counter, statusCode, row, runs>>
  BY DEF EditContest
<1>2. school' \in BOOLEAN
  BY DEF EditContest
<1>. QED
  BY <1>1, <1>2 DEF IInv, Fresh, Stopping, Stopped, Tested, LastFailed

LEMMA BeginCheckKeeps == IInv /\ BeginCheck => IInv'
<1>. SUFFICES ASSUME IInv, BeginCheck PROVE IInv'
  OBVIOUS
<1>1. /\ pc = "idle" /\ tests # <<>> /\ pc' = "compiling"
      /\ UNCHANGED <<tests, results, counter, statusCode, runs>>
  BY DEF BeginCheck
<1>2. results = <<>> /\ runs = <<>> /\ counter = 0 /\ statusCode = 2
  BY <1>1 DEF IInv, Fresh
<1>3. Fresh' /\ Stopping' /\ Stopped' /\ ~Tested'
  BY <1>1, <1>2 DEF Fresh, Stopping, Stopped, Tested
<1>4. allTests' \in BOOLEAN /\ school' \in BOOLEAN
  <2>1. PICK yes \in BOOLEAN : yes = school
    BY DEF IInv
  <2>. QED
    BY <2>1 DEF BeginCheck
<1>5. pc' \in Stages
  BY <1>1 DEF Stages
<1>6. Len(tests) >= 1
  BY <1>1 DEF IInv
<1>. QED
  BY <1>1, <1>2, <1>3, <1>4, <1>5, <1>6, KeptKeeps DEF IInv, Kept

LEMMA CompileKeeps ==
  ASSUME IInv, NEW success \in BOOLEAN, Compile(success)
  PROVE  IInv'
<1>1. /\ pc = "compiling" /\ pc' \in {"testing", "judged"}
      /\ UNCHANGED <<school, tests, allTests, results, counter, statusCode, runs>>
      /\ pc' = "judged" => row' = [statusCode |-> -1, score |-> NoScore]
  BY DEF Compile
<1>2. results = <<>> /\ runs = <<>> /\ counter = 0 /\ statusCode = 2 /\ Len(tests) >= 1
  BY <1>1 DEF IInv, Fresh
<1>3. ~Tested'
  BY <1>1 DEF Tested
<1>4. Fresh' /\ Stopping' /\ Stopped'
  BY <1>1, <1>2, <1>3 DEF Fresh, Stopping, Stopped
<1>5. pc' \in Stages /\ pc' # "idle"
  BY <1>1 DEF Stages
<1>6. Len(results) < Len(tests) /\ Len(tests) \in Nat
  BY <1>2 DEF IInv, Numbered
<1>. QED
  BY <1>1, <1>2, <1>3, <1>4, <1>5, <1>6, KeptKeeps DEF IInv, Kept

LEMMA OutcomeType ==
  ASSUME NEW status \in RunnerStatuses, NEW answer \in CheckerAnswers
  PROVE  CheckTest(status, answer) \in Outcomes
<1>1. Outcomes = {"WrongAnswer", "TimeLimit", "RuntimeError", "PresentationError",
                  "IdlenessLimit", "MemoryLimit", "Accepted"}
  BY DEF Outcomes, Failures, Thousands
<1>2. CASE status = "Completed"
  BY <1>1, <1>2 DEF CheckTest, CheckerAnswers
<1>3. CASE status # "Completed"
  <2>1. status \in DOMAIN FailureOf
    BY <1>3, VerdictAssumption
  <2>2. \A s \in DOMAIN FailureOf : FailureOf[s] \in Outcomes
    BY <1>1 DEF FailureOf
  <2>. QED
    BY <1>3, <2>1, <2>2 DEF CheckTest
<1>. QED
  BY <1>2, <1>3

LEMMA RunAgainKeeps ==
  ASSUME IInv, NEW outcome \in Outcomes, RunAgain(outcome)
  PROVE  IInv'
<1>1. /\ pc = "testing" /\ outcome \in Greedy
      /\ runs' = Append(runs, Execution(Len(results) + 1, outcome))
      /\ counter' = counter + 1 /\ counter + 1 < 2
      /\ UNCHANGED <<school, tests, allTests, pc, results, statusCode, row>>
  BY DEF RunAgain, Execute, RunsAgain, Greedy, Execution
<1>2. counter = 0
  BY <1>1 DEF IInv, Story, Current
<1>3. Story(runs, results, 0)
  BY <1>2 DEF IInv
<1>. HIDE DEF Execution
<1>4. Story(runs, results, counter)'
  <2>1. Story(Append(runs, Execution(Len(results) + 1, outcome)), results, 1)
    BY <1>1, <1>3, StoryRunsAgain
  <2>. QED
    BY <1>1, <1>2, <2>1
<1>5. Fresh' /\ Stopping' /\ Stopped' /\ ~Tested'
  BY <1>1 DEF IInv, Fresh, Stopping, Stopped, Tested, LastFailed
<1>. QED
  BY <1>1, <1>4, <1>5 DEF IInv

LEMMA EndTestKeeps ==
  ASSUME IInv, NEW outcome \in Outcomes, EndTest(outcome)
  PROVE  IInv'
<1>. DEFINE t == Len(results) + 1
<1>1. /\ pc = "testing" /\ ~RunsAgain(outcome)
      /\ runs' = Append(runs, Execution(t, outcome))
      /\ results' = Append(results, outcome)
      /\ counter' = 0
      /\ UNCHANGED <<school, tests, allTests>>
  BY DEF EndTest, Execute, Execution
<1>. HIDE DEF Execution
<1>2. results \in Seq(Outcomes) /\ Len(results) < Len(tests) /\ t \in 1..Len(tests) /\ Len(results) \in Nat
  BY <1>1 DEF IInv, Story, Numbered
<1>3. /\ results' \in Seq(Outcomes) /\ Len(results') = t /\ results'[t] = outcome
      /\ \A i \in 1..Len(results) : results'[i] = results[i]
  BY <1>1, <1>2
<1>4. Story(runs, results, counter)'
  <2>1. Story(runs, results, counter) /\ counter \in {0, 1}
    BY DEF IInv, Story, Current
  <2>2. outcome \notin Greedy \/ counter = 1
    BY <1>1, <2>1 DEF RunsAgain, Greedy
  <2>3. Story(Append(runs, Execution(t, outcome)), Append(results, outcome), 0)
    BY <2>1, <2>2, StoryEndsTest
  <2>. QED
    BY <1>1, <2>3
<1>5. tests[t].number \in FileNames
  BY <1>2 DEF IInv, Numbered
<1>6. HasCode(tests[t].number)
  <2>1. ASSUME NEW n \in FileNames PROVE HasCode(n)
    BY DEF HasCode, FileNames
  <2>. QED
    BY <1>5, <2>1
<1>7. /\ pc' = IF StopsAt(outcome) \/ t = Len(tests) THEN "reporting" ELSE "testing"
      /\ statusCode' = Counted(results, outcome, tests[t].number, statusCode)
      /\ UNCHANGED row
  BY <1>6 DEF EndTest, IsFirstFailure, Counted
<1>8. CodeIs(tests, results, statusCode)'
  <2>1. CodeIs(tests, Append(results, outcome), Counted(results, outcome, tests[t].number, statusCode))
    BY <1>2, CodeCounts DEF IInv
  <2>. QED
    BY <1>1, <1>7, <2>1
<1>9. Stopping'
  <2>1. \A i \in 1..Len(results) : results[i] = "Accepted" \/ allTests
    BY <1>1 DEF IInv, Stopping
  <2>2. outcome # "Accepted" /\ ~allTests => pc' # "testing"
    BY <1>7 DEF StopsAt
  <2>3. \A i \in 1..t : i \in 1..Len(results) \/ i = t
    BY <1>2
  <2>. QED
    BY <1>1, <1>3, <2>1, <2>2, <2>3 DEF Stopping
<1>10. pc' \in {"reporting", "testing"} /\ (pc' = "reporting" => StopsAt(outcome) \/ t = Len(tests))
       /\ (pc' = "testing" => t # Len(tests))
  BY <1>7
<1>11. Stopped'
  <2>1. pc' = "reporting" => (~allTests /\ outcome # "Accepted") \/ t = Len(tests)
    BY <1>10 DEF StopsAt
  <2>2. ~Tested' /\ Len(results') >= 1 /\ results'[Len(results')] = outcome
    BY <1>2, <1>3, <1>10 DEF Tested
  <2>3. CASE pc' = "reporting" /\ t = Len(tests)
    <3>1. Len(results') = Len(tests')
      BY <1>1, <1>3, <2>3
    <3>. QED
      BY <3>1 DEF Stopped
  <2>4. CASE pc' = "reporting" /\ ~allTests /\ outcome # "Accepted"
    BY <1>1, <2>2, <2>4 DEF Stopped, LastFailed
  <2>5. CASE pc' # "reporting"
    BY <2>2, <2>5 DEF Stopped
  <2>. QED
    BY <2>1, <2>3, <2>4, <2>5
<1>12. Fresh' /\ ~Tested' /\ pc' \in Stages /\ counter' # 1
  BY <1>1, <1>10 DEF Fresh, Tested, Stages
<1>13. (Len(results) <= Len(tests) /\ (pc = "testing" => Len(results) < Len(tests)))'
  <2>1. Len(tests) \in Nat /\ tests' = tests
    BY <1>1 DEF IInv, Numbered
  <2>. QED
    BY <1>2, <1>3, <1>10, <2>1
<1>14. (Numbered(tests) /\ Len(tests) >= 1 /\ allTests \in BOOLEAN /\ school \in BOOLEAN)'
  BY <1>1 DEF IInv
<1>. QED
  BY <1>4, <1>8, <1>9, <1>11, <1>12, <1>13, <1>14 DEF IInv

LEMMA ReportKeeps == IInv /\ Report => IInv'
<1>. SUFFICES ASSUME IInv, Report PROVE IInv'
  OBVIOUS
<1>1. /\ pc = "reporting" /\ pc' \in {"thrown", "judged"}
      /\ UNCHANGED <<school, tests, allTests, results, counter, statusCode, runs>>
      /\ pc' = "judged" => row' = [statusCode |-> statusCode, score |-> Score]
  BY DEF Report
<1>2. Len(results) = Len(tests) \/ (~allTests /\ LastFailed)
  BY <1>1 DEF IInv, Stopped
<1>3. Stopped'
  BY <1>1, <1>2 DEF Stopped, LastFailed
<1>4. Fresh' /\ Stopping' /\ (Tested => row.statusCode = statusCode)'
  BY <1>1 DEF IInv, Fresh, Stopping, Tested
<1>5. pc' \in Stages /\ pc' # "testing" /\ counter # 1
  BY <1>1 DEF IInv, Stages
<1>. QED
  BY <1>1, <1>3, <1>4, <1>5, KeptKeeps DEF IInv, Kept

LEMMA QueueKeeps == IInv /\ Queue => IInv'
<1>. SUFFICES ASSUME IInv, Queue PROVE IInv'
  OBVIOUS
<1>1. /\ pc' = "idle" /\ allTests' = FALSE /\ results' = <<>> /\ runs' = <<>>
      /\ counter' = 0 /\ statusCode' = 2 /\ UNCHANGED <<school, tests>>
  BY DEF Queue
<1>2. Story(runs, results, counter)'
  <2>1. Story(<<>>, <<>>, 0)
    BY EmptyStory
  <2>. QED
    BY <1>1, <2>1
<1>3. Len(results') = 0 /\ ~Tested'
  BY <1>1 DEF Tested
<1>4. Fresh' /\ Stopping' /\ Stopped' /\ CodeIs(tests, results, statusCode)'
  BY <1>1, <1>3 DEF Fresh, Stopping, Stopped, CodeIs
<1>5. pc' \in Stages /\ counter' # 1 /\ pc' # "testing"
  BY <1>1 DEF Stages
<1>8. allTests' \in BOOLEAN
  BY <1>1
<1>6. (Numbered(tests) /\ school \in BOOLEAN /\ (tests # <<>> => Len(tests) >= 1))'
  BY <1>1 DEF IInv
<1>7. (Len(results) <= Len(tests))'
  BY <1>3, <1>6 DEF Numbered
<1>. QED
  BY <1>1, <1>2, <1>3, <1>4, <1>5, <1>6, <1>7, <1>8 DEF IInv

LEMMA StepInv == IInv /\ [Next]_vars => IInv'
<1>. SUFFICES ASSUME IInv, [Next]_vars PROVE IInv'
  OBVIOUS
<1>1. ASSUME NEW numbers \in SUBSET FileNumbers, NEW open \in 0..Cardinality(numbers),
             NEW scores \in Scorings(numbers), Import(numbers, open, scores)
      PROVE  IInv'
  BY <1>1, ImportKeeps
<1>2. ASSUME NEW success \in BOOLEAN, Compile(success)
      PROVE  IInv'
  BY <1>2, CompileKeeps
<1>3. ASSUME NEW status \in RunnerStatuses, NEW answer \in CheckerAnswers, RunTest(status, answer)
      PROVE  IInv'
  <2>1. CheckTest(status, answer) \in Outcomes
    BY OutcomeType
  <2>. QED
    BY <1>3, <2>1, RunAgainKeeps, EndTestKeeps DEF RunTest
<1>4. Abort \/ Retest => IInv'
  BY QueueKeeps DEF Abort, Retest
<1>5. CASE UNCHANGED vars
  BY <1>5 DEF vars, IInv, Fresh, Stopping, Stopped, Tested, LastFailed
<1>. QED
  BY <1>1, <1>2, <1>3, <1>4, <1>5, EditContestKeeps, BeginCheckKeeps, ReportKeeps DEF Next

LEMMA Invariance == Spec => []IInv
<1>. QED
  BY InitInv, StepInv, PTL DEF Spec

(***************************************************************************)
(* What the invariant says in the terms of the properties.                 *)
(***************************************************************************)
LEMMA MaxOfOne == ASSUME NEW k \in Int PROVE Max({k}) = k
  BY DEF Max

LEMMA MaxOfTwo == ASSUME NEW k \in Int PROVE Max({k, k + 1}) = k + 1
<1>1. \E x \in {k, k + 1} : \A y \in {k, k + 1} : x >= y
  OBVIOUS
<1>2. \A x \in {k, k + 1} : (\A y \in {k, k + 1} : x >= y) => x = k + 1
  OBVIOUS
<1>. QED
  BY <1>1, <1>2 DEF Max

LEMMA MinOfOne == ASSUME NEW k \in Int PROVE Min({k}) = k
  BY DEF Min

LEMMA MinOfTwo == ASSUME NEW k \in Int PROVE Min({k, k + 1}) = k
<1>1. \E x \in {k, k + 1} : \A y \in {k, k + 1} : x <= y
  OBVIOUS
<1>2. \A x \in {k, k + 1} : (\A y \in {k, k + 1} : x <= y) => x = k
  OBVIOUS
<1>. QED
  BY <1>1, <1>2 DEF Min

LEMMA MinIs ==
  ASSUME NEW S \in SUBSET Int, NEW m \in S, \A x \in S : m <= x
  PROVE  Min(S) = m
<1>1. \A x \in S : (\A y \in S : x <= y) => x = m
  OBVIOUS
<1>. QED
  BY <1>1 DEF Min

(* The outcome of the last execution of a test is its result.              *)
LEMMA FinalIsResult ==
  ASSUME IInv, NEW i \in 1..Len(results)
  PROVE  /\ RunsOf(i) # {} /\ Final(i) = results[i]
         /\ Passed(i) <=> results[i] = "Accepted"
<1>1. Settled(runs, i, results[i]) /\ runs \in Seq(Executions)
  BY DEF IInv, Story
<1>2. RunsOf(i) = RunsIn(runs, i)
  BY <1>1 DEF RunsOf, RunsIn
<1>3. PICK k \in 1..Len(runs) : Once(runs, i, results[i], k) \/ Twice(runs, i, results[i], k)
  BY <1>1 DEF Settled
<1>4. CASE Once(runs, i, results[i], k)
  <2>1. RunsOf(i) = {k} /\ runs[k].outcome = results[i]
    BY <1>2, <1>4 DEF Once
  <2>. QED
    BY <2>1, MaxOfOne DEF Final, Passed
<1>5. CASE Twice(runs, i, results[i], k)
  <2>1. RunsOf(i) = {k, k + 1} /\ runs[k + 1].outcome = results[i]
    BY <1>2, <1>5 DEF Twice
  <2>. QED
    BY <2>1, MaxOfTwo DEF Final, Passed
<1>. QED
  BY <1>3, <1>4, <1>5

(* Once a check is over, a test without a result was never run.            *)
LEMMA NoResultNoRuns ==
  ASSUME IInv, pc # "testing", NEW i \in Nat, i > Len(results)
  PROVE  RunsOf(i) = {} /\ ~Passed(i)
<1>1. /\ runs \in Seq(Executions) /\ RunsIn(runs, Len(results) + 1) = {}
      /\ results \in Seq(Outcomes)
      /\ \A k \in 1..Len(runs) : runs[k].test \in 1..(Len(results) + 1)
  BY DEF IInv, Story, Current
<1>2. \A k \in 1..Len(runs) : runs[k].test # i
  <2>. SUFFICES ASSUME NEW k \in 1..Len(runs), runs[k].test = i PROVE FALSE
    OBVIOUS
  <2>1. i = Len(results) + 1
    BY <1>1
  <2>. QED
    BY <1>1, <2>1 DEF RunsIn
<1>. QED
  BY <1>1, <1>2 DEF RunsOf, Passed

(***************************************************************************)
(* The theorems.                                                           *)
(***************************************************************************)
LEMMA WhatCountsRuns == IInv => RunsWhatCounts
<1>. SUFFICES ASSUME IInv, Tested, NEW i \in DOMAIN tests
              PROVE  RunsOf(i) # {} <=> allTests \/ \A j \in 1..(i - 1) : Passed(j)
  BY DEF RunsWhatCounts
<1>1. /\ Len(tests) \in Nat /\ Len(results) \in Nat /\ i \in 1..Len(tests)
      /\ Len(results) <= Len(tests) /\ pc # "testing"
  BY DEF IInv, Numbered, Story, Tested
<1>2. i \in 1..Len(results) => RunsOf(i) # {}
  BY FinalIsResult
<1>3. i > Len(results) => RunsOf(i) = {}
  BY <1>1, NoResultNoRuns
<1>4. CASE i \in 1..Len(results)
  <2>1. ASSUME ~allTests, NEW j \in 1..(i - 1) PROVE Passed(j)
    <3>1. j \in 1..Len(results) /\ j # Len(results)
      BY <1>1, <1>4
    <3>2. results[j] = "Accepted"
      BY <2>1, <3>1 DEF IInv, Stopping
    <3>. QED
      BY <3>1, <3>2, FinalIsResult
  <2>. QED
    BY <1>2, <1>4, <2>1
<1>5. CASE i > Len(results)
  <2>1. ~allTests /\ LastFailed
    BY <1>1, <1>5 DEF IInv, Stopped
  <2>2. Len(results) \in 1..Len(results) /\ Len(results) \in 1..(i - 1)
    BY <1>1, <1>5, <2>1 DEF LastFailed
  <2>3. ~Passed(Len(results))
    BY <2>1, <2>2, FinalIsResult DEF LastFailed
  <2>. QED
    BY <1>3, <1>5, <2>1, <2>2, <2>3
<1>. QED
  BY <1>1, <1>4, <1>5

(* Every test of a school contest is run, and in the others those up to    *)
(* the first failure, whatever the archives and the outcomes.              *)
THEOREM EnoughIsRun == Spec => []RunsWhatCounts
<1>. QED
  BY Invariance, WhatCountsRuns, PTL

LEMMA FailureIsNamed == IInv => CodeNamesFirstFailure
<1>. DEFINE failed == {i \in DOMAIN tests : RunsOf(i) # {} /\ ~Passed(i)}
<1>. SUFFICES ASSUME IInv, Tested
              PROVE  IF failed = {}
                       THEN Template(row.statusCode) = "Accepted" /\ \A i \in DOMAIN tests : Passed(i)
                       ELSE /\ Template(row.statusCode) = Final(Min(failed))
                            /\ TestNumber(row.statusCode) = tests[Min(failed)].number
  BY DEF CodeNamesFirstFailure
<1>1. /\ Len(tests) \in Nat /\ Len(results) \in Nat /\ DOMAIN tests = 1..Len(tests)
      /\ Len(results) <= Len(tests) /\ pc # "testing" /\ results \in Seq(Outcomes)
      /\ row.statusCode = statusCode
  BY DEF IInv, Numbered, Story, Tested
<1>2. \A i \in 1..Len(tests) : i \in failed <=> i \in 1..Len(results) /\ results[i] # "Accepted"
  <2>. SUFFICES ASSUME NEW i \in 1..Len(tests)
                PROVE  i \in failed <=> i \in 1..Len(results) /\ results[i] # "Accepted"
    OBVIOUS
  <2>1. CASE i \in 1..Len(results)
    BY <1>1, <2>1, FinalIsResult
  <2>2. CASE i > Len(results)
    BY <1>1, <2>2, NoResultNoRuns
  <2>. QED
    BY <1>1, <2>1, <2>2
<1>3. failed \in SUBSET (1..Len(tests))
  BY <1>1
<1>. HIDE DEF failed
<1>4. CASE statusCode = 2 /\ \A i \in 1..Len(results) : results[i] = "Accepted"
  <2>1. failed = {}
    BY <1>2, <1>3, <1>4
  <2>2. ~LastFailed
    <3>1. Len(results) >= 1 => Len(results) \in 1..Len(results)
      BY <1>1
    <3>. QED
      BY <1>4, <3>1 DEF LastFailed
  <2>3. Len(results) = Len(tests)
    BY <2>2 DEF IInv, Stopped
  <2>4. \A i \in DOMAIN tests : Passed(i)
    BY <1>1, <1>4, <2>3, FinalIsResult
  <2>. QED
    BY <1>1, <1>4, <2>1, <2>4, AcceptedIsRead
<1>5. CASE \E f \in 1..Len(results) :
             FirstFailure(results, f) /\ statusCode = MakeStatusCode(results[f], tests[f].number)
  <2>1. PICK f \in 1..Len(results) :
               FirstFailure(results, f) /\ statusCode = MakeStatusCode(results[f], tests[f].number)
    BY <1>5
  <2>2. f \in 1..Len(tests) /\ f \in failed
    BY <1>1, <1>2, <2>1 DEF FirstFailure
  <2>3. ASSUME NEW i \in failed PROVE f <= i
    <3>1. i \in 1..Len(results) /\ results[i] # "Accepted"
      BY <1>2, <1>3, <2>3
    <3>2. i \notin 1..(f - 1)
      BY <2>1, <3>1 DEF FirstFailure
    <3>. QED
      BY <1>1, <3>1, <3>2
  <2>4. Min(failed) = f
    <3>1. failed \in SUBSET Int
      BY <1>3
    <3>. QED
      BY <2>2, <2>3, <3>1, MinIs
  <2>5. results[f] \in Failures /\ tests[f].number \in FileNames
    BY <1>1, <2>1, <2>2 DEF IInv, Numbered, FirstFailure, Outcomes
  <2>6. Final(f) = results[f]
    BY FinalIsResult
  <2>. QED
    BY <1>1, <2>1, <2>2, <2>4, <2>5, <2>6, CodesAreRead
<1>. QED
  BY <1>4, <1>5 DEF IInv, CodeIs

(* A page names the first test that failed and how it failed.              *)
THEOREM FirstFailureIsNamed == Spec => []CodeNamesFirstFailure
<1>. QED
  BY Invariance, FailureIsNamed, PTL

LEMMA TwiceIsEnough == IInv => SecondChance
<1>. DEFINE greedy(i) == {k \in RunsOf(i) : runs[k].outcome \in Greedy}
<1>. SUFFICES ASSUME IInv, NEW i \in DOMAIN tests
              PROVE  IF i \in DOMAIN results
                       THEN /\ Final(i) \in Greedy => Cardinality(greedy(i)) = 2
                            /\ Cardinality(RunsOf(i)) = IF Min(RunsOf(i)) \in greedy(i) THEN 2 ELSE 1
                       ELSE RunsOf(i) = greedy(i) /\ Cardinality(greedy(i)) <= 1
  BY DEF SecondChance, Greedy
<1>1. /\ runs \in Seq(Executions) /\ results \in Seq(Outcomes) /\ DOMAIN results = 1..Len(results)
      /\ i \in 1..Len(tests) /\ Len(results) \in Nat /\ RunsOf(i) = RunsIn(runs, i)
  BY DEF IInv, Story, Numbered, RunsOf, RunsIn
<1>2. \A k \in Int : Cardinality({k, k + 1}) = 2 /\ Cardinality({k}) = 1
  <2>. SUFFICES ASSUME NEW k \in Int PROVE Cardinality({k, k + 1}) = 2 /\ Cardinality({k}) = 1
    OBVIOUS
  <2>1. IsFiniteSet({k}) /\ Cardinality({k}) = 1
    BY FS_Singleton
  <2>2. k + 1 \notin {k} /\ {k} \cup {k + 1} = {k, k + 1}
    OBVIOUS
  <2>3. Cardinality({k} \cup {k + 1}) = Cardinality({k}) + 1
    BY <2>1, <2>2, FS_AddElement
  <2>. QED
    BY <2>1, <2>2, <2>3
<1>3. CASE i \in 1..Len(results)
  <2>1. PICK k \in 1..Len(runs) : Once(runs, i, results[i], k) \/ Twice(runs, i, results[i], k)
    BY <1>3 DEF IInv, Story, Settled
  <2>2. Final(i) = results[i] /\ k \in Int
    BY <1>3, FinalIsResult
  <2>3. CASE Once(runs, i, results[i], k)
    <3>1. RunsOf(i) = {k} /\ runs[k].outcome \notin Greedy /\ results[i] \notin Greedy
      BY <1>1, <2>3 DEF Once
    <3>2. k \notin greedy(i)
      BY <3>1
    <3>3. Min(RunsOf(i)) = k /\ Cardinality(RunsOf(i)) = 1
      BY <1>2, <2>2, <3>1, MinOfOne
    <3>. QED
      BY <1>1, <1>3, <2>2, <3>1, <3>2, <3>3
  <2>4. CASE Twice(runs, i, results[i], k)
    <3>1. /\ RunsOf(i) = {k, k + 1} /\ runs[k].outcome \in Greedy
          /\ runs[k + 1].outcome = results[i]
      BY <1>1, <2>4 DEF Twice
    <3>2. k \in greedy(i) /\ (results[i] \in Greedy => greedy(i) = {k, k + 1})
      BY <3>1
    <3>3. Min(RunsOf(i)) = k /\ Cardinality(RunsOf(i)) = 2
      BY <1>2, <2>2, <3>1, MinOfTwo
    <3>4. results[i] \in Greedy => Cardinality(greedy(i)) = 2
      BY <1>2, <2>2, <3>2
    <3>. QED
      BY <1>1, <1>3, <2>2, <3>2, <3>3, <3>4
  <2>. QED
    BY <2>1, <2>3, <2>4
<1>4. CASE i > Len(results)
  <2>1. CASE RunsOf(i) = {}
    <3>1. greedy(i) = {} /\ Cardinality(greedy(i)) = 0
      BY <2>1, FS_EmptySet
    <3>. QED
      BY <1>1, <1>4, <2>1, <3>1
  <2>2. CASE RunsOf(i) # {}
    <3>1. i = Len(results) + 1
      BY <1>1, <1>4, <2>2 DEF IInv, Story, RunsIn
    <3>2. /\ RunsOf(i) = {Len(runs)} /\ runs[Len(runs)].outcome \in Greedy /\ Len(runs) \in Int
      BY <1>1, <2>2, <3>1 DEF IInv, Story, Current
    <3>3. greedy(i) = {Len(runs)}
      BY <3>2
    <3>4. Cardinality(greedy(i)) = 1
      BY <1>2, <3>2, <3>3
    <3>. QED
      BY <1>1, <1>4, <3>2, <3>3, <3>4
  <2>. QED
    BY <2>1, <2>2
<1>. QED
  BY <1>1, <1>3, <1>4

(* Only a test that took too much is run again, and once only.             *)
THEOREM OneSecondChance == Spec => []SecondChance
<1>. QED
  BY Invariance, TwiceIsEnough, PTL

(***************************************************************************)
(* Scores.  What the tests are worth, all together, fits into an int.      *)
(***************************************************************************)
Value(ts) == [i \in 1..Len(ts) |-> IF ts[i].score # NoScore THEN ts[i].score ELSE 0]

Shares(ts) ==
  \E open \in Nat : open < Len(ts) /\ \A i \in 1..Len(ts) : ts[i].score = Share(i, Len(ts), open)

GoodScores(ts, hundred) ==
  /\ ts \in Seq(Tests)
  /\ Sum(Value(ts), 1..Len(ts)) <= IntMax
  /\ hundred => Shares(ts)

LEMMA ShareType ==
  ASSUME NEW count \in Nat, NEW open \in Nat, open < count, NEW i \in 1..count
  PROVE  Share(i, count, open) \in Nat
<1>. DEFINE d == count - open
<1>1. d \in Nat /\ d >= 1
  OBVIOUS
<1>. HIDE DEF d
<1>2. 100 \div d \in Nat /\ 100 % d \in Nat
  BY <1>1, Division
<1>. QED
  BY <1>2 DEF Share, d

LEMMA SameSum ==
  ASSUME NEW f, NEW g, NEW S, IsFiniteSet(S), \A x \in S : f[x] \in Int /\ f[x] = g[x]
  PROVE  Sum(f, S) = Sum(g, S)
  BY SumCompare

LEMMA ZeroSum ==
  ASSUME NEW f, NEW S, IsFiniteSet(S), \A x \in S : f[x] = 0
  PROVE  Sum(f, S) = 0
<1>1. Sum(f, {}) = Sum(f, S)
  BY SumOfPart
<1>. QED
  BY <1>1, SumEquation, FS_EmptySet

(* Scores of a manifest go to the tests of their numbers, each to one.     *)
LEMMA MarksFit ==
  ASSUME NEW numbers \in SUBSET FileNames, NEW N \in SUBSET numbers, NEW scores \in [N -> Nat],
         NEW f, \A i \in 1..Cardinality(numbers) :
                  f[i] = LET n == InOrder(numbers)[i] IN IF n \in N THEN scores[n] ELSE 0
  PROVE  Sum(f, 1..Cardinality(numbers)) <= SumFunction(scores)
<1>. DEFINE c == Cardinality(numbers)
            h == InOrder(numbers)
            A == {i \in 1..c : h[i] \in N}
            g == [i \in A |-> scores[h[i]]]
<1>1. c \in Nat /\ IsFiniteSet(1..c)
  BY SmallIsFinite, FS_CardinalityType, IntervalIsFinite
<1>2. IsFiniteSet(N) /\ IsFiniteSet(A) /\ A \in SUBSET (1..c)
  <2>1. IsFiniteSet(N)
    BY SmallIsFinite
  <2>2. A \in SUBSET (1..c)
    OBVIOUS
  <2>. QED
    BY <1>1, <2>1, <2>2, FS_Subset
<1>3. \A i \in 1..c : Cardinality(Below(numbers, h[i])) = i - 1
  BY InOrderIsOne
<1>4. \A i, j \in A : h[i] = h[j] => i = j
  <2>. SUFFICES ASSUME NEW i \in A, NEW j \in A, h[i] = h[j] PROVE i = j
    OBVIOUS
  <2>1. i - 1 = j - 1
    BY <1>3
  <2>2. i \in Int /\ j \in Int
    BY <1>1
  <2>. QED
    BY <2>1, <2>2
<1>5. \A i \in 1..c : f[i] \in Nat /\ (i \notin A => f[i] = 0) /\ (i \in A => f[i] = g[i])
  OBVIOUS
<1>6. SumFunction(scores) = Sum(scores, N)
  <2>1. DOMAIN scores = N
    OBVIOUS
  <2>. QED
    BY <2>1, SumIsFold DEF SumFunction
<1>7. Sum(g, A) <= Sum(scores, N)
  <2>1. \A i \in A : h[i] \in N
    OBVIOUS
  <2>2. \A n \in N : scores[n] \in Nat
    OBVIOUS
  <2>. HIDE DEF A, h
  <2>. QED
    BY <1>2, <1>4, <2>1, <2>2, SumRenamed
<1>. HIDE DEF A, g, h, c
<1>8. Sum(f, A) = Sum(f, 1..c)
  BY <1>1, <1>2, <1>5, SumOfPart
<1>9. Sum(f, A) = Sum(g, A)
  <2>1. \A i \in A : f[i] \in Int /\ f[i] = g[i]
    BY <1>2, <1>5
  <2>. QED
    BY <1>2, <2>1, SameSum
<1>10. Sum(f, 1..c) <= Sum(scores, N)
  BY <1>7, <1>8, <1>9
<1>. QED
  BY <1>6, <1>10 DEF c

LEMMA ImportedScores ==
  ASSUME IInv, NEW numbers, NEW open \in Nat, NEW scores \in Scorings(numbers),
         Import(numbers, open, scores)
  PROVE  GoodScores(tests', shared')
<1>1. /\ pc = "idle" /\ numbers # {} /\ numbers \in SUBSET FileNames
      /\ open <= Cardinality(numbers)
      /\ shared' = (school /\ scores = NoScore)
      /\ school /\ scores = NoScore => open # Cardinality(numbers)
      /\ scores # NoScore => SumFunction(scores) <= IntMax
  BY DEF Import, Acceptable, FileNames, SmallScores
<1>. DEFINE c == Cardinality(numbers)
            Test(i) == [number |-> InOrder(numbers)[i], score |-> ScoreOf(i, numbers, open, scores)]
            new == [i \in 1..c |-> Test(i)]
<1>2. tests' = new
  BY DEF Import
<1>3. c \in Nat /\ IsFiniteSet(1..c)
  BY <1>1, SmallIsFinite, FS_CardinalityType, IntervalIsFinite
<1>4. Len(new) = c /\ \A i \in 1..c : new[i] = Test(i)
  BY <1>3, SequenceOfFunction
<1>5. \A i \in 1..c : InOrder(numbers)[i] \in Nat
  <2>1. \A i \in 1..c : InOrder(numbers)[i] \in numbers
    BY <1>1, InOrderIsOne
  <2>2. \A n \in numbers : n \in Nat
    BY <1>1 DEF FileNames
  <2>. QED
    BY <2>1, <2>2
<1>6. SUFFICES /\ \A i \in 1..c : ScoreOf(i, numbers, open, scores) \in Nat \cup {NoScore}
               /\ Sum(Value(new), 1..c) <= IntMax
               /\ shared' => Shares(new)
  <2>1. ASSUME \A i \in 1..c : ScoreOf(i, numbers, open, scores) \in Nat \cup {NoScore}
        PROVE  new \in Seq(Tests)
    <3>1. \A i \in 1..c : Test(i) \in Tests
      BY <1>5, <2>1 DEF Tests
    <3>. HIDE DEF c, Test
    <3>. QED
      BY <1>3, <3>1
  <2>. HIDE DEF new
  <2>. QED
    BY <1>2, <1>4, <2>1 DEF GoodScores
<1>7. \A i \in 1..c : new[i].score = ScoreOf(i, numbers, open, scores)
  BY <1>4
<1>8. \A i \in 1..c :
        Value(new)[i] = LET s == ScoreOf(i, numbers, open, scores) IN IF s # NoScore THEN s ELSE 0
  BY <1>4, <1>7 DEF Value
<1>9. NoScore \notin Nat /\ Marks \subseteq Nat /\ IntMax \in Nat /\ IntMax >= 100
  BY VerdictAssumption
<1>. HIDE DEF new, Test
<1>10. CASE scores # NoScore
  <2>1. PICK N \in SUBSET numbers : scores \in [N -> Marks]
    BY <1>10 DEF Scorings
  <2>2. scores \in [N -> Nat] /\ DOMAIN scores = N
    BY <1>9, <2>1
  <2>3. \A i \in 1..c : ScoreOf(i, numbers, open, scores)
                          = LET n == InOrder(numbers)[i] IN IF n \in N THEN scores[n] ELSE 0
    BY <1>10, <2>2 DEF ScoreOf
  <2>4. \A i \in 1..c : ScoreOf(i, numbers, open, scores) \in Nat
    BY <2>2, <2>3
  <2>5. \A i \in 1..c : Value(new)[i]
                          = LET n == InOrder(numbers)[i] IN IF n \in N THEN scores[n] ELSE 0
    BY <1>8, <1>9, <2>3, <2>4
  <2>6. Sum(Value(new), 1..c) <= SumFunction(scores)
    BY <1>1, <2>2, <2>5, MarksFit
  <2>7. Sum(Value(new), 1..c) \in Int
    <3>1. \A i \in 1..c : Value(new)[i] \in Int
      BY <1>8, <1>9, <2>4
    <3>. QED
      BY <1>3, <3>1, SumType
  <2>8. SumFunction(scores) \in Int
    <3>1. IsFiniteSet(N) /\ \A n \in N : scores[n] \in Int
      BY <1>1, <2>2, SmallIsFinite
    <3>2. SumFunction(scores) = Sum(scores, N)
      BY <2>2, SumIsFold DEF SumFunction
    <3>. QED
      BY <3>1, <3>2, SumType
  <2>9. Sum(Value(new), 1..c) <= IntMax
    BY <1>1, <1>9, <1>10, <2>6, <2>7, <2>8
  <2>10. ~shared'
    BY <1>1, <1>10
  <2>. QED
    BY <2>4, <2>9, <2>10
<1>11. CASE scores = NoScore /\ school
  <2>1. open < c
    BY <1>1, <1>3, <1>11
  <2>2. \A i \in 1..c : ScoreOf(i, numbers, open, scores) = Share(i, c, open)
    BY <1>11 DEF ScoreOf
  <2>3. \A i \in 1..c : Share(i, c, open) \in Nat
    BY <1>3, <2>1, ShareType
  <2>4. \A i \in 1..c : Value(new)[i] = Share(i, c, open)
    BY <1>8, <1>9, <2>2, <2>3
  <2>5. Sum(Value(new), 1..c) = 100
    BY <1>3, <2>1, <2>4, SharesAreHundred
  <2>6. Shares(new)
    BY <1>4, <1>7, <2>1, <2>2 DEF Shares
  <2>. QED
    BY <1>9, <2>2, <2>3, <2>5, <2>6
<1>12. CASE scores = NoScore /\ ~school
  <2>1. \A i \in 1..c : ScoreOf(i, numbers, open, scores) = NoScore
    BY <1>12 DEF ScoreOf
  <2>2. \A i \in 1..c : Value(new)[i] = 0
    BY <1>8, <2>1
  <2>3. Sum(Value(new), 1..c) = 0
    BY <1>3, <2>2, ZeroSum
  <2>4. ~shared'
    BY <1>1, <1>12
  <2>. QED
    BY <1>9, <2>1, <2>3, <2>4
<1>. QED
  BY <1>10, <1>11, <1>12

(***************************************************************************)
(* What a submission earns.                                                *)
(***************************************************************************)
Gain(i) == IF i \in 1..Len(results) /\ results[i] = "Accepted" THEN Value(tests)[i] ELSE 0
Gains == [i \in 1..Len(tests) |-> Gain(i)]

LEMMA ValueType ==
  ASSUME NEW ts \in Seq(Tests), NEW i \in 1..Len(ts)
  PROVE  /\ Value(ts)[i] \in Nat
         /\ ts[i].score # NoScore => Value(ts)[i] = ts[i].score
<1>1. ts[i].score \in Nat \cup {NoScore}
  <2>1. ts[i] \in Tests
    OBVIOUS
  <2>. QED
    BY <2>1 DEF Tests
<1>2. Value(ts)[i] = IF ts[i].score # NoScore THEN ts[i].score ELSE 0
  BY DEF Value
<1>. QED
  BY <1>1, <1>2

LEMMA Earnings ==
  ASSUME IInv, GoodScores(tests, shared)
  PROVE  /\ SumFunction(Earned) = Sum(Gains, 1..Len(tests))
         /\ Sum(Gains, 1..Len(tests)) \in Nat
         /\ Sum(Gains, 1..Len(tests)) <= Sum(Value(tests), 1..Len(tests))
         /\ Sum(Gains, 1..Len(tests)) = Sum(Value(tests), 1..Len(tests))
              <=> \A i \in 1..Len(tests) : Gain(i) = Value(tests)[i]
<1>. DEFINE c == Len(tests)
            r == Len(results)
<1>1. /\ c \in Nat /\ r \in Nat /\ r <= c /\ results \in Seq(Outcomes)
      /\ IsFiniteSet(1..c) /\ IsFiniteSet(1..r) /\ 1..r \in SUBSET (1..c)
  BY IntervalIsFinite DEF IInv, Story, Numbered
<1>2. \A i \in 1..c : Value(tests)[i] \in Nat /\ (tests[i].score # NoScore => Value(tests)[i] = tests[i].score)
  BY ValueType DEF GoodScores
<1>3. \A i \in 1..c : Gains[i] = Gain(i) /\ Gain(i) \in Nat /\ Gain(i) <= Value(tests)[i]
  BY <1>1, <1>2 DEF Gains, Gain
<1>4. DOMAIN Earned = 1..r
  BY <1>1 DEF Earned
<1>5. \A i \in 1..r : Earned[i] = Gains[i]
  BY <1>1, <1>2, <1>3 DEF Earned, Gain, Value
<1>6. SumFunction(Earned) = Sum(Earned, 1..r)
  BY <1>4, SumIsFold DEF SumFunction
<1>7. Sum(Gains, 1..r) = Sum(Earned, 1..r)
  <2>1. \A i \in 1..r : Gains[i] \in Int /\ Gains[i] = Earned[i]
    BY <1>1, <1>3, <1>5
  <2>. QED
    BY <1>1, <2>1, SameSum
<1>8. Sum(Gains, 1..r) = Sum(Gains, 1..c)
  <2>1. \A i \in (1..c) \ (1..r) : Gains[i] = 0
    BY <1>3 DEF Gain
  <2>2. \A i \in 1..c : Gains[i] \in Nat
    BY <1>3
  <2>. QED
    BY <1>1, <2>1, <2>2, SumOfPart
<1>9. /\ Sum(Gains, 1..c) <= Sum(Value(tests), 1..c)
      /\ Sum(Gains, 1..c) = Sum(Value(tests), 1..c) <=> \A i \in 1..c : Gains[i] = Value(tests)[i]
  <2>1. \A i \in 1..c : Gains[i] \in Int /\ Value(tests)[i] \in Int /\ Gains[i] <= Value(tests)[i]
    BY <1>2, <1>3
  <2>. QED
    BY <1>1, <2>1, SumCompare
<1>10. Sum(Gains, 1..c) \in Nat
  <2>1. Sum(Gains, {}) <= Sum(Gains, 1..c)
    BY <1>1, <1>3, SumOfPart
  <2>2. Sum(Gains, 1..c) \in Int
    BY <1>1, <1>3, SumType
  <2>3. Sum(Gains, {}) = 0
    BY SumEquation, FS_EmptySet
  <2>. QED
    BY <2>1, <2>2, <2>3
<1>. QED
  BY <1>3, <1>6, <1>7, <1>8, <1>9, <1>10

LEMMA ScoreFits ==
  ASSUME IInv, GoodScores(tests, shared)
  PROVE  /\ Score \in Nat \cup {NoScore}
         /\ Score = NoScore <=> \A i \in DOMAIN tests : tests[i].score = NoScore
         /\ Score # NoScore => Score <= IntMax
<1>1. Sum(Value(tests), 1..Len(tests)) <= IntMax /\ IntMax \in Nat /\ NoScore \notin Nat
  BY VerdictAssumption DEF GoodScores
<1>2. Sum(Value(tests), 1..Len(tests)) \in Int
  <2>1. Len(tests) \in Nat /\ IsFiniteSet(1..Len(tests))
    BY IntervalIsFinite DEF IInv, Numbered
  <2>2. \A i \in 1..Len(tests) : Value(tests)[i] \in Int
    BY ValueType DEF GoodScores
  <2>. QED
    BY <2>1, <2>2, SumType
<1>3. SumFunction(Earned) \in Nat /\ SumFunction(Earned) <= IntMax
  BY <1>1, <1>2, Earnings
<1>4. Score = IF NeedScores THEN SumFunction(Earned) ELSE NoScore
  BY DEF Score
<1>5. NeedScores <=> ~\A i \in DOMAIN tests : tests[i].score = NoScore
  BY DEF NeedScores
<1>. HIDE DEF Score
<1>. QED
  BY <1>1, <1>3, <1>4, <1>5

(***************************************************************************)
(* The invariant with scores.                                              *)
(***************************************************************************)
SInv ==
  /\ GoodScores(tests, shared) /\ shared \in BOOLEAN
  /\ row \in Rows
  /\ pc # "thrown"
  /\ Tested => row.score = Score

LEMMA InitScores == Init => SInv
<1>. SUFFICES ASSUME Init PROVE SInv
  OBVIOUS
<1>1. tests = <<>> /\ shared = FALSE /\ pc = "idle" /\ row = [statusCode |-> 0, score |-> NoScore]
  BY DEF Init
<1>2. Len(tests) = 0 /\ 1..Len(tests) = {} /\ tests \in Seq(Tests)
  BY <1>1
<1>3. Sum(Value(tests), 1..Len(tests)) = 0
  BY <1>2, SumEquation, FS_EmptySet
<1>4. GoodScores(tests, shared)
  BY <1>1, <1>2, <1>3, VerdictAssumption DEF GoodScores
<1>. QED
  BY <1>1, <1>4 DEF SInv, Rows, Tested

LEMMA FailureCodeType ==
  ASSUME NEW f \in Failures, NEW n \in FileNames
  PROVE  MakeStatusCode(f, n) \in Codes
<1>1. \A c \in Int : c >= -6999 /\ c <= -1001 => c \in Codes
  BY DEF Codes
<1>. QED
  BY <1>1, CodesAreRead

LEMMA CodeType == IInv => statusCode \in Codes
<1>. SUFFICES ASSUME IInv PROVE statusCode \in Codes
  OBVIOUS
<1>1. CASE statusCode = 2
  BY <1>1 DEF Codes
<1>2. CASE \E f \in 1..Len(results) :
             FirstFailure(results, f) /\ statusCode = MakeStatusCode(results[f], tests[f].number)
  <2>1. PICK f \in 1..Len(results) :
               FirstFailure(results, f) /\ statusCode = MakeStatusCode(results[f], tests[f].number)
    BY <1>2
  <2>2. results[f] \in Failures /\ tests[f].number \in FileNames
    BY <2>1 DEF IInv, Numbered, Story, FirstFailure, Outcomes
  <2>. DEFINE e == results[f]
              n == tests[f].number
  <2>3. statusCode = MakeStatusCode(e, n) /\ e \in Failures /\ n \in FileNames
    BY <2>1, <2>2
  <2>. HIDE DEF e, n
  <2>4. MakeStatusCode(e, n) \in Codes
    BY <2>3, FailureCodeType
  <2>. QED
    BY <2>3, <2>4
<1>. QED
  BY <1>1, <1>2 DEF IInv, CodeIs

(* Steps that leave the tests alone and are not the end of a check.        *)
LEMMA ScoresStay ==
  ASSUME SInv, UNCHANGED <<tests, shared>>, row' \in Rows, pc' # "thrown", ~Tested'
  PROVE  SInv'
  BY DEF SInv

LEMMA StepScores == IInv /\ SInv /\ [Next]_vars => SInv'
<1>. SUFFICES ASSUME IInv, SInv, [Next]_vars PROVE SInv'
  OBVIOUS
<1>1. ASSUME NEW numbers \in SUBSET FileNumbers, NEW open \in 0..Cardinality(numbers),
             NEW scores \in Scorings(numbers), Import(numbers, open, scores)
      PROVE  SInv'
  <2>1. pc' = "idle" /\ shared' = (school /\ scores = NoScore) /\ row' = row
    BY <1>1 DEF Import
  <2>2. GoodScores(tests', shared')
    <3>1. IsFiniteSet(numbers)
      BY <1>1, SmallIsFinite DEF Import, Acceptable, FileNames
    <3>2. open \in Nat
      BY <3>1, FS_CardinalityType
    <3>. QED
      BY <1>1, <3>2, ImportedScores
  <2>3. shared' \in BOOLEAN
    BY <2>1
  <2>4. Rows' = Rows /\ ~Tested' /\ pc' # "thrown"
    BY <2>1 DEF Tested
  <2>. QED
    BY <2>1, <2>2, <2>3, <2>4 DEF SInv
<1>2. CASE EditContest
  <2>1. pc = "idle" /\ UNCHANGED <<tests, shared, row, pc>>
    BY <1>2 DEF EditContest
  <2>. QED
    BY <2>1, ScoresStay DEF SInv, Tested
<1>3. CASE BeginCheck
  <2>1. /\ pc' = "compiling" /\ UNCHANGED <<tests, shared>>
        /\ row' = [row EXCEPT !.statusCode = 1]
    BY <1>3 DEF BeginCheck
  <2>2. row' \in Rows
    BY <2>1 DEF SInv, Rows
  <2>. QED
    BY <2>1, <2>2, ScoresStay DEF Tested
<1>4. ASSUME NEW success \in BOOLEAN, Compile(success) PROVE SInv'
  <2>1. /\ UNCHANGED <<tests, shared>>
        /\ \/ pc' = "testing" /\ row' = row
           \/ pc' = "judged" /\ row' = [statusCode |-> -1, score |-> NoScore]
    BY <1>4 DEF Compile
  <2>2. row' \in Rows
    BY <2>1 DEF SInv, Rows
  <2>. QED
    BY <2>1, <2>2, ScoresStay DEF Tested
<1>5. ASSUME NEW status \in RunnerStatuses, NEW answer \in CheckerAnswers, RunTest(status, answer)
      PROVE  SInv'
  <2>. DEFINE outcome == CheckTest(status, answer)
  <2>1. CASE RunAgain(outcome)
    <3>1. pc' = "testing" /\ UNCHANGED <<tests, shared, row>>
      BY <2>1 DEF RunAgain, Execute
    <3>. QED
      BY <3>1, ScoresStay DEF SInv, Tested
  <2>2. CASE EndTest(outcome)
    <3>1. pc = "testing" /\ UNCHANGED <<tests, shared>>
      BY <2>2 DEF EndTest, Execute
    <3>2. HasCode(tests[Len(results) + 1].number)
      <4>1. tests[Len(results) + 1].number \in FileNames
        BY <3>1 DEF IInv, Story, Numbered
      <4>2. ASSUME NEW n \in FileNames PROVE HasCode(n)
        BY DEF HasCode, FileNames
      <4>. QED
        BY <4>1, <4>2
    <3>3. pc' \in {"reporting", "testing"} /\ row' = row
      BY <2>2, <3>2 DEF EndTest
    <3>. QED
      BY <3>1, <3>3, ScoresStay DEF SInv, Tested
  <2>. QED
    BY <1>5, <2>1, <2>2 DEF RunTest
<1>6. CASE Report
  <2>1. UNCHANGED <<tests, shared, results>>
    BY <1>6 DEF Report
  <2>2. GoodScores(tests, shared) /\ row \in Rows
    BY DEF SInv
  <2>3. ~(Score # NoScore /\ Score > IntMax) /\ Score \in Nat \cup {NoScore}
    BY <2>2, ScoreFits, VerdictAssumption
  <2>4. pc' = "judged" /\ row' = [statusCode |-> statusCode, score |-> Score]
    BY <1>6, <2>3 DEF Report
  <2>5. Score' = Score
    BY <2>1 DEF Score, NeedScores, Earned
  <2>6. row' \in Rows
    BY <2>3, <2>4, CodeType DEF Rows
  <2>. QED
    BY <2>1, <2>2, <2>4, <2>5, <2>6 DEF SInv
<1>7. CASE Abort \/ Retest
  <2>1. /\ pc' = "idle" /\ UNCHANGED <<tests, shared>>
        /\ row' = [statusCode |-> 0, score |-> NoScore]
    BY <1>7 DEF Abort, Retest, Queue
  <2>2. row' \in Rows
    BY <2>1 DEF Rows
  <2>. QED
    BY <2>1, <2>2, ScoresStay DEF Tested
<1>8. CASE UNCHANGED vars
  BY <1>8 DEF vars, SInv, Tested, Score, NeedScores, Earned
<1>. QED
  BY <1>1, <1>2, <1>3, <1>4, <1>5, <1>6, <1>7, <1>8 DEF Next

LEMMA ScoresInvariance == Spec => [](IInv /\ SInv)
<1>. QED
  BY InitInv, StepInv, InitScores, StepScores, PTL DEF Spec

(* Every variable keeps its type, the submission's score included.         *)
THEOREM TypeCorrect == Spec => []TypeOK
<1>1. IInv /\ SInv => TypeOK
  <2>. SUFFICES ASSUME IInv, SInv PROVE TypeOK
    OBVIOUS
  <2>1. runs \in Seq([test : Nat, outcome : Outcomes]) /\ results \in Seq(Outcomes) /\ counter \in 0..1
    BY DEF IInv, Story, Executions, Current
  <2>. QED
    BY <2>1, CodeType DEF IInv, SInv, GoodScores, TypeOK, Stages
<1>. QED
  BY <1>1, ScoresInvariance, PTL

(* No archive that was imported makes a check throw, neither by the number *)
(* of a test nor by a sum of scores.                                       *)
THEOREM ChecksNeverThrow == Spec => []NeverThrown
<1>1. SInv => NeverThrown
  BY DEF SInv, NeverThrown
<1>. QED
  BY <1>1, ScoresInvariance, PTL

LEMMA HundredForAll == IInv /\ SInv => HundredIsEverything
<1>. SUFFICES ASSUME IInv, SInv, Tested
              PROVE  /\ row.score = NoScore <=> \A i \in DOMAIN tests : tests[i].score = NoScore
                     /\ shared => /\ row.score <= 100
                                  /\ row.score = 100
                                       <=> \A i \in DOMAIN tests : tests[i].score > 0 => Passed(i)
  BY DEF HundredIsEverything
<1>1. row.score = Score /\ GoodScores(tests, shared)
  BY DEF SInv
<1>2. row.score = NoScore <=> \A i \in DOMAIN tests : tests[i].score = NoScore
  BY <1>1, ScoreFits
<1>3. ASSUME shared
      PROVE  /\ row.score <= 100
             /\ row.score = 100 <=> \A i \in DOMAIN tests : tests[i].score > 0 => Passed(i)
  <2>1. PICK open \in Nat :
          open < Len(tests) /\ \A i \in 1..Len(tests) : tests[i].score = Share(i, Len(tests), open)
    BY <1>1, <1>3 DEF GoodScores, Shares
  <2>2. Len(tests) \in Nat /\ DOMAIN tests = 1..Len(tests) /\ NoScore \notin Nat
    BY VerdictAssumption DEF IInv, Numbered
  <2>3. \A i \in 1..Len(tests) : tests[i].score \in Nat /\ Value(tests)[i] = tests[i].score
    <3>1. \A i \in 1..Len(tests) : tests[i].score \in Nat
      BY <2>1, <2>2, ShareType
    <3>. QED
      BY <2>2, <3>1 DEF Value
  <2>4. Sum(Value(tests), 1..Len(tests)) = 100
    BY <2>1, <2>2, <2>3, SharesAreHundred
  <2>5. NeedScores
    BY <2>1, <2>2, <2>3 DEF NeedScores
  <2>6. row.score = Sum(Gains, 1..Len(tests))
    BY <1>1, <2>5, Earnings DEF Score
  <2>7. \A i \in 1..Len(tests) : Gain(i) = Value(tests)[i] <=> (tests[i].score > 0 => Passed(i))
    <3>. SUFFICES ASSUME NEW i \in 1..Len(tests)
                  PROVE  Gain(i) = Value(tests)[i] <=> (tests[i].score > 0 => Passed(i))
      OBVIOUS
    <3>1. Passed(i) <=> i \in 1..Len(results) /\ results[i] = "Accepted"
      <4>1. CASE i \in 1..Len(results)
        BY <4>1, FinalIsResult
      <4>2. CASE i > Len(results)
        BY <2>2, <4>2, NoResultNoRuns DEF Tested
      <4>. QED
        BY <2>2, <4>1, <4>2 DEF IInv, Story
    <3>. QED
      BY <2>3, <3>1 DEF Gain
  <2>. QED
    BY <1>1, <2>2, <2>4, <2>6, <2>7, Earnings
<1>. QED
  BY <1>2, <1>3

(* Tests that share 100 give it for everything that counts and for nothing *)
(* less, and a score is missing only where nothing is scored.              *)
THEOREM HundredForEverything == Spec => []HundredIsEverything
<1>. QED
  BY ScoresInvariance, HundredForAll, PTL
=================================================================================

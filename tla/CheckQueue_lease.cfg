\* Checks end within their lease: one problem, two compilers, unequal runners.
SPECIFICATION Spec
CONSTANTS
  p1 = p1
  p2 = p2
  c1 = c1
  c2 = c2
  w1 = w1
  w2 = w2
  Submissions = {1, 2}
  Problems = {p1}
  Compilators = {c1, c2}
  Workers = {w1, w2}
  Operators = {o1}
  ProblemOf <- OneProblem
  CompilatorOf <- TwoCompilators
  Offers <- UnequalOffers
  Scores <- SchoolScores
  Results <- SchoolResults
  NoScore = NoScore
  Nobody = Nobody
  None = None
  ChecksMayOutliveLease = FALSE
  MaxImports = 2
  MaxRequests = 2
  MaxFaults = 2
INVARIANT TypeOK
INVARIANT ExclusiveCheck
INVARIANT FreshCheck
INVARIANT NoChangeUnderCheck
INVARIANT RowIsLatestResult
INVARIANT OneResultPerRequest
PROPERTY VerdictsStand
PROPERTY ImplementsJudging

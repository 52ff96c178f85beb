\* Checks may outlive their lease: is a problem idle when it is changed?
SPECIFICATION Spec
CONSTANTS
  p1 = p1
  p2 = p2
  c1 = c1
  c2 = c2
  w1 = w1
  w2 = w2
  Submissions = {1, 2}
  Problems = {p1}
  Compilators = {c1}
  Workers = {w1, w2}
  Operators = {o1}
  ProblemOf <- OneProblem
  CompilatorOf <- OneCompilator
  Offers <- AllOffered
  Scores <- SchoolScores
  Results <- SchoolResults
  NoScore = NoScore
  Nobody = Nobody
  None = None
  ChecksMayOutliveLease = TRUE
  MaxImports = 2
  MaxRequests = 2
  MaxFaults = 1
SYMMETRY WorkerSymmetry
INVARIANT NoChangeUnderCheck

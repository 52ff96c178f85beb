\* Two requests on up to two participants.
SPECIFICATION Spec
CONSTANTS
  a = a
  b = b
  t = t
  Requests = {q1, q2}
  People = {a, b}
  Names = {a, b, t}
  Logins = {1, 2, 3}
  Foreign = {3}
  Ids = {i1, i2}
  Teams <- SomeTeams
  Lists <- SomeLists
  Files <- SomeFiles
  Absent = Absent
  NoLogin = NoLogin
  Idle = Idle
SYMMETRY Symmetry
INVARIANT TypeOK
INVARIANT EnrolsOnce
INVARIANT LoginsWhole
PROPERTY ImplementsEnrollment

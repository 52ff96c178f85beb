\* Three submissions to one problem around the start, the freeze and the end.
SPECIFICATION Spec
CONSTANTS
  Users = {1, 2, 3}
  Problems = {p}
  Contests <- SomeContests
  Starts = {2}
  StartTime = 1
  FreezeTime = 2
  EndTime = 3
  Penalty = 2
  MaxSubmissions = 3
  MaxTime = 4
  Minute = 1
  None = None
INVARIANT TypeOK
INVARIANT KeptByHand
 
PROPERTY FrozenKeepsSecret

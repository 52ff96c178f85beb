\* Everybody may be cancelled and the stream may break at any moment.
SPECIFICATION FairSpec
CONSTANTS
  Sessions = {s1, s2}
  Programs = {s1, s2}
  Connections = {1, 2}
  Commands = 2
  Nobody = Nobody
  None = None
  MaxBreaks = 2
CHECK_DEADLOCK FALSE
INVARIANT TypeOK
INVARIANT OwnAnswer
INVARIANT OwnDirectory
INVARIANT OneAtATime
PROPERTY EveryCallEnds

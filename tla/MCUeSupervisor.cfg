SPECIFICATION FairSpec
CONSTANTS
  user = user
  Users <- MCUsers
  MaxInstances = 3
  MaxRunning = 1
  MaxAccepts = 3
INVARIANTS
  TypeOK
  IdentitiesApart
  SettledIsNotComing
  StopIsNoFailure
  CrashOnlyByStop
  LeftOpenIsLate
PROPERTY
  StopEnds
CHECK_DEADLOCK FALSE

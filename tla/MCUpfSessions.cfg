SPECIFICATION FairSpec
CONSTANTS
  s1 = s1
  s2 = s2
  None = None
  Sessions <- MCSessions
INVARIANTS
  TypeOK
  TablesAgree
  Routable
  Deleted
PROPERTY
  GnbAnswered
CHECK_DEADLOCK FALSE

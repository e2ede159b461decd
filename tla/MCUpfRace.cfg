SPECIFICATION Spec
CONSTANTS
  s1 = s1
  s2 = s2
  None = None
  Sessions <- MCSessions
INVARIANT
  DownlinkTeid
CHECK_DEADLOCK FALSE

SPECIFICATION FairSpec
CONSTANTS
  MaxSessions = 2
  MaxApps = 2
  None = None
INVARIANTS
  TypeOK
  DeliveredToOwner
  PassedOnOwnReply
  
PROPERTIES
  BindingIsStable
  PingAnswered
CHECK_DEADLOCK FALSE

SPECIFICATION FairSpec
CONSTANTS
  c1 = c1
  c2 = c2
  Clients <- MCClients
  MaxEvents = 3
  BufferMax = 2
  Window = 1
  Capacity = 1
INVARIANTS
  TypeOK
  SeenOnce
  MissedForAReason
PROPERTY
  PostAnswered
CHECK_DEADLOCK FALSE

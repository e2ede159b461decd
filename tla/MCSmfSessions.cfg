SPECIFICATION FairSpec
CONSTANTS
  h1 = h1
  h2 = h2
  alice = alice
  bob = bob
  NoSupi = NoSupi
  NoSession = NoSession
  Handlers <- MCHandlers
  Supis <- MCSupis
  PoolSize = 3
  TeidSpace = 4
INVARIANTS
  TypeOK
  UniqueSessions
  PoolTracksSessions
  UpfTeidOwner
PROPERTY
  Answered
  ImplementsContract

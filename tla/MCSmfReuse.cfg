SPECIFICATION Spec
CONSTANTS
  h1 = h1
  h2 = h2
  alice = alice
  bob = bob
  NoSupi = NoSupi
  NoSession = NoSession
  Handlers <- MCHandlers
  Supis <- MCSupis
  PoolSize = 2
  TeidSpace = 4
PROPERTY
  ExhaustedMeansFull

SPECIFICATION FairSpec
CONSTANTS
  alice = alice
  bob = bob
  gnb1 = gnb1
  gnb2 = gnb2
  None = None
  UEs <- MCUEs
  Gnbs <- TwoGnbs
  Home <- OwnGnb
  MaxRan = 2
  MaxConns = 2
INVARIANT
  SessionAgreement
PROPERTY
  Served
CHECK_DEADLOCK FALSE

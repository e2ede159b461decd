SPECIFICATION Spec
CONSTANTS
  alice = alice
  bob = bob
  gnb1 = gnb1
  gnb2 = gnb2
  None = None
  UEs <- MCUEs
  Gnbs <- OneGnb
  Home <- SharedGnb
  MaxRan = 2
  MaxConns = 2
INVARIANT
  DownlinkRoutable
CHECK_DEADLOCK FALSE

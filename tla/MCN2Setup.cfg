CONSTANTS
  g1 = g1
  g2 = g2
  None = None
  Gnbs = {g1, g2}
  GnbConfig <- MCGnbConfig
  AmfConfigs <- MCAmfConfigs
  MaxAttempts = 3
  Supis <- MCSupis
  Dnns <- MCDnns
  Slices <- MCSlices
  Addresses <- MCAddresses
  Teids <- MCTeids
  Tmsis <- MCTmsis
SPECIFICATION FairSpec
INVARIANTS TypeOK SetupAgreement AsSent
PROPERTY SetupEnds
CHECK_DEADLOCK FALSE

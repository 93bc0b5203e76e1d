\* Two clients with different destinations, three attempts, no duplicate: liveness.
SPECIFICATION FairSpec
CONSTANTS
  c1 = c1
  c2 = c2
  peerA = peerA
  peerB = peerB
  home = home
  Clients <- TwoClients
  Addresses <- PlainAddresses
  Dest <- TwoDests
  Source <- HomeSource
  Canonical <- SameText
  Count <- TwoThenOne
  MaxDuplicates = 0
  NoClient = NoClient
PROPERTIES
  CommandEnds
  ClientFinishes
CHECK_DEADLOCK FALSE

\* Two clients with different destinations, three attempts, one duplicate.
SPECIFICATION Spec
CONSTANTS
  c1 = c1
  c2 = c2
  peerA = peerA
  peerB = peerB
  home = home
  Clients <- TwoClients
  Addresses <- PlainAddresses
  Dest <- TwoDests
  Source <- HomeSource
  Canonical <- SameText
  Count <- TwoThenOne
  MaxDuplicates = 1
  NoClient = NoClient
INVARIANTS
  TypeOK
  LinesInOrder
  CreditOnce
  NoLossUnderflow
  SenderKept
  OneLinePerCommand
PROPERTIES
  ImplementsService
CHECK_DEADLOCK FALSE

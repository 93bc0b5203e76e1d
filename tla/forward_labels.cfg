\* Two packets, one change; a 32-bit host: an entry of 20 bytes fits.
SPECIFICATION Spec
CONSTANTS
  Hosts <- AllHosts
  Ports <- AllPorts
  Links <- AllLinks
  Macs <- AllMacs
  Networks <- AllNets
  Nodes <- AllNodes
  Labels <- AllLabels
  HostOf <- Host
  LinkOf <- Link
  OwnOf <- Own
  Hash <- LabelOf
  Swap <- Swapped
  LongNets <- Long
  LabelDefault <- NoLabel
  LabelEgress <- Egress
  Broadcast = "all"
  BroadcastNode = "everybody"
  NoMac = NoMac
  NoRoute = NoRoute
  NoFrame = NoFrame
  Capacity = 1
  EntrySize = 20
  ValueSize = 20
  StartRoutes <- FirstRoutes
  StartNeigh <- FirstNeigh
  StartMacs <- PortMacs
  PeerFrames <- Mixed
  MaxSent = 2
  MaxChanges = 1
INVARIANTS
  TypeOK
  NoCirculation
CHECK_DEADLOCK FALSE

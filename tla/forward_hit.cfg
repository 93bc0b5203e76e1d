\* A 32-bit host.
SPECIFICATION Spec
CONSTANTS
  Hosts <- AllHosts
  Ports <- AllPorts
  Links <- AllLinks
  Macs <- AllMacs
  Networks <- AllNets
  Nodes <- AllNodes
  Labels <- AllLabels
  HostOf <- Host
  LinkOf <- Link
  OwnOf <- Own
  Hash <- LabelOf
  Swap <- Swapped
  LongNets <- Long
  LabelDefault <- NoLabel
  LabelEgress <- Egress
  Broadcast = "all"
  BroadcastNode = "everybody"
  NoMac = NoMac
  NoRoute = NoRoute
  NoFrame = NoFrame
  Capacity = 2
  EntrySize = 20
  ValueSize = 20
  StartRoutes <- FirstRoutes
  StartNeigh <- FirstNeigh
  StartMacs <- PortMacs
  PeerFrames <- OneLabel
  MaxSent = 2
  MaxChanges = 0
INVARIANTS
  HitIsForwarded
CHECK_DEADLOCK FALSE

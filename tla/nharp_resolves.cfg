\* A daemon resolves the NodeID of a peer.
SPECIFICATION FairSpec
CONSTANTS
  d1 = d1
  d2 = d2
  p1 = p1
  p2 = p2
  l1 = l1
  l2 = l2
  n1 = n1
  n2 = n2
  n3 = n3
  m1 = m1
  m2 = m2
  m3 = m3
  m4 = m4
  x = x
  y = y
  Daemons <- OneDaemon
  Peers <- OnePeer
  Ports <- DaemonAndPeer
  Macs <- AllMacs
  MacPool <- DaemonAndPeerMacs
  Pool <- DaemonAndPeerPool
  StartAddrs <- DaemonAndPeerStart
  Capacity = 4
  MaxWire = 2
  MaxChanges = 2
PROPERTIES
  NeighboursResolved

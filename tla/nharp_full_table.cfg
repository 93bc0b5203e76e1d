\* Two daemons, one of them on two links, hear of more neighbours than their tables have room for.
SPECIFICATION Spec
CONSTANTS
  d1 = d1
  d2 = d2
  p1 = p1
  p2 = p2
  l1 = l1
  l2 = l2
  n1 = n1
  n2 = n2
  n3 = n3
  m1 = m1
  m2 = m2
  m3 = m3
  m4 = m4
  x = x
  y = y
  Daemons <- BothDaemons
  Peers <- BothPeers
  Ports <- TwoLinks
  Macs <- AllMacs
  MacPool <- TwoLinksMacs
  Pool <- TwoLinksPool
  StartAddrs <- TwoLinksStart
  Capacity = 1
  MaxWire = 2
  MaxChanges = 1
INVARIANTS
  TypeOK
  CacheSound
  AnsweredAreKnown

\* Two processes of nhipctl edit addresses and routes while packets arrive.
SPECIFICATION ReceiverSpec
CONSTANTS
  Tokens <- TextTokens
  Devs <- Interfaces
  NodeTexts <- Nodes
  Commands <- EditCommands
  Tools = {t1, t2}
  Daemon = nhipd
  Ifaces <- Interfaces
  StartFiles <- NetContents
  StartStates <- MaybeNoRoutes
  Overlap = TRUE
  MaxStarts = 2
  MaxFailures = 1
  Packets <- AnyPackets
  NoPacket = NoPacket
  MaxPackets = 2
  MayVanish <- Interfaces
INVARIANTS
  MineIsAccepted
  HalvesAreLocal
  RoutesUnique
  InsertedStay
PROPERTIES
  EndsForAddresses
CHECK_DEADLOCK FALSE

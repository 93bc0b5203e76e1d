\* Four processes, one after the other; one of them may fail.
SPECIFICATION Spec
CONSTANTS
  Tokens <- TextTokens
  Devs <- Interfaces
  NodeTexts <- Nodes
  Commands <- AllCommands
  Tools = {nhipctl}
  Daemon = nhipd
  Ifaces <- Interfaces
  StartFiles <- Contents
  StartStates <- Existing
  Overlap = FALSE
  MaxStarts = 4
  MaxFailures = 1
INVARIANTS
  TypeOK
  TornOnlyWhileWritten
PROPERTIES
  ConnectedAfterStart
  AtomicStore
CHECK_DEADLOCK FALSE

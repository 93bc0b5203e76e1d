\* Every short network and every short NodeID; integers below 4096.
SPECIFICATION Spec
CONSTANTS
  Addresses <- AnyPart
  Letters = {"a"}
  Dot = "."
  MaxBlocks = 2
  MaxBlockLen = 2
  Giga = 1000
  Mega = 100
  Kilo = 10
  Word = 4096
  MaxNodeId = 1023
  MaxNodeIdLen = 5
  GroupLen = 1
  Meaning <- NoMeaning
INVARIANTS
  AcceptedFits
  
PROPERTIES
  ParsingEnds
  ParsingShrinks
CHECK_DEADLOCK FALSE

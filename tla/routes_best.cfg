\* Packets with any pointer, tables of static and ospf routes of two priorities.
SPECIFICATION Spec
CONSTANTS
  Chars <- Letters
  Netparts <- AllNets
  Pointers <- AllPointers
  Default <- DefaultText
  NoRoute = NoRoute
  Tables <- MixedTables
INVARIANTS
  TypeOK
  BestRoute
PROPERTIES
  PointerForward
CHECK_DEADLOCK FALSE

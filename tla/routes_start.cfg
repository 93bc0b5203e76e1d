\* Static routes of equal priority: StartIsRouted.
SPECIFICATION Spec
CONSTANTS
  Chars <- Letters
  Netparts <- AllNets
  Pointers <- AllPointers
  Default <- DefaultText
  NoRoute = NoRoute
  Tables <- PlainTables
INVARIANTS
  StartIsRouted
CHECK_DEADLOCK FALSE

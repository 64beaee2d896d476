SPECIFICATION Spec
CONSTANTS
  s1 = s1
  s2 = s2
  NoRoute = NoRoute
  Ids = {s1}
  Prior = NoRoute
  Target = NoRoute
  Definitions <- AllDefinitions
  FirstDefinition <- StartSkipping
  Keys = {k1}
  Grace = 1
  MaxPending = 2
  MaxTime = 7
  MaxRevision = 3
  MaxGeneration = 0
INVARIANTS TypeOK CursorOnGrid CursorAhead WindowsDisjoint
PROPERTIES CursorLeavesARecord
CHECK_DEADLOCK FALSE

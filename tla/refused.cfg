SPECIFICATION Spec
CONSTANTS
  s1 = s1
  s2 = s2
  NoRoute = NoRoute
  Ids = {s1, s2}
  Prior = s1
  Target = s2
  Definitions <- OneDefinition
  FirstDefinition <- StartCatchingUp
  Keys = {}
  Grace = 1
  MaxPending = 1
  MaxTime = 4
  MaxRevision = 1
  MaxGeneration = 3
INVARIANTS FencedHasAReason
CHECK_DEADLOCK FALSE

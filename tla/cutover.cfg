SPECIFICATION Spec
CONSTANTS
  s1 = s1
  s2 = s2
  NoRoute = NoRoute
  Ids = {s1, s2}
  Prior = s1
  Target = s2
  Definitions <- OneDefinition
  FirstDefinition <- StartCatchingUp
  Keys = {k1}
  Grace = 1
  MaxPending = 2
  MaxTime = 3
  MaxRevision = 2
  MaxGeneration = 3
INVARIANTS StreamOnce
PROPERTIES StaleRouteNeverStarts
CHECK_DEADLOCK FALSE

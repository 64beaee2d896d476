SPECIFICATION Spec
CONSTANTS
  s1 = s1
  s2 = s2
  NoRoute = NoRoute
  Ids = {s1}
  Prior = NoRoute
  Target = NoRoute
  Definitions <- AllDefinitions
  FirstDefinition <- StartSkipping
  Keys = {}
  Grace = 1
  MaxPending = 2
  MaxTime = 7
  MaxRevision = 2
  MaxGeneration = 0
PROPERTIES EveryDueIsRecorded
CHECK_DEADLOCK FALSE

SPECIFICATION FairSpec
CONSTANTS
  s1 = s1
  s2 = s2
  NoRoute = NoRoute
  Ids = {s1, s2}
  Prior = NoRoute
  Target = NoRoute
  Definitions <- TwoDefinitions
  FirstDefinition <- StartMixed
  Keys = {}
  Grace = 1
  MaxPending = 1
  MaxTime = 5
  MaxRevision = 1
  MaxGeneration = 0
PROPERTIES DueIsDecided
CHECK_DEADLOCK FALSE

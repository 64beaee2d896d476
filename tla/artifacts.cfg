SPECIFICATION ArtifactSpec
CONSTANTS
  r1 = r1
  r2 = r2
  a1 = a1
  a2 = a2
  chart = chart
  story = story
  NoRun = NoRun
  Runs = {r1, r2}
  Schedulable <- OnlyFirst
  Reusing <- OnlySecond
  Actors = {a1, a2}
  Outputs <- ChartAndStory
  Narratives <- OnlyStory
  ResultBytes = {1, 7}
  MaxArtifactBytes = 7
  MaxTenantBytes = 13
  MaxRequests = 2
  NarrativeCalls = 4
  MaxCalls = 2
  QueryAttempts <- TwoThenNone
  QueryLimit = 1
  CallLimit = 1
  Retention = 2
  ReuseAge = 1
  MaxClaims <- TwoThenOne
  MaxTime = 3
SYMMETRY ActorSymmetry
INVARIANTS ArtifactTypeOK NarrativeAskedOnce BudgetHolds BytesAccounted TenantQuota CopiesKeepOrigin ReceiptIsTruthful
CHECK_DEADLOCK FALSE

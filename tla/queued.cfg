SPECIFICATION FairSpec
CONSTANTS
  q1 = q1
  q2 = q2
  p = p
  c1 = c1
  t1 = t1
  s1 = s1
  NoOp = NoOp
  NoSchedule = NoSchedule
  Ops = {q1, q2}
  Sweeps = {q1}
  Reports = {q2}
  SkipOverlap = {}
  Workers = {w1, w2}
  Callers = {}
  Mode <- QueuedMode
  TenantOf <- QueuedTenant
  ParentOf <- NoParents
  ScheduleOf <- OneSchedule
  MaxAttempts = 2
  MaxErasures = 1
  GlobalConcurrency = 2
  TenantConcurrency = 2
  MaxPending = 2
  MaxPendingPerTenant = 2
  MaxChildren = 2
  LeaseTTL = 2
  Backoff = 1
  DelayCap = 2
  Retention = 3
  MaxTime = 4
  MaxPolicy = 2
INVARIANTS SingleHolder OneLivePerSchedule
PROPERTIES ImplementsExclusiveTask LapsedLeaseStaysLapsed FinishedIsFinal QueuedWorkFinishes
CHECK_DEADLOCK FALSE

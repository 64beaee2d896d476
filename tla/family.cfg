SPECIFICATION Spec
CONSTANTS
  q1 = q1
  q2 = q2
  p = p
  c1 = c1
  t1 = t1
  s1 = s1
  NoOp = NoOp
  NoSchedule = NoSchedule
  Ops = {p, q1, c1}
  Sweeps = {q1}
  Reports = {p}
  SkipOverlap = {}
  Workers = {}
  Callers = {w1, w2}
  Mode <- ReportMode
  TenantOf <- QueuedTenant
  ParentOf <- NestedParent
  ScheduleOf <- NoSchedules
  MaxAttempts = 2
  MaxErasures = 1
  GlobalConcurrency = 1
  TenantConcurrency = 1
  MaxPending = 1
  MaxPendingPerTenant = 1
  MaxChildren = 2
  LeaseTTL = 2
  Backoff = 1
  DelayCap = 1
  Retention = 3
  MaxTime = 4
  MaxPolicy = 1
INVARIANTS TypeOK EffectOnce RowConstraints AttemptLedger ExecutionBound AdmissionBound
PROPERTIES ChildPublishesUnderParent
SYMMETRY ActorSymmetry
CHECK_DEADLOCK FALSE

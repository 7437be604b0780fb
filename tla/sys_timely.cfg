SPECIFICATION SystemFairSpec
CONSTANTS
  p1 = p1  a = a  b = b
  w1 = w1  w2 = w2  s1 = s1  s2 = s2
  FREE = FREE
  DETACHED = DETACHED
  NoJob = NoJob
  NULL = NULL
  Replica = {p1}
  DropLimit = 1
  Job = {a, b}
  Deps <- Chain
  Cron <- MixedCron
  ListLimit = 2
  RetryDelay = 1
  MaxTime = 1
  SchedulerFaults = 1
  RunLimit = 1
  Disturbances = 1
  Worker = {w1, w2}
  Slot = {s1, s2}
  Host <- TwoHosts
  Handled <- HandledA
  Priority <- SamePriority
  MaxAttempts <- TwoAttempts
  LeaseDuration = 1
  Timeout = 1
  MaxSmallint = 3
  FaultLimit = 1
  Run <- AllRuns
  Backoff <- FlatBackoff
  MaxAge = 1
INVARIANT NoConcurrentExecution
PROPERTIES ImplementsPromoter ImplementsLifecycle PromotableIsRun
CHECK_DEADLOCK FALSE

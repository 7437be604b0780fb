SPECIFICATION Spec
CONSTANTS
  p1 = p1
  p2 = p2
  a = a
  b = b
  FREE = FREE
  NoJob = NoJob
  DETACHED = DETACHED
  Replica = {p1, p2}
  Job = {a}
  Deps <- Single
  Cron <- Hourly
  ListLimit = 1
  RetryDelay = 1
  MaxTime = 2
  FaultLimit = 1
  DropLimit = 1
SYMMETRY Replicas
INVARIANT NoDoubleFire

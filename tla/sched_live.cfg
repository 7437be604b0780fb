SPECIFICATION FairSpec
CONSTANTS
  p1 = p1
  p2 = p2
  a = a
  b = b
  FREE = FREE
  NoJob = NoJob
  DETACHED = DETACHED
  Replica = {p1, p2}
  Job = {a, b}
  Deps <- Chain
  Cron <- TwoShots
  ListLimit = 2
  RetryDelay = 0
  MaxTime = 0
  FaultLimit = 1
  DropLimit = 1
INVARIANTS OneShotBudget DependenciesFirst
PROPERTY PromotableIsPromoted

SPECIFICATION FairSpec
CONSTANTS
  s1 = s1
  s2 = s2
  r1 = r1
  r2 = r2
  r3 = r3
  Server = {s1, s2}
  Request = {r1, r2, r3}
  Host <- TwoServers
  Value <- Statuses
  JobStatus = {"job"}
  First = {"job", "pending"}
  Succ <- Moves
  Cached = {"job", "succeeded", "dead"}
  TTL = 2
  Lag = 1
  Slow = 1
  MaxVersion = 3
  FaultLimit = 1
INVARIANTS TypeOK  
PROPERTIES CacheConverges EveryRequestAnswered
CHECK_DEADLOCK FALSE

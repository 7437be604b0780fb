SPECIFICATION ServerSpec
CONSTANTS
  p1 = p1
  p2 = p2
  p3 = p3
  FREE = FREE
  DETACHED = DETACHED
  Process = {p1, p2, p3}
  Files <- Rolling
  FaultLimit = 2
  Api = {p1, p2}
  IP = {i1}
  Client <- Buckets
  Rate = 2
  Unit = 3
  Burst = 2
  MaxTime = 3
INVARIANTS ServerTypeOK ExactlyOnce NoCollision InOrder ServesMigrated WindowBound RefusedAtTheBound FleetBound
PROPERTY EventuallyServes

SPECIFICATION FairSpec
CONSTANTS
    w1 = w1  w2 = w2
    s1 = s1  s2 = s2  s3 = s3
    r1 = r1
    NULL = NULL
    Run = {r1}
    Worker = {w1, w2}
    Slot = {s1, s2}
    Host <- TwoHosts
    Handled = {r1}
    Priority <- SamePriority
    MaxAttempts <- TwoAttempts
    LeaseDuration = 1
    Timeout = 1
    Backoff <- CappedBackoff
    MaxSmallint = 4
    MaxAge = 0
    FaultLimit = 1
PROPERTY OrphanIsRecovered

SPECIFICATION FairSpec
CONSTANTS
  a = a
  b = b
  c = c
  d = d
  e = e
  K = K
  L = L
  NoKey = NoKey
  EmptyKey = EmptyKey
  Client = {a, b, c, d, e}
  KeyOf <- Mixed
  Invalid = {d}
  Dangling = {c}
  FaultLimit = 1
INVARIANTS TypeOK OneJobPerKey AnswersAgree ConflictMeansRace
PROPERTY RetrySettles

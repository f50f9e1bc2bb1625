\* Two callers, two workers; every request has an id of its own, and each id is
\* cancelled at most once.
CONSTANTS
  s1 = s1
  s2 = s2
  None = None
  Callers = {c1, c2}
  Workers = {w1, w2}
  Sessions = {s1, s2}
  Ids = {1, 2}
  IdOf <- MCIdOfDistinct
  MaxCancels = 1
  MaxPieces = 1

SPECIFICATION FairSpec

PROPERTY StopsOnlyWhenDrained
PROPERTY ImplementsCancellableRequest
PROPERTY CancelTakesEffect
PROPERTY RequestIsCalledBack
PROPERTY CloseReturns

CHECK_DEADLOCK FALSE

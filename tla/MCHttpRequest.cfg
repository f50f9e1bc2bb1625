\* Two requests, each cancelled twice at most.
CONSTANTS
  r1 = r1
  r2 = r2
  None = None
  Requests = {r1, r2}
  MaxCancels = 2
  MaxPieces = 1

SPECIFICATION FairSpec

INVARIANT AtMostOneOperationAfterCancel
PROPERTY StopsOnlyWhenDrained
PROPERTY ImplementsCancellableRequest
PROPERTY CancelTakesEffect
PROPERTY RequestEnds
PROPERTY CloseReturns

CHECK_DEADLOCK FALSE

\* A pool of two and three connections: there is always one more to do than
\* the pool can.  Every client goes on or goes away.
CONSTANTS
  c1 = c1
  c2 = c2
  c3 = c3
  w1 = w1
  w2 = w2
  None = None
  Workers = {w1, w2}
  Connections = {c1, c2, c3}
  MaxAcceptErrors = 1

SPECIFICATION LiveSpec

INVARIANT ServiceOwnedOnce
INVARIANT AcceptChain
PROPERTY ImplementsRequestServer
PROPERTY ServedUnlessStopped
PROPERTY StopReturns

CHECK_DEADLOCK FALSE

\* Two requests; what the callback is told of a cancelled or failed one.
CONSTANTS
  r1 = r1
  r2 = r2
  None = None
  Requests = {r1, r2}
  MaxCancels = 1
  MaxPieces = 1

SPECIFICATION Spec
SYMMETRY MCSymmetry

INVARIANT EveryEndIsReported

CHECK_DEADLOCK FALSE

\* Two callers, two workers; both requests share the id 1, which is
\* cancelled twice at most.
CONSTANTS
  s1 = s1
  s2 = s2
  None = None
  Callers = {c1, c2}
  Workers = {w1, w2}
  Sessions = {s1, s2}
  Ids = {1}
  IdOf <- MCIdOfReused
  MaxCancels = 2
  MaxPieces = 1

SPECIFICATION Spec
SYMMETRY MCSymmetry

INVARIANT SessionOwnedOnce
INVARIANT SuccessIsGenuine
INVARIANT NoOperationBegunAfterCancel
INVARIANT FlagReadAfterLastWrite
INVARIANT LockCycleNeedsRecancel
INVARIANT UnreachableOnlyByIdReuse

CHECK_DEADLOCK FALSE

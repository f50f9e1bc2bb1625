\* A message that overfills the buffer and does not fit into the connection; a
\* writer that dies leaves the reader with less.
CONSTANTS
  MessageLength = 5
  BufferSize = 4
  Window = 3

SPECIFICATION FairSpec

INVARIANT DeliveredInOrder
PROPERTY ImplementsWholeTransfer
PROPERTY TransfersEnd

CHECK_DEADLOCK FALSE

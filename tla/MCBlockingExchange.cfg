\* Each pair of programs; a message travels in three parts at most.
CONSTANTS
  Pairs = {"line", "tls", "eof"}
  MessageLength = 3

SPECIFICATION FairSpec

INVARIANT TypeOK
INVARIANT MessageIsWhole
INVARIANT ResponseFollowsRequest
INVARIANT UndisturbedSucceeds
PROPERTY ExchangeEnds

CHECK_DEADLOCK FALSE

\* Each of the three servers with three clients, one of them the
\* TLS program's own.
CONSTANTS
  c1 = c1
  c2 = c2
  c3 = c3
  None = None
  OwnClient = c1
  Programs = {"inline", "detached", "tls"}
  Connections = {c1, c2, c3}

SPECIFICATION FairSpec

PROPERTY ImplementsRequestServer
PROPERTY StopWaitsForAClientOnly
PROPERTY ServedUnlessStopped

CHECK_DEADLOCK FALSE

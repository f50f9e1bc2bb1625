\* Up to three datagrams that the network repeats or that strangers send.
CONSTANT MaxExtra = 3

SPECIFICATION FairSpec

 
PROPERTY ClientEnds

CHECK_DEADLOCK FALSE

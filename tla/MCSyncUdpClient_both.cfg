\* What main() prints when nothing it needs is lost.
CONSTANT MaxExtra = 3

SPECIFICATION FairSpec

PROPERTY BothAreAnswered

CHECK_DEADLOCK FALSE

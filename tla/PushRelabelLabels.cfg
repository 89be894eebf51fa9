\* Four vertices, edges of capacity 1.  Deadlock: the computation ends.
CONSTANTS
    N = 4
    SourceCap = 1
    OtherCap = 1
SPECIFICATION PRSpec
INVARIANT ValidLabels
CHECK_DEADLOCK FALSE

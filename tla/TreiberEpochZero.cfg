\* A new reclaimer: the threads pin epoch 0.
CONSTANTS
    Thread = {t1, t2}
    Node = {n1, n2, n3}
    None = None
    AdvanceThreshold = 1
    StartEpoch = 0
    Stale = {}
    Value = {x, y}
    Empty = Empty
    MaxCalls = 3
SYMMETRY Symmetry
SPECIFICATION TSSpec
INVARIANT NoUseAfterFree

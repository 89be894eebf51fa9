\* Two rows: the keys 1 and 2 share a counter of the first, 2 and 3 one of the second.
CONSTANTS
    Item = {1, 2, 3}
    Hash <- ThreeKeys
    Size = 2
    K = 0
    Count = {1, 2}
    Conserved = {2}
    Limit = 4
SPECIFICATION CMSpec
INVARIANT NeverUnderestimates
CHECK_DEADLOCK FALSE

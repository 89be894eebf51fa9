\* Two threads.  The queue: two calls each, three addresses (one is the first
\* sentinel), two values.  The stack's bounds are in the module.  No symmetry, for
\* the liveness properties.
CONSTANTS
    Thread = {t1, t2}
    Node = {n1, n2, n3}
    None = None
    Value = {x, y}
    Empty = Empty
    MaxCalls = 2
SPECIFICATION MCSpec
INVARIANTS
    MSConsistent
    NoUseAfterFree
PROPERTIES
    Linearizable
    EveryCallReturns
    AllReclaimed

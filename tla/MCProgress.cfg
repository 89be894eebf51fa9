\* Consensus: three threads, two values.  Sequencers: two threads on each, two
\* tickets each.  Announce queue: two threads with two calls each, two attempts
\* on the fast path.  Scheduler: three workers, six elements summed one by one.
\* RCU: two readers, two writers, two updates.
CONSTANTS
    Proposer = {p1, p2, p3}
    Value = {x, y}
    NoValue = NoValue
    FAAThread = {f1, f2}
    CASThread = {c1, c2}
    MaxTickets = 2
    N = 2
    FAST_PATH_RETRIES = 2
    MaxCalls = 2
    NumWorkers = 3
    NumElements = 6
    Grain = 1
    MaxReaders = 2
    Writer = {w1, w2}
    MaxUpdates = 2
SPECIFICATION MCSpec
INVARIANTS
    StructuresConsistent
    Agreement
    WorkConserved
    NothingLeftBehind
    NoReaderHoldsFreed
PROPERTIES
    OperationsEnd
    GracePeriodKept

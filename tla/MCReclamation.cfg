\* The stacks: two threads, three addresses, five pushes, pops and scans, then only
\* records given back; every second retire() scans.  The domain alone: four nodes (a
\* list can exceed its bound by one); a crowd of three threads, three records and one
\* node.  The epochs: two nodes retired.
CONSTANTS
    Thread = {t1, t2}
    Node = {n1, n2, n3}
    None = None
    MaxThreads = 2
    ReclaimThreshold = 2
    AdvanceThreshold = 2
    FromOldDomain = {}
    OldId <- MCOldId
    Value = {x, y}
    Empty = Empty
    MaxCalls = 3
    ManyNodes = {n1, n2, n3, n4}
    CrowdThread = {t1, t2, t3}
    CrowdNode = {n4}
    StartEpoch = 1
    Stale = {}
    MaxAllCalls = 5
    MaxEpoch = 3
    MaxRetired = 2
SYMMETRY Symmetry
SPECIFICATION MCSpec
INVARIANTS
    Consistent
    TSConsistent
    NoUseAfterFree
    NoABA
    RecordsAssigned
    BoundedGarbage
    EpochHalts
    SinglyRetired
PROPERTIES
    Linearizable
    GracePeriodSpec

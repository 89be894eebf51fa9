\* Deque: an owner and two thieves, four items, arrays of 1, 2 and 4 slots.
\* Tagged stack: two threads, three addresses, more tags than exchanges.
\* Snapshot: two writers with two updates each, one reader with one scan.
CONSTANTS
    Owner = o
    Thief = {s1, s2}
    NoItem = NoItem
    Garbage = Garbage
    InitialCapacity = 1
    MaxPush = 4
    Thread = {t1, t2}
    Node = {n1, n2, n3}
    None = None
    Value = {x, y}
    Empty = Empty
    TagModulus = 8
    MaxCalls = 3
    Writer = {w1, w2}
    Reader = {r1}
    MaxUpdates = 2
    MaxScans = 1
SYMMETRY Symmetry
SPECIFICATION MCSpec
INVARIANTS
    StructuresConsistent
    AtomicSnapshot
PROPERTIES
    DequeLinearizable
    TaggedLinearizable
    BoundedCollects

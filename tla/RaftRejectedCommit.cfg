\* The constants of MCStores.cfg: 3 Raft servers, 2 elections, logs of 2 entries.
\* StateMachineSafety, as the document has it, is violated.
CONSTANTS
    Key = {1, 2, 3}
    Value = {"x", "y"}
    NoValue = NoValue
    Tombstone = Tombstone
    Absent = Absent
    MemtableThreshold = 2
    L0CompactionThreshold = 2
    MaxLevels = 3
    IndexInterval = 2
    KeyLen <- MCKeyLen
    ValLen <- MCValLen
    LengthModulus = 65536
    MaxLog = 14
    CellOverhead = 2
    SlotSize = 1
    HeaderSize = 2
    PageSize = 14
    MaxPages = 2
    Sentinel = "__TOMBSTONE__"
    TinyThreshold = 2
    MaxTables = 2
    Page = {0, 1, 2, 3, 4, 5}
    Block = {1, 2, 3, 4, 5}
    Capacity = 3
    PScale = 2
    QueueCapacity = 3
    Name = {"n1", "n2", "n3", "n4"}
    Bucket = {"ba", "bb"}
    HashOf <- MCHashOf
    Dentry = {1, 2, 3}
    DcacheCapacity = 2
    Null = Null
    NoName = NoName
    RingNode = {"ra", "rb", "rc"}
    Tokens <- MCTokens
    KeyToken = {0, 1, 2, 3, 4, 5, 6, 7, 8, 9}
    NoNode = NoNode
    CacheCapacity = 3
    VCProcess = {"va", "vb", "vc"}
    MaxTicks = 2
    MaxMessages = 2
    Server = {1, 2, 3}
    Command = {"cx", "cy"}
    MaxTerm = 2
    MaxIndex = 2
SPECIFICATION MCSpec
INVARIANT StateMachineSafety
CHECK_DEADLOCK FALSE

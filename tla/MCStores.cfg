\* Keys 1 to 3 and two values (the module gives two instances of the LSM tree
\* with one value and 4 or 6 keys).  ARC of 3 pages, W-TinyLFU and 2Q of 3, 6 pages and 5 blocks
\* asked for; a directory cache of 2 entries over 4 names, 2 buckets and 3
\* addresses; a ring of 3 nodes with 7 tokens; clocks of 3 processes with 2 ticks
\* each and 2 messages; 3 Raft servers, 2 elections and logs of 2 entries.
\* Deadlock: the page engine stops at its bound of 2 pages.
CONSTANTS
    Key = {1, 2, 3}
    Value = {"x", "y"}
    NoValue = NoValue
    Tombstone = Tombstone
    Absent = Absent
    MemtableThreshold = 2
    L0CompactionThreshold = 2
    MaxLevels = 3
    IndexInterval = 2
    KeyLen <- MCKeyLen
    ValLen <- MCValLen
    LengthModulus = 65536
    MaxLog = 14
    CellOverhead = 2
    SlotSize = 1
    HeaderSize = 2
    PageSize = 14
    MaxPages = 2
    Sentinel = "__TOMBSTONE__"
    TinyThreshold = 2
    MaxTables = 2
    Page = {0, 1, 2, 3, 4, 5}
    Block = {1, 2, 3, 4, 5}
    Capacity = 3
    PScale = 2
    QueueCapacity = 3
    Name = {"n1", "n2", "n3", "n4"}
    Bucket = {"ba", "bb"}
    HashOf <- MCHashOf
    Dentry = {1, 2, 3}
    DcacheCapacity = 2
    Null = Null
    NoName = NoName
    RingNode = {"ra", "rb", "rc"}
    Tokens <- MCTokens
    KeyToken = {0, 1, 2, 3, 4, 5, 6, 7, 8, 9}
    NoNode = NoNode
    CacheCapacity = 3
    VCProcess = {"va", "vb", "vc"}
    MaxTicks = 2
    MaxMessages = 2
    Server = {1, 2, 3}
    Command = {"cx", "cy"}
    MaxTerm = 2
    MaxIndex = 2
SPECIFICATION MCSpec
INVARIANTS
    StructuresConsistent
    GetsLastPut
    CachesSound
    ReplicationExact
PROPERTIES
    NeverShrinks
    MinimalMigration
CHECK_DEADLOCK FALSE

CONSTANTS
    Buffers = {b1, b2, b3, b4}
    Sockets = {s1, s2}
    Tuples = {t1, t2}
    Readers = {r1, r2}
    Keys = {k1, k2, k3}
    Magazines = {m1, m2, m3}
    Names = {n1, n2}
    CrashIn = {"create", "write", "extend", "unlink", "rename", "mkdir", "sync", "fsinfo"}
    NULL = NULL
    RxNum = 3
    TxNum = 3
    TxMinPool = 0
    PoolMax = 3
    MaxBackoff = 8
    Leases = {5, 12}
    QueueMax = 1
    Users = {1, 2, 3}
    Pages = {0, 1, 2}
    MaxLen = 3
    Hashes1 = {0, 1, 3}
    Hashes2 = {0, 1}
    EvictionDepth = 2
    StartSize = 2
    MaxSlots = 8
    Places = {1, 2}
    NumKeep = 2
    CacheEntries = {0, 1, 2}
    Sectors = {0, 1, 2, 3}
    MaxLost = 1
    SendSize = 4
    MaxWrite = 4
    MaxPkt = 2
    MaxSetups = 2
    MaxStatus = 1
    Handles = {h1}
    TopCluster = 4
    ActiveFats = {0}
    Unknown = 3
    MaxSize = 2
    ItemKeys = {1, 2}
    Tags = {1, 2}
    Slack = 1
    DequeMin = 2
    ODequeMin = 4
    MaxUsed = 6
    RingSize = 4
    WordSize = 256
SPECIFICATION Spec
SYMMETRY NamesAlike
CHECK_DEADLOCK FALSE
INVARIANTS
    TypesOK
    RxSlotsStocked
    PacketNoticed
    ServiceTimely
    BackoffCounts
    
    QueuedIsReadable
    FindExact
    ObjectsHeld
    NoCrossLink
    SizeCovered
    NothingLost
    
    Coherent
    ListSound
    ClaimsHeard
    
    ContentExact
    
    TextExact
    
    

SPECIFICATION Spec
CONSTANTS
    Environments = {production}
    HistorySize = 1
    MaxVersion = 3
    Streams = {s1, s2}
    NoStream = NoStream
    i1 = i1
    i2 = i2
    Ids <- MCIds
    NumShards = 2
    ShardOf <- MCShardOf
    BufferSize = 1
    Publishers = {p1, p2}
    Clients = {c1}
    CoarseClock = FALSE
    MaxDrops = 1
    MayShutDown = FALSE
SYMMETRY MCSymmetry
INVARIANTS
    TypeOK
    NoGap
    NoOrphan
    RegisteredAreOpen
    Accounting
    ResumeComplete
PROPERTIES
    ImplementsFeed
CHECK_DEADLOCK FALSE

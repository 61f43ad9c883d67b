SPECIFICATION FairSpec
CONSTANTS
    Environments = {production}
    HistorySize = 2
    MaxVersion = 2
    Streams = {s1, s2}
    NoStream = NoStream
    i1 = i1
    i2 = i2
    Ids <- MCIds
    NumShards = 1
    ShardOf <- MCShardOf
    BufferSize = 1
    Publishers = {p1}
    Clients = {c1}
    CoarseClock = FALSE
    MaxDrops = 1
    MayShutDown = TRUE
INVARIANTS
    NoOrphan
    Accounting
    HistoryOrdered
PROPERTIES
    Converges
CHECK_DEADLOCK FALSE

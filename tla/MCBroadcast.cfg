SPECIFICATION PublisherFairSpec
CONSTANTS
    Environments = {staging, production}
    HistorySize = 1
    MaxVersion = 2
    Streams = {s1}
    NoStream = NoStream
    i1 = i1
    i2 = i2
    Ids <- MCIds
    NumShards = 1
    ShardOf <- MCShardOf
    BufferSize = 1
    Publishers = {p1, p2}
    Clients = {c1}
    CoarseClock = FALSE
    MaxDrops = 1
    MayShutDown = FALSE
INVARIANTS
    CursorInEnvironment
PROPERTIES
    BroadcastCompletes
    ImplementsFeed
CHECK_DEADLOCK FALSE

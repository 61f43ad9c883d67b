SPECIFICATION FairExposuresSpec
CONSTANTS
    Sdks = {web}
    BatchSize = 2
    MaxQueueSize = 3
    MaxBatchSize = 2
    MaxInFlightRows = 2
    Malformed = {2}
    MaxRecords = 5
INVARIANTS
    ExposuresTypeOK
    EveryEventCounted
    SentIsTaken
    AtMostOneCopy
    WriterAccounting
PROPERTIES
    Settles
CHECK_DEADLOCK FALSE

SPECIFICATION ExposuresSpec
CONSTANTS
    Sdks = {web}
    BatchSize = 2
    MaxQueueSize = 3
    MaxBatchSize = 2
    MaxInFlightRows = 2
    Malformed = {2}
    MaxRecords = 5
CHECK_DEADLOCK FALSE
INVARIANT CloseFlushes

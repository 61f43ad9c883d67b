SPECIFICATION FairPlatformSpec
CONSTANTS
    Environments = {production}
    HistorySize = 1
    MaxVersion = 2
    Flags = {checkout}
    Requests = {r1, r2}
    NoRequest = NoRequest
    MaxEdits = 2
    MaxPublishes = 2
    Broken = {2}
    MaxFaults = 1
INVARIANTS
    PlatformTypeOK
    VersionsAreSnapshots
    SnapshotsInOrder
    ServedIsAudited
PROPERTIES
    NeverRollsBack
    PublishedIsServed
CHECK_DEADLOCK FALSE

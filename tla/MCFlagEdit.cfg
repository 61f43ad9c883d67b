SPECIFICATION PlatformSpec
CONSTANTS
    Environments = {production}
    HistorySize = 1
    MaxVersion = 1
    Flags = {checkout}
    Requests = {r1, r2}
    NoRequest = NoRequest
    MaxEdits = 2
    MaxPublishes = 1
    Broken = {}
    MaxFaults = 0
INVARIANTS
    AuditTellsWhatItWas
CHECK_DEADLOCK FALSE

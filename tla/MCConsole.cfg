SPECIFICATION FairConsoleSpec
CONSTANTS
    Environments = {staging, production}
    Nothing = Nothing
    FirstEnvironment = staging
    NoEnvironment = NoEnvironment
    Shared = {production}
    Trees = {empty, t1}
    EMPTY_TREE = empty
    MaxReads = 2
    MaxRules = 1
    MaxWrites = 2
    MaxFaults = 1
INVARIANTS
    ConsoleTypeOK
    ShowsStored
PROPERTIES
    LiveView
    ScreenFrees
CHECK_DEADLOCK FALSE

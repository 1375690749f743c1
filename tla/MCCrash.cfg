SPECIFICATION FairSpec
CONSTANTS
    Size = 3
    Minutes <- MCMinutes
    Period <- MCPeriod
    Threads <- MCThreads
    Procs <- MCProcs
    ProcOf <- MCProcOf
    NoMinute = 0
    NoOwner = "none"
    HourFull = 2
    DayFull = 4
    Fresh = TRUE
    MaxRetries = 0
    Main = "main"
    Workers = {"w1"}
    Daemon = "cm160"
    Readers = {"page"}
    HISTORY_SIZE = 2
    Stored = 2
    Memory = 3
    Mixed <- MCMixed
    MaxDamaged = 1
    QuietDrops = FALSE
    MaxDrops = 0
    MaxCrashes = 1
INVARIANTS
    StatsNested
PROPERTIES
    AllRecordedOnceCreated
    CommittedStays
CHECK_DEADLOCK FALSE

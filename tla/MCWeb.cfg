SPECIFICATION FairSpec
CONSTANTS
    Size = 4
    Minutes <- MCMinutes
    Period <- MCPeriod
    Threads <- MCThreads
    Procs <- MCProcs
    ProcOf <- MCProcOf
    NoMinute = 0
    NoOwner = "none"
    HourFull = 2
    DayFull = 4
    Fresh = FALSE
    MaxRetries = 0
    Main = "main"
    Workers = {"w1"}
    Daemon = "cm160"
    Readers = {"page"}
    HISTORY_SIZE = 2
    Stored = 2
    Memory = 4
    Mixed <- MCMixed
    MaxDamaged = 0
    QuietDrops = FALSE
    MaxDrops = 0
    MaxCrashes = 0
INVARIANTS
    StatsNested
    BlueDayIsComplete
PROPERTIES
    LedgerSpec
    AllRecorded
CHECK_DEADLOCK FALSE

SPECIFICATION FairSpec
CONSTANTS
    Size = 2
    Minutes <- MCMinutes
    Period <- MCPeriod
    Threads <- MCThreads
    Procs <- MCProcs
    ProcOf <- MCProcOf
    NoMinute = 0
    NoOwner = "none"
    HourFull = 2
    DayFull = 4
    Fresh = FALSE
    MaxRetries = 0
    Main = "main"
    Workers = {"w1"}
    Daemon = "cm160"
    Readers = {"page"}
    HISTORY_SIZE = 2
    Stored = 2
    Memory = 2
    Mixed <- MCMixed
    MaxDamaged = 0
    QuietDrops = FALSE
    MaxDrops = 0
    MaxCrashes = 0
PROPERTIES
    PagesServed
CHECK_DEADLOCK FALSE

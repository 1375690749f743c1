SPECIFICATION FairSpec
CONSTANTS
    Size = 3
    Minutes <- MCMinutes
    Period <- MCPeriod
    Threads <- MCThreads
    Procs <- MCProcs
    ProcOf <- MCProcOf
    NoMinute = 0
    NoOwner = "none"
    HourFull = 2
    DayFull = 4
    Fresh = FALSE
    MaxRetries = 0
    Main = "main"
    Workers = {"w1", "w2"}
    Daemon = "cm160"
    Readers = {}
    HISTORY_SIZE = 1
    Stored = 2
    Memory = 1
    Mixed <- MCMixed
    MaxDamaged = 0
    QuietDrops = FALSE
    MaxDrops = 1
    MaxCrashes = 0
PROPERTIES
    CommittedStays
    CallsReturn
CHECK_DEADLOCK FALSE

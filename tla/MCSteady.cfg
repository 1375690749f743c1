SPECIFICATION FairSpec
CONSTANTS
    Size = 4
    Minutes <- MCMinutes
    Period <- MCPeriod
    Threads <- MCThreads
    Procs <- MCProcs
    ProcOf <- MCProcOf
    NoMinute = 0
    NoOwner = "none"
    HourFull = 2
    DayFull = 4
    Fresh = TRUE
    MaxRetries = 0
    Main = "main"
    Workers = {"w1", "w2"}
    Daemon = "cm160"
    Readers = {}
    HISTORY_SIZE = 2
    Stored = 2
    Memory = 3
    Mixed <- MCMixed
    MaxDamaged = 0
    QuietDrops = TRUE
    MaxDrops = 1
    MaxCrashes = 0
INVARIANTS
    TypeOK
    NoMisuse
    CountedAtRest
PROPERTIES
    LedgerSpec
    FilesComplete
    AllRecorded
    AllCounted
    AllBlue
CHECK_DEADLOCK FALSE

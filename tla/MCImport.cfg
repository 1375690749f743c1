SPECIFICATION SystemSpec
CONSTANTS
    Size = 2
    Minutes <- MCMinutes
    Period <- MCPeriod
    Threads <- MCThreads
    Procs <- MCProcs
    ProcOf <- MCProcOf
    NoMinute = 0
    NoOwner = "none"
    HourFull = 2
    DayFull = 4
    Fresh = TRUE
    MaxRetries = 1
    Main = "main"
    Workers = {"w1"}
    Daemon = "cm160"
    Importer = "imp"
    ImportRows = {1, 2}
    OwlTables <- MCOwlTables
    TableNames <- MCTableNames
    ImportFiles <- MCImportFiles
    Readers = {}
    HISTORY_SIZE = 1
    Stored = 2
    Memory = 2
    Mixed <- MCMixed
    MaxDamaged = 0
    QuietDrops = FALSE
    MaxDrops = 0
    MaxCrashes = 0
INVARIANTS
    TypeOK
    StatsNested
PROPERTIES
    CommittedStays
    CallsReturn
    ImportAtomic
CHECK_DEADLOCK FALSE

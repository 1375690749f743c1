SPECIFICATION Spec
CONSTANTS
    LastMinute = 3
    MonthOf <- MCMonthOf
    StrangeMinutes = {2}
    FirstStrange = FALSE
    Mixed <- MCMixed
    Powers = {1, 2}
    Memory = 2
    HISTORY_SIZE = 2
    Workers = {w1, w2}
    MaxStops = 1
    totalPoints = 2
    MaxRequests = 2
INVARIANTS
    TypeOK
    PointsBounded
PROPERTIES
    MonthRight
    TimeNeverGoesBack
    ShowsTheLast
CHECK_DEADLOCK FALSE

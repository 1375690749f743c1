SPECIFICATION EnergySpec
CONSTANTS
    Minutes <- MCMinutes
    Period <- MCPeriod
    NoMinute = 0
    HourFull = 2
    DayFull = 3
    MayRefuse = TRUE
    Date <- MCDate
    Reading <- MCReading
INVARIANTS
    TypeOK
    NeverOvercounts
    BlueIsComplete
    TariffsSeparate
    TotalsNested
    TotalsNearConsumption
CHECK_DEADLOCK FALSE

SPECIFICATION FairSpec
CONSTANTS
    Temps <- MCTemps
    HighLimit = 54
    ReducedLimit = 40
    LowLimit = 0
    Hyst = 2
    FailedReading = 0
    NotMeasured = NotMeasured
    DisableAtBoot = FALSE
    MaxMoves = 2
    MaxFaults = 1
    Charges <- MCCharges
    Cutoff = 2
    Warning = 8
    WarningHyst = 1
    StartTime = 1
    Debounce = 1
    EvalInterval = 1
    NoReport = NoReport
INVARIANTS TypeOK ChargesOnlyWhenAllowed StatusFollows
PROPERTIES ChargeResumes LowBatteryStops

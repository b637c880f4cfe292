SPECIFICATION Spec
CONSTANTS
    Modes <- MCEnabled
    Inputs <- MCAll
    Stores <- MCBooleans
    NetworkWake = FALSE
    ExeMin = 3
    ConnMax = 2
    EarlySleep = 2
    Interval = 1
    KeepAwake = 4
    ShutdownTimeout = 2
    ResetTimeout = 2
    MaxWindow = 5
INVARIANTS ShutdownIsFinal
CHECK_DEADLOCK FALSE

SPECIFICATION Spec
CONSTANTS
    Sizes <- MCSizes
    Limits <- MCLimits
    Inputs <- MCAll
    MaxItems = 4
    MaxBytes = 5
INVARIANTS TypeOK StateMatchesDisk
PROPERTIES QuotaRespected ImplementsDurableFifo
CHECK_DEADLOCK FALSE

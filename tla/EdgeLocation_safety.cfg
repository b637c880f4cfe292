SPECIFICATION Spec
CONSTANTS
    Zones = {z1}
    Verifs <- MCVerifs
    IntervalMin = 1
    IntervalMax = 2
    LockTimeout = 1
    MaxAge = 4
INVARIANTS TypeOK DwellSpent 
PROPERTIES SpacedApart

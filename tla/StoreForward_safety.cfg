SPECIFICATION FairSpec
CONSTANTS
    m1 = m1
    m2 = m2
    m3 = m3
    Messages <- MCMessages
    Quota = 2
    Inputs <- MCAll
    MaxCopies = 2
INVARIANTS TypeOK 
PROPERTIES StoreDrains

SPECIFICATION Spec
CONSTANTS
    m1 = m1
    m2 = m2
    m3 = m3
    Messages <- MCTwo
    Quota = 2
    Inputs <- MCNothing
    MaxCopies = 2
INVARIANTS Kept

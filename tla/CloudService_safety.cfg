SPECIFICATION FairSpec
CONSTANTS
    m1 = m1
    m2 = m2
    m3 = m3
    Messages <- MCMessages
    EndToEnd <- MCTwo
    Forever <- MCOne
    Timeout = 1
    ClockMod = 3
    MaxReq = 2
    MaxSends = 2
    Inputs <- MCAll
INVARIANTS TypeOK OneAnswer SuccessMeansAcked
PROPERTIES AnswerComes KeepsPromise

SPECIFICATION Spec
CONSTANTS
    NumQueues = 2
    MaxEntries = 1
    Publishers <- MCPublishers
    Events <- MCEvents
    Silent <- MCSilent
    Burst = 2
    Interval = 2
    ClockMod = 4
    NoEvent = NoEvent
    p1 = p1
    p2 = p2
    e1 = e1
    e2 = e2
    e3 = e3
SYMMETRY MCSymmetry
INVARIANTS TypeOK ExactlyOneCompletion CapacityBound
PROPERTIES PriorityRespected BurstBound

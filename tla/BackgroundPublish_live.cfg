SPECIFICATION FairSpec
CONSTANTS
    NumQueues = 2
    MaxEntries = 2
    Publishers <- MCOnePublisher
    Events <- MCTwoEvents
    Silent <- MCSilent
    Burst = 2
    Interval = 1
    ClockMod = 3
    NoEvent = NoEvent
    p1 = p1
    p2 = p2
    e1 = e1
    e2 = e2
    e3 = e3
PROPERTIES UrgentServed ImplementsPublishQueue

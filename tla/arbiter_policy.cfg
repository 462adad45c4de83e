SPECIFICATION FairSpec
CONSTANTS
    t1 = t1
    t2 = t2
    t3 = t3
    t4 = t4
    None = None
    NoTicket <- None
    Tickets <- ThreeTickets
    Backend = "file"
    MaxRoute = 1
    Policies <- OnlyPolicy
ACTION_CONSTRAINT StepsInBound
PROPERTIES
    ImplementsOwnership
    StopReachesTarget
    CloseReleasesWorker
    CleanupServed
CHECK_DEADLOCK FALSE

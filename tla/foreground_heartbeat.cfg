SPECIFICATION ForegroundFairSpec
CONSTANTS
    t1 = t1
    t2 = t2
    t3 = t3
    None = None
    NoTicket <- None
    Tickets <- ThreeTickets
    Backend = "server"
    MaxRoute = 0
    Policies <- NoPolicy
PROPERTY HeartbeatWaitEnds
CHECK_DEADLOCK FALSE

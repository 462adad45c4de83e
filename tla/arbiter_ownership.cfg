SPECIFICATION Spec
CONSTANTS
    t1 = t1
    t2 = t2
    t3 = t3
    t4 = t4
    None = None
    NoTicket <- None
    Tickets <- ThreeTickets
    Backend = "server"
    MaxRoute = 0
    Policies <- NoPolicy
SYMMETRY TicketSymmetry
INVARIANTS
    TypeOK
    SingleOwner
    RemoteAccounted
    TeardownFence
    CleanupKept
PROPERTIES
    SettledIsFinal
    StopFencesTransport
CHECK_DEADLOCK FALSE

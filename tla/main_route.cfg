SPECIFICATION Spec
CONSTANTS
    MaxCommands = 2
    MaxStops = 2
    MaxTickets = 4
    MaxIntents = 2
INVARIANTS
    TypeOK
    RepliesInOrder
    OnlyAdmittedRuns
    PolicyAccepts
PROPERTIES
    LossIsPublished
CHECK_DEADLOCK FALSE

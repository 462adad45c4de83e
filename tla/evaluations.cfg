SPECIFICATION FairSpec
CONSTANTS
    e1 = e1
    e2 = e2
    w1 = w1
    w2 = w2
    NoReceipt = NoReceipt
    Receipts <- TwoReceipts
    HistoryLimit = 1
    Waiters <- TwoWaiters
INVARIANTS
    TypeOK
    PausedMeansQuiet
PROPERTIES
    OutcomeIsFinal
    CellRetires
    AnsweredWaiterReturns
CHECK_DEADLOCK FALSE

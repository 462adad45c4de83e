SPECIFICATION Spec
CONSTANTS
    a = a
    b = b
    x = x
    v = v
    m = m
    n = n
    nb = nb
    Units <- OneUnit
    Methods <- NoMethods
    Worker = nb
    Marks <- NoMarks
    Callers <- OneCaller
    MaxGen = 2
INVARIANT BrokenOnlyByLoss
CHECK_DEADLOCK FALSE

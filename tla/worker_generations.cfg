SPECIFICATION Spec
CONSTANTS
    a = a
    b = b
    x = x
    v = v
    m = m
    n = n
    nb = nb
    Units <- OneUnit
    Methods <- TwoMethods
    Worker = nb
    Marks <- MarksInNotebook
    Callers <- TwoCallers
    MaxGen = 3
SYMMETRY CallerSymmetry
INVARIANTS
    RefcountsExact
    PinnedStaysLive
    TargetAgrees
    LoadsCompose
    SlotsMatch
CHECK_DEADLOCK FALSE

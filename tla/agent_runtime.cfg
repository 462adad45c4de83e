SPECIFICATION FairSpec
CONSTANTS
    s1 = s1
    s2 = s2
    r1 = r1
    r2 = r2
    none = none
    NoOp = none
    Startups <- TwoStartups
    Runs <- OneRun
    MaxRefusals = 1
    MaxBackend = 2
    MaxCrashes = 2
INVARIANTS
    TypeOK
    AnswersLast
    DispatchIsJournalled
    RuntimeOwned
    AbortCoversGeneration
PROPERTY AcceptedEnds
CHECK_DEADLOCK FALSE

SPECIFICATION RestartingSpec
CONSTANTS
    s1 = s1
    s2 = s2
    r1 = r1
    r2 = r2
    none = none
    NoOp = none
    Startups <- OneStartup
    Runs <- NoRuns
    MaxRefusals = 0
    MaxBackend = 2
    MaxCrashes = 1
PROPERTY RestartUnwedges
CHECK_DEADLOCK FALSE

SPECIFICATION Spec
CONSTANTS
    r1 = r1
    s1 = s1
    r2 = r2
    Roots <- ThreeRoots
    Casefold <- TwoVariables
    PointSets <- TwoPoints
    InitialPoints = "original"
    MaxCells = 1
    MaxAttempts = 1
    MaxResumes = 2
SYMMETRY SpellingSymmetry
INVARIANTS
    TypeOK
    EffectsOnce
    ContinueCarriesEveryChange
    EvidenceNotOptimistic
PROPERTIES
    RollbackIsClean
CHECK_DEADLOCK FALSE

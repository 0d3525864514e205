CONSTANTS
    s1 = s1
    s2 = s2
    w1 = w1
    w2 = w2
    Subs <- MCSubs
    Workers <- OneWorker
    Tier <- MCTier
    Length = 2
    Window = 4
    MaxTime = 3
    MaxCycles = 6
    MaxCrashes = 1
SPECIFICATION Spec
CHECK_DEADLOCK FALSE
INVARIANTS CoveredOnce WithinLimit
PROPERTY DueIsServed

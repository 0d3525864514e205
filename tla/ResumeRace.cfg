SPECIFICATION Spec
CONSTANTS
    w1 = w1
    w2 = w2
    Workers <- MCWorkers
    Monitor = monitor
    MaxSessions = 1
    MaxTime = 1
    MaxCount = 1
    Followed <- Harmless
SYMMETRY Symmetry
INVARIANTS ResumeReenablesBilling

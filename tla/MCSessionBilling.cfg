SPECIFICATION Spec
CONSTANTS
    w1 = w1
    w2 = w2
    Workers <- MCWorkers
    Monitor = monitor
    MaxSessions = 1
    MaxTime = 2
    MaxCount = 2
    Followed <- Harmless
SYMMETRY Symmetry
INVARIANTS TypeOK NeverOvercharged ChargedToTheSecond OneSettlement

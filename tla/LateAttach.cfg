SPECIFICATION Spec
CONSTANTS
    w1 = w1
    w2 = w2
    Workers <- MCWorkers
    Monitor = monitor
    MaxSessions = 2
    MaxTime = 2
    MaxCount = 2
    Followed <- MCLate
SYMMETRY Symmetry
INVARIANTS NeverOvercharged

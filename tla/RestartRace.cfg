SPECIFICATION Spec
CONSTANTS
    w1 = w1
    w2 = w2
    Workers = {w1}
    Monitor = monitor
    MaxSessions = 2
    MaxTime = 1
    MaxCount = 1
    Followed <- Harmless
INVARIANTS LiveSessionIsCached

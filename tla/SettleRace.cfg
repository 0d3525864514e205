SPECIFICATION Spec
CONSTANTS
    w1 = w1
    w2 = w2
    Workers = {w1}
    Monitor = monitor
    MaxSessions = 1
    MaxTime = 2
    MaxCount = 2
    Followed <- MCSettlement
INVARIANTS NeverOvercharged

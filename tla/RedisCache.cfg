CONSTANTS
    Shared = FALSE
    Multiplier = 1
    Threshold <- MCThreshold
    Window <- MCWindow
    LowBalance = 3
    LowTTL = 1
    TTL = 3
    Enough = 2
    Start <- MCStart
    Top = 9
    MaxOwed = 10
    MaxEvents = 0
    MaxFaults = 0
SPECIFICATION Spec
CHECK_DEADLOCK FALSE
INVARIANT NeverOvercharged

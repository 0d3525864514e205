CONSTANTS
    Shared = TRUE
    Multiplier = 1
    Threshold <- MCThreshold
    Window <- MCWindow
    LowBalance = 3
    LowTTL = 1
    TTL = 3
    Enough = 5
    Start <- MCStart
    Top = 9
    MaxOwed = 10
    MaxEvents = 0
    MaxFaults = 3
SPECIFICATION Spec
CHECK_DEADLOCK FALSE
PROPERTY RefusedIsStopped

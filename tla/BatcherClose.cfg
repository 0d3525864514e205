SPECIFICATION Spec
CONSTANTS
    a1 = a1
    a2 = a2
    s1 = s1
    s2 = s2
    Callers <- MCCallers
    Loop = loop
    Slots <- MCSlots
    BatchSize = 2
    MaxBufferSize = 3
    MaxRecords = 4
INVARIANTS CloseWaitsForAllData
CHECK_DEADLOCK FALSE

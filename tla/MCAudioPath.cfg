SPECIFICATION Spec
CONSTANTS
    MaxPackets = 3
    QueueSize = 1
    BufferSize = 2
    Tries = 1
    MaxConns = 2
    MaxFaults = 2
INVARIANTS HandedOnce OneSilentLoss OneConnection
PROPERTY LossIsNoticed
CHECK_DEADLOCK FALSE

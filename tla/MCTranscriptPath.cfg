CONSTANTS
    MaxResults = 3
    MaxGenerations = 2
    QueueSize = 1
    OverflowSize = 1
    PendingSize = 2
    BatchSize = 2
    w1 = w1
    Inserters <- MCInserters
SPECIFICATION Spec
CHECK_DEADLOCK FALSE
INVARIANTS TypeOK RightMeeting
PROPERTIES NothingLostSilently Drains

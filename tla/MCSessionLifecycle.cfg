SPECIFICATION Spec
CONSTANTS
    w1 = w1
    Workers <- MCWorkers
    MaxSessions = 2
    MaxMeetings = 1
    Kinds = {"health", "cleanup"}
CONSTRAINT Followed
INVARIANT LiveIsRegistered
INVARIANT NobodyBilledUnseen
INVARIANT NoLeakedRemote
INVARIANT StoppedIsSettled
PROPERTY AbandonedStops
CHECK_DEADLOCK FALSE

SPECIFICATION Spec
CONSTANTS
    w1 = w1
    Workers <- MCWorkers
    MaxSessions = 1
    MaxMeetings = 1
    Kinds = {}
PROPERTY PausedStaysPaused
CHECK_DEADLOCK FALSE

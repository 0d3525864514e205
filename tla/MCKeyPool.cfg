SPECIFICATION PoolSpec
CONSTANTS
    c1 = c1
    c2 = c2
    NumKeys = 2
    Attempts <- MCAttempts
    MaxConn <- MCMaxConn
    Weight <- MCWeight
    MinSample = 2
    HalveAt = 5
    MaxCount = 6
SYMMETRY Symmetry
INVARIANTS SlotsMatchHolders RoundRobinStarvesNone

CONSTANTS
    a = a
    b = b
    s = s
    Nobody = Nobody
    Reqs <- MCReqs
    Kind <- MCKind
    Need <- MCNeed
    Quotas <- ThreeTotal
    TierOf <- ThreeTier
    MaxLapsed = 1
    MaxFaults = 1
SPECIFICATION QuotaSpec
CHECK_DEADLOCK FALSE
INVARIANT NoCircle

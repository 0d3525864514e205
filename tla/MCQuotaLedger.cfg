CONSTANTS
    a = a
    b = b
    s = s
    Nobody = Nobody
    Reqs <- MCReqs
    Kind <- MCKind
    Need <- MCNeed
    Quotas <- MCTotal
    TierOf <- MCTier
    MaxLapsed = 2
    MaxFaults = 1
SPECIFICATION QuotaSpec
CHECK_DEADLOCK FALSE
INVARIANTS QuotaKept SummaryAgrees UsageAgrees OnlyExpiryCircles
PROPERTY Answered

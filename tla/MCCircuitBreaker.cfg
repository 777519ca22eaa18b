CONSTANTS
    Callers = {p1, p2, p3}
    MaxRequests = 2
    Interval = 2
    Timeout = 2
    MinRequests = 2
    FailurePercent = 60
    MaxReaders = 2
    MaxGeneration = 5
    RequestCap = 3

SPECIFICATION MCSpec

INVARIANTS
    TypeOK
    CountsAccountForCalls
    HalfOpenQuota
    NoHalfOpenLockout
    OpenIsIdle

PROPERTIES
    OpenHoldsForTimeout
    ClosesOnFullEvidence
    OpenEnds
    HalfOpenResolves

CONSTANTS
    Callers = {p1, p2}
    MaxRequests = 1
    Interval = 2
    Timeout = 1
    MinRequests = 2
    FailurePercent = 60
    MaxReaders = 1
    MaxGeneration = 20
    RequestCap = 6
    TokenUnits = 1
    Limits <- MCLimits
    Strategy = "block"
    MaxElapsed = 1
    MaxPolls = 0
    MaxRetries = 1
    InitialDelay = 2
    Multiplier = 2
    MaxDelay = 2

SPECIFICATION MCSpec

INVARIANTS
    AtMostOneLateCall

PROPERTIES
    
    UsesBreaker

CONSTANTS
    Callers = {p1, p2}
    TokenUnits = 3
    Limits <- MCLimits
    Strategy = "block"
    MaxElapsed = 6
    MaxPolls = 2

SPECIFICATION MCSpec

INVARIANTS
    WithinLimit

PROPERTIES
    
    CancelledWaitReturns

CONSTANTS
    MaxSaid = 1
    Holders = {h1}

SPECIFICATION FlagsSpec

INVARIANTS
    ScalarsByPriority
    
    
    StoredFlagsAreValidated
    OverridesHold

\* a load may fail
CHECK_DEADLOCK FALSE

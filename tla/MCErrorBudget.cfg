CONSTANTS
    Callers = {c1, c2}
    Reporters = {r1}
    MaxSnapshots = 3
    Hour = 2
    Window = 4
    One = 5
    Target = 3
    Warning = 1
    Policies <- MCPolicies
    MaxTime = 2
    MaxRecords = 4

SYMMETRY MCSymmetry

SPECIFICATION Spec

INVARIANTS
    HistoryIsLatest
    


    

\* every report made, the bounds used up
CHECK_DEADLOCK FALSE

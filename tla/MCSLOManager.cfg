CONSTANTS
    Windows <- MCWindows
    MaxCalculations = 4

SPECIFICATION Spec

INVARIANTS
    TypeOK
    BudgetsFollowValues

PROPERTIES
    StopEndsMonitoring
    StopReturns
    EveryWindowMeasured

\* a manager that has stopped has nothing left to do
CHECK_DEADLOCK FALSE

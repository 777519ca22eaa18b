CONSTANTS
    Main = main
    Loops = {a1}
    Subscribers = {s1}
    MaxPending = 2
    LastContent = 2
    Reverts = FALSE
    MaxStarts = 1
    MaxCloses = 1

SPECIFICATION HotFairSpec

INVARIANTS
    HotTypeOK
    ClosedStaysClear
    CallbacksKeepUp

PROPERTIES
    
    AutoReloadConverges
    HotReloadConverges

\* a process that has crashed does nothing more
CHECK_DEADLOCK FALSE

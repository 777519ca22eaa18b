CONSTANTS
    Records = {r1}
    MaxConcurrentReconciles = 1
    FlagValues = {"true", "false"}
    MaxEdits = 3
    MaxLoads = 2
    MaxCrashes = 1

SPECIFICATION FairSpec

INVARIANTS
    ProcessedHasFinalizer
    NothingForgotten

PROPERTIES
    LivesAsPromised
    StatusIsCurrent
    DeletionCompletes
    SpecObserved

\* with the bounds used up and every object gone, nothing is left to do
CHECK_DEADLOCK FALSE

CONSTANT MaxSaid = 1

SPECIFICATION Spec

INVARIANTS
    FlagsFollowEnvironment

\* a load ends
CHECK_DEADLOCK FALSE

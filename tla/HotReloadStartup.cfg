CONSTANTS
    Main = main
    Loops = {}
    Subscribers = {}
    MaxPending = 0
    LastContent = 1
    Reverts = FALSE
    MaxStarts = 0
    MaxCloses = 0

SPECIFICATION HotFairSpec

PROPERTIES
    HotReloads

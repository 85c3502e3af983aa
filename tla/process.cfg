SPECIFICATION FairSpec
CONSTANTS
    MaxStarts = 2
    MaxWindows = 1
    MaxLaunches = 2
    MaxClients = 2
    MaxPushes = 2
    MaxBus = 2
INVARIANTS
    TypeOK
    EosNotLost
PROPERTIES
    StopEnds
    ServesOnce
CHECK_DEADLOCK FALSE

SPECIFICATION FairSpec
CONSTANTS
    MaxConnects = 2
    MaxInbound = 1
    MaxCandidates = 1
    MaxRaces = 0
PROPERTIES
    ConnectResolves
CHECK_DEADLOCK FALSE

SPECIFICATION Spec
CONSTANTS
    MaxConnects = 2
    MaxInbound = 1
    MaxCandidates = 1
    MaxRaces = 0
INVARIANTS
    WsAssertHolds
CHECK_DEADLOCK FALSE

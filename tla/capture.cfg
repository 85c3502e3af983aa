SPECIFICATION FairSpec
CONSTANTS
    MaxStarts = 2
    MaxStops = 2
INVARIANTS
    TypeOK
    NoTaskOnReleased
PROPERTY StopEndsService
CHECK_DEADLOCK FALSE

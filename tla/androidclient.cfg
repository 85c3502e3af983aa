SPECIFICATION Spec
CONSTANTS
    MaxStarts = 3
    MaxWindows = 3
    MaxLaunches = 2
INVARIANTS
    TypeOK
    RendersOnLiveWindow
    DrawsOwnObjects
    PadHandlersHavePipeline
CHECK_DEADLOCK FALSE

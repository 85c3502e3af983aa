SPECIFICATION FairSpec
CONSTANT MaxWindows = 2
INVARIANTS
    TypeOK
    FreedIsQuiet
    PipelineShared
    PlayingIsOwned
PROPERTY AttemptEnds
CHECK_DEADLOCK FALSE

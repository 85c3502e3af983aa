SPECIFICATION FairSpec
CONSTANT MaxFrames = 8
INVARIANTS
    TypeOK
    OneOwner
    TimeOfSameFrame
    FramesBounded
PROPERTIES
    ShowsNewestOnly
    DecodedIsShown
CHECK_DEADLOCK FALSE

SPECIFICATION FairSpec
CONSTANTS
    a1 = a1
    a2 = a2
    Addr = {a1, a2}
    NULL = NULL
    MaxAccepts = 3
    MaxInbound = 1
    MaxCandidates = 1
INVARIANTS
    TypeOK
    NamesNeverCollide
    BinsFollowClients
    BinRefsBalanced
    RemovalKeepsAudio
    SlotOwnsChannel
    LoopWaitsOnRunningBin
PROPERTIES
    ServesEachClientOnce
    EveryClientOffered
    ClosedClientRemoved
CHECK_DEADLOCK FALSE

SPECIFICATION FairSpec
CONSTANTS
    MaxConnects = 2
    MaxInbound = 1
    MaxCandidates = 1
    MaxRaces = 1
INVARIANTS
    TypeOK
    LiveAttemptIsControlled
    SessionFieldsAgree
    NothingLeftRunning
    StatusTellsSession
    SessionAssertsHold
PROPERTIES
    OneSessionAtATime
    OffersAnswered
CHECK_DEADLOCK FALSE

SPECIFICATION Spec
CONSTANTS
    MaxStarts = 1
    MaxStops = 0
PROPERTY CleanupSurvivesShutdown
CHECK_DEADLOCK FALSE

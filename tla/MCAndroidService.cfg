SPECIFICATION AndroidFairSpec
CONSTANTS
    MaxCalls = 2
CHECK_DEADLOCK FALSE
INVARIANTS
    AndroidTypeOK
    PortIsFreed
PROPERTIES
    StopEndsLoops

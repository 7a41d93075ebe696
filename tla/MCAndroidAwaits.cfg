SPECIFICATION AndroidFairSpec
CONSTANTS
    MaxCalls = 2
CHECK_DEADLOCK FALSE
PROPERTIES
    AwaitsDevice

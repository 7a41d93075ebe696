SPECIFICATION ProgramsSpec
CONSTANTS
    Peer = {c1, c2}
    MaxStarts = 3
    Slot = {s1, s2}
    Capacity = 1
    Window = 2
    MaxSamples = 3
    NoSlot = NoSlot
    Fetch = {q1, q2}
    MaxChanges = 3
    Request = {r1, r2}
    ServiceName = {"s", "t"}
    Address = {1, 2}
    MaxReports = 2
    MaxEvents = 4
    Id = {1, 2}
    Bus = {"1-1", "2-1"}
    MaxDevices = 3
    MaxConfigs = 2
    MaxInterfaces = 2
    MaxEndpoints = 1
    Omitted = 19
INVARIANTS
    ProgramsTypeOK
    ThreadsCanBeStopped
    DeliveredIsTrue
    DecodedIsEncoded
PROPERTIES
    ConsoleCatchesUp
    EndingsEnd
CHECK_DEADLOCK FALSE

SPECIFICATION MCSpec
CONSTANTS
    Target = {t1, t2}
    BusidOf <- SameBusid
    Handler = {h1, h2}
    Task = {1, 2}
    NumPorts = 2
    None = None
    Server = {a}
    Named = {a}
    MaxJobs = 2
    NoServer = NoServer
CHECK_DEADLOCK FALSE
INVARIANTS
    TypeOK
    RunningIsManaged
    DuplicatesAreConcurrent
    DiscoveryGivesBack
PROPERTIES
    CancelledWindsDown
    CancelledLoopEnds
